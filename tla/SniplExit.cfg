SPECIFICATION Spec
CONSTANTS
  Images = 2
  Types = {"VM"}
  Rest = 6
  Faults = {"refusal"}
INVARIANTS ZeroMeansAllDone
