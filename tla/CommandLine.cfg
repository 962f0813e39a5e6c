CONSTANTS
  a = a
  b = b
  p = p
  q = q
  Process = {p, q}
  Image = {a, b}
  Command = {"reset", "activate"}
  Tick = {0, 1}
  Rand <- MCRand
  Pid <- MCPid
  Plan <- CommandLinePlan
  Dialog = {}
  Faults = {"lost", "large"}
  MaxNoise = 1
SPECIFICATION Spec
INVARIANTS AckIsOwn
PROPERTIES OwnEventDecides
CHECK_DEADLOCK FALSE
