SPECIFICATION FairSpec
CONSTANTS
  Images = 2
  Types = {"VM", "LPAR"}
  Rest = 2
  Faults <- MostFaults
INVARIANTS IInv OutcomeIsOwn EveryImageTried TokenIsKept
PROPERTIES SniplEnds
