SPECIFICATION FairSpec
CONSTANTS
  Cpu <- MCCpu
  Defined = {"ICF"}
  ProcMax <- MCProcMax
  Model = {"401", "402", "403"}
  Msu <- MCMsu
  Job <- MCJob
  Operated <- MCOperated
  Correlator <- MCTwoCalls
  Real = 2
  Test = 1
  Faults <- MostFaults
  MaxNoise = 1
  MaxOperator = 1
INVARIANTS IInv ZeroMeansDone
PROPERTIES DoneAsMeant EveryCallEnds
