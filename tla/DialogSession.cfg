CONSTANTS
  a = a
  b = b
  p = p
  q = q
  Process = {p, q}
  Image = {a, b}
  Command = {"reset", "activate", "send_opsys"}
  Tick = {0, 1}
  Rand <- MCRand
  Pid <- MCPid
  Plan <- DialogPlan
  Dialog = {q}
  Faults = {"send_error", "wait_error", "partial"}
  MaxNoise = 0
SPECIFICATION FairSpec
INVARIANTS IInv
CHECK_DEADLOCK FALSE
PROPERTIES ImplementsPromise EveryCommandReturns
