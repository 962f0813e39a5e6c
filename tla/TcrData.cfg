SPECIFICATION Spec
CONSTANTS
  DSM_STACK_DEPTH = 4
  Sent <- AllSent
INVARIANTS RecordAsWritten StackIsPath CompleteIsAccepted
PROPERTIES RootIsFinal
