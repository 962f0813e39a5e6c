SPECIFICATION Spec
CONSTANTS
  Proper <- Ids
  Begins <- Beginnings
  Dashed = {"-t", "-l", "-a"}
  Input <- AllInput
INVARIANTS IInv OptionsAsASet OneSection DefinedIsFound
PROPERTIES NothingOverwritten
