SPECIFICATION Spec
CONSTANTS
  Input <- AllInput
INVARIANTS IInv ParsedAsWritten RightSection CommandLineWins NamesAreKept CommandsAsTold
