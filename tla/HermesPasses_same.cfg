SPECIFICATION PassSpec
CONSTANTS
  Programs <- FinallyPrograms
  None = None
INVARIANTS
  SameClasses
