SPECIFICATION Spec
CONSTANTS
  Hashes <- OneHash
  UserNames <- NoNames
  Prologues <- AllPrologues
  Options <- Legacy
  Programs <- Nesting
  None = None
INVARIANTS
  NestedInitDataStays
