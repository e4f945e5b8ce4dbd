SPECIFICATION Spec
CONSTANTS
  Hashes <- OneHash
  UserNames <- TakenName
  Options <- AsWritten
  Programs <- ContextPrograms
  None = None
INVARIANTS
  NestedOnlyOnRequest
