SPECIFICATION Spec
CONSTANTS
  Hashes <- OneHash
  UserNames <- TakenName
  Options <- AllOptions
  Programs <- AllPrograms
  None = None
INVARIANTS
  TypeOK
  SerializesOwnBody
  ScopableInLists
  InitDataInScope
  ReplacedOrRefused
