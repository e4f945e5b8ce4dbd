SPECIFICATION Spec
CONSTANTS
  Hashes <- TwoHashes
  UserNames <- TakenName
  Prologues <- AllPrologues
  Options <- AllBuilds
  Programs <- AllPrograms
  None = None
INVARIANTS
  TypeOK
  FramesMatchFunctions
  ScopableInLists
  NoWorkletMissed
  FreshInitData
  InitDataInScope
  SerializedCodeClosed
  DiskClosed
  ResultUsable
