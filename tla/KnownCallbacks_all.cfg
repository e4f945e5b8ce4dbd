SPECIFICATION Spec
CONSTANTS
  Names <- ThreeNames
  ClassFactory <- Factories
  Inputs <- AllInputs
  None = None
INVARIANTS
  TypeOK
  CallbacksMarked
  OnlyCallbacksMarked
  ExportedFunctionsMarked
  ItemsInOrder
  ClassesReplaced
PROPERTIES
  Terminates
