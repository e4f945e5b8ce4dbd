SPECIFICATION TransformSpec
CONSTANTS
  None = None
  MaxItems = 3
  Sources <- SmallSources
  Types <- CommandTypes
  Names <- SomeNames
  Inputs <- Families
INVARIANTS
  TypeOK
  ErrorLeavesModule
  OtherItemsKept
  ExportsPreserved
  SchemaComplete
PROPERTIES
  ImplementsVisitor
  Terminates
