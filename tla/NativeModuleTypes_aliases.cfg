SPECIFICATION Spec
CONSTANTS
  nameA = nameA
  nameB = nameB
  nameD = nameD
  Names <- AllNames
  BuiltIns <- BuiltInD
  Types <- SmallTypes
  Modules <- SmallModules
  MaxStack = 12
  None = None
INVARIANTS
  TypeOK
  ResolvingOnStack
  OnlyCyclesUnresolved
PROPERTIES
  EntriesStable
  AliasCyclesStop
