SPECIFICATION Spec
CONSTANTS
  nameA = nameA
  nameB = nameB
  nameD = nameD
  Names <- AllNames
  BuiltIns = {}
  Types <- PairTypes
  Modules <- PairModules
  MaxStack = 12
  None = None
INVARIANTS
  NoUnresolvedReference
