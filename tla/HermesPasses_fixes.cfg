SPECIFICATION PassSpec
CONSTANTS
  Programs <- BothPrograms
  None = None
INVARIANTS
  PassTypeOK
  DepthCountsFinalizers
  VisitorWrapsOutermost
PROPERTIES
  ImplementsFixes
