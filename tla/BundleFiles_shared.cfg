SPECIFICATION Spec
CONSTANTS
  m1 = m1
  m2 = m2
  m3 = m3
  m4 = m4
  short = short
  long = long
  common = common
  Transforms = {1, 2}
  Modules <- FourModules
  Hashes = {1, 2}
  Contents <- ThreeContents
  Files <- EmittedFiles
  Size <- Lengths
  Absent = Absent
INVARIANTS
  TypeOK
  TornFilesExplained
  ServedFilesReadable
