SPECIFICATION Spec
CONSTANTS
  a = a
  b = b
  A = A
  up = up
  manifest = manifest
  NObjects = 6
  Names <- MCNames
  Folded <- MCFolded
  Climbing = {up}
  Manifest = manifest
  MaxDepth = 1
  Datasets <- MCDatasets
  CommandLines <- MCCommandLines
CHECK_DEADLOCK FALSE
INVARIANTS
  ManifestTells
  StatusTells
  ObjectsAreTheDataset
