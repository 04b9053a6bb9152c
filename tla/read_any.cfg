SPECIFICATION Spec
CONSTANTS
  d1 = d1
  d2 = d2
  Devices = {d1, d2}
  Addresses = {1, 2, 3}
  Pointers <- MCPointers
  Dvas <- MCDvas
  Unchecked = {"U"}
  Packed = {"A", "L1"}
  Sealed = {"S"}
  Volumes <- MCVolumes
  MayFailLimit = 3
  WINDOWS = 1
  Budget = 3
  MaxDepth = 1
  MaxBad = 2
INVARIANTS
  AGoodCopyIsFound
  OnlyUncheckedBlocksAreWrong
  KeepsTheBestSide
PROPERTIES
  NothingAskedAfterStop
