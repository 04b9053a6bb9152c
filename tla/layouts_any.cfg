SPECIFICATION Spec
CONSTANTS
  Pools <- MCPools
  Offsets <- MCOffsets
  Sizes <- MCSizes
  RowHeight = 2
  SwapEvery = 4
  MaxNesting = 1
  MaxRemoved = 2
  MaxLost = 3
  MaxRotten = 2
INVARIANTS
  TolerableLossIsRead
  MovedBlocksAreRead
CHECK_DEADLOCK FALSE
