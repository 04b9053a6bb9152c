SPECIFICATION Spec
CONSTANTS
  Disks = {1, 2, 3, 4, 5}
  Starts <- MCStarts
  Remembered <- MCRemembered
  Bases = {0, 1}
  MaxTxg = 3
  MaxLost = 1
  MaxAssumed = 1
INVARIANTS
  AssemblyIsThePool
  ReadableTells
  BoundIsProven
  OrderIsFound
