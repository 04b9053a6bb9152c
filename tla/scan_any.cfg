SPECIFICATION Spec
CONSTANTS
  Vdevs <- MCVdevs
  Members <- MCMembers
  Tables <- MCTables
  Edge = 4
  MaxDamage = 4
INVARIANTS
  BaseIsProven
  AConfigurationIsFound
  RingsStandIn
