SPECIFICATION Spec
CONSTANTS
  Names = {"a", "b"}
  Snaps = {"s"}
  Kinds = {"zfs"}
  MaxTxg = 3
  MaxObject = 20
  MaxGone = 1
PROPERTY HistoryIsTheScript
INVARIANTS RecoverFindsIt PendingIsHeld MissingIsTold
CHECK_DEADLOCK FALSE
