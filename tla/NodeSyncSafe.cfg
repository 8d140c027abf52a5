CONSTANTS
  c1 = c1  c2 = c2  NoConn = NoConn  NoRev = NoRev
  r1 = r1  r2 = r2
  Contents = {r1, r2}
  Dispatchers = {"d1"}
  Conns = {c1, c2}
  QueueCap = 1
  MaxEdits = 1
  MaxIds = 4
  LocalRules = TRUE
  Events = {"drop", "timeout", "reject", "restart"}

SPECIFICATION SyncSpec

CHECK_DEADLOCK FALSE

SYMMETRY Symmetry

INVARIANTS SyncTypeOK SyncedOrFlagged SuccessMeansApplied
