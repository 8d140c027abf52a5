CONSTANTS
  c1 = c1  c2 = c2  NoConn = NoConn  NoRev = NoRev
  r1 = r1  r2 = r2
  Contents = {r1, r2}
  Dispatchers = {"d1", "d2"}
  Conns = {c1}
  QueueCap = 2
  MaxEdits = 2
  MaxIds = 3
  LocalRules = FALSE
  Events = {}

SPECIFICATION SyncSpec

CHECK_DEADLOCK FALSE

INVARIANTS SyncedOrFlagged
