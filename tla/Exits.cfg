CONSTANTS
  n1 = n1  r1 = r1  u1 = u1  x1 = x1  x2 = x2  url = url  e1 = e1
  Users = {u1}
  Exits = {x1, x2}
  Rules = {r1}
  Nodes = {n1}
  Owner <- MCOwner
  Target <- MCTarget
  HopNodes <- MCHopNodes
  Urls = {url}
  Sources <- MCSources
  Entries = {e1}
  Admins = {"a1"}
  Loaders = {"page"}
  Quotas = {0, 1}
  MaxUsed = 1
  Kinds <- MCKinds
  Plans <- MCPlans

SPECIFICATION FairSpec

CHECK_DEADLOCK FALSE

INVARIANTS TypeOK ExitsPushed
PROPERTIES RowsFollow EventuallyStopped
