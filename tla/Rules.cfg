CONSTANTS
  n1 = n1  n2 = n2  n3 = n3  c1 = c1  u1 = u1  u2 = u2  x1 = x1  x2 = x2  q1 = q1  q2 = q2
  Physical = {n1, n2}
  Children <- MCChildren
  EntryRole = {n1, c1}
  ViaRole = {n2}
  Bindings <- MCBindings
  Users = {u1}
  Exits = {x1}
  Protos = {"tcp", "tcp+udp"}
  Ports = {1, 2}
  Asked = {0, 2}
  Addresses = {0, 1}
  Ranges = {{1, 2}, {2}}
  Paths <- MCPaths
  Chains <- MCChains
  OwnerOf <- MCOwnerOf
  MaxForwards = 3
  Requests = {q1, q2}
  MaxRules = 2
  Kinds <- MCKinds
  Plans <- MCPlans
  FirstNoDirect <- MCNoDirect
  FirstRelays <- MCRelays

SPECIFICATION Spec
SYMMETRY Symm
CHECK_DEADLOCK FALSE

INVARIANTS TypeOK PortsExclusive ChainAgrees LiveMatches 
