SPECIFICATION FairSpec
CONSTANTS
  c1 = c1
  c2 = c2
  Clients = {c1, c2}
  Rulesets <- MCRulesets
  maxConnsPerPort = 1
  PoolSizes = {0, 1}
  Present = {"docker4", "ufw4", "in4", "in6"}
  Extras <- MCExtras
  Callers = {1, 2}
  IPv6 = {3, 4}
  Loopback = {3}
  Kinds <- MCKinds
  Plans <- MCPlans
INVARIANTS TypeOK FreshTarget
PROPERTIES InForce CutFreed
CHECK_DEADLOCK FALSE
