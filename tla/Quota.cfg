CONSTANTS
  n1 = n1  n2 = n2  r1 = r1  r2 = r2  u1 = u1  c1 = c1  h1 = h1
  Users = {u1}
  Nodes = {n1, n2}
  Rules = {r1, r2}
  Owner <- MCOwner
  RuleSets <- MCRuleSets
  Hops <- MCHops
  Via <- MCHops
  OneWay = {n1}
  Rate <- MCRate
  Samples <- MCSamples
  Quotas = {0, 1}
  Checkers = {c1}
  Handlers = {h1}
  MaxLimited = 1
  MaxUsed = 1
  MaxCycle = 1
  MaxEdits = 1
  Events = {"dbfail", "proxy", "quota", "grant", "resetgrant", "toggle", "reset", "expire"}

SPECIFICATION FairSpec

CHECK_DEADLOCK FALSE

INVARIANTS TypeOK  
 
