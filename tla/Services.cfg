SPECIFICATION FairSpec
CONSTANTS
  Services = {"s"}
  Nodes = {"n1", "n2"}
  Rules = {"r1", "r2"}
  UserOrder <- MCUserOrder
  Entry <- MCEntry
  Listen <- MCListen
  Forms <- MCForms
  Ports = {0, 8443}
  Issued = {"cert2"}
  Enforcer = "enforcer"
  Admins = {"a1", "a2"}
  Plans <- MCPlans
  Panel <- MCPanel
  Malformed = {"bad"}
  Covers <- MCCovers
  Drafts <- MCDrafts
  Accounts = {"u1", "u2"}
INVARIANTS TypeOK RevokedLocked ReadyMeansServed 
PROPERTIES EventuallyLocked
CHECK_DEADLOCK FALSE
