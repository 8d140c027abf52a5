CONSTANTS
  p1 = p1  p2 = p2  l1 = l1  l2 = l2
  k1 = k1  k2 = k2  k3 = k3
  name = name  ip = ip
  a1 = a1  a2 = a2  NoAddr = NoAddr
  r1 = r1  r2 = r2  r3 = r3  NoRev = NoRev
  Rules = {p1, p2, l1, l2}
  LocalRules = {l1}
  KeyOf <- MCKeyOf
  HostOf <- MCHostOf
  Userspace = {p2, l1, l2}
  Hosts = {name, ip}
  Names = {name}
  Addrs = {a1, a2}
  Revs = {r1, r2, r3}
  Payload <- MCPayload
  Imported <- MCImported
  DialerThreads = {"dialer"}
  ApplyThreads = {"http"}
  EditThreads = {"http"}
  RefreshThreads = {"refresh"}
  ConnectModes = {TRUE, FALSE}
  Faults = {"save", "apply", "crash", "power"}

SPECIFICATION MCSpec

INVARIANTS TypeOK Bootable OneTargetPerKey RevPersisted LiteralSegments
 
