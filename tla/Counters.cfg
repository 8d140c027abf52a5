CONSTANTS
  k1 = k1
  Keys <- OneKey
  Rulesets <- OnOff
  Others = {}
  Ids = {1, 2, 3}
  PendingCap = 1
  MaxBytes = 3
  Events = {"flush", "flushfails", "late", "read", "write", "nack", "ttl", "drop", "reboot"}

SPECIFICATION MCSpec

CHECK_DEADLOCK FALSE

INVARIANTS TypeOK Conserved
PROPERTIES  RetryEnds
