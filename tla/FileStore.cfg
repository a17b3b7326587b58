\* Two concurrent calls of every kind, one crash, every way to find the file.
SPECIFICATION LiveSpec
CONSTANTS
  c1 = c1
  c2 = c2
  Clients = {c1, c2}
  MaxAttempts = 2
  MaxCrashes = 1
  Boots = {"existing", "missing", "unreadable"}
INVARIANTS
  TypeOK
  MutualExclusion
  NoLeakedLock
  NoLostMutation
  FailedLeavesNoTrace
PROPERTIES
  AtomicSpec
  EveryCallSettles
CHECK_DEADLOCK FALSE
