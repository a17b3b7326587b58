\* Four events and a cap of two, one failing access, one crash.
SPECIFICATION Spec
CONSTANTS
  e1 = e1
  e2 = e2
  e3 = e3
  e4 = e4
  Torn = Torn
  Events = {e1, e2, e3, e4}
  Cap = 2
  Backends = {"file", "db"}
  MaxFaults = 1
  MaxCrashes = 1
SYMMETRY EventSymmetry
INVARIANTS
  TypeOK
  FailedNotLogged
  BelowCapKept
  NewestKept
  LossExplained
CHECK_DEADLOCK FALSE
