\* First use of a store without a file: the seed is written outside the lock.
SPECIFICATION Spec
CONSTANTS
  c1 = c1
  c2 = c2
  Clients = {c1, c2}
  MaxAttempts = 1
  MaxCrashes = 0
  Boots = {"missing"}
SYMMETRY ClientSymmetry
INVARIANT AcknowledgedStays
CHECK_DEADLOCK FALSE
