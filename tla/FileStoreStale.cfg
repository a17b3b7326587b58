\* A crash inside the critical section leaves the lock file for good.
SPECIFICATION LiveSpec
CONSTANTS
  c1 = c1
  c2 = c2
  Clients = {c1, c2}
  MaxAttempts = 2
  MaxCrashes = 1
  Boots = {"existing"}
PROPERTY LockAlwaysReleased
CHECK_DEADLOCK FALSE
