\* A rewrite at the cap drops an event appended after it read the file.
SPECIFICATION Spec
CONSTANTS
  e1 = e1
  e2 = e2
  e3 = e3
  e4 = e4
  Torn = Torn
  Events = {e1, e2, e3, e4}
  Cap = 2
  Backends = {"file"}
  MaxFaults = 0
  MaxCrashes = 0
SYMMETRY EventSymmetry
INVARIANT OnlyOldestTrimmed
CHECK_DEADLOCK FALSE
