\* Limit 2 in a window of three ticks; a second has two.
SPECIFICATION Spec
CONSTANTS
  e1 = e1
  t1 = t1
  a1 = a1
  Endpoints = {e1}
  Limit <- MCLimit
  Window = 3
  Second = 2
  Tokens = {t1}
  Addresses = {a1}
  Requests <- MCRequests
  MaxTime = 5
INVARIANTS
  TypeOK
  TokenLimit
  WindowLimit
  RetryHonoured
  RetryNeeded
