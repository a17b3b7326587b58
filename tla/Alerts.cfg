\* A page and other clients, two keys, two calls, one failing access, one crash.
SPECIFICATION Spec
CONSTANTS
  g1 = g1
  a1 = a1
  a2 = a2
  Texts = {"", "********", "hook", "hook2", "pass"}
  Padded <- SmallPadded
  Trimmed <- SmallTrimmed
  Keys = {k1, k2}
  NoKey = NoKey
  Names = {"", "host", "sender"}
  Addresses = {a1, a2}
  Groups = {g1}
  Junk = Junk
  Calls = {c1, c2}
  Pages = {p1}
  Client = Client
  Edits <- SmallEdits
  Patches <- SmallPatches
  Saved <- SmallSaved
  Backends = {"file", "db"}
  Missing = Missing
  Empty = Empty
  Torn = Torn
  MaxFaults = 1
  MaxCrashes = 1
INVARIANTS
  TypeOK
  AloneIsExact
  OnlyEditsChange
  MaskNeverStored
  ReadableAtRest
  SentAsRouted
  DispatchHonest
SYMMETRY Symmetry
CHECK_DEADLOCK FALSE
