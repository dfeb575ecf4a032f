SPECIFICATION Spec
CONSTANTS
  Threads = {t1, t2, t3}
  Key = {"k", "s", "r"}
  Value = {"undefined", "a"}
  Undef = "undefined"
  NoKey = "none"
  Torn = "torn"
  N = 2
  Hash <- MCHash
  MaxSteps = 3
  HeapKey <- MCHeapKey
  RWMax = 2
  Sum <- MCSum
  Uses <- MixedUses
SYMMETRY Symmetry
INVARIANTS TypeOK UnusedExclusive OneIndex MapTagHeld
PROPERTIES Keyed
CHECK_DEADLOCK FALSE
