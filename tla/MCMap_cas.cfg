SPECIFICATION Spec
CONSTANTS
  Threads = {t1, t2}
  Key = {"s"}
  Value = {"undefined", "a"}
  Undef = "undefined"
  NoKey = "none"
  Torn = "torn"
  N = 2
  Hash <- MCHash
  MaxSteps = 3
  HeapKey <- MCHeapKey
  RWMax = 2
  Sum <- MCSum
  Uses <- CasUses
INVARIANTS CasWinsOnce
CHECK_DEADLOCK FALSE
