SPECIFICATION Spec
CONSTANTS
  Threads = {t1, t2}
  Value = {"a"}
  HeapValue <- MCHeapValue
  Undef = "undefined"
  Uses <- LostUses
  MaxCalls = 2
  MaxLive = 1
SYMMETRY Symmetry
INVARIANTS NothingLost
CHECK_DEADLOCK FALSE
