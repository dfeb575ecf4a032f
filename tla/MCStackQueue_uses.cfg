SPECIFICATION FairSpec
CONSTANTS
  Threads = {t1, t2, t3}
  Value = {"a", "b", "s"}
  HeapValue <- MCHeapValue
  Undef = "undefined"
  Uses <- MCUses
  MaxCalls = 2
  MaxLive = 2
INVARIANTS IndexExclusive SlotExclusive
PROPERTIES Linearizable AllReturn
CHECK_DEADLOCK FALSE
