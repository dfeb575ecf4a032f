SPECIFICATION FairSpec
CONSTANTS
  Threads = {t1, t2}
  Value = {"v0", "r", "s"}
  TypeOf <- MCTypeOf
  Sum <- MCSum
  RWMax = 2
  Ops <- FEOps
  Alone <- Serial
  HeapFills = TRUE
  InitFE = {"FULL", "EMPTY"}
INVARIANTS ExclusiveBusy LockNeverLost TypedResults
PROPERTIES Atomic BusyReleased NoMissedTransition
CHECK_DEADLOCK FALSE
