SPECIFICATION Spec
CONSTANTS
  t1 = t1
  t2 = t2
  t3 = t3
  Threads = {t1, t2}
  Elements <- TextElements
  Value = {0, 1}
  Zero = 0
  RWMax = 2
  MaxElem = 100
  MaxTx = 1
  Uses <- TextUses
INVARIANTS NoDeadlock
CHECK_DEADLOCK FALSE
