SPECIFICATION Spec
CONSTANTS
  Threads = {t1, t2, t3}
  Value = {"v0", "v1"}
  TypeOf <- MCTypeOf
  Sum <- MCSum
  RWMax = 2
  Ops <- RWOps
  Alone = {}
  HeapFills = FALSE
  InitFE = {"FULL", "EMPTY"}
SYMMETRY Symmetry
INVARIANTS TypeOK ReaderCount ReleaseSucceeds
PROPERTIES StableUnderReaders Atomic
