SPECIFICATION FairSpec
CONSTANTS
  Threads = {t1, t2}
  Value = {"v0"}
  TypeOf <- MCTypeOf
  Sum <- MCSum
  RWMax = 2
  Ops = {"readRW", "releaseRW"}
  Alone = {}
  HeapFills = FALSE
  InitFE = {"FULL"}
PROPERTIES ReaderAdmitted
