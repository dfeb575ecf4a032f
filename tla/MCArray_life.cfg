SPECIFICATION FairSpec
CONSTANTS
  short = short
  long = long
  huge = huge
  giant = giant
  Number = Number
  Processes = {0, 1, 2}
  BlockSize = 4
  HeapSize = 12
  N = 2
  Texts = {short, long, huge, giant}
  Bytes <- MCBytes
  RWMax = 2
  Uses <- MCUses
INVARIANTS TreeTrue FailsOnlyIfFull OneRegion OneOwner CopyIntact
PROPERTIES LivesEnd
CHECK_DEADLOCK FALSE
