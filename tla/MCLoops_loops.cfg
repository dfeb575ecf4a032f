SPECIFICATION FairSpec
CONSTANTS
  NThreads = 3
  Program <- Loops5
  Binding = "py"
  HalfRange = 16
INVARIANTS EachOnce
PROPERTIES LoopsEnd
CHECK_DEADLOCK FALSE
