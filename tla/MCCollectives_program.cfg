SPECIFICATION FairSpec
CONSTANTS
  Threads = {t1, t2, t3}
  Master = t1
  Program <- MixedProgram
  Binding = "js"
  BarrierTimeouts <- MCForever
  CriticalTimeouts = {1, 2}
  FuncThrows = TRUE
INVARIANTS TypeOK BarrierSeparates NoBarrierRace SingleOnce MutualExclusion ExitSucceeds
PROPERTIES Termination
CHECK_DEADLOCK FALSE
