SPECIFICATION Spec
CONSTANTS
  t1 = t1  t2 = t2  t3 = t3  l1 = l1  l2 = l2  l3 = l3
  Tasks = {t1, t2, t3}
  RunLoops = {l1, l2}
  NoTask = NoTask
  NoLoop = NoLoop
  Delays <- AnyDelayed
  SeqModulus = 8
  FirstSequence = {3}
  MaxPasses = 2
  MaxTime = 2
  MayDestroy = TRUE
  NestAfterQuit = FALSE
  OuterLoops = {l1, l2}
SYMMETRY Symmetry
INVARIANTS
  TypeOK
  NeverEarly
  WakesForWork
  OnlyLateLeft
PROPERTIES
  InSequenceButPutOff
  IdleMeansIdle
CHECK_DEADLOCK FALSE
