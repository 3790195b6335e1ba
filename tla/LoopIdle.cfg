SPECIFICATION Spec
CONSTANTS
  t1 = t1  t2 = t2  t3 = t3  l1 = l1  l2 = l2  l3 = l3
  Tasks = {t1, t2, t3}
  RunLoops = {l1, l2}
  NoTask = NoTask
  NoLoop = NoLoop
  Delays <- AnyDelayed
  SeqModulus = 8
  FirstSequence = {0}
  MaxPasses = 2
  MaxTime = 2
  MayDestroy = FALSE
  NestAfterQuit = FALSE
  OuterLoops = {l1, l2}
SYMMETRY Symmetry
PROPERTIES
  IdleRunsAllDue
CHECK_DEADLOCK FALSE
