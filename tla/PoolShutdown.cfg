SPECIFICATION Spec
CONSTANTS
  w1 = w1  w2 = w2  w3 = w3  main = main  client = client
  t1 = t1  t2 = t2  t3 = t3  t4 = t4  A = A
  Workers = {w1, w2, w3}
  Clients = {main, client}
  Main = main
  Tasks = {t1, t2, t3, t4}
  NoTask = NoTask
  NoToken = NoToken
  Free = Free
  TokenOf <- ShutdownTokens
  BehaviorOf <- ShutdownBehaviors
  DelayOf <- NoDelays
  max_threads_ = 2
  MaxNewBlocking = 1
  MaxTime = 0
  MaxFlushes = 1
  MayShutdown = TRUE
  DestructorsPost = TRUE
  SpuriousWakeups = TRUE
SYMMETRY WorkerSymmetry
INVARIANTS
  TypeOK
  SequencesExclusive
  CountersExact
  ThreadsAccounted
  ShutdownComplete
  NoLostWakeUp
  CleanupRunsAlone
PROPERTIES
  CanShutdownStable
  TaskRunnersImplemented
CHECK_DEADLOCK FALSE
