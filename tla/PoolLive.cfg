SPECIFICATION FairSpec
CONSTANTS
  w1 = w1  w2 = w2  w3 = w3  main = main  client = client
  t1 = t1  t2 = t2  t3 = t3  t4 = t4  A = A
  Workers = {w1, w2}
  Clients = {main}
  Main = main
  Tasks = {t1, t2, t3, t4}
  NoTask = NoTask
  NoToken = NoToken
  Free = Free
  TokenOf <- LiveTokens
  BehaviorOf <- LiveBehaviors
  DelayOf <- LiveDelays
  max_threads_ = 2
  MaxNewBlocking = 0
  MaxTime = 1
  MaxFlushes = 1
  MayShutdown = TRUE
  DestructorsPost = FALSE
  SpuriousWakeups = FALSE
CONSTRAINT InOrder
INVARIANTS
  FlushDrains
  NoLostWakeUp
PROPERTIES
  NotUnderserved
  ShutdownReturns
  WorkersExit
  FlushReturns
CHECK_DEADLOCK FALSE
