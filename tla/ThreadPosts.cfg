SPECIFICATION Spec
CONSTANTS
  ui = ui  o1 = o1  o2 = o2  o3 = o3  other = other  t1 = t1  t2 = t2  t3 = t3
  Objects = {ui, o1, o2, o3}
  Main = ui
  Others = {other}
  Tasks = {t1, t2}
  NoObject = NoObject
  NoTask = NoTask
  Free = Free
  Quit = Quit
  ID_COUNT = 3
  Created = {1, 2}
  Replaced = {2}
  StartFails = TRUE
  MaxPasses = 1
SYMMETRY Symmetry
INVARIANTS
  TypeOK
  LockFreeSafe
  RegistryAlive
  TasksSeeTheirThread
  OneThreadPerId
  PendingTasksRun
  TasksConserved
CHECK_DEADLOCK FALSE
