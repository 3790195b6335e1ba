SPECIFICATION FairSpec
CONSTANTS
  p1 = p1  p2 = p2  h1 = h1
  Clients = {p1, p2}
  Threads = {h1}
  WinMain = WinMain
  NoClient = NoClient
  Actions <- TwoAndOne
  PipeSize = 1
  DaemonMayExit = TRUE
INVARIANTS
  TypeOK
  LogFaithful
PROPERTIES
  ActionsLogged
  PipeFreedOnceConnected
CHECK_DEADLOCK FALSE
