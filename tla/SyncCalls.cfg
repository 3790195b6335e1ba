SPECIFICATION FairSpec
CONSTANTS
  c1 = c1  c2 = c2  c3 = c3
  Left = Left  Right = Right  SenderOf <- Crossing
  Calls = {c1, c2, c3}
  Timed = {c1}
  MayDie = {Right}
  MayShutDown = {Left}
INVARIANTS
  TypeOK
  OwnReply
  NotBlockedInVain
PROPERTIES
  SendsReturn
CHECK_DEADLOCK FALSE
