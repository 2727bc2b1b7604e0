SPECIFICATION FairSpec
CONSTANTS
  c1 = c1
  c2 = c2
  w1 = w1
  w2 = w2
  Conns = {c1, c2}
  NoConn = NoConn
  Listener = Listener
  Workers = {w1, w2}
  MaxTasks = 1
  MaxEvents = 2
  MaxMsgs <- Msgs
  Paced = {c1}
INVARIANTS
  TypeOK
  WakeupForEveryRecord
  EveryRecordReadOnce
  PacedDoesNoHarm
PROPERTIES
  EveryMessageHandled
  EveryConnectionAccepted
CHECK_DEADLOCK FALSE
