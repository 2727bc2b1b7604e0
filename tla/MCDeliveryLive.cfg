SPECIFICATION FairSpec
CONSTANTS
  ann = ann
  bob = bob
  toBob = toBob
  toGroup = toGroup
  request = request
  toAnn = toAnn
  c1 = c1
  c2 = c2
  c3 = c3
  Users = {ann, bob}
  Conns = {c1, c2}
  Messages = {toGroup, request}
  Origin <- MCOrigin
  Dest <- MCDest
  Kind <- MCKind
  Friends <- MCFriends
  NoConn = NoConn
  NoUser = NoUser
  MaxThreads = 2
  RedisMayFail = FALSE
  MayCrash = FALSE
PROPERTIES
  OfflineMessagesArrive
CHECK_DEADLOCK FALSE
