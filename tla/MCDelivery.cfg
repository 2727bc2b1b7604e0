SPECIFICATION Spec
CONSTANTS
  ann = ann
  bob = bob
  toBob = toBob
  toGroup = toGroup
  request = request
  toAnn = toAnn
  c1 = c1
  c2 = c2
  c3 = c3
  Users = {ann, bob}
  Conns = {c1, c2}
  Messages = {toBob, toGroup, toAnn}
  Origin <- MCOrigin
  Dest <- MCDest
  Kind <- MCKind
  Friends <- MCFriends
  NoConn = NoConn
  NoUser = NoUser
  MaxThreads = 2
  RedisMayFail = TRUE
  MayCrash = TRUE
SYMMETRY ConnSymmetry
INVARIANTS
  TypeOK
  NeverTwoPlaces
  HeldOnce
  CopiesAccountedFor
  InStoredOrder
PROPERTIES
  MailboxSpec
  NoLossWithoutCause
  QueueOutlivesTheServer
CHECK_DEADLOCK FALSE
