SPECIFICATION FairSpec
CONSTANTS
  ann = ann
  bob = bob
  c1 = c1
  c2 = c2
  c3 = c3
  Users = {ann, bob}
  Conns = {c1, c2}
  NoConn = NoConn
  NoUser = NoUser
  FriendsOf <- MCFriendsOf
  MaxThreads = 2
  MaxAccepts = 2
  MaxFaults = 0
PROPERTIES
  ClosedSessionIsForgotten
CHECK_DEADLOCK FALSE
