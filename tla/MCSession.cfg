SPECIFICATION Spec
CONSTANTS
  ann = ann
  bob = bob
  c1 = c1
  c2 = c2
  c3 = c3
  Users = {ann, bob}
  Conns = {c1, c2, c3}
  NoConn = NoConn
  NoUser = NoUser
  FriendsOf <- MCFriendsOf
  MaxThreads = 2
  MaxAccepts = 3
  MaxFaults = 1
SYMMETRY Symmetry
CONSTRAINT SomeoneIsPromised
INVARIANTS
  TypeOK
  StatusAgrees
  LoggedInIsReachable
  FriendsSeeStatus
CHECK_DEADLOCK FALSE
