SPECIFICATION Spec
CONSTANTS
  ann = ann
  bob = bob
  c1 = c1
  c2 = c2
  c3 = c3
  Users = {ann, bob}
  Conns = {c1, c2}
  NoConn = NoConn
  NoUser = NoUser
  FriendsOf <- MCFriendsOf
  MaxThreads = 2
  MaxAccepts = 3
  MaxFaults = 0
INVARIANTS
  NotifiesTheOnline
CHECK_DEADLOCK FALSE
