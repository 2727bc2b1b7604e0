SPECIFICATION FairSpec
CONSTANTS
  u1 = u1
  u2 = u2
  u3 = u3
  g1 = g1
  g2 = g2
  p = p
  q = q
  w1 = w1
  w2 = w2
  Users = {u1, u2, u3}
  Groups = {g1, g2}
  Passwords = {p, q}
  Times = {1, 2}
  Workers = {w1, w2}
  Missing = Missing
  NoCopy = NoCopy
  NoRequest = NoRequest
  MaxMgrs = 2
  MaxFailures = 1
  Scenarios <- Instance
INVARIANTS
  TypeOK
  GroupIsWhole
  MembershipAgrees
  NoPhantomGroup
  FriendshipIsMutual
  DecidedOnce
  MembersKnowEachOther
PROPERTIES
  NothingTakenBack
  AnsweredIsTold
CHECK_DEADLOCK FALSE
