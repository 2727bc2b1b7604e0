SPECIFICATION FairSpec
CONSTANTS
  f = f
  g = g
  Friends = {f}
  GroupChats = {g}
  Inbound <- Arrivals
  MaxOwn = 1
  MaxLists = 1
  MaxEnds = 2
  BatchSize = 1
  MaxVisits = 2
  NoDisplay = NoDisplay
INVARIANTS
  TypeOK
  SlotsAreOwned
  SeenOrUnread
  LogIsComplete
  NobodyOffersOutside
PROPERTIES
  QuitCompletes
CHECK_DEADLOCK FALSE
