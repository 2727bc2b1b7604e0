SPECIFICATION FairSpec
CONSTANTS
  f = f
  g = g
  Friends = {f}
  GroupChats = {g}
  Inbound <- Arrivals
  MaxOwn = 1
  MaxLists = 1
  MaxEnds = 0
  BatchSize = 1
  MaxVisits = 2
  NoDisplay = NoDisplay
PROPERTIES
  ReaderGoesOn
CHECK_DEADLOCK FALSE
