SPECIFICATION FairSpec
CONSTANTS
  MaxLogins = 5
  Capacity = 3
  Traffic = {"friendRequest", "groupRequest", "chat", "groupChat", "status", "friendAnswer", "groupAnswer"}
INVARIANTS
  TypeOK
  TokenForEachCounter
  AnswersReachTheirPrompt
PROPERTIES
  LogOutCompletes
  BackToFirstMenu
CHECK_DEADLOCK FALSE
