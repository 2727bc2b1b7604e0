SPECIFICATION Spec
CONSTANTS
  MaxLogins = 5
  Capacity = 3
  Traffic = {"friendRequest", "groupRequest", "chat", "groupChat", "status", "friendAnswer", "groupAnswer"}
INVARIANTS
  MenuShown
CHECK_DEADLOCK FALSE
