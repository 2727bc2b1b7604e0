-------------------------- MODULE MCGroupChatView --------------------------
(* A friend, a group, and a message from each.                            *)
EXTENDS GroupChatView

CONSTANTS f, g

Arrivals == <<g, f>>
=============================================================================
