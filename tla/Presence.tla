------------------------------ MODULE Presence ------------------------------
(***************************************************************************)
(* The table of online users (server/processes/userMgr.go) and the set of  *)
(* connections whose two ends are still up, as the rest of the server sees *)
(* them: who is reachable, and through which connection.                   *)
(***************************************************************************)
CONSTANTS Users,   \* account numbers
          Conns,   \* TLS connections accepted by the server
          NoConn   \* the answer of GetOnlineUserByID for an absent user

ASSUME NoConnAssumption == NoConn \notin Conns

VARIABLES onlineUsers,  \* UserMgr.onlineUsers: the connection of each online user
          open          \* connections that the peer has not closed

presenceVars == <<onlineUsers, open>>

PresenceInit ==
    /\ onlineUsers = [u \in Users |-> NoConn]
    /\ open = {}

\* GetOnlineUserByID: an absent user is an error, NoConn here.
GetOnlineUserByID(u) == onlineUsers[u]

IsOnline(u) == GetOnlineUserByID(u) # NoConn

\* AddOnlineUser overwrites the session of an earlier device.  A client
\* logs in once on each connection it dials, so c serves no other user.
AddOnlineUser(u, c) ==
    /\ \A v \in Users \ {u} : onlineUsers[v] # c
    /\ onlineUsers' = [onlineUsers EXCEPT ![u] = c]
    /\ UNCHANGED open

\* DelOnlineUser removes whatever session the user has by now, if any.
DelOnlineUser(u) ==
    /\ onlineUsers' = [onlineUsers EXCEPT ![u] = NoConn]
    /\ UNCHANGED open

Connect(c) ==
    /\ c \notin open
    /\ \A u \in Users : onlineUsers[u] # c
    /\ open' = open \cup {c}
    /\ UNCHANGED onlineUsers

HangUp(c) ==
    /\ c \in open
    /\ open' = open \ {c}
    /\ UNCHANGED onlineUsers

\* The server process ends: its tables and its connections go with it.
Crash ==
    /\ onlineUsers' = [u \in Users |-> NoConn]
    /\ open' = {}

PresenceNext ==
    \/ \E u \in Users, c \in Conns : AddOnlineUser(u, c)
    \/ \E u \in Users : DelOnlineUser(u)
    \/ \E c \in Conns : Connect(c) \/ HangUp(c)
    \/ Crash

PresenceSpec == PresenceInit /\ [][PresenceNext]_presenceVars
=============================================================================
