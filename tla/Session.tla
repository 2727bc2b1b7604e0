------------------------------ MODULE Session ------------------------------
(***************************************************************************)
(* Logins and logouts: the handlers that keep the table of online users,   *)
(* the status stored in redis and the friends' view of each other.  Every  *)
(* handler runs on a worker of its own; nothing but the pool size keeps    *)
(* two handlers, of one account or of friends, from interleaving.          *)
(*                                                                         *)
(* Handler <<c, "in">> is serverProcessMes with the login message of       *)
(* connection c, <<c, "out">> is processConn at the end of c's stream.     *)
(***************************************************************************)
EXTENDS Presence, Naturals, FiniteSets

CONSTANTS FriendsOf,    \* FriendsOf[u]: UserFriends of u's redis record
          NoUser,       \* Processor.UsrId = 0
          MaxThreads,   \* MAX_THREADS_NUMBER
          MaxAccepts,   \* bound: connections accepted in a behaviour
          MaxFaults     \* bound: resets, redis errors, kills and records in
                        \* the hands of other handlers, in a behaviour

ASSUME SessionAssumption ==
    /\ FriendsOf \in [Users -> SUBSET Users]
    /\ \A u \in Users : u \notin FriendsOf[u]
    /\ NoUser \notin Users
    /\ MaxThreads \in Nat /\ MaxAccepts \in Nat /\ MaxFaults \in Nat

VARIABLES
    accepts,  \* connections accepted so far
    table,    \* connections in fileDescriberToProcessor
    UsrId,    \* UsrId[c]: Processor.UsrId
    acct,     \* acct[c]: the account of the login message read from c
    pc,       \* pc[h]: where handler h is
    seen,     \* seen[c]: the session ServerProcessLogin found for acct[c]
    list,     \* list[c]: the friends' status put into the login reply
    tell,     \* tell[h]: friends NotifyOtherOnlineFriends has yet to try
    found,    \* found[h]: the friend found online, about to be notified
    status,   \* status[u]: UserStatus in u's redis record
    copies,   \* <<u, s>>: u's record, with UserStatus s, as read by another
              \* handler that has yet to write it back
    view,     \* view[c][u]: u's status as the client on c was last told
    kicked,   \* connections that were sent LoggedInOnAnotherDevice
    reset,    \* connections ended by a reset, which ReadPkg does not take
              \* for the end of the stream
    overlap,  \* history: pairs of accounts whose handlers ran side by side
    spoiled,  \* history: accounts caught by a crash, a reset, a reply that
              \* could not be written, a redis error with consequences, or
              \* a stale record written over their status
    faults    \* faults so far

handlers == <<pc, seen, list, tell, found>>
history  == <<overlap, spoiled, faults>>
vars     == <<presenceVars, accepts, table, UsrId, acct, handlers, status, copies,
              view, kicked, reset, history>>

Handlers == Conns \X {"in", "out"}
Statuses == {"online", "offline"}
AtRest   == {"idle", "done", "refused", "unanswered", "superseded"}
PCs      == AtRest \cup {"login", "setStatus", "lookup", "kick", "friends",
                         "enter", "reply", "record", "notify", "delete",
                         "close"}

Active(h) == pc[h] \notin AtRest
FreeWorker ==
    Cardinality({h \in Handlers : Active(h)}) + Cardinality(copies) < MaxThreads

\* Starting a handler for account u beside those that are running.
Running == {acct[h[1]] : h \in {g \in Handlers : Active(g)}}
NoteOverlap(u) ==
    overlap' = overlap \cup ((({u} \X Running) \cup (Running \X {u}))
                                \cap (Users \X Users))

Unknown == [u \in Users |-> "offline"]

Init ==
    /\ PresenceInit
    /\ accepts = 0 /\ table = {}
    /\ UsrId = [c \in Conns |-> NoUser] /\ acct = [c \in Conns |-> NoUser]
    /\ pc = [h \in Handlers |-> "idle"]
    /\ seen = [c \in Conns |-> NoConn]
    /\ list = [c \in Conns |-> Unknown]
    /\ tell = [h \in Handlers |-> {}] /\ found = [h \in Handlers |-> NoUser]
    /\ status = [u \in Users |-> "offline"] /\ copies = {}
    /\ view = [c \in Conns |-> Unknown]
    /\ kicked = {} /\ reset = {} /\ overlap = {} /\ spoiled = {} /\ faults = 0

Goto(h, label) == pc' = [pc EXCEPT ![h] = label]

Fault == faults < MaxFaults /\ faults' = faults + 1

-----------------------------------------------------------------------------
(* ServerProcessLogin.                                                     *)

\* A worker reads the login message from c: before the end of the stream,
\* since ReadPkg returns the bytes in order.
LoginStart(c, u) ==
    /\ c \in table /\ acct[c] = NoUser
    /\ pc[<<c, "in">>] = "idle" /\ pc[<<c, "out">>] = "idle"
    /\ FreeWorker
    /\ acct' = [acct EXCEPT ![c] = u]
    /\ Goto(<<c, "in">>, "login")
    /\ NoteOverlap(u)
    /\ UNCHANGED <<presenceVars, accepts, table, UsrId, seen, list, tell,
                   found, status, copies, view, kicked, reset, spoiled, faults>>

\* UserDao.Login: the password is right; the record says whether the status
\* has to be changed.
CheckPassword(c) ==
    /\ pc[<<c, "in">>] = "login"
    /\ Goto(<<c, "in">>,
            IF status[acct[c]] = "offline" THEN "setStatus" ELSE "lookup")
    /\ UNCHANGED <<presenceVars, accepts, table, UsrId, acct, seen, list, tell,
                   found, status, copies, view, kicked, reset, history>>

\* A redis error in Login, with nothing written: the reply tells of it, and
\* serverProcessMes goes on for the UsrId 0, of whom there is no record.
LoginRefused(c) ==
    /\ Fault
    /\ pc[<<c, "in">>] \in {"login", "setStatus"}
    /\ Goto(<<c, "in">>, "refused")
    /\ UNCHANGED <<presenceVars, accepts, table, UsrId, acct, seen, list, tell,
                   found, status, copies, view, kicked, reset, overlap, spoiled>>

\* ModifyUserStatusById reads the record and writes it whole; its UserStatus
\* does not depend on what was read, so one step decides it.  What this
\* write does to the record's other fields is in module Records.
SetOnline(c) ==
    /\ pc[<<c, "in">>] = "setStatus"
    /\ status' = [status EXCEPT ![acct[c]] = "online"]
    /\ Goto(<<c, "in">>, "lookup")
    /\ UNCHANGED <<presenceVars, accepts, table, UsrId, acct, seen, list, tell,
                   found, copies, view, kicked, reset, history>>

\* The same, but the answer to HSET is lost: the login is refused.
SetOnlineUnanswered(c) ==
    /\ Fault /\ pc[<<c, "in">>] = "setStatus"
    /\ status' = [status EXCEPT ![acct[c]] = "online"]
    /\ Goto(<<c, "in">>, "refused")
    /\ spoiled' = spoiled \cup {acct[c]}
    /\ UNCHANGED <<presenceVars, accepts, table, UsrId, acct, seen, list, tell,
                   found, copies, view, kicked, reset, overlap>>

LookUpOld(c) ==
    /\ pc[<<c, "in">>] = "lookup"
    /\ seen' = [seen EXCEPT ![c] = GetOnlineUserByID(acct[c])]
    /\ Goto(<<c, "in">>, IF IsOnline(acct[c]) THEN "kick" ELSE "friends")
    /\ UNCHANGED <<presenceVars, accepts, table, UsrId, acct, list, tell,
                   found, status, copies, view, kicked, reset, history>>

Kick(c) ==
    /\ pc[<<c, "in">>] = "kick"
    /\ kicked' = kicked \cup ({seen[c]} \cap open)
    /\ seen' = [seen EXCEPT ![c] = NoConn]
    /\ Goto(<<c, "in">>, "friends")
    /\ UNCHANGED <<presenceVars, accepts, table, UsrId, acct, list, tell,
                   found, status, copies, view, reset, history>>

\* The notice cannot be written to a session whose peer is gone: the login
\* is given up without a reply.
KickFails(c) ==
    /\ pc[<<c, "in">>] = "kick" /\ seen[c] \notin open
    /\ seen' = [seen EXCEPT ![c] = NoConn]
    /\ Goto(<<c, "in">>, "refused")
    /\ UNCHANGED <<presenceVars, accepts, table, UsrId, acct, list, tell,
                   found, status, copies, view, kicked, reset, history>>

\* GetAllFriendsById and GetAllGroupChatsOfUserByID fill the reply.
ReadFriends(c) ==
    /\ pc[<<c, "in">>] = "friends"
    /\ list' = [list EXCEPT ![c] = status]
    /\ Goto(<<c, "in">>, "enter")
    /\ UNCHANGED <<presenceVars, accepts, table, UsrId, acct, seen, tell,
                   found, status, copies, view, kicked, reset, history>>

\* The record of the user or of some friends cannot be read: the reply goes
\* out without them.
ReadFriendsFails(c) ==
    /\ Fault /\ pc[<<c, "in">>] = "friends"
    /\ \E missing \in SUBSET FriendsOf[acct[c]] \ {{}} :
         list' = [list EXCEPT ![c] =
                    [u \in Users |-> IF u \in missing THEN "offline" ELSE status[u]]]
    /\ Goto(<<c, "in">>, "enter")
    /\ spoiled' = spoiled \cup {acct[c]}
    /\ UNCHANGED <<presenceVars, accepts, table, UsrId, acct, seen, tell,
                   found, status, copies, view, kicked, reset, overlap>>

Enter(c) ==
    /\ pc[<<c, "in">>] = "enter"
    /\ AddOnlineUser(acct[c], c)
    /\ Goto(<<c, "in">>, "reply")
    /\ UNCHANGED <<accepts, table, UsrId, acct, seen, list, tell, found,
                   status, copies, view, kicked, reset, history>>

Reply(c) ==
    /\ pc[<<c, "in">>] = "reply"
    /\ view' = [view EXCEPT ![c] = list[c]]
    /\ list' = [list EXCEPT ![c] = Unknown]
    /\ Goto(<<c, "in">>, "record")
    /\ UNCHANGED <<presenceVars, accepts, table, UsrId, acct, seen, tell,
                   found, status, copies, kicked, reset, history>>

\* The reply cannot be written: the table keeps a session whose Processor
\* does not know its user.
ReplyFails(c) ==
    /\ pc[<<c, "in">>] = "reply" /\ c \notin open
    /\ list' = [list EXCEPT ![c] = Unknown]
    /\ Goto(<<c, "in">>, "unanswered")
    /\ spoiled' = spoiled \cup {acct[c]}
    /\ UNCHANGED <<presenceVars, accepts, table, UsrId, acct, seen, tell,
                   found, status, copies, view, kicked, reset, overlap, faults>>

\* Mutant: the friends are not notified of a login.
RecordTellsNobody(c) ==
    /\ pc[<<c, "in">>] = "record"
    /\ UsrId' = [UsrId EXCEPT ![c] = acct[c]]
    /\ tell' = [tell EXCEPT ![<<c, "in">>] = {}]
    /\ Goto(<<c, "in">>, "notify")
    /\ UNCHANGED <<presenceVars, accepts, table, acct, seen, list, found,
                   status, copies, view, kicked, reset, history>>

\* serverProcessMes, once ServerProcessLogin has returned.
Record(c) ==
    /\ pc[<<c, "in">>] = "record"
    /\ UsrId' = [UsrId EXCEPT ![c] = acct[c]]
    /\ tell' = [tell EXCEPT ![<<c, "in">>] = FriendsOf[acct[c]]]
    /\ Goto(<<c, "in">>, "notify")
    /\ UNCHANGED <<presenceVars, accepts, table, acct, seen, list, found,
                   status, copies, view, kicked, reset, history>>

-----------------------------------------------------------------------------
(* NotifyOtherOnlineFriends, from a login or from a logout.                *)

\* Mutant: the kind of the handler is sent in place of the status.
HandlerAsStatus(h) == h[2]

NewStatus(h) == IF h[2] = "in" THEN "online" ELSE "offline"

\* The first lookup of a friend.
TryFriend(h, f) ==
    /\ pc[h] = "notify" /\ found[h] = NoUser /\ f \in tell[h]
    /\ tell' = [tell EXCEPT ![h] = @ \ {f}]
    /\ found' = [found EXCEPT ![h] = IF IsOnline(f) THEN f ELSE NoUser]
    /\ UNCHANGED <<presenceVars, accepts, table, UsrId, acct, pc, seen, list,
                   status, copies, view, kicked, reset, history>>

\* NotifyMyStatus looks the friend up again and writes to that session.
NotifyMyStatus(h) ==
    LET d == GetOnlineUserByID(found[h]) IN
    /\ pc[h] = "notify" /\ found[h] # NoUser /\ d # NoConn
    /\ view' = IF d \in open
                 THEN [view EXCEPT ![d][acct[h[1]]] = NewStatus(h)] ELSE view
    /\ found' = [found EXCEPT ![h] = NoUser]
    /\ UNCHANGED <<presenceVars, accepts, table, UsrId, acct, pc, seen, list,
                   tell, status, copies, kicked, reset, history>>

NotifyDone(h) ==
    /\ pc[h] = "notify" /\ found[h] = NoUser /\ tell[h] = {}
    /\ Goto(h, IF h[2] = "in" THEN "done" ELSE "delete")
    /\ UNCHANGED <<presenceVars, accepts, table, UsrId, acct, seen, list, tell,
                   found, status, copies, view, kicked, reset, history>>

\* NotifyOtherOnlineFriends cannot read the user's record: nobody is told.
TellNobody(h) ==
    /\ Fault /\ pc[h] = "notify" /\ found[h] = NoUser
    /\ tell[h] = FriendsOf[acct[h[1]]] /\ tell[h] # {}
    /\ tell' = [tell EXCEPT ![h] = {}]
    /\ spoiled' = spoiled \cup {acct[h[1]]}
    /\ UNCHANGED <<presenceVars, accepts, table, UsrId, acct, pc, seen, list,
                   found, status, copies, view, kicked, reset, overlap>>

-----------------------------------------------------------------------------
(* The end of a connection's stream: handleMesFromClient, HandleForOffline *)
(* and the clean-up in processConn.                                        *)

\* Mutant: RemoteAddress is not compared.
LogoutOfAnySession(c) ==
    /\ c \in table /\ c \notin open /\ c \notin reset
    /\ pc[<<c, "out">>] = "idle" /\ FreeWorker
    /\ NoteOverlap(acct[c])
    /\ LET up == IF UsrId[c] = NoUser THEN NoConn
                 ELSE GetOnlineUserByID(UsrId[c]) IN
         \/ up = NoConn /\ Goto(<<c, "out">>, "close") /\ UNCHANGED tell
         \/ /\ up # NoConn /\ Goto(<<c, "out">>, "notify")
            /\ tell' = [tell EXCEPT ![<<c, "out">>] = FriendsOf[UsrId[c]]]
    /\ UNCHANGED <<presenceVars, accepts, table, UsrId, acct, seen, list,
                   found, status, copies, view, kicked, reset, spoiled, faults>>

\* ReadPkg returns ERROR_CLIENT_DISCONNECTED; not after a reset, whose error
\* is only logged.  A worker may look again, at the FIN after close_notify:
\* when the first look left the connection in fileDescriberToProcessor for a
\* newer session's sake.  (A second look beside a first one that is still
\* running is left out: it repeats the same writes for the same account,
\* two handlers of which are then side by side, and in overlap.)
LogoutStart(c) ==
    /\ c \in table /\ c \notin open /\ c \notin reset
    /\ pc[<<c, "out">>] \in {"idle", "superseded"} /\ FreeWorker
    /\ NoteOverlap(acct[c])
    /\ LET up == IF UsrId[c] = NoUser THEN NoConn
                 ELSE GetOnlineUserByID(UsrId[c]) IN
         \/ up = NoConn /\ Goto(<<c, "out">>, "close") /\ UNCHANGED tell
         \/ up \notin {c, NoConn}
            /\ Goto(<<c, "out">>, "superseded") /\ UNCHANGED tell
         \/ /\ up = c /\ Goto(<<c, "out">>, "notify")
            /\ tell' = [tell EXCEPT ![<<c, "out">>] = FriendsOf[UsrId[c]]]
    /\ UNCHANGED <<presenceVars, accepts, table, UsrId, acct, seen, list,
                   found, status, copies, view, kicked, reset, spoiled, faults>>

\* Mutant: HandleForOffline leaves the stored status as it is.
DeleteSkipsStatus(c) ==
    /\ pc[<<c, "out">>] = "delete"
    /\ DelOnlineUser(UsrId[c])
    /\ Goto(<<c, "out">>, "close")
    /\ UNCHANGED <<accepts, table, UsrId, acct, seen, list, tell, found,
                   status, copies, view, kicked, reset, history>>

\* Mutant: HandleForOffline changes only the stored status.
DeleteNothing(c) ==
    /\ pc[<<c, "out">>] = "delete"
    /\ UNCHANGED presenceVars
    /\ Goto(<<c, "out">>, "setStatus")
    /\ UNCHANGED <<accepts, table, UsrId, acct, seen, list, tell, found,
                   status, copies, view, kicked, reset, history>>

\* HandleForOffline deletes by account: whatever session is there by now.
Delete(c) ==
    /\ pc[<<c, "out">>] = "delete"
    /\ DelOnlineUser(UsrId[c])
    /\ Goto(<<c, "out">>, "setStatus")
    /\ UNCHANGED <<accepts, table, UsrId, acct, seen, list, tell, found,
                   status, copies, view, kicked, reset, history>>

SetOffline(c) ==
    /\ pc[<<c, "out">>] = "setStatus"
    /\ status' = [status EXCEPT ![UsrId[c]] = "offline"]
    /\ Goto(<<c, "out">>, "close")
    /\ UNCHANGED <<presenceVars, accepts, table, UsrId, acct, seen, list, tell,
                   found, copies, view, kicked, reset, history>>

\* HandleForOffline ignores ModifyUserStatusById's error.
SetOfflineFails(c) ==
    /\ Fault /\ pc[<<c, "out">>] = "setStatus"
    /\ Goto(<<c, "out">>, "close")
    /\ spoiled' = spoiled \cup {UsrId[c]}
    /\ UNCHANGED <<presenceVars, accepts, table, UsrId, acct, seen, list, tell,
                   found, status, copies, view, kicked, reset, overlap>>

Close(c) ==
    /\ pc[<<c, "out">>] = "close"
    /\ table' = table \ {c}
    /\ Goto(<<c, "out">>, "done")
    /\ UNCHANGED <<presenceVars, accepts, UsrId, acct, seen, list, tell, found,
                   status, copies, view, kicked, reset, history>>

-----------------------------------------------------------------------------
(* The other writers of a user's record: AddFriendForUser for a new        *)
(* friend, UpdateUserNewGC for a group, on workers of their own.           *)

CopyRecord(u) ==
    /\ FreeWorker /\ <<u, status[u]>> \notin copies
    /\ Fault
    /\ copies' = copies \cup {<<u, status[u]>>}
    /\ UNCHANGED <<presenceVars, accepts, table, UsrId, acct, handlers, status,
                   view, kicked, reset, overlap, spoiled>>

\* saveUser writes the whole record: a status set since is undone.
SaveCopy(u, s) ==
    /\ <<u, s>> \in copies
    /\ copies' = copies \ {<<u, s>>}
    /\ status' = [status EXCEPT ![u] = s]
    /\ spoiled' = IF s # status[u] THEN spoiled \cup {u} ELSE spoiled
    /\ UNCHANGED <<presenceVars, accepts, table, UsrId, acct, handlers, view,
                   kicked, reset, overlap, faults>>

\* The two are friends already, or redis fails: nothing is written.
DropCopy(u, s) ==
    /\ <<u, s>> \in copies
    /\ copies' = copies \ {<<u, s>>}
    /\ UNCHANGED <<presenceVars, accepts, table, UsrId, acct, handlers, status,
                   view, kicked, reset, history>>

-----------------------------------------------------------------------------
(* The clients' side of the connections, and the end of the process.       *)

\* A connection is accepted; its name is free again after the clean-up.
NewConn(c) ==
    /\ Connect(c)
    /\ accepts < MaxAccepts /\ accepts' = accepts + 1
    /\ c \notin table /\ ~Active(<<c, "in">>) /\ ~Active(<<c, "out">>)
    /\ \A d \in Conns : seen[d] # c
    /\ table' = table \cup {c}
    /\ UsrId' = [UsrId EXCEPT ![c] = NoUser]
    /\ acct' = [acct EXCEPT ![c] = NoUser]
    /\ pc' = [pc EXCEPT ![<<c, "in">>] = "idle", ![<<c, "out">>] = "idle"]
    /\ view' = [view EXCEPT ![c] = Unknown]
    /\ kicked' = kicked \ {c} /\ reset' = reset \ {c}
    /\ UNCHANGED <<seen, list, tell, found, status, copies, history>>

PeerCloses(c) ==
    /\ HangUp(c)
    /\ UNCHANGED <<accepts, table, UsrId, acct, handlers, status, copies, view, kicked,
                   reset, history>>

PeerResets(c) ==
    /\ Fault
    /\ HangUp(c)
    /\ reset' = reset \cup {c}
    /\ spoiled' = spoiled \cup ({acct[c]} \cap Users)
    /\ UNCHANGED <<accepts, table, UsrId, acct, handlers, status, copies, view, kicked,
                   overlap>>

\* The process ends and starts again: of all this, redis keeps the status.
Restart ==
    /\ Crash
    /\ table' = {}
    /\ UsrId' = [c \in Conns |-> NoUser] /\ acct' = [c \in Conns |-> NoUser]
    /\ pc' = [h \in Handlers |-> "idle"]
    /\ seen' = [c \in Conns |-> NoConn]
    /\ list' = [c \in Conns |-> Unknown]
    /\ tell' = [h \in Handlers |-> {}] /\ found' = [h \in Handlers |-> NoUser]
    /\ copies' = {} /\ view' = [c \in Conns |-> Unknown]
    /\ kicked' = {} /\ reset' = {}
    /\ spoiled' = spoiled \cup {u \in Users : IsOnline(u) \/ u \in Running}
    /\ UNCHANGED <<accepts, status, overlap>>

Killed == Fault /\ Restart

\* NotifyMyStatus does not check its own lookup: a friend who has gone since
\* the first one is a nil dereference, which ends the whole process.
NotifyPanics(h) ==
    /\ pc[h] = "notify" /\ found[h] # NoUser /\ ~IsOnline(found[h])
    /\ Restart /\ UNCHANGED faults

\* GetAllGroupChatsOfUserByID follows the nil of a group it cannot read.
ReadGroupsPanics(c) ==
    /\ Fault /\ pc[<<c, "in">>] = "friends"
    /\ Restart

-----------------------------------------------------------------------------
Notify(h) == (\E f \in Users : TryFriend(h, f)) \/ NotifyMyStatus(h)
             \/ NotifyDone(h) \/ NotifyPanics(h)

LoginStep(c) ==
    \/ CheckPassword(c) \/ SetOnline(c) \/ LookUpOld(c)
    \/ Kick(c) \/ KickFails(c) \/ ReadFriends(c)
    \/ Enter(c) \/ Reply(c) \/ ReplyFails(c) \/ Record(c)
    \/ Notify(<<c, "in">>)

LogoutStep(c) ==
    \/ LogoutStart(c) \/ Notify(<<c, "out">>)
    \/ Delete(c) \/ SetOffline(c) \/ Close(c)

RedisError(c) ==
    \/ LoginRefused(c) \/ SetOnlineUnanswered(c) \/ ReadFriendsFails(c)
    \/ ReadGroupsPanics(c) \/ TellNobody(<<c, "in">>) \/ TellNobody(<<c, "out">>)
    \/ SetOfflineFails(c)

OtherSaves(u) == \E s \in Statuses : SaveCopy(u, s) \/ DropCopy(u, s)

Next ==
    \/ \E c \in Conns, u \in Users : LoginStart(c, u)
    \/ \E u \in Users : CopyRecord(u) \/ OtherSaves(u)
    \/ \E c \in Conns : \/ LoginStep(c) \/ LogoutStep(c) \/ RedisError(c)
                        \/ NewConn(c) \/ PeerCloses(c) \/ PeerResets(c)
    \/ Killed

Spec == Init /\ [][Next]_vars

\* A handler that has begun goes on, and the end of a stream is handled:
\* workers are scheduled and writes return.  Clients owe nothing.
Fairness ==
    /\ \A c \in Conns : WF_vars(LoginStep(c)) /\ SF_vars(LogoutStep(c))
    /\ \A u \in Users : WF_vars(OtherSaves(u))

FairSpec == Spec /\ Fairness

-----------------------------------------------------------------------------
TypeOK ==
    /\ onlineUsers \in [Users -> Conns \cup {NoConn}]
    /\ open \subseteq Conns /\ table \subseteq Conns
    /\ accepts \in 0..MaxAccepts
    /\ UsrId \in [Conns -> Users \cup {NoUser}]
    /\ acct \in [Conns -> Users \cup {NoUser}]
    /\ pc \in [Handlers -> PCs]
    /\ seen \in [Conns -> Conns \cup {NoConn}]
    /\ list \in [Conns -> [Users -> Statuses]]
    /\ tell \in [Handlers -> SUBSET Users]
    /\ found \in [Handlers -> Users \cup {NoUser}]
    /\ status \in [Users -> Statuses] /\ copies \subseteq Users \X Statuses
    /\ view \in [Conns -> [Users -> Statuses]]
    /\ kicked \subseteq Conns /\ reset \subseteq Conns
    /\ overlap \subseteq Users \X Users /\ spoiled \subseteq Users
    /\ faults \in 0..MaxFaults

\* What the history rules out: an account of which two handlers of these
\* ever ran side by side, or that a crash, a reset, a lost reply, a redis
\* error or another handler's stale record has caught.
Undisturbed(u) == <<u, u>> \notin overlap /\ u \notin spoiled
Quiet(u) == \A h \in Handlers : acct[h[1]] = u => ~Active(h)

\* Between the handlers of an account, its stored status and its entry in
\* the table agree, whatever the other accounts are doing, and whoever else
\* writes its record with the status it has.
StatusAgrees ==
    \A u \in Users : Undisturbed(u) /\ Quiet(u) =>
        (status[u] = "online" <=> IsOnline(u))

\* A device that is logged in, connected, and was not sent the notice of
\* another login, is the one its account's messages go to: no other
\* session's logout removes it and no login replaces it unannounced.
LoggedInIsReachable ==
    \A c \in open \ kicked :
        pc[<<c, "in">>] = "done" /\ Undisturbed(acct[c])
            => onlineUsers[acct[c]] = c

\* When neither of two friends is logging in or out, and no handlers of
\* theirs ever ran side by side, each one's device shows the other's status.
FriendsSeeStatus ==
    \A u, f \in Users : \A c \in open :
        /\ u \in FriendsOf[f] /\ f \in FriendsOf[u]
        /\ onlineUsers[f] = c /\ pc[<<c, "in">>] = "done"
        /\ Quiet(u) /\ Quiet(f) /\ Undisturbed(u) /\ Undisturbed(f)
        /\ <<u, f>> \notin overlap
        => view[c][u] = status[u]

\* The friend that NotifyMyStatus writes to is online.
NotifiesTheOnline ==
    \A h \in Handlers :
        pc[h] = "notify" /\ found[h] # NoUser => IsOnline(found[h])

\* A closed connection leaves the table of sessions, unless its account was
\* disturbed, and fileDescriberToProcessor, unless a newer login of the
\* account came first; a connection that ended by a reset may stay in both.
ClosedSessionIsForgotten ==
    \A c \in Conns :
        /\ \A u \in Users : (onlineUsers[u] = c /\ c \notin open)
                 ~> (onlineUsers[u] # c \/ c \in reset \/ ~Undisturbed(u))
        /\ (c \in table \ open)
               ~> \/ c \notin table \/ c \in reset
                  \/ pc[<<c, "out">>] = "superseded"
=============================================================================
