------------------------------ MODULE Delivery ------------------------------
(***************************************************************************)
(* Where a chat message is at any moment: being handled by a worker, in    *)
(* the offline list of a recipient (redis database DATABASE_USER_MESSAGE), *)
(* in the batch a login has popped from that list, written to a            *)
(* connection, or lost.  The workers of threadPool.go run these steps      *)
(* concurrently, and the table of online users (Presence) may change       *)
(* between any two of them.                                                *)
(*                                                                         *)
(* Friend and member lists are constants here: this module is about where  *)
(* a message goes, not about who may send it.                              *)
(***************************************************************************)
EXTENDS Presence, Sequences, FiniteSets, Functions

CONSTANTS
    Messages,      \* messages clients will send, each one once
    Origin,        \* Origin[m]: the sender
    Dest,          \* Dest[m]: the addressee, members, or managers
    Kind,          \* Kind[m] \in Kinds: which handler takes m
    Friends,       \* Friends[u]: the accounts in u's friend list
    NoUser,
    MaxThreads,    \* MAX_THREADS_NUMBER, the workers of the pool
    RedisMayFail,  \* whether a redis command may return an error
    MayCrash       \* whether the server process may die

Kinds == {"private", "group", "push"}

ASSUME DeliveryAssumption ==
    /\ Origin \in [Messages -> Users]
    /\ Dest \in [Messages -> SUBSET Users]
    /\ Kind \in [Messages -> Kinds]
    /\ Friends \in [Users -> SUBSET Users]
    /\ NoUser \notin Users
    /\ MaxThreads \in Nat
    /\ RedisMayFail \in BOOLEAN
    /\ MayCrash \in BOOLEAN

VARIABLES
    unsent,   \* messages still on their sender's device
    refused,  \* messages turned back, or dropped, before anyone was served
    todo,     \* todo[m]: recipients the handler of m has not reached
    to,       \* to[m]: the recipient the handler is serving, or NoUser
    via,      \* via[m]: what GetOnlineUserByID(to[m]) answered
    queue,    \* queue[u]: the redis list of u's offline messages
    phase,    \* phase[c]: how far the login on connection c has got
    owner,    \* owner[c]: the account that logged in on c, or NoUser
    batch,    \* batch[c]: messages this login popped and has not pushed
    leaving,  \* connections whose logout has passed its check
    inbox,    \* inbox[u]: messages written to u's connections, in order
    lost,     \* copies <<m, u>> that nothing will deliver any more
    stored    \* history: stored[u], the order of the RPUSHes for u

handling == <<todo, to, via>>
login    == <<phase, owner, batch, leaving>>
vars     == <<presenceVars, unsent, refused, handling, queue, login,
              inbox, lost, stored>>

Phases == {"free", "connected", "registered", "pop", "answer", "push",
           "done", "failed", "unanswered"}

-----------------------------------------------------------------------------
\* ForwardGroupChatMes skips the sender; the other handlers take the
\* addressees as they are.
Recipients(m) == IF Kind[m] = "group" THEN Dest[m] \ {Origin[m]} ELSE Dest[m]

\* FriendshipCheck looks the sender up in the addressee's own list.
FriendshipCheck(m) == \A u \in Dest[m] : Origin[m] \in Friends[u]

InHand(m)  == todo[m] # {} \/ to[m] # NoUser
LoggingIn(c) == phase[c] \in {"registered", "pop", "answer", "push"}

FreeWorker ==
    Cardinality({m \in Messages : InHand(m)}) + Cardinality(leaving)
        + Cardinality({c \in Conns : LoggingIn(c)}) < MaxThreads

Handed(m) == to' = [to EXCEPT ![m] = NoUser] /\ UNCHANGED <<todo, via>>

Init ==
    /\ PresenceInit
    /\ unsent = Messages /\ refused = {}
    /\ todo = [m \in Messages |-> {}]
    /\ to = [m \in Messages |-> NoUser]
    /\ via = [m \in Messages |-> NoConn]
    /\ queue = [u \in Users |-> <<>>] /\ stored = [u \in Users |-> <<>>]
    /\ phase = [c \in Conns |-> "free"]
    /\ owner = [c \in Conns |-> NoUser]
    /\ batch = [c \in Conns |-> <<>>]
    /\ leaving = {}
    /\ inbox = [u \in Users |-> <<>>] /\ lost = {}

-----------------------------------------------------------------------------
(* The handlers of chat messages: SendOneToOneMes, ForwardGroupChatMes and *)
(* PushMesToDesignatedUser.                                                *)

\* A message of a client that is logged in reaches a worker.
Accept(m) ==
    /\ m \in unsent /\ IsOnline(Origin[m]) /\ FreeWorker
    /\ unsent' = unsent \ {m}
    /\ IF Kind[m] = "private" /\ ~FriendshipCheck(m)
         THEN refused' = refused \cup {m} /\ UNCHANGED todo
         ELSE todo' = [todo EXCEPT ![m] = Recipients(m)] /\ UNCHANGED refused
    /\ UNCHANGED <<presenceVars, to, via, queue, login, inbox, lost, stored>>

\* redis answers with an error: FriendshipCheck's turns a private message
\* back as a stranger's is, GetGroupChatByID's ends ForwardGroupChatMes
\* before a member is known.  The handlers of the pushes go on.
AcceptFails(m) ==
    /\ RedisMayFail /\ Kind[m] \in {"private", "group"}
    /\ m \in unsent /\ IsOnline(Origin[m]) /\ FreeWorker
    /\ unsent' = unsent \ {m}
    /\ refused' = refused \cup {m}
    /\ UNCHANGED <<presenceVars, handling, queue, login, inbox, lost, stored>>

\* Mutant: the recipient stays among those to be served.
LookUpKeepsTodo(m, u) ==
    /\ u \in todo[m] /\ to[m] = NoUser
    /\ to' = [to EXCEPT ![m] = u]
    /\ via' = [via EXCEPT ![m] = GetOnlineUserByID(u)]
    /\ UNCHANGED <<presenceVars, unsent, refused, todo, queue, login, inbox,
                   lost, stored>>

LookUp(m, u) ==
    /\ u \in todo[m] /\ to[m] = NoUser
    /\ todo' = [todo EXCEPT ![m] = @ \ {u}]
    /\ to' = [to EXCEPT ![m] = u]
    /\ via' = [via EXCEPT ![m] = GetOnlineUserByID(u)]
    /\ UNCHANGED <<presenceVars, unsent, refused, queue, login, inbox, lost,
                   stored>>

\* Mutant: LPUSH for RPUSH.
StoreAtTheFront(m) ==
    /\ to[m] # NoUser /\ via[m] = NoConn
    /\ queue' = [queue EXCEPT ![to[m]] = <<m>> \o @]
    /\ stored' = [stored EXCEPT ![to[m]] = Append(@, m)]
    /\ Handed(m)
    /\ UNCHANGED <<presenceVars, unsent, refused, login, inbox, lost>>

\* Mutant: nothing is stored for a recipient who is back by now.
StoreUnlessBack(m) ==
    /\ to[m] # NoUser /\ via[m] = NoConn
    /\ IF IsOnline(to[m]) THEN UNCHANGED <<queue, stored>>
       ELSE /\ queue' = [queue EXCEPT ![to[m]] = Append(@, m)]
            /\ stored' = [stored EXCEPT ![to[m]] = Append(@, m)]
    /\ Handed(m)
    /\ UNCHANGED <<presenceVars, unsent, refused, login, inbox, lost>>

\* StoreOfflineUserMessages: RPUSH, whatever has become of the recipient
\* since the lookup.  When only its answer is lost the handler logs an
\* error and goes on in the same way, the message being stored.
Store(m) ==
    /\ to[m] # NoUser /\ via[m] = NoConn
    /\ queue' = [queue EXCEPT ![to[m]] = Append(@, m)]
    /\ stored' = [stored EXCEPT ![to[m]] = Append(@, m)]
    /\ Handed(m)
    /\ UNCHANGED <<presenceVars, unsent, refused, login, inbox, lost>>

\* An RPUSH (or the SELECT before it) that redis has not carried out: the
\* error is logged by every caller and the copy dropped.
StoreFails(m) ==
    /\ RedisMayFail
    /\ to[m] # NoUser /\ via[m] = NoConn
    /\ lost' = lost \cup {<<m, to[m]>>}
    /\ Handed(m)
    /\ UNCHANGED <<presenceVars, unsent, refused, queue, login, inbox, stored>>

\* WritePkg to a connection that is up.
Write(m) ==
    /\ to[m] # NoUser /\ via[m] \in open
    /\ inbox' = [inbox EXCEPT ![to[m]] = Append(@, m)]
    /\ Handed(m)
    /\ UNCHANGED <<presenceVars, unsent, refused, queue, login, lost, stored>>

\* Mutant: a session that is no longer the current one counts as closed.
WriteToReplaced(m) ==
    /\ to[m] # NoUser /\ via[m] \in Conns \ {onlineUsers[to[m]]}
    /\ lost' = lost \cup {<<m, to[m]>>}
    /\ Handed(m)
    /\ UNCHANGED <<presenceVars, unsent, refused, queue, login, inbox, stored>>

\* WritePkg to a connection whose peer is gone: an error, or bytes that
\* nobody reads.
WriteToClosed(m) ==
    /\ to[m] # NoUser /\ via[m] \in Conns \ open
    /\ lost' = lost \cup {<<m, to[m]>>}
    /\ Handed(m)
    /\ UNCHANGED <<presenceVars, unsent, refused, queue, login, inbox, stored>>

Handle(m) ==
    \/ \E u \in Users : LookUp(m, u)
    \/ Store(m) \/ StoreFails(m) \/ Write(m) \/ WriteToClosed(m)

-----------------------------------------------------------------------------
(* A login, from the moment it enters the table: the reply, then           *)
(* GetOfflineUserMessages (an LPOP per message) and the pushes of          *)
(* PushOfflineUserMessages.                                                *)

messages == <<unsent, refused, handling>>

Register(u, c) ==
    /\ phase[c] = "connected" /\ FreeWorker
    /\ AddOnlineUser(u, c)
    /\ phase' = [phase EXCEPT ![c] = "registered"]
    /\ owner' = [owner EXCEPT ![c] = u]
    /\ UNCHANGED <<messages, queue, batch, leaving, inbox, lost, stored>>

\* The reply is written: serverProcessMes records UsrId and goes on.
LoginRes(c) ==
    /\ phase[c] = "registered"
    /\ phase' = [phase EXCEPT ![c] = "pop"]
    /\ UNCHANGED <<presenceVars, messages, queue, owner, batch, leaving, inbox,
                   lost, stored>>

\* The reply cannot be written: the table keeps the entry, UsrId stays 0.
LoginResFails(c) ==
    /\ phase[c] = "registered" /\ c \notin open
    /\ phase' = [phase EXCEPT ![c] = "unanswered"]
    /\ UNCHANGED <<presenceVars, messages, queue, owner, batch, leaving, inbox,
                   lost, stored>>

\* Mutant: the list is read with LINDEX, nothing is removed.
PopKeeps(c) ==
    /\ phase[c] = "pop" /\ queue[owner[c]] # <<>>
    /\ batch' = [batch EXCEPT ![c] = Append(@, Head(queue[owner[c]]))]
    /\ phase' = [phase EXCEPT ![c] = "answer"]
    /\ UNCHANGED <<presenceVars, messages, queue, owner, leaving, inbox, lost,
                   stored>>

\* redis carries out an LPOP: the message has left the list and is on its
\* way to the login, at the end of what that login has.
Pop(c) ==
    LET u == owner[c] IN
    /\ phase[c] = "pop" /\ queue[u] # <<>>
    /\ batch' = [batch EXCEPT ![c] = Append(@, Head(queue[u]))]
    /\ queue' = [queue EXCEPT ![u] = Tail(@)]
    /\ phase' = [phase EXCEPT ![c] = "answer"]
    /\ UNCHANGED <<presenceVars, messages, owner, leaving, inbox, lost, stored>>

\* Mutant: one LPOP per login.
PopOnce(c) ==
    /\ phase[c] = "answer"
    /\ phase' = [phase EXCEPT ![c] = "push"]
    /\ UNCHANGED <<presenceVars, messages, queue, owner, batch, leaving, inbox,
                   lost, stored>>

\* The answer arrives and the loop goes round.
PopAnswer(c) ==
    /\ phase[c] = "answer"
    /\ phase' = [phase EXCEPT ![c] = "pop"]
    /\ UNCHANGED <<presenceVars, messages, queue, owner, batch, leaving, inbox,
                   lost, stored>>

\* redis.ErrNil ends the loop.
PopEmpty(c) ==
    /\ phase[c] = "pop" /\ queue[owner[c]] = <<>>
    /\ phase' = [phase EXCEPT ![c] = "push"]
    /\ UNCHANGED <<presenceVars, messages, queue, owner, batch, leaving, inbox,
                   lost, stored>>

\* Any other error returns nil, what was popped so far is dropped: at "pop"
\* of an LPOP redis has not carried out, at "answer" of one it has, whose
\* message nobody holds from here on.
PopFails(c) ==
    /\ RedisMayFail
    /\ phase[c] \in {"pop", "answer"}
    /\ lost' = lost \cup (Range(batch[c]) \X {owner[c]})
    /\ batch' = [batch EXCEPT ![c] = <<>>]
    /\ phase' = [phase EXCEPT ![c] = "failed"]
    /\ UNCHANGED <<presenceVars, messages, queue, owner, leaving, inbox, stored>>

\* Mutant: a failed write is counted and tried again.
PushRetries(c) ==
    LET m == Head(batch[c])
        u == owner[c] IN
    /\ phase[c] = "push" /\ batch[c] # <<>>
    /\ IF c \in open
         THEN /\ inbox' = [inbox EXCEPT ![u] = Append(@, m)]
              /\ batch' = [batch EXCEPT ![c] = Tail(@)]
              /\ UNCHANGED lost
         ELSE lost' = lost \cup {<<m, u>>} /\ UNCHANGED <<inbox, batch>>
    /\ UNCHANGED <<presenceVars, messages, queue, phase, owner, leaving, stored>>

\* One round of the loop over the batch; a failed write goes on to the next.
Push(c) ==
    LET m == Head(batch[c])
        u == owner[c] IN
    /\ phase[c] = "push" /\ batch[c] # <<>>
    /\ batch' = [batch EXCEPT ![c] = Tail(@)]
    /\ IF c \in open
         THEN inbox' = [inbox EXCEPT ![u] = Append(@, m)] /\ UNCHANGED lost
         ELSE lost' = lost \cup {<<m, u>>} /\ UNCHANGED inbox
    /\ UNCHANGED <<presenceVars, messages, queue, phase, owner, leaving, stored>>

\* Mutant: the first failed write ends the loop.
PushGivesUp(c) ==
    /\ phase[c] = "push" /\ (batch[c] = <<>> \/ c \notin open)
    /\ phase' = [phase EXCEPT ![c] = "done"]
    /\ UNCHANGED <<presenceVars, messages, queue, owner, batch, leaving, inbox,
                   lost, stored>>

PushDone(c) ==
    /\ phase[c] = "push" /\ batch[c] = <<>>
    /\ phase' = [phase EXCEPT ![c] = "done"]
    /\ UNCHANGED <<presenceVars, messages, queue, owner, batch, leaving, inbox,
                   lost, stored>>

Drain(c) ==
    \/ LoginRes(c) \/ LoginResFails(c)
    \/ Pop(c) \/ PopAnswer(c) \/ PopEmpty(c) \/ PopFails(c)
    \/ Push(c) \/ PushDone(c)

-----------------------------------------------------------------------------
(* Connections come and go.                                                *)

\* A freshly dialled connection; its name returns once nothing refers to it.
NewConn(c) ==
    /\ Connect(c)
    /\ ~LoggingIn(c) /\ c \notin leaving
    /\ \A m \in Messages : to[m] # NoUser => via[m] # c
    /\ phase' = [phase EXCEPT ![c] = "connected"]
    /\ owner' = [owner EXCEPT ![c] = NoUser]
    /\ UNCHANGED <<messages, queue, batch, leaving, inbox, lost, stored>>

PeerCloses(c) ==
    /\ HangUp(c)
    /\ UNCHANGED <<messages, queue, login, inbox, lost, stored>>

\* handleMesFromClient at the end of the stream: the session in the table
\* is the one of this connection.
BeginLogout(c) ==
    /\ c \notin open /\ c \notin leaving /\ FreeWorker
    /\ phase[c] \in {"pop", "answer", "push", "done", "failed"}
    /\ GetOnlineUserByID(owner[c]) = c
    /\ leaving' = leaving \cup {c}
    /\ UNCHANGED <<presenceVars, messages, queue, phase, owner, batch, inbox,
                   lost, stored>>

\* Mutant: the offline list is deleted with the session.
LogoutForgets(c) ==
    /\ c \in leaving
    /\ DelOnlineUser(owner[c])
    /\ leaving' = leaving \ {c}
    /\ queue' = [queue EXCEPT ![owner[c]] = <<>>]
    /\ UNCHANGED <<messages, phase, owner, batch, inbox, lost, stored>>

\* HandleForOffline deletes by account, with no second look.
Logout(c) ==
    /\ c \in leaving
    /\ DelOnlineUser(owner[c])
    /\ leaving' = leaving \ {c}
    /\ UNCHANGED <<messages, queue, phase, owner, batch, inbox, lost, stored>>

InHandCopies  == {x \in Messages \X Users : x[2] \in todo[x[1]] \/ to[x[1]] = x[2]}
InBatchCopies == {x \in Messages \X Users :
                    \E c \in Conns : owner[c] = x[2] /\ x[1] \in Range(batch[c])}

\* The process dies and is started again: only the redis lists survive.
ServerCrash ==
    /\ MayCrash
    /\ Crash
    /\ lost' = lost \cup InHandCopies \cup InBatchCopies
    /\ todo' = [m \in Messages |-> {}]
    /\ to' = [m \in Messages |-> NoUser]
    /\ phase' = [c \in Conns |-> "free"]
    /\ owner' = [c \in Conns |-> NoUser]
    /\ batch' = [c \in Conns |-> <<>>]
    /\ leaving' = {}
    /\ UNCHANGED <<unsent, refused, via, queue, inbox, stored>>

-----------------------------------------------------------------------------
Next ==
    \/ \E m \in Messages : Accept(m) \/ AcceptFails(m) \/ Handle(m)
    \/ \E u \in Users, c \in Conns : Register(u, c)
    \/ \E c \in Conns : Drain(c) \/ NewConn(c) \/ PeerCloses(c)
                        \/ BeginLogout(c) \/ Logout(c)
    \/ ServerCrash

Spec == Init /\ [][Next]_vars

\* A worker that has a task runs: the Go scheduler starves no goroutine,
\* and clients read what is written to them.
Fairness ==
    /\ \A m \in Messages : WF_vars(Handle(m))
    /\ \A c \in Conns : WF_vars(Drain(c)) /\ WF_vars(Logout(c))

FairSpec == Spec /\ Fairness

-----------------------------------------------------------------------------
\* Every variable has its type; what a login or a handler holds is empty
\* when it is not running.
TypeOK ==
    /\ onlineUsers \in [Users -> Conns \cup {NoConn}]
    /\ open \subseteq Conns
    /\ unsent \subseteq Messages
    /\ refused \subseteq Messages
    /\ todo \in [Messages -> SUBSET Users]
    /\ to \in [Messages -> Users \cup {NoUser}]
    /\ via \in [Messages -> Conns \cup {NoConn}]
    /\ queue \in [Users -> Seq(Messages)]
    /\ phase \in [Conns -> Phases]
    /\ owner \in [Conns -> Users \cup {NoUser}]
    /\ batch \in [Conns -> Seq(Messages)]
    /\ leaving \subseteq Conns
    /\ inbox \in [Users -> Seq(Messages)]
    /\ lost \subseteq Messages \X Users
    /\ stored \in [Users -> Seq(Messages)]
    /\ \A c \in Conns :
          /\ owner[c] = NoUser <=> phase[c] \in {"free", "connected"}
          /\ batch[c] # <<>> => phase[c] \in {"pop", "answer", "push"}

InBatchOf(m, u, c) == owner[c] = u /\ m \in Range(batch[c])

\* The five kinds of places the copy of m for u can be in.
HeldByWorker(m, u) == u \in todo[m] \/ to[m] = u
HeldByQueue(m, u)  == m \in Range(queue[u])
HeldByLogin(m, u)  == \E c \in Conns : InBatchOf(m, u, c)
Written(m, u)      == m \in Range(inbox[u])
Lost(m, u)         == <<m, u>> \in lost

Somewhere(m, u) ==
    \/ HeldByWorker(m, u) \/ HeldByQueue(m, u) \/ HeldByLogin(m, u)
    \/ Written(m, u) \/ Lost(m, u)

Exclusive(m, u) ==
    /\ ~(u \in todo[m] /\ to[m] = u)
    /\ HeldByWorker(m, u) => /\ ~HeldByQueue(m, u) /\ ~HeldByLogin(m, u)
                             /\ ~Written(m, u) /\ ~Lost(m, u)
    /\ HeldByQueue(m, u) => ~HeldByLogin(m, u) /\ ~Written(m, u) /\ ~Lost(m, u)
    /\ HeldByLogin(m, u) => ~Written(m, u) /\ ~Lost(m, u)
    /\ Written(m, u) => ~Lost(m, u)

\* No copy is ever in two places: no interleaving of handlers, logins,
\* logouts and crashes delivers a message twice, keeps in redis one that
\* was written, or counts as lost one that will still arrive.
NeverTwoPlaces == \A m \in Messages, u \in Users : Exclusive(m, u)

\* Within a place a copy is held once: by one login, at one position.
HeldOnce ==
    /\ \A u \in Users : IsInjective(queue[u]) /\ IsInjective(inbox[u])
    /\ \A c \in Conns : IsInjective(batch[c])
    /\ \A m \in Messages, u \in Users : \A c, d \in Conns :
          InBatchOf(m, u, c) /\ InBatchOf(m, u, d) => c = d

\* The messages the server has taken on.
Accepted == (Messages \ unsent) \ refused

\* The copies that exist anywhere, if only among the lost, are those of
\* accepted messages for their recipients: none vanishes, nobody gets what
\* is not addressed to him, a message turned back reaches no one.
CopiesAccountedFor ==
    \A m \in Messages, u \in Users :
        Somewhere(m, u) <=> m \in Accepted /\ u \in Recipients(m)

\* RPUSH at one end and LPOP at the other: what a login has popped and what
\* is still in the list are, together, in the order they were stored, even
\* while other logins of the account drain the same list.
InStoredOrder ==
    \A c \in Conns : owner[c] # NoUser =>
        LET s    == stored[owner[c]]
            rest == batch[c] \o queue[owner[c]]
            Place(m) == CHOOSE i \in DOMAIN s : s[i] = m
        IN  \A i, j \in DOMAIN rest : i < j => Place(rest[i]) < Place(rest[j])

\* A copy that is in redis is never lost there, and any other copy only
\* with its own cause: the server died, redis failed on its RPUSH or on an
\* LPOP of the login that holds it, or the very connection it was addressed
\* to had been closed.  A second login, a logout or another handler never
\* costs a message.
NoLossWithoutCause ==
    [][\A m \in Messages, u \in Users :
          <<m, u>> \in lost' \ lost =>
             /\ ~HeldByQueue(m, u)
             /\ \/ /\ MayCrash /\ onlineUsers' = [v \in Users |-> NoConn]
                   /\ HeldByWorker(m, u) \/ HeldByLogin(m, u)
                \/ RedisMayFail /\ to[m] = u /\ via[m] = NoConn
                \/ to[m] = u /\ via[m] \in Conns \ open
                \/ \E c \in Conns :
                      /\ InBatchOf(m, u, c)
                      /\ \/ RedisMayFail /\ phase[c] \in {"pop", "answer"}
                         \/ c \notin open]_vars

\* A message leaves the offline list only from its head, only into the
\* answer to an LPOP of a login of the same account.  A crash, a failed
\* drain, an answer that is lost or a logout takes nothing from the list.
QueueOutlivesTheServer ==
    [][\A u \in Users : \A m \in Range(queue[u]) :
          \/ m \in Range(queue'[u])
          \/ /\ m = Head(queue[u])
             /\ \E c \in Conns :
                   /\ owner[c] = u /\ phase[c] = "pop" /\ phase'[c] = "answer"
                   /\ batch'[c] = Append(batch[c], m)]_vars

\* What is in the list when a login starts to pop is pushed by some login,
\* unless a connection closes, redis fails or the server dies on the way.
OfflineMessagesArrive ==
    \A m \in Messages, c \in Conns, u \in Users :
        (phase[c] = "pop" /\ owner[c] = u /\ HeldByQueue(m, u))
            ~> (Written(m, u) \/ Lost(m, u))

\* The comment on PushOfflineUserMessages: a user who has just logged in is
\* pushed everything received while offline.
LoginDrainsAll ==
    \A u \in Users, c \in open :
        GetOnlineUserByID(u) = c /\ phase[c] = "done" => queue[u] = <<>>

Pending ==
    {x \in Messages \X Users : \/ HeldByWorker(x[1], x[2])
                               \/ HeldByQueue(x[1], x[2])
                               \/ HeldByLogin(x[1], x[2])}

\* The promise of Mailbox: each copy is written at most once or lost.
Promise == INSTANCE Mailbox WITH
    accepted <- Accepted,
    pending <- Pending

MailboxSpec == Promise!MailSpec
=============================================================================
