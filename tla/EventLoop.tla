----------------------------- MODULE EventLoop -----------------------------
(***************************************************************************)
(* How bytes reach a handler: the epoll loop of server/main/main.go, its   *)
(* bounded task channel and worker pool, and ReadPkg.  epoll reports an    *)
(* edge, not a level, so a descriptor whose edge has been reported is      *)
(* looked at once, by one worker, for one record.                          *)
(*                                                                         *)
(* A record is one message: a header, read by the first Read of ReadPkg,   *)
(* and a body, read by the second.  Its bytes may arrive in two pieces;    *)
(* tls.Conn returns none of them before the last.                          *)
(***************************************************************************)
EXTENDS Naturals, Sequences, FiniteSets, SequencesExt

CONSTANTS Conns,      \* accepted connections (their duplicated descriptors)
          NoConn,
          Listener,   \* the listening descriptor
          Workers,    \* the pool; MAX_THREADS_NUMBER of them
          MaxTasks,   \* MAX_TASKS_NUMBER
          MaxEvents,  \* the length of main's slice of events
          MaxMsgs,    \* bound: MaxMsgs[c] records are sent on c
          Paced       \* connections whose client sends whole records and
                      \* waits until a record is handled; the records of
                      \* the others may arrive in two pieces, at any time

ASSUME EventLoopAssumption ==
    /\ NoConn \notin Conns /\ Listener \notin Conns
    /\ IsFiniteSet(Workers)
    /\ MaxTasks \in Nat \ {0} /\ MaxEvents \in Nat \ {0}
    /\ MaxMsgs \in [Conns -> Nat]
    /\ Paced \subseteq Conns

VARIABLES
    backlog,   \* connections the kernel has set up and main has not accepted
    dropped,   \* connections main accepted and, after an error, forgot
    hs,        \* the connection whose handshake main is in, or NoConn
    agreed,    \* connections whose client has finished its handshake
    table,     \* connections in fileDescriberToProcessor
    sent,      \* sent[c]: records that have arrived whole
    half,      \* half[c]: where the first piece of the next record is
    shut,      \* shut[c]: 0 open, 1 close_notify has arrived, 2 FIN as well
    pulled,    \* pulled[c]: records tls.Conn has taken from the socket
    read,      \* read[c]: headers and bodies that ReadPkg has returned
    handled,   \* handled[c]: messages whose handler has returned
    ready,     \* the descriptors on epoll's ready list
    events,    \* what EpollWait returned, yet to be dispatched
    stopped,   \* main has left its loop
    tasks,     \* the channel of descriptors
    job,       \* job[w]: what worker w is doing, on which connection
    noticed,   \* connections whose end ReadPkg has returned
    panicked,  \* ReadPkg took a body for a header: slice out of range
    merged     \* history: descriptors with a record or connection whose
               \* wakeup was merged with another's, or used up in advance or
               \* by an Accept that failed

sockets == <<sent, half, shut, pulled, read>>
pool    == <<tasks, job, handled, noticed, panicked>>
mainVars == <<backlog, dropped, hs, agreed, table, events, stopped>>
vars    == <<sockets, pool, mainVars, ready, merged>>

Sources == Conns \cup {Listener}
Idle    == [conn |-> NoConn, at |-> "idle"]

Init ==
    /\ backlog = <<>> /\ dropped = {} /\ stopped = FALSE /\ hs = NoConn /\ agreed = {} /\ table = {}
    /\ sent = [c \in Conns |-> 0] /\ half = [c \in Conns |-> "none"]
    /\ shut = [c \in Conns |-> 0] /\ pulled = [c \in Conns |-> 0]
    /\ read = [c \in Conns |-> 0] /\ handled = [c \in Conns |-> 0]
    /\ ready = {} /\ events = <<>> /\ tasks = <<>>
    /\ job = [w \in Workers |-> Idle]
    /\ noticed = {} /\ panicked = FALSE /\ merged = {}

\* What a level-triggered poll of a descriptor would find; EpollWait drops
\* the entries of its list for which this has become false.
Readable(s) ==
    IF s = Listener THEN backlog # <<>>
    ELSE sent[s] > pulled[s] \/ half[s] = "kernel" \/ shut[s] > 0

\* An arrival puts the descriptor on epoll's list, once it has been added
\* to epoll and unless it is on the list already.
Watched(s) == s = Listener \/ s \in table \/ s = hs
Edge(s) ==
    ready' = IF Watched(s) THEN ready \cup {s} ELSE ready

\* The arrival of something that needs a wakeup of its own, while the list
\* still holds an earlier arrival's.
Arrival(s) ==
    /\ Edge(s)
    /\ merged' = IF s \in ready /\ Readable(s) THEN merged \cup {s}
                 ELSE merged

-----------------------------------------------------------------------------
(* Clients and the network.                                                *)

Known(c) == c \in Range(backlog) \/ c \in dropped \/ c = hs \/ c \in table

Connect(c) ==
    /\ ~Known(c) /\ c \notin agreed /\ shut[c] = 0 /\ ~stopped
    /\ Arrival(Listener)
    /\ backlog' = Append(backlog, c)
    /\ UNCHANGED <<sockets, pool, dropped, hs, agreed, table, events, stopped>>

\* The client's Handshake returns; the server's may still be under way.
ClientAgrees(c) ==
    /\ c = hs /\ c \notin agreed /\ shut[c] = 0
    /\ agreed' = agreed \cup {c}
    /\ UNCHANGED <<sockets, pool, backlog, dropped, hs, table, events, stopped,
                   ready, merged>>

\* A client goes away before its handshake is complete.
ClientDrops(c) ==
    /\ c \in Range(backlog) \/ c = hs
    /\ c \notin agreed /\ shut[c] = 0
    /\ Arrival(c)
    /\ shut' = [shut EXCEPT ![c] = 2]
    /\ UNCHANGED <<sent, half, pulled, read, pool, mainVars>>

MaySend(c) ==
    /\ c \in agreed /\ shut[c] = 0 /\ sent[c] < MaxMsgs[c]
    /\ c \in Paced => handled[c] = sent[c]

SendRecord(c) ==
    /\ MaySend(c) /\ half[c] = "none"
    /\ Arrival(c)
    /\ sent' = [sent EXCEPT ![c] = @ + 1]
    /\ UNCHANGED <<half, shut, pulled, read, pool, mainVars>>

SendFirstPiece(c) ==
    /\ c \notin Paced /\ MaySend(c) /\ half[c] = "none"
    /\ Arrival(c)
    /\ half' = [half EXCEPT ![c] = "kernel"]
    /\ UNCHANGED <<sent, shut, pulled, read, pool, mainVars>>

\* The record of the first piece is whole: that piece's wakeup serves it.
SendSecondPiece(c) ==
    /\ half[c] # "none"
    /\ Edge(c)
    /\ half' = [half EXCEPT ![c] = "none"]
    /\ sent' = [sent EXCEPT ![c] = @ + 1]
    /\ UNCHANGED <<shut, pulled, read, pool, mainVars, merged>>

\* Conn.Close of the client sends close_notify, then the FIN.
CloseNotify(c) ==
    /\ c \in agreed /\ shut[c] = 0 /\ half[c] = "none"
    /\ c \in Paced => handled[c] = sent[c]
    /\ Arrival(c)
    /\ shut' = [shut EXCEPT ![c] = 1]
    /\ UNCHANGED <<sent, half, pulled, read, pool, mainVars>>

Fin(c) ==
    /\ shut[c] = 1
    /\ Edge(c)
    /\ shut' = [shut EXCEPT ![c] = 2]
    /\ UNCHANGED <<sent, half, pulled, read, pool, mainVars, merged>>

-----------------------------------------------------------------------------
(* main.                                                                   *)

\* Mutant: only events[0] is looked at.
EpollWaitFirst ==
    /\ hs = NoConn /\ events = <<>> /\ ~stopped
    /\ \E s \in ready : Readable(s) /\ events' = <<s>>
    /\ ready' = {}
    /\ UNCHANGED <<sockets, pool, backlog, dropped, hs, agreed, table, stopped,
                   merged>>

\* The descriptors that still have something to report, as many as events
\* has room for, in an order that epoll does not promise.  The others stay
\* on the list.
EpollWait ==
    LET found == {s \in ready : Readable(s)} IN
    /\ hs = NoConn /\ events = <<>> /\ ~stopped /\ found # {}
    /\ \E batch \in SUBSET found :
         /\ Cardinality(batch) = IF Cardinality(found) < MaxEvents
                                  THEN Cardinality(found) ELSE MaxEvents
         /\ events' \in SetToSeqs(batch)
         /\ ready' = found \ batch
    /\ UNCHANGED <<sockets, pool, backlog, dropped, hs, agreed, table, stopped,
                   merged>>

\* Any error of EpollWait (EINTR is one) makes main return: nothing is
\* accepted or dispatched from here on, and the process ends once the
\* workers have emptied the closed channel (wg.Wait).
EpollWaitFails ==
    /\ hs = NoConn /\ events = <<>> /\ ~stopped
    /\ stopped' = TRUE
    /\ UNCHANGED <<sockets, pool, backlog, dropped, hs, agreed, table, events,
                   ready, merged>>

\* One event of the listener, one Accept: the descriptor is added to epoll,
\* which reports what has already arrived, and main is in the handshake.
Accept ==
    LET c == Head(backlog) IN
    /\ hs = NoConn /\ events # <<>> /\ Head(events) = Listener
    /\ backlog # <<>>
    /\ hs' = c /\ backlog' = Tail(backlog)
    /\ events' = Tail(events)
    /\ ready' = IF Readable(c) THEN ready \cup {c} ELSE ready
    /\ UNCHANGED <<sockets, pool, dropped, agreed, table, stopped, merged>>

\* listener.Accept fails, for want of a descriptor say: the event is used
\* up, the connection is left in the backlog.
AcceptFails ==
    /\ hs = NoConn /\ events # <<>> /\ Head(events) = Listener
    /\ backlog # <<>>
    /\ events' = Tail(events)
    /\ merged' = merged \cup {Listener}
    /\ UNCHANGED <<sockets, pool, backlog, dropped, hs, agreed, table, stopped,
                   ready>>

\* File, SetNonblock or EpollCtl fails: the connection is neither watched
\* nor handshaken with, and not closed either.
RegisterFails ==
    /\ hs = NoConn /\ events # <<>> /\ Head(events) = Listener
    /\ backlog # <<>>
    /\ dropped' = dropped \cup {Head(backlog)} /\ backlog' = Tail(backlog)
    /\ events' = Tail(events)
    /\ UNCHANGED <<sockets, pool, hs, agreed, table, stopped, ready, merged>>

\* The Read that completes the handshake may take records along.
Handshake ==
    /\ hs \in agreed
    /\ \E k \in 0..sent[hs] :
         /\ pulled' = [pulled EXCEPT ![hs] = k]
         /\ merged' = IF k > 0 THEN merged \cup {hs} ELSE merged
    /\ table' = table \cup {hs}
    /\ hs' = NoConn
    /\ UNCHANGED <<sent, half, shut, read, pool, backlog, dropped, agreed,
                   events, stopped, ready>>

\* Mutant: the connection is dropped after the error.
HandshakeFailsForgets ==
    /\ hs # NoConn /\ hs \notin agreed /\ shut[hs] = 2
    /\ table' = table
    /\ hs' = NoConn
    /\ UNCHANGED <<sockets, pool, backlog, dropped, agreed, events, stopped,
                   ready, merged>>

\* The error is logged, and the connection goes into the map all the same.
HandshakeFails ==
    /\ hs # NoConn /\ hs \notin agreed /\ shut[hs] = 2
    /\ table' = table \cup {hs}
    /\ hs' = NoConn
    /\ UNCHANGED <<sockets, pool, backlog, dropped, agreed, events, stopped,
                   ready, merged>>

\* Mutant: the channel has no bound.
DispatchAlways ==
    /\ hs = NoConn /\ events # <<>> /\ Head(events) # Listener
    /\ tasks' = Append(tasks, Head(events))
    /\ events' = Tail(events)
    /\ UNCHANGED <<sockets, job, handled, noticed, panicked, backlog, dropped,
                   hs, agreed, table, stopped, ready, merged>>

\* Mutant: main does not wait for room in the channel.
DispatchOrDrop ==
    /\ hs = NoConn /\ events # <<>> /\ Head(events) # Listener
    /\ tasks' = IF Len(tasks) < MaxTasks THEN Append(tasks, Head(events))
                ELSE tasks
    /\ events' = Tail(events)
    /\ UNCHANGED <<sockets, job, handled, noticed, panicked, backlog, dropped,
                   hs, agreed, table, stopped, ready, merged>>

\* tasks <- connFD waits while the channel is full.
Dispatch ==
    /\ hs = NoConn /\ events # <<>> /\ Head(events) # Listener
    /\ Len(tasks) < MaxTasks
    /\ tasks' = Append(tasks, Head(events))
    /\ events' = Tail(events)
    /\ UNCHANGED <<sockets, job, handled, noticed, panicked, backlog, dropped,
                   hs, agreed, table, stopped, ready, merged>>

-----------------------------------------------------------------------------
(* A worker: processConn, handleMesFromClient, ReadPkg.                    *)

At(w, place) == job[w].at = place
Move(w, place) == job' = [job EXCEPT ![w].at = place]

Take(w) ==
    /\ At(w, "idle") /\ tasks # <<>>
    /\ tasks' = Tail(tasks)
    /\ job' = [job EXCEPT ![w] =
                 IF Head(tasks) \in table
                   THEN [conn |-> Head(tasks), at |-> "header"] ELSE Idle]
    /\ UNCHANGED <<sockets, handled, noticed, panicked, mainVars, ready,
                   merged>>

\* tls.Conn.Read of connection c: it returns what has been decrypted, or
\* first takes some of what the socket holds.
Fetch(c) ==
    IF read[c] < 2 * pulled[c]
      THEN UNCHANGED <<pulled, merged>>
      ELSE \E k \in (pulled[c] + 1)..sent[c] :
             /\ pulled' = [pulled EXCEPT ![c] = k]
             /\ merged' = IF k > pulled[c] + 1 /\ c \in ready
                            THEN merged \cup {c} ELSE merged

\* The first Read returns a header.
ReadHeader(w) ==
    LET c == job[w].conn IN
    /\ At(w, "header") /\ read[c] % 2 = 0
    /\ Fetch(c)
    /\ read' = [read EXCEPT ![c] = @ + 1]
    /\ Move(w, "body")
    /\ UNCHANGED <<sent, half, shut, tasks, handled, noticed, panicked,
                   mainVars, ready>>

\* The first Read returns four bytes of a body another worker was about to
\* read: as a length they exceed the buffer.
ReadBodyAsHeader(w) ==
    LET c == job[w].conn IN
    /\ At(w, "header") /\ read[c] % 2 = 1
    /\ panicked' = TRUE
    /\ UNCHANGED <<sockets, tasks, job, handled, noticed, mainVars, ready,
                   merged>>

ReadBody(w) ==
    LET c == job[w].conn IN
    /\ At(w, "body")
    /\ read' = [read EXCEPT ![c] = @ + 1]
    /\ Move(w, "handle")
    /\ UNCHANGED <<sent, half, shut, pulled, tasks, handled, noticed, panicked,
                   mainVars, ready, merged>>

\* The Read that waits for a record takes its first piece from the socket.
ReadFirstPiece(w) ==
    LET c == job[w].conn IN
    /\ At(w, "header") /\ read[c] = 2 * sent[c] /\ half[c] = "kernel"
    /\ half' = [half EXCEPT ![c] = "tls"]
    /\ UNCHANGED <<sent, shut, pulled, read, pool, mainVars, ready, merged>>

\* Mutant: the handler is called again.
HandleMesAgain(w) ==
    /\ At(w, "handle")
    /\ handled' = [handled EXCEPT ![job[w].conn] = @ + 1]
    /\ job' = job
    /\ UNCHANGED <<sockets, tasks, noticed, panicked, mainVars, ready, merged>>

\* Mutant: the worker goes back to ReadPkg.
HandleMesAndReadOn(w) ==
    /\ At(w, "handle")
    /\ handled' = [handled EXCEPT ![job[w].conn] = @ + 1]
    /\ Move(w, "header")
    /\ UNCHANGED <<sockets, tasks, noticed, panicked, mainVars, ready, merged>>

\* serverProcessMes returns; the other modules say what it does.
HandleMes(w) ==
    /\ At(w, "handle")
    /\ handled' = [handled EXCEPT ![job[w].conn] = @ + 1]
    /\ job' = [job EXCEPT ![w] = Idle]
    /\ UNCHANGED <<sockets, tasks, noticed, panicked, mainVars, ready, merged>>

\* ERROR_CLIENT_DISCONNECTED: the descriptor is closed and forgotten, but
\* not when a newer login has superseded the connection.
EndOfStream(w) ==
    LET c == job[w].conn IN
    /\ At(w, "header") /\ read[c] = 2 * sent[c] /\ shut[c] > 0
    /\ noticed' = noticed \cup {c}
    /\ table' \in {table, table \ {c}}
    /\ job' = [job EXCEPT ![w] = Idle]
    /\ UNCHANGED <<sockets, tasks, handled, panicked, backlog, dropped, hs,
                   agreed, events, stopped, ready, merged>>

-----------------------------------------------------------------------------
MainStep == EpollWait \/ Accept \/ Handshake \/ HandshakeFails \/ Dispatch
MainFails == EpollWaitFails \/ AcceptFails \/ RegisterFails

WorkerStep(w) ==
    \/ Take(w) \/ ReadHeader(w) \/ ReadBodyAsHeader(w) \/ ReadBody(w)
    \/ ReadFirstPiece(w) \/ HandleMes(w) \/ EndOfStream(w)

ClientStep(c) ==
    \/ Connect(c) \/ ClientAgrees(c) \/ ClientDrops(c)
    \/ SendRecord(c) \/ SendFirstPiece(c) \/ SendSecondPiece(c)
    \/ CloseNotify(c) \/ Fin(c)

\* A panic ends the process.
Next ==
    /\ ~panicked
    /\ \/ MainStep \/ MainFails
       \/ \E w \in Workers : WorkerStep(w)
       \/ \E c \in Conns : ClientStep(c)

Spec == Init /\ [][Next]_vars

\* The goroutines run.  A client that has connected goes through with its
\* handshake, as tls.Client.Handshake does, or goes away; it owes no message.
Fairness ==
    /\ WF_vars(~panicked /\ MainStep)
    /\ \A w \in Workers : WF_vars(~panicked /\ WorkerStep(w))
    /\ \A c \in Conns :
         WF_vars(~panicked /\ (ClientAgrees(c) \/ ClientDrops(c)))

FairSpec == Spec /\ Fairness

-----------------------------------------------------------------------------
TypeOK ==
    /\ backlog \in Seq(Conns) /\ dropped \subseteq Conns
    /\ hs \in Conns \cup {NoConn} /\ stopped \in BOOLEAN
    /\ agreed \subseteq Conns /\ table \subseteq Conns
    /\ \A c \in Conns :
         /\ {sent[c], pulled[c], handled[c]} \subseteq 0..MaxMsgs[c]
         /\ read[c] \in 0..(2 * MaxMsgs[c])
    /\ \A f \in {sent, pulled, read, handled} : DOMAIN f = Conns
    /\ half \in [Conns -> {"none", "kernel", "tls"}]
    /\ shut \in [Conns -> 0..2]
    /\ ready \subseteq Sources /\ events \in Seq(Sources)
    /\ tasks \in Seq(Conns) /\ Len(tasks) <= MaxTasks
    /\ job \in [Workers -> [conn : Conns \cup {NoConn},
                            at : {"idle", "header", "body", "handle"}]]
    /\ noticed \subseteq Conns /\ panicked \in BOOLEAN
    /\ merged \subseteq Sources

Count(s, seq) == Cardinality({i \in DOMAIN seq : seq[i] = s})

\* The workers that are somewhere with a connection.
Working(c, place) == {w \in Workers : At(w, place) /\ job[w].conn = c}

\* Looks at s that are on their way: on epoll's list, reported, queued, or
\* in the first Read.
Wakeups(s) ==
    (IF s \in ready /\ Readable(s) THEN 1 ELSE 0)
    + Count(s, events) + Count(s, tasks) + Cardinality(Working(s, "header"))

\* Records of c whose header has not been read, and its unnoticed end.
Unread(c) ==
    sent[c] - ((read[c] + 1) \div 2)
    + (IF shut[c] > 0 /\ c \notin noticed THEN 1 ELSE 0)

\* Edges are enough: whatever waits in a connection or in the backlog has a
\* look on its way, unless two arrivals shared one edge or one Read took
\* more than it returned.
WakeupForEveryRecord ==
    ~panicked =>
        /\ \A c \in table \ merged : Wakeups(c) >= Unread(c)
        /\ Listener \notin merged => Wakeups(Listener) >= Len(backlog)

\* Whatever the interleaving of the workers, a message goes to one handler
\* and ReadPkg invents none.
EveryRecordReadOnce ==
    \A c \in Conns :
        /\ read[c] <= 2 * sent[c]
        /\ handled[c] + Cardinality(Working(c, "handle")) = read[c] \div 2

\* A client that sends whole records, one at a time, does no harm, whatever
\* the others do: no body of its connection is taken for a header, and it
\* holds no worker of the pool in a Read that has nothing to return.
PacedDoesNoHarm ==
    \A w \in Workers : LET c == job[w].conn IN
        At(w, "header") /\ c \in Paced =>
            /\ read[c] % 2 = 0
            /\ read[c] < 2 * sent[c] \/ shut[c] > 0

\* Every worker waits in a Read that has nothing to return, for a client
\* that owes nothing: pieces cause more looks than there are records.
PoolHeld ==
    \A w \in Workers : LET c == job[w].conn IN
        At(w, "header") /\ read[c] = 2 * sent[c] /\ shut[c] = 0

\* main has left its loop, or a panic has ended the process.
Ended == stopped \/ panicked

\* A message that has arrived is handled and the end of a connection is
\* noticed, however full the channel and the pool are, unless its wakeup
\* merged with another, the pool is held or main has ended.
EveryMessageHandled ==
    \A c \in Conns :
        /\ \A n \in 1..MaxMsgs[c] :
             (c \in table /\ sent[c] >= n)
                 ~> (handled[c] >= n \/ c \in merged \/ PoolHeld \/ Ended)
        /\ (c \in table /\ shut[c] > 0)
               ~> (c \in noticed \/ c \in merged \/ PoolHeld \/ Ended)

\* A connection in the backlog is accepted, although handshakes are made
\* one after the other in main, unless an error made main drop it, use up
\* its event or leave the loop.
EveryConnectionAccepted ==
    \A c \in Conns :
        c \in Range(backlog)
            ~> (c \in table \/ c \in dropped \/ Listener \in merged
                  \/ PoolHeld \/ Ended)
=============================================================================
