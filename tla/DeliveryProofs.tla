--------------------------- MODULE DeliveryProofs ---------------------------
(***************************************************************************)
(* Proofs about Delivery, for every set of users, connections and messages *)
(* and every number of workers.                                            *)
(***************************************************************************)
EXTENDS Delivery, SequenceLemmas, TLAPS

-----------------------------------------------------------------------------
(* Type correctness.  Its last conjuncts make TypeOK inductive: a login    *)
(* that pops or pushes has an account, and no other login holds a batch.   *)

LEMMA InitTypeOK == Init => TypeOK
  BY DeliveryAssumption DEF Init, PresenceInit, TypeOK, Phases

LEMMA HandleTypeOK ==
  ASSUME TypeOK, NEW m \in Messages, Accept(m) \/ AcceptFails(m) \/ Handle(m)
  PROVE  TypeOK'
<1> USE DeliveryAssumption DEF TypeOK, presenceVars, login
<1>1. CASE Accept(m)
  <2>1. Recipients(m) \subseteq Users
    BY DEF Recipients
  <2>2. [todo EXCEPT ![m] = Recipients(m)] \in [Messages -> SUBSET Users]
    BY <2>1
  <2>3. todo' \in [Messages -> SUBSET Users] /\ refused' \subseteq Messages
    BY <1>1, <2>2 DEF Accept
  <2> QED
    BY <1>1, <2>3 DEF Accept
<1>2. ASSUME NEW u \in Users, LookUp(m, u)
      PROVE  TypeOK'
  BY <1>2 DEF LookUp, GetOnlineUserByID
<1>3. CASE Store(m)
  <2>1. to[m] \in Users
    BY <1>3 DEF Store
  <2>2. /\ Append(queue[to[m]], m) \in Seq(Messages)
        /\ Append(stored[to[m]], m) \in Seq(Messages)
    BY <2>1, AppendRange
  <2> QED
    BY <1>3, <2>1, <2>2 DEF Store, Handed
<1>4. CASE StoreFails(m)
  <2>1. <<m, to[m]>> \in Messages \X Users
    BY <1>4 DEF StoreFails
  <2> QED
    BY <1>4, <2>1 DEF StoreFails, Handed
<1>5. CASE Write(m)
  <2>1. to[m] \in Users
    BY <1>5 DEF Write
  <2>2. Append(inbox[to[m]], m) \in Seq(Messages)
    BY <2>1, AppendRange
  <2> QED
    BY <1>5, <2>1, <2>2 DEF Write, Handed
<1>6. CASE WriteToClosed(m)
  BY <1>6 DEF WriteToClosed, Handed
<1>7. CASE AcceptFails(m)
  BY <1>7 DEF AcceptFails, handling
<1> QED
  BY <1>1, <1>2, <1>3, <1>4, <1>5, <1>6, <1>7 DEF Handle

LEMMA DrainTypeOK ==
  ASSUME TypeOK, NEW c \in Conns, Drain(c)
  PROVE  TypeOK'
<1> USE DeliveryAssumption DEF TypeOK, presenceVars, messages, handling, Phases
<1>1. CASE LoginRes(c)
  BY <1>1 DEF LoginRes
<1>2. CASE LoginResFails(c)
  BY <1>2 DEF LoginResFails
<1>3. CASE Pop(c)
  <2>1. owner[c] \in Users /\ queue[owner[c]] # <<>>
    BY <1>3 DEF Pop
  <2>2. /\ Head(queue[owner[c]]) \in Messages
        /\ Tail(queue[owner[c]]) \in Seq(Messages)
    BY <2>1, TailRange
  <2>3. Append(batch[c], Head(queue[owner[c]])) \in Seq(Messages)
    BY <2>2, AppendRange
  <2> QED
    BY <1>3, <2>1, <2>2, <2>3 DEF Pop
<1>4. CASE PopEmpty(c)
  BY <1>4 DEF PopEmpty
<1>5. CASE PopFails(c)
  <2>1. owner[c] \in Users /\ Range(batch[c]) \subseteq Messages
    BY <1>5, RangeOfSeqInSet DEF PopFails
  <2> QED
    BY <1>5, <2>1 DEF PopFails
<1>6. CASE Push(c)
  <2>1. owner[c] \in Users /\ batch[c] # <<>>
    BY <1>6 DEF Push
  <2>2. Head(batch[c]) \in Messages /\ Tail(batch[c]) \in Seq(Messages)
    BY <2>1, TailRange
  <2>3. Append(inbox[owner[c]], Head(batch[c])) \in Seq(Messages)
    BY <2>1, <2>2, AppendRange
  <2>4. /\ [inbox EXCEPT ![owner[c]] = Append(@, Head(batch[c]))]
              \in [Users -> Seq(Messages)]
        /\ lost \cup {<<Head(batch[c]), owner[c]>>} \subseteq Messages \X Users
    BY <2>1, <2>2, <2>3
  <2>5. inbox' \in [Users -> Seq(Messages)] /\ lost' \subseteq Messages \X Users
    BY <1>6, <2>4 DEF Push
  <2> QED
    BY <1>6, <2>1, <2>2, <2>5 DEF Push
<1>7. CASE PushDone(c)
  BY <1>7 DEF PushDone
<1>8. CASE PopAnswer(c)
  BY <1>8 DEF PopAnswer
<1> QED
  BY <1>1, <1>2, <1>3, <1>4, <1>5, <1>6, <1>7, <1>8 DEF Drain

LEMMA SessionTypeOK ==
  ASSUME TypeOK,
         \/ \E u \in Users, c \in Conns : Register(u, c)
         \/ \E c \in Conns : NewConn(c) \/ PeerCloses(c)
                             \/ BeginLogout(c) \/ Logout(c)
         \/ ServerCrash
  PROVE  TypeOK'
<1> USE DeliveryAssumption
    DEF TypeOK, presenceVars, messages, handling, login, Phases
<1>1. ASSUME NEW u \in Users, NEW c \in Conns, Register(u, c)
      PROVE  TypeOK'
  BY <1>1 DEF Register, AddOnlineUser
<1>2. ASSUME NEW c \in Conns, NewConn(c)
      PROVE  TypeOK'
  BY <1>2 DEF NewConn, Connect, LoggingIn
<1>3. ASSUME NEW c \in Conns, PeerCloses(c)
      PROVE  TypeOK'
  BY <1>3 DEF PeerCloses, HangUp
<1>4. ASSUME NEW c \in Conns, BeginLogout(c)
      PROVE  TypeOK'
  BY <1>4 DEF BeginLogout
<1>5. ASSUME NEW c \in Conns, Logout(c)
      PROVE  TypeOK'
  BY <1>5 DEF Logout, DelOnlineUser
<1>6. CASE ServerCrash
  BY <1>6 DEF ServerCrash, Crash, InHandCopies, InBatchCopies
<1> QED
  BY <1>1, <1>2, <1>3, <1>4, <1>5, <1>6

LEMMA NextTypeOK == TypeOK /\ [Next]_vars => TypeOK'
<1> SUFFICES ASSUME TypeOK, [Next]_vars
             PROVE  TypeOK'
  OBVIOUS
<1>1. CASE Next
  BY <1>1, HandleTypeOK, DrainTypeOK, SessionTypeOK DEF Next
<1>2. CASE UNCHANGED vars
  BY <1>2 DEF vars, presenceVars, handling, login, TypeOK
<1> QED
  BY <1>1, <1>2

\* Type correctness: lists hold messages, only a login that is popping or
\* pushing holds a batch, and it knows its account.
THEOREM TypeCorrect == Spec => []TypeOK
<1>1. Init => TypeOK
  BY InitTypeOK
<1>2. TypeOK /\ [Next]_vars => TypeOK'
  BY NextTypeOK
<1> QED
  BY <1>1, <1>2, PTL DEF Spec

-----------------------------------------------------------------------------
(* Where a copy is.  Fresh is the strengthening that Accept needs.         *)

Fresh == \A m \in unsent : to[m] = NoUser /\ m \notin refused

Ledger == Fresh /\ NeverTwoPlaces /\ HeldOnce /\ CopiesAccountedFor

Stays(m, u) ==
    /\ HeldByWorker(m, u)' <=> HeldByWorker(m, u)
    /\ HeldByQueue(m, u)' <=> HeldByQueue(m, u)
    /\ HeldByLogin(m, u)' <=> HeldByLogin(m, u)
    /\ Written(m, u)' <=> Written(m, u)
    /\ Lost(m, u)' <=> Lost(m, u)

Moves(m, u) == Somewhere(m, u) /\ Somewhere(m, u)' /\ Exclusive(m, u)'

\* The argument behind every step: a copy that stays, or moves from a place
\* to exactly one other, keeps the ledger.
LEMMA LedgerStep ==
  ASSUME TypeOK, Ledger, UNCHANGED <<unsent, refused>>, HeldOnce',
         \A m \in unsent : to'[m] = to[m],
         \A m \in Messages, u \in Users :
            \/ Stays(m, u) /\ ~(u \in todo'[m] /\ to'[m] = u)
            \/ Moves(m, u)
  PROVE  Ledger'
<1>1. Fresh'
  BY DEF Ledger, Fresh
<1>2. NeverTwoPlaces'
  BY DEF Stays, Moves, Ledger, NeverTwoPlaces, Exclusive
<1>3. \A m \in Messages, u \in Users : Somewhere(m, u)' <=> Somewhere(m, u)
  BY DEF Stays, Moves, Somewhere
<1>4. CopiesAccountedFor'
  BY <1>3 DEF Ledger, CopiesAccountedFor, Accepted, Recipients
<1> QED
  BY <1>1, <1>2, <1>4 DEF Ledger

\* Steps of the table and of the sessions leave every copy where it is.
LEMMA LedgerKept ==
  ASSUME TypeOK, Ledger,
         UNCHANGED <<unsent, refused, todo, to, queue, inbox, lost>>,
         \A c \in Conns : /\ batch'[c] = batch[c]
                          /\ owner'[c] = owner[c] \/ batch[c] = <<>>
  PROVE  Ledger'
<1>1. \A m, u : \A c \in Conns : InBatchOf(m, u, c)' <=> InBatchOf(m, u, c)
  BY EmptyRange DEF InBatchOf
<1>2. \A m, u : Stays(m, u)
  BY <1>1 DEF Stays, HeldByLogin, HeldByQueue, HeldByWorker, Written, Lost
<1>3. HeldOnce'
  BY <1>1 DEF Ledger, HeldOnce
<1>4. \A m \in Messages, u \in Users : ~(u \in todo'[m] /\ to'[m] = u)
  BY DEF Ledger, NeverTwoPlaces, Exclusive
<1> QED
  BY <1>2, <1>3, <1>4, LedgerStep

\* A message enters the server: its copies are with the worker only, or it
\* is turned back and there are none.
LEMMA AcceptLedger ==
  ASSUME TypeOK, Ledger, NEW m \in Messages, Accept(m) \/ AcceptFails(m)
  PROVE  Ledger'
<1>1. /\ UNCHANGED <<to, queue, owner, batch, inbox, lost>>
      /\ m \in unsent /\ unsent' = unsent \ {m}
      /\ \/ refused' = refused \cup {m} /\ todo' = todo
         \/ refused' = refused /\ todo' = [todo EXCEPT ![m] = Recipients(m)]
  BY DEF Accept, AcceptFails, login, handling
<1>2. /\ refused \subseteq refused' /\ (m \notin refused' => todo'[m] = Recipients(m))
      /\ \A n \in Messages \ {m} : todo'[n] = todo[n] /\ (n \in refused' <=> n \in refused)
  BY <1>1 DEF TypeOK
<1>3. \A n, u : /\ HeldByLogin(n, u)' <=> HeldByLogin(n, u)
                /\ HeldByQueue(n, u)' <=> HeldByQueue(n, u)
                /\ Written(n, u)' <=> Written(n, u)
                /\ Lost(n, u)' <=> Lost(n, u)
  BY <1>1 DEF HeldByLogin, InBatchOf, HeldByQueue, Written, Lost
<1>4. \A u \in Users : ~Somewhere(m, u)
  BY <1>1 DEF Ledger, CopiesAccountedFor, Accepted
<1>5. Fresh'
  BY <1>1, <1>2 DEF Ledger, Fresh, TypeOK
<1>6. \A n \in Messages \ {m}, u \in Users :
         /\ HeldByWorker(n, u)' <=> HeldByWorker(n, u)
         /\ u \in todo'[n] <=> u \in todo[n]
  BY <1>1, <1>2 DEF HeldByWorker
<1>7. \A u \in Users : HeldByWorker(m, u)' <=> u \in todo'[m]
  BY <1>1, DeliveryAssumption DEF Ledger, Fresh, HeldByWorker, TypeOK
<1>8. NeverTwoPlaces'
  <2>1. \A u \in Users : Exclusive(m, u)'
    BY <1>1, <1>3, <1>4, DeliveryAssumption
       DEF Exclusive, Somewhere, Ledger, Fresh, TypeOK
  <2>2. \A n \in Messages \ {m}, u \in Users : Exclusive(n, u)'
    BY <1>1, <1>3, <1>6 DEF Exclusive, Ledger, NeverTwoPlaces
  <2> QED
    BY <2>1, <2>2 DEF NeverTwoPlaces
<1>9. HeldOnce'
  BY <1>1 DEF Ledger, HeldOnce, InBatchOf
<1>10. CopiesAccountedFor'
  <2>1. \A u \in Users : Somewhere(m, u)' <=> m \in Accepted' /\ u \in Recipients(m)
    <3>1. \A u \in Users : Somewhere(m, u)' <=> u \in todo'[m]
      BY <1>3, <1>4, <1>7 DEF Somewhere
    <3>2. m \in refused' => \A u \in Users : u \notin todo'[m]
      BY <1>1, <1>4 DEF Ledger, Fresh, Somewhere, HeldByWorker
    <3> QED
      BY <1>1, <1>2, <3>1, <3>2 DEF Accepted
  <2>2. \A n \in Messages \ {m}, u \in Users : Somewhere(n, u)' <=> Somewhere(n, u)
    BY <1>3, <1>6 DEF Somewhere
  <2>3. \A n \in Messages \ {m} : n \in Accepted' <=> n \in Accepted
    BY <1>1, <1>2 DEF Accepted
  <2> QED
    BY <2>1, <2>2, <2>3 DEF Ledger, CopiesAccountedFor, Recipients
<1> QED
  BY <1>5, <1>8, <1>9, <1>10 DEF Ledger

\* The handler turns to one recipient: the copy stays with the worker.
LEMMA LookUpLedger ==
  ASSUME TypeOK, Ledger, NEW m \in Messages, NEW u \in Users, LookUp(m, u)
  PROVE  Ledger'
<1>1. /\ UNCHANGED <<unsent, refused, queue, owner, batch, inbox, lost>>
      /\ u \in todo[m] /\ to[m] = NoUser
      /\ todo' = [todo EXCEPT ![m] = @ \ {u}] /\ to' = [to EXCEPT ![m] = u]
  BY DEF LookUp, login
<1>2. \A n \in Messages, v \in Users : /\ HeldByWorker(n, v)' <=> HeldByWorker(n, v)
                                       /\ ~(v \in todo'[n] /\ to'[n] = v)
  BY <1>1, DeliveryAssumption
     DEF HeldByWorker, TypeOK, Ledger, NeverTwoPlaces, Exclusive
<1>3. \A n \in Messages, v \in Users : Stays(n, v)
  BY <1>1, <1>2 DEF Stays, HeldByLogin, InBatchOf, HeldByQueue, Written, Lost
<1>4. HeldOnce'
  BY <1>1 DEF Ledger, HeldOnce, InBatchOf
<1>5. \A n \in unsent : to'[n] = to[n]
  BY <1>1 DEF Ledger, CopiesAccountedFor, Accepted, Somewhere, HeldByWorker, TypeOK
<1> QED
  BY <1>1, <1>2, <1>3, <1>4, <1>5, LedgerStep

\* What the worker gives up when it is done with a recipient: that copy,
\* which no other place held.
LEMMA HandedFacts ==
  ASSUME TypeOK, Ledger, NEW m \in Messages, NEW u, u = to[m], u # NoUser, Handed(m)
  PROVE  /\ u \in Users
         /\ m \notin unsent
         /\ \A n \in unsent : to'[n] = to[n]
         /\ HeldByWorker(m, u)
         /\ ~HeldByWorker(m, u)'
         /\ ~HeldByQueue(m, u) /\ ~HeldByLogin(m, u)
         /\ ~Written(m, u) /\ ~Lost(m, u)
         /\ \A n \in Messages, v \in Users :
              /\ ~(v \in todo'[n] /\ to'[n] = v)
              /\ <<n, v>> # <<m, u>> =>
                    (HeldByWorker(n, v)' <=> HeldByWorker(n, v))
<1>1. u \in Users
  BY DEF TypeOK
<1>2. Exclusive(m, u) /\ HeldByWorker(m, u)
  BY <1>1 DEF Ledger, NeverTwoPlaces, HeldByWorker
<1>3. m \notin unsent
  BY DEF Ledger, Fresh
<1>4. todo' = todo /\ to'[m] = NoUser /\ \A n \in Messages \ {m} : to'[n] = to[n]
  BY DEF Handed, TypeOK
<1>5. \A n \in unsent : to'[n] = to[n]
  BY <1>3, <1>4 DEF TypeOK
<1>6. ~HeldByWorker(m, u)'
  BY <1>1, <1>2, <1>4, DeliveryAssumption DEF HeldByWorker, Exclusive
<1>7. ASSUME NEW n \in Messages, NEW v \in Users
      PROVE  /\ ~(v \in todo'[n] /\ to'[n] = v)
             /\ <<n, v>> # <<m, u>> =>
                    (HeldByWorker(n, v)' <=> HeldByWorker(n, v))
  <2>1. ~(v \in todo[n] /\ to[n] = v)
    BY DEF Ledger, NeverTwoPlaces, Exclusive
  <2>2. CASE n = m
    BY <1>1, <1>4, <2>2, DeliveryAssumption DEF HeldByWorker
  <2>3. CASE n # m
    BY <1>4, <2>1, <2>3 DEF HeldByWorker
  <2> QED
    BY <2>2, <2>3
<1>8. /\ ~HeldByQueue(m, u) /\ ~HeldByLogin(m, u)
      /\ ~Written(m, u) /\ ~Lost(m, u)
  BY <1>2 DEF Exclusive
<1> QED
  BY <1>1, <1>2, <1>3, <1>5, <1>6, <1>7, <1>8

\* RPUSH: from the worker to the end of the list.
LEMMA StoreLedger ==
  ASSUME TypeOK, Ledger, NEW m \in Messages, Store(m)
  PROVE  Ledger'
<1>0. PICK u : u = to[m]
  OBVIOUS
<1>1. /\ UNCHANGED <<unsent, refused, owner, batch, inbox, lost>>
      /\ u # NoUser /\ Handed(m)
      /\ queue' = [queue EXCEPT ![u] = Append(@, m)]
  BY <1>0 DEF Store, login
<1>2. u \in Users /\ queue[u] \in Seq(Messages)
  BY <1>0, <1>1, HandedFacts DEF TypeOK
<1>3. /\ queue'[u] = Append(queue[u], m)
      /\ \A v \in Users \ {u} : queue'[v] = queue[v]
  BY <1>0, <1>1, <1>2 DEF TypeOK
<1>4. Range(queue'[u]) = Range(queue[u]) \cup {m} /\ IsInjective(queue'[u])
  BY <1>0, <1>1, <1>2, <1>3, AppendRange, HandedFacts DEF HeldByQueue, Ledger, HeldOnce
<1>5. ASSUME NEW n \in Messages, NEW v \in Users, <<n, v>> # <<m, u>>
      PROVE  Stays(n, v)
  <2>1. HeldByWorker(n, v)' <=> HeldByWorker(n, v)
    BY <1>0, <1>1, <1>5, HandedFacts
  <2>2. HeldByQueue(n, v)' <=> HeldByQueue(n, v)
    BY <1>3, <1>4, <1>5 DEF HeldByQueue
  <2> QED
    BY <1>1, <2>1, <2>2
       DEF Stays, HeldByLogin, InBatchOf, HeldByQueue, Written, Lost
<1>6. Moves(m, u)
  BY <1>0, <1>1, <1>4, HandedFacts
     DEF Moves, Somewhere, Exclusive, HeldByLogin, InBatchOf, HeldByQueue,
         HeldByWorker, Written, Lost
<1>7. HeldOnce'
  BY <1>0, <1>1, <1>3, <1>4 DEF Ledger, HeldOnce, InBatchOf
<1> QED
  BY <1>0, <1>1, <1>5, <1>6, <1>7, HandedFacts, LedgerStep

\* WritePkg on an open connection: from the worker to the inbox.
LEMMA WriteLedger ==
  ASSUME TypeOK, Ledger, NEW m \in Messages, Write(m)
  PROVE  Ledger'
<1>0. PICK u : u = to[m]
  OBVIOUS
<1>1. /\ UNCHANGED <<unsent, refused, queue, owner, batch, lost>>
      /\ u # NoUser /\ Handed(m)
      /\ inbox' = [inbox EXCEPT ![u] = Append(@, m)]
  BY <1>0 DEF Write, login
<1>2. u \in Users /\ inbox[u] \in Seq(Messages)
  BY <1>0, <1>1, HandedFacts DEF TypeOK
<1>3. /\ inbox'[u] = Append(inbox[u], m)
      /\ \A v \in Users \ {u} : inbox'[v] = inbox[v]
  BY <1>0, <1>1, <1>2 DEF TypeOK
<1>4. Range(inbox'[u]) = Range(inbox[u]) \cup {m} /\ IsInjective(inbox'[u])
  BY <1>0, <1>1, <1>2, <1>3, AppendRange, HandedFacts DEF Written, Ledger, HeldOnce
<1>5. ASSUME NEW n \in Messages, NEW v \in Users, <<n, v>> # <<m, u>>
      PROVE  Stays(n, v)
  <2>1. HeldByWorker(n, v)' <=> HeldByWorker(n, v)
    BY <1>0, <1>1, <1>5, HandedFacts
  <2>2. Written(n, v)' <=> Written(n, v)
    BY <1>3, <1>4, <1>5 DEF Written
  <2> QED
    BY <1>1, <2>1, <2>2
       DEF Stays, HeldByLogin, InBatchOf, HeldByQueue, Written, Lost
<1>6. Moves(m, u)
  BY <1>0, <1>1, <1>4, HandedFacts
     DEF Moves, Somewhere, Exclusive, HeldByLogin, InBatchOf, HeldByQueue,
         HeldByWorker, Written, Lost
<1>7. HeldOnce'
  BY <1>0, <1>1, <1>3, <1>4 DEF Ledger, HeldOnce, InBatchOf
<1> QED
  BY <1>0, <1>1, <1>5, <1>6, <1>7, HandedFacts, LedgerStep

\* A refused RPUSH or a dead connection: from the worker to the lost.
LEMMA HandlerLosesLedger ==
  ASSUME TypeOK, Ledger, NEW m \in Messages, StoreFails(m) \/ WriteToClosed(m)
  PROVE  Ledger'
<1>0. PICK u : u = to[m]
  OBVIOUS
<1>1. /\ UNCHANGED <<unsent, refused, queue, owner, batch, inbox>>
      /\ u # NoUser /\ Handed(m)
      /\ lost' = lost \cup {<<m, u>>}
  BY <1>0 DEF StoreFails, WriteToClosed, login
<1>2. \A n \in Messages, v \in Users : <<n, v>> # <<m, u>> => Stays(n, v)
  BY <1>0, <1>1, HandedFacts
     DEF Stays, HeldByLogin, InBatchOf, HeldByQueue, Written, Lost
<1>3. Moves(m, u)
  BY <1>0, <1>1, HandedFacts
     DEF Moves, Somewhere, Exclusive, HeldByLogin, InBatchOf, HeldByQueue,
         HeldByWorker, Written, Lost
<1>4. HeldOnce'
  BY <1>0, <1>1 DEF Ledger, HeldOnce, InBatchOf
<1> QED
  BY <1>0, <1>1, <1>2, <1>3, <1>4, HandedFacts, LedgerStep

\* LPOP: from the head of the list to the batch of the login.
LEMMA PopLedger ==
  ASSUME TypeOK, Ledger, NEW c \in Conns, Pop(c)
  PROVE  Ledger'
<1>0. PICK u, m : u = owner[c] /\ m = Head(queue[u])
  OBVIOUS
<1>1. /\ UNCHANGED <<unsent, refused, todo, to, owner, inbox, lost>>
      /\ u \in Users /\ queue[u] \in Seq(Messages) /\ queue[u] # <<>>
      /\ batch[c] \in Seq(Messages)
      /\ queue'[u] = Tail(queue[u]) /\ batch'[c] = Append(batch[c], m)
      /\ \A v \in Users \ {u} : queue'[v] = queue[v]
      /\ \A d \in Conns \ {c} : batch'[d] = batch[d]
  BY <1>0 DEF Pop, messages, handling, TypeOK
<1>2. m \in Messages /\ m \in Range(queue[u])
  BY <1>0, <1>1, TailRange
<1>3. Range(queue'[u]) = Range(queue[u]) \ {m} /\ IsInjective(queue'[u])
  BY <1>0, <1>1, TailRange DEF Ledger, HeldOnce
<1>4. /\ HeldByQueue(m, u) /\ ~HeldByWorker(m, u) /\ ~HeldByLogin(m, u)
      /\ ~Written(m, u) /\ ~Lost(m, u)
  BY <1>0, <1>1, <1>2 DEF Ledger, NeverTwoPlaces, Exclusive, HeldByQueue
<1>5. m \notin Range(batch[c])
  BY <1>0, <1>4 DEF HeldByLogin, InBatchOf
<1>6. Range(batch'[c]) = Range(batch[c]) \cup {m} /\ IsInjective(batch'[c])
  BY <1>0, <1>1, <1>2, <1>5, AppendRange DEF Ledger, HeldOnce
<1>7. \A n, v : \A d \in Conns :
         InBatchOf(n, v, d)' <=> InBatchOf(n, v, d) \/ (n = m /\ v = u /\ d = c)
  BY <1>0, <1>1, <1>6 DEF InBatchOf
<1>8. \A n \in Messages, v \in Users : <<n, v>> # <<m, u>> => Stays(n, v)
  BY <1>0, <1>1, <1>3, <1>7
     DEF Stays, HeldByLogin, HeldByQueue, HeldByWorker, Written, Lost
<1>9. Moves(m, u)
  BY <1>0, <1>1, <1>3, <1>4, <1>7
     DEF Moves, Somewhere, Exclusive, HeldByLogin, HeldByQueue, HeldByWorker,
         Written, Lost
<1>10. HeldOnce'
  <2>1. \A v \in Users : IsInjective(queue'[v]) /\ IsInjective(inbox'[v])
    BY <1>0, <1>1, <1>3 DEF Ledger, HeldOnce
  <2>2. \A d \in Conns : IsInjective(batch'[d])
    BY <1>0, <1>1, <1>6 DEF Ledger, HeldOnce
  <2>3. \A n \in Messages, v \in Users : \A d, e \in Conns :
           InBatchOf(n, v, d)' /\ InBatchOf(n, v, e)' => d = e
    BY <1>0, <1>4, <1>7 DEF Ledger, HeldOnce, HeldByLogin
  <2> QED
    BY <2>1, <2>2, <2>3 DEF HeldOnce
<1>11. \A n \in Messages, v \in Users : ~(v \in todo'[n] /\ to'[n] = v)
  BY <1>0, <1>1 DEF Ledger, NeverTwoPlaces, Exclusive
<1> QED
  BY <1>0, <1>1, <1>8, <1>9, <1>10, <1>11, LedgerStep

\* A push: from the batch to the inbox, or to the lost.
LEMMA PushLedger ==
  ASSUME TypeOK, Ledger, NEW c \in Conns, Push(c)
  PROVE  Ledger'
<1>0. PICK u, m : u = owner[c] /\ m = Head(batch[c])
  OBVIOUS
<1>1. /\ UNCHANGED <<unsent, refused, todo, to, owner, queue>>
      /\ u \in Users /\ batch[c] \in Seq(Messages) /\ batch[c] # <<>>
      /\ inbox[u] \in Seq(Messages)
      /\ batch'[c] = Tail(batch[c])
      /\ \A d \in Conns \ {c} : batch'[d] = batch[d]
  BY <1>0 DEF Push, messages, handling, TypeOK
<1>2. m \in Messages /\ m \in Range(batch[c])
  BY <1>0, <1>1, TailRange
<1>3. Range(batch'[c]) = Range(batch[c]) \ {m} /\ IsInjective(batch'[c])
  BY <1>0, <1>1, TailRange DEF Ledger, HeldOnce
<1>4. /\ HeldByLogin(m, u) /\ ~HeldByWorker(m, u) /\ ~HeldByQueue(m, u)
      /\ ~Written(m, u) /\ ~Lost(m, u)
  BY <1>0, <1>1, <1>2 DEF Ledger, NeverTwoPlaces, Exclusive, HeldByLogin, InBatchOf
<1>5. \A d \in Conns \ {c} : ~InBatchOf(m, u, d)
  BY <1>0, <1>1, <1>2 DEF Ledger, HeldOnce, InBatchOf
<1>6. /\ Append(inbox[u], m) \in Seq(Messages)
      /\ Range(Append(inbox[u], m)) = Range(inbox[u]) \cup {m}
      /\ IsInjective(Append(inbox[u], m))
  BY <1>0, <1>1, <1>2, <1>4, AppendRange DEF Ledger, HeldOnce, Written
<1>7. \/ /\ inbox'[u] = Append(inbox[u], m) /\ lost' = lost
         /\ \A v \in Users \ {u} : inbox'[v] = inbox[v]
      \/ inbox' = inbox /\ lost' = lost \cup {<<m, u>>}
  BY <1>0, <1>1 DEF Push, TypeOK
<1>8. \A n, v : \A d \in Conns :
         InBatchOf(n, v, d)' <=> InBatchOf(n, v, d) /\ ~(n = m /\ v = u)
  BY <1>0, <1>1, <1>3, <1>5 DEF InBatchOf
<1>9. \A n \in Messages, v \in Users : <<n, v>> # <<m, u>> => Stays(n, v)
  BY <1>0, <1>1, <1>6, <1>7, <1>8
     DEF Stays, HeldByLogin, HeldByQueue, HeldByWorker, Written, Lost
<1>10. Moves(m, u)
  <2>1. ~HeldByWorker(m, u)' /\ ~HeldByQueue(m, u)' /\ ~HeldByLogin(m, u)'
    BY <1>0, <1>1, <1>4, <1>8 DEF HeldByWorker, HeldByQueue, HeldByLogin
  <2>2. (Written(m, u)' /\ ~Lost(m, u)') \/ (~Written(m, u)' /\ Lost(m, u)')
    BY <1>0, <1>4, <1>6, <1>7 DEF Written, Lost
  <2>3. ~(u \in todo'[m] /\ to'[m] = u)
    BY <2>1 DEF HeldByWorker
  <2> QED
    BY <1>0, <1>4, <2>1, <2>2, <2>3 DEF Moves, Somewhere, Exclusive
<1>11. HeldOnce'
  <2>1. \A v \in Users : IsInjective(queue'[v]) /\ IsInjective(inbox'[v])
    BY <1>0, <1>1, <1>6, <1>7 DEF Ledger, HeldOnce
  <2>2. \A d \in Conns : IsInjective(batch'[d])
    BY <1>0, <1>1, <1>3 DEF Ledger, HeldOnce
  <2> QED
    BY <1>0, <1>8, <2>1, <2>2 DEF Ledger, HeldOnce
<1>12. \A n \in Messages, v \in Users : ~(v \in todo'[n] /\ to'[n] = v)
  BY <1>0, <1>1 DEF Ledger, NeverTwoPlaces, Exclusive
<1> QED
  BY <1>0, <1>1, <1>9, <1>10, <1>11, <1>12, LedgerStep

\* A redis error in the middle of the drain: the whole batch is lost.
LEMMA PopFailsLedger ==
  ASSUME TypeOK, Ledger, NEW c \in Conns, PopFails(c)
  PROVE  Ledger'
<1>0. PICK u : u = owner[c]
  OBVIOUS
<1>1. /\ UNCHANGED <<unsent, refused, todo, to, owner, queue, inbox>>
      /\ u \in Users
      /\ lost' = lost \cup (Range(batch[c]) \X {u})
      /\ batch'[c] = <<>> /\ \A d \in Conns \ {c} : batch'[d] = batch[d]
  BY <1>0 DEF PopFails, messages, handling, TypeOK
<1>2. \A n, v : \A d \in Conns :
         InBatchOf(n, v, d)' <=> InBatchOf(n, v, d) /\ d # c
  BY <1>1, EmptyRange DEF InBatchOf
<1>3. \A n, v : Lost(n, v)' <=> Lost(n, v) \/ InBatchOf(n, v, c)
  BY <1>0, <1>1 DEF Lost, InBatchOf
<1>4. \A n \in Messages, v \in Users :
         /\ ~(v \in todo'[n] /\ to'[n] = v)
         /\ HeldByWorker(n, v)' <=> HeldByWorker(n, v)
         /\ HeldByQueue(n, v)' <=> HeldByQueue(n, v)
         /\ Written(n, v)' <=> Written(n, v)
  BY <1>1 DEF Ledger, NeverTwoPlaces, Exclusive, HeldByWorker, HeldByQueue, Written
<1>5. ASSUME NEW n \in Messages, NEW v \in Users, InBatchOf(n, v, c)
      PROVE  Moves(n, v)
  <2>1. HeldByLogin(n, v) /\ Exclusive(n, v)
    BY <1>5 DEF HeldByLogin, Ledger, NeverTwoPlaces
  <2>2. ~HeldByLogin(n, v)'
    BY <1>2, <1>5 DEF HeldByLogin, Ledger, HeldOnce
  <2> QED
    BY <1>3, <1>4, <1>5, <2>1, <2>2 DEF Moves, Somewhere, Exclusive
<1>6. ASSUME NEW n \in Messages, NEW v \in Users, ~InBatchOf(n, v, c)
      PROVE  Stays(n, v)
  BY <1>2, <1>3, <1>4, <1>6 DEF Stays, HeldByLogin
<1>7. HeldOnce'
  <2>1. \A d \in Conns : IsInjective(batch'[d])
    BY <1>1, EmptyRange DEF Ledger, HeldOnce
  <2> QED
    BY <1>1, <1>2, <2>1 DEF Ledger, HeldOnce
<1> QED
  BY <1>1, <1>4, <1>5, <1>6, <1>7, LedgerStep

\* A crash: what workers and logins held is lost, the lists stay.
LEMMA CrashLedger ==
  ASSUME TypeOK, Ledger, ServerCrash
  PROVE  Ledger'
<1>1. /\ UNCHANGED <<unsent, refused, queue, inbox>>
      /\ \A m \in Messages : todo'[m] = {} /\ to'[m] = NoUser
      /\ \A c \in Conns : owner'[c] = NoUser /\ batch'[c] = <<>>
      /\ lost' = lost \cup InHandCopies \cup InBatchCopies
  BY DEF ServerCrash
<1>2. \A n \in Messages, v \in Users :
         /\ ~HeldByWorker(n, v)' /\ ~HeldByLogin(n, v)'
         /\ Lost(n, v)' <=> Lost(n, v) \/ HeldByWorker(n, v) \/ HeldByLogin(n, v)
         /\ HeldByQueue(n, v)' <=> HeldByQueue(n, v)
         /\ Written(n, v)' <=> Written(n, v)
         /\ ~(v \in todo'[n] /\ to'[n] = v)
  BY <1>1, EmptyRange, DeliveryAssumption
     DEF HeldByWorker, HeldByLogin, InBatchOf, Lost, HeldByQueue, Written,
         InHandCopies, InBatchCopies
<1>3. \A n \in Messages, v \in Users : Stays(n, v) \/ Moves(n, v)
  BY <1>2 DEF Stays, Moves, Somewhere, Exclusive, Ledger, NeverTwoPlaces
<1>4. HeldOnce'
  <2>1. \A c \in Conns : IsInjective(batch'[c])
    BY <1>1, EmptyRange
  <2>2. \A n, v : \A c \in Conns : ~InBatchOf(n, v, c)'
    BY <1>1, EmptyRange DEF InBatchOf
  <2> QED
    BY <1>1, <2>1, <2>2 DEF Ledger, HeldOnce
<1>5. \A n \in unsent : to'[n] = to[n]
  BY <1>1 DEF Ledger, Fresh, TypeOK
<1> QED
  BY <1>1, <1>2, <1>3, <1>4, <1>5, LedgerStep

\* The table, the phases of a login and the logouts do not touch messages.
LEMMA SessionLedger ==
  ASSUME TypeOK, Ledger,
         \/ \E u \in Users, c \in Conns : Register(u, c)
         \/ \E c \in Conns : \/ LoginRes(c) \/ LoginResFails(c)
                             \/ PopAnswer(c) \/ PopEmpty(c)
                             \/ PushDone(c) \/ NewConn(c) \/ PeerCloses(c)
                             \/ BeginLogout(c) \/ Logout(c)
         \/ UNCHANGED vars
  PROVE  Ledger'
<1>1. UNCHANGED <<unsent, refused, todo, to, queue, inbox, lost, batch>>
  BY DEF Register, LoginRes, LoginResFails, PopAnswer, PopEmpty, PushDone, NewConn,
         PeerCloses, BeginLogout, Logout, vars, messages, handling, login
<1>2. \A c \in Conns : owner'[c] = owner[c] \/ batch[c] = <<>>
  <2>1. ASSUME NEW u \in Users, NEW d \in Conns, Register(u, d)
        PROVE  \A c \in Conns : owner'[c] = owner[c] \/ batch[c] = <<>>
    BY <2>1 DEF Register, TypeOK
  <2>2. ASSUME NEW d \in Conns, NewConn(d)
        PROVE  \A c \in Conns : owner'[c] = owner[c] \/ batch[c] = <<>>
    BY <2>2 DEF NewConn, TypeOK, LoggingIn
  <2> QED
    BY <2>1, <2>2 DEF LoginRes, LoginResFails, PopAnswer, PopEmpty, PushDone,
       PeerCloses, BeginLogout, Logout, vars, login
<1> QED
  BY <1>1, <1>2, LedgerKept

-----------------------------------------------------------------------------
(* The inductive invariant, and what follows from it.                      *)

Inv == TypeOK /\ Ledger

LEMMA InitInv == Init => Inv
<1> SUFFICES ASSUME Init
             PROVE  Ledger
  BY InitTypeOK DEF Inv
<1>1. \A m \in Messages, u \in Users : ~Somewhere(m, u) /\ to[m] = NoUser
  BY EmptyRange, DeliveryAssumption
     DEF Init, Somewhere, HeldByWorker, HeldByQueue, HeldByLogin, InBatchOf,
         Written, Lost
<1>2. Fresh
  BY <1>1 DEF Init, Fresh
<1>3. NeverTwoPlaces
  BY <1>1 DEF NeverTwoPlaces, Exclusive, Somewhere, HeldByWorker
<1>4. HeldOnce
  BY EmptyRange DEF Init, HeldOnce, InBatchOf
<1>5. CopiesAccountedFor
  BY <1>1 DEF Init, CopiesAccountedFor, Accepted
<1> QED
  BY <1>2, <1>3, <1>4, <1>5 DEF Ledger

LEMMA NextInv == Inv /\ [Next]_vars => Inv'
<1> SUFFICES ASSUME TypeOK, Ledger, [Next]_vars
             PROVE  Ledger'
  BY NextTypeOK DEF Inv
<1>1. ASSUME NEW m \in Messages, Accept(m) \/ AcceptFails(m) \/ Handle(m)
      PROVE  Ledger'
  BY <1>1, AcceptLedger, LookUpLedger, StoreLedger, WriteLedger,
     HandlerLosesLedger DEF Handle
<1>2. ASSUME NEW c \in Conns, Pop(c) \/ PopFails(c) \/ Push(c)
      PROVE  Ledger'
  BY <1>2, PopLedger, PopFailsLedger, PushLedger
<1> QED
  BY <1>1, <1>2, CrashLedger, SessionLedger DEF Next, Drain

LEMMA InvHolds == Spec => []Inv
<1>1. Init => Inv
  BY InitInv
<1>2. Inv /\ [Next]_vars => Inv'
  BY NextInv
<1> QED
  BY <1>1, <1>2, PTL DEF Spec

\* However handlers, logins, logouts and crashes interleave, no copy of a
\* message is ever in two places.
THEOREM CopyInOnePlace == Spec => []NeverTwoPlaces
<1>1. Inv => NeverTwoPlaces
  BY DEF Inv, Ledger
<1> QED
  BY <1>1, InvHolds, PTL

\* Nor is it twice in one place: no list, batch or inbox repeats a message
\* and no two logins of an account hold the same one.
THEOREM CopyHeldOnce == Spec => []HeldOnce
<1>1. Inv => HeldOnce
  BY DEF Inv, Ledger
<1> QED
  BY <1>1, InvHolds, PTL

\* The copies that are anywhere are exactly those the accepted messages have
\* recipients for: none vanishes, none is invented.
THEOREM CopiesAreAccountedFor == Spec => []CopiesAccountedFor
<1>1. Inv => CopiesAccountedFor
  BY DEF Inv, Ledger
<1> QED
  BY <1>1, InvHolds, PTL

-----------------------------------------------------------------------------
(* Delivery implements Mailbox.  The ledger makes the copies that are      *)
(* still pending a function of what was accepted, written and lost, so     *)
(* each step need only be classified by what it does to those three.       *)

Owed(m, u) ==
    m \in Accepted /\ u \in Recipients(m) /\ ~Written(m, u) /\ ~Lost(m, u)

LEMMA PendingIsOwed ==
  Inv => \A m \in Messages, u \in Users : <<m, u>> \in Pending <=> Owed(m, u)
  BY DEF Inv, Ledger, CopiesAccountedFor, NeverTwoPlaces, Exclusive,
         Somewhere, Pending, Owed

LEMMA PendingIsOwedNext ==
  Inv' => \A m \in Messages, u \in Users : <<m, u>> \in Pending' <=> Owed(m, u)'
  BY DEF Inv, Ledger, CopiesAccountedFor, NeverTwoPlaces, Exclusive,
         Somewhere, Pending, Owed, Recipients

LEMMA AppendedWasNew ==
  ASSUME NEW S, NEW s \in Seq(S), NEW e \in S, IsInjective(Append(s, e))
  PROVE  e \notin Range(s)
<1>1. /\ DOMAIN s = 1..Len(s) /\ Len(s) \in Nat
      /\ DOMAIN Append(s, e) = 1..(Len(s) + 1)
      /\ \A i \in 1..Len(s) : Append(s, e)[i] = s[i]
      /\ Append(s, e)[Len(s) + 1] = e
  OBVIOUS
<1>2. ASSUME NEW i \in 1..Len(s), s[i] = e
      PROVE  FALSE
  <2>1. /\ i \in DOMAIN Append(s, e) /\ Len(s) + 1 \in DOMAIN Append(s, e)
        /\ Append(s, e)[i] = Append(s, e)[Len(s) + 1]
    BY <1>1, <1>2
  <2>2. i = Len(s) + 1
    BY <2>1 DEF IsInjective
  <2> QED
    BY <1>1, <2>2
<1> QED
  BY <1>1, <1>2 DEF Range

\* A step that only adds to the lost loses copies that were pending.
LEMMA LosingStep ==
  ASSUME Inv, Inv', UNCHANGED <<unsent, refused, inbox>>, lost \subseteq lost'
  PROVE  Promise!Lose(lost' \ lost)
<1>1. \A m \in Messages, u \in Users :
         <<m, u>> \in Pending' <=> <<m, u>> \in Pending \ (lost' \ lost)
  BY PendingIsOwed, PendingIsOwedNext DEF Owed, Accepted, Written, Lost, Recipients
<1>2. \A m \in Messages, u \in Users : <<m, u>> \in lost' \ lost => <<m, u>> \in Pending
  <2> SUFFICES ASSUME NEW m \in Messages, NEW u \in Users, <<m, u>> \in lost' \ lost
               PROVE  Owed(m, u)
    BY PendingIsOwed
  <2>1. Lost(m, u)' /\ ~Lost(m, u)
    BY DEF Lost
  <2>2. ~Written(m, u)' /\ m \in Accepted' /\ u \in Recipients(m)
    BY <2>1 DEF Inv, Ledger, NeverTwoPlaces, Exclusive, CopiesAccountedFor,
                Somewhere, Recipients
  <2> QED
    BY <2>1, <2>2 DEF Owed, Accepted, Written
<1>3. lost' \subseteq Messages \X Users
  BY DEF Inv, TypeOK
<1>4. Pending \subseteq Messages \X Users /\ Pending' \subseteq Messages \X Users
  BY DEF Pending
<1>5. lost' \ lost \subseteq Pending
  BY <1>2, <1>3
<1>6. Pending' = Pending \ (lost' \ lost)
  BY <1>1, <1>4
<1>7. lost' = lost \cup (lost' \ lost) /\ Accepted' = Accepted
  BY DEF Accepted
<1> QED
  BY <1>5, <1>6, <1>7 DEF Promise!Lose

\* A step that appends a message to an inbox delivers a pending copy.
LEMMA WritingStep ==
  ASSUME Inv, Inv', UNCHANGED <<unsent, refused, lost>>,
         NEW m \in Messages, NEW u \in Users,
         inbox' = [inbox EXCEPT ![u] = Append(@, m)]
  PROVE  Promise!Deliver(m, u)
<1>1. /\ inbox[u] \in Seq(Messages) /\ inbox'[u] = Append(inbox[u], m)
      /\ \A v \in Users \ {u} : inbox'[v] = inbox[v]
      /\ IsInjective(Append(inbox[u], m))
  BY DEF Inv, TypeOK, Ledger, HeldOnce
<1>2. m \notin Range(inbox[u]) /\ Range(inbox'[u]) = Range(inbox[u]) \cup {m}
  <2>1. m \notin Range(inbox[u])
    BY <1>1, AppendedWasNew
  <2>2. Range(Append(inbox[u], m)) = Range(inbox[u]) \cup {m}
    BY <1>1, AppendRange
  <2> QED
    BY <1>1, <2>1, <2>2
<1>3. \A n \in Messages, v \in Users :
         Written(n, v)' <=> Written(n, v) \/ <<n, v>> = <<m, u>>
  BY <1>1, <1>2 DEF Written
<1>4. \A n \in Messages, v \in Users :
         <<n, v>> \in Pending' <=> <<n, v>> \in Pending \ {<<m, u>>}
  BY <1>3, PendingIsOwed, PendingIsOwedNext DEF Owed, Accepted, Lost, Recipients
<1>5. <<m, u>> \in Pending
  <2>1. Written(m, u)' /\ ~Written(m, u)
    BY <1>2, <1>3 DEF Written
  <2>2. ~Lost(m, u)' /\ m \in Accepted' /\ u \in Recipients(m)
    BY <2>1 DEF Inv, Ledger, NeverTwoPlaces, Exclusive, CopiesAccountedFor,
                Somewhere, Recipients
  <2> QED
    BY <2>1, <2>2, PendingIsOwed DEF Owed, Accepted, Lost
<1>6. Pending \subseteq Messages \X Users /\ Pending' \subseteq Messages \X Users
  BY DEF Pending
<1>7. Pending' = Pending \ {<<m, u>>}
  BY <1>4, <1>6
<1>8. Accepted' = Accepted
  BY DEF Accepted
<1> QED
  BY <1>5, <1>7, <1>8 DEF Promise!Deliver

\* A message enters the mailbox, or is turned back and leaves it unchanged.
LEMMA AcceptingStep ==
  ASSUME Inv, Inv', NEW m \in Messages, Accept(m) \/ AcceptFails(m)
  PROVE  Promise!Take(m) \/ UNCHANGED Promise!mailVars
<1>1. /\ UNCHANGED <<inbox, lost>>
      /\ m \in unsent /\ unsent' = unsent \ {m}
      /\ refused' = refused \/ refused' = refused \cup {m}
  BY DEF Accept, AcceptFails
<1>2. m \notin refused /\ ~(\E u \in Users : Written(m, u) \/ Lost(m, u))
  BY <1>1 DEF Inv, Ledger, Fresh, CopiesAccountedFor, Accepted, Somewhere
<1>3. Pending \subseteq Messages \X Users /\ Pending' \subseteq Messages \X Users
  BY DEF Pending
<1>4. CASE refused' = refused
  <2>1. Accepted' = Accepted \cup {m} /\ m \notin Accepted
    BY <1>1, <1>2, <1>4 DEF Accepted
  <2>2. \A n \in Messages, v \in Users :
           <<n, v>> \in Pending' <=> <<n, v>> \in Pending \/ (n = m /\ v \in Recipients(m))
    BY <1>1, <1>2, <2>1, PendingIsOwed, PendingIsOwedNext
       DEF Owed, Written, Lost, Recipients
  <2>3. Recipients(m) \subseteq Users
    BY DeliveryAssumption DEF Recipients
  <2>4. Pending' = Pending \cup ({m} \X Recipients(m))
    BY <1>3, <2>2, <2>3
  <2> QED
    BY <1>1, <2>1, <2>4 DEF Promise!Take, Promise!CopiesOf
<1>5. CASE refused' = refused \cup {m}
  <2>1. Accepted' = Accepted
    BY <1>1, <1>5 DEF Accepted
  <2>2. \A n \in Messages, v \in Users : <<n, v>> \in Pending' <=> <<n, v>> \in Pending
    BY <1>1, <2>1, PendingIsOwed, PendingIsOwedNext
       DEF Owed, Written, Lost, Recipients
  <2>3. Pending' = Pending
    BY <1>3, <2>2
  <2> QED
    BY <1>1, <2>1, <2>3 DEF Promise!mailVars
<1> QED
  BY <1>1, <1>4, <1>5

LEMMA HandlerImplements ==
  ASSUME Inv, Inv', NEW m \in Messages, Handle(m)
  PROVE  [Promise!MailNext]_(Promise!mailVars)
<1>1. CASE Write(m)
  <2>1. PICK u \in Users : u = to[m]
    BY <1>1 DEF Write, Inv, TypeOK
  <2>2. Promise!Deliver(m, u)
    BY <1>1, <2>1, WritingStep DEF Write
  <2> QED
    BY <2>2 DEF Promise!MailNext
<1>2. CASE StoreFails(m) \/ WriteToClosed(m)
  <2>1. Promise!Lose(lost' \ lost)
    BY <1>2, LosingStep DEF StoreFails, WriteToClosed
  <2> QED
    BY <2>1 DEF Promise!MailNext, Promise!Lose
<1>3. CASE Store(m) \/ \E u \in Users : LookUp(m, u)
  <2>1. Promise!Lose(lost' \ lost)
    BY <1>3, LosingStep DEF Store, LookUp
  <2> QED
    BY <2>1 DEF Promise!MailNext, Promise!Lose
<1> QED
  BY <1>1, <1>2, <1>3 DEF Handle

LEMMA DrainImplements ==
  ASSUME Inv, Inv', NEW c \in Conns, Drain(c)
  PROVE  [Promise!MailNext]_(Promise!mailVars)
<1>1. CASE Push(c) /\ c \in open
  <2>1. PICK u \in Users, m \in Messages : u = owner[c] /\ m = Head(batch[c])
    <3>1. /\ batch[c] \in Seq(Messages) /\ batch[c] # <<>>
          /\ owner[c] \in Users
      BY <1>1 DEF Push, Inv, TypeOK
    <3>2. Head(batch[c]) \in Messages
      BY <3>1, TailRange
    <3> QED
      BY <3>1, <3>2
  <2>2. Promise!Deliver(m, u)
    BY <1>1, <2>1, WritingStep DEF Push, messages
  <2> QED
    BY <2>2 DEF Promise!MailNext
<1>2. CASE ~(Push(c) /\ c \in open)
  <2>1. UNCHANGED <<unsent, refused, inbox>> /\ lost \subseteq lost'
    BY <1>2 DEF Drain, LoginRes, LoginResFails, Pop, PopAnswer, PopEmpty, PopFails,
                Push, PushDone, messages
  <2>2. Promise!Lose(lost' \ lost)
    BY <2>1, LosingStep
  <2> QED
    BY <2>2 DEF Promise!MailNext, Promise!Lose
<1> QED
  BY <1>1, <1>2

LEMMA StepImplements ==
  ASSUME Inv, Inv', [Next]_vars
  PROVE  [Promise!MailNext]_(Promise!mailVars)
<1>1. ASSUME NEW m \in Messages, Accept(m) \/ AcceptFails(m)
      PROVE  [Promise!MailNext]_(Promise!mailVars)
  BY <1>1, AcceptingStep DEF Promise!MailNext
<1>2. CASE \/ \E u \in Users, c \in Conns : Register(u, c)
           \/ \E c \in Conns : NewConn(c) \/ PeerCloses(c)
                               \/ BeginLogout(c) \/ Logout(c)
           \/ ServerCrash
           \/ UNCHANGED vars
  <2>1. UNCHANGED <<unsent, refused, inbox>> /\ lost \subseteq lost'
    BY <1>2 DEF Register, NewConn, PeerCloses, BeginLogout, Logout,
                ServerCrash, vars, messages
  <2>2. Promise!Lose(lost' \ lost)
    BY <2>1, LosingStep
  <2> QED
    BY <2>2 DEF Promise!MailNext, Promise!Lose
<1> QED
  BY <1>1, <1>2, HandlerImplements, DrainImplements DEF Next

\* The server with its tables, workers, redis lists and crashes implements
\* the mailbox: each copy of an accepted message is written at most once, to
\* its recipient, or lost, and never both.
THEOREM DeliveryImplementsMailbox == Spec => MailboxSpec
<1>1. Init => Promise!MailInit
  <2> SUFFICES ASSUME Init
               PROVE  Promise!MailInit
    OBVIOUS
  <2>1. Inv /\ Accepted = {}
    BY InitInv DEF Init, Accepted
  <2>2. Pending = {}
    BY <2>1, PendingIsOwed DEF Owed, Pending
  <2> QED
    BY <2>1, <2>2 DEF Init, Promise!MailInit
<1>2. Inv /\ Inv' /\ [Next]_vars => [Promise!MailNext]_(Promise!mailVars)
  BY StepImplements
<1> QED
  BY <1>1, <1>2, InvHolds, PTL DEF Spec, MailboxSpec, Promise!MailSpec

-----------------------------------------------------------------------------
(* The order of a user's offline messages.  The list is in the order of    *)
(* the RPUSHes, so is each login's batch, and what a login has popped was  *)
(* stored before what is still in the list.                                *)

\* m was stored for u before n.
Before(u, m, n) ==
    \E i, j \in DOMAIN stored[u] : i < j /\ stored[u][i] = m /\ stored[u][j] = n

StoredOnce ==
    \A u \in Users :
        /\ IsInjective(stored[u])
        /\ \A m \in Range(stored[u]) : m \notin unsent /\ ~HeldByWorker(m, u)

ListInOrder ==
    \A u \in Users :
        /\ Range(queue[u]) \subseteq Range(stored[u])
        /\ \A i, j \in DOMAIN queue[u] : i < j => Before(u, queue[u][i], queue[u][j])

BatchInOrder(c, u) ==
    /\ Range(batch[c]) \subseteq Range(stored[u])
    /\ \A i, j \in DOMAIN batch[c] : i < j => Before(u, batch[c][i], batch[c][j])
    /\ \A m \in Range(batch[c]), n \in Range(queue[u]) : Before(u, m, n)

OrderInv ==
    StoredOnce /\ ListInOrder
    /\ \A c \in Conns, u \in Users : owner[c] = u => BatchInOrder(c, u)

\* Storing a message leaves the order of the others, and comes after them.
LEMMA StoringKeepsOrder ==
  ASSUME TypeOK, NEW u \in Users, NEW e \in Messages, stored'[u] = Append(stored[u], e)
  PROVE  /\ Range(stored'[u]) = Range(stored[u]) \cup {e}
         /\ IsInjective(stored[u]) /\ e \notin Range(stored[u]) => IsInjective(stored'[u])
         /\ \A m, n : Before(u, m, n) => Before(u, m, n)'
         /\ \A m \in Range(stored[u]) : Before(u, m, e)'
<1> DEFINE s == stored[u]
<1>1. s \in Seq(Messages) /\ stored'[u] = Append(s, e)
  BY DEF TypeOK
<1>2. PICK t : t = Append(s, e)
  OBVIOUS
<1>3. /\ DOMAIN s = 1..Len(s) /\ Len(s) \in Nat
      /\ DOMAIN t = 1..(Len(s) + 1)
      /\ \A i \in 1..Len(s) : t[i] = s[i]
      /\ t[Len(s) + 1] = e
  BY <1>1, <1>2
<1>4. stored'[u] = t
  BY <1>1, <1>2
<1>5. /\ Range(t) = Range(s) \cup {e}
      /\ IsInjective(s) /\ e \notin Range(s) => IsInjective(t)
  BY <1>1, <1>2, AppendRange
<1>6. ASSUME NEW m, NEW n, Before(u, m, n) PROVE Before(u, m, n)'
  <2>1. PICK i \in DOMAIN s, j \in DOMAIN s : i < j /\ s[i] = m /\ s[j] = n
    BY <1>6 DEF Before
  <2>2. i \in DOMAIN t /\ j \in DOMAIN t /\ t[i] = m /\ t[j] = n
    BY <1>3, <2>1
  <2> QED
    BY <1>4, <2>1, <2>2 DEF Before
<1>7. ASSUME NEW m \in Range(s) PROVE Before(u, m, e)'
  <2>1. PICK i \in DOMAIN s : s[i] = m
    BY DEF Range
  <2>2. /\ i \in DOMAIN t /\ Len(s) + 1 \in DOMAIN t /\ t[i] = m /\ t[Len(s) + 1] = e
        /\ i < Len(s) + 1
    BY <1>3, <2>1
  <2> QED
    BY <1>4, <2>2 DEF Before
<1> QED
  BY <1>4, <1>5, <1>6, <1>7

LEMMA StoreOrder ==
  ASSUME TypeOK, Ledger, OrderInv, NEW e \in Messages, Store(e)
  PROVE  OrderInv'
<1>1. PICK u \in Users : to[e] = u
  BY DEF Store, TypeOK
<1>2. /\ queue' = [queue EXCEPT ![u] = Append(@, e)]
      /\ stored' = [stored EXCEPT ![u] = Append(@, e)]
      /\ to' = [to EXCEPT ![e] = NoUser] /\ UNCHANGED <<unsent, todo, batch, owner>>
  BY <1>1 DEF Store, Handed, login
<1>3. /\ queue'[u] = Append(queue[u], e) /\ stored'[u] = Append(stored[u], e)
      /\ \A v \in Users : v # u => queue'[v] = queue[v] /\ stored'[v] = stored[v]
      /\ queue[u] \in Seq(Messages) /\ stored[u] \in Seq(Messages) /\ u # NoUser
  BY <1>2, DeliveryAssumption DEF TypeOK
<1>4. /\ Range(stored'[u]) = Range(stored[u]) \cup {e}
      /\ IsInjective(stored[u]) /\ e \notin Range(stored[u]) => IsInjective(stored'[u])
      /\ \A m, n : Before(u, m, n) => Before(u, m, n)'
      /\ \A m \in Range(stored[u]) : Before(u, m, e)'
  BY <1>3, StoringKeepsOrder
<1>5. ASSUME NEW v \in Users PROVE \A m, n : Before(v, m, n) => Before(v, m, n)'
  <2>1. CASE v = u
    BY <1>4, <2>1
  <2>2. CASE v # u
    BY <1>3, <2>2 DEF Before
  <2> QED
    BY <2>1, <2>2
<1>6. \A v \in Users : Range(stored[v]) \subseteq Range(stored'[v])
  BY <1>3, <1>4
<1>7. HeldByWorker(e, u) /\ u \notin todo[e] /\ e \notin Range(stored[u])
  BY <1>1 DEF HeldByWorker, Ledger, NeverTwoPlaces, Exclusive, OrderInv, StoredOnce
<1>8. StoredOnce'
  <2>1. \A v \in Users : IsInjective(stored'[v])
    BY <1>3, <1>4, <1>7 DEF OrderInv, StoredOnce
  <2>2. e \notin unsent
    BY <1>3, <1>1 DEF Ledger, Fresh
  <2>3. ~HeldByWorker(e, u)'
    BY <1>2, <1>3, <1>7 DEF HeldByWorker, TypeOK
  <2>4. \A v \in Users : \A m \in Range(stored[v]) : m \in Messages
    BY RangeOfSeqInSet DEF TypeOK
  <2>5. \A v \in Users : \A m \in Messages : HeldByWorker(m, v)' => HeldByWorker(m, v)
    BY <1>2, DeliveryAssumption DEF HeldByWorker, TypeOK
  <2>6. ASSUME NEW v \in Users, NEW m \in Range(stored'[v])
        PROVE  m \notin unsent' /\ ~HeldByWorker(m, v)'
    <3>1. CASE m \in Range(stored[v])
      BY <1>2, <2>4, <2>5, <3>1 DEF OrderInv, StoredOnce
    <3>2. CASE m \notin Range(stored[v])
      BY <1>2, <1>3, <1>4, <2>2, <2>3, <2>6, <3>2
    <3> QED
      BY <3>1, <3>2
  <2> QED
    BY <2>1, <2>6 DEF StoredOnce
<1>9. /\ Range(queue'[u]) = Range(queue[u]) \cup {e}
      /\ DOMAIN queue[u] = 1..Len(queue[u]) /\ Len(queue[u]) \in Nat
      /\ DOMAIN queue'[u] = 1..(Len(queue[u]) + 1)
      /\ \A i \in 1..Len(queue[u]) : queue'[u][i] = queue[u][i]
      /\ queue'[u][Len(queue[u]) + 1] = e
  <2>1. PICK t : t = Append(queue[u], e)
    OBVIOUS
  <2>2. /\ DOMAIN queue[u] = 1..Len(queue[u]) /\ Len(queue[u]) \in Nat
        /\ DOMAIN t = 1..(Len(queue[u]) + 1)
        /\ \A i \in 1..Len(queue[u]) : t[i] = queue[u][i]
        /\ t[Len(queue[u]) + 1] = e
    BY <1>3, <2>1
  <2> QED
    BY <1>3, <2>1, <2>2, AppendRange
<1>10. ListInOrder'
  <2>1. ASSUME NEW i \in DOMAIN queue'[u], NEW j \in DOMAIN queue'[u], i < j
        PROVE  Before(u, queue[u][i], queue[u][j])'
    <3>1. PICK x, y : x = queue'[u][i] /\ y = queue'[u][j]
      OBVIOUS
    <3>2. i \in 1..Len(queue[u]) /\ x = queue[u][i]
      BY <1>9, <2>1, <3>1
    <3>3. CASE j \in 1..Len(queue[u])
      <4>1. Before(u, x, y)
        BY <1>9, <2>1, <3>1, <3>2, <3>3 DEF OrderInv, ListInOrder
      <4> QED
        BY <1>5, <3>1, <4>1 DEF Before
    <3>4. CASE j = Len(queue[u]) + 1
      <4>1. x \in Range(stored[u]) /\ y = e
        BY <1>9, <3>1, <3>2, <3>4 DEF OrderInv, ListInOrder, Range
      <4>2. Before(u, x, e)'
        BY <1>4, <4>1
      <4> QED
        BY <3>1, <4>1, <4>2 DEF Before
    <3> QED
      BY <1>9, <3>3, <3>4
  <2>2. Range(queue'[u]) \subseteq Range(stored'[u])
    BY <1>4, <1>9 DEF OrderInv, ListInOrder
  <2>3. ASSUME NEW v \in Users, v # u
        PROVE  /\ Range(queue'[v]) \subseteq Range(stored'[v])
               /\ \A i, j \in DOMAIN queue'[v] :
                     i < j => Before(v, queue[v][i], queue[v][j])'
    BY <1>3, <2>3 DEF OrderInv, ListInOrder, Before
  <2> QED
    BY <2>1, <2>2, <2>3 DEF ListInOrder
<1>11. ASSUME NEW c \in Conns, NEW v \in Users, owner'[c] = v PROVE BatchInOrder(c, v)'
  <2>1. owner[c] = v /\ batch'[c] = batch[c] /\ BatchInOrder(c, v)
    BY <1>2, <1>11 DEF OrderInv
  <2>2. \A m \in Range(batch[c]), n \in Range(queue'[v]) : Before(v, m, n)'
    <3>1. CASE v = u
      BY <1>4, <1>5, <1>9, <2>1, <3>1 DEF BatchInOrder
    <3>2. CASE v # u
      BY <1>3, <1>5, <2>1, <3>2 DEF BatchInOrder
    <3> QED
      BY <3>1, <3>2
  <2> QED
    BY <1>5, <1>6, <2>1, <2>2 DEF BatchInOrder
<1> QED
  BY <1>8, <1>10, <1>11 DEF OrderInv

LEMMA PopOrder ==
  ASSUME TypeOK, OrderInv, NEW c \in Conns, Pop(c)
  PROVE  OrderInv'
<1>1. PICK u \in Users : owner[c] = u
  BY DEF Pop, TypeOK
<1>2. /\ queue[u] # <<>> /\ batch' = [batch EXCEPT ![c] = Append(@, Head(queue[u]))]
      /\ queue' = [queue EXCEPT ![u] = Tail(@)]
      /\ UNCHANGED <<unsent, todo, to, stored, owner>>
  BY <1>1 DEF Pop, messages, handling
<1>3. PICK q, b, e : q = queue[u] /\ b = batch[c] /\ e = Head(q)
  OBVIOUS
<1>4. q \in Seq(Messages) /\ b \in Seq(Messages) /\ q # <<>> /\ e \in Messages
  BY <1>2, <1>3, TailRange DEF TypeOK
<1>5. PICK p, r : p = Append(b, e) /\ r = Tail(q)
  OBVIOUS
<1>6. /\ batch'[c] = p /\ queue'[u] = r
      /\ \A d \in Conns : d # c => batch'[d] = batch[d]
      /\ \A v \in Users : v # u => queue'[v] = queue[v]
  BY <1>2, <1>3, <1>5 DEF TypeOK
<1>7. /\ DOMAIN q = 1..Len(q) /\ Len(q) \in Nat \ {0}
      /\ DOMAIN r = 1..(Len(q) - 1)
      /\ \A i \in 1..(Len(q) - 1) : r[i] = q[i + 1]
      /\ e = q[1]
  BY <1>3, <1>4, <1>5, HeadTailProperties, LenProperties, EmptySeq
<1>8. /\ DOMAIN b = 1..Len(b) /\ Len(b) \in Nat
      /\ DOMAIN p = 1..(Len(b) + 1)
      /\ \A i \in 1..Len(b) : p[i] = b[i]
      /\ p[Len(b) + 1] = e
  BY <1>4, <1>5
<1>9. /\ Range(p) = Range(b) \cup {e} /\ Range(r) \subseteq Range(q) /\ e \in Range(q)
  <2>1. Range(p) = Range(b) \cup {e}
    BY <1>4, <1>5, AppendRange
  <2>2. \A i \in DOMAIN r : i + 1 \in DOMAIN q /\ r[i] = q[i + 1]
    BY <1>7
  <2>3. Range(r) \subseteq Range(q)
    BY <2>2 DEF Range
  <2>4. 1 \in DOMAIN q
    BY <1>7
  <2> QED
    BY <1>7, <2>1, <2>3, <2>4 DEF Range
<1>10. /\ Range(q) \subseteq Range(stored[u])
       /\ \A i, j \in DOMAIN q : i < j => Before(u, q[i], q[j])
       /\ Range(b) \subseteq Range(stored[u])
       /\ \A i, j \in DOMAIN b : i < j => Before(u, b[i], b[j])
       /\ \A m \in Range(b), n \in Range(q) : Before(u, m, n)
  BY <1>1, <1>3 DEF OrderInv, ListInOrder, BatchInOrder
<1>11. \A v \in Users : \A m, n : Before(v, m, n)' <=> Before(v, m, n)
  BY <1>2 DEF Before
<1>12. StoredOnce'
  BY <1>2 DEF OrderInv, StoredOnce, HeldByWorker
<1>13. \A i, j \in DOMAIN r : i < j => Before(u, r[i], r[j])
  <2> TAKE i, j \in DOMAIN r
  <2>1. i + 1 \in DOMAIN q /\ j + 1 \in DOMAIN q /\ r[i] = q[i + 1] /\ r[j] = q[j + 1]
        /\ (i < j => i + 1 < j + 1)
    BY <1>7
  <2> QED
    BY <1>10, <2>1
<1>14. ListInOrder'
  <2>1. ASSUME NEW v \in Users
        PROVE  /\ Range(queue'[v]) \subseteq Range(stored'[v])
               /\ \A i, j \in DOMAIN queue'[v] :
                     i < j => Before(v, queue[v][i], queue[v][j])'
    <3>1. Range(queue'[v]) \subseteq Range(stored'[v])
      BY <1>2, <1>6, <1>9, <1>10 DEF OrderInv, ListInOrder
    <3>2. ASSUME NEW i \in DOMAIN queue'[v], NEW j \in DOMAIN queue'[v], i < j
          PROVE  Before(v, queue[v][i], queue[v][j])'
      <4>1. PICK x, y : x = queue'[v][i] /\ y = queue'[v][j]
        OBVIOUS
      <4>2. CASE v = u
        <5>1. Before(v, x, y)
          BY <1>6, <1>13, <3>2, <4>1, <4>2
        <5> QED
          BY <1>2, <4>1, <5>1 DEF Before
      <4>3. CASE v # u
        <5>1. Before(v, x, y)
          BY <1>6, <3>2, <4>1, <4>3 DEF OrderInv, ListInOrder
        <5> QED
          BY <1>2, <4>1, <5>1 DEF Before
      <4> QED
        BY <4>2, <4>3
    <3> QED
      BY <3>1, <3>2
  <2> QED
    BY <2>1 DEF ListInOrder
<1>15. \A i, j \in DOMAIN p : i < j => Before(u, p[i], p[j])
  <2> SUFFICES ASSUME NEW i \in DOMAIN p, NEW j \in DOMAIN p, i < j
               PROVE  Before(u, p[i], p[j])
    OBVIOUS
  <2>1. i \in DOMAIN b /\ p[i] = b[i]
    BY <1>8
  <2>2. CASE j \in DOMAIN b
    BY <1>8, <1>10, <2>1, <2>2
  <2>3. CASE j = Len(b) + 1
    <3>1. b[i] \in Range(b)
      BY <2>1 DEF Range
    <3> QED
      BY <1>8, <1>9, <1>10, <2>1, <2>3, <3>1
  <2> QED
    BY <1>8, <2>2, <2>3
<1>16. \A n \in Range(r) : Before(u, e, n)
  <2> SUFFICES ASSUME NEW i \in DOMAIN r PROVE Before(u, e, r[i])
    BY DEF Range
  <2>1. 1 \in DOMAIN q /\ i + 1 \in DOMAIN q /\ 1 < i + 1 /\ r[i] = q[i + 1]
    BY <1>7
  <2> QED
    BY <1>7, <1>10, <2>1
<1>17. ASSUME NEW d \in Conns, NEW v \in Users, owner'[d] = v PROVE BatchInOrder(d, v)'
  <2>1. BatchInOrder(d, v)
    BY <1>2, <1>17 DEF OrderInv
  <2>2. CASE d = c
    <3>1. v = u
      BY <1>1, <1>2, <1>17, <2>2
    <3>2. \A m \in Range(p), n \in Range(r) : Before(u, m, n)
      BY <1>9, <1>10, <1>16
    <3> QED
      BY <1>2, <1>6, <1>9, <1>10, <1>11, <1>15, <2>2, <3>1, <3>2 DEF BatchInOrder
  <2>3. CASE d # c
    <3>1. Range(queue'[v]) \subseteq Range(queue[v])
      BY <1>3, <1>6, <1>9
    <3> QED
      BY <1>2, <1>6, <1>11, <2>1, <2>3, <3>1 DEF BatchInOrder
  <2> QED
    BY <2>2, <2>3
<1> QED
  BY <1>12, <1>14, <1>17 DEF OrderInv

\* The steps that neither store nor pop: a batch shrinks or starts empty.
LEMMA RestOrder ==
  ASSUME TypeOK, Ledger, OrderInv, UNCHANGED <<queue, stored>>, unsent' \subseteq unsent,
         \A m \in Messages, u \in Users :
            HeldByWorker(m, u)' => HeldByWorker(m, u) \/ m \in unsent,
         \A c \in Conns : \/ batch'[c] = <<>>
                          \/ batch'[c] = batch[c] /\ owner'[c] = owner[c]
                          \/ /\ batch[c] # <<>> /\ batch'[c] = Tail(batch[c])
                             /\ owner'[c] = owner[c]
  PROVE  OrderInv'
<1>1. \A u \in Users : \A m, n : Before(u, m, n)' <=> Before(u, m, n)
  BY DEF Before
<1>2. StoredOnce'
  <2>1. \A v \in Users : \A m \in Range(stored[v]) : m \in Messages
    BY RangeOfSeqInSet DEF TypeOK
  <2> QED
    BY <2>1 DEF OrderInv, StoredOnce
<1>3. ListInOrder'
  BY <1>1 DEF OrderInv, ListInOrder
<1>4. ASSUME NEW c \in Conns, NEW u \in Users, owner'[c] = u PROVE BatchInOrder(c, u)'
  <2>1. CASE batch'[c] = <<>>
    BY <2>1, EmptyRange DEF BatchInOrder
  <2>2. CASE batch'[c] = batch[c] /\ owner'[c] = owner[c]
    BY <1>1, <1>4, <2>2 DEF OrderInv, BatchInOrder
  <2>3. CASE batch[c] # <<>> /\ batch'[c] = Tail(batch[c]) /\ owner'[c] = owner[c]
    <3>1. BatchInOrder(c, u)
      BY <1>4, <2>3 DEF OrderInv
    <3>2. batch[c] \in Seq(Messages)
      BY DEF TypeOK
    <3>3. PICK t : t = Tail(batch[c])
      OBVIOUS
    <3>4. /\ DOMAIN batch[c] = 1..Len(batch[c]) /\ Len(batch[c]) \in Nat \ {0}
          /\ DOMAIN t = 1..(Len(batch[c]) - 1)
          /\ \A i \in 1..(Len(batch[c]) - 1) : t[i] = batch[c][i + 1]
      BY <2>3, <3>2, <3>3, HeadTailProperties, LenProperties, EmptySeq
    <3>5. \A i \in DOMAIN t : i + 1 \in DOMAIN batch[c] /\ t[i] = batch[c][i + 1]
      BY <3>4
    <3>6. Range(t) \subseteq Range(batch[c])
      BY <3>5 DEF Range
    <3>7. \A i, j \in DOMAIN t : i < j => Before(u, t[i], t[j])
      <4> TAKE i, j \in DOMAIN t
      <4>1. i < j => i + 1 < j + 1
        BY <3>4
      <4> QED
        BY <3>1, <3>5, <4>1 DEF BatchInOrder
    <3> QED
      BY <1>1, <2>3, <3>1, <3>3, <3>6, <3>7 DEF BatchInOrder
  <2> QED
    BY <2>1, <2>2, <2>3
<1> QED
  BY <1>2, <1>3, <1>4 DEF OrderInv

\* The copies in a worker's hand only change with the handlers' steps.
LEMMA OrderStep ==
  ASSUME TypeOK, TypeOK', Ledger, OrderInv, [Next]_vars
  PROVE  OrderInv'
<1>1. ASSUME NEW m \in Messages, Accept(m) \/ AcceptFails(m) PROVE OrderInv'
  <2>1. /\ UNCHANGED <<queue, stored, batch, owner, to>> /\ unsent' \subseteq unsent /\ m \in unsent
        /\ todo' = todo \/ todo' = [todo EXCEPT ![m] = Recipients(m)]
    BY <1>1 DEF Accept, AcceptFails, login, handling
  <2>2. \A n \in Messages, u \in Users : HeldByWorker(n, u)' => HeldByWorker(n, u) \/ n \in unsent
    BY <2>1 DEF HeldByWorker, TypeOK
  <2> QED
    BY <2>1, <2>2, RestOrder
<1>2. ASSUME NEW m \in Messages, NEW v \in Users, LookUp(m, v) PROVE OrderInv'
  <2>1. /\ UNCHANGED <<queue, stored, batch, owner, unsent>> /\ v \in todo[m]
        /\ todo' = [todo EXCEPT ![m] = @ \ {v}] /\ to' = [to EXCEPT ![m] = v]
    BY <1>2 DEF LookUp, login
  <2>2. \A n \in Messages, u \in Users : HeldByWorker(n, u)' => HeldByWorker(n, u)
    BY <2>1 DEF HeldByWorker, TypeOK
  <2> QED
    BY <2>1, <2>2, RestOrder
<1>3. ASSUME NEW m \in Messages, StoreFails(m) \/ Write(m) \/ WriteToClosed(m) PROVE OrderInv'
  <2>1. /\ UNCHANGED <<queue, stored, batch, owner, unsent, todo>>
        /\ to' = [to EXCEPT ![m] = NoUser]
    BY <1>3 DEF StoreFails, Write, WriteToClosed, Handed, login
  <2>2. \A n \in Messages, u \in Users : HeldByWorker(n, u)' => HeldByWorker(n, u)
    BY <2>1, DeliveryAssumption DEF HeldByWorker, TypeOK
  <2> QED
    BY <2>1, <2>2, RestOrder
<1>4. CASE \/ \E u \in Users, c \in Conns : Register(u, c)
           \/ \E c \in Conns : \/ LoginRes(c) \/ LoginResFails(c) \/ PopAnswer(c)
                               \/ PopEmpty(c) \/ PopFails(c) \/ Push(c)
                               \/ PushDone(c) \/ NewConn(c) \/ PeerCloses(c)
                               \/ BeginLogout(c) \/ Logout(c)
           \/ UNCHANGED vars
  <2>1. UNCHANGED <<queue, stored, unsent, todo, to>>
    BY <1>4 DEF Register, LoginRes, LoginResFails, PopAnswer, PopEmpty, PopFails, Push,
       PushDone, NewConn, PeerCloses, BeginLogout, Logout, vars, messages, handling, login
  <2>2. ASSUME NEW d \in Conns
        PROVE  \/ batch'[d] = <<>>
               \/ batch'[d] = batch[d] /\ owner'[d] = owner[d]
               \/ /\ batch[d] # <<>> /\ batch'[d] = Tail(batch[d])
                  /\ owner'[d] = owner[d]
    <3>1. ASSUME NEW u \in Users, NEW c \in Conns, Register(u, c)
          PROVE  batch'[d] = <<>> \/ (batch'[d] = batch[d] /\ owner'[d] = owner[d])
      BY <3>1 DEF Register, TypeOK
    <3>2. ASSUME NEW c \in Conns, NewConn(c)
          PROVE  batch'[d] = <<>> \/ (batch'[d] = batch[d] /\ owner'[d] = owner[d])
      BY <3>2 DEF NewConn, TypeOK, LoggingIn
    <3>3. ASSUME NEW c \in Conns, PopFails(c)
          PROVE  batch'[d] = <<>> \/ (batch'[d] = batch[d] /\ owner'[d] = owner[d])
      BY <3>3 DEF PopFails, TypeOK
    <3>4. ASSUME NEW c \in Conns, Push(c)
          PROVE  \/ batch'[d] = batch[d] /\ owner'[d] = owner[d]
                 \/ /\ batch[d] # <<>> /\ batch'[d] = Tail(batch[d])
                    /\ owner'[d] = owner[d]
      BY <3>4 DEF Push, TypeOK
    <3>5. ASSUME \/ \E c \in Conns : \/ LoginRes(c) \/ LoginResFails(c)
                                     \/ PopAnswer(c) \/ PopEmpty(c)
                                     \/ PushDone(c) \/ PeerCloses(c)
                                     \/ BeginLogout(c) \/ Logout(c)
                 \/ UNCHANGED vars
          PROVE  batch'[d] = batch[d] /\ owner'[d] = owner[d]
      BY <3>5 DEF LoginRes, LoginResFails, PopAnswer, PopEmpty, PushDone, PeerCloses,
         BeginLogout, Logout, vars, login
    <3> QED
      BY <1>4, <3>1, <3>2, <3>3, <3>4, <3>5
  <2>3. \A n \in Messages, u \in Users : HeldByWorker(n, u)' => HeldByWorker(n, u)
    BY <2>1 DEF HeldByWorker
  <2> QED
    BY <2>1, <2>2, <2>3, RestOrder
<1>5. CASE ServerCrash
  <2>1. /\ UNCHANGED <<queue, stored, unsent>>
        /\ \A d \in Conns : batch'[d] = <<>>
        /\ \A n \in Messages : todo'[n] = {} /\ to'[n] = NoUser
    BY <1>5 DEF ServerCrash
  <2>2. \A n \in Messages, u \in Users : HeldByWorker(n, u)' => HeldByWorker(n, u)
    BY <2>1, DeliveryAssumption DEF HeldByWorker
  <2> QED
    BY <2>1, <2>2, RestOrder
<1> QED
  BY <1>1, <1>2, <1>3, <1>4, <1>5, StoreOrder, PopOrder DEF Next, Handle, Drain

LEMMA OrderInit == Init => OrderInv
<1> SUFFICES ASSUME Init PROVE OrderInv
  OBVIOUS
<1>1. /\ \A u \in Users : queue[u] = <<>> /\ stored[u] = <<>>
      /\ \A c \in Conns : batch[c] = <<>>
  BY DEF Init
<1> QED
  BY <1>1, EmptyRange DEF OrderInv, StoredOnce, ListInOrder, BatchInOrder

LEMMA OrderHolds == Spec => [](Inv /\ OrderInv)
<1>1. Init => Inv /\ OrderInv
  BY InitInv, OrderInit
<1>2. Inv /\ OrderInv /\ [Next]_vars => (Inv /\ OrderInv)'
  BY NextInv, OrderStep DEF Inv
<1> QED
  BY <1>1, <1>2, PTL DEF Spec

\* What a login has popped and what is still in the list are, together, in
\* the order of the RPUSHes, whatever other logins of the account, crashes
\* and failing commands do (StoreOfflineUserMessages and
\* GetOfflineUserMessages work at opposite ends of the list).
THEOREM OfflineMessagesInOrder == Spec => []InStoredOrder
<1> DEFINE PlaceIn(s, m) == CHOOSE i \in DOMAIN s : s[i] = m
<1>1. Inv /\ OrderInv => InStoredOrder
  <2> SUFFICES ASSUME TypeOK, OrderInv, NEW c \in Conns, owner[c] # NoUser
               PROVE  \A i, j \in DOMAIN (batch[c] \o queue[owner[c]]) : i < j =>
                         PlaceIn(stored[owner[c]], (batch[c] \o queue[owner[c]])[i])
                           < PlaceIn(stored[owner[c]], (batch[c] \o queue[owner[c]])[j])
    BY DEF InStoredOrder, Inv
  <2>1. PICK u \in Users : owner[c] = u
    BY DEF TypeOK
  <2>2. PICK s, b, q, rest : s = stored[u] /\ b = batch[c] /\ q = queue[u] /\ rest = b \o q
    OBVIOUS
  <2>3. s \in Seq(Messages) /\ b \in Seq(Messages) /\ q \in Seq(Messages)
    BY <2>1, <2>2 DEF TypeOK
  <2>4. /\ DOMAIN b = 1..Len(b) /\ Len(b) \in Nat /\ DOMAIN q = 1..Len(q) /\ Len(q) \in Nat
        /\ DOMAIN rest = 1..(Len(b) + Len(q)) /\ DOMAIN s = 1..Len(s) /\ Len(s) \in Nat
        /\ \A i \in 1..Len(b) : rest[i] = b[i]
        /\ \A i \in (Len(b) + 1)..(Len(b) + Len(q)) : rest[i] = q[i - Len(b)]
    <3>1. /\ rest \in Seq(Messages) /\ Len(rest) = Len(b) + Len(q)
          /\ \A i \in 1..(Len(b) + Len(q)) :
                rest[i] = IF i <= Len(b) THEN b[i] ELSE q[i - Len(b)]
      <4>1. rest = b \o q
        BY <2>2
      <4> HIDE <2>2
      <4> QED
        BY <2>3, <4>1, ConcatProperties
    <3>2. /\ DOMAIN b = 1..Len(b) /\ Len(b) \in Nat /\ DOMAIN q = 1..Len(q) /\ Len(q) \in Nat
          /\ DOMAIN s = 1..Len(s) /\ Len(s) \in Nat /\ DOMAIN rest = 1..Len(rest)
      BY <2>3, <3>1, LenProperties
    <3> QED
      BY <3>1, <3>2
  <2>5. /\ BatchInOrder(c, u) /\ IsInjective(s)
        /\ \A i, j \in DOMAIN q : i < j => Before(u, q[i], q[j])
    BY <2>1, <2>2 DEF OrderInv, StoredOnce, ListInOrder
  <2>6. ASSUME NEW i \in DOMAIN rest, NEW j \in DOMAIN rest, i < j
        PROVE  Before(u, rest[i], rest[j])
    <3>1. CASE j \in 1..Len(b)
      BY <2>2, <2>4, <2>5, <2>6, <3>1 DEF BatchInOrder
    <3>2. CASE i \in 1..Len(b) /\ j \in (Len(b) + 1)..(Len(b) + Len(q))
      <4>1. rest[i] \in Range(b) /\ rest[j] = q[j - Len(b)] /\ j - Len(b) \in DOMAIN q
        BY <2>4, <3>2 DEF Range
      <4>2. rest[j] \in Range(q)
        BY <4>1 DEF Range
      <4> QED
        BY <2>2, <2>5, <4>1, <4>2 DEF BatchInOrder
    <3>3. CASE /\ i \in (Len(b) + 1)..(Len(b) + Len(q))
               /\ j \in (Len(b) + 1)..(Len(b) + Len(q))
      <4>1. /\ i - Len(b) \in DOMAIN q /\ j - Len(b) \in DOMAIN q /\ i - Len(b) < j - Len(b)
            /\ rest[i] = q[i - Len(b)] /\ rest[j] = q[j - Len(b)]
        BY <2>4, <2>6, <3>3
      <4> QED
        BY <2>5, <4>1
    <3> QED
      BY <2>4, <2>6, <3>1, <3>2, <3>3
  <2>7. ASSUME NEW m, NEW n, Before(u, m, n)
        PROVE  PlaceIn(s, m) < PlaceIn(s, n)
    <3>1. PICK i \in DOMAIN s, j \in DOMAIN s : i < j /\ s[i] = m /\ s[j] = n
      BY <2>2, <2>7 DEF Before
    <3>2. PlaceIn(s, m) = i
      BY <2>5, <3>1 DEF IsInjective
    <3>3. PlaceIn(s, n) = j
      BY <2>5, <3>1 DEF IsInjective
    <3> QED
      BY <3>1, <3>2, <3>3
  <2> QED
    <3>1. /\ stored[owner[c]] = s
          /\ batch[c] \o queue[owner[c]] = rest
      BY <2>1, <2>2
    <3>2. \A i, j \in DOMAIN rest : i < j => PlaceIn(s, rest[i]) < PlaceIn(s, rest[j])
      BY <2>6, <2>7
    <3> HIDE DEF PlaceIn
    <3> QED
      BY <3>1, <3>2
<1> QED
  BY <1>1, OrderHolds, PTL

-----------------------------------------------------------------------------
(* What single steps may not do.                                           *)

\* An LPOP moves the head of the list into its own answer and leaves the
\* rest: Kept says this of one message of one list.
Kept(u, m) ==
    \/ m \in Range(queue'[u])
    \/ /\ m = Head(queue[u])
       /\ \E c \in Conns : /\ owner[c] = u /\ phase[c] = "pop" /\ phase'[c] = "answer"
                           /\ batch'[c] = Append(batch[c], m)

LEMMA PopKept ==
  ASSUME TypeOK, NEW c \in Conns, Pop(c), NEW u \in Users, NEW m \in Range(queue[u])
  PROVE  Kept(u, m)
<1>1. PICK v \in Users : owner[c] = v
  BY DEF Pop, TypeOK
<1>2. PICK q, b, e, t : q = queue[v] /\ b = batch[c] /\ e = Head(q) /\ t = Tail(q)
  OBVIOUS
<1>3. q \in Seq(Messages) /\ q # <<>>
  BY <1>1, <1>2 DEF Pop, TypeOK
<1>4. /\ phase[c] = "pop" /\ phase'[c] = "answer"
      /\ batch'[c] = Append(b, e) /\ queue'[v] = t
      /\ \A w \in Users : w # v => queue'[w] = queue[w]
  BY <1>1, <1>2 DEF Pop, TypeOK
<1>5. CASE u = v /\ m # e
  <2>1. PICK i \in DOMAIN q : q[i] = m
    BY <1>2, <1>5 DEF Range
  <2>2. /\ DOMAIN q = 1..Len(q) /\ Len(q) \in Nat \ {0} /\ DOMAIN t = 1..(Len(q) - 1)
        /\ \A k \in 1..(Len(q) - 1) : t[k] = q[k + 1]
        /\ e = q[1]
    BY <1>2, <1>3, HeadTailProperties, LenProperties, EmptySeq
  <2>3. i - 1 \in DOMAIN t /\ t[i - 1] = m
    BY <1>5, <2>1, <2>2
  <2>4. m \in Range(t)
    BY <2>3 DEF Range
  <2> QED
    BY <1>4, <1>5, <2>4 DEF Kept
<1>6. CASE u = v /\ m = e
  <2>1. m = Head(queue[u]) /\ owner[c] = u /\ batch'[c] = Append(batch[c], m)
    BY <1>1, <1>2, <1>4, <1>6
  <2> QED
    BY <1>4, <2>1 DEF Kept
<1>7. CASE u # v
  BY <1>4, <1>7 DEF Kept
<1> QED
  BY <1>5, <1>6, <1>7

LEMMA StepKept ==
  ASSUME TypeOK, [Next]_vars, NEW u \in Users, NEW m \in Range(queue[u])
  PROVE  Kept(u, m)
<1>1. ASSUME NEW e \in Messages, Store(e) PROVE Kept(u, m)
  <2>1. PICK v \in Users : to[e] = v
    BY <1>1 DEF Store, TypeOK
  <2>2. queue' = [queue EXCEPT ![v] = Append(@, e)]
    BY <1>1, <2>1 DEF Store
  <2>3. Range(Append(queue[v], e)) = Range(queue[v]) \cup {e}
    BY AppendRange DEF TypeOK
  <2>4. m \in Range(queue'[u])
    BY <2>2, <2>3 DEF TypeOK
  <2> QED
    BY <2>4 DEF Kept
<1>2. CASE UNCHANGED queue
  BY <1>2 DEF Kept
<1>3. ASSUME NEW e \in Messages, Accept(e) \/ AcceptFails(e) \/ Handle(e)
      PROVE  Store(e) \/ UNCHANGED queue
  BY <1>3 DEF Handle, Accept, AcceptFails, LookUp, StoreFails, Write, WriteToClosed
<1>4. ASSUME NEW c \in Conns, Drain(c) PROVE Pop(c) \/ UNCHANGED queue
  BY <1>4 DEF Drain, LoginRes, LoginResFails, PopAnswer, PopEmpty, PopFails, Push, PushDone
<1>5. ASSUME NEW c \in Conns, NewConn(c) \/ PeerCloses(c) \/ BeginLogout(c) \/ Logout(c)
      PROVE  UNCHANGED queue
  BY <1>5 DEF NewConn, PeerCloses, BeginLogout, Logout
<1>6. ASSUME NEW v \in Users, NEW c \in Conns, Register(v, c) PROVE UNCHANGED queue
  BY <1>6 DEF Register
<1>7. ServerCrash \/ UNCHANGED vars => UNCHANGED queue
  BY DEF ServerCrash, vars
<1> QED
  BY <1>1, <1>2, <1>3, <1>4, <1>5, <1>6, <1>7, PopKept DEF Next

\* A message leaves the offline list only as its head and into the answer
\* to an LPOP of a login of the account: no crash, error, lost answer or
\* logout takes anything from the list.
THEOREM QueuesOutliveTheServer == Spec => QueueOutlivesTheServer
<1>1. TypeOK /\ [Next]_vars => [\A u \in Users : \A m \in Range(queue[u]) : Kept(u, m)]_vars
  BY StepKept
<1>2. TypeOK /\ [Next]_vars =>
         [\A u \in Users : \A m \in Range(queue[u]) :
             \/ m \in Range(queue'[u])
             \/ /\ m = Head(queue[u])
                /\ \E c \in Conns :
                      /\ owner[c] = u /\ phase[c] = "pop" /\ phase'[c] = "answer"
                      /\ batch'[c] = Append(batch[c], m)]_vars
  BY <1>1 DEF Kept
<1> QED
  BY <1>2, TypeCorrect, PTL DEF Spec, QueueOutlivesTheServer

\* The causes NoLossWithoutCause allows.
Died(m, u) ==
    /\ MayCrash /\ onlineUsers' = [v \in Users |-> NoConn]
    /\ HeldByWorker(m, u) \/ HeldByLogin(m, u)
WorkerFailed(m, u) ==
    to[m] = u /\ ((RedisMayFail /\ via[m] = NoConn) \/ via[m] \in Conns \ open)
LoginFailed(m, u) ==
    \E c \in Conns :
        /\ InBatchOf(m, u, c)
        /\ (RedisMayFail /\ phase[c] \in {"pop", "answer"}) \/ c \notin open

LEMMA StepCaused ==
  ASSUME TypeOK, [Next]_vars, NEW m \in Messages, NEW u \in Users, <<m, u>> \in lost' \ lost
  PROVE  Died(m, u) \/ WorkerFailed(m, u) \/ LoginFailed(m, u)
<1>1. ASSUME NEW e \in Messages, Accept(e) \/ AcceptFails(e) \/ Handle(e)
      PROVE  WorkerFailed(m, u)
  <2>1. CASE \/ Accept(e) \/ AcceptFails(e) \/ (\E v \in Users : LookUp(e, v))
             \/ Store(e) \/ Write(e)
    BY <2>1 DEF Accept, AcceptFails, LookUp, Store, Write
  <2>2. CASE StoreFails(e)
    BY <2>2 DEF StoreFails, WorkerFailed
  <2>3. CASE WriteToClosed(e)
    BY <2>3 DEF WriteToClosed, WorkerFailed
  <2> QED
    BY <1>1, <2>1, <2>2, <2>3 DEF Handle
<1>2. ASSUME NEW c \in Conns, Drain(c)
      PROVE  LoginFailed(m, u)
  <2>1. CASE \/ LoginRes(c) \/ LoginResFails(c) \/ Pop(c) \/ PopAnswer(c)
             \/ PopEmpty(c) \/ PushDone(c)
    BY <2>1 DEF LoginRes, LoginResFails, Pop, PopAnswer, PopEmpty, PushDone
  <2>2. CASE PopFails(c)
    BY <2>2 DEF PopFails, LoginFailed, InBatchOf
  <2>3. CASE Push(c)
    <3>1. Head(batch[c]) \in Range(batch[c])
      BY <2>3, TailRange DEF Push, TypeOK
    <3>2. c \notin open /\ lost' = lost \cup {<<Head(batch[c]), owner[c]>>}
      BY <2>3 DEF Push
    <3>3. m = Head(batch[c]) /\ u = owner[c]
      BY <3>2
    <3> QED
      BY <3>1, <3>2, <3>3 DEF InBatchOf, LoginFailed
  <2> QED
    BY <1>2, <2>1, <2>2, <2>3 DEF Drain
<1>3. ASSUME NEW c \in Conns, NewConn(c) \/ PeerCloses(c) \/ BeginLogout(c) \/ Logout(c)
      PROVE  FALSE
  BY <1>3 DEF NewConn, PeerCloses, BeginLogout, Logout
<1>4. ASSUME NEW v \in Users, NEW c \in Conns, Register(v, c) PROVE FALSE
  BY <1>4 DEF Register
<1>5. ASSUME ServerCrash PROVE Died(m, u)
  <2>1. /\ MayCrash /\ onlineUsers' = [v \in Users |-> NoConn]
        /\ <<m, u>> \in InHandCopies \cup InBatchCopies
    BY <1>5 DEF ServerCrash, Crash
  <2>2. HeldByWorker(m, u) \/ HeldByLogin(m, u)
    BY <2>1 DEF InHandCopies, InBatchCopies, HeldByWorker, HeldByLogin, InBatchOf
  <2> QED
    BY <2>1, <2>2 DEF Died
<1>6. ~UNCHANGED vars
  BY DEF vars
<1> QED
  BY <1>1, <1>2, <1>3, <1>4, <1>5, <1>6 DEF Next

\* Each of these causes is about a copy a worker or a login holds, which by
\* the ledger is in no offline list.
LEMMA CausedOutsideRedis ==
  ASSUME Inv, NEW m \in Messages, NEW u \in Users,
         Died(m, u) \/ WorkerFailed(m, u) \/ LoginFailed(m, u)
  PROVE  ~HeldByQueue(m, u)
<1>1. HeldByWorker(m, u) \/ HeldByLogin(m, u)
  BY DEF Died, WorkerFailed, LoginFailed, HeldByWorker, HeldByLogin
<1> QED
  BY <1>1 DEF Inv, Ledger, NeverTwoPlaces, Exclusive

\* A copy in redis is never lost, and any other only when the server dies,
\* when redis fails on its RPUSH or on an LPOP of the login holding it, or
\* when the connection it was addressed to has been closed (the error
\* branches of SendOneToOneMes, ForwardGroupChatMes, GetOfflineUserMessages
\* and PushOfflineUserMessages).
THEOREM LossesHaveCauses == Spec => NoLossWithoutCause
<1>1. ASSUME Inv, [Next]_vars, NEW m \in Messages, NEW u \in Users, <<m, u>> \in lost' \ lost
      PROVE  /\ ~HeldByQueue(m, u)
             /\ Died(m, u) \/ WorkerFailed(m, u) \/ LoginFailed(m, u)
  BY <1>1, StepCaused, CausedOutsideRedis DEF Inv
<1>2. Inv /\ [Next]_vars =>
        [\A m \in Messages, u \in Users :
          <<m, u>> \in lost' \ lost =>
             /\ ~HeldByQueue(m, u)
             /\ \/ /\ MayCrash /\ onlineUsers' = [v \in Users |-> NoConn]
                   /\ HeldByWorker(m, u) \/ HeldByLogin(m, u)
                \/ RedisMayFail /\ to[m] = u /\ via[m] = NoConn
                \/ to[m] = u /\ via[m] \in Conns \ open
                \/ \E c \in Conns :
                      /\ InBatchOf(m, u, c)
                      /\ \/ RedisMayFail /\ phase[c] \in {"pop", "answer"}
                         \/ c \notin open]_vars
  BY <1>1 DEF Died, WorkerFailed, LoginFailed
<1> QED
  BY <1>2, InvHolds, PTL DEF Spec, NoLossWithoutCause
=============================================================================
