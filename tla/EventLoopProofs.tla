-------------------------- MODULE EventLoopProofs --------------------------
(***************************************************************************)
(* Proofs about EventLoop, for every set of connections, every finite pool *)
(* of workers, every channel and every number of records.                  *)
(***************************************************************************)
EXTENDS EventLoop, SequenceLemmas, FiniteSetTheorems, TLAPS

-----------------------------------------------------------------------------
(* Counting.                                                               *)

LEMMA Halves ==
  ASSUME NEW n \in Nat
  PROVE  /\ n \div 2 \in Nat /\ n % 2 \in {0, 1}
         /\ n = 2 * (n \div 2) + (n % 2)
<1>1. n \div 2 \in Int /\ n % 2 \in 0..1
  OBVIOUS
<1>2. n = 2 * (n \div 2) + (n % 2)
  OBVIOUS
<1> QED
  BY <1>1, <1>2

LEMMA TailInRange ==
  ASSUME NEW S, NEW q \in Seq(S), q # <<>>
  PROVE  Range(Tail(q)) \subseteq Range(q)
<1>1. /\ DOMAIN q = 1..Len(q) /\ Len(q) \in Nat \ {0} /\ DOMAIN Tail(q) = 1..(Len(q) - 1)
      /\ \A k \in 1..(Len(q) - 1) : Tail(q)[k] = q[k + 1]
  BY HeadTailProperties, LenProperties, EmptySeq
<1> QED
  BY <1>1 DEF Range

LEMMA CountType ==
  ASSUME NEW S, NEW q \in Seq(S), NEW s
  PROVE  /\ IsFiniteSet({i \in DOMAIN q : q[i] = s})
         /\ Count(s, q) \in Nat
         /\ Count(s, q) = 0 <=> s \notin Range(q)
<1>1. IsFiniteSet(DOMAIN q)
  BY FS_Interval, LenProperties
<1>2. IsFiniteSet({i \in DOMAIN q : q[i] = s})
  BY <1>1, FS_Subset
<1>3. Count(s, q) = 0 <=> {i \in DOMAIN q : q[i] = s} = {}
  BY <1>2, FS_EmptySet DEF Count
<1> QED
  BY <1>2, <1>3, FS_CardinalityType DEF Count, Range

LEMMA CountEmpty ==
  ASSUME NEW s
  PROVE  Count(s, <<>>) = 0
<1>1. {i \in DOMAIN <<>> : <<>>[i] = s} = {}
  OBVIOUS
<1> QED
  BY <1>1, FS_EmptySet DEF Count

LEMMA CountAppend ==
  ASSUME NEW S, NEW q \in Seq(S), NEW e \in S, NEW s
  PROVE  Count(s, Append(q, e)) = Count(s, q) + (IF e = s THEN 1 ELSE 0)
<1> DEFINE t == Append(q, e)
           P == {i \in DOMAIN q : q[i] = s}
           n == Len(q) + 1
<1>1. /\ DOMAIN q = 1..Len(q) /\ Len(q) \in Nat
      /\ DOMAIN t = 1..n
      /\ \A i \in 1..Len(q) : t[i] = q[i]
      /\ t[n] = e
  OBVIOUS
<1> HIDE DEF t
<1>2. {i \in DOMAIN t : t[i] = s} = IF e = s THEN P \cup {n} ELSE P
  BY <1>1
<1>3. /\ IsFiniteSet(P) /\ n \notin P
      /\ Cardinality(P) = Count(s, q) /\ Count(s, q) \in Nat
  <2>1. n \notin P
    BY <1>1
  <2> QED
    BY <2>1, CountType DEF Count
<1>4. Cardinality(P \cup {n}) = Count(s, q) + 1
  BY <1>3, FS_AddElement
<1>5. Count(s, t) = Count(s, q) + (IF e = s THEN 1 ELSE 0)
  <2>1. CASE e = s
    BY <1>2, <1>4, <2>1 DEF Count
  <2>2. CASE e # s
    <3>1. {i \in DOMAIN t : t[i] = s} = P
      BY <1>2, <2>2
    <3>2. Count(s, t) = Cardinality(P)
      BY <3>1 DEF Count
    <3> QED
      BY <1>3, <2>2, <3>2 
  <2> QED
    BY <2>1, <2>2
<1> QED
  BY <1>5 DEF t

LEMMA CountTail ==
  ASSUME NEW S, NEW q \in Seq(S), q # <<>>, NEW s
  PROVE  Count(s, Tail(q)) = Count(s, q) - (IF Head(q) = s THEN 1 ELSE 0)
<1> DEFINE t == Tail(q)
           P == {i \in DOMAIN t : t[i] = s}
           Q == {i \in DOMAIN q : q[i] = s}
           f == [i \in P |-> i + 1]
<1>1. /\ DOMAIN q = 1..Len(q) /\ Len(q) \in Nat \ {0} /\ DOMAIN t = 1..(Len(q) - 1)
      /\ \A k \in 1..(Len(q) - 1) : t[k] = q[k + 1]
      /\ Head(q) = q[1]
  BY HeadTailProperties, LenProperties, EmptySeq
<1>2. t \in Seq(S)
  BY HeadTailProperties, EmptySeq
<1> HIDE DEF t
<1>3. Q \ {1} = {i + 1 : i \in P}
  <2>1. \A i \in P : i + 1 \in Q \ {1}
    BY <1>1
  <2>2. ASSUME NEW k \in Q \ {1} PROVE k - 1 \in P /\ k = (k - 1) + 1
    BY <1>1
  <2> QED
    BY <2>1, <2>2
<1>4. IsFiniteSet(P) /\ IsFiniteSet(Q)
  BY <1>2, CountType
<1>5. f \in Bijection(P, Q \ {1})
  <2>1. f \in [P -> Q \ {1}]
    BY <1>3
  <2>2. \A i, j \in P : f[i] = f[j] => i = j
    BY <1>1
  <2>3. \A k \in Q \ {1} : \E i \in P : f[i] = k
    BY <1>3
  <2> QED
    BY <2>1, <2>2, <2>3 DEF Bijection, Injection, Surjection, IsInjective
<1>6. Cardinality(P) = Cardinality(Q \ {1})
  BY <1>4, <1>5, FS_Bijection DEF ExistsBijection
<1>7. Cardinality(Q \ {1}) = Cardinality(Q) - (IF Head(q) = s THEN 1 ELSE 0)
  <2>1. 1 \in Q <=> Head(q) = s
    BY <1>1
  <2>2. Cardinality(Q) \in Nat
    BY <1>4, FS_CardinalityType
  <2>3. Cardinality(Q \ {1}) = IF 1 \in Q THEN Cardinality(Q) - 1 ELSE Cardinality(Q)
    BY <1>4, FS_RemoveElement
  <2> QED
    BY <2>1, <2>2, <2>3 
<1> QED
  BY <1>6, <1>7 DEF Count, t

LEMMA CountOnce ==
  ASSUME NEW R, IsFiniteSet(R), NEW q \in SetToSeqs(R), NEW s
  PROVE  /\ q \in Seq(R)
         /\ Count(s, q) = (IF s \in R THEN 1 ELSE 0)
<1> DEFINE P == {i \in DOMAIN q : q[i] = s}
           n == Cardinality(R)
<1>1. /\ q \in [1..n -> R] /\ n \in Nat
      /\ \A i, j \in 1..n : i # j => q[i] # q[j]
  BY FS_CardinalityType DEF SetToSeqs
<1>2. q \in Seq(R)
  BY <1>1
<1>3. (\E i \in 1..n : q[i] = s) <=> s \in R
  <2>1. q \in Injection(1..n, R)
    BY <1>1 DEF Injection, IsInjective
  <2>2. Cardinality(1..n) = Cardinality(R)
    BY <1>1, FS_Interval
  <2>3. q \in Surjection(1..n, R)
    BY <2>1, <2>2, FS_Injection
  <2> QED
    BY <1>1, <2>3 DEF Surjection
<1>4. CASE s \in R
  <2>1. PICK i \in 1..n : q[i] = s
    BY <1>3, <1>4
  <2>2. P = {i}
    BY <1>1, <2>1
  <2> QED
    BY <1>2, <1>4, <2>2, FS_Singleton DEF Count
<1>5. CASE s \notin R
  <2>1. P = {}
    BY <1>1, <1>3, <1>5
  <2> QED
    BY <1>2, <1>5, <2>1, FS_EmptySet DEF Count
<1> QED
  BY <1>4, <1>5

-----------------------------------------------------------------------------
(* Where the workers are.                                                  *)

Jobs == [conn : Conns \cup {NoConn}, at : {"idle", "header", "body", "handle"}]

\* How many workers are at a place with s, if f says where they are.
Number(f, s, place) == Cardinality({w \in Workers : f[w].at = place /\ f[w].conn = s})

Headers(s)  == Number(job, s, "header")
Bodies(s)   == Number(job, s, "body")
Handling(s) == Number(job, s, "handle")

LEMMA NumberType ==
  ASSUME NEW f, NEW s, NEW place
  PROVE  /\ IsFiniteSet({w \in Workers : f[w].at = place /\ f[w].conn = s})
         /\ Number(f, s, place) \in Nat
  BY EventLoopAssumption, FS_Subset, FS_CardinalityType DEF Number

LEMMA NumberOne ==
  ASSUME NEW f, NEW w \in Workers
  PROVE  Number(f, f[w].conn, f[w].at) >= 1
<1> DEFINE W == {v \in Workers : f[v].at = f[w].at /\ f[v].conn = f[w].conn}
<1>1. IsFiniteSet(W) /\ w \in W
  BY NumberType
<1>2. Cardinality(W) # 0
  BY <1>1, FS_EmptySet
<1>3. Cardinality(W) = Number(f, f[w].conn, f[w].at)
  BY DEF Number
<1>4. Number(f, f[w].conn, f[w].at) \in Nat
  BY NumberType
<1> QED
  BY <1>2, <1>3, <1>4

\* One worker goes from one place to another.
LEMMA NumberMoves ==
  ASSUME NEW f, NEW g, NEW w \in Workers,
         \A v \in Workers \ {w} : g[v] = f[v], NEW s, NEW place
  PROVE  Number(g, s, place)
           = Number(f, s, place) - (IF f[w].conn = s /\ f[w].at = place THEN 1 ELSE 0)
               + (IF g[w].conn = s /\ g[w].at = place THEN 1 ELSE 0)
<1> DEFINE W == {v \in Workers : f[v].at = place /\ f[v].conn = s}
           G == {v \in Workers : g[v].at = place /\ g[v].conn = s}
           Rest == W \ {w}
<1>1. IsFiniteSet(W) /\ Cardinality(W) \in Nat /\ Cardinality(W) = Number(f, s, place)
  <2>1. Cardinality(W) = Number(f, s, place)
    BY DEF Number
  <2>2. IsFiniteSet(W) /\ Number(f, s, place) \in Nat
    BY NumberType
  <2> QED
    BY <2>1, <2>2
<1>2. /\ g[w].conn = s /\ g[w].at = place => G = Rest \cup {w}
      /\ ~(g[w].conn = s /\ g[w].at = place) => G = Rest
  OBVIOUS
<1>3. w \in W <=> f[w].conn = s /\ f[w].at = place
  OBVIOUS
<1>4. /\ IsFiniteSet(Rest) /\ w \notin Rest
      /\ Cardinality(Rest) = IF w \in W THEN Cardinality(W) - 1 ELSE Cardinality(W)
  BY <1>1, FS_RemoveElement
<1>5. Cardinality(Rest \cup {w}) = Cardinality(Rest) + 1
  BY <1>4, FS_AddElement
<1>6. Cardinality(G) = Number(g, s, place)
  BY DEF Number
<1> HIDE DEF W, G, Rest
<1>7. CASE g[w].conn = s /\ g[w].at = place
  <2>1. Number(g, s, place) = Cardinality(Rest) + 1
    BY <1>2, <1>5, <1>6, <1>7
  <2> QED
    BY <1>1, <1>3, <1>4, <1>7, <2>1
<1>8. CASE ~(g[w].conn = s /\ g[w].at = place)
  BY <1>1, <1>2, <1>3, <1>4, <1>6, <1>8
<1> QED
  BY <1>7, <1>8

LEMMA WorkingIsNumber ==
  ASSUME NEW s
  PROVE  /\ Cardinality(Working(s, "header")) = Headers(s)
         /\ Cardinality(Working(s, "handle")) = Handling(s)
  BY DEF Working, At, Headers, Handling, Number

LEMMA JobTypes ==
  ASSUME NEW s
  PROVE  Headers(s) \in Nat /\ Bodies(s) \in Nat /\ Handling(s) \in Nat
  BY NumberType DEF Headers, Bodies, Handling

-----------------------------------------------------------------------------
(* Types.  How far the counters go is the next invariant's.                *)

Shape ==
    /\ backlog \in Seq(Conns) /\ hs \in Conns \cup {NoConn}
    /\ dropped \subseteq Conns /\ stopped \in BOOLEAN
    /\ agreed \subseteq Conns /\ table \subseteq Conns
    /\ sent \in [Conns -> Nat] /\ pulled \in [Conns -> Nat]
    /\ read \in [Conns -> Nat] /\ handled \in [Conns -> Nat]
    /\ half \in [Conns -> {"none", "kernel", "tls"}]
    /\ shut \in [Conns -> 0..2]
    /\ ready \subseteq Sources /\ IsFiniteSet(ready) /\ events \in Seq(Sources)
    /\ tasks \in Seq(Conns) /\ Len(tasks) <= MaxTasks
    /\ job \in [Workers -> Jobs]
    /\ \A w \in Workers : At(w, "idle") <=> job[w].conn = NoConn
    /\ noticed \subseteq Conns /\ panicked \in BOOLEAN
    /\ merged \subseteq Sources

LEMMA ShapeInit == Init => Shape
<1> SUFFICES ASSUME Init PROVE Shape
  OBVIOUS
<1>1. Idle \in Jobs /\ Idle.at = "idle" /\ Idle.conn = NoConn
  BY DEF Jobs, Idle
<1>2. job \in [Workers -> Jobs] /\ \A w \in Workers : At(w, "idle") <=> job[w].conn = NoConn
  BY <1>1 DEF Init, At
<1>3. /\ backlog \in Seq(Conns) /\ events \in Seq(Sources) /\ tasks \in Seq(Conns)
      /\ Len(tasks) <= MaxTasks /\ IsFiniteSet(ready)
  BY EventLoopAssumption, FS_EmptySet DEF Init
<1>4. /\ [c \in Conns |-> 0] \in [Conns -> Nat] /\ [c \in Conns |-> 0] \in [Conns -> 0..2]
      /\ [c \in Conns |-> "none"] \in [Conns -> {"none", "kernel", "tls"}]
  OBVIOUS
<1> QED
  BY <1>2, <1>3, <1>4 DEF Init, Shape

\* What the batch leaves on the list is what it has no room for.
LEMMA BatchTaken ==
  ASSUME Shape, EpollWait
  PROVE  \E batch \in SUBSET {s \in ready : Readable(s)} :
           /\ IsFiniteSet(batch) /\ events' \in SetToSeqs(batch)
           /\ ready' = {s \in ready : Readable(s)} \ batch
<1>1. IsFiniteSet({s \in ready : Readable(s)})
  BY FS_Subset DEF Shape
<1> QED
  BY <1>1, FS_Subset DEF EpollWait

LEMMA MainShapes ==
  ASSUME Shape, MainStep
  PROVE  Shape'
<1>1. CASE EpollWait
  <2>1. PICK R : /\ R \subseteq Sources /\ IsFiniteSet(R)
                 /\ events' \in SetToSeqs(R) /\ ready' \subseteq ready
    BY <1>1, BatchTaken DEF Shape
  <2>2. events' \in Seq(Sources)
    <3>1. PICK n : n = Cardinality(R) /\ events' \in [1..n -> R]
      BY <2>1 DEF SetToSeqs
    <3>2. n \in Nat
      BY <2>1, <3>1, FS_CardinalityType
    <3>3. events' \in [1..n -> Sources]
      BY <2>1, <3>1
    <3> QED
      BY <3>2, <3>3
  <2>3. IsFiniteSet(ready') /\ ready' \subseteq Sources
    BY <2>1, FS_Subset DEF Shape
  <2>4. UNCHANGED <<sockets, pool, backlog, dropped, hs, agreed, table, stopped, merged>>
    BY <1>1 DEF EpollWait
  <2> QED
    BY <2>2, <2>3, <2>4 DEF Shape, sockets, pool, At
<1>2. CASE Accept
  <2>1. Head(backlog) \in Conns /\ Tail(backlog) \in Seq(Conns) /\ Tail(events) \in Seq(Sources)
    BY <1>2, TailRange DEF Accept, Shape
  <2>2. IsFiniteSet(ready') /\ ready' \subseteq Sources
    BY <1>2, <2>1, FS_AddElement DEF Accept, Shape, Sources
  <2> QED
    BY <1>2, <2>1, <2>2 DEF Accept, Shape, sockets, pool, At
<1>3. CASE Handshake
  <2>1. hs \in Conns
    BY <1>3 DEF Handshake, Shape
  <2>2. pulled' \in [Conns -> Nat] /\ merged' \subseteq Sources
    BY <1>3, <2>1 DEF Handshake, Shape, Sources
  <2> QED
    BY <1>3, <2>1, <2>2 DEF Handshake, Shape, pool, At
<1>4. CASE HandshakeFails
  BY <1>4 DEF HandshakeFails, Shape, sockets, pool, At
<1>5. CASE Dispatch
  <2>1. Head(events) \in Conns /\ Tail(events) \in Seq(Sources)
    BY <1>5, TailRange DEF Dispatch, Shape, Sources
  <2>2. Append(tasks, Head(events)) \in Seq(Conns) /\ Len(Append(tasks, Head(events))) <= MaxTasks
    BY <1>5, <2>1, EventLoopAssumption DEF Dispatch, Shape
  <2> QED
    BY <1>5, <2>1, <2>2 DEF Dispatch, Shape, sockets, At
<1> QED
  BY <1>1, <1>2, <1>3, <1>4, <1>5 DEF MainStep

LEMMA FailShapes ==
  ASSUME Shape, MainFails
  PROVE  Shape'
<1>1. CASE EpollWaitFails
  BY <1>1 DEF EpollWaitFails, Shape, sockets, pool, At
<1>2. ASSUME AcceptFails \/ RegisterFails
      PROVE  /\ Head(backlog) \in Conns /\ Tail(backlog) \in Seq(Conns)
             /\ Tail(events) \in Seq(Sources)
  BY <1>2, TailRange DEF AcceptFails, RegisterFails, Shape
<1>3. CASE AcceptFails
  BY <1>2, <1>3 DEF AcceptFails, Shape, Sources, sockets, pool, At
<1>4. CASE RegisterFails
  BY <1>2, <1>4 DEF RegisterFails, Shape, sockets, pool, At
<1> QED
  BY <1>1, <1>3, <1>4 DEF MainFails

-----------------------------------------------------------------------------
(* How the steps move the workers and the looks.                           *)

LEMMA Moved ==
  ASSUME NEW w \in Workers, \A v \in Workers \ {w} : job'[v] = job[v], NEW s
  PROVE  /\ Headers(s)' = Headers(s)
                - (IF job[w].conn = s /\ job[w].at = "header" THEN 1 ELSE 0)
                + (IF job'[w].conn = s /\ job'[w].at = "header" THEN 1 ELSE 0)
         /\ Bodies(s)' = Bodies(s)
                - (IF job[w].conn = s /\ job[w].at = "body" THEN 1 ELSE 0)
                + (IF job'[w].conn = s /\ job'[w].at = "body" THEN 1 ELSE 0)
         /\ Handling(s)' = Handling(s)
                - (IF job[w].conn = s /\ job[w].at = "handle" THEN 1 ELSE 0)
                + (IF job'[w].conn = s /\ job'[w].at = "handle" THEN 1 ELSE 0)
<1>1. PICK g : g = job'
  OBVIOUS
<1>2. \A place : Number(g, s, place)
           = Number(job, s, place) - (IF job[w].conn = s /\ job[w].at = place THEN 1 ELSE 0)
               + (IF g[w].conn = s /\ g[w].at = place THEN 1 ELSE 0)
  BY <1>1, NumberMoves
<1> QED
  BY <1>1, <1>2 DEF Headers, Bodies, Handling

\* w, and no other worker, goes to a place with c.
GoesTo(w, c, place) ==
    /\ job' \in [Workers -> Jobs]
    /\ \A v \in Workers \ {w} : job'[v] = job[v]
    /\ job'[w].conn = c /\ job'[w].at = place

LEMMA JobIs ==
  ASSUME Shape, NEW w \in Workers
  PROVE  /\ job \in [Workers -> Jobs] /\ job[w] \in Jobs
         /\ job[w].conn \in Conns \cup {NoConn}
         /\ job[w].at \in {"idle", "header", "body", "handle"}
         /\ ~At(w, "idle") => job[w].conn \in Conns
         /\ Idle \in Jobs /\ Idle.at = "idle" /\ Idle.conn = NoConn
  BY DEF Shape, Jobs, Idle, At

LEMMA WorkerGoes ==
  ASSUME Shape, NEW w \in Workers
  PROVE  /\ ReadHeader(w) => /\ GoesTo(w, job[w].conn, "body")
                             /\ job[w].at = "header" /\ job[w].conn \in Conns
         /\ ReadBody(w) => /\ GoesTo(w, job[w].conn, "handle")
                           /\ job[w].at = "body" /\ job[w].conn \in Conns
         /\ HandleMes(w) => /\ GoesTo(w, NoConn, "idle")
                            /\ job[w].at = "handle" /\ job[w].conn \in Conns
         /\ EndOfStream(w) => /\ GoesTo(w, NoConn, "idle")
                              /\ job[w].at = "header" /\ job[w].conn \in Conns
<1>1. ASSUME NEW place \in {"body", "handle"}, Move(w, place)
      PROVE  GoesTo(w, job[w].conn, place)
  BY <1>1, JobIs DEF Move, GoesTo, Jobs
<1>2. ASSUME job' = [job EXCEPT ![w] = Idle] PROVE GoesTo(w, NoConn, "idle")
  BY <1>2, JobIs DEF GoesTo
<1>3. \A place \in {"header", "body", "handle"} :
         At(w, place) => job[w].at = place /\ job[w].conn \in Conns
  BY JobIs DEF At
<1> QED
  BY <1>1, <1>2, <1>3 DEF ReadHeader, ReadBody, HandleMes, EndOfStream

Unmoved(s) == Headers(s)' = Headers(s) /\ Bodies(s)' = Bodies(s) /\ Handling(s)' = Handling(s)

LEMMA JobsStay ==
  ASSUME UNCHANGED job, NEW s
  PROVE  Unmoved(s)
  BY DEF Unmoved, Headers, Bodies, Handling

LEMMA TakeMoves ==
  ASSUME Shape, NEW w \in Workers, Take(w)
  PROVE  /\ tasks # <<>> /\ Head(tasks) \in Conns /\ tasks' = Tail(tasks)
         /\ Head(tasks) \in table => GoesTo(w, Head(tasks), "header")
         /\ Head(tasks) \notin table => GoesTo(w, NoConn, "idle")
         /\ \A s \in Sources :
              /\ Bodies(s)' = Bodies(s) /\ Handling(s)' = Handling(s)
              /\ Headers(s)' = Headers(s) + (IF Head(tasks) = s /\ s \in table THEN 1 ELSE 0)
<1> DEFINE j == IF Head(tasks) \in table
                  THEN [conn |-> Head(tasks), at |-> "header"] ELSE Idle
<1>1. tasks # <<>> /\ Head(tasks) \in Conns /\ job[w].at = "idle" /\ job[w].conn = NoConn
  BY TailRange DEF Take, Shape, At
<1>2. /\ j \in Jobs
      /\ j.conn = IF Head(tasks) \in table THEN Head(tasks) ELSE NoConn
      /\ j.at = IF Head(tasks) \in table THEN "header" ELSE "idle"
  BY <1>1, JobIs DEF Jobs
<1>3. job' = [job EXCEPT ![w] = j]
  BY DEF Take
<1> HIDE DEF j
<1>4. /\ job' \in [Workers -> Jobs] /\ \A v \in Workers \ {w} : job'[v] = job[v]
      /\ job'[w] = j
  BY <1>2, <1>3, JobIs
<1>5. ASSUME NEW s \in Sources
      PROVE  /\ Bodies(s)' = Bodies(s) /\ Handling(s)' = Handling(s)
             /\ Headers(s)' = Headers(s) + (IF Head(tasks) = s /\ s \in table THEN 1 ELSE 0)
  BY <1>1, <1>2, <1>4, Moved, JobTypes
<1> QED
  BY <1>1, <1>2, <1>4, <1>5 DEF GoesTo, Take

LEMMA WorkerMoves ==
  ASSUME Shape, NEW w \in Workers, NEW s
  PROVE  /\ ReadHeader(w) =>
              /\ Headers(s)' = Headers(s) - (IF job[w].conn = s THEN 1 ELSE 0)
              /\ Bodies(s)' = Bodies(s) + (IF job[w].conn = s THEN 1 ELSE 0)
              /\ Handling(s)' = Handling(s)
         /\ ReadBody(w) =>
              /\ Headers(s)' = Headers(s)
              /\ Bodies(s)' = Bodies(s) - (IF job[w].conn = s THEN 1 ELSE 0)
              /\ Handling(s)' = Handling(s) + (IF job[w].conn = s THEN 1 ELSE 0)
         /\ HandleMes(w) =>
              /\ Headers(s)' = Headers(s) /\ Bodies(s)' = Bodies(s)
              /\ Handling(s)' = Handling(s) - (IF job[w].conn = s THEN 1 ELSE 0)
         /\ EndOfStream(w) =>
              /\ Headers(s)' = Headers(s) - (IF job[w].conn = s THEN 1 ELSE 0)
              /\ Bodies(s)' = Bodies(s) /\ Handling(s)' = Handling(s)
<1>1. CASE ReadHeader(w)
  BY <1>1, WorkerGoes, Moved, JobTypes DEF GoesTo
<1>2. CASE ReadBody(w)
  BY <1>2, WorkerGoes, Moved, JobTypes DEF GoesTo
<1>3. CASE HandleMes(w)
  BY <1>3, WorkerGoes, Moved, JobTypes DEF GoesTo
<1>4. CASE EndOfStream(w)
  BY <1>4, WorkerGoes, Moved, JobTypes DEF GoesTo
<1> QED
  BY <1>1, <1>2, <1>3, <1>4

LEMMA WorkerShapes ==
  ASSUME Shape, NEW w \in Workers, WorkerStep(w)
  PROVE  Shape'
<1>1. CASE Take(w)
  <2>1. Tail(tasks) \in Seq(Conns) /\ Len(Tail(tasks)) <= MaxTasks
    <3>1. tasks \in Seq(Conns) /\ tasks # <<>> /\ Len(tasks) <= MaxTasks
      BY <1>1 DEF Take, Shape
    <3>2. Tail(tasks) \in Seq(Conns) /\ Len(Tail(tasks)) = Len(tasks) - 1
      BY <3>1, HeadTailProperties, EmptySeq
    <3> QED
      BY <3>1, <3>2, LenProperties, EventLoopAssumption
  <2>2. /\ job' \in [Workers -> Jobs]
        /\ \A v \in Workers : job'[v].at = "idle" <=> job'[v].conn = NoConn
    BY <1>1, TakeMoves, EventLoopAssumption DEF GoesTo, Shape, At
  <2> QED
    BY <1>1, <2>1, <2>2 DEF Take, Shape, sockets, mainVars, At
<1>2. ASSUME NEW c \in Conns \cup {NoConn}, NEW place, GoesTo(w, c, place),
             place = "idle" <=> c = NoConn
      PROVE  /\ job' \in [Workers -> Jobs]
             /\ \A v \in Workers : job'[v].at = "idle" <=> job'[v].conn = NoConn
  BY <1>2 DEF GoesTo, Shape, At
<1>3. CASE ReadHeader(w)
  <2>1. /\ job' \in [Workers -> Jobs] /\ job[w].conn \in Conns
        /\ \A v \in Workers : job'[v].at = "idle" <=> job'[v].conn = NoConn
    BY <1>2, <1>3, WorkerGoes, EventLoopAssumption
  <2>2. pulled' \in [Conns -> Nat] /\ merged' \subseteq Sources
    <3>1. CASE UNCHANGED <<pulled, merged>>
      BY <3>1 DEF Shape
    <3>2. ASSUME NEW k \in (pulled[job[w].conn] + 1)..sent[job[w].conn],
                 pulled' = [pulled EXCEPT ![job[w].conn] = k],
                 merged' \subseteq merged \cup {job[w].conn}
          PROVE  pulled' \in [Conns -> Nat] /\ merged' \subseteq Sources
      BY <2>1, <3>2 DEF Shape, Sources
    <3> QED
      BY <1>3, <3>1, <3>2 DEF ReadHeader, Fetch
  <2>3. read' \in [Conns -> Nat]
    BY <1>3, <2>1 DEF ReadHeader, Shape
  <2> QED
    BY <1>3, <2>1, <2>2, <2>3 DEF ReadHeader, Shape, mainVars, At
<1>4. CASE ReadBodyAsHeader(w)
  BY <1>4 DEF ReadBodyAsHeader, Shape, sockets, mainVars, At
<1>5. CASE ReadBody(w)
  <2>1. /\ job' \in [Workers -> Jobs] /\ job[w].conn \in Conns
        /\ \A v \in Workers : job'[v].at = "idle" <=> job'[v].conn = NoConn
    BY <1>2, <1>5, WorkerGoes, EventLoopAssumption
  <2>2. read' \in [Conns -> Nat]
    BY <1>5, <2>1 DEF ReadBody, Shape
  <2> QED
    BY <1>5, <2>1, <2>2 DEF ReadBody, Shape, mainVars, At
<1>6. CASE ReadFirstPiece(w)
  BY <1>6 DEF ReadFirstPiece, Shape, pool, mainVars, At
<1>7. CASE HandleMes(w)
  <2>1. /\ job' \in [Workers -> Jobs] /\ job[w].conn \in Conns
        /\ \A v \in Workers : job'[v].at = "idle" <=> job'[v].conn = NoConn
    BY <1>2, <1>7, WorkerGoes
  <2>2. handled' \in [Conns -> Nat]
    <3>1. handled' = [handled EXCEPT ![job[w].conn] = @ + 1]
      BY <1>7 DEF HandleMes
    <3> QED
      BY <2>1, <3>1 DEF Shape
  <2> QED
    BY <1>7, <2>1, <2>2 DEF HandleMes, Shape, sockets, mainVars, At
<1>8. CASE EndOfStream(w)
  <2>1. /\ job' \in [Workers -> Jobs] /\ job[w].conn \in Conns
        /\ \A v \in Workers : job'[v].at = "idle" <=> job'[v].conn = NoConn
    BY <1>2, <1>8, WorkerGoes
  <2> QED
    BY <1>8, <2>1 DEF EndOfStream, Shape, sockets, At
<1> QED
  BY <1>1, <1>3, <1>4, <1>5, <1>6, <1>7, <1>8 DEF WorkerStep

LEMMA ClientShapes ==
  ASSUME Shape, NEW c \in Conns, ClientStep(c)
  PROVE  Shape'
<1>1. ASSUME NEW s \in Sources, Edge(s) PROVE ready' \subseteq Sources /\ IsFiniteSet(ready')
  BY <1>1, FS_AddElement DEF Edge, Shape
<1>2. ASSUME NEW s \in Sources, Arrival(s)
      PROVE  ready' \subseteq Sources /\ IsFiniteSet(ready') /\ merged' \subseteq Sources
  BY <1>1, <1>2 DEF Arrival, Shape
<1>3. c \in Sources /\ Listener \in Sources
  BY DEF Sources
<1>4. CASE Connect(c)
  <2>1. Append(backlog, c) \in Seq(Conns)
    BY DEF Shape
  <2> QED
    BY <1>2, <1>3, <1>4, <2>1 DEF Connect, Shape, sockets, pool, At
<1>5. CASE ClientAgrees(c)
  BY <1>5 DEF ClientAgrees, Shape, sockets, pool, At
<1>6. CASE ClientDrops(c)
  <2>1. ready' \subseteq Sources /\ IsFiniteSet(ready') /\ merged' \subseteq Sources
    BY <1>2, <1>3, <1>6 DEF ClientDrops
  <2>2. shut' \in [Conns -> 0..2]
    BY <1>6 DEF ClientDrops, Shape
  <2> QED
    BY <1>6, <2>1, <2>2 DEF ClientDrops, Shape, pool, mainVars, At
<1>7. CASE SendRecord(c)
  BY <1>2, <1>3, <1>7 DEF SendRecord, Shape, pool, mainVars, At
<1>8. CASE SendFirstPiece(c)
  BY <1>2, <1>3, <1>8 DEF SendFirstPiece, Shape, pool, mainVars, At
<1>9. CASE SendSecondPiece(c)
  <2>1. sent' \in [Conns -> Nat] /\ half' \in [Conns -> {"none", "kernel", "tls"}]
    BY <1>9 DEF SendSecondPiece, Shape
  <2> QED
    BY <1>1, <1>3, <1>9, <2>1 DEF SendSecondPiece, Shape, pool, mainVars, At
<1>10. CASE CloseNotify(c)
  BY <1>2, <1>3, <1>10 DEF CloseNotify, Shape, pool, mainVars, At
<1>11. CASE Fin(c)
  <2>1. shut' \in [Conns -> 0..2]
    BY <1>11 DEF Fin, Shape
  <2> QED
    BY <1>1, <1>3, <1>11, <2>1 DEF Fin, Shape, pool, mainVars, At
<1> QED
  BY <1>4, <1>5, <1>6, <1>7, <1>8, <1>9, <1>10, <1>11 DEF ClientStep

LEMMA ShapeStep == Shape /\ [Next]_vars => Shape'
<1>1. Shape /\ UNCHANGED vars => Shape'
  BY DEF Shape, vars, sockets, pool, mainVars, At
<1> QED
  BY <1>1, MainShapes, FailShapes, WorkerShapes, ClientShapes DEF Next

-----------------------------------------------------------------------------
(* Connections that main has yet to take: nothing of them has reached the  *)
(* table, the channel or a worker.                                         *)

Waits(c) == c \in Range(backlog) \/ c = hs

Quiet(c) ==
    /\ pulled[c] = 0 /\ read[c] = 0
    /\ c \notin Range(events) /\ c \notin Range(tasks)
    /\ \A w \in Workers : job[w].conn # c
    /\ c # hs => c \notin ready

FreshOf(c) ==
    /\ Waits(c) => c \notin table
    /\ c \in Range(backlog) => c \notin agreed
    /\ c \notin agreed => sent[c] = 0 /\ half[c] = "none"
    /\ half[c] # "none" => shut[c] = 0
    /\ c \in noticed => shut[c] > 0
    /\ c \notin table /\ (Waits(c) \/ shut[c] = 0) => Quiet(c)

Fresh ==
    /\ IsInjective(backlog) /\ hs \notin Range(backlog)
    /\ \A c \in Conns : FreshOf(c)

LEMMA FreshInit == Init => Fresh
  BY EmptyRange, EventLoopAssumption DEF Init, Fresh, FreshOf, Waits, Quiet, Idle

LEMMA MainFresh ==
  ASSUME Shape, Fresh, MainStep
  PROVE  Fresh'
<1>1. CASE EpollWait
  <2>1. PICK R : /\ R \subseteq ready /\ IsFiniteSet(R)
                 /\ events' \in SetToSeqs(R) /\ ready' \subseteq ready
    BY <1>1, BatchTaken
  <2>2. ASSUME NEW s, s \in Range(events') PROVE s \in ready
    <3>1. events' \in Seq(R)
      BY <2>1, CountOnce
    <3> QED
      BY <2>1, <2>2, <3>1, RangeOfSeqInSet
  <2>3. \A c \in Conns : c # hs
    BY <1>1, EventLoopAssumption DEF EpollWait
  <2>4. UNCHANGED <<sockets, pool, backlog, hs, agreed, table, merged>>
    BY <1>1 DEF EpollWait
  <2> QED
    BY <2>1, <2>2, <2>3, <2>4 DEF sockets, pool, Fresh, FreshOf, Waits, Quiet
<1>2. CASE Accept
  <2> DEFINE h == Head(backlog)
  <2>1. /\ h \in Conns /\ h \in Range(backlog)
        /\ Range(Tail(backlog)) = Range(backlog) \ {h} /\ IsInjective(Tail(backlog))
        /\ Range(Tail(events)) \subseteq Range(events)
    <3>1. backlog \in Seq(Conns) /\ backlog # <<>> /\ events \in Seq(Sources) /\ events # <<>>
      BY <1>2 DEF Accept, Shape
    <3>2. Range(Tail(events)) \subseteq Range(events)
      BY <3>1, TailInRange
    <3> QED
      BY <3>1, <3>2, TailRange DEF Fresh
  <2>2. /\ hs = NoConn /\ hs' = h /\ backlog' = Tail(backlog) /\ events' = Tail(events)
        /\ ready' \subseteq ready \cup {h}
    BY <1>2 DEF Accept
  <2> HIDE DEF h
  <2>3. \A c \in Conns : /\ c # hs
                         /\ Waits(c)' <=> Waits(c)
    BY <2>1, <2>2, EventLoopAssumption DEF Waits
  <2> QED
    BY <1>2, <2>1, <2>2, <2>3 DEF Accept, sockets, pool, Fresh, FreshOf, Waits, Quiet
<1>3. CASE Handshake \/ HandshakeFails
  <2>1. /\ hs \in Conns /\ hs' = NoConn /\ table' = table \cup {hs}
        /\ pulled' \in [Conns -> Nat] /\ \A c \in Conns \ {hs} : pulled'[c] = pulled[c]
        /\ UNCHANGED <<sent, half, shut, read, pool, backlog, agreed, events, ready>>
    <3>1. CASE Handshake
      BY <3>1 DEF Handshake, Shape
    <3>2. CASE HandshakeFails
      BY <3>2 DEF HandshakeFails, Shape, sockets
    <3> QED
      BY <1>3, <3>1, <3>2
  <2>2. Range(backlog) \subseteq Conns
    BY RangeOfSeqInSet DEF Shape
  <2> QED
    BY <2>1, <2>2, EventLoopAssumption DEF pool, Fresh, FreshOf, Waits, Quiet
<1>4. CASE Dispatch
  <2>1. /\ Range(tasks') = Range(tasks) \cup {Head(events)}
        /\ Head(events) \in Range(events) /\ Range(events') \subseteq Range(events)
    <3>1. events \in Seq(Sources) /\ events # <<>> /\ tasks \in Seq(Conns) /\ Head(events) # Listener
      BY <1>4 DEF Dispatch, Shape
    <3>2. Head(events) \in Conns /\ Head(events) \in Range(events)
      BY <3>1, TailRange DEF Sources
    <3> QED
      BY <1>4, <3>1, <3>2, AppendRange, TailInRange DEF Dispatch
  <2> QED
    BY <1>4, <2>1 DEF Dispatch, sockets, Fresh, FreshOf, Waits, Quiet
<1> QED
  BY <1>1, <1>2, <1>3, <1>4 DEF MainStep

LEMMA FailFresh ==
  ASSUME Shape, Fresh, MainFails
  PROVE  Fresh'
<1>1. UNCHANGED <<sockets, pool, hs, agreed, table, ready>>
  BY DEF MainFails, EpollWaitFails, AcceptFails, RegisterFails
<1>2. Range(events') \subseteq Range(events)
  <2>1. CASE EpollWaitFails
    BY <2>1 DEF EpollWaitFails
  <2>2. CASE AcceptFails \/ RegisterFails
    <3>1. events \in Seq(Sources) /\ events # <<>> /\ events' = Tail(events)
      BY <2>2 DEF AcceptFails, RegisterFails, Shape
    <3> QED
      BY <3>1, TailInRange
  <2> QED
    BY <2>1, <2>2 DEF MainFails
<1>3. Range(backlog') \subseteq Range(backlog) /\ IsInjective(backlog')
  <2>1. CASE UNCHANGED backlog
    BY <2>1 DEF Fresh
  <2>2. CASE RegisterFails
    <3>1. backlog \in Seq(Conns) /\ backlog # <<>> /\ backlog' = Tail(backlog)
      BY <2>2 DEF RegisterFails, Shape
    <3>2. Range(Tail(backlog)) = Range(backlog) \ {Head(backlog)} /\ IsInjective(Tail(backlog))
      BY <3>1, TailRange DEF Fresh
    <3> QED
      BY <3>1, <3>2
  <2> QED
    BY <2>1, <2>2 DEF MainFails, EpollWaitFails, AcceptFails
<1> QED
  BY <1>1, <1>2, <1>3 DEF sockets, pool, Fresh, FreshOf, Waits, Quiet

\* What no step of a worker does.
LEMMA WorkerKeeps ==
  ASSUME Shape, NEW w \in Workers, WorkerStep(w)
  PROVE  /\ UNCHANGED <<backlog, hs, agreed, sent, shut, ready, events>>
         /\ Range(tasks') \subseteq Range(tasks)
         /\ \A c \in Conns :
              /\ half'[c] = half[c] \/ (half[c] = "kernel" /\ half'[c] = "tls")
              /\ c \in noticed' => c \in noticed \/ shut[c] > 0
              /\ c \in table \ table' => shut[c] > 0 /\ job[w].conn = c
              /\ job[w].conn # c => pulled'[c] = pulled[c] /\ read'[c] = read[c]
              /\ (\A v \in Workers : job[v].conn # c) /\ c \notin Range(tasks)
                   => \A v \in Workers : job'[v].conn # c
         /\ table' \subseteq table
<1>1. CASE Take(w)
  <2>1. /\ Range(tasks') \subseteq Range(tasks) /\ Head(tasks) \in Range(tasks)
    <3>1. tasks \in Seq(Conns) /\ tasks # <<>>
      BY <1>1 DEF Take, Shape
    <3> QED
      BY <1>1, <3>1, TailInRange, TailRange DEF Take
  <2>2. \A c \in Conns : c \notin Range(tasks) /\ (\A v \in Workers : job[v].conn # c)
                            => \A v \in Workers : job'[v].conn # c
    BY <1>1, <2>1, TakeMoves, EventLoopAssumption DEF GoesTo
  <2> QED
    BY <1>1, <2>1, <2>2 DEF Take, sockets, mainVars
<1>2. ASSUME NEW p \in Conns \cup {NoConn}, NEW place, GoesTo(w, p, place), 
             p \in {job[w].conn, NoConn}
      PROVE  \A c \in Conns : (\A v \in Workers : job[v].conn # c)
                => \A v \in Workers : job'[v].conn # c
  BY <1>2, EventLoopAssumption DEF GoesTo
<1>3. CASE ReadHeader(w)
  <2>1. \A c \in Conns : job[w].conn # c => pulled'[c] = pulled[c] /\ read'[c] = read[c]
    <3>1. \A c \in Conns : job[w].conn # c => read'[c] = read[c]
      BY <1>3 DEF ReadHeader, Shape
    <3>2. \A c \in Conns : job[w].conn # c => pulled'[c] = pulled[c]
      BY <1>3 DEF ReadHeader, Fetch, Shape
    <3> QED
      BY <3>1, <3>2
  <2>2. \A c \in Conns : (\A v \in Workers : job[v].conn # c) => \A v \in Workers : job'[v].conn # c
    BY <1>2, <1>3, WorkerGoes
  <2> QED
    BY <1>3, <2>1, <2>2 DEF ReadHeader, mainVars
<1>4. CASE ReadBodyAsHeader(w)
  BY <1>4 DEF ReadBodyAsHeader, sockets, mainVars
<1>5. CASE ReadBody(w)
  <2>1. \A c \in Conns : job[w].conn # c => read'[c] = read[c]
    BY <1>5 DEF ReadBody, Shape
  <2>2. \A c \in Conns : (\A v \in Workers : job[v].conn # c) => \A v \in Workers : job'[v].conn # c
    BY <1>2, <1>5, WorkerGoes
  <2> QED
    BY <1>5, <2>1, <2>2 DEF ReadBody, mainVars
<1>6. CASE ReadFirstPiece(w)
  <2>1. \A c \in Conns : half'[c] = half[c] \/ (half[c] = "kernel" /\ half'[c] = "tls")
    BY <1>6 DEF ReadFirstPiece, Shape
  <2> QED
    BY <1>6, <2>1 DEF ReadFirstPiece, pool, mainVars
<1>7. CASE HandleMes(w)
  <2>1. \A c \in Conns : (\A v \in Workers : job[v].conn # c) => \A v \in Workers : job'[v].conn # c
    BY <1>2, <1>7, WorkerGoes
  <2> QED
    BY <1>7, <2>1 DEF HandleMes, sockets, mainVars
<1>8. CASE EndOfStream(w)
  <2>1. \A c \in Conns : (\A v \in Workers : job[v].conn # c) => \A v \in Workers : job'[v].conn # c
    BY <1>2, <1>8, WorkerGoes
  <2> QED
    BY <1>8, <2>1 DEF EndOfStream, sockets
<1> QED
  BY <1>1, <1>3, <1>4, <1>5, <1>6, <1>7, <1>8 DEF WorkerStep

LEMMA WorkerFresh ==
  ASSUME Shape, Fresh, NEW w \in Workers, WorkerStep(w)
  PROVE  Fresh'
<1>1. ASSUME NEW c \in Conns PROVE FreshOf(c)'
  <2>1. FreshOf(c)
    BY DEF Fresh
  <2>2. Quiet(c) => Quiet(c)'
    BY WorkerKeeps DEF Quiet
  <2>3. Waits(c)' <=> Waits(c)
    BY WorkerKeeps DEF Waits
  <2>4. c \notin table' /\ (Waits(c) \/ shut[c] = 0) => Quiet(c)'
    <3>1. CASE c \notin table
      BY <2>1, <2>2, <3>1 DEF FreshOf
    <3>2. CASE c \in table
      BY <2>1, <3>2, WorkerKeeps DEF FreshOf, Shape
    <3> QED
      BY <3>1, <3>2
  <2> QED
    BY <2>1, <2>3, <2>4, WorkerKeeps DEF FreshOf, Waits
<1> QED
  BY <1>1, WorkerKeeps DEF Fresh

LEMMA ClientFresh ==
  ASSUME Shape, Fresh, NEW c \in Conns, ClientStep(c)
  PROVE  Fresh'
<1> USE EventLoopAssumption
<1>1. ASSUME UNCHANGED <<pulled, read, job, tasks, hs, events>>, 
             Edge(c) \/ ready' = ready \/ ready' \subseteq ready \cup {Listener},
             NEW b \in Conns, Quiet(b)
      PROVE  \/ Quiet(b)'
             \/ b = c /\ b \in table
  <2>1. Edge(c) /\ c \notin table /\ c # hs => ready' = ready
    BY DEF Edge, Watched
  <2> QED
    BY <1>1, <2>1 DEF Quiet, Edge
<1>2. CASE Connect(c)
  <2>1. /\ Append(backlog, c) \in Seq(Conns) /\ Range(Append(backlog, c)) = Range(backlog) \cup {c}
        /\ IsInjective(Append(backlog, c))
    BY <1>2, AppendRange DEF Connect, Known, Shape, Fresh
  <2>2. ready' \subseteq ready \cup {Listener}
    BY <1>2 DEF Connect, Arrival, Edge
  <2>3. /\ backlog' = Append(backlog, c) /\ c \notin agreed /\ shut[c] = 0
        /\ c \notin Range(backlog) /\ c # hs /\ c \notin table
        /\ UNCHANGED <<sockets, pool, hs, agreed, table, events>>
    BY <1>2 DEF Connect, Known
  <2> QED
    BY <1>1, <2>1, <2>2, <2>3 DEF sockets, pool, Fresh, FreshOf, Waits
<1>3. CASE ClientAgrees(c)
  BY <1>1, <1>3 DEF ClientAgrees, sockets, pool, Fresh, FreshOf, Waits
<1>4. CASE ClientDrops(c)
  <2>1. /\ c \in Range(backlog) \/ c = hs
        /\ c \notin agreed /\ shut[c] = 0 /\ Edge(c)
        /\ shut'[c] = 2 /\ \A b \in Conns \ {c} : shut'[b] = shut[b]
        /\ UNCHANGED <<sent, half, pulled, read, pool, mainVars>>
    BY <1>4 DEF ClientDrops, Arrival, Shape
  <2> QED
    BY <1>1, <2>1 DEF pool, mainVars, Fresh, FreshOf, Waits
<1>5. CASE SendRecord(c)
  <2>1. /\ c \in agreed /\ shut[c] = 0 /\ Edge(c)
        /\ \A b \in Conns \ {c} : sent'[b] = sent[b]
        /\ UNCHANGED <<half, shut, pulled, read, pool, mainVars>>
    BY <1>5 DEF SendRecord, MaySend, Arrival, Shape
  <2> QED
    BY <1>1, <2>1 DEF pool, mainVars, Fresh, FreshOf, Waits
<1>6. CASE SendFirstPiece(c)
  <2>1. /\ c \in agreed /\ shut[c] = 0 /\ Edge(c)
        /\ \A b \in Conns \ {c} : half'[b] = half[b]
        /\ UNCHANGED <<sent, shut, pulled, read, pool, mainVars>>
    BY <1>6 DEF SendFirstPiece, MaySend, Arrival, Shape
  <2> QED
    BY <1>1, <2>1 DEF pool, mainVars, Fresh, FreshOf, Waits
<1>7. CASE SendSecondPiece(c)
  <2>1. /\ half[c] # "none" /\ half'[c] = "none" /\ Edge(c)
        /\ \A b \in Conns \ {c} : half'[b] = half[b] /\ sent'[b] = sent[b]
        /\ UNCHANGED <<shut, pulled, read, pool, mainVars>>
    BY <1>7 DEF SendSecondPiece, Shape
  <2> QED
    BY <1>1, <2>1 DEF pool, mainVars, Fresh, FreshOf, Waits
<1>8. CASE CloseNotify(c) \/ Fin(c)
  <2>1. /\ c \in agreed \/ shut[c] = 1
        /\ shut'[c] \in 1..2
        /\ half[c] = "none" \/ shut[c] = 1
        /\ Edge(c)
        /\ \A b \in Conns \ {c} : shut'[b] = shut[b]
        /\ UNCHANGED <<sent, half, pulled, read, pool, mainVars>>
    BY <1>8 DEF CloseNotify, Fin, Arrival, Shape
  <2>2. half[c] = "none"
    BY <2>1 DEF Fresh, FreshOf
  <2>3. ASSUME NEW b \in Conns PROVE FreshOf(b)'
    <3>1. FreshOf(b) /\ (Waits(b)' <=> Waits(b))
      BY <2>1 DEF Fresh, mainVars, Waits
    <3>2. b \notin table /\ (Waits(b) \/ shut'[b] = 0) => Quiet(b)'
      BY <1>1, <2>1, <3>1 DEF FreshOf, pool, mainVars
    <3> QED
      BY <2>1, <2>2, <3>1, <3>2 DEF FreshOf, pool, mainVars
  <2> QED
    BY <2>1, <2>3 DEF Fresh, mainVars
<1> QED
  BY <1>2, <1>3, <1>4, <1>5, <1>6, <1>7, <1>8 DEF ClientStep

LEMMA FreshStep == Shape /\ Fresh /\ [Next]_vars => Fresh'
<1>1. Fresh /\ UNCHANGED vars => Fresh'
  BY DEF Fresh, FreshOf, Waits, Quiet, vars, sockets, pool, mainVars
<1> QED
  BY <1>1, MainFresh, FailFresh, WorkerFresh, ClientFresh DEF Next

-----------------------------------------------------------------------------
(* The counters of a connection, and the workers between two of them.      *)

CountOf(c) ==
    /\ pulled[c] <= sent[c] /\ sent[c] <= MaxMsgs[c]
    /\ half[c] # "none" => sent[c] < MaxMsgs[c]
    /\ half[c] = "tls" => read[c] = 2 * sent[c]
    /\ read[c] <= 2 * pulled[c]
    /\ Bodies(c) = read[c] % 2
    /\ handled[c] + Handling(c) = read[c] \div 2

Counts == \A c \in Conns : CountOf(c)

LEMMA HalfStep ==
  ASSUME NEW n \in Nat
  PROVE  /\ n % 2 = 0 => (n + 1) % 2 = 1 /\ (n + 1) \div 2 = n \div 2
         /\ n % 2 = 1 => (n + 1) % 2 = 0 /\ (n + 1) \div 2 = (n \div 2) + 1
  OBVIOUS

LEMMA CountsInit == Init => Counts
<1> SUFFICES ASSUME Init, NEW c \in Conns PROVE CountOf(c)
  BY DEF Counts
<1>1. \A w \in Workers : job[w].at = "idle"
  BY DEF Init, Idle
<1>2. Bodies(c) = 0 /\ Handling(c) = 0
  <2>1. /\ {w \in Workers : job[w].at = "body" /\ job[w].conn = c} = {}
        /\ {w \in Workers : job[w].at = "handle" /\ job[w].conn = c} = {}
    BY <1>1
  <2> QED
    BY <2>1, FS_EmptySet DEF Bodies, Handling, Number
<1>3. 0 % 2 = 0 /\ 0 \div 2 = 0
  OBVIOUS
<1> QED
  BY <1>2, <1>3, EventLoopAssumption DEF Init, CountOf

\* The values a connection's counters have.
CountsAre(c) ==
    /\ sent[c] \in Nat /\ pulled[c] \in Nat /\ read[c] \in Nat /\ handled[c] \in Nat
    /\ MaxMsgs[c] \in Nat /\ Bodies(c) \in Nat /\ Handling(c) \in Nat /\ Headers(c) \in Nat
    /\ half[c] \in {"none", "kernel", "tls"} /\ shut[c] \in 0..2

LEMMA CountTypes ==
  ASSUME Shape, NEW c \in Conns
  PROVE  CountsAre(c)
  BY JobTypes, EventLoopAssumption DEF CountsAre, Shape

LEMMA MainCounts ==
  ASSUME Shape, Fresh, Counts, MainStep
  PROVE  Counts'
<1> SUFFICES ASSUME NEW c \in Conns PROVE CountOf(c)'
  BY DEF Counts
<1>1. Unmoved(c)
  <2>1. UNCHANGED job
    BY DEF MainStep, EpollWait, Accept, Handshake, HandshakeFails, Dispatch, pool
  <2> QED
    BY <2>1, JobsStay
<1>2. CASE UNCHANGED <<sent, half, pulled, read, handled>>
  BY <1>1, <1>2 DEF Counts, CountOf, Unmoved
<1>3. CASE Handshake
  <2>1. Quiet(hs)
    BY <1>3 DEF Handshake, Fresh, FreshOf, Waits, Shape
  <2>2. hs \in Conns /\ UNCHANGED <<sent, half, read, handled>>
    BY <1>3 DEF Handshake, Shape, pool
  <2>3. PICK k \in 0..sent[hs] : pulled' = [pulled EXCEPT ![hs] = k]
    BY <1>3 DEF Handshake
  <2>4. /\ c # hs => pulled'[c] = pulled[c]
        /\ c = hs => pulled'[c] \in 0..sent[c] /\ read[c] = 0
    BY <2>1, <2>2, <2>3 DEF Shape, Quiet
  <2> QED
    BY <1>1, <2>2, <2>4, CountTypes DEF Counts, CountOf, Unmoved, CountsAre
<1> QED
  BY <1>2, <1>3 DEF MainStep, EpollWait, Accept, HandshakeFails, Dispatch, sockets, pool

LEMMA FailCounts ==
  ASSUME Counts, MainFails
  PROVE  Counts'
<1>1. UNCHANGED <<sockets, pool>>
  BY DEF MainFails, EpollWaitFails, AcceptFails, RegisterFails
<1> QED
  BY <1>1, JobsStay DEF Counts, CountOf, Unmoved, sockets, pool

LEMMA WorkerCounts ==
  ASSUME Shape, Counts, NEW w \in Workers, WorkerStep(w)
  PROVE  Counts'
<1> SUFFICES ASSUME NEW c \in Conns PROVE CountOf(c)'
  BY DEF Counts
<1>1. CountOf(c) /\ CountsAre(c)
  BY CountTypes DEF Counts
<1>2. CASE Take(w)
  <2>1. Bodies(c)' = Bodies(c) /\ Handling(c)' = Handling(c)
    BY <1>2, TakeMoves DEF Sources
  <2> QED
    BY <1>1, <1>2, <2>1 DEF Take, sockets, CountOf
<1>3. CASE ReadHeader(w)
  <2>1. /\ Bodies(c)' = Bodies(c) + (IF job[w].conn = c THEN 1 ELSE 0)
        /\ Handling(c)' = Handling(c)
        /\ UNCHANGED <<sent, half, handled>>
    BY <1>3, WorkerMoves DEF ReadHeader
  <2>2. CASE job[w].conn # c
    <3>1. pulled'[c] = pulled[c] /\ read'[c] = read[c]
      BY <2>2, WorkerKeeps
    <3> QED
      BY <1>1, <2>1, <2>2, <3>1 DEF CountOf, CountsAre
  <2>3. CASE job[w].conn = c
    <3>1. read[c] % 2 = 0 /\ read'[c] = read[c] + 1
      BY <1>3, <2>3 DEF ReadHeader, Shape
    <3>2. \/ read[c] < 2 * pulled[c] /\ pulled'[c] = pulled[c]
          \/ read[c] >= 2 * pulled[c] /\ pulled'[c] \in (pulled[c] + 1)..sent[c]
      <4>1. Fetch(c)
        BY <1>3, <2>3 DEF ReadHeader
      <4>2. pulled \in [Conns -> Nat] /\ (~(read[c] < 2 * pulled[c]) => read[c] >= 2 * pulled[c])
        BY <1>1 DEF Shape, CountsAre
      <4> QED
        BY <4>1, <4>2 DEF Fetch
    <3>3. read'[c] % 2 = 1 /\ read'[c] \div 2 = read[c] \div 2
      BY <1>1, <3>1, HalfStep DEF CountsAre
    <3>4. half[c] # "tls"
      BY <1>1, <3>2 DEF CountOf, CountsAre
    <3>5. pulled'[c] <= sent[c] /\ read'[c] <= 2 * pulled'[c]
      BY <1>1, <3>1, <3>2 DEF CountOf, CountsAre
    <3> QED
      BY <1>1, <2>1, <2>3, <3>1, <3>3, <3>4, <3>5 DEF CountOf, CountsAre
  <2> QED
    BY <2>2, <2>3
<1>4. CASE ReadBodyAsHeader(w)
  <2>1. UNCHANGED <<sent, half, pulled, read, handled>> /\ Unmoved(c)
    BY <1>4, JobsStay DEF ReadBodyAsHeader, sockets
  <2> QED
    BY <1>1, <2>1 DEF CountOf, Unmoved
<1>5. CASE ReadBody(w)
  <2>1. /\ Bodies(c)' = Bodies(c) - (IF job[w].conn = c THEN 1 ELSE 0)
        /\ Handling(c)' = Handling(c) + (IF job[w].conn = c THEN 1 ELSE 0)
        /\ UNCHANGED <<sent, half, pulled, handled>>
    BY <1>5, WorkerMoves DEF ReadBody
  <2>2. CASE job[w].conn # c
    <3>1. read'[c] = read[c]
      BY <2>2, WorkerKeeps
    <3> QED
      BY <1>1, <2>1, <2>2, <3>1 DEF CountOf, CountsAre
  <2>3. CASE job[w].conn = c
    <3>1. read'[c] = read[c] + 1
      BY <1>5, <2>3 DEF ReadBody, Shape
    <3>2. read[c] % 2 = 1
      <4>1. job[w].at = "body"
        BY <1>5, WorkerGoes
      <4>2. Bodies(c) >= 1
        BY <2>3, <4>1, NumberOne DEF Bodies
      <4>3. read[c] % 2 \in {0, 1}
        BY <1>1, Halves DEF CountsAre
      <4> QED
        BY <1>1, <4>2, <4>3 DEF CountOf
    <3>3. /\ read'[c] % 2 = 0 /\ read'[c] \div 2 = (read[c] \div 2) + 1
      BY <1>1, <3>1, <3>2, HalfStep DEF CountsAre
    <3>4. read[c] \div 2 \in Nat /\ read[c] = 2 * (read[c] \div 2) + 1
      BY <1>1, <3>2, Halves DEF CountsAre
    <3>5. half[c] # "tls" /\ read'[c] <= 2 * pulled[c]
      BY <1>1, <3>1, <3>4 DEF CountOf, CountsAre
    <3> QED
      BY <1>1, <2>1, <2>3, <3>2, <3>3, <3>4, <3>5 DEF CountOf, CountsAre
  <2> QED
    BY <2>2, <2>3
<1>6. CASE ReadFirstPiece(w)
  <2>1. UNCHANGED <<sent, pulled, read, handled>> /\ Unmoved(c)
    BY <1>6, JobsStay DEF ReadFirstPiece, pool
  <2>2. /\ job[w].conn # c => half'[c] = half[c]
        /\ job[w].conn = c => half[c] = "kernel" /\ read[c] = 2 * sent[c]
    BY <1>6 DEF ReadFirstPiece, Shape
  <2> QED
    BY <1>1, <2>1, <2>2 DEF CountOf, Unmoved
<1>7. CASE HandleMes(w)
  <2>1. /\ Bodies(c)' = Bodies(c)
        /\ Handling(c)' = Handling(c) - (IF job[w].conn = c THEN 1 ELSE 0)
        /\ UNCHANGED <<sent, half, pulled, read>>
    BY <1>7, WorkerMoves DEF HandleMes, sockets
  <2>2. handled'[c] = handled[c] + (IF job[w].conn = c THEN 1 ELSE 0)
    <3>1. handled' = [handled EXCEPT ![job[w].conn] = @ + 1]
      BY <1>7 DEF HandleMes
    <3> QED
      BY <1>1, <3>1 DEF Shape, CountsAre
  <2> QED
    BY <1>1, <2>1, <2>2 DEF CountOf, CountsAre
<1>8. CASE EndOfStream(w)
  <2>1. /\ Bodies(c)' = Bodies(c) /\ Handling(c)' = Handling(c)
        /\ UNCHANGED <<sent, half, pulled, read, handled>>
    BY <1>8, WorkerMoves DEF EndOfStream, sockets
  <2> QED
    BY <1>1, <2>1 DEF CountOf
<1> QED
  BY <1>2, <1>3, <1>4, <1>5, <1>6, <1>7, <1>8 DEF WorkerStep

LEMMA ClientCounts ==
  ASSUME Shape, Counts, NEW c \in Conns, ClientStep(c)
  PROVE  Counts'
<1> SUFFICES ASSUME NEW b \in Conns PROVE CountOf(b)'
  BY DEF Counts
<1>1. CountOf(b) /\ CountsAre(b)
  BY CountTypes DEF Counts
<1>2. Unmoved(b) /\ UNCHANGED <<pulled, read, handled>>
  <2>1. UNCHANGED <<job, pulled, read, handled>>
    BY DEF ClientStep, Connect, ClientAgrees, ClientDrops, SendRecord, SendFirstPiece,
           SendSecondPiece, CloseNotify, Fin, sockets, pool
  <2> QED
    BY <2>1, JobsStay
<1>3. CASE UNCHANGED <<sent, half>>
  BY <1>1, <1>2, <1>3 DEF CountOf, Unmoved
<1>4. CASE SendRecord(c)
  <2>1. /\ half' = half /\ (b # c => sent'[b] = sent[b])
        /\ b = c => sent'[b] = sent[b] + 1 /\ sent[b] < MaxMsgs[b] /\ half[b] = "none"
    BY <1>4 DEF SendRecord, MaySend, Shape
  <2> QED
    BY <1>1, <1>2, <2>1 DEF CountOf, CountsAre, Unmoved
<1>5. CASE SendFirstPiece(c)
  <2>1. /\ sent' = sent /\ (b # c => half'[b] = half[b])
        /\ b = c => sent[b] < MaxMsgs[b] /\ half'[b] = "kernel"
    BY <1>5 DEF SendFirstPiece, MaySend, Shape
  <2> QED
    BY <1>1, <1>2, <2>1 DEF CountOf, CountsAre, Unmoved
<1>6. CASE SendSecondPiece(c)
  <2>1. /\ b # c => half'[b] = half[b] /\ sent'[b] = sent[b]
        /\ b = c => half[b] # "none" /\ half'[b] = "none" /\ sent'[b] = sent[b] + 1
    BY <1>6 DEF SendSecondPiece, Shape
  <2> QED
    BY <1>1, <1>2, <2>1 DEF CountOf, CountsAre, Unmoved
<1> QED
  BY <1>3, <1>4, <1>5, <1>6 DEF ClientStep, Connect, ClientAgrees, ClientDrops,
     CloseNotify, Fin, sockets

LEMMA CountsStep == Shape /\ Fresh /\ Counts /\ [Next]_vars => Counts'
<1>1. ASSUME Counts, UNCHANGED vars PROVE Counts'
  BY <1>1, JobsStay DEF Counts, CountOf, Unmoved, vars, sockets, pool
<1> QED
  BY <1>1, MainCounts, FailCounts, WorkerCounts, ClientCounts DEF Next

-----------------------------------------------------------------------------
(* How the looks at a descriptor move.                                     *)

Looks(s)  == Count(s, events) + Count(s, tasks) + Headers(s)
Listed(s) == IF s \in ready /\ Readable(s) THEN 1 ELSE 0

LEMMA LooksType ==
  ASSUME Shape, NEW s
  PROVE  /\ Count(s, events) \in Nat /\ Count(s, tasks) \in Nat /\ Headers(s) \in Nat
         /\ Looks(s) \in Nat
         /\ Wakeups(s) = Listed(s) + Looks(s)
<1>1. Count(s, events) \in Nat /\ Count(s, tasks) \in Nat /\ Headers(s) \in Nat
  BY CountType, JobTypes DEF Shape
<1>2. Cardinality(Working(s, "header")) = Headers(s)
  BY WorkingIsNumber
<1>3. Listed(s) \in Nat /\ Wakeups(s) = Listed(s) + Count(s, events) + Count(s, tasks) + Headers(s)
  BY <1>2 DEF Listed, Wakeups
<1> QED
  BY <1>1, <1>3 DEF Looks

LEMMA LooksStay ==
  ASSUME UNCHANGED <<events, tasks, job>>, NEW s
  PROVE  Looks(s)' = Looks(s)
  BY JobsStay DEF Looks, Count, Unmoved

LEMMA MainLooks ==
  ASSUME Shape, NEW s \in Sources
  PROVE  /\ EpollWait =>
              /\ Looks(s)' = Looks(s) + (IF s \in ready' THEN 0 ELSE Listed(s))
              /\ s \in ready' => s \in ready /\ Readable(s)
         /\ Accept => Looks(s)' = Looks(s) - (IF s = Listener THEN 1 ELSE 0)
         /\ Handshake \/ HandshakeFails \/ Dispatch => Looks(s)' = Looks(s)
<1>1. ASSUME EpollWait
      PROVE  /\ Looks(s)' = Looks(s) + (IF s \in ready' THEN 0 ELSE Listed(s))
             /\ s \in ready' => s \in ready /\ Readable(s)
  <2>1. PICK R \in SUBSET {t \in ready : Readable(t)} :
           /\ IsFiniteSet(R) /\ events' \in SetToSeqs(R)
           /\ ready' = {t \in ready : Readable(t)} \ R
    BY <1>1, BatchTaken
  <2>2. Count(s, events') = IF s \in ready' THEN 0 ELSE Listed(s)
    BY <2>1, CountOnce DEF Listed
  <2>3. Count(s, events) = 0
    BY <1>1, CountEmpty DEF EpollWait
  <2>4. tasks' = tasks /\ Headers(s)' = Headers(s)
    BY <1>1, JobsStay DEF EpollWait, pool, Unmoved
  <2>5. Listed(s) \in Nat
    BY DEF Listed
  <2> QED
    BY <2>1, <2>2, <2>3, <2>4, <2>5, LooksType DEF Looks
<1>2. ASSUME Accept PROVE Looks(s)' = Looks(s) - (IF s = Listener THEN 1 ELSE 0)
  <2>1. /\ events \in Seq(Sources) /\ events # <<>> /\ Head(events) = Listener
        /\ events' = Tail(events) /\ tasks' = tasks
    BY <1>2 DEF Accept, pool, Shape
  <2>2. Count(s, events') = Count(s, events) - (IF s = Listener THEN 1 ELSE 0)
    BY <2>1, CountTail
  <2>3. Headers(s)' = Headers(s)
    BY <1>2, JobsStay DEF Accept, pool, Unmoved
  <2> QED
    BY <2>1, <2>2, <2>3, LooksType DEF Looks
<1>3. ASSUME Handshake \/ HandshakeFails PROVE Looks(s)' = Looks(s)
  BY <1>3, LooksStay DEF Handshake, HandshakeFails, pool
<1>4. ASSUME Dispatch PROVE Looks(s)' = Looks(s)
  <2>1. /\ events \in Seq(Sources) /\ events # <<>> /\ Head(events) \in Conns
        /\ tasks \in Seq(Conns)
        /\ events' = Tail(events) /\ tasks' = Append(tasks, Head(events))
    BY <1>4, TailRange DEF Dispatch, Shape, Sources
  <2>2. Count(s, events') = Count(s, events) - (IF Head(events) = s THEN 1 ELSE 0)
    BY <2>1, CountTail
  <2>3. Count(s, tasks') = Count(s, tasks) + (IF Head(events) = s THEN 1 ELSE 0)
    BY <2>1, CountAppend
  <2>4. Headers(s)' = Headers(s)
    BY <1>4, JobsStay DEF Dispatch, Unmoved
  <2> QED
    BY <2>2, <2>3, <2>4, LooksType DEF Looks
<1> QED
  BY <1>1, <1>2, <1>3, <1>4

LEMMA FailLooks ==
  ASSUME Shape, NEW s \in Sources, MainFails
  PROVE  Looks(s)' = Looks(s) - (IF s = Listener /\ ~EpollWaitFails THEN 1 ELSE 0)
<1>1. CASE EpollWaitFails
  <2>1. Looks(s)' = Looks(s)
    BY <1>1, LooksStay DEF EpollWaitFails, pool
  <2> QED
    BY <1>1, <2>1, LooksType
<1>2. CASE ~EpollWaitFails
  <2>1. /\ events \in Seq(Sources) /\ events # <<>> /\ Head(events) = Listener
        /\ events' = Tail(events) /\ tasks' = tasks /\ job' = job
    BY <1>2 DEF MainFails, AcceptFails, RegisterFails, pool, Shape
  <2>2. Count(s, events') = Count(s, events) - (IF s = Listener THEN 1 ELSE 0)
    BY <2>1, CountTail
  <2>3. Headers(s)' = Headers(s)
    BY <2>1, JobsStay DEF Unmoved
  <2> QED
    BY <1>2, <2>1, <2>2, <2>3, LooksType DEF Looks
<1> QED
  BY <1>1, <1>2

LEMMA WorkerLooks ==
  ASSUME Shape, NEW w \in Workers, NEW s \in Sources
  PROVE  /\ Take(w) => Looks(s)' = Looks(s) - (IF Head(tasks) = s /\ s \notin table THEN 1 ELSE 0)
         /\ ReadHeader(w) \/ EndOfStream(w)
              => Looks(s)' = Looks(s) - (IF job[w].conn = s THEN 1 ELSE 0)
         /\ ReadBodyAsHeader(w) \/ ReadBody(w) \/ ReadFirstPiece(w) \/ HandleMes(w)
              => Looks(s)' = Looks(s)
<1>1. ASSUME Take(w)
      PROVE  Looks(s)' = Looks(s) - (IF Head(tasks) = s /\ s \notin table THEN 1 ELSE 0)
  <2>1. events' = events /\ tasks \in Seq(Conns) /\ tasks # <<>> /\ tasks' = Tail(tasks)
    BY <1>1 DEF Take, mainVars, Shape
  <2>2. Count(s, tasks') = Count(s, tasks) - (IF Head(tasks) = s THEN 1 ELSE 0)
    BY <2>1, CountTail
  <2>3. Headers(s)' = Headers(s) + (IF Head(tasks) = s /\ s \in table THEN 1 ELSE 0)
    BY <1>1, TakeMoves
  <2> QED
    BY <2>1, <2>2, <2>3, LooksType DEF Looks
<1>2. ASSUME ReadHeader(w) \/ EndOfStream(w)
      PROVE  Looks(s)' = Looks(s) - (IF job[w].conn = s THEN 1 ELSE 0)
  <2>1. events' = events /\ tasks' = tasks
    BY <1>2 DEF ReadHeader, EndOfStream, mainVars
  <2>2. Headers(s)' = Headers(s) - (IF job[w].conn = s THEN 1 ELSE 0)
    BY <1>2, WorkerMoves
  <2> QED
    BY <2>1, <2>2, LooksType DEF Looks
<1>3. ASSUME ReadBody(w) \/ HandleMes(w) PROVE Looks(s)' = Looks(s)
  <2>1. events' = events /\ tasks' = tasks /\ Headers(s)' = Headers(s)
    BY <1>3, WorkerMoves DEF ReadBody, HandleMes, mainVars
  <2> QED
    BY <2>1 DEF Looks
<1>4. ASSUME ReadBodyAsHeader(w) \/ ReadFirstPiece(w) PROVE Looks(s)' = Looks(s)
  BY <1>4, LooksStay DEF ReadBodyAsHeader, ReadFirstPiece, mainVars, pool
<1> QED
  BY <1>1, <1>2, <1>3, <1>4

-----------------------------------------------------------------------------
(* Patient clients: there is never more under way for such a connection    *)
(* than the one message its client waits for.                              *)

UnderWay(c) ==
    Looks(c) + (IF c \in ready THEN 1 ELSE 0) + Bodies(c) + Handling(c)

PacedOf(c) ==
    /\ half[c] = "none"
    /\ shut[c] = 0 => UnderWay(c) <= sent[c] - handled[c]
    /\ sent[c] - handled[c] <= 1
    /\ shut[c] > 0 => handled[c] = sent[c]

Patience == \A c \in Paced : PacedOf(c)

LEMMA LooksInit == Init => \A s \in Sources : Looks(s) = 0 /\ s \notin ready
<1> SUFFICES ASSUME Init, NEW s \in Sources PROVE Looks(s) = 0 /\ s \notin ready
  OBVIOUS
<1>1. Count(s, events) = 0 /\ Count(s, tasks) = 0
  BY CountEmpty DEF Init
<1>2. {w \in Workers : job[w].at = "header" /\ job[w].conn = s} = {}
  BY DEF Init, Idle
<1>3. Headers(s) = 0
  BY <1>2, FS_EmptySet DEF Headers, Number
<1> QED
  BY <1>1, <1>3 DEF Looks, Init

LEMMA PatienceInit == Init => Patience
<1> SUFFICES ASSUME Init, NEW c \in Paced PROVE PacedOf(c)
  BY DEF Patience
<1>1. c \in Conns /\ c \in Sources
  BY EventLoopAssumption DEF Sources
<1>2. CountOf(c) /\ Looks(c) = 0 /\ c \notin ready
  BY <1>1, CountsInit, LooksInit DEF Counts
<1>3. sent[c] = 0 /\ read[c] = 0 /\ handled[c] = 0 /\ half[c] = "none" /\ shut[c] = 0
  BY <1>1 DEF Init
<1>4. Bodies(c) = 0 /\ Handling(c) = 0
  BY <1>2, <1>3, JobTypes DEF CountOf
<1> QED
  BY <1>2, <1>3, <1>4 DEF PacedOf, UnderWay

LEMMA MainPatience ==
  ASSUME Shape, Fresh, Counts, Patience, MainStep
  PROVE  Patience'
<1> SUFFICES ASSUME NEW c \in Paced PROVE PacedOf(c)'
  BY DEF Patience
<1>1. c \in Conns /\ c \in Sources /\ c # Listener
  BY EventLoopAssumption DEF Sources
<1>2. PacedOf(c) /\ CountsAre(c) /\ Looks(c) \in Nat /\ FreshOf(c)
  BY <1>1, CountTypes, LooksType DEF Patience, Fresh
<1>3. Bodies(c)' = Bodies(c) /\ Handling(c)' = Handling(c)
  <2>1. UNCHANGED job
    BY DEF MainStep, EpollWait, Accept, Handshake, HandshakeFails, Dispatch, pool
  <2> QED
    BY <2>1, JobsStay DEF Unmoved
<1>4. UNCHANGED <<sent, half, shut, handled>>
  BY DEF MainStep, EpollWait, Accept, Handshake, HandshakeFails, Dispatch, sockets, pool
<1>5. CASE EpollWait
  <2>1. /\ Looks(c)' = Looks(c) + (IF c \in ready' THEN 0 ELSE Listed(c))
        /\ c \in ready' => c \in ready
    BY <1>1, <1>5, MainLooks
  <2> QED
    BY <1>2, <1>3, <1>4, <2>1 DEF PacedOf, UnderWay, Listed, CountsAre
<1>6. CASE Accept
  <2>1. Looks(c)' = Looks(c)
    BY <1>1, <1>2, <1>6, MainLooks
  <2>2. shut[c] = 0 => (c \in ready' => c \in ready)
    <3>1. CASE c = Head(backlog)
      <4>1. c \in Range(backlog)
        BY <1>6, <3>1, TailRange DEF Accept, Shape
      <4>2. /\ shut[c] = 0 /\ Readable(c) => FALSE
        BY <1>1, <1>2, <4>1 DEF FreshOf, Readable, CountsAre
      <4> QED
        BY <1>6, <3>1, <4>2 DEF Accept
    <3>2. CASE c # Head(backlog)
      BY <1>6, <3>2 DEF Accept
    <3> QED
      BY <3>1, <3>2
  <2> QED
    BY <1>2, <1>3, <1>4, <2>1, <2>2 DEF PacedOf, UnderWay, CountsAre
<1>7. CASE Handshake \/ HandshakeFails \/ Dispatch
  <2>1. Looks(c)' = Looks(c) /\ ready' = ready
    BY <1>1, <1>7, MainLooks DEF Handshake, HandshakeFails, Dispatch
  <2> QED
    BY <1>2, <1>3, <1>4, <2>1 DEF PacedOf, UnderWay
<1> QED
  BY <1>5, <1>6, <1>7 DEF MainStep

LEMMA FailPatience ==
  ASSUME Shape, Patience, MainFails
  PROVE  Patience'
<1> SUFFICES ASSUME NEW c \in Paced PROVE PacedOf(c)'
  BY DEF Patience
<1>1. UNCHANGED <<sockets, pool, ready>>
  BY DEF MainFails, EpollWaitFails, AcceptFails, RegisterFails
<1>2. Bodies(c)' = Bodies(c) /\ Handling(c)' = Handling(c)
  BY <1>1, JobsStay DEF Unmoved, pool
<1>3. Looks(c)' = Looks(c)
  <2>1. c \in Sources /\ c # Listener
    BY EventLoopAssumption DEF Sources
  <2> QED
    BY <2>1, FailLooks, LooksType
<1> QED
  BY <1>1, <1>2, <1>3 DEF Patience, PacedOf, UnderWay, sockets, pool

LEMMA WorkerPatience ==
  ASSUME Shape, Counts, Patience, NEW w \in Workers, WorkerStep(w)
  PROVE  Patience'
<1> SUFFICES ASSUME NEW c \in Paced PROVE PacedOf(c)'
  BY DEF Patience
<1>1. c \in Conns /\ c \in Sources
  BY EventLoopAssumption DEF Sources
<1>2. PacedOf(c) /\ CountsAre(c) /\ Looks(c) \in Nat /\ CountOf(c)
  BY <1>1, CountTypes, LooksType DEF Patience, Counts
<1>3. UNCHANGED <<sent, shut, ready>> /\ half'[c] = half[c]
  BY <1>1, <1>2, WorkerKeeps DEF PacedOf
<1>4. CASE Take(w) \/ EndOfStream(w)
  <2>1. Looks(c)' \in {Looks(c), Looks(c) - 1}
    BY <1>1, <1>2, <1>4, WorkerLooks
  <2>2. Bodies(c)' = Bodies(c) /\ Handling(c)' = Handling(c) /\ handled' = handled
    BY <1>1, <1>4, TakeMoves, WorkerMoves DEF Take, EndOfStream
  <2> QED
    BY <1>2, <1>3, <2>1, <2>2 DEF PacedOf, UnderWay, CountsAre
<1>5. CASE ReadHeader(w)
  <2>1. /\ Looks(c)' = Looks(c) - (IF job[w].conn = c THEN 1 ELSE 0)
        /\ Bodies(c)' = Bodies(c) + (IF job[w].conn = c THEN 1 ELSE 0)
        /\ Handling(c)' = Handling(c) /\ handled' = handled
    BY <1>1, <1>5, WorkerLooks, WorkerMoves DEF ReadHeader
  <2> QED
    BY <1>2, <1>3, <2>1 DEF PacedOf, UnderWay, CountsAre
<1>6. CASE ReadBody(w)
  <2>1. /\ Looks(c)' = Looks(c) /\ handled' = handled
        /\ Bodies(c)' = Bodies(c) - (IF job[w].conn = c THEN 1 ELSE 0)
        /\ Handling(c)' = Handling(c) + (IF job[w].conn = c THEN 1 ELSE 0)
    BY <1>1, <1>6, WorkerLooks, WorkerMoves DEF ReadBody
  <2> QED
    BY <1>2, <1>3, <2>1 DEF PacedOf, UnderWay, CountsAre
<1>7. CASE ReadBodyAsHeader(w) \/ ReadFirstPiece(w)
  <2>1. Looks(c)' = Looks(c) /\ handled' = handled /\ Unmoved(c)
    BY <1>1, <1>7, WorkerLooks, JobsStay DEF ReadBodyAsHeader, ReadFirstPiece, pool
  <2> QED
    BY <1>2, <1>3, <2>1 DEF PacedOf, UnderWay, Unmoved
<1>8. CASE HandleMes(w)
  <2>1. /\ Looks(c)' = Looks(c) /\ Bodies(c)' = Bodies(c)
        /\ Handling(c)' = Handling(c) - (IF job[w].conn = c THEN 1 ELSE 0)
    BY <1>1, <1>8, WorkerLooks, WorkerMoves
  <2>2. handled'[c] = handled[c] + (IF job[w].conn = c THEN 1 ELSE 0)
    <3>1. handled' = [handled EXCEPT ![job[w].conn] = @ + 1]
      BY <1>8 DEF HandleMes
    <3> QED
      BY <1>1, <3>1 DEF Shape
  <2>3. job[w].conn = c => handled[c] < sent[c]
    <3>1. job[w].conn = c => Handling(c) >= 1
      <4>1. job[w].at = "handle"
        BY <1>8, WorkerGoes
      <4> QED
        BY <4>1, NumberOne DEF Handling
    <3>2. read[c] \div 2 \in Nat /\ 2 * (read[c] \div 2) <= read[c] /\ read[c] <= 2 * sent[c]
      <4>1. read[c] \div 2 \in Nat /\ 2 * (read[c] \div 2) <= read[c]
        BY <1>2, Halves DEF CountsAre
      <4> QED
        BY <1>2, <4>1 DEF CountOf, CountsAre
    <3> QED
      BY <1>2, <3>1, <3>2 DEF CountOf, CountsAre
  <2> QED
    BY <1>2, <1>3, <2>1, <2>2, <2>3 DEF PacedOf, UnderWay, CountsAre
<1> QED
  BY <1>4, <1>5, <1>6, <1>7, <1>8 DEF WorkerStep

LEMMA ClientPatience ==
  ASSUME Shape, Fresh, Counts, Patience, NEW c \in Conns, ClientStep(c)
  PROVE  Patience'
<1> SUFFICES ASSUME NEW b \in Paced PROVE PacedOf(b)'
  BY DEF Patience
<1>1. b \in Conns /\ b \in Sources /\ b # Listener
  BY EventLoopAssumption DEF Sources
<1>2. PacedOf(b) /\ CountsAre(b) /\ Looks(b) \in Nat /\ CountOf(b) /\ FreshOf(b)
  BY <1>1, CountTypes, LooksType DEF Patience, Counts, Fresh
<1>3. Looks(b)' = Looks(b) /\ Unmoved(b) /\ UNCHANGED handled
  <2>1. UNCHANGED <<events, tasks, job, handled>>
    BY DEF ClientStep, Connect, ClientAgrees, ClientDrops, SendRecord, SendFirstPiece,
           SendSecondPiece, CloseNotify, Fin, pool, mainVars
  <2> QED
    BY <2>1, LooksStay, JobsStay
<1>4. CASE Connect(c) \/ ClientAgrees(c)
  <2>1. UNCHANGED sockets /\ (b \in ready' <=> b \in ready)
    BY <1>1, <1>4 DEF Connect, ClientAgrees, Arrival, Edge
  <2> QED
    BY <1>2, <1>3, <2>1 DEF PacedOf, UnderWay, Unmoved, sockets
<1>5. ASSUME b # c, Edge(c), UNCHANGED <<sent[b], half[b], shut[b]>>
      PROVE  PacedOf(b)'
  <2>1. b \in ready' <=> b \in ready
    BY <1>5 DEF Edge
  <2> QED
    BY <1>2, <1>3, <1>5, <2>1 DEF PacedOf, UnderWay, Unmoved
<1>6. CASE ClientDrops(c)
  <2>1. UNCHANGED <<sent, half>> /\ Edge(c) /\ (b # c => shut'[b] = shut[b])
    BY <1>1, <1>6 DEF ClientDrops, Arrival, Shape
  <2>2. b = c => shut'[b] = 2 /\ sent[b] = 0 /\ handled[b] = 0
    <3>1. read[b] \div 2 \in Nat /\ 2 * (read[b] \div 2) <= read[b]
      BY <1>2, Halves DEF CountsAre
    <3>2. b = c => shut'[b] = 2 /\ sent[b] = 0
      BY <1>1, <1>2, <1>6 DEF ClientDrops, Shape, FreshOf
    <3> QED
      BY <1>2, <3>1, <3>2 DEF CountOf, CountsAre
  <2> QED
    BY <1>2, <1>3, <1>5, <2>1, <2>2 DEF PacedOf
<1>7. CASE SendRecord(c)
  <2>1. UNCHANGED <<half, shut>> /\ Edge(c) /\ (b # c => sent'[b] = sent[b])
    BY <1>1, <1>7 DEF SendRecord, Arrival, Shape
  <2>2. b = c => sent'[b] = sent[b] + 1 /\ handled[b] = sent[b] /\ shut[b] = 0
    BY <1>1, <1>7 DEF SendRecord, MaySend, Shape
  <2>3. b = c => PacedOf(b)'
    <3>1. UnderWay(b)' <= Looks(b) + 1 + Bodies(b) + Handling(b)
      BY <1>2, <1>3 DEF UnderWay, Unmoved, CountsAre
    <3>2. b = c => Looks(b) + Bodies(b) + Handling(b) <= 0
      BY <1>2, <2>2 DEF PacedOf, UnderWay, CountsAre
    <3>3. UnderWay(b)' \in Nat
      BY <1>2, <1>3 DEF UnderWay, Unmoved, CountsAre
    <3> QED
      BY <1>2, <1>3, <2>1, <2>2, <3>1, <3>2, <3>3 DEF PacedOf, CountsAre
  <2> QED
    BY <1>5, <2>1, <2>3
<1>8. CASE SendFirstPiece(c)
  <2>1. b # c /\ UNCHANGED <<sent, shut>> /\ Edge(c) /\ half'[b] = half[b]
    BY <1>1, <1>8 DEF SendFirstPiece, Arrival, Shape
  <2> QED
    BY <1>5, <2>1
<1>9. CASE SendSecondPiece(c)
  <2>1. b # c /\ UNCHANGED shut /\ Edge(c) /\ half'[b] = half[b] /\ sent'[b] = sent[b]
    BY <1>1, <1>2, <1>9 DEF SendSecondPiece, PacedOf, Shape
  <2> QED
    BY <1>5, <2>1
<1>10. CASE CloseNotify(c) \/ Fin(c)
  <2>1. UNCHANGED <<sent, half>> /\ Edge(c) /\ (b # c => shut'[b] = shut[b])
    BY <1>1, <1>10 DEF CloseNotify, Fin, Arrival, Shape
  <2>2. b = c => shut'[b] \in 1..2 /\ handled[b] = sent[b]
    BY <1>1, <1>2, <1>10 DEF CloseNotify, Fin, PacedOf, Shape
  <2> QED
    BY <1>2, <1>3, <1>5, <2>1, <2>2 DEF PacedOf, CountsAre
<1> QED
  BY <1>4, <1>6, <1>7, <1>8, <1>9, <1>10 DEF ClientStep

LEMMA PatienceStep == Shape /\ Fresh /\ Counts /\ Patience /\ [Next]_vars => Patience'
<1>1. ASSUME Patience, UNCHANGED vars PROVE Patience'
  BY <1>1, JobsStay, LooksStay
     DEF Patience, PacedOf, UnderWay, Unmoved, vars, sockets, pool, mainVars
<1> QED
  BY <1>1, MainPatience, FailPatience, WorkerPatience, ClientPatience DEF Next

-----------------------------------------------------------------------------
(* Edges.  A first piece owes a look as a record does: its wakeup is the   *)
(* one that the whole record will need.                                    *)

Owed(c) == Unread(c) + (IF half[c] = "none" THEN 0 ELSE 1)

Seen(c) == c \in table \/ c = hs

AwakeOf(c) == Seen(c) /\ c \notin merged => Wakeups(c) >= Owed(c)

ListenerAwake == Listener \notin merged => Wakeups(Listener) >= Len(backlog)

Awake == ListenerAwake /\ \A c \in Conns : AwakeOf(c)

OwedTyped(c) ==
    /\ c # Listener /\ c \in Sources /\ Listener \in Sources
    /\ CountsAre(c) /\ Unread(c) \in Int /\ Owed(c) \in Int
    /\ Looks(c) \in Nat /\ Wakeups(c) = Listed(c) + Looks(c) /\ Listed(c) \in 0..1

ListenerTyped ==
    /\ Len(backlog) \in Nat /\ Looks(Listener) \in Nat
    /\ Wakeups(Listener) = Listed(Listener) + Looks(Listener)
    /\ Listed(Listener) \in 0..1
    /\ Listed(Listener) = IF Listener \in ready /\ backlog # <<>> THEN 1 ELSE 0

LEMMA OwedType == Shape => ListenerTyped /\ \A c \in Conns : OwedTyped(c)
<1> SUFFICES ASSUME Shape PROVE ListenerTyped /\ \A c \in Conns : OwedTyped(c)
  OBVIOUS
<1>1. \A s : Listed(s) \in 0..1
  BY DEF Listed
<1>2. ASSUME NEW c \in Conns PROVE OwedTyped(c)
  <2>1. CountsAre(c) /\ Looks(c) \in Nat /\ Wakeups(c) = Listed(c) + Looks(c)
    BY CountTypes, LooksType
  <2>2. (read[c] + 1) \div 2 \in Nat
    BY <2>1, Halves DEF CountsAre
  <2>3. Unread(c) \in Int
    BY <2>1, <2>2 DEF CountsAre, Unread
  <2> QED
    BY <1>1, <2>1, <2>3, EventLoopAssumption DEF OwedTyped, Owed, Sources
<1>3. ListenerTyped
  <2>1. Len(backlog) \in Nat
    BY DEF Shape
  <2>2. Looks(Listener) \in Nat /\ Wakeups(Listener) = Listed(Listener) + Looks(Listener)
    BY LooksType
  <2>3. Listed(Listener) = IF Listener \in ready /\ backlog # <<>> THEN 1 ELSE 0
    BY DEF Listed, Readable
  <2> QED
    BY <1>1, <2>1, <2>2, <2>3 DEF ListenerTyped
<1> QED
  BY <1>2, <1>3

LEMMA OwedTypeNext == (Shape => ListenerTyped /\ \A c \in Conns : OwedTyped(c))'
  BY OwedType, PTL

LEMMA OwedTypes ==
  ASSUME Shape, Shape'
  PROVE  /\ ListenerTyped /\ ListenerTyped'
         /\ \A c \in Conns : OwedTyped(c) /\ OwedTyped(c)'
  BY OwedType, OwedTypeNext

LEMMA AwakeInit == Init => Awake
<1> SUFFICES ASSUME Init PROVE Awake
  OBVIOUS
<1>1. Shape
  BY ShapeInit
<1>2. ListenerAwake
  <2>1. Len(backlog) = 0
    BY DEF Init
  <2> QED
    BY <1>1, <2>1, OwedType DEF ListenerAwake, ListenerTyped
<1>3. \A c \in Conns : ~Seen(c)
  BY EventLoopAssumption DEF Init, Seen
<1> QED
  BY <1>2, <1>3 DEF Awake, AwakeOf

LEMMA MainAwake ==
  ASSUME Shape, Shape', Fresh, Counts, Awake, MainStep
  PROVE  Awake'
<1>1. UNCHANGED <<sent, half, shut, read, noticed>>
  BY DEF MainStep, EpollWait, Accept, Handshake, HandshakeFails, Dispatch, sockets, pool
<1>2. \A c \in Conns : Owed(c)' = Owed(c)
  BY <1>1 DEF Owed, Unread
<1> USE OwedTypes DEF OwedTyped, ListenerTyped
<1>3. CASE EpollWait
  <2>1. UNCHANGED <<hs, table, merged, backlog, pulled>>
    BY <1>3 DEF EpollWait, sockets
  <2>2. ASSUME NEW s \in Sources
        PROVE  /\ Looks(s)' = Looks(s) + (IF s \in ready' THEN 0 ELSE Listed(s))
               /\ Listed(s)' = IF s \in ready' THEN Listed(s) ELSE 0
    <3>1. Readable(s)' <=> Readable(s)
      BY <1>1, <2>1 DEF Readable
    <3> QED
      BY <1>3, <3>1, MainLooks DEF Listed
  <2>3. ListenerAwake'
    BY <2>1, <2>2 DEF Awake, ListenerAwake, Sources
  <2>4. ASSUME NEW c \in Conns PROVE AwakeOf(c)'
    BY <1>2, <2>1, <2>2 DEF Awake, AwakeOf, Seen
  <2> QED
    BY <2>3, <2>4 DEF Awake
<1>4. CASE Accept
  <2> DEFINE h == Head(backlog)
  <2>1. /\ h \in Conns /\ h \in Range(backlog) /\ Len(Tail(backlog)) = Len(backlog) - 1
        /\ Tail(backlog) # <<>> => backlog # <<>>
        /\ Len(backlog) \in Nat \ {0}
        /\ Tail(backlog) = <<>> => Len(Tail(backlog)) = 0
    <3>1. backlog \in Seq(Conns) /\ backlog # <<>>
      BY <1>4 DEF Accept, Shape
    <3> QED
      BY <3>1, TailRange, HeadTailProperties, EmptySeq, LenProperties
  <2>2. /\ hs = NoConn /\ hs' = h /\ backlog' = Tail(backlog) /\ backlog # <<>>
        /\ ready' = IF Readable(h) THEN ready \cup {h} ELSE ready
        /\ UNCHANGED <<pulled, table, merged>>
    BY <1>4 DEF Accept, sockets
  <2> HIDE DEF h
  <2>3. \A s \in Sources : Looks(s)' = Looks(s) - (IF s = Listener THEN 1 ELSE 0)
    BY <1>4, MainLooks
  <2>4. ListenerAwake'
    <3>1. Listener \in ready' <=> Listener \in ready
      BY <2>1, <2>2, EventLoopAssumption
    <3>2. Looks(Listener)' = Looks(Listener) - 1
      BY <2>3 DEF Sources
    <3>3. CASE Tail(backlog) = <<>>
      BY <2>1, <2>2, <3>3 DEF ListenerAwake
    <3>4. CASE Tail(backlog) # <<>>
      <4>1. Listed(Listener)' = Listed(Listener)
        BY <2>1, <2>2, <3>1, <3>4
      <4> QED
        BY <2>1, <2>2, <3>2, <4>1 DEF Awake, ListenerAwake
    <3> QED
      BY <3>3, <3>4
  <2>5. ASSUME NEW c \in Conns PROVE AwakeOf(c)'
    <3>1. Readable(c)' <=> Readable(c)
      BY <1>1, <2>2 DEF Readable
    <3>2. Looks(c)' = Looks(c)
      BY <2>3
    <3>3. CASE c = h
      <4>1. sent[c] = 0 /\ half[c] = "none" /\ read[c] = 0
        <5>1. FreshOf(c) /\ c \in Range(backlog)
          BY <2>1, <3>3 DEF Fresh
        <5> QED
          BY <5>1 DEF FreshOf, Waits, Quiet
      <4>2. Owed(c) <= IF shut[c] > 0 THEN 1 ELSE 0
        <5>1. (0 + 1) \div 2 = 0
          OBVIOUS
        <5> QED
          BY <4>1, <5>1 DEF Owed, Unread
      <4>3. shut[c] > 0 => Listed(c)' = 1
        BY <2>2, <3>1, <3>3 DEF Listed, Readable
      <4> QED
        BY <1>2, <4>2, <4>3 DEF AwakeOf
    <3>4. CASE c # h
      <4>1. Listed(c)' = Listed(c)
        BY <2>2, <3>1, <3>4 DEF Listed
      <4>2. Seen(c)' <=> Seen(c)
        BY <2>2, <3>4, EventLoopAssumption DEF Seen
      <4> QED
        BY <1>2, <2>2, <3>2, <4>1, <4>2 DEF Awake, AwakeOf
    <3> QED
      BY <3>3, <3>4
  <2> QED
    BY <2>4, <2>5 DEF Awake
<1>5. CASE Handshake \/ HandshakeFails
  <2>1. /\ hs \in Conns /\ hs' = NoConn /\ table' = table \cup {hs} /\ merged \subseteq merged'
        /\ merged' \subseteq merged \cup {hs}
        /\ UNCHANGED <<backlog, ready>>
    BY <1>5 DEF Handshake, HandshakeFails, Shape
  <2>2. \A s \in Sources : Looks(s)' = Looks(s)
    BY <1>5, MainLooks
  <2>3. \A c \in Conns : c \notin merged' => pulled'[c] = pulled[c]
    <3>1. CASE Handshake
      <4>1. PICK k \in 0..sent[hs] : /\ pulled' = [pulled EXCEPT ![hs] = k]
                                     /\ merged' = IF k > 0 THEN merged \cup {hs} ELSE merged
        BY <3>1 DEF Handshake
      <4>2. pulled[hs] = 0
        BY <2>1 DEF Fresh, FreshOf, Waits, Quiet
      <4>3. hs \notin merged' => k = 0
        BY <2>1, <4>1 DEF Shape
      <4> QED
        BY <4>1, <4>2, <4>3 DEF Shape
    <3>2. CASE HandshakeFails
      BY <3>2 DEF HandshakeFails, sockets
    <3> QED
      BY <1>5, <3>1, <3>2
  <2>4. ListenerAwake'
    <3>1. Listener # hs
      BY <2>1, EventLoopAssumption
    <3>2. Listed(Listener)' = Listed(Listener)
      BY <2>1
    <3> QED
      BY <2>1, <2>2, <3>1, <3>2 DEF Awake, ListenerAwake, Sources
  <2>5. ASSUME NEW c \in Conns, c \notin merged' PROVE Wakeups(c)' = Wakeups(c)
    <3>1. Listed(c)' = Listed(c)
      BY <1>1, <2>1, <2>3, <2>5 DEF Listed, Readable
    <3> QED
      BY <2>2, <3>1
  <2>6. \A c \in Conns : Seen(c)' <=> Seen(c)
    BY <2>1, EventLoopAssumption DEF Seen
  <2> QED
    BY <1>2, <2>1, <2>4, <2>5, <2>6 DEF Awake, AwakeOf
<1>6. CASE Dispatch
  <2>1. UNCHANGED <<sockets, backlog, hs, table, ready, merged>>
    BY <1>6 DEF Dispatch
  <2>2. \A s \in Sources : Looks(s)' = Looks(s)
    BY <1>6, MainLooks
  <2>3. \A s \in Sources : Listed(s)' = Listed(s)
    BY <2>1 DEF Listed, Readable, sockets
  <2>4. ListenerAwake'
    BY <2>1, <2>2, <2>3 DEF Awake, ListenerAwake, Sources
  <2>5. ASSUME NEW c \in Conns PROVE AwakeOf(c)'
    BY <1>2, <2>1, <2>2, <2>3 DEF Awake, AwakeOf, Seen
  <2> QED
    BY <2>4, <2>5 DEF Awake
<1> QED
  BY <1>3, <1>4, <1>5, <1>6 DEF MainStep

LEMMA RegisterFailsAwake ==
  ASSUME Shape, Shape', Awake, RegisterFails, ~EpollWaitFails
  PROVE  ListenerAwake'
<1>1. /\ backlog \in Seq(Conns) /\ backlog # <<>> /\ backlog' = Tail(backlog)
      /\ merged' = merged /\ ready' = ready
  BY DEF RegisterFails, Shape
<1>2. PICK n \in Nat : Len(backlog) = n + 1 /\ Len(backlog') = n /\ (backlog' = <<>> => n = 0)
  <2>1. /\ Len(backlog') = Len(backlog) - 1 /\ (backlog' = <<>> => Len(backlog') = 0)
        /\ Len(backlog) \in Nat \ {0}
    BY <1>1, TailRange, HeadTailProperties, EmptySeq, LenProperties
  <2> QED
    BY <2>1
<1>3. PICK l \in 0..1, k \in Nat :
         l = Listed(Listener) /\ k = Looks(Listener) /\ Wakeups(Listener) = l + k
  BY OwedTypes DEF ListenerTyped
<1>4. PICK l2 \in 0..1, k2 \in Nat :
         l2 = Listed(Listener)' /\ k2 = Looks(Listener)' /\ Wakeups(Listener)' = l2 + k2
  BY OwedTypes DEF ListenerTyped
<1>5. k2 = k - 1
  BY <1>3, <1>4, FailLooks DEF Sources, MainFails
<1>6. backlog' # <<>> => l2 = l
  BY <1>1, <1>3, <1>4 DEF Listed, Readable
<1>7. Listener \notin merged => l + k >= n + 1
  BY <1>2, <1>3 DEF Awake, ListenerAwake
<1>8. Listener \notin merged => l2 + k2 >= n
  BY <1>2, <1>3, <1>4, <1>5, <1>6, <1>7
<1> QED
  BY <1>1, <1>2, <1>4, <1>8 DEF ListenerAwake

LEMMA FailAwake ==
  ASSUME Shape, Shape', Awake, MainFails
  PROVE  Awake'
<1> USE OwedTypes DEF OwedTyped, ListenerTyped
<1>1. UNCHANGED <<sockets, noticed, hs, table, ready>> /\ merged \subseteq merged'
  BY DEF MainFails, EpollWaitFails, AcceptFails, RegisterFails, pool
<1>2. \A s \in Sources :
         Looks(s)' = Looks(s) - (IF s = Listener /\ ~EpollWaitFails THEN 1 ELSE 0)
  BY FailLooks
<1>3. ASSUME NEW c \in Conns PROVE AwakeOf(c)'
  <2>1. Owed(c)' = Owed(c) /\ Listed(c)' = Listed(c) /\ (Seen(c)' <=> Seen(c))
    BY <1>1, EventLoopAssumption DEF Owed, Unread, Listed, Readable, Seen, sockets
  <2>2. Looks(c)' = Looks(c)
    BY <1>2
  <2> QED
    BY <1>1, <2>1, <2>2 DEF Awake, AwakeOf
<1>4. ListenerAwake'
  <2>1. CASE EpollWaitFails
    <3>1. UNCHANGED <<backlog, merged>> /\ Listed(Listener)' = Listed(Listener)
      BY <1>1, <2>1 DEF EpollWaitFails
    <3>2. Looks(Listener)' = Looks(Listener)
      BY <1>2, <2>1 DEF Sources
    <3> QED
      BY <3>1, <3>2 DEF Awake, ListenerAwake
  <2>2. CASE AcceptFails
    BY <2>2 DEF AcceptFails, ListenerAwake
  <2>3. CASE RegisterFails /\ ~EpollWaitFails
    BY <2>3, RegisterFailsAwake
  <2> QED
    BY <2>1, <2>2, <2>3 DEF MainFails
<1> QED
  BY <1>3, <1>4 DEF Awake

LEMMA RoundUp ==
  ASSUME NEW n \in Nat
  PROVE  /\ n % 2 = 0 => /\ (n + 1) \div 2 = n \div 2 /\ n \div 2 \in Nat
                         /\ ((n + 1) + 1) \div 2 = (n \div 2) + 1
                         /\ n = 2 * (n \div 2)
         /\ n % 2 = 1 => ((n + 1) + 1) \div 2 = (n + 1) \div 2
         /\ (2 * n + 1) \div 2 = n
  OBVIOUS

LEMMA WorkerAwake ==
  ASSUME Shape, Shape', Fresh, Counts, Awake, NEW w \in Workers, WorkerStep(w)
  PROVE  Awake'
<1>1. ListenerAwake'
  <2>1. Looks(Listener)' = Looks(Listener)
    <3> Looks(Listener) \in Nat /\ Listener \in Sources
      BY OwedTypes DEF ListenerTyped, Sources
    <3>1. CASE Take(w)
      <4>1. Head(tasks) # Listener
        BY <3>1, TakeMoves, EventLoopAssumption
      <4> QED
        BY <3>1, <4>1, WorkerLooks
    <3>2. CASE ReadHeader(w) \/ EndOfStream(w)
      <4>1. job[w].conn # Listener
        BY <3>2, WorkerGoes, EventLoopAssumption
      <4> QED
        BY <3>2, <4>1, WorkerLooks
    <3> QED
      BY <3>1, <3>2, WorkerLooks DEF WorkerStep
  <2>2. UNCHANGED <<ready, backlog>>
    BY WorkerKeeps
  <2>3. merged \subseteq merged'
    BY DEF WorkerStep, Take, ReadHeader, Fetch, ReadBodyAsHeader, ReadBody, ReadFirstPiece,
           HandleMes, EndOfStream
  <2> QED
    BY <2>1, <2>2, <2>3, OwedTypes DEF Awake, ListenerAwake, ListenerTyped
<1>2. ASSUME NEW c \in Conns PROVE AwakeOf(c)'
  <2>1. /\ AwakeOf(c) /\ CountOf(c) /\ FreshOf(c)
        /\ c # Listener /\ c \in Sources
        /\ sent[c] \in Nat /\ pulled[c] \in Nat /\ read[c] \in Nat
        /\ half[c] \in {"none", "kernel", "tls"} /\ shut[c] \in 0..2
        /\ Unread(c) \in Int /\ Owed(c) \in Int /\ Owed(c)' \in Int
        /\ Looks(c) \in Nat /\ Wakeups(c) = Listed(c) + Looks(c) /\ Listed(c) \in 0..1
        /\ Looks(c)' \in Nat /\ Wakeups(c)' = Listed(c)' + Looks(c)' /\ Listed(c)' \in 0..1
    BY OwedTypes DEF Awake, Counts, Fresh, OwedTyped, CountsAre
  <2>2. UNCHANGED <<hs, sent, shut, ready>> /\ (Seen(c)' => Seen(c))
    BY WorkerKeeps DEF Seen
  \* A connection that main has in its handshake has no worker.
  <2>3. c \in table \/ (Seen(c) => c \notin Range(tasks) /\ \A v \in Workers : job[v].conn # c)
    BY <2>1 DEF FreshOf, Quiet, Seen, Waits
  <2>4. ASSUME UNCHANGED <<half, pulled, read, noticed, merged>>, Looks(c)' = Looks(c)
        PROVE  AwakeOf(c)'
    <3>1. Owed(c)' = Owed(c) /\ Listed(c)' = Listed(c)
      BY <2>1, <2>2, <2>4 DEF Owed, Unread, Listed, Readable
    <3> QED
      BY <2>1, <2>2, <2>4, <3>1 DEF AwakeOf
  <2>5. CASE Take(w)
    <3>1. UNCHANGED <<half, pulled, read, noticed, merged>>
      BY <2>5 DEF Take, sockets
    <3>2. Head(tasks) \in Range(tasks)
      BY <2>5, TailRange DEF Take, Shape
    <3>3. Seen(c) => Looks(c)' = Looks(c)
      BY <2>1, <2>3, <2>5, <3>2, WorkerLooks
    <3>4. CASE Seen(c)
      BY <2>4, <3>1, <3>3, <3>4
    <3>5. CASE ~Seen(c)
      BY <2>2, <3>5 DEF AwakeOf
    <3> QED
      BY <3>4, <3>5
  <2>6. CASE ReadHeader(w)
    <3>1. /\ Looks(c)' = Looks(c) - (IF job[w].conn = c THEN 1 ELSE 0)
          /\ UNCHANGED <<half, noticed>>
      BY <2>1, <2>6, WorkerLooks DEF ReadHeader
    <3>2. c \notin merged' => c \notin merged
      BY <2>6 DEF ReadHeader, Fetch
    <3>3. CASE job[w].conn # c
      <4>1. pulled'[c] = pulled[c] /\ read'[c] = read[c]
        BY <3>3, WorkerKeeps
      <4>2. Owed(c)' = Owed(c) /\ Listed(c)' = Listed(c)
        BY <2>1, <2>2, <3>1, <4>1 DEF Owed, Unread, Listed, Readable
      <4> QED
        BY <2>1, <2>2, <3>1, <3>2, <3>3, <4>2 DEF AwakeOf
    <3>4. CASE job[w].conn = c
      <4>1. read[c] % 2 = 0 /\ read'[c] = read[c] + 1
        BY <2>6, <3>4 DEF ReadHeader, Shape
      <4>2. \/ read[c] < 2 * pulled[c] /\ pulled'[c] = pulled[c]
            \/ /\ read[c] = 2 * pulled[c] /\ pulled'[c] \in (pulled[c] + 1)..sent[c]
               /\ pulled'[c] > pulled[c] + 1 /\ c \in ready => c \in merged'
        <5>1. Fetch(c)
          BY <2>6, <3>4 DEF ReadHeader
        <5>2. ~(read[c] < 2 * pulled[c]) => read[c] = 2 * pulled[c]
          BY <2>1 DEF CountOf
        <5> QED
          BY <5>1, <5>2 DEF Fetch, Shape
      <4>3. /\ (read[c] + 1) \div 2 = read[c] \div 2
            /\ (read'[c] + 1) \div 2 = (read[c] \div 2) + 1
            /\ read[c] \div 2 \in Nat /\ read[c] = 2 * (read[c] \div 2)
        <5> QED
          BY <2>1, <4>1, RoundUp
      <4>4. Owed(c)' = Owed(c) - 1
        BY <2>1, <2>2, <3>1, <4>3 DEF Owed, Unread
      <4>5. CASE Listed(c)' >= Listed(c)
        BY <2>1, <2>2, <3>1, <3>2, <3>4, <4>4, <4>5 DEF AwakeOf
      <4>6. CASE Listed(c)' < Listed(c) /\ c \notin merged'
        <5>1. c \in ready /\ Readable(c) /\ ~Readable(c)'
          BY <2>1, <2>2, <4>6 DEF Listed
        <5>2. /\ pulled'[c] # pulled[c] /\ sent[c] <= pulled'[c] /\ shut[c] = 0
              /\ half[c] # "kernel"
          BY <2>1, <2>2, <3>1, <4>2, <5>1 DEF Readable
        <5>3. read[c] = 2 * pulled[c] /\ sent[c] = pulled[c] + 1
          BY <2>1, <4>2, <4>6, <5>1, <5>2
        <5>4. half[c] = "none"
          BY <2>1, <5>2, <5>3 DEF CountOf
        <5>5. (2 * pulled[c] + 1) \div 2 = pulled[c]
          BY <2>1, RoundUp
        <5>6. Owed(c) = 1
          BY <2>1, <5>2, <5>3, <5>4, <5>5 DEF Owed, Unread
        <5> QED
          BY <2>1, <4>4, <5>6 DEF AwakeOf
      <4>7. CASE c \in merged'
        BY <4>7 DEF AwakeOf
      <4> QED
        BY <2>1, <4>5, <4>6, <4>7
    <3> QED
      BY <3>3, <3>4
  <2>7. CASE ReadBodyAsHeader(w) \/ HandleMes(w)
    <3>1. Looks(c)' = Looks(c) /\ UNCHANGED <<half, pulled, read, noticed, merged>>
      BY <2>1, <2>7, WorkerLooks DEF ReadBodyAsHeader, HandleMes, sockets
    <3> QED
      BY <2>4, <3>1
  <2>8. CASE ReadBody(w)
    <3>1. Looks(c)' = Looks(c) /\ UNCHANGED <<half, pulled, noticed, merged>>
      BY <2>1, <2>8, WorkerLooks DEF ReadBody
    <3>2. (read'[c] + 1) \div 2 = (read[c] + 1) \div 2
      <4>1. CASE job[w].conn # c
        BY <4>1, WorkerKeeps
      <4>2. CASE job[w].conn = c
        <5>1. read'[c] = read[c] + 1
          BY <2>8, <4>2 DEF ReadBody, Shape
        <5>2. read[c] % 2 = 1
          <6>1. job[w].at = "body"
            BY <2>8, WorkerGoes
          <6>2. Bodies(c) >= 1
            BY <4>2, <6>1, NumberOne DEF Bodies
          <6>3. read[c] % 2 \in {0, 1}
            BY <2>1, Halves
          <6> QED
            BY <2>1, <6>2, <6>3 DEF CountOf
        <5> QED
          BY <2>1, <5>1, <5>2, RoundUp
      <4> QED
        BY <4>1, <4>2
    <3>3. Owed(c)' = Owed(c) /\ Listed(c)' = Listed(c)
      BY <2>1, <2>2, <3>1, <3>2 DEF Owed, Unread, Listed, Readable
    <3> QED
      BY <2>1, <2>2, <3>1, <3>3 DEF AwakeOf
  <2>9. CASE ReadFirstPiece(w)
    <3>1. Looks(c)' = Looks(c) /\ UNCHANGED <<pulled, read, noticed, merged>>
      BY <2>1, <2>9, WorkerLooks DEF ReadFirstPiece, pool
    <3>2. CASE job[w].conn # c
      <4>1. half'[c] = half[c]
        BY <2>9, <3>2 DEF ReadFirstPiece, Shape
      <4>2. Owed(c)' = Owed(c) /\ Listed(c)' = Listed(c)
        BY <2>1, <2>2, <3>1, <4>1 DEF Owed, Unread, Listed, Readable
      <4> QED
        BY <2>1, <2>2, <3>1, <4>2 DEF AwakeOf
    \* The worker that waits for the rest of the record is the look it owes.
    <3>3. CASE job[w].conn = c
      <4>1. /\ At(w, "header") /\ read[c] = 2 * sent[c] /\ half[c] = "kernel"
            /\ half'[c] = "tls" /\ shut[c] = 0
        BY <2>1, <2>9, <3>3 DEF ReadFirstPiece, Shape, FreshOf
      <4>2. (2 * sent[c] + 1) \div 2 = sent[c]
        BY <2>1, RoundUp
      <4>3. Owed(c)' = 1
        BY <2>1, <2>2, <3>1, <4>1, <4>2 DEF Owed, Unread
      <4>4. Headers(c) >= 1
        BY <3>3, <4>1, NumberOne DEF Headers, At
      <4>5. Looks(c) >= 1
        BY <4>4, LooksType DEF Looks
      <4> QED
        BY <2>1, <3>1, <4>3, <4>5 DEF AwakeOf
    <3> QED
      BY <3>2, <3>3
  <2>10. CASE EndOfStream(w)
    <3>1. /\ Looks(c)' = Looks(c) - (IF job[w].conn = c THEN 1 ELSE 0)
          /\ UNCHANGED <<half, pulled, read, merged>> /\ noticed' = noticed \cup {job[w].conn}
      BY <2>1, <2>10, WorkerLooks DEF EndOfStream, sockets
    <3>2. CASE job[w].conn # c
      <4>1. Owed(c)' = Owed(c) /\ Listed(c)' = Listed(c)
        BY <2>1, <2>2, <3>1, <3>2 DEF Owed, Unread, Listed, Readable
      <4> QED
        BY <2>1, <2>2, <3>1, <3>2, <4>1 DEF AwakeOf
    <3>3. CASE job[w].conn = c
      <4>1. read[c] = 2 * sent[c] /\ half[c] = "none" /\ c \in noticed'
        BY <2>1, <2>10, <3>1, <3>3 DEF EndOfStream, FreshOf
      <4>2. (2 * sent[c] + 1) \div 2 = sent[c]
        BY <2>1, RoundUp
      <4>3. Owed(c)' = 0
        BY <2>1, <2>2, <3>1, <4>1, <4>2 DEF Owed, Unread
      <4> QED
        BY <2>1, <4>3 DEF AwakeOf
    <3> QED
      BY <3>2, <3>3
  <2> QED
    BY <2>5, <2>6, <2>7, <2>8, <2>9, <2>10 DEF WorkerStep
<1> QED
  BY <1>1, <1>2 DEF Awake

LEMMA ClientAwake ==
  ASSUME Shape, Shape', Fresh, Counts, Awake, NEW c \in Conns, ClientStep(c)
  PROVE  Awake'
<1>1. /\ UNCHANGED <<events, tasks, job, hs, table, pulled, read, noticed>>
      /\ merged \subseteq merged'
  BY DEF ClientStep, Connect, ClientAgrees, ClientDrops, SendRecord, SendFirstPiece,
         SendSecondPiece, CloseNotify, Fin, Arrival, sockets, pool, mainVars
<1>2. \A s : Looks(s)' = Looks(s)
  BY <1>1, LooksStay
<1>3. /\ Listener \in Sources /\ c # Listener /\ c \in Sources
      /\ Len(backlog) \in Nat /\ Looks(Listener) \in Nat
      /\ Wakeups(Listener) = Listed(Listener) + Looks(Listener)
      /\ Wakeups(Listener)' = Listed(Listener)' + Looks(Listener)'
      /\ Listed(Listener) = IF Listener \in ready /\ backlog # <<>> THEN 1 ELSE 0
      /\ Listed(Listener)' = IF Listener \in ready' /\ backlog' # <<>> THEN 1 ELSE 0
  BY OwedTypes DEF ListenerTyped, OwedTyped
<1>4. ListenerAwake'
  <2>1. CASE Connect(c)
    <3>1. /\ backlog' = Append(backlog, c) /\ Arrival(Listener)
      BY <2>1 DEF Connect
    <3>2. backlog' # <<>> /\ Len(backlog') = Len(backlog) + 1
      <4>1. backlog \in Seq(Conns)
        BY DEF Shape
      <4>2. Len(Append(backlog, c)) = Len(backlog) + 1
        BY <4>1, AppendProperties
      <4> QED
        BY <1>3, <3>1, <4>2
    <3>3. /\ Listener \in ready'
          /\ Listener \notin merged' => Listener \notin merged /\ Listed(Listener) = 0
      BY <1>3, <3>1 DEF Arrival, Edge, Watched, Readable
    <3> QED
      BY <1>2, <1>3, <3>2, <3>3 DEF Awake, ListenerAwake
  <2>2. CASE ~Connect(c)
    <3>1. backlog' = backlog /\ (Listener \in ready' <=> Listener \in ready)
      BY <1>3, <2>2 DEF ClientStep, ClientAgrees, ClientDrops, SendRecord, SendFirstPiece,
         SendSecondPiece, CloseNotify, Fin, Arrival, Edge, mainVars
    <3> QED
      BY <1>1, <1>2, <1>3, <3>1 DEF Awake, ListenerAwake
  <2> QED
    BY <2>1, <2>2
<1>5. ASSUME NEW b \in Conns PROVE AwakeOf(b)'
  <2>1. /\ AwakeOf(b) /\ CountOf(b) /\ FreshOf(b)
        /\ b # Listener /\ b \in Sources
        /\ sent[b] \in Nat /\ pulled[b] \in Nat /\ read[b] \in Nat
        /\ half[b] \in {"none", "kernel", "tls"} /\ shut[b] \in 0..2
        /\ Unread(b) \in Int /\ Owed(b) \in Int /\ Owed(b)' \in Int
        /\ Looks(b) \in Nat /\ Wakeups(b) = Listed(b) + Looks(b) /\ Listed(b) \in 0..1
        /\ Wakeups(b)' = Listed(b)' + Looks(b)' /\ Listed(b)' \in 0..1
    BY OwedTypes DEF Awake, Counts, Fresh, OwedTyped, CountsAre
  <2>2. (Seen(b)' <=> Seen(b)) /\ Looks(b)' = Looks(b) /\ (b \in merged => b \in merged')
    BY <1>1, <1>2 DEF Seen
  <2>3. PICK r : r = (read[b] + 1) \div 2
    OBVIOUS
  <2>4. /\ Owed(b) = (sent[b] - r + (IF shut[b] > 0 /\ b \notin noticed THEN 1 ELSE 0))
                        + (IF half[b] = "none" THEN 0 ELSE 1)
        /\ Owed(b)' = (sent'[b] - r + (IF shut'[b] > 0 /\ b \notin noticed THEN 1 ELSE 0))
                        + (IF half'[b] = "none" THEN 0 ELSE 1)
        /\ r \in Int
    <3>1. r \in Int
      BY <2>1, <2>3, Halves
    <3> QED
      BY <1>1, <2>3, <3>1 DEF Owed, Unread
  <2>5. ASSUME UNCHANGED <<sent[b], half[b], shut[b]>>, b \in ready' <=> b \in ready
        PROVE  AwakeOf(b)'
    <3>1. Owed(b)' = Owed(b) /\ Listed(b)' = Listed(b)
      BY <1>1, <2>1, <2>4, <2>5 DEF Listed, Readable
    <3> QED
      BY <2>1, <2>2, <3>1 DEF AwakeOf
  <2>6. CASE Connect(c) \/ ClientAgrees(c)
    <3>1. UNCHANGED sockets /\ (b \in ready' <=> b \in ready)
      BY <2>1, <2>6 DEF Connect, ClientAgrees, Arrival, Edge
    <3> QED
      BY <2>5, <3>1 DEF sockets
  <2>7. CASE b # c /\ ~Connect(c) /\ ~ClientAgrees(c)
    <3>1. Edge(c)
      BY <2>7 DEF ClientStep, ClientDrops, SendRecord, SendFirstPiece,
         SendSecondPiece, CloseNotify, Fin, Arrival
    <3>2. UNCHANGED <<sent[b], half[b], shut[b]>>
      BY <2>7 DEF ClientStep, ClientDrops, SendRecord, SendFirstPiece,
         SendSecondPiece, CloseNotify, Fin, Shape
    <3>3. b \in ready' <=> b \in ready
      BY <2>7, <3>1 DEF Edge
    <3> QED
      BY <2>5, <3>2, <3>3
  \* What arrives needs one more look, and brings it.
  <2>8. ASSUME Arrival(b), Seen(b), Readable(b)', Owed(b)' <= Owed(b) + 1
        PROVE  AwakeOf(b)'
    <3>1. Listed(b)' = 1 /\ (b \notin merged' => Listed(b) = 0)
      BY <2>1, <2>8 DEF Arrival, Edge, Watched, Seen, Listed
    <3> QED
      BY <2>1, <2>2, <2>8, <3>1 DEF AwakeOf
  <2>9. ASSUME Edge(b), Seen(b), Readable(b)', Owed(b)' <= Owed(b)
        PROVE  AwakeOf(b)'
    <3>1. Listed(b)' = 1
      BY <2>9 DEF Edge, Watched, Seen, Listed
    <3> QED
      BY <2>1, <2>2, <2>9, <3>1 DEF AwakeOf
  <2>10. CASE ~Seen(b)
    BY <2>2, <2>10 DEF AwakeOf
  <2>11. CASE b = c /\ Seen(b) /\ (ClientDrops(c) \/ CloseNotify(c))
    <3>1. /\ Arrival(b) /\ UNCHANGED <<sent, half>> /\ shut'[b] \in 1..2
      BY <2>11 DEF ClientDrops, CloseNotify, Shape
    <3>2. Readable(b)' /\ Owed(b)' <= Owed(b) + 1
      BY <2>1, <2>4, <3>1 DEF Readable
    <3> QED
      BY <2>8, <2>11, <3>1, <3>2
  <2>12. CASE b = c /\ Seen(b) /\ SendRecord(c)
    <3>1. /\ Arrival(b) /\ UNCHANGED <<half, shut>> /\ sent'[b] = sent[b] + 1
      BY <2>12 DEF SendRecord, Shape
    <3>2. Readable(b)' /\ Owed(b)' <= Owed(b) + 1
      BY <1>1, <2>1, <2>4, <3>1 DEF Readable, CountOf
    <3> QED
      BY <2>8, <2>12, <3>1, <3>2
  <2>13. CASE b = c /\ Seen(b) /\ SendFirstPiece(c)
    <3>1. /\ Arrival(b) /\ UNCHANGED <<sent, shut>> /\ half[b] = "none" /\ half'[b] = "kernel"
      BY <2>13 DEF SendFirstPiece, Shape
    <3>2. Readable(b)' /\ Owed(b)' <= Owed(b) + 1
      BY <1>1, <2>1, <2>4, <3>1 DEF Readable
    <3> QED
      BY <2>8, <2>13, <3>1, <3>2
  <2>14. CASE b = c /\ Seen(b) /\ SendSecondPiece(c)
    <3>1. /\ Edge(b) /\ UNCHANGED shut /\ half[b] # "none" /\ half'[b] = "none"
          /\ sent'[b] = sent[b] + 1
      BY <2>14 DEF SendSecondPiece, Shape
    <3>2. Readable(b)' /\ Owed(b)' <= Owed(b)
      BY <1>1, <2>1, <2>4, <3>1 DEF Readable, CountOf
    <3> QED
      BY <2>9, <2>14, <3>1, <3>2
  <2>15. CASE b = c /\ Seen(b) /\ Fin(c)
    <3>1. /\ Edge(b) /\ UNCHANGED <<sent, half>> /\ shut[b] = 1 /\ shut'[b] = 2
      BY <2>15 DEF Fin, Shape
    <3>2. Readable(b)' /\ Owed(b)' <= Owed(b)
      BY <2>1, <2>4, <3>1 DEF Readable
    <3> QED
      BY <2>9, <2>15, <3>1, <3>2
  <2> QED
    BY <2>6, <2>7, <2>10, <2>11, <2>12, <2>13, <2>14, <2>15 DEF ClientStep
<1> QED
  BY <1>4, <1>5 DEF Awake

LEMMA AwakeStep == Shape /\ Shape' /\ Fresh /\ Counts /\ Awake /\ [Next]_vars => Awake'
<1>1. ASSUME Awake, UNCHANGED vars PROVE Awake'
  <2>1. \A s : Wakeups(s)' = Wakeups(s)
    BY <1>1 DEF Wakeups, Readable, Count, Working, At, vars, sockets, pool, mainVars
  <2> QED
    BY <1>1, <2>1 DEF Awake, AwakeOf, ListenerAwake, Seen, Owed, Unread,
                      vars, sockets, pool, mainVars
<1> QED
  BY <1>1, MainAwake, FailAwake, WorkerAwake, ClientAwake DEF Next

-----------------------------------------------------------------------------
(* The theorems.                                                           *)

LoopInv == Shape /\ Fresh /\ Counts /\ Patience /\ Awake

LEMMA LoopInvariant == Spec => []LoopInv
<1>1. Init => LoopInv
  BY ShapeInit, FreshInit, CountsInit, PatienceInit, AwakeInit DEF LoopInv
<1>2. LoopInv /\ [Next]_vars => LoopInv'
  BY ShapeStep, FreshStep, CountsStep, PatienceStep, AwakeStep DEF LoopInv
<1> QED
  BY <1>1, <1>2, PTL DEF Spec

LEMMA CountBounds ==
  ASSUME Shape, Counts, NEW c \in Conns
  PROVE  /\ sent[c] \in 0..MaxMsgs[c] /\ pulled[c] \in 0..sent[c]
         /\ read[c] \in 0..(2 * pulled[c]) /\ handled[c] \in 0..pulled[c]
<1>1. CountOf(c) /\ CountsAre(c)
  BY CountTypes DEF Counts
<1>2. read[c] \div 2 \in Nat /\ 2 * (read[c] \div 2) <= read[c]
  BY <1>1, Halves DEF CountsAre
<1>3. handled[c] <= read[c] \div 2
  BY <1>1, <1>2 DEF CountOf, CountsAre
<1> QED
  BY <1>1, <1>2, <1>3 DEF CountOf, CountsAre

\* The counters stay within each other and within what the client sends, the
\* channel never holds more descriptors than MAX_TASKS_NUMBER, and a worker
\* is always in one of its places with a connection that main took.
THEOREM EventTypeCorrect == Spec => []TypeOK
<1>1. LoopInv => TypeOK
  <2> SUFFICES ASSUME Shape, Counts PROVE TypeOK
    BY DEF LoopInv
  <2>1. ASSUME NEW c \in Conns
        PROVE  /\ {sent[c], pulled[c], handled[c]} \subseteq 0..MaxMsgs[c]
               /\ read[c] \in 0..(2 * MaxMsgs[c])
    BY <2>1, CountBounds, EventLoopAssumption
  <2> QED
    BY <2>1 DEF Shape, TypeOK, Jobs
<1> QED
  BY <1>1, LoopInvariant, PTL

\* Whatever the workers' interleaving, ReadPkg returns no header or body that
\* did not arrive, and every message it returns whole goes to one handler.
THEOREM RecordsReadOnce == Spec => []EveryRecordReadOnce
<1>1. LoopInv => EveryRecordReadOnce
  <2> SUFFICES ASSUME Shape, Counts, NEW c \in Conns
               PROVE  /\ read[c] <= 2 * sent[c]
                      /\ handled[c] + Cardinality(Working(c, "handle")) = read[c] \div 2
    BY DEF LoopInv, EveryRecordReadOnce
  <2>1. handled[c] + Cardinality(Working(c, "handle")) = read[c] \div 2
    BY WorkingIsNumber DEF Counts, CountOf
  <2>2. read[c] <= 2 * sent[c]
    BY CountBounds
  <2> QED
    BY <2>1, <2>2
<1> QED
  BY <1>1, LoopInvariant, PTL

\* A client that sends whole records and waits for each to be handled never
\* has two workers in its stream: no worker takes a body of its for a header,
\* nor waits in a Read for what it has no reason to send.
THEOREM PacedClientsDoNoHarm == Spec => []PacedDoesNoHarm
<1>1. LoopInv => PacedDoesNoHarm
  <2> SUFFICES ASSUME Shape, Counts, Patience, NEW w \in Workers, NEW c, c = job[w].conn,
                      At(w, "header"), c \in Paced
               PROVE  read[c] % 2 = 0 /\ (read[c] < 2 * sent[c] \/ shut[c] > 0)
    BY DEF LoopInv, PacedDoesNoHarm
  <2>1. c \in Conns /\ CountOf(c) /\ CountsAre(c) /\ PacedOf(c) /\ Looks(c) \in Nat
    BY CountTypes, LooksType, EventLoopAssumption DEF Counts, Patience
  <2>2. Headers(c) >= 1
    BY NumberOne DEF Headers, At
  <2>3. Looks(c) >= 1
    BY <2>2, LooksType DEF Looks
  <2>4. /\ read[c] % 2 \in {0, 1} /\ read[c] \div 2 \in Nat
        /\ read[c] = 2 * (read[c] \div 2) + (read[c] % 2)
    BY <2>1, Halves DEF CountsAre
  <2>5. read[c] <= 2 * sent[c]
    BY <2>1 DEF CountOf, CountsAre
  <2>6. CASE shut[c] = 0
    <3>1. Bodies(c) = 0 /\ Handling(c) = 0 /\ sent[c] = handled[c] + 1
      BY <2>1, <2>3, <2>6 DEF PacedOf, UnderWay, CountsAre
    <3> QED
      BY <2>1, <2>4, <3>1 DEF CountOf, CountsAre
  <2>7. CASE shut[c] > 0
    <3>1. read[c] \div 2 >= sent[c]
      BY <2>1, <2>7 DEF PacedOf, CountOf, CountsAre
    <3> QED
      BY <2>1, <2>4, <2>5, <2>7, <3>1 DEF CountsAre
  <2> QED
    BY <2>1, <2>6, <2>7 DEF CountsAre
<1> QED
  BY <1>1, LoopInvariant, PTL

\* Edge-triggered epoll loses nothing here except by merging: every record, end
\* and waiting connection has a look of its own on epoll's list, in main's
\* events, in the channel or in a worker's first Read, as long as no two
\* arrivals shared one edge and no Read took more than it returned.
THEOREM WakeupsSuffice == Spec => []WakeupForEveryRecord
<1>1. LoopInv => WakeupForEveryRecord
  <2> SUFFICES ASSUME Shape, Awake PROVE WakeupForEveryRecord
    BY DEF LoopInv
  <2>1. ASSUME NEW c \in table \ merged PROVE Wakeups(c) >= Unread(c)
    <3>1. c \in Conns
      BY DEF Shape
    <3>2. /\ Wakeups(c) >= Owed(c) /\ Unread(c) \in Int /\ Wakeups(c) \in Int
      BY <3>1, OwedType DEF Awake, AwakeOf, Seen, OwedTyped
    <3> QED
      BY <3>2 DEF Owed
  <2> QED
    BY <2>1 DEF WakeupForEveryRecord, Awake, ListenerAwake
<1> QED
  BY <1>1, LoopInvariant, PTL
=============================================================================
