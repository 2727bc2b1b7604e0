--------------------------- MODULE AgreementProofs --------------------------
(***************************************************************************)
(* Proofs about Records, continued: what several records, or a record and  *)
(* a client, say of the same membership, friendship or application.        *)
(***************************************************************************)
EXTENDS RecordsProofs

-----------------------------------------------------------------------------
(* Steps, as the invariants below tell them apart.                         *)

LEMMA HistoryGrows ==
  ASSUME [Next]_vars
  PROVE  /\ stale \subseteq stale' /\ cut \subseteq cut'
         /\ crossed \subseteq crossed' /\ missed \subseteq missed'
         /\ raced \subseteq raced' /\ decided \subseteq decided'
<1> DEFINE Grows == /\ stale \subseteq stale' /\ cut \subseteq cut'
                    /\ crossed \subseteq crossed' /\ missed \subseteq missed'
                    /\ raced \subseteq raced' /\ decided \subseteq decided'
<1>1. ASSUME NEW w \in Workers, Begin(w) \/ BeginCreate(w) \/ BeginAnswer(w)
      PROVE  Grows
  BY <1>1 DEF Begin, BeginCreate, BeginAnswer, history
<1>2. ASSUME NEW w \in Workers, HSet(w) \/ RedisError(w)
      PROVE  Grows
  BY <1>2 DEF HSet, RedisError, Write
<1>3. ASSUME NEW w \in Workers,
             \/ HGet(w) \/ GetGroupChat(w) \/ PushToManagers(w)
             \/ CheckApplication(w) \/ DeleteApplication(w)
             \/ PushToMembers(w) \/ Reply(w)
             \/ Login(w) \/ Visits(w) \/ LoginPanics(w)
      PROVE  Grows
  BY <1>3, VisitSteps DEF HGet, GetGroupChat, PushToManagers, CheckApplication,
              DeleteApplication, PushToMembers, Reply, Login, LoginPanics, End, history, VisitPlaces
<1>4. Crash \/ UNCHANGED vars => Grows
  BY DEF Crash, End, vars, history
<1> QED
  BY <1>1, <1>2, <1>3, <1>4 DEF Next, Visits, Step

\* How the record under a key changes that no write has been lost to.
LEMMA RecordSteps ==
  ASSUME TypeInv, [Next]_vars, NEW k \in Keys, db'[k] # db[k]
  PROVE  \E w \in Workers :
           /\ Write(w) /\ (HSet(w) \/ RedisError(w))
           /\ job[w].at \in Edits /\ Copy(w) # NoCopy
           /\ Key(job[w].at, job[w].req) = k
           /\ db'[k] = Changed(job[w].at, job[w].req, Copy(w))
           /\ k \notin stale' => Copy(w) = db[k]
<1>1. db \in [Keys -> Account \cup GroupChat \cup {Missing}]
  BY DEF TypeInv, TypeOK
<1>2. PICK w \in Workers : Write(w) /\ (HSet(w) \/ RedisError(w))
  BY StoreSteps
<1> DEFINE l == Key(job[w].at, job[w].req)
<1>3. /\ job[w].at \in Edits /\ Copy(w) # NoCopy
      /\ db' = [db EXCEPT ![l] = Changed(job[w].at, job[w].req, Copy(w))]
      /\ stale' = IF db[l] = Copy(w) THEN stale ELSE stale \cup {l}
  BY <1>2 DEF Write
<1>4. l = k
  BY <1>1, <1>3
<1> QED
  BY <1>1, <1>2, <1>3, <1>4

\* How the records one write changes stay or become what they are.
LEMMA RecordsStay ==
  ASSUME TypeInv, [Next]_vars, NEW k \in Keys, db[k] # Missing
  PROVE  /\ db'[k] # Missing
         /\ k \notin stale' => Keeps(db[k], db'[k])
<1>1. CASE db'[k] = db[k]
  BY <1>1 DEF Keeps
<1>2. CASE db'[k] # db[k]
  <2>1. PICK w \in Workers :
           /\ Write(w) /\ job[w].at \in Edits /\ Copy(w) # NoCopy
           /\ db'[k] = Changed(job[w].at, job[w].req, Copy(w))
           /\ k \notin stale' => Copy(w) = db[k]
    BY <1>2, RecordSteps
  <2>2. db'[k] # Missing
    BY <2>1, ChangedFits, RecordsAssumption
  <2>3. k \notin stale' => Keeps(db[k], db'[k])
    BY <2>1, ChangedKeeps
  <2> QED
    BY <2>2, <2>3
<1> QED
  BY <1>1, <1>2

\* A redis error or the end of the server meets a handler.
Lost(v) == /\ Touched(job[v].req) \subseteq cut'
           /\ RedisError(v) \/ job'[v] = Idle

\* What becomes of a handler that is changing records.
LEMMA HandlerSteps ==
  ASSUME TypeInv, [Next]_vars, NEW v \in Workers,
         job[v].at \in Edits \cup {"PushToMembers"}
  PROVE  \/ /\ job'[v].at = job[v].at /\ job'[v].req = job[v].req
            /\ job'[v].news = job[v].news
         \/ Lost(v)
         \/ HSet(v)
         \/ HGet(v) /\ Refuses(job[v].at, job[v].req,
                               db[Key(job[v].at, job[v].req)])
         \/ PushToMembers(v)
<1> DEFINE Stays == /\ job'[v].at = job[v].at /\ job'[v].req = job[v].req
                    /\ job'[v].news = job[v].news
<1>1. job \in [Workers -> Job] /\ job[v] \in Job /\ v \in Busy
  BY DEF TypeInv, TypeOK, Busy, At, Edits
<1>2. ASSUME NEW w \in Workers \ {v}, NEW place, Goto(w, place) PROVE Stays
  BY <1>1, <1>2 DEF Goto
<1>3. ASSUME NEW w \in Workers \ {v}, NEW place, NEW news, GotoWith(w, place, news)
      PROVE  Stays
  BY <1>1, <1>3 DEF GotoWith
<1>4. ASSUME NEW w \in Workers \ {v}, NEW place, NEW r, Start(w, place, r)
      PROVE  Stays
  BY <1>1, <1>4 DEF Start
<1>5. End => Lost(v)
  BY <1>1 DEF End, Lost
<1>6. ASSUME NEW w \in Workers, Begin(w) \/ BeginCreate(w) \/ BeginAnswer(w)
      PROVE  Stays
  <2>1. w # v
    BY <1>6 DEF Begin, BeginCreate, BeginAnswer, At, Edits
  <2> QED
    BY <1>4, <1>6, <2>1 DEF Begin, BeginCreate, BeginAnswer
<1>7. ASSUME NEW w \in Workers, HGet(w)
      PROVE  \/ Stays
             \/ HGet(v) /\ Refuses(job[v].at, job[v].req,
                                   db[Key(job[v].at, job[v].req)])
  <2>1. CASE Refuses(job[w].at, job[w].req, db[Key(job[w].at, job[w].req)])
    <3>1. Goto(w, After(job[w].at, job[w].req, FALSE))
      BY <1>7, <2>1 DEF HGet
    <3>2. CASE w = v
      BY <1>7, <2>1, <3>2
    <3>3. CASE w # v
      BY <1>2, <3>1, <3>3
    <3> QED
      BY <3>2, <3>3
  <2>2. CASE ~Refuses(job[w].at, job[w].req, db[Key(job[w].at, job[w].req)])
    <3>1. \E rec : job' = [job EXCEPT ![w] = [@ EXCEPT !.copy = rec]]
      BY <1>7, <2>2 DEF HGet
    <3> QED
      BY <1>1, <3>1 DEF Job
  <2> QED
    BY <2>1, <2>2
<1>8. ASSUME NEW w \in Workers, HSet(w)
      PROVE  Stays \/ HSet(v)
  BY <1>2, <1>3, <1>8 DEF HSet
<1>9. ASSUME NEW w \in Workers, RedisError(w)
      PROVE  Stays \/ Lost(v)
  BY <1>2, <1>9 DEF RedisError, Lost
<1>10. ASSUME NEW w \in Workers, PushToMembers(w)
       PROVE  Stays \/ PushToMembers(v)
  BY <1>3, <1>10 DEF PushToMembers
<1>11. ASSUME NEW w \in Workers,
              \/ GetGroupChat(w) \/ PushToManagers(w)
              \/ CheckApplication(w) \/ DeleteApplication(w) \/ Reply(w)
              \/ Login(w) \/ Visits(w)
       PROVE  Stays
  <2>1. w # v
    BY <1>11, VisitSteps DEF GetGroupChat, PushToManagers, CheckApplication, Edits, At,
                 DeleteApplication, Reply, Login, VisitPlaces
  <2> QED
    BY <1>1, <1>2, <1>11, <2>1, VisitSteps
       DEF GetGroupChat, PushToManagers, CheckApplication, DeleteApplication,
           Reply, Login, VisitPlaces
<1>12. (\E w \in Workers : LoginPanics(w)) \/ Crash => Lost(v)
  BY <1>5 DEF LoginPanics, Crash
<1>13. UNCHANGED vars => Stays
  BY DEF vars
<1> QED
  BY <1>6, <1>7, <1>8, <1>9, <1>10, <1>11, <1>12, <1>13 DEF Next, Visits, Step

\* Where a worker's request comes from.
LEMMA RequestSteps ==
  ASSUME TypeInv, [Next]_vars, NEW v \in Workers
  PROVE  \/ job'[v].at = "idle"
         \/ job[v].at # "idle" /\ job'[v].req = job[v].req
         \/ /\ job[v].at = "idle"
            /\ \E r \in todo : /\ r.op # "create" /\ todo' = todo \ {r}
                               /\ job'[v].at = First(r.op) /\ job'[v].req = r
         \/ /\ job[v].at = "idle"
            /\ \E r \in todo, g \in Groups :
                 /\ r.op = "create" /\ job'[v].at = "CreateGroupChat"
                 /\ job'[v].req = [op |-> "create", user |-> r.user,
                                   of |-> r.user, group |-> g]
         \/ /\ job[v].at = "idle"
            /\ \E ask \in asked, yes \in BOOLEAN :
                 /\ job'[v].at = "CheckApplication"
                 /\ job'[v].req = [op |-> "answer", user |-> ask[1],
                                   of |-> ask[2].applier, group |-> ask[2].group,
                                   time |-> ask[2].time, yes |-> yes]
<1> DEFINE Same == \/ job'[v].at = "idle"
                   \/ job[v].at # "idle" /\ job'[v].req = job[v].req
<1>1. job \in [Workers -> Job] /\ job[v] \in Job
  BY DEF TypeInv, TypeOK
<1>2. ASSUME NEW w \in Workers, NEW place, Goto(w, place), ~At(w, "idle")
      PROVE  Same
  BY <1>1, <1>2 DEF Goto, Idle, Job, At
<1>3. ASSUME NEW w \in Workers, NEW place, NEW news, GotoWith(w, place, news),
             ~At(w, "idle")
      PROVE  Same
  BY <1>1, <1>3 DEF GotoWith, Job, At
<1>4. End => Same
  BY DEF End, Idle
<1>5. ASSUME NEW w \in Workers, Begin(w), ~Same
      PROVE  /\ job[v].at = "idle"
             /\ \E r \in todo : /\ r.op # "create" /\ todo' = todo \ {r}
                                /\ job'[v].at = First(r.op) /\ job'[v].req = r
  BY <1>1, <1>5 DEF Begin, Start, At
<1>6. ASSUME NEW w \in Workers, BeginCreate(w), ~Same
      PROVE  /\ job[v].at = "idle"
             /\ \E r \in todo, g \in Groups :
                  /\ r.op = "create" /\ job'[v].at = "CreateGroupChat"
                  /\ job'[v].req = [op |-> "create", user |-> r.user,
                                    of |-> r.user, group |-> g]
  BY <1>1, <1>6 DEF BeginCreate, Start, At
<1>7. ASSUME NEW w \in Workers, BeginAnswer(w), ~Same
      PROVE  /\ job[v].at = "idle"
             /\ \E ask \in asked, yes \in BOOLEAN :
                  /\ job'[v].at = "CheckApplication"
                  /\ job'[v].req = [op |-> "answer", user |-> ask[1],
                                    of |-> ask[2].applier, group |-> ask[2].group,
                                    time |-> ask[2].time, yes |-> yes]
  BY <1>1, <1>7 DEF BeginAnswer, Start, At
<1>8. ASSUME NEW w \in Workers,
             \/ HSet(w) \/ RedisError(w) \/ PushToManagers(w)
             \/ CheckApplication(w) \/ DeleteApplication(w)
             \/ PushToMembers(w) \/ Reply(w)
             \/ Login(w) \/ Visits(w) \/ LoginPanics(w)
      PROVE  Same
  <2>1. ~At(w, "idle")
    BY <1>8, VisitSteps DEF HSet, Write, RedisError, PushToManagers, CheckApplication,
                DeleteApplication, PushToMembers, Reply, Login, Edits,
                LoginPanics, At, VisitPlaces
  <2> QED
    BY <1>2, <1>3, <1>4, <1>8, <2>1, VisitSteps
       DEF HSet, RedisError, PushToManagers, CheckApplication,
           DeleteApplication, PushToMembers, Reply, Login, LoginPanics, VisitPlaces
<1>9. ASSUME NEW w \in Workers, HGet(w) \/ GetGroupChat(w)
      PROVE  Same
  <2>1. ~At(w, "idle")
    BY <1>9 DEF HGet, GetGroupChat, At, Edits
  <2>2. \/ \E place : Goto(w, place)
        \/ \E rec : job' = [job EXCEPT ![w] = [@ EXCEPT !.copy = rec]]
        \/ \E rec : job' = [job EXCEPT ![w] = [@ EXCEPT !.at = "PushToManagers",
                                                        !.copy = rec]]
    BY <1>9 DEF HGet, GetGroupChat
  <2>3. CASE \E rec : job' = [job EXCEPT ![w] = [@ EXCEPT !.copy = rec]]
    BY <1>1, <2>1, <2>3 DEF Job, At
  <2>4. CASE \E rec : job' = [job EXCEPT ![w] =
                                [@ EXCEPT !.at = "PushToManagers", !.copy = rec]]
    BY <1>1, <2>1, <2>4 DEF Job, At
  <2> QED
    BY <1>2, <2>1, <2>2, <2>3, <2>4
<1>10. Crash \/ UNCHANGED vars => Same
  BY <1>1, <1>4 DEF Crash, vars
<1> QED
  BY <1>5, <1>6, <1>7, <1>8, <1>9, <1>10 DEF Next, Visits, Step

\* Requests only leave the clients; managers are asked in PushToManagers.
LEMMA ClientSteps ==
  ASSUME [Next]_vars
  PROVE  /\ todo' \subseteq todo
         /\ asked' \subseteq asked \/ \E w \in Workers : PushToManagers(w)
<1>1. ASSUME NEW w \in Workers, Begin(w) \/ BeginCreate(w) \/ BeginAnswer(w)
      PROVE  todo' \subseteq todo /\ asked' \subseteq asked
  BY <1>1 DEF Begin, BeginCreate, BeginAnswer, Unasked
<1>2. ASSUME NEW w \in Workers,
             \/ HGet(w) \/ HSet(w) \/ RedisError(w) \/ GetGroupChat(w)
             \/ CheckApplication(w) \/ DeleteApplication(w)
             \/ PushToMembers(w) \/ Reply(w)
             \/ Login(w) \/ Visits(w) \/ LoginPanics(w)
      PROVE  todo' \subseteq todo /\ asked' \subseteq asked
  BY <1>2, VisitSteps DEF HGet, HSet, RedisError, GetGroupChat, CheckApplication,
              DeleteApplication, PushToMembers, Reply, Login, LoginPanics, End, Unasked, clients, VisitPlaces
<1>3. ASSUME NEW w \in Workers, PushToManagers(w)
      PROVE  todo' \subseteq todo
  BY <1>3 DEF PushToManagers
<1>4. Crash \/ UNCHANGED vars => todo' \subseteq todo /\ asked' \subseteq asked
  BY DEF Crash, End, Unasked, vars, clients, sessions
<1> QED
  BY <1>1, <1>2, <1>3, <1>4 DEF Next, Visits, Step

-----------------------------------------------------------------------------
(* Who is named in a record or a request is registered.                    *)

Refers(rec) == IF "mgrs" \in DOMAIN rec THEN MembersOf(rec) ELSE rec.friends

Named(j) ==
    {u \in Users :
       /\ j.at # "idle"
       /\ \/ j.req \in Befriending /\ u \in {j.req.user, j.req.of}
          \/ j.req \in Creation \cup Answer \cup Applying /\ u = j.req.of
          \/ j.at = "UpdateUserNewGC" /\ u = j.req.of}

Registered(users) == \A u \in users : db[u] # Missing

RequestsNameUsers ==
    /\ \A r \in todo :
         /\ r.op \in {"create", "befriend"} => db[r.user] # Missing
         /\ r.op \in {"apply", "befriend"} => db[r.of] # Missing
    /\ \A ask \in asked : db[ask[2].applier] # Missing

NamesInv ==
    /\ \A k \in Keys : db[k] # Missing => Registered(Refers(db[k]))
    /\ \A w \in Workers :
         /\ job[w].copy \notin {NoCopy, Missing} => Registered(Refers(job[w].copy))
         /\ Registered(Named(job[w]))
    /\ RequestsNameUsers

LEMMA RefersToUsers ==
  /\ \A rec \in Account : Refers(rec) = rec.friends /\ Refers(rec) \subseteq Users
  /\ \A rec \in GroupChat : Refers(rec) = MembersOf(rec) /\ Refers(rec) \subseteq Users
<1>1. ASSUME NEW rec \in Account
      PROVE  Refers(rec) = rec.friends /\ Refers(rec) \subseteq Users
  BY <1>1 DEF Account, Refers
<1>2. ASSUME NEW rec \in GroupChat
      PROVE  Refers(rec) = MembersOf(rec) /\ Refers(rec) \subseteq Users
  BY <1>2 DEF GroupChat, Refers, MembersOf
<1> QED
  BY <1>1, <1>2

LEMMA ChangedRefers ==
  ASSUME TypeInv, WholeInv, NEW w \in Workers, job[w].at \in Edits,
         Copy(w) # NoCopy
  PROVE  \A u \in Refers(Changed(job[w].at, job[w].req, Copy(w))) :
           \/ u \in Named(job[w])
           \/ Copy(w) # Missing /\ u \in Refers(Copy(w))
<1> DEFINE j == job[w]
           r == job[w].req
           new == Changed(j.at, r, Copy(w))
<1>1. j \in Job /\ Fits(j) /\ Checked(w)
  BY DEF TypeInv, TypeOK, WholeInv
<1>2. IF j.at \in GroupEdits THEN new \in GroupChat ELSE new \in Account
  BY ChangedFits
<1>3. CASE j.at = "Register"
  <2>1. new.friends = {} /\ new \in Account
    BY <1>2, <1>3 DEF Changed, NewAccount, GroupEdits
  <2> HIDE DEF new
  <2> QED
    BY <2>1, RefersToUsers DEF new
<1>4. CASE j.at = "CreateGroupChat"
  <2>1. r \in Creation /\ r.user = r.of /\ r.user \in Users
    BY <1>1, <1>4, RequestFields DEF Fits
  <2>2. Refers(new) = {r.user}
    <3>1. new = NewGroupChat(r.user) /\ new \in GroupChat
      BY <1>2, <1>4 DEF Changed, GroupEdits
    <3>2. MembersOf(NewGroupChat(r.user)) = {r.user}
      BY <2>1 DEF MembersOf, NewGroupChat
    <3> QED
      BY <3>1, <3>2, RefersToUsers
  <2>3. r.user \in Named(j)
    BY <1>4, <2>1 DEF Named
  <2> QED
    BY <2>2, <2>3
<1>5. CASE j.at \in {"ModifyUserStatusById", "UpdateUserNewGC"}
  <2>1. Copy(w) \in Account /\ new \in Account
    BY <1>1, <1>2, <1>5 DEF Fits, Copy, At, GroupEdits
  <2>2. new.friends = Copy(w).friends
    BY <1>5, <2>1 DEF Changed, Account
  <2> HIDE DEF new
  <2> QED
    BY <2>1, <2>2, RefersToUsers, RecordsAssumption DEF new
<1>6. CASE j.at \in {"AddFriendForUser", "AddFriendBack"}
  <2>1. /\ Copy(w) \in Account /\ new \in Account
        /\ r \in Befriending /\ r.user \in Users /\ r.of \in Users
    BY <1>1, <1>2, <1>6, RequestFields DEF Fits, Copy, At, GroupEdits
  <2>2. new.friends \subseteq Copy(w).friends \cup {r.user, r.of}
    BY <1>6, <2>1 DEF Changed, Account
  <2>3. r.user \in Named(j) /\ r.of \in Named(j)
    BY <1>6, <2>1 DEF Named
  <2> HIDE DEF new
  <2> QED
    BY <2>1, <2>2, <2>3, RefersToUsers, RecordsAssumption DEF new
<1>7. CASE j.at = "AddNewManagerInGC"
  <2>1. /\ Copy(w) \in GroupChat /\ new \in GroupChat /\ r.of \in Users
        /\ ~NoSuchManager(r, Copy(w))
    BY <1>1, <1>2, <1>7, RequestFields DEF Fits, Copy, At, GroupEdits, Checked
  <2>2. MembersOf(new) \subseteq MembersOf(Copy(w)) \cup {r.of}
    BY <1>7, <2>1 DEF Changed, Seated, GroupChat, MembersOf
  <2>3. r.of \in MembersOf(Copy(w))
    BY <2>1 DEF NoSuchManager, MembersOf
  <2> HIDE DEF new
  <2> QED
    BY <2>1, <2>2, <2>3, RefersToUsers, RecordsAssumption DEF new
<1>8. CASE j.at = "AddNewMemberToGC"
  <2>1. /\ Copy(w) \in GroupChat /\ new \in GroupChat
        /\ r \in Answer /\ r.of \in Users
    BY <1>1, <1>2, <1>8, RequestFields DEF Fits, Copy, At, GroupEdits
  <2>2. MembersOf(new) \subseteq MembersOf(Copy(w)) \cup {r.of}
    BY <1>8, <2>1 DEF Changed, GroupChat, MembersOf
  <2>3. r.of \in Named(j)
    BY <1>8, <2>1 DEF Named
  <2> HIDE DEF new
  <2> QED
    BY <2>1, <2>2, <2>3, RefersToUsers, RecordsAssumption DEF new
<1> QED
  BY <1>3, <1>4, <1>5, <1>6, <1>7, <1>8 DEF Edits

LEMMA NamesInit == Init => NamesInv
<1> SUFFICES ASSUME Init PROVE NamesInv
  OBVIOUS
<1>1. TypeInv
  BY RecordsTypeInit
<1>2. PICK s \in Scenarios : db = s.start /\ todo = s.todo
  BY DEF Init
<1>3. Consistent(db) /\ RequestsNameUsers
  BY <1>2, ScenariosAssumption DEF Init, RequestsNameUsers
<1>4. ASSUME NEW u \in Users, db[u] # Missing
      PROVE  Registered(Refers(db[u]))
  <2>1. db[u] \in Account /\ db[u].friends \subseteq Users
    BY <1>1, <1>4 DEF TypeInv, TypeOK, Account
  <2> QED
    BY <1>3, <1>4, <2>1, RefersToUsers DEF Consistent, Registered
<1>5. ASSUME NEW g \in Groups, db[g] # Missing
      PROVE  Registered(Refers(db[g]))
  <2>1. db[g] \in GroupChat
    BY <1>1, <1>5 DEF TypeInv, TypeOK
  <2>2. \A u \in MembersOf(db[g]) : db[u] # Missing
    BY <1>3, <1>5 DEF Consistent, MembersOf
  <2> QED
    BY <2>1, <2>2, RefersToUsers DEF Registered
<1>6. \A w \in Workers : job[w].copy = NoCopy /\ Named(job[w]) = {}
  BY DEF Init, Idle, Named
<1> QED
  BY <1>3, <1>4, <1>5, <1>6 DEF NamesInv, Registered, Keys

\* A manager who is put down in their own record was a member before.
LEMMA AppointedIsMember ==
  ASSUME TypeInv, WholeInv, NamesInv, [Next]_vars, NEW v \in Workers,
         job'[v].at = "UpdateUserNewGC", job[v].at = "AddNewManagerInGC"
  PROVE  db[job[v].req.of] # Missing
<1>1. job[v] \in Job /\ Fits(job[v]) /\ Checked(v)
  BY DEF TypeInv, TypeOK, WholeInv
<1>2. ~Refuses(job[v].at, job[v].req, db[Key(job[v].at, job[v].req)]) \/ ~HGet(v)
  BY <1>1 DEF HGet, Goto, After, TypeInv, TypeOK, Idle
<1>3. ~Lost(v)
  BY <1>1 DEF Lost, RedisError, Goto, After, TypeInv, TypeOK, Idle
<1>4. HSet(v)
  BY <1>2, <1>3, HandlerSteps DEF Edits, PushToMembers, At
<1>5. job[v].copy # NoCopy /\ job[v].copy \in GroupChat /\ job[v].req.of \in Users
  BY <1>1, <1>4, RequestFields DEF HSet, Write, Copy, At, Fits
<1>6. job[v].req.of \in MembersOf(job[v].copy)
  BY <1>1, <1>5 DEF Checked, NoSuchManager, MembersOf
<1> QED
  BY <1>5, <1>6, RefersToUsers, RecordsAssumption DEF NamesInv, Registered

LEMMA NamedSteps ==
  ASSUME TypeInv, WholeInv, NamesInv, [Next]_vars, NEW v \in Workers
  PROVE  Registered(Named(job'[v]))
<1>1. job[v] \in Job /\ Fits(job[v]) /\ Registered(Named(job[v]))
  BY DEF TypeInv, TypeOK, NamesInv
<1>2. TypeInv'
  BY RecordsTypeStep
<1>3. job'[v] \in Job /\ Fits(job'[v])
  BY <1>2 DEF TypeInv, TypeOK
<1>4. CASE job'[v].at = "idle"
  BY <1>4 DEF Registered, Named
<1>5. CASE job[v].at # "idle" /\ job'[v].req = job[v].req
  <2>1. CASE job'[v].at = "UpdateUserNewGC" /\ job[v].at # "UpdateUserNewGC"
    <3>1. CASE job[v].at = "AddNewManagerInGC"
      <4>1. db[job[v].req.of] # Missing
        BY <2>1, <3>1, AppointedIsMember
      <4>2. job[v].req \in Appointment
        BY <1>1, <3>1 DEF Fits
      <4> QED
        BY <1>5, <4>1, <4>2, RequestOps DEF Registered, Named
    <3>2. CASE job[v].at # "AddNewManagerInGC"
      <4>1. job[v].req \notin Appointment
        BY <1>1, <1>5, <2>1, <3>2, RequestOps DEF Fits, Job, Places, Edits
      <4> QED
        BY <1>1, <1>3, <1>5, <2>1, <4>1 DEF Registered, Named, Fits
    <3> QED
      BY <3>1, <3>2
  <2>2. CASE ~(job'[v].at = "UpdateUserNewGC" /\ job[v].at # "UpdateUserNewGC")
    BY <1>1, <1>5, <2>2 DEF Registered, Named
  <2> QED
    BY <2>1, <2>2
<1>6. ASSUME NEW r \in todo, r.op # "create",
             job'[v].at = First(r.op), job'[v].req = r
      PROVE  Registered(Named(job'[v]))
  <2>1. r \in Sent
    BY DEF TypeInv
  <2>2. job'[v].at # "UpdateUserNewGC" /\ r \notin Creation \cup Answer
    BY <1>6, <2>1, SentByOp, RequestOps DEF First
  <2>3. /\ r.op = "befriend" => db[r.user] # Missing /\ db[r.of] # Missing
        /\ r.op = "apply" => db[r.of] # Missing
    BY DEF NamesInv, RequestsNameUsers
  <2> QED
    BY <1>6, <2>2, <2>3, RequestOps DEF Registered, Named
<1>7. ASSUME NEW r \in todo, NEW g \in Groups, r.op = "create",
             job'[v].at = "CreateGroupChat",
             job'[v].req = [op |-> "create", user |-> r.user, of |-> r.user,
                            group |-> g]
      PROVE  Registered(Named(job'[v]))
  <2>1. db[r.user] # Missing
    BY <1>7 DEF NamesInv, RequestsNameUsers
  <2>2. job'[v].req.op = "create" /\ job'[v].req.of = r.user
    BY <1>7
  <2> QED
    BY <1>7, <2>1, <2>2, RequestOps DEF Registered, Named
<1>8. ASSUME NEW ask \in asked, NEW yes \in BOOLEAN,
             job'[v].at = "CheckApplication",
             job'[v].req = [op |-> "answer", user |-> ask[1],
                            of |-> ask[2].applier, group |-> ask[2].group,
                            time |-> ask[2].time, yes |-> yes]
      PROVE  Registered(Named(job'[v]))
  <2>1. db[ask[2].applier] # Missing
    BY DEF NamesInv, RequestsNameUsers
  <2>2. job'[v].req.op = "answer" /\ job'[v].req.of = ask[2].applier
    BY <1>8
  <2> QED
    BY <1>8, <2>1, <2>2, RequestOps DEF Registered, Named
<1> QED
  BY <1>4, <1>5, <1>6, <1>7, <1>8, RequestSteps

LEMMA RegisteredStay ==
  ASSUME TypeInv, [Next]_vars, NEW users \in SUBSET Users, Registered(users)
  PROVE  \A u \in users : db'[u] # Missing
<1>1. Users \subseteq Keys
  BY DEF Keys
<1> QED
  BY <1>1, RecordsStay DEF Registered

LEMMA NamesStep ==
  ASSUME TypeInv, WholeInv, NamesInv, [Next]_vars
  PROVE  NamesInv'
<1>1. TypeInv'
  BY RecordsTypeStep
<1>2. Users \subseteq Keys /\ \A u \in Users : db[u] # Missing => db'[u] # Missing
  BY RecordsStay DEF Keys
<1>3. ASSUME NEW rec \in Account \cup GroupChat, Registered(Refers(rec))
      PROVE  \A u \in Refers(rec) : db'[u] # Missing
  BY <1>3, RefersToUsers, RegisteredStay
<1>4. ASSUME NEW v \in Workers
      PROVE  \A u \in Named(job[v]) : db'[u] # Missing
  BY RegisteredStay DEF NamesInv, Named
<1>5. ASSUME NEW k \in Keys, db'[k] # Missing
      PROVE  Registered(Refers(db[k]))'
  <2>1. CASE db'[k] = db[k]
    <3>1. db[k] \in Account \cup GroupChat /\ Registered(Refers(db[k]))
      BY <1>5, <2>1 DEF NamesInv, TypeInv, TypeOK
    <3> QED
      BY <1>3, <2>1, <3>1 DEF Registered, Refers, MembersOf
  <2>2. CASE db'[k] # db[k]
    <3>1. PICK w \in Workers :
            /\ job[w].at \in Edits /\ Copy(w) # NoCopy
            /\ db'[k] = Changed(job[w].at, job[w].req, Copy(w))
      BY <2>2, RecordSteps
    <3>2. \A u \in Refers(db'[k]) :
            u \in Named(job[w]) \/ (Copy(w) # Missing /\ u \in Refers(Copy(w)))
      BY <3>1, ChangedRefers
    <3>3. Copy(w) # Missing => /\ Copy(w) \in Account \cup GroupChat
                               /\ Registered(Refers(Copy(w)))
      BY <3>1 DEF Copy, TypeInv, TypeOK, Job, NamesInv
    <3>4. \A u \in Refers(db'[k]) : db'[u] # Missing
      BY <1>3, <1>4, <3>2, <3>3
    <3> QED
      BY <3>4 DEF Registered, Refers, MembersOf
  <2> QED
    BY <2>1, <2>2
<1>6. ASSUME NEW v \in Workers, job'[v].copy \notin {NoCopy, Missing}
      PROVE  Registered(Refers(job[v].copy))'
  <2> DEFINE old == job[v].copy
  <2>1. \A rec \in Account \cup GroupChat :
          job'[v].copy = rec /\ Registered(Refers(rec)) =>
            Registered(Refers(job[v].copy))'
    BY <1>3 DEF Registered, Refers, MembersOf
  <2>2. job[v] \in Job /\ Fits(job[v])
    BY DEF TypeInv, TypeOK
  <2>3. CASE job'[v] = job[v]
    <3>1. old \in Account \cup GroupChat /\ Registered(Refers(old))
      BY <1>6, <2>2, <2>3 DEF Job, NamesInv
    <3> QED
      BY <2>1, <2>3, <3>1
  <2>4. ASSUME NEW k \in Keys, job'[v].copy = db[k]
        PROVE  Registered(Refers(job[v].copy))'
    <3>1. db[k] \in Account \cup GroupChat /\ Registered(Refers(db[k]))
      BY <1>6, <2>4 DEF NamesInv, TypeInv, TypeOK
    <3> QED
      BY <2>1, <2>4, <3>1
  <2>5. CASE /\ job[v].at \in Edits \ {"CreateGroupChat"}
             /\ job'[v] = [job[v] EXCEPT !.copy = db[Key(job[v].at, job[v].req)]]
    BY <2>2, <2>4, <2>5, KeyOfEdit DEF Job
  <2>6. CASE /\ job[v].at = "GetGroupChat"
             /\ job'[v] = [job[v] EXCEPT !.at = "PushToManagers",
                                         !.copy = db[job[v].req.group]]
    <3>1. job[v].req.group \in Keys
      BY <2>2, <2>6, RequestFields DEF Fits, Keys
    <3> QED
      BY <2>2, <2>4, <2>6, <3>1 DEF Job
  <2> QED
    BY <1>6, <2>3, <2>5, <2>6, CopySteps
<1>7. ASSUME NEW v \in Workers
      PROVE  Registered(Named(job[v]))'
  <2>1. Named(job'[v]) \subseteq Users /\ Registered(Named(job'[v]))
    BY NamedSteps DEF Named
  <2>2. \A u \in Named(job'[v]) : db'[u] # Missing
    BY <2>1, RegisteredStay
  <2> QED
    BY <2>2 DEF Registered, Named
<1>8. RequestsNameUsers'
  <2>1. todo' \subseteq todo
    BY ClientSteps
  <2>2. \A r \in todo : /\ r.op \in {"create", "befriend"} => r.user \in Users
                        /\ r.op \in {"apply", "befriend"} => r.of \in Users
    BY SentByOp, RequestFields DEF TypeInv
  <2>3. ASSUME NEW ask \in asked'
        PROVE  db'[ask[2].applier] # Missing
    <3>1. CASE ask \in asked
      BY <1>2, <3>1 DEF NamesInv, RequestsNameUsers, TypeInv, TypeOK, Application
    <3>2. ASSUME NEW w \in Workers, PushToManagers(w), ask \notin asked
          PROVE  db'[ask[2].applier] # Missing
      <4>1. job[w].at = "PushToManagers" /\ Fits(job[w])
        BY <3>2 DEF PushToManagers, At, TypeInv
      <4>2. job[w].req.of \in Named(job[w])
        BY <4>1, RequestFields DEF Fits, Named
      <4>3. ask[2].applier = job[w].req.of
        BY <3>2 DEF PushToManagers, App
      <4> QED
        BY <1>4, <4>2, <4>3
    <3> QED
      BY <3>1, <3>2, ClientSteps
  <2> QED
    BY <1>2, <2>1, <2>2, <2>3 DEF NamesInv, RequestsNameUsers
<1> QED
  BY <1>5, <1>6, <1>7, <1>8 DEF NamesInv

\* What a user's or a group's record keeps if no write to it is lost.
LEMMA UserStays ==
  ASSUME TypeInv, [Next]_vars, NEW u \in Users, u \notin stale', db[u] # Missing
  PROVE  /\ db'[u] # Missing /\ db[u].friends \subseteq db'[u].friends
         /\ \A g \in Groups : db[u].groups[g] # "none" => db'[u].groups[g] # "none"
<1>1. u \in Keys /\ db[u] \in Account
  BY DEF TypeInv, TypeOK, Keys
<1>2. "mgrs" \notin DOMAIN db[u]
  BY <1>1 DEF Account
<1>3. db'[u] # Missing /\ Keeps(db[u], db'[u])
  BY <1>1, RecordsStay
<1> QED
  BY <1>2, <1>3 DEF Keeps

LEMMA GroupStays ==
  ASSUME TypeInv, [Next]_vars, NEW g \in Groups, g \notin stale', db[g] # Missing
  PROVE  /\ db'[g] # Missing /\ db'[g].leader = db[g].leader
         /\ \A u \in Users : db[g].role[u] # "none" => db'[g].role[u] # "none"
<1>1. g \in Keys /\ db[g] \in GroupChat
  BY DEF TypeInv, TypeOK, Keys
<1>2. "mgrs" \in DOMAIN db[g]
  BY <1>1 DEF GroupChat
<1>3. db'[g] # Missing /\ Keeps(db[g], db'[g])
  BY <1>1, RecordsStay
<1> QED
  BY <1>2, <1>3 DEF Keeps, MembersOf

\* What HSet does, to the record and to the worker.
LEMMA SetSteps ==
  ASSUME TypeInv, NEW w \in Workers, HSet(w)
  PROVE  /\ job[w].at \in Edits /\ Copy(w) # NoCopy
         /\ db'[Key(job[w].at, job[w].req)] =
              Changed(job[w].at, job[w].req, Copy(w))
         /\ After(job[w].at, job[w].req, TRUE) # "idle" =>
              /\ job'[w].at = After(job[w].at, job[w].req, TRUE)
              /\ job'[w].req = job[w].req
              /\ job'[w].news = IF job[w].at = "CreateGroupChat"
                                  THEN {job[w].req.user} ELSE job[w].news
<1>1. /\ job \in [Workers -> Job] /\ Fits(job[w])
      /\ db \in [Keys -> Account \cup GroupChat \cup {Missing}]
  BY DEF TypeInv, TypeOK
<1>2. job[w].at \in Edits /\ Copy(w) # NoCopy
  BY DEF HSet, Write
<1>3. Key(job[w].at, job[w].req) \in Keys
  BY <1>1, <1>2, KeyOfEdit
<1>4. db'[Key(job[w].at, job[w].req)] = Changed(job[w].at, job[w].req, Copy(w))
  BY <1>1, <1>3 DEF HSet, Write
<1>5. CASE job[w].at = "CreateGroupChat"
  BY <1>1, <1>2, <1>4, <1>5 DEF HSet, GotoWith, Job
<1>6. CASE job[w].at # "CreateGroupChat"
  BY <1>1, <1>2, <1>4, <1>6 DEF HSet, Goto, Job
<1> QED
  BY <1>5, <1>6

-----------------------------------------------------------------------------
(* Friends are friends of each other.                                      *)

Untouched(keys) == keys \cap (stale \cup cut) = {}

\* w is about to write u into v's record.
Returning(w, u, v) ==
    job[w].at = "AddFriendBack" /\ job[w].req.of = u /\ job[w].req.user = v

ReturnedOrReturning ==
    \A u, v \in Users :
        Untouched({u, v}) /\ db[u] # Missing /\ v \in db[u].friends
            => u \in db[v].friends \/ \E w \in Workers : Returning(w, u, v)

\* The second AddFriendForUser of a handler is called when the first is done.
FirstIsDone ==
    \A w \in Workers :
        job[w].at = "AddFriendBack" /\ Untouched({job[w].req.user, job[w].req.of})
            => job[w].req.user \in db[job[w].req.of].friends

FriendInv == ReturnedOrReturning /\ FirstIsDone

LEMMA UntouchedBefore ==
  ASSUME [Next]_vars, NEW keys, Untouched(keys)'
  PROVE  /\ Untouched(keys) /\ keys \cap (stale' \cup cut') = {}
  BY HistoryGrows DEF Untouched

LEMMA FriendInit == Init => FriendInv
<1> SUFFICES ASSUME Init PROVE FriendInv
  OBVIOUS
<1>1. PICK s \in Scenarios : db = s.start
  BY DEF Init
<1>2. Consistent(db)
  BY <1>1, ScenariosAssumption
<1>3. ReturnedOrReturning
  BY <1>2 DEF Consistent, ReturnedOrReturning
<1>4. FirstIsDone
  BY DEF Init, Idle, FirstIsDone
<1> QED
  BY <1>3, <1>4 DEF FriendInv

LEMMA FirstIsDoneStep ==
  ASSUME TypeInv, NamesInv, FriendInv, [Next]_vars
  PROVE  FirstIsDone'
<1> SUFFICES ASSUME NEW w \in Workers, job'[w].at = "AddFriendBack",
                    Untouched({job[w].req.user, job[w].req.of})'
             PROVE  job'[w].req.user \in db'[job'[w].req.of].friends
  BY DEF FirstIsDone
<1> DEFINE r == job[w].req
<1>1. job[w] \in Job /\ Fits(job[w]) /\ Fits(job'[w]) /\ Registered(Named(job[w]))
  BY RecordsTypeStep DEF TypeInv, TypeOK, NamesInv
<1>2. job'[w].req \in Befriending
  BY <1>1 DEF Fits
<1>3. job[w].at # "idle" /\ job'[w].req = r
  <2>1. \A t \in todo : t.op # "create" => First(t.op) # "AddFriendBack"
    BY SentByOp DEF TypeInv, First
  <2> QED
    BY <2>1, RequestSteps
<1>4. job[w].at \in {"AddFriendForUser", "AddFriendBack"}
  BY <1>1, <1>2, <1>3, RequestOps DEF Fits, Job, Places, Edits
<1>5. /\ r.user \in Users /\ r.of \in Users /\ r.of \in Keys
      /\ db[r.user] # Missing /\ db[r.of] # Missing
  BY <1>1, <1>2, <1>3, RequestFields DEF Registered, Named, Keys
<1>6. /\ Untouched({r.user, r.of}) /\ r.of \notin stale'
      /\ ~({r.user, r.of} \subseteq cut')
  BY <1>3, UntouchedBefore DEF Untouched
<1>7. CASE r.user \in db[r.of].friends
  BY <1>3, <1>5, <1>6, <1>7, UserStays
<1>8. CASE job[w].at = "AddFriendBack"
  BY <1>6, <1>7, <1>8 DEF FriendInv, FirstIsDone
<1>9. CASE job[w].at = "AddFriendForUser"
  <2>1. ~Lost(w)
    BY <1>2, <1>3, <1>6, RequestOps DEF Lost, Touched
  <2>2. Key(job[w].at, r) = r.of
    BY <1>9 DEF Key
  <2>3. CASE HSet(w)
    <3>1. /\ Copy(w) # NoCopy /\ Copy(w) = job[w].copy
          /\ db'[r.of] = Changed(job[w].at, r, Copy(w))
      BY <1>9, <2>2, <2>3, SetSteps DEF Copy, At
    <3>2. Copy(w) \in Account
      BY <1>1, <1>9, <3>1 DEF Fits
    <3> QED
      BY <1>3, <1>9, <3>1, <3>2 DEF Changed, Account
  <2>4. CASE HGet(w) /\ Refuses(job[w].at, r, db[Key(job[w].at, r)])
    BY <1>5, <1>7, <1>9, <2>2, <2>4 DEF Refuses
  <2> QED
    BY <1>9, <2>1, <2>3, <2>4, HandlerSteps DEF Edits, PushToMembers, At
<1> QED
  BY <1>4, <1>8, <1>9

LEMMA ReturnedStep ==
  ASSUME TypeInv, NamesInv, FriendInv, [Next]_vars
  PROVE  ReturnedOrReturning'
<1> SUFFICES ASSUME NEW u \in Users, NEW v \in Users, Untouched({u, v})',
                    db'[u] # Missing, v \in db'[u].friends,
                    ~(\E w \in Workers : Returning(w, u, v)')
             PROVE  u \in db'[v].friends
  BY DEF ReturnedOrReturning
<1>1. /\ Untouched({u, v}) /\ u \notin stale' \cup cut' /\ v \notin stale' \cup cut'
      /\ u \in Keys /\ v \in Keys
  BY UntouchedBefore DEF Untouched, Keys
<1>2. ASSUME u \in db[v].friends, db[v] # Missing
      PROVE  u \in db'[v].friends
  BY <1>1, <1>2, UserStays
<1>3. CASE db[u] # Missing /\ v \in db[u].friends
  <2>1. db[u] \in Account /\ db[v] # Missing
    BY <1>1, <1>3, RefersToUsers DEF NamesInv, Registered, TypeInv, TypeOK
  <2>2. ASSUME NEW w \in Workers, Returning(w, u, v)
        PROVE  u \in db'[v].friends
    <3> DEFINE r == job[w].req
    <3>1. job[w].at = "AddFriendBack" /\ r.of = u /\ r.user = v
      BY <2>2 DEF Returning
    <3>2. job[w] \in Job /\ Fits(job[w])
      BY DEF TypeInv, TypeOK
    <3>3. r \in Befriending
      BY <3>1, <3>2 DEF Fits
    <3>4. ~Lost(w)
      BY <1>1, <3>1, <3>3, RequestOps DEF Lost, Touched
    <3>5. Key(job[w].at, r) = v
      BY <3>1 DEF Key
    <3>6. CASE HSet(w)
      <4>1. /\ Copy(w) # NoCopy /\ Copy(w) = job[w].copy
            /\ db'[v] = Changed(job[w].at, r, Copy(w))
        BY <3>1, <3>5, <3>6, SetSteps DEF Copy, At
      <4>2. Copy(w) \in Account
        BY <3>1, <3>2, <4>1 DEF Fits
      <4> QED
        BY <3>1, <4>1, <4>2 DEF Changed, Account
    <3>7. CASE HGet(w) /\ Refuses(job[w].at, r, db[Key(job[w].at, r)])
      BY <1>2, <2>1, <3>1, <3>5, <3>7 DEF Refuses
    <3>8. ~(job'[w].at = job[w].at /\ job'[w].req = job[w].req)
      BY <3>1 DEF Returning
    <3> QED
      BY <3>1, <3>4, <3>6, <3>7, <3>8, HandlerSteps DEF Edits, PushToMembers, At
  <2> QED
    BY <1>1, <1>2, <1>3, <2>1, <2>2 DEF FriendInv, ReturnedOrReturning
<1>4. CASE ~(db[u] # Missing /\ v \in db[u].friends)
  <2>1. PICK w \in Workers :
          /\ HSet(w) \/ RedisError(w)
          /\ job[w].at \in Edits /\ Copy(w) # NoCopy
          /\ Key(job[w].at, job[w].req) = u
          /\ db'[u] = Changed(job[w].at, job[w].req, Copy(w))
          /\ Copy(w) = db[u]
    BY <1>1, <1>4, RecordSteps
  <2> DEFINE r == job[w].req
  <2>2. job[w] \in Job /\ Fits(job[w]) /\ Registered(Named(job[w]))
    BY DEF TypeInv, TypeOK, NamesInv
  <2>3. job[w].at \notin GroupEdits
    BY <2>1, <2>2, KeyOfEdit, RecordsAssumption
  <2>4. job[w].at # "Register"
    BY <2>1 DEF Changed, NewAccount
  <2>5. db[u] \in Account
    BY <2>1, <2>2, <2>3, <2>4 DEF Copy, At, GroupEdits, Edits, Fits
  <2>6. CASE job[w].at = "AddFriendForUser"
    <3>1. r.of = u /\ r.user = v /\ r \in Befriending
      BY <1>4, <2>1, <2>2, <2>5, <2>6, RecordsAssumption
         DEF Key, Changed, Account, Fits
    <3>2. ~RedisError(w)
      BY <1>1, <3>1, RequestOps DEF RedisError, Touched
    <3>3. After(job[w].at, r, TRUE) = "AddFriendBack"
      BY <2>6 DEF After
    <3> QED
      BY <2>1, <3>1, <3>2, <3>3, SetSteps DEF Returning
  <2>7. CASE job[w].at = "AddFriendBack"
    <3>1. r.user = u /\ r.of = v /\ r \in Befriending
      BY <1>4, <2>1, <2>2, <2>5, <2>7, RecordsAssumption
         DEF Key, Changed, Account, Fits
    <3>2. db[v] # Missing
      BY <2>2, <2>7, <3>1 DEF Registered, Named
    <3> QED
      BY <1>1, <1>2, <2>7, <3>1, <3>2 DEF FriendInv, FirstIsDone, Untouched
  <2>8. CASE job[w].at \in {"ModifyUserStatusById", "UpdateUserNewGC"}
    BY <1>4, <2>1, <2>5, <2>8, RecordsAssumption DEF Changed, Account
  <2> QED
    BY <2>1, <2>3, <2>4, <2>6, <2>7, <2>8 DEF Edits, GroupEdits
<1> QED
  BY <1>3, <1>4

\* When no handler is at work on two users and no failure and no lost write
\* has met them, either is the other's friend if the other is theirs, and
\* both are registered: AddFriendForUser, twice, in ProcessAddFriendResMes.
THEOREM FriendshipsAreMutual == Spec => []FriendshipIsMutual
<1>1. TypeInv /\ NamesInv /\ FriendInv => FriendshipIsMutual
  <2> SUFFICES ASSUME TypeInv, NamesInv, FriendInv, NEW u \in Users, NEW v \in Users,
                      Settled(u, v), db[u] # Missing, v \in db[u].friends
               PROVE  db[v] # Missing /\ u \in db[v].friends
    BY DEF FriendshipIsMutual
  <2>1. db[u] \in Account /\ u \in Keys
    BY DEF TypeInv, TypeOK, Keys
  <2>2. db[v] # Missing
    BY <2>1, RefersToUsers DEF NamesInv, Registered
  <2>3. ASSUME NEW w \in Workers, Returning(w, u, v)
        PROVE  FALSE
    <3>1. w \in Busy /\ job[w].req \in Befriending
      BY <2>3 DEF Returning, Busy, At, TypeInv, Fits
    <3>2. Touched(job[w].req) = {u, v}
      BY <2>3, <3>1, RequestOps DEF Returning, Touched
    <3> QED
      BY <3>1, <3>2 DEF Settled
  <2> QED
    BY <2>2, <2>3 DEF Settled, Untouched, FriendInv, ReturnedOrReturning
<1>2. TypeInv /\ WholeInv /\ NamesInv /\ [Next]_vars => NamesInv'
  BY NamesStep
<1>3. TypeInv /\ NamesInv /\ FriendInv /\ [Next]_vars => FriendInv'
  BY FirstIsDoneStep, ReturnedStep DEF FriendInv
<1>4. TypeInv /\ WholeInv /\ [Next]_vars => WholeInv'
  BY WholeStep
<1> QED
  BY <1>1, <1>2, <1>3, <1>4, WholeInit, NamesInit, FriendInit,
     RecordsTypeInvariant, PTL DEF Spec

-----------------------------------------------------------------------------
(* A handler that has written a group's record and is on its way to the    *)
(* user's.                                                                 *)

Entering == {"PushToMembers", "UpdateUserNewGC"}

LEMMA EnteringSteps ==
  ASSUME TypeInv, [Next]_vars, NEW v \in Workers, job'[v].at \in Entering
  PROVE  /\ job'[v].req = job[v].req /\ job[v].at \in Entering \cup GroupEdits
         /\ \/ job[v].at \in Entering
            \/ HSet(v)
            \/ Touched(job[v].req) \subseteq cut'
<1>1. /\ job \in [Workers -> Job] /\ job[v] \in Job /\ Fits(job[v])
      /\ job'[v].at # "idle"
  BY DEF TypeInv, TypeOK, Entering
<1>2. job[v].at # "idle" /\ job'[v].req = job[v].req
  <2>1. \A r \in todo : r.op # "create" => First(r.op) \notin Entering
    BY SentByOp DEF TypeInv, First, Entering
  <2> QED
    BY <1>1, <2>1, RequestSteps DEF Entering
<1>3. ASSUME NEW w \in Workers, NEW place, Goto(w, place), place \notin Entering
      PROVE  w # v /\ job[v].at \in Entering
  BY <1>1, <1>3 DEF Goto, Idle, Job
<1>4. ASSUME NEW w \in Workers,
             \/ GetGroupChat(w) \/ PushToManagers(w)
             \/ CheckApplication(w) \/ DeleteApplication(w) \/ Reply(w)
             \/ Login(w) \/ Visits(w)
      PROVE  job[v].at \in Entering
  <2>1. CASE GetGroupChat(w)
    <3>1. CASE db[job[w].req.group] = Missing
      BY <1>3, <2>1, <3>1 DEF GetGroupChat, Entering
    <3>2. CASE db[job[w].req.group] # Missing
      <4>1. \E rec : job' = [job EXCEPT ![w] = [@ EXCEPT !.at = "PushToManagers",
                                                         !.copy = rec]]
        BY <2>1, <3>2 DEF GetGroupChat
      <4> QED
        BY <1>1, <4>1 DEF Job, Entering
    <3> QED
      BY <3>1, <3>2
  <2>2. CASE \/ PushToManagers(w) \/ CheckApplication(w) \/ Reply(w)
             \/ Login(w) \/ Visits(w) \/ DeleteApplication(w)
    <3>1. \E place : Goto(w, place) /\ place \notin Entering
      BY <2>2, VisitSteps DEF PushToManagers, CheckApplication, Reply, Login, Verdict,
                  DeleteApplication, Entering, VisitPlaces
    <3> QED
      BY <1>3, <3>1
  <2> QED
    BY <1>4, <2>1, <2>2
<1>5. job[v].at \in Entering \/ job[v].at \in Edits
  <2>1. ASSUME NEW w \in Workers, Begin(w) \/ BeginCreate(w) \/ BeginAnswer(w)
        PROVE  job'[v] = job[v]
    BY <1>1, <1>2, <2>1 DEF Begin, BeginCreate, BeginAnswer, Start, At
  <2>2. ASSUME NEW w \in Workers,
               HGet(w) \/ HSet(w) \/ RedisError(w) \/ PushToMembers(w)
        PROVE  job[v].at \in Entering \cup Edits
    <3>1. job[w].at \in Edits \cup {"PushToMembers"}
      BY <2>2 DEF HGet, HSet, Write, RedisError, PushToMembers, At
    <3>2. CASE w = v
      BY <3>1, <3>2 DEF Entering
    <3>3. CASE w # v
      <4>1. job'[v].at = job[v].at
        BY <1>1, <2>2, <3>3
           DEF HGet, HSet, RedisError, PushToMembers, Goto, GotoWith
      <4> QED
        BY <4>1
    <3> QED
      BY <3>2, <3>3
  <2>3. ~(\E w \in Workers : LoginPanics(w)) /\ ~Crash
    BY <1>1 DEF LoginPanics, Crash, End, Idle
  <2>4. UNCHANGED vars => job'[v] = job[v]
    BY DEF vars
  <2> QED
    BY <1>4, <2>1, <2>2, <2>3, <2>4 DEF Next, Visits, Step
<1>6. ASSUME job[v].at \notin Entering
      PROVE  /\ job[v].at \in GroupEdits
             /\ HSet(v) \/ Touched(job[v].req) \subseteq cut'
  <2>1. job[v].at \in Edits /\ job[v].at \notin Entering
    BY <1>5, <1>6
  <2>2. job[v].at \in GroupEdits
    <3>1. Fits(job'[v])
      BY RecordsTypeStep DEF TypeInv
    <3>2. job'[v].req \in Creation \cup Appointment \cup Answer
      BY <3>1 DEF Fits, Entering
    <3> QED
      BY <1>1, <1>2, <2>1, <3>2, RequestOps DEF Fits, Edits, Entering, GroupEdits
  <2>3. ~(HGet(v) /\ Refuses(job[v].at, job[v].req,
                             db[Key(job[v].at, job[v].req)]))
    <3>1. HGet(v) => After(job[v].at, job[v].req, FALSE) \notin Entering
      BY <2>2 DEF HGet, After, Entering, GroupEdits
    <3> QED
      BY <1>3, <2>1, <3>1 DEF HGet
  <2> QED
    BY <2>1, <2>2, <2>3, HandlerSteps DEF Lost, PushToMembers, At, Edits
<1> QED
  BY <1>2, <1>5, <1>6

LEMMA GroupWritten ==
  ASSUME TypeInv, NEW w \in Workers, HSet(w), job[w].at \in GroupEdits
  PROVE  LET r == job[w].req IN
         /\ r \in Creation \cup Appointment \cup Answer
         /\ r.group \in Groups /\ r.of \in Users
         /\ db'[r.group] # Missing /\ db'[r.group].role[r.of] = NewRole(r)
         /\ r.op = "create" => db'[r.group].leader = r.of
<1> DEFINE r == job[w].req
<1>1. job[w] \in Job /\ Fits(job[w])
  BY DEF TypeInv, TypeOK
<1>2. r \in Creation \cup Appointment \cup Answer /\ r.group \in Groups /\ r.of \in Users
  BY <1>1, RequestFields DEF Fits, GroupEdits
<1>3. /\ job[w].at \in Edits /\ Copy(w) # NoCopy
      /\ db'[r.group] = Changed(job[w].at, r, Copy(w))
  BY <1>1, SetSteps, KeyOfEdit
<1>4. db'[r.group] # Missing
  BY <1>3, ChangedFits, RecordsAssumption
<1>5. CASE job[w].at = "CreateGroupChat"
  <2>1. r.op = "create" /\ r.user = r.of
    BY <1>1, <1>5, RequestOps DEF Fits
  <2> QED
    BY <1>2, <1>3, <1>4, <1>5, <2>1 DEF Changed, NewGroupChat, NewRole
<1>6. CASE job[w].at = "AddNewManagerInGC"
  <2>1. r.op = "appoint" /\ Copy(w) \in GroupChat
    BY <1>1, <1>3, <1>6, RequestOps DEF Fits, Copy, At
  <2> QED
    BY <1>2, <1>3, <1>4, <1>6, <2>1 DEF Changed, Seated, NewRole, GroupChat
<1>7. CASE job[w].at = "AddNewMemberToGC"
  <2>1. r.op = "answer" /\ Copy(w) \in GroupChat
    BY <1>1, <1>3, <1>7, RequestOps DEF Fits, Copy, At
  <2> QED
    BY <1>2, <1>3, <1>4, <1>7, <2>1 DEF Changed, NewRole, GroupChat
<1> QED
  BY <1>5, <1>6, <1>7 DEF GroupEdits

EnteringInv ==
    \A w \in Workers :
        LET r == job[w].req IN
        job[w].at \in Entering /\ Untouched({r.group}) =>
            /\ db[r.group] # Missing /\ db[r.group].role[r.of] # "none"
            /\ r.op = "create" => db[r.group].leader = r.of

LEMMA EnteringInit == Init => EnteringInv
  BY DEF Init, EnteringInv, Idle, Entering

LEMMA EnteringStep ==
  ASSUME TypeInv, EnteringInv, [Next]_vars
  PROVE  EnteringInv'
<1> SUFFICES ASSUME NEW w \in Workers, job'[w].at \in Entering,
                    Untouched({job[w].req.group})'
             PROVE  LET r == job'[w].req IN
                    /\ db'[r.group] # Missing /\ db'[r.group].role[r.of] # "none"
                    /\ r.op = "create" => db'[r.group].leader = r.of
  BY DEF EnteringInv
<1> DEFINE r == job[w].req
<1>1. /\ job'[w].req = r
      /\ \/ job[w].at \in Entering
         \/ HSet(w) /\ job[w].at \in GroupEdits
         \/ Touched(r) \subseteq cut'
  BY EnteringSteps
<1>2. /\ Fits(job'[w]) /\ r \in Creation \cup Appointment \cup Answer
      /\ r.group \in Groups /\ r.of \in Users
  <2>1. Fits(job'[w])
    BY RecordsTypeStep DEF TypeInv
  <2> QED
    BY <1>1, <2>1, RequestFields DEF Fits, Entering
<1>3. Untouched({r.group}) /\ r.group \notin stale' \cup cut'
  BY <1>1, UntouchedBefore DEF Untouched
<1>4. ~(Touched(r) \subseteq cut')
  BY <1>2, <1>3, RequestOps DEF Touched
<1>5. CASE job[w].at \in Entering
  <2>1. /\ db[r.group] # Missing /\ db[r.group].role[r.of] # "none"
        /\ r.op = "create" => db[r.group].leader = r.of
    BY <1>3, <1>5 DEF EnteringInv
  <2> QED
    BY <1>1, <1>2, <1>3, <2>1, GroupStays
<1>6. CASE HSet(w) /\ job[w].at \in GroupEdits
  <2>1. NewRole(r) # "none"
    BY <1>2, RequestOps DEF NewRole
  <2> QED
    BY <1>1, <1>6, <2>1, GroupWritten
<1> QED
  BY <1>1, <1>4, <1>5, <1>6

-----------------------------------------------------------------------------
(* The groups of a user's record exist.                                    *)

\* What the groups of u's record, or of a copy of it, say of the groups.
Claims(u, rec) ==
    \A g \in Groups :
        Untouched({g}) /\ rec.groups[g] # "none" =>
            /\ db[g] # Missing
            /\ rec.groups[g] = "owner" => db[g].leader = u

ClaimsInv ==
    /\ \A u \in Users : db[u] # Missing => Claims(u, db[u])
    /\ \A w \in Workers :
         LET j == job[w] IN
         j.at \in Edits \ GroupEdits /\ j.copy \notin {NoCopy, Missing}
           => Claims(Key(j.at, j.req), j.copy)

LEMMA ClaimsStay ==
  ASSUME TypeInv, [Next]_vars, NEW u, NEW rec, Claims(u, rec),
         NEW g \in Groups, Untouched({g})', rec.groups[g] # "none"
  PROVE  db'[g] # Missing /\ (rec.groups[g] = "owner" => db'[g].leader = u)
<1>1. Untouched({g}) /\ g \notin stale'
  BY UntouchedBefore DEF Untouched
<1> QED
  BY <1>1, GroupStays DEF Claims

LEMMA ClaimsInit == Init => ClaimsInv
<1> SUFFICES ASSUME Init PROVE ClaimsInv
  OBVIOUS
<1>1. PICK s \in Scenarios : db = s.start
  BY DEF Init
<1>2. Consistent(db)
  BY <1>1, ScenariosAssumption
<1>3. ASSUME NEW u \in Users, db[u] # Missing
      PROVE  Claims(u, db[u])
  <2> SUFFICES ASSUME NEW g \in Groups, db[u].groups[g] # "none"
               PROVE  /\ db[g] # Missing
                      /\ db[u].groups[g] = "owner" => db[g].leader = u
    BY DEF Claims
  <2>1. db[g] # Missing /\ db[u].groups[g] = db[g].role[u]
    BY <1>2, <1>3 DEF Consistent
  <2>2. RoleFits(db[g], u)
    BY <1>2, <2>1 DEF Consistent
  <2> QED
    BY <2>1, <2>2 DEF RoleFits
<1>4. \A w \in Workers : job[w].copy = NoCopy
  BY DEF Init, Idle
<1> QED
  BY <1>3, <1>4 DEF ClaimsInv

LEMMA ClaimsStep ==
  ASSUME TypeInv, EnteringInv, ClaimsInv, [Next]_vars
  PROVE  ClaimsInv'
<1>1. ASSUME NEW u \in Users, db'[u] # Missing
      PROVE  Claims(u, db[u])'
  <2> SUFFICES ASSUME NEW g \in Groups, Untouched({g})', db'[u].groups[g] # "none"
               PROVE  /\ db'[g] # Missing
                      /\ db'[u].groups[g] = "owner" => db'[g].leader = u
    BY DEF Claims
  <2>1. CASE db'[u] = db[u]
    BY <1>1, <2>1, ClaimsStay DEF ClaimsInv
  <2>2. CASE db'[u] # db[u]
    <3>1. PICK w \in Workers :
            /\ job[w].at \in Edits /\ Copy(w) # NoCopy
            /\ Key(job[w].at, job[w].req) = u
            /\ db'[u] = Changed(job[w].at, job[w].req, Copy(w))
      BY <2>2, RecordSteps DEF Keys
    <3> DEFINE r == job[w].req
    <3>2. job[w] \in Job /\ Fits(job[w])
      BY DEF TypeInv, TypeOK
    <3>3. job[w].at \in Edits \ GroupEdits
      BY <3>1, <3>2, KeyOfEdit, RecordsAssumption
    <3>4. job[w].at # "Register"
      BY <3>1 DEF Changed, NewAccount
    <3>5. Copy(w) = job[w].copy /\ Copy(w) \in Account
      BY <3>1, <3>2, <3>3, <3>4 DEF Copy, At, GroupEdits, Edits, Fits
    <3>6. Claims(u, Copy(w))
      BY <3>1, <3>3, <3>5, RecordsAssumption DEF ClaimsInv
    <3>7. CASE db'[u].groups[g] = Copy(w).groups[g]
      BY <3>6, <3>7, ClaimsStay
    <3>8. CASE job[w].at = "UpdateUserNewGC" /\ g = r.group
      <4>1. db'[u].groups[g] = NewRole(r)
        BY <3>1, <3>5, <3>8 DEF Changed, Account
      <4>2. r \in Creation \cup Appointment \cup Answer /\ r.of = u
        BY <3>1, <3>2, <3>8 DEF Fits, Key
      <4>3. Untouched({g}) /\ g \notin stale'
        BY UntouchedBefore DEF Untouched
      <4>4. db[g] # Missing /\ (r.op = "create" => db[g].leader = u)
        BY <3>8, <4>2, <4>3 DEF EnteringInv, Entering
      <4>5. NewRole(r) = "owner" => r.op = "create"
        BY <4>2, RequestOps DEF NewRole
      <4> QED
        BY <4>1, <4>3, <4>4, <4>5, GroupStays
    <3>9. ~(job[w].at = "UpdateUserNewGC" /\ g = r.group) =>
             db'[u].groups[g] = Copy(w).groups[g]
      BY <3>1, <3>3, <3>4, <3>5 DEF Changed, Account, Edits, GroupEdits
    <3> QED
      BY <3>7, <3>8, <3>9
  <2> QED
    BY <2>1, <2>2
<1>2. ASSUME NEW v \in Workers, job'[v].at \in Edits \ GroupEdits,
             job'[v].copy \notin {NoCopy, Missing}
      PROVE  Claims(Key(job[v].at, job[v].req), job[v].copy)'
  <2> SUFFICES ASSUME NEW g \in Groups, Untouched({g})',
                      job'[v].copy.groups[g] # "none"
               PROVE  /\ db'[g] # Missing
                      /\ job'[v].copy.groups[g] = "owner" =>
                           db'[g].leader = Key(job'[v].at, job'[v].req)
    BY DEF Claims
  <2>1. job[v] \in Job /\ Fits(job[v])
    BY DEF TypeInv, TypeOK
  <2>2. Claims(Key(job'[v].at, job'[v].req), job'[v].copy)
    <3>1. CASE job'[v] = job[v]
      BY <1>2, <3>1 DEF ClaimsInv
    <3>2. CASE /\ job[v].at \in Edits \ {"CreateGroupChat"}
               /\ job'[v] = [job[v] EXCEPT !.copy = db[Key(job[v].at, job[v].req)]]
      <4>1. /\ job'[v].at = job[v].at /\ job'[v].req = job[v].req
            /\ job'[v].copy = db[Key(job[v].at, job[v].req)]
        BY <2>1, <3>2 DEF Job
      <4>2. Key(job[v].at, job[v].req) \in Users
        BY <1>2, <2>1, <4>1, KeyOfEdit
      <4> QED
        BY <1>2, <4>1, <4>2 DEF ClaimsInv
    <3>3. CASE job'[v] = [job[v] EXCEPT !.at = "PushToManagers",
                                        !.copy = db[job[v].req.group]]
      BY <1>2, <2>1, <3>3 DEF Job, Edits
    <3> QED
      BY <1>2, <3>1, <3>2, <3>3, CopySteps
  <2> QED
    BY <2>2, ClaimsStay
<1> QED
  BY <1>1, <1>2 DEF ClaimsInv

\* A group that a user's record names is stored, and is led by the user if
\* the record says they own it, whatever writes to the users' records are
\* lost: CreateGroupChat and AddNewMemberToGC write the group's first.
THEOREM GroupsExist == Spec => []NoPhantomGroup
<1>1. TypeInv /\ ClaimsInv => NoPhantomGroup
  BY DEF NoPhantomGroup, ClaimsInv, Claims, RoleOf, Untouched
<1>2. TypeInv /\ EnteringInv /\ [Next]_vars => EnteringInv'
  BY EnteringStep
<1>3. TypeInv /\ EnteringInv /\ ClaimsInv /\ [Next]_vars => ClaimsInv'
  BY ClaimsStep
<1> QED
  BY <1>1, <1>2, <1>3, EnteringInit, ClaimsInit, RecordsTypeInvariant,
     PTL DEF Spec

-----------------------------------------------------------------------------
(* A user's record and a group's agree.                                    *)

\* w has put u down in g's record and has yet to put g down in u's.
Mid(w, u, g) ==
    job[w].at \in Entering /\ job[w].req.of = u /\ job[w].req.group = g

MemberOfBoth ==
    \A u \in Users, g \in Groups :
        Untouched({u, g}) =>
            /\ RoleOf(u, g) # "none" => RoleIn(u, g) # "none"
            /\ RoleIn(u, g) # "none" =>
                 RoleOf(u, g) # "none" \/ \E w \in Workers : Mid(w, u, g)

SameInBoth ==
    \A u \in Users, g \in Groups :
        Untouched({u, g}) /\ {u, g} \notin crossed =>
            /\ (\A w \in Workers : ~Mid(w, u, g)) => RoleOf(u, g) = RoleIn(u, g)
            /\ \A w \in Workers : Mid(w, u, g) => RoleIn(u, g) = NewRole(job[w].req)
            /\ \A v, w \in Workers : Mid(v, u, g) /\ Mid(w, u, g) => v = w

LEMMA RoleInSteps ==
  ASSUME TypeInv, [Next]_vars, NEW u \in Users, NEW g \in Groups,
         Untouched({g})', RoleIn(u, g)' # RoleIn(u, g)
  PROVE  \E w \in Workers : /\ HSet(w) /\ job[w].at \in GroupEdits
                            /\ job[w].req.of = u /\ job[w].req.group = g
<1>1. g \in Keys /\ db'[g] # db[g] /\ g \notin stale' \cup cut'
  BY DEF Keys, RoleIn, Untouched
<1>2. PICK w \in Workers :
         /\ HSet(w) \/ RedisError(w)
         /\ job[w].at \in Edits /\ Copy(w) # NoCopy
         /\ Key(job[w].at, job[w].req) = g
         /\ db'[g] = Changed(job[w].at, job[w].req, Copy(w))
         /\ Copy(w) = db[g]
  BY <1>1, RecordSteps
<1> DEFINE r == job[w].req
<1>3. job[w] \in Job /\ Fits(job[w])
  BY DEF TypeInv, TypeOK
<1>4. job[w].at \in GroupEdits /\ r.group = g
  BY <1>2, <1>3, KeyOfEdit, RecordsAssumption
<1>5. r \in Creation \cup Appointment \cup Answer /\ r.of \in Users
  BY <1>3, <1>4, RequestFields DEF Fits, GroupEdits
<1>6. HSet(w)
  <2>1. g \in Touched(r)
    BY <1>4, <1>5, RequestOps DEF Touched
  <2> QED
    BY <1>1, <1>2, <2>1 DEF RedisError
<1>7. r.of = u
  <2>1. CASE job[w].at = "CreateGroupChat"
    <3>1. db[g] = Missing /\ r.user = r.of
      BY <1>2, <1>3, <2>1 DEF Copy, At, Fits
    <3>2. /\ db'[g] # Missing
          /\ db'[g].role[u] = IF u = r.of THEN "owner" ELSE "none"
      <4>1. db'[g] # Missing
        BY <1>2, <1>4, ChangedFits, RecordsAssumption
      <4> QED
        BY <1>2, <2>1, <3>1, <4>1 DEF Changed, NewGroupChat
    <3> QED
      BY <3>1, <3>2 DEF RoleIn
  <2>2. CASE job[w].at # "CreateGroupChat"
    <3>1. db[g] \in GroupChat /\ db[g] # Missing /\ db'[g] # Missing
      BY <1>2, <1>3, <1>4, <2>2, ChangedFits, RecordsAssumption
         DEF Copy, At, Fits, GroupEdits
    <3>2. u # r.of => db'[g].role[u] = db[g].role[u]
      BY <1>2, <1>4, <2>2, <3>1 DEF Changed, Seated, GroupChat, GroupEdits
    <3> QED
      BY <3>1, <3>2 DEF RoleIn
  <2> QED
    BY <2>1, <2>2
<1> QED
  BY <1>4, <1>6, <1>7

LEMMA UserWritten ==
  ASSUME TypeInv, NEW w \in Workers, HSet(w), job[w].at = "UpdateUserNewGC"
  PROVE  LET r == job[w].req IN
         db'[r.of] # Missing /\ db'[r.of].groups[r.group] = NewRole(r)
<1> DEFINE r == job[w].req
<1>1. job[w] \in Job /\ Fits(job[w])
  BY DEF TypeInv, TypeOK
<1>2. /\ Copy(w) # NoCopy /\ Copy(w) = job[w].copy
      /\ db'[r.of] = Changed(job[w].at, r, Copy(w))
  BY SetSteps DEF Key, Copy, At
<1>3. Copy(w) \in Account /\ r.group \in Groups
  BY <1>1, <1>2, RequestFields DEF Fits
<1>4. db'[r.of] # Missing
  BY <1>2, ChangedFits, RecordsAssumption DEF GroupEdits, Edits
<1> QED
  BY <1>2, <1>3, <1>4 DEF Changed, Account

LEMMA RoleOfSteps ==
  ASSUME TypeInv, [Next]_vars, NEW u \in Users, NEW g \in Groups,
         Untouched({u})', RoleOf(u, g)' # RoleOf(u, g)
  PROVE  \E w \in Workers : /\ HSet(w) /\ job[w].at = "UpdateUserNewGC"
                            /\ job[w].req.of = u /\ job[w].req.group = g
<1>1. u \in Keys /\ db'[u] # db[u] /\ u \notin stale' \cup cut'
  BY DEF Keys, RoleOf, Untouched
<1>2. PICK w \in Workers :
         /\ HSet(w) \/ RedisError(w)
         /\ job[w].at \in Edits /\ Copy(w) # NoCopy
         /\ Key(job[w].at, job[w].req) = u
         /\ db'[u] = Changed(job[w].at, job[w].req, Copy(w))
         /\ Copy(w) = db[u]
  BY <1>1, RecordSteps
<1> DEFINE r == job[w].req
<1>3. job[w] \in Job /\ Fits(job[w])
  BY DEF TypeInv, TypeOK
<1>4. job[w].at \in Edits \ GroupEdits /\ db'[u] # Missing
  BY <1>2, <1>3, KeyOfEdit, ChangedFits, RecordsAssumption
<1>5. job[w].at # "Register"
  <2>1. CASE job[w].at = "Register"
    <3>1. db[u] = Missing
      BY <1>2, <1>3, <2>1 DEF Copy, At, Fits
    <3>2. db'[u].groups[g] = "none"
      BY <1>2, <2>1 DEF Changed, NewAccount
    <3> QED
      BY <1>4, <3>1, <3>2 DEF RoleOf
  <2> QED
    BY <2>1
<1>6. db[u] \in Account /\ db[u] # Missing
  BY <1>2, <1>3, <1>4, <1>5, RecordsAssumption
     DEF Copy, At, GroupEdits, Edits, Fits
<1>7. job[w].at = "UpdateUserNewGC" /\ r.group = g
  <2>1. db'[u].groups[g] # db[u].groups[g]
    BY <1>4, <1>6 DEF RoleOf
  <2> QED
    BY <1>2, <1>4, <1>5, <1>6, <2>1 DEF Changed, Account, Edits, GroupEdits
<1>8. r.of = u /\ r \in Creation \cup Appointment \cup Answer
  BY <1>2, <1>3, <1>7 DEF Key, Fits
<1>9. HSet(w)
  <2>1. u \in Touched(r)
    BY <1>8, RequestOps DEF Touched
  <2> QED
    BY <1>1, <1>2, <2>1 DEF RedisError
<1> QED
  BY <1>7, <1>8, <1>9

LEMMA MidBegins ==
  ASSUME TypeInv, NEW w \in Workers, HSet(w), job[w].at \in GroupEdits
  PROVE  Mid(w, job[w].req.of, job[w].req.group)'
<1>1. After(job[w].at, job[w].req, TRUE) \in Entering
  BY DEF After, Entering, GroupEdits
<1>2. /\ job'[w].at = After(job[w].at, job[w].req, TRUE)
      /\ job'[w].req = job[w].req
  BY <1>1, SetSteps DEF Entering
<1> QED
  BY <1>1, <1>2 DEF Mid

LEMMA MidTouches ==
  ASSUME TypeInv, NEW w \in Workers, NEW u \in Users, NEW g \in Groups,
         Mid(w, u, g) \/ (/\ job[w].at \in GroupEdits
                          /\ job[w].req.of = u /\ job[w].req.group = g)
  PROVE  Touched(job[w].req) = {u, g}
<1>1. Fits(job[w])
  BY DEF TypeInv
<1>2. job[w].req \in Creation \cup Appointment \cup Answer
  BY <1>1 DEF Fits, Mid, Entering, GroupEdits
<1> QED
  BY <1>2, RequestOps DEF Touched, Mid

LEMMA MidEnds ==
  ASSUME TypeInv, NamesInv, [Next]_vars, NEW w \in Workers,
         NEW u \in Users, NEW g \in Groups,
         Mid(w, u, g), Untouched({u, g})'
  PROVE  Mid(w, u, g)' \/ (HSet(w) /\ job[w].at = "UpdateUserNewGC")
<1> DEFINE r == job[w].req
<1>1. /\ job[w] \in Job /\ Fits(job[w]) /\ Registered(Named(job[w]))
      /\ job \in [Workers -> Job]
  BY DEF TypeInv, TypeOK, NamesInv
<1>2. /\ job[w].at \in Entering /\ r.of = u /\ r.group = g
      /\ job[w].at \in Edits \cup {"PushToMembers"}
  BY DEF Mid, Entering, Edits
<1>3. ~Lost(w)
  BY MidTouches DEF Lost, Untouched
<1>4. CASE job'[w].at = job[w].at /\ job'[w].req = r
  BY <1>2, <1>4 DEF Mid
<1>5. CASE HSet(w)
  BY <1>2, <1>5 DEF HSet, Write, Entering, Edits
<1>6. CASE HGet(w) /\ Refuses(job[w].at, r, db[Key(job[w].at, r)])
  <2>1. job[w].at = "UpdateUserNewGC"
    BY <1>2, <1>6 DEF HGet, Entering, Edits
  <2>2. Key(job[w].at, r) = u /\ db[u] # Missing
    BY <1>1, <1>2, <2>1 DEF Key, Registered, Named
  <2> QED
    BY <1>6, <2>1, <2>2 DEF Refuses
<1>7. CASE PushToMembers(w)
  BY <1>1, <1>2, <1>7 DEF PushToMembers, GotoWith, After, Job, Mid, Entering
<1> QED
  BY <1>2, <1>3, <1>4, <1>5, <1>6, <1>7, HandlerSteps

LEMMA MidComesFrom ==
  ASSUME TypeInv, [Next]_vars, NEW w \in Workers, NEW u \in Users,
         NEW g \in Groups, Mid(w, u, g)', Untouched({u, g})'
  PROVE  /\ job'[w].req = job[w].req
         /\ \/ Mid(w, u, g)
            \/ /\ HSet(w) /\ job[w].at \in GroupEdits
               /\ job[w].req.of = u /\ job[w].req.group = g
<1>1. /\ job'[w].at \in Entering /\ job'[w].req.of = u /\ job'[w].req.group = g
      /\ job'[w].req = job[w].req
      /\ job[w].at \in Entering \cup GroupEdits
      /\ \/ job[w].at \in Entering
         \/ HSet(w)
         \/ Touched(job[w].req) \subseteq cut'
  BY EnteringSteps DEF Mid
<1>2. ~(Touched(job[w].req) \subseteq cut')
  BY <1>1, MidTouches DEF Untouched, Mid
<1> QED
  BY <1>1, <1>2 DEF Mid

LEMMA WritesCross ==
  ASSUME TypeInv, NEW v \in Workers, NEW w \in Workers, v # w,
         NEW u \in Users, NEW g \in Groups, Mid(v, u, g),
         HSet(w), Touched(job[w].req) = {u, g}
  PROVE  {u, g} \in crossed'
<1>1. Cardinality({u, g}) = 2
  <2>1. u # g
    BY RecordsAssumption
  <2>2. IsFiniteSet({u}) /\ Cardinality({u}) = 1
    BY FS_Singleton
  <2>3. Cardinality({u} \cup {g}) = Cardinality({u}) + 1
    BY <2>1, <2>2, FS_AddElement
  <2>4. {u} \cup {g} = {u, g}
    OBVIOUS
  <2> QED
    BY <2>2, <2>3, <2>4
<1>2. Touched(job[v].req) = {u, g}
  BY MidTouches
<1>3. job[v].at \in Edits \cup {"PushToMembers"} /\ v \in Workers \ {w}
  BY DEF Mid, Entering, Edits
<1> QED
  BY <1>1, <1>2, <1>3 DEF HSet, Write

LEMMA MemberInit == Init => MemberOfBoth /\ SameInBoth
<1> SUFFICES ASSUME Init PROVE MemberOfBoth /\ SameInBoth
  OBVIOUS
<1>1. PICK s \in Scenarios : db = s.start
  BY DEF Init
<1>2. Consistent(db)
  BY <1>1, ScenariosAssumption
<1>3. \A u \in Users, g \in Groups : RoleOf(u, g) = RoleIn(u, g)
  BY <1>2 DEF Consistent, RoleOf, RoleIn
<1>4. \A w \in Workers : \A u, g : ~Mid(w, u, g)
  BY DEF Init, Idle, Mid, Entering
<1> QED
  BY <1>3, <1>4 DEF MemberOfBoth, SameInBoth

LEMMA UntouchedParts ==
  ASSUME NEW u, NEW g, Untouched({u, g})'
  PROVE  Untouched({u})' /\ Untouched({g})' /\ u \notin stale' /\ g \notin stale'
  BY DEF Untouched

LEMMA NewRoleIsRole ==
  \A r \in Creation \cup Appointment \cup Answer : NewRole(r) # "none"
  BY RequestOps DEF NewRole

LEMMA MemberOfBothStep ==
  ASSUME TypeInv, NamesInv, EnteringInv, MemberOfBoth, [Next]_vars
  PROVE  MemberOfBoth'
<1> SUFFICES ASSUME NEW u \in Users, NEW g \in Groups, Untouched({u, g})'
             PROVE  /\ RoleOf(u, g)' # "none" => RoleIn(u, g)' # "none"
                    /\ RoleIn(u, g)' # "none" =>
                         \/ RoleOf(u, g)' # "none"
                         \/ \E w \in Workers : Mid(w, u, g)'
  BY DEF MemberOfBoth
<1>1. /\ RoleOf(u, g) # "none" => RoleIn(u, g) # "none"
      /\ RoleIn(u, g) # "none" =>
           RoleOf(u, g) # "none" \/ \E w \in Workers : Mid(w, u, g)
  BY UntouchedBefore DEF MemberOfBoth
<1>2. RoleIn(u, g) # "none" => RoleIn(u, g)' # "none"
  BY UntouchedParts, GroupStays DEF RoleIn
<1>3. RoleOf(u, g) # "none" => RoleOf(u, g)' # "none"
  BY UntouchedParts, UserStays DEF RoleOf
<1>4. ASSUME NEW w \in Workers, HSet(w), job[w].at = "UpdateUserNewGC",
             job[w].req.of = u, job[w].req.group = g
      PROVE  RoleOf(u, g)' # "none" /\ RoleIn(u, g) # "none"
  <2>1. job[w].req \in Creation \cup Appointment \cup Answer
    BY <1>4 DEF TypeInv, Fits
  <2>2. RoleOf(u, g)' # "none"
    BY <1>4, <2>1, UserWritten, NewRoleIsRole DEF RoleOf
  <2>3. Untouched({g})
    BY UntouchedParts, UntouchedBefore
  <2> QED
    BY <1>4, <2>2, <2>3 DEF EnteringInv, Entering, RoleIn
<1>5. RoleOf(u, g)' # "none" => RoleIn(u, g)' # "none"
  <2>1. CASE RoleOf(u, g)' = RoleOf(u, g)
    BY <1>1, <1>2, <2>1
  <2>2. CASE RoleOf(u, g)' # RoleOf(u, g)
    <3>1. PICK w \in Workers : /\ HSet(w) /\ job[w].at = "UpdateUserNewGC"
                               /\ job[w].req.of = u /\ job[w].req.group = g
      <4>1. Untouched({u})'
        BY UntouchedParts
      <4> QED
        BY <2>2, <4>1, RoleOfSteps
    <3> QED
      BY <1>2, <1>4, <3>1
  <2> QED
    BY <2>1, <2>2
<1>6. ASSUME RoleIn(u, g)' # "none"
      PROVE  RoleOf(u, g)' # "none" \/ \E w \in Workers : Mid(w, u, g)'
  <2>1. CASE RoleIn(u, g)' = RoleIn(u, g)
    <3>1. CASE RoleOf(u, g) # "none"
      BY <1>3, <3>1
    <3>2. ASSUME NEW w \in Workers, Mid(w, u, g)
          PROVE  RoleOf(u, g)' # "none" \/ Mid(w, u, g)'
      <4>1. Mid(w, u, g)' \/ (HSet(w) /\ job[w].at = "UpdateUserNewGC")
        BY <3>2, MidEnds
      <4> QED
        BY <1>4, <3>2, <4>1 DEF Mid
    <3> QED
      BY <1>1, <1>6, <2>1, <3>1, <3>2
  <2>2. CASE RoleIn(u, g)' # RoleIn(u, g)
    <3>1. PICK w \in Workers : /\ HSet(w) /\ job[w].at \in GroupEdits
                               /\ job[w].req.of = u /\ job[w].req.group = g
      BY <2>2, UntouchedParts, RoleInSteps
    <3>2. Mid(w, job[w].req.of, job[w].req.group)'
      BY <3>1, MidBegins
    <3>3. job'[w].req = job[w].req
      BY <3>2, EnteringSteps DEF Mid
    <3> QED
      BY <3>1, <3>2, <3>3 DEF Mid
  <2> QED
    BY <2>1, <2>2
<1> QED
  BY <1>5, <1>6

LEMMA SameInBothStep ==
  ASSUME TypeInv, NamesInv, SameInBoth, [Next]_vars
  PROVE  SameInBoth'
<1> SUFFICES ASSUME NEW u \in Users, NEW g \in Groups, Untouched({u, g})',
                    {u, g} \notin crossed'
             PROVE  /\ (\A w \in Workers : ~Mid(w, u, g)') =>
                         RoleOf(u, g)' = RoleIn(u, g)'
                    /\ \A w \in Workers :
                         Mid(w, u, g)' => RoleIn(u, g)' = NewRole(job'[w].req)
                    /\ \A v, w \in Workers :
                         Mid(v, u, g)' /\ Mid(w, u, g)' => v = w
  BY DEF SameInBoth
<1>1. /\ (\A w \in Workers : ~Mid(w, u, g)) => RoleOf(u, g) = RoleIn(u, g)
      /\ \A w \in Workers : Mid(w, u, g) => RoleIn(u, g) = NewRole(job[w].req)
      /\ \A v, w \in Workers : Mid(v, u, g) /\ Mid(w, u, g) => v = w
  BY UntouchedBefore, HistoryGrows DEF SameInBoth
<1> DEFINE Enters(w) == /\ HSet(w) /\ job[w].at \in GroupEdits
                        /\ job[w].req.of = u /\ job[w].req.group = g
<1>2. ASSUME NEW v \in Workers, NEW w \in Workers, Mid(v, u, g), Enters(w)
      PROVE  FALSE
  <2>1. v # w
    BY <1>2 DEF Mid, Entering, GroupEdits
  <2>2. Touched(job[w].req) = {u, g}
    BY <1>2, MidTouches
  <2> QED
    BY <1>2, <2>1, <2>2, WritesCross
<1>3. ASSUME NEW w \in Workers, Enters(w)
      PROVE  Mid(w, u, g)' /\ RoleIn(u, g)' = NewRole(job[w].req)
  <2>1. Mid(w, job[w].req.of, job[w].req.group)'
    BY <1>3, MidBegins
  <2>2. job'[w].req = job[w].req
    BY <2>1, EnteringSteps DEF Mid
  <2>3. RoleIn(u, g)' = NewRole(job[w].req)
    BY <1>3, GroupWritten DEF RoleIn
  <2> QED
    BY <1>3, <2>1, <2>2, <2>3 DEF Mid
<1>4. RoleIn(u, g)' # RoleIn(u, g) => \E w \in Workers : Enters(w)
  BY UntouchedParts, RoleInSteps
<1>5. ASSUME \A w \in Workers : ~Mid(w, u, g)'
      PROVE  RoleOf(u, g)' = RoleIn(u, g)'
  <2>1. RoleIn(u, g)' = RoleIn(u, g)
    BY <1>3, <1>4, <1>5
  <2>2. CASE \A w \in Workers : ~Mid(w, u, g)
    <3>1. RoleOf(u, g)' = RoleOf(u, g)
      <4>1. Untouched({u})'
        BY UntouchedParts
      <4>2. ASSUME RoleOf(u, g)' # RoleOf(u, g)
            PROVE  FALSE
        <5>1. PICK w \in Workers : /\ HSet(w) /\ job[w].at = "UpdateUserNewGC"
                                   /\ job[w].req.of = u /\ job[w].req.group = g
          BY <4>1, <4>2, RoleOfSteps
        <5> QED
          BY <2>2, <5>1 DEF Mid, Entering
      <4> QED
        BY <4>2
    <3> QED
      BY <1>1, <2>1, <2>2, <3>1
  <2>3. ASSUME NEW w \in Workers, Mid(w, u, g)
        PROVE  RoleOf(u, g)' = RoleIn(u, g)'
    <3>1. HSet(w) /\ job[w].at = "UpdateUserNewGC"
      BY <1>5, <2>3, MidEnds
    <3>2. RoleOf(u, g)' = NewRole(job[w].req)
      BY <2>3, <3>1, UserWritten DEF RoleOf, Mid
    <3> QED
      BY <1>1, <2>1, <2>3, <3>2
  <2> QED
    BY <2>2, <2>3
<1>6. ASSUME NEW w \in Workers, Mid(w, u, g)'
      PROVE  RoleIn(u, g)' = NewRole(job'[w].req)
  <2>1. job'[w].req = job[w].req /\ (Mid(w, u, g) \/ Enters(w))
    BY <1>6, MidComesFrom
  <2>2. CASE Enters(w)
    BY <1>3, <2>1, <2>2
  <2>3. CASE Mid(w, u, g)
    <3>1. RoleIn(u, g)' = RoleIn(u, g)
      BY <1>2, <1>4, <2>3
    <3> QED
      BY <1>1, <2>1, <2>3, <3>1
  <2> QED
    BY <2>1, <2>2, <2>3
<1>7. ASSUME NEW v \in Workers, NEW w \in Workers, Mid(v, u, g)', Mid(w, u, g)'
      PROVE  v = w
  <2>1. (Mid(v, u, g) \/ Enters(v)) /\ (Mid(w, u, g) \/ Enters(w))
    BY <1>7, MidComesFrom
  <2>2. CASE Mid(v, u, g) /\ Mid(w, u, g)
    BY <1>1, <2>2
  <2>3. CASE Enters(v) /\ Enters(w)
    <3>1. v # w => job'[v].at = job[v].at
      BY <2>3 DEF HSet, Goto, GotoWith, TypeInv, TypeOK
    <3> QED
      BY <1>7, <2>3, <3>1 DEF Mid, Entering, GroupEdits
  <2> QED
    BY <1>2, <2>1, <2>2, <2>3
<1> QED
  BY <1>5, <1>6, <1>7

\* When no handler is at work on a user and a group and no failure and no
\* lost write has met their records, the user is a member in both or in
\* neither, and has the same role in both unless two handlers were changing
\* it at once: HSet of the group, then UpdateUserNewGC.
THEOREM MembershipsAgree == Spec => []MembershipAgrees
<1>1. TypeInv /\ MemberOfBoth /\ SameInBoth => MembershipAgrees
  <2> SUFFICES ASSUME TypeInv, MemberOfBoth, SameInBoth,
                      NEW u \in Users, NEW g \in Groups, Settled(u, g)
               PROVE  /\ RoleOf(u, g) = "none" <=> RoleIn(u, g) = "none"
                      /\ {u, g} \notin crossed => RoleOf(u, g) = RoleIn(u, g)
    BY DEF MembershipAgrees
  <2>1. ASSUME NEW w \in Workers, Mid(w, u, g)
        PROVE  FALSE
    <3>1. w \in Busy /\ Touched(job[w].req) = {u, g}
      BY <2>1, MidTouches DEF Mid, Entering, Busy, At
    <3> QED
      BY <3>1 DEF Settled
  <2> QED
    BY <2>1 DEF Settled, Untouched, MemberOfBoth, SameInBoth
<1>2. TypeInv /\ WholeInv /\ [Next]_vars => WholeInv'
  BY WholeStep
<1>3. TypeInv /\ WholeInv /\ NamesInv /\ [Next]_vars => NamesInv'
  BY NamesStep
<1>4. TypeInv /\ EnteringInv /\ [Next]_vars => EnteringInv'
  BY EnteringStep
<1>5. TypeInv /\ NamesInv /\ EnteringInv /\ MemberOfBoth /\ [Next]_vars
        => MemberOfBoth'
  BY MemberOfBothStep
<1>6. TypeInv /\ NamesInv /\ SameInBoth /\ [Next]_vars => SameInBoth'
  BY SameInBothStep
<1> QED
  BY <1>1, <1>2, <1>3, <1>4, <1>5, <1>6, WholeInit, NamesInit, EnteringInit,
     MemberInit, RecordsTypeInvariant, PTL DEF Spec

-----------------------------------------------------------------------------
(* The way of an application: sent, recorded, decided.                     *)

Fresh == {App(r) : r \in {x \in todo : x.op = "apply"}}

Applies(w, a) ==
    job[w].at \in {"GetGroupChat", "PushToManagers"} /\ App(job[w].req) = a

Answers(w, a) ==
    /\ job[w].at # "idle" /\ job[w].req.op = "answer"
    /\ App(job[w].req) = a

Dealt(a) ==
    \/ a \in applied \/ \E m \in Users : <<m, a>> \in asked \cup decided
    \/ \E w \in Workers : Answers(w, a)

\* An application is sent once, and handled by one worker until it is
\* recorded.
SentOnce ==
    \A a \in Application :
        /\ a \in Fresh => ~Dealt(a)
        /\ \A w \in Workers : Applies(w, a) => a \notin Fresh /\ ~Dealt(a)
        /\ \A v, w \in Workers : Applies(v, a) /\ Applies(w, a) => v = w

\* It is decided when it is taken out of the map.
OpenUntilDecided ==
    /\ \A a \in applied : \A m \in Users : <<m, a>> \notin decided
    /\ \A w \in Workers : At(w, "DeleteApplication") =>
                            App(job[w].req) \in applied \cup raced
    /\ \A a \in Application \ raced : \A m, n \in Users :
         <<m, a>> \in decided /\ <<n, a>> \in decided => m = n

LEMMA AppIsInjective ==
  ASSUME NEW r \in Applying, NEW t \in Applying, App(r) = App(t)
  PROVE  r = t
  BY DEF Applying, App

LEMMA AppliesFrom ==
  ASSUME TypeInv, [Next]_vars, NEW w \in Workers, NEW a, Applies(w, a)'
  PROVE  \/ Applies(w, a)
         \/ job[w].at = "idle" /\ a \in Fresh /\ a \notin Fresh'
<1>1. /\ job'[w].at \in {"GetGroupChat", "PushToManagers"}
      /\ App(job'[w].req) = a
  BY DEF Applies
<1>2. job'[w].req \in Applying
  BY <1>1, RecordsTypeStep DEF TypeInv, Fits
<1>3. CASE job[w].at # "idle" /\ job'[w].req = job[w].req
  <2>1. job[w] \in Job /\ Fits(job[w])
    BY DEF TypeInv, TypeOK
  <2>2. job[w].at \in {"GetGroupChat", "PushToManagers"}
    BY <1>2, <1>3, <2>1, RequestOps DEF Fits, Job, Places, Edits
  <2> QED
    BY <1>1, <1>3, <2>2 DEF Applies
<1>4. ASSUME NEW r \in todo, job[w].at = "idle", todo' = todo \ {r},
             job'[w].req = r
      PROVE  job[w].at = "idle" /\ a \in Fresh /\ a \notin Fresh'
  <2>1. r \in Applying /\ r.op = "apply" /\ App(r) = a
    BY <1>1, <1>2, <1>4, RequestOps
  <2>2. \A t \in todo : t.op = "apply" /\ App(t) = a => t = r
    BY <2>1, SentByOp, AppIsInjective DEF TypeInv
  <2>3. a \in Fresh
    BY <2>1 DEF Fresh
  <2>4. a \notin Fresh'
    BY <1>4, <2>2 DEF Fresh
  <2> QED
    BY <1>4, <2>3, <2>4
<1> QED
  BY <1>1, <1>3, <1>4, RequestSteps

LEMMA AnswersFrom ==
  ASSUME TypeInv, [Next]_vars, NEW w \in Workers, NEW a, Answers(w, a)'
  PROVE  Answers(w, a) \/ \E m \in Users : <<m, a>> \in asked
<1>1. /\ job'[w].at # "idle" /\ job'[w].req.op = "answer"
      /\ App(job'[w].req) = a
  BY DEF Answers
<1>2. CASE job[w].at # "idle" /\ job'[w].req = job[w].req
  BY <1>1, <1>2 DEF Answers
<1>3. \A r \in todo : r.op # "answer"
  BY SentByOp DEF TypeInv
<1>4. ASSUME NEW ask \in asked, NEW yes \in BOOLEAN,
             job'[w].req = [op |-> "answer", user |-> ask[1],
                            of |-> ask[2].applier, group |-> ask[2].group,
                            time |-> ask[2].time, yes |-> yes]
      PROVE  \E m \in Users : <<m, a>> \in asked
  <2>1. ask \in Users \X Application
    BY DEF TypeInv, TypeOK
  <2>2. App(job'[w].req) = ask[2]
    BY <1>4, <2>1 DEF App, Application
  <2>3. ask[1] \in Users /\ ask = <<ask[1], a>>
    BY <1>1, <2>1, <2>2
  <2> QED
    BY <2>3
<1>5. ASSUME NEW r \in todo, NEW g \in Groups,
             job'[w].req = [op |-> "create", user |-> r.user,
                            of |-> r.user, group |-> g]
      PROVE  FALSE
  BY <1>1, <1>5
<1>6. ASSUME NEW r \in todo, job'[w].req = r
      PROVE  FALSE
  BY <1>1, <1>3, <1>6
<1> QED
  BY <1>1, <1>2, <1>4, <1>5, <1>6, RequestSteps

\* How the server's map, the managers' questions and the decisions change.
LEMMA ApplicationSteps ==
  ASSUME TypeInv, [Next]_vars
  PROVE  \/ /\ applied' = applied \/ (End /\ applied' = {})
            /\ asked' \subseteq asked /\ decided' = decided
         \/ \E w \in Workers :
              LET a == App(job[w].req) IN
              /\ PushToManagers(w) /\ applied' = applied \cup {a}
              /\ \A m, b : <<m, b>> \in asked' => <<m, b>> \in asked \/ b = a
              /\ decided' = decided
         \/ \E w \in Workers :
              LET a == App(job[w].req) IN
              /\ DeleteApplication(w) /\ applied' = applied \ {a}
              /\ asked' = asked /\ decided' = decided \cup {<<job[w].req.user, a>>}
<1> DEFINE Plain == /\ applied' = applied \/ (End /\ applied' = {})
                    /\ asked' \subseteq asked /\ decided' = decided
<1>1. ASSUME NEW w \in Workers, Begin(w) \/ BeginCreate(w) \/ BeginAnswer(w)
      PROVE  Plain
  BY <1>1 DEF Begin, BeginCreate, BeginAnswer, Unasked, history
<1>2. ASSUME NEW w \in Workers,
             \/ HGet(w) \/ HSet(w) \/ RedisError(w) \/ GetGroupChat(w)
             \/ CheckApplication(w) \/ PushToMembers(w) \/ Reply(w)
             \/ Login(w) \/ Visits(w) \/ LoginPanics(w)
      PROVE  Plain
  BY <1>2, VisitSteps DEF HGet, HSet, RedisError, GetGroupChat, CheckApplication,
              PushToMembers, Reply, Login, LoginPanics, End, Unasked, clients, history, VisitPlaces
<1>3. Crash \/ UNCHANGED vars => Plain
  BY DEF Crash, End, Unasked, vars, clients, sessions, history
<1>4. ASSUME NEW w \in Workers, PushToManagers(w)
      PROVE  LET a == App(job[w].req) IN
             /\ applied' = applied \cup {a} /\ decided' = decided
             /\ \A m, b : <<m, b>> \in asked' => <<m, b>> \in asked \/ b = a
  BY <1>4 DEF PushToManagers, history
<1>5. ASSUME NEW w \in Workers, DeleteApplication(w)
      PROVE  LET a == App(job[w].req) IN
             /\ applied' = applied \ {a} /\ asked' = asked
             /\ decided' = decided \cup {<<job[w].req.user, a>>}
  BY <1>5 DEF DeleteApplication, Deleted, clients
<1> QED
  BY <1>1, <1>2, <1>3, <1>4, <1>5 DEF Next, Visits, Step

\* A worker's step is its own, but for the end of the server.
LEMMA OwnSteps ==
  ASSUME TypeInv, [Next]_vars, NEW v \in Workers
  PROVE  \/ job'[v] = job[v]
         \/ End /\ job'[v] = Idle
         \/ Begin(v) \/ BeginCreate(v) \/ BeginAnswer(v)
         \/ Step(v) \/ RedisError(v) \/ Visits(v)
<1> DEFINE Own == \/ job'[v] = job[v]
                  \/ End /\ job'[v] = Idle
                  \/ Begin(v) \/ BeginCreate(v) \/ BeginAnswer(v)
                  \/ Step(v) \/ RedisError(v) \/ Visits(v)
<1>1. job \in [Workers -> Job]
  BY DEF TypeInv, TypeOK
<1>2. ASSUME NEW x \in Workers \ {v}, Begin(x) \/ BeginCreate(x) \/ BeginAnswer(x)
      PROVE  job'[v] = job[v]
  BY <1>1, <1>2 DEF Begin, BeginCreate, BeginAnswer, Start
<1>3. ASSUME NEW x \in Workers \ {v}, HGet(x) \/ GetGroupChat(x)
      PROVE  job'[v] = job[v]
  <2>1. \/ \E place : Goto(x, place)
        \/ \E rec : job' = [job EXCEPT ![x] = [@ EXCEPT !.copy = rec]]
        \/ \E rec : job' = [job EXCEPT ![x] = [@ EXCEPT !.at = "PushToManagers",
                                                        !.copy = rec]]
    BY <1>3 DEF HGet, GetGroupChat
  <2> QED
    BY <1>1, <2>1 DEF Goto
<1>4. ASSUME NEW x \in Workers \ {v},
             \/ HSet(x) \/ RedisError(x) \/ PushToManagers(x)
             \/ CheckApplication(x) \/ DeleteApplication(x)
             \/ PushToMembers(x) \/ Reply(x) \/ Login(x) \/ Visits(x)
      PROVE  job'[v] = job[v]
  <2>1. \/ \E place : Goto(x, place)
        \/ \E place, news : GotoWith(x, place, news)
    BY <1>4, VisitSteps DEF RedisError, HSet, PushToManagers, CheckApplication,
       DeleteApplication, PushToMembers, Reply, Login, VisitPlaces
  <2> QED
    BY <1>1, <2>1 DEF Goto, GotoWith
<1>5. (\E x \in Workers : LoginPanics(x)) \/ Crash => End /\ job'[v] = Idle
  BY DEF LoginPanics, Crash, End
<1>6. UNCHANGED vars => job'[v] = job[v]
  BY DEF vars
<1>7. ASSUME NEW x \in Workers,
             \/ Begin(x) \/ BeginCreate(x) \/ BeginAnswer(x)
             \/ Step(x) \/ RedisError(x) \/ Visits(x)
      PROVE  Own
  <2>1. CASE x = v
    BY <1>7, <2>1
  <2>2. CASE x # v
    BY <1>2, <1>3, <1>4, <1>5, <1>7, <2>2 DEF Step, Visits
  <2> QED
    BY <2>1, <2>2
<1> QED
  BY <1>5, <1>6, <1>7 DEF Next, Visits

LEMMA StartsAlone ==
  ASSUME TypeInv, [Next]_vars, NEW v \in Workers, NEW w \in Workers,
         job[v].at = "idle", job'[v].at # "idle",
         job[w].at = "idle", job'[w].at # "idle"
  PROVE  v = w
<1>1. job \in [Workers -> Job]
  BY DEF TypeInv, TypeOK
<1>2. Begin(v) \/ BeginCreate(v) \/ BeginAnswer(v)
  <2>1. ~Step(v) /\ ~RedisError(v) /\ ~Visits(v)
    BY VisitSteps DEF Step, Visits, RedisError, HGet, HSet, Write, GetGroupChat,
       PushToManagers, CheckApplication, DeleteApplication, PushToMembers,
       Reply, Login, LoginPanics, At, Edits, VisitPlaces
  <2> QED
    BY <2>1, OwnSteps DEF Idle
<1>3. \A x \in Workers \ {v} : job'[x] = job[x]
  BY <1>1, <1>2 DEF Begin, BeginCreate, BeginAnswer, Start
<1> QED
  BY <1>3

LEMMA SentOnceInit == Init => SentOnce
<1> SUFFICES ASSUME Init PROVE SentOnce
  OBVIOUS
<1>1. \A w \in Workers : job[w].at = "idle"
  BY DEF Init, Idle
<1>2. \A a : ~Dealt(a) /\ \A w \in Workers : ~Applies(w, a)
  BY <1>1 DEF Init, Dealt, Answers, Applies
<1> QED
  BY <1>2 DEF SentOnce

LEMMA SentOnceStep ==
  ASSUME TypeInv, SentOnce, [Next]_vars
  PROVE  SentOnce'
<1> SUFFICES ASSUME NEW a \in Application
             PROVE  /\ a \in Fresh' => ~Dealt(a)'
                    /\ \A w \in Workers : Applies(w, a)' => a \notin Fresh' /\ ~Dealt(a)'
                    /\ \A v, w \in Workers : Applies(v, a)' /\ Applies(w, a)' => v = w
  BY DEF SentOnce
<1>1. a \in Fresh' => a \in Fresh
  BY ClientSteps DEF Fresh
<1>2. ASSUME NEW w \in Workers, PushToManagers(w), App(job[w].req) = a
      PROVE  Applies(w, a) /\ ~Applies(w, a)'
  BY <1>2 DEF PushToManagers, At, Applies, Goto, Idle, TypeInv, TypeOK
<1>3. ASSUME Dealt(a)'
      PROVE  Dealt(a) \/ \E w \in Workers : PushToManagers(w) /\ App(job[w].req) = a
  <2>1. CASE \E w \in Workers : Answers(w, a)'
    <3>1. PICK w \in Workers : Answers(w, a)'
      BY <2>1
    <3>2. Answers(w, a) \/ \E m \in Users : <<m, a>> \in asked
      BY <3>1, AnswersFrom
    <3> QED
      BY <3>2 DEF Dealt
  <2>2. CASE a \in applied' \/ \E m \in Users : <<m, a>> \in asked' \cup decided'
    <3>1. ASSUME NEW w \in Workers, DeleteApplication(w), App(job[w].req) = a
          PROVE  Dealt(a)
      <4>1. job[w].at # "idle" /\ job[w].req.op = "answer"
        BY <3>1, RequestOps DEF DeleteApplication, At, TypeInv, Fits
      <4> QED
        BY <3>1, <4>1 DEF Dealt, Answers
    <3> QED
      BY <2>2, <3>1, ApplicationSteps DEF Dealt
  <2> QED
    BY <1>3, <2>1, <2>2 DEF Dealt
<1>4. ASSUME NEW w \in Workers, Applies(w, a)'
      PROVE  /\ a \notin Fresh' /\ ~Dealt(a)
             /\ \A v \in Workers : Applies(v, a) => v = w
  <2>1. Applies(w, a) \/ (a \in Fresh /\ a \notin Fresh')
    BY <1>4, AppliesFrom
  <2> QED
    BY <1>1, <2>1 DEF SentOnce
<1>5. a \in Fresh' => ~Dealt(a)'
  BY <1>1, <1>2, <1>3 DEF SentOnce
<1>6. ASSUME NEW w \in Workers, Applies(w, a)'
      PROVE  a \notin Fresh' /\ ~Dealt(a)'
  BY <1>2, <1>3, <1>4, <1>6
<1>7. ASSUME NEW v \in Workers, NEW w \in Workers, Applies(v, a)', Applies(w, a)'
      PROVE  v = w
  <2>1. \/ Applies(v, a) /\ a \notin Fresh
        \/ job[v].at = "idle" /\ a \in Fresh
    BY <1>7, AppliesFrom DEF SentOnce
  <2>2. \/ Applies(w, a) /\ a \notin Fresh
        \/ job[w].at = "idle" /\ a \in Fresh
    BY <1>7, AppliesFrom DEF SentOnce
  <2>3. job'[v].at # "idle" /\ job'[w].at # "idle"
    BY <1>7 DEF Applies
  <2> QED
    BY <2>1, <2>2, <2>3, StartsAlone DEF SentOnce
<1> QED
  BY <1>5, <1>6, <1>7

LEMMA DeletersFrom ==
  ASSUME TypeInv, [Next]_vars, NEW v \in Workers,
         job'[v].at = "DeleteApplication"
  PROVE  \/ job'[v] = job[v]
         \/ /\ App(job'[v].req) \in applied /\ applied' = applied
<1>1. job \in [Workers -> Job] /\ Fits(job[v])
  BY DEF TypeInv, TypeOK
<1>2. Begin(v) \/ BeginCreate(v) \/ BeginAnswer(v) => job'[v].at # "DeleteApplication"
  <2>1. \A r \in todo : r.op # "create" => First(r.op) # "DeleteApplication"
    BY SentByOp DEF TypeInv, First
  <2>2. \A place, q : Start(v, place, q) => job'[v].at = place
    BY <1>1 DEF Start
  <2>3. Begin(v) => \E r \in todo : r.op # "create" /\ job'[v].at = First(r.op)
    BY <2>2 DEF Begin
  <2>4. BeginCreate(v) => job'[v].at = "CreateGroupChat"
    BY <2>2 DEF BeginCreate
  <2>5. BeginAnswer(v) => job'[v].at = "CheckApplication"
    BY <2>2 DEF BeginAnswer
  <2> QED
    BY <2>1, <2>3, <2>4, <2>5
<1>3. ASSUME NEW place, Goto(v, place), place # "DeleteApplication"
      PROVE  job'[v].at # "DeleteApplication"
  BY <1>1, <1>3 DEF Goto, Idle, Job
<1>4. ASSUME NEW place, NEW news, GotoWith(v, place, news), place # "DeleteApplication"
      PROVE  job'[v].at # "DeleteApplication"
  BY <1>1, <1>4 DEF GotoWith, Job
<1>5. ASSUME NEW ok \in BOOLEAN, job[v].at \in Edits \cup {"PushToMembers"}
      PROVE  After(job[v].at, job[v].req, ok) # "DeleteApplication"
  BY <1>1, <1>5, AfterFits DEF Edits
<1>6. HSet(v) \/ RedisError(v) \/ PushToMembers(v) => job'[v].at # "DeleteApplication"
  <2>1. HSet(v) \/ RedisError(v) \/ PushToMembers(v)
          => job[v].at \in Edits \cup {"PushToMembers"}
    BY DEF HSet, Write, RedisError, PushToMembers, At
  <2>2. PushToMembers(v) => job[v].at = "PushToMembers"
    BY DEF PushToMembers, At
  <2> QED
    BY <1>3, <1>4, <1>5, <2>1, <2>2 DEF HSet, RedisError, PushToMembers
<1>7. HGet(v) => job'[v].at # "DeleteApplication"
  <2>1. HGet(v) => job[v].at \in Edits /\ job[v].at # "DeleteApplication"
    BY DEF HGet, Edits
  <2> QED
    BY <1>1, <1>3, <1>5, <2>1 DEF HGet, Job
<1>8. GetGroupChat(v) => job'[v].at # "DeleteApplication"
  <2>1. \A rec : job' = [job EXCEPT ![v] = [@ EXCEPT !.at = "PushToManagers",
                                                    !.copy = rec]]
                  => job'[v].at # "DeleteApplication"
    BY <1>1 DEF Job
  <2> QED
    BY <1>3, <2>1 DEF GetGroupChat
<1>9. ASSUME \/ PushToManagers(v) \/ DeleteApplication(v) \/ Reply(v)
             \/ Login(v) \/ Visits(v)
      PROVE  job'[v].at # "DeleteApplication"
  BY <1>3, <1>9, VisitSteps DEF PushToManagers, DeleteApplication, Reply, Login, Verdict, VisitPlaces
<1>10. CheckApplication(v) => App(job'[v].req) \in applied /\ applied' = applied
  <2>1. CheckApplication(v) => Goto(v, "DeleteApplication") /\ App(job[v].req) \in applied
    BY <1>3 DEF CheckApplication
  <2> QED
    BY <1>1, <2>1 DEF Goto, Job, CheckApplication
<1>11. LoginPanics(v) \/ (End /\ job'[v] = Idle) => job'[v].at # "DeleteApplication"
  BY DEF LoginPanics, End, Idle
<1>12. Step(v) => App(job'[v].req) \in applied /\ applied' = applied
  BY <1>6, <1>7, <1>8, <1>9, <1>10, <1>11 DEF Step, Visits
<1> QED
  BY <1>2, <1>6, <1>9, <1>11, <1>12, OwnSteps

LEMMA OpenStep ==
  ASSUME TypeInv, SentOnce, OpenUntilDecided, [Next]_vars
  PROVE  OpenUntilDecided'
<1>1. ASSUME NEW w \in Workers, PushToManagers(w) \/ DeleteApplication(w)
      PROVE  App(job[w].req) \in Application
  BY <1>1, RequestFields DEF PushToManagers, DeleteApplication, At, TypeInv, Fits
<1>2. ASSUME NEW w \in Workers, PushToManagers(w), NEW m \in Users
      PROVE  <<m, App(job[w].req)>> \notin decided
  <2>1. Applies(w, App(job[w].req))
    BY <1>2 DEF PushToManagers, At, Applies
  <2> QED
    BY <1>1, <1>2, <2>1 DEF SentOnce, Dealt
<1>3. ASSUME NEW a \in applied', NEW m \in Users
      PROVE  <<m, a>> \notin decided'
  BY <1>2, <1>3, ApplicationSteps DEF OpenUntilDecided
<1>4. ASSUME NEW w \in Workers, job'[w].at = "DeleteApplication"
      PROVE  App(job'[w].req) \in applied' \cup raced'
  <2>1. raced \subseteq raced'
    BY HistoryGrows
  <2>2. CASE job'[w] = job[w]
    <3>1. App(job[w].req) \in applied \cup raced
      BY <1>4, <2>2 DEF OpenUntilDecided, At
    <3>2. ~End
      BY <1>4 DEF End, Idle
    <3>3. ASSUME NEW x \in Workers, DeleteApplication(x),
                 App(job[x].req) = App(job[w].req)
          PROVE  App(job[w].req) \in raced'
      <4>1. x # w
        BY <1>4, <2>2, <3>3 DEF DeleteApplication, Goto, Verdict, TypeInv, TypeOK, Job
      <4> QED
        BY <1>4, <2>2, <3>3, <4>1 DEF DeleteApplication, At
    <3> QED
      BY <2>1, <2>2, <3>1, <3>2, <3>3, ApplicationSteps
  <2> QED
    BY <1>4, <2>2, DeletersFrom
<1>5. ASSUME NEW a \in Application \ raced', NEW m \in Users, NEW n \in Users,
             <<m, a>> \in decided', <<n, a>> \in decided'
      PROVE  m = n
  <2>1. a \notin raced
    BY <1>5, HistoryGrows
  <2>2. CASE decided' = decided
    BY <1>5, <2>1, <2>2 DEF OpenUntilDecided
  <2>3. ASSUME NEW w \in Workers, DeleteApplication(w),
               decided' = decided \cup {<<job[w].req.user, App(job[w].req)>>}
        PROVE  m = n
    <3>1. CASE App(job[w].req) = a
      <4>1. a \in applied
        BY <2>1, <2>3, <3>1 DEF OpenUntilDecided, DeleteApplication
      <4>2. <<m, a>> \notin decided /\ <<n, a>> \notin decided
        BY <4>1 DEF OpenUntilDecided
      <4> QED
        BY <1>5, <2>3, <3>1, <4>2
    <3>2. CASE App(job[w].req) # a
      BY <1>5, <2>1, <2>3, <3>2 DEF OpenUntilDecided
    <3> QED
      BY <3>1, <3>2
  <2> QED
    BY <2>2, <2>3, ApplicationSteps
<1> QED
  BY <1>3, <1>4, <1>5 DEF OpenUntilDecided, At

\* An application is decided once, unless two managers' answers have passed
\* the check before either took it out of the map: the map, and not what the
\* managers' clients show, is what a second answer meets.
THEOREM ApplicationsAreDecidedOnce == Spec => []DecidedOnce
<1>1. Init => OpenUntilDecided
  BY DEF Init, OpenUntilDecided, At, Idle
<1>2. OpenUntilDecided => DecidedOnce
  <2> SUFFICES ASSUME OpenUntilDecided, NEW a \in Application \ raced
               PROVE  Cardinality({m \in Users : <<m, a>> \in decided}) <= 1
    BY DEF DecidedOnce
  <2> DEFINE M == {m \in Users : <<m, a>> \in decided}
  <2>1. ASSUME NEW m \in M PROVE M = {m}
    BY <2>1 DEF OpenUntilDecided
  <2> HIDE DEF M
  <2>2. M = {} \/ \E m : M = {m}
    BY <2>1
  <2>3. Cardinality(M) \in {0, 1}
    BY <2>2, FS_EmptySet, FS_Singleton
  <2> QED
    BY <2>3 DEF M
<1>3. TypeInv /\ SentOnce /\ OpenUntilDecided /\ [Next]_vars
        => SentOnce' /\ OpenUntilDecided'
  BY SentOnceStep, OpenStep
<1> QED
  BY <1>1, <1>2, <1>3, SentOnceInit, RecordsTypeInvariant, PTL DEF Spec

-----------------------------------------------------------------------------
(* The members of a group know each other.                                 *)

Member(u, g) == RoleIn(u, g) # "none"

\* w has let u into g and has yet to tell the other members.
Lets(w, u, g) ==
    job[w].at = "PushToMembers" /\ job[w].req.of = u /\ job[w].req.group = g

\* w has the members of g for u's client.
Sends(w, u, g) ==
    job[w].news # {} /\ job[w].req.of = u /\ job[w].req.group = g

Coming(u, g) == \E w \in Workers : Lets(w, u, g) \/ Sends(w, u, g)

AllMissed(u, g) == \A v \in Users : <<u, g, v>> \in missed

\* What u's client knows, or will know, of the members of g is S and what
\* workers have yet to send.
Complete(S, u, g) ==
    \/ AllMissed(u, g) \/ Coming(u, g)
    \/ /\ <<u, g, u>> \in S
       /\ \A v \in Users : Member(v, g) =>
            <<u, g, v>> \in S \cup missed \/ \E w \in Workers : Lets(w, v, g)

Plain(u, g) == Untouched({u, g}) /\ Member(u, g)

ClientsKnow ==
    \A u \in table, g \in Groups : Plain(u, g) => Complete(told, u, g)

RepliesAreComplete ==
    \A w \in Workers, u \in Users, g \in Groups :
        job[w].at = "AddOnlineUser" /\ job[w].req.user = u /\ Plain(u, g)
            => Complete(loginRes, u, g)

\* What is stored for a user stands for the group's record if that is stored.
MailIsComplete ==
    \A u \in Users, g \in Groups :
        <<u, g>> \in fresh /\ Plain(u, g) => Complete(mail, u, g)

Pushing(w, u) ==
    job[w].at = "PushOfflineUserMessages" /\ job[w].req.user = u

\* Such a record is stored for users who are not logged in, or is about to
\* be pushed.
FreshIsPushed ==
    \A u \in table, g \in Groups :
        <<u, g>> \in fresh /\ Untouched({u}) => \E w \in Workers : Pushing(w, u)

\* The login reply has the groups of the user's record, which lacks none but
\* those whose record is coming.
MembersHaveRoles ==
    \A u \in Users, g \in Groups :
        Plain(u, g) => RoleOf(u, g) # "none" \/ Coming(u, g)

RepliedHaveRoles ==
    \A w \in Workers, u \in Users, g \in Groups :
        Untouched({u, g}) /\ Sends(w, u, g) /\ job[w].at = "Reply"
            => RoleOf(u, g) # "none"

HungUpAreMissed ==
    \A w \in hungUp : job[w].at # "idle" /\ job[w].req.op = "create"
                        => AllMissed(job[w].req.of, job[w].req.group)

\* The members on their way to u's client are those there are, but for the
\* ones that PushToMembers is telling or has told the others of.
NewsIsComplete ==
    \A g \in Groups : Untouched({g}) =>
        \A w \in Workers, u \in Users : Sends(w, u, g) =>
            /\ db[g] # Missing /\ u \in job[w].news
            /\ \A v \in Users : Member(v, g) =>
                 \/ v \in job[w].news \/ <<u, g, v>> \in missed
                 \/ \E x \in Workers : Lets(x, v, g)

KnownInv ==
    /\ NewsIsComplete
    /\ ClientsKnow /\ RepliesAreComplete /\ MailIsComplete /\ FreshIsPushed
    /\ MembersHaveRoles /\ RepliedHaveRoles /\ HungUpAreMissed

LEMMA KnownInit == Init => KnownInv
<1> SUFFICES ASSUME Init PROVE KnownInv
  OBVIOUS
<1>1. \A w \in Workers : job[w].news = {} /\ job[w].at = "idle"
  BY DEF Init, Idle
<1>2. PICK s \in Scenarios : db = s.start /\ table = s.table
  BY DEF Init
<1>3. Consistent(db) /\ table \subseteq Users
  BY <1>2, ScenariosAssumption
<1>4. \A u \in table, g \in Groups, v \in Users :
        Member(u, g) /\ Member(v, g) => <<u, g, v>> \in told
  BY <1>3 DEF Init, Member, RoleIn
<1>5. ClientsKnow
  BY <1>3, <1>4 DEF ClientsKnow, Plain, Complete
<1>6. MembersHaveRoles
  BY <1>3 DEF MembersHaveRoles, Plain, Member, Consistent, RoleOf, RoleIn
<1>7. NewsIsComplete /\ RepliesAreComplete /\ RepliedHaveRoles
  BY <1>1 DEF NewsIsComplete, RepliesAreComplete, RepliedHaveRoles, Sends
<1>8. MailIsComplete /\ FreshIsPushed /\ HungUpAreMissed
  BY DEF Init, MailIsComplete, FreshIsPushed, HungUpAreMissed
<1> QED
  BY <1>5, <1>6, <1>7, <1>8 DEF KnownInv

LEMMA GroupIsTouched ==
  ASSUME TypeInv, NEW w \in Workers,
         job[w].at = "PushToMembers" \/ job[w].news # {}
  PROVE  /\ w \in Busy /\ job[w].req.group \in Touched(job[w].req)
         /\ job[w].req \in Creation \cup Answer
         /\ job[w].req.group \in Groups /\ job[w].req.of \in Users
         /\ job[w].at = "PushToMembers" => job[w].news = {}
         /\ job[w].at # "PushToMembers" => job[w].at \in {"UpdateUserNewGC", "Reply"}
<1>1. job[w] \in Job /\ Fits(job[w])
  BY DEF TypeInv, TypeOK
<1>2. \/ job[w].at = "PushToMembers" /\ job[w].news = {} /\ job[w].req \in Answer
      \/ /\ job[w].at \in {"UpdateUserNewGC", "Reply"}
         /\ job[w].req \in Creation \cup Answer
  BY <1>1 DEF Fits
<1> QED
  BY <1>2, RequestOps, RequestFields DEF Touched, Busy, At

\* Where the members on their way to a client come from.
LEMMA NewsSteps ==
  ASSUME TypeInv, [Next]_vars, NEW w \in Workers, job'[w].news # {}
  PROVE  /\ job'[w].req = job[w].req
         /\ \/ job[w].news # {} /\ job'[w].news = job[w].news
            \/ PushToMembers(w) /\ job'[w].news = MembersOf(db[job[w].req.group])
            \/ /\ HSet(w) /\ job[w].at = "CreateGroupChat"
               /\ job'[w].news = {job[w].req.user}
<1> DEFINE Same == /\ job'[w].req = job[w].req
                   /\ job[w].news # {} /\ job'[w].news = job[w].news
<1>1. job \in [Workers -> Job]
  BY DEF TypeInv, TypeOK
<1>2. ASSUME NEW place, Goto(w, place) PROVE Same
  BY <1>1, <1>2 DEF Goto, Idle, Job
<1>3. ASSUME NEW rec, job' = [job EXCEPT ![w].copy = rec] PROVE Same
  BY <1>1, <1>3 DEF Job
<1>4. ASSUME NEW place, NEW rec,
             job' = [job EXCEPT ![w] = [@ EXCEPT !.at = place, !.copy = rec]]
      PROVE  Same
  BY <1>1, <1>4 DEF Job
<1>5. ~Begin(w) /\ ~BeginCreate(w) /\ ~BeginAnswer(w)
  <2>1. ASSUME NEW place, NEW q, Start(w, place, q) PROVE FALSE
    BY <1>1, <2>1 DEF Start
  <2> QED
    BY <2>1 DEF Begin, BeginCreate, BeginAnswer
<1>6. HGet(w) \/ GetGroupChat(w) => Same
  BY <1>2, <1>3, <1>4 DEF HGet, GetGroupChat
<1>7. ASSUME \/ RedisError(w) \/ PushToManagers(w) \/ CheckApplication(w)
             \/ DeleteApplication(w) \/ Reply(w) \/ Login(w)
             \/ Visits(w)
      PROVE  Same
  BY <1>2, <1>7, VisitSteps DEF RedisError, PushToManagers, CheckApplication, DeleteApplication,
              Reply, Login, VisitPlaces
<1>8. CASE HSet(w)
  <2>1. CASE job[w].at = "CreateGroupChat"
    BY <1>1, <1>8, <2>1 DEF HSet, GotoWith, Job
  <2>2. CASE job[w].at # "CreateGroupChat"
    BY <1>2, <1>8, <2>2 DEF HSet
  <2> QED
    BY <2>1, <2>2
<1>9. CASE PushToMembers(w)
  BY <1>1, <1>9 DEF PushToMembers, GotoWith, Job
<1>10. ~LoginPanics(w) /\ ~(End /\ job'[w] = Idle)
  BY DEF LoginPanics, End, Idle
<1>11. job'[w] = job[w] => Same
  OBVIOUS
<1>12. Step(w) => \/ Same \/ HSet(w) \/ PushToMembers(w)
  BY <1>6, <1>7, <1>10 DEF Step, Visits
<1> QED
  BY <1>5, <1>7, <1>8, <1>9, <1>10, <1>11, <1>12, OwnSteps

LEMMA LetsSteps ==
  ASSUME TypeInv, [Next]_vars, NEW w \in Workers, NEW u, NEW g,
         Lets(w, u, g), Untouched({g})'
  PROVE  Lets(w, u, g)' \/ PushToMembers(w)
<1>1. job[w].at = "PushToMembers" /\ job[w].req.group = g /\ g \notin cut'
  BY DEF Lets, Untouched
<1>2. g \in Touched(job[w].req)
  BY <1>1, GroupIsTouched
<1>3. ~HGet(w) /\ ~HSet(w) /\ ~Lost(w)
  BY <1>1, <1>2 DEF HGet, HSet, Write, Edits, Lost
<1> QED
  BY <1>1, <1>3, HandlerSteps DEF Lets

LEMMA SendsSteps ==
  ASSUME TypeInv, [Next]_vars, NEW w \in Workers, NEW u, NEW g,
         Sends(w, u, g), Untouched({g})'
  PROVE  \/ Sends(w, u, g)' /\ job'[w].news = job[w].news
         \/ Reply(w)
<1>1. /\ job[w].req.group = g /\ g \notin cut' /\ job[w].news # {}
      /\ job \in [Workers -> Job] /\ job[w] \in Job
  BY DEF Sends, Untouched, TypeInv, TypeOK
<1>2. /\ job[w].at \in {"UpdateUserNewGC", "Reply"}
      /\ job[w].req \in Creation \cup Answer
      /\ w \in Busy /\ g \in Touched(job[w].req)
  BY <1>1, GroupIsTouched
<1>3. CASE job[w].at = "UpdateUserNewGC"
  <2>1. After(job[w].at, job[w].req, TRUE) = "Reply"
        /\ After(job[w].at, job[w].req, FALSE) = "Reply"
    BY <1>2, <1>3, RequestOps DEF After
  <2>2. ASSUME Goto(w, "Reply")
        PROVE  job'[w].req = job[w].req /\ job'[w].news = job[w].news
    BY <1>1, <2>2 DEF Goto, Job
  <2>3. ~Lost(w) /\ ~PushToMembers(w)
    BY <1>1, <1>2, <1>3 DEF Lost, PushToMembers, At
  <2>4. HSet(w) => job'[w].req = job[w].req /\ job'[w].news = job[w].news
    BY <1>3, <2>1, <2>2 DEF HSet
  <2>5. HGet(w) /\ Refuses(job[w].at, job[w].req, db[Key(job[w].at, job[w].req)])
          => job'[w].req = job[w].req /\ job'[w].news = job[w].news
    BY <2>1, <2>2 DEF HGet
  <2>6. job'[w].req = job[w].req /\ job'[w].news = job[w].news
    BY <1>3, <2>3, <2>4, <2>5, HandlerSteps DEF Edits
  <2> QED
    BY <2>6 DEF Sends
<1>4. CASE job[w].at = "Reply"
  <2>1. ~End
    BY <1>1, <1>2 DEF End
  <2>2. ~Begin(w) /\ ~BeginCreate(w) /\ ~BeginAnswer(w)
    BY <1>4 DEF Begin, BeginCreate, BeginAnswer, At
  <2>3. Step(w) \/ RedisError(w) \/ Visits(w) => Reply(w)
    <3>1. ~Visits(w)
      BY <1>4, VisitSteps DEF VisitPlaces
    <3> QED
      BY <1>4, <3>1 DEF Step, Visits, RedisError, HGet, HSet, Write, GetGroupChat,
         PushToManagers, CheckApplication, DeleteApplication, PushToMembers,
         Login, LoginPanics, At, Edits
  <2>4. job'[w] = job[w] \/ Reply(w)
    BY <2>1, <2>2, <2>3, OwnSteps
  <2> QED
    BY <2>4 DEF Sends
<1> QED
  BY <1>2, <1>3, <1>4

LEMMA MemberSteps ==
  ASSUME TypeInv, WholeInv, [Next]_vars, NEW g \in Groups, NEW u \in Users,
         Untouched({g})', Member(u, g)', ~Member(u, g)
  PROVE  \E w \in Workers :
           \/ Lets(w, u, g)'
           \/ db[g] = Missing /\ Sends(w, u, g)'
<1>1. PICK w \in Workers : /\ HSet(w) /\ job[w].at \in GroupEdits
                           /\ job[w].req.of = u /\ job[w].req.group = g
  BY RoleInSteps DEF Member
<1> DEFINE r == job[w].req
<1>2. job[w] \in Job /\ Fits(job[w]) /\ Checked(w) /\ g \notin stale'
  BY DEF TypeInv, TypeOK, WholeInv, Untouched
<1>3. Key(job[w].at, r) = g /\ Copy(w) = db[g] /\ Copy(w) # NoCopy
  <2>1. Key(job[w].at, r) = g
    BY <1>1, <1>2, KeyOfEdit DEF GroupEdits, Edits
  <2> QED
    BY <1>1, <1>2, <2>1 DEF HSet, Write
<1>4. CASE job[w].at = "CreateGroupChat"
  <2>1. After(job[w].at, r, TRUE) = "UpdateUserNewGC"
    BY <1>4 DEF After
  <2>2. job'[w].req = r /\ job'[w].news = {r.user}
    BY <1>1, <1>4, <2>1, SetSteps
  <2> QED
    BY <1>1, <1>3, <1>4, <2>2 DEF Sends, Copy, At
<1>5. CASE job[w].at = "AddNewManagerInGC"
  <2>1. db[g] = job[w].copy /\ ~NoSuchManager(r, db[g]) /\ db[g] \in GroupChat
    BY <1>2, <1>3, <1>5 DEF Copy, At, Checked, Fits
  <2> QED
    BY <1>1, <2>1, RecordsAssumption DEF NoSuchManager, Member, RoleIn
<1>6. CASE job[w].at = "AddNewMemberToGC"
  <2>1. After(job[w].at, r, TRUE) = "PushToMembers"
    BY <1>6 DEF After
  <2>2. job'[w].req = r /\ job'[w].at = "PushToMembers"
    BY <1>1, <2>1, SetSteps
  <2> QED
    BY <1>1, <2>2 DEF Lets
<1> QED
  BY <1>1, <1>4, <1>5, <1>6 DEF GroupEdits

\* A worker that is letting u in, or has the members for u, still is or has
\* sent them.
LEMMA WillBeSent ==
  ASSUME TypeInv, EnteringInv, NewsIsComplete, [Next]_vars, NEW g \in Groups,
         NEW u \in Users, Untouched({g})', NEW w \in Workers,
         Lets(w, u, g) \/ Sends(w, u, g)
  PROVE  Lets(w, u, g)' \/ Sends(w, u, g)' \/ (Reply(w) /\ Sends(w, u, g))
<1>1. CASE Sends(w, u, g)
  BY <1>1, SendsSteps
<1>2. CASE PushToMembers(w) /\ Lets(w, u, g)
  <2>1. db[g] # Missing /\ db[g].role[u] # "none"
    BY <1>2, UntouchedBefore DEF EnteringInv, Entering, Lets
  <2>2. u \in MembersOf(db[g])
    BY <2>1 DEF MembersOf
  <2>3. job'[w].req = job[w].req /\ job'[w].news = MembersOf(db[g])
    BY <1>2 DEF PushToMembers, GotoWith, Lets, TypeInv, TypeOK, Job
  <2> QED
    BY <1>2, <2>2, <2>3 DEF Sends, Lets
<1> QED
  BY <1>1, <1>2, LetsSteps

LEMMA NewsIsCompleteStep ==
  ASSUME TypeInv, WholeInv, EnteringInv, NewsIsComplete, [Next]_vars
  PROVE  NewsIsComplete'
<1> SUFFICES ASSUME NEW g \in Groups, Untouched({g})', NEW w \in Workers,
                    NEW u \in Users, Sends(w, u, g)'
             PROVE  /\ db'[g] # Missing /\ u \in job'[w].news
                    /\ \A v \in Users : Member(v, g)' =>
                         \/ v \in job'[w].news \/ <<u, g, v>> \in missed'
                         \/ \E x \in Workers : Lets(x, v, g)'
  BY DEF NewsIsComplete
<1>1. Untouched({g}) /\ g \notin stale'
  BY UntouchedBefore
<1>2. job'[w].req = job[w].req /\ job[w].req.of = u /\ job[w].req.group = g
  BY NewsSteps DEF Sends
<1>3. CASE job[w].news # {} /\ job'[w].news = job[w].news
  <2>1. Sends(w, u, g)
    BY <1>2, <1>3 DEF Sends
  <2>2. db[g] # Missing /\ u \in job[w].news
    BY <1>1, <2>1 DEF NewsIsComplete
  <2>3. db'[g] # Missing
    BY <1>1, <2>2, GroupStays
  <2>4. ASSUME NEW v \in Users, Member(v, g)'
        PROVE  \/ v \in job[w].news \/ <<u, g, v>> \in missed'
               \/ \E x \in Workers : Lets(x, v, g)'
    <3>1. CASE ~Member(v, g)
      BY <2>2, <2>4, <3>1, MemberSteps
    <3>2. CASE <<u, g, v>> \in missed
      BY <3>2, HistoryGrows
    <3>3. ASSUME NEW x \in Workers, Lets(x, v, g)
          PROVE  Lets(x, v, g)' \/ <<u, g, v>> \in missed'
      <4>1. PushToMembers(x) => <<u, g, v>> \in missed'
        BY <2>1, <3>3 DEF PushToMembers, Lets, Sends
      <4> QED
        BY <3>3, <4>1, LetsSteps
    <3> QED
      BY <1>1, <2>1, <3>1, <3>2, <3>3 DEF NewsIsComplete
  <2> QED
    BY <1>3, <2>2, <2>3, <2>4
<1>4. CASE PushToMembers(w) /\ job'[w].news = MembersOf(db[job[w].req.group])
  <2>1. db[g] # Missing /\ db[g].role[u] # "none"
    BY <1>1, <1>2, <1>4 DEF EnteringInv, Entering, PushToMembers, At
  <2>2. db' = db
    BY <1>4 DEF PushToMembers
  <2> QED
    BY <1>2, <1>4, <2>1, <2>2 DEF MembersOf, Member, RoleIn
<1>5. CASE HSet(w) /\ job[w].at = "CreateGroupChat" /\ job'[w].news = {job[w].req.user}
  <2>1. job[w].req.user = u
    BY <1>2, <1>5 DEF TypeInv, Fits
  <2>2. /\ db'[g] # Missing
        /\ db'[g] = NewGroupChat(u)
    BY <1>2, <1>5, <2>1, SetSteps, GroupWritten DEF Key, Changed, GroupEdits
  <2>3. \A v \in Users : Member(v, g)' => v = u
    BY <2>2 DEF Member, RoleIn, NewGroupChat
  <2> QED
    BY <1>5, <2>1, <2>2, <2>3
<1> QED
  BY <1>3, <1>4, <1>5, NewsSteps DEF Sends

\* What the clients are sent and what is stored for them changes in few steps.
LEMMA SessionSteps ==
  ASSUME [Next]_vars
  PROVE  \/ \E w \in Workers : PushToMembers(w) \/ Reply(w) \/ Visits(w)
         \/ End
         \/ UNCHANGED <<told, table, mail, fresh, loginRes>> /\ hungUp' \subseteq hungUp
<1> DEFINE Same == /\ UNCHANGED <<told, table, mail, fresh, loginRes>>
                   /\ hungUp' \subseteq hungUp
<1>1. ASSUME NEW w \in Workers, Begin(w) \/ BeginCreate(w) \/ BeginAnswer(w)
      PROVE  Same
  BY <1>1 DEF Begin, BeginCreate, BeginAnswer, sessions
<1>2. ASSUME NEW w \in Workers,
             \/ HGet(w) \/ HSet(w) \/ RedisError(w) \/ GetGroupChat(w)
             \/ PushToManagers(w) \/ CheckApplication(w) \/ DeleteApplication(w)
             \/ Login(w)
      PROVE  Same
  BY <1>2 DEF HGet, HSet, RedisError, GetGroupChat, CheckApplication,
     DeleteApplication, PushToManagers, Login, clients, sessions
<1>3. (\E w \in Workers : LoginPanics(w)) \/ Crash => End
  BY DEF LoginPanics, Crash
<1>4. UNCHANGED vars => Same
  BY DEF vars, clients, sessions
<1> QED
  BY <1>1, <1>2, <1>3, <1>4 DEF Next, Visits, Step

LEMMA OneAtATime ==
  ASSUME TypeInv, NEW w \in Workers, NEW x \in Workers, Reply(w),
         Reply(x) \/ PushToMembers(x)
  PROVE  x = w /\ Reply(x)
<1>1. job \in [Workers -> Job]
  BY DEF TypeInv, TypeOK
<1>2. job[w].at = "Reply" /\ job' = [job EXCEPT ![w] = Idle]
  BY DEF Reply, At, Goto
<1>3. CASE x # w
  <2>1. job'[x] = job[x]
    BY <1>1, <1>2, <1>3
  <2>2. Reply(x) => job[x].at = "Reply" /\ job'[x].at = "idle"
    BY <1>1 DEF Reply, At, Goto, Idle
  <2>3. PushToMembers(x) => /\ job[x].at = "PushToMembers"
                            /\ job'[x].at = "UpdateUserNewGC"
    BY <1>1 DEF PushToMembers, At, GotoWith, After, Job
  <2> QED
    BY <2>1, <2>2, <2>3
<1>4. CASE x = w
  BY <1>2, <1>4 DEF PushToMembers, At
<1> QED
  BY <1>3, <1>4

LEMMA VisitsAlone ==
  ASSUME TypeInv, NEW w \in Workers, NEW x \in Workers, Visits(w),
         Reply(x) \/ PushToMembers(x)
  PROVE  FALSE
<1>1. job \in [Workers -> Job] /\ job[w].at \in VisitPlaces
  BY VisitSteps DEF TypeInv, TypeOK
<1>2. job[x].at \in {"Reply", "PushToMembers"} /\ job'[x].at # job[x].at
  <2>1. Reply(x) => job[x].at = "Reply" /\ job'[x].at = "idle"
    BY <1>1 DEF Reply, At, Goto, Idle
  <2>2. PushToMembers(x) => /\ job[x].at = "PushToMembers"
                            /\ job'[x].at = "UpdateUserNewGC"
    BY <1>1 DEF PushToMembers, At, GotoWith, After, Job
  <2> QED
    BY <2>1, <2>2
<1>3. x # w
  BY <1>1, <1>2 DEF VisitPlaces
<1>4. job'[x] = job[x]
  BY <1>1, <1>3, VisitSteps DEF Goto
<1> QED
  BY <1>2, <1>4

\* What is complete stays so, but for what PushToMembers and Reply send.
LEMMA CompleteSteps ==
  ASSUME TypeInv, WholeInv, EnteringInv, NewsIsComplete, [Next]_vars,
         NEW u \in Users, NEW g \in Groups, Untouched({g})', Member(u, g),
         NEW S, Complete(S, u, g)
  PROVE  \/ AllMissed(u, g)' \/ Coming(u, g)'
         \/ \E w \in Workers : Reply(w) /\ Sends(w, u, g)
         \/ /\ <<u, g, u>> \in S
            /\ \A v \in Users : Member(v, g)' =>
                 \/ <<u, g, v>> \in S \/ <<u, g, v>> \in missed'
                 \/ \E x \in Workers : Lets(x, v, g)'
                 \/ \E x \in Workers : PushToMembers(x) /\ Lets(x, v, g)
<1>1. CASE AllMissed(u, g)
  BY <1>1, HistoryGrows DEF AllMissed
<1>2. CASE Coming(u, g)
  BY <1>2, WillBeSent DEF Coming
<1>3. CASE /\ <<u, g, u>> \in S
           /\ \A v \in Users : Member(v, g) =>
                \/ <<u, g, v>> \in S \cup missed
                \/ \E w \in Workers : Lets(w, v, g)
  <2> SUFFICES ASSUME NEW v \in Users, Member(v, g)'
               PROVE  \/ <<u, g, v>> \in S \/ <<u, g, v>> \in missed'
                      \/ \E x \in Workers : Lets(x, v, g)'
                      \/ \E x \in Workers : PushToMembers(x) /\ Lets(x, v, g)
    BY <1>3
  <2>1. CASE ~Member(v, g)
    <3>1. db[g] # Missing
      BY DEF Member, RoleIn
    <3> QED
      BY <2>1, <3>1, MemberSteps
  <2>2. CASE <<u, g, v>> \in S \cup missed
    BY <2>2, HistoryGrows
  <2>3. CASE \E w \in Workers : Lets(w, v, g)
    BY <2>3, LetsSteps
  <2> QED
    BY <1>3, <2>1, <2>2, <2>3
<1> QED
  BY <1>1, <1>2, <1>3 DEF Complete

\* Where neither of them is called, what is complete stays so.
LEMMA CompleteStays ==
  ASSUME TypeInv, WholeInv, EnteringInv, NewsIsComplete, [Next]_vars,
         NEW u \in Users, NEW g \in Groups, Untouched({g})', Member(u, g),
         NEW S, Complete(S, u, g),
         \A w \in Workers : ~PushToMembers(w) /\ ~Reply(w)
  PROVE  \/ AllMissed(u, g)' \/ Coming(u, g)'
         \/ /\ <<u, g, u>> \in S
            /\ \A v \in Users : Member(v, g)' =>
                 \/ <<u, g, v>> \in S \/ <<u, g, v>> \in missed'
                 \/ \E x \in Workers : Lets(x, v, g)'
  BY CompleteSteps

\* A new member's record is coming.
LEMMA NewComes ==
  ASSUME TypeInv, WholeInv, [Next]_vars, NEW u \in Users, NEW g \in Groups,
         Untouched({g})', Member(u, g)', ~Member(u, g)
  PROVE  Coming(u, g)'
  BY MemberSteps DEF Coming

\* The record sent with a reply is complete.
LEMMA ReplySends ==
  ASSUME TypeInv, NewsIsComplete, [Next]_vars, NEW u \in Users, NEW g \in Groups,
         Untouched({g})', NEW w \in Workers, Reply(w), Sends(w, u, g)
  PROVE  /\ u \in job[w].news
         /\ \A v \in Users : Member(v, g)' =>
              \/ v \in job[w].news \/ <<u, g, v>> \in missed'
              \/ \E x \in Workers : Lets(x, v, g)'
<1>1. db' = db /\ missed \subseteq missed' /\ Untouched({g})
  BY UntouchedBefore, HistoryGrows DEF Reply
<1>2. /\ u \in job[w].news
      /\ \A v \in Users : Member(v, g) =>
           \/ v \in job[w].news \/ <<u, g, v>> \in missed
           \/ \E x \in Workers : Lets(x, v, g)
  BY <1>1 DEF NewsIsComplete
<1>3. ASSUME NEW v \in Users, NEW x \in Workers, Lets(x, v, g)
      PROVE  Lets(x, v, g)'
  BY <1>3, LetsSteps, OneAtATime DEF Lets, Reply, At
<1> QED
  BY <1>1, <1>2, <1>3 DEF Member, RoleIn

LEMMA ClientsKnowStep ==
  ASSUME TypeInv, WholeInv, EnteringInv, KnownInv, [Next]_vars
  PROVE  ClientsKnow'
<1> SUFFICES ASSUME NEW u \in table', NEW g \in Groups, Plain(u, g)'
             PROVE  Complete(told, u, g)'
  BY DEF ClientsKnow
<1>1. u \in Users
  BY RecordsTypeStep DEF TypeInv, TypeOK
<1>2. /\ Untouched({u, g})' /\ Untouched({g})' /\ Untouched({u, g})
      /\ Untouched({g}) /\ Member(u, g)'
  <2>1. Untouched({u, g})' /\ Member(u, g)'
    BY DEF Plain
  <2>2. Untouched({g})'
    BY <2>1, UntouchedParts
  <2> QED
    BY <2>1, <2>2, UntouchedBefore
<1>3. SUFFICES \/ AllMissed(u, g)' \/ Coming(u, g)'
               \/ /\ <<u, g, u>> \in told'
                  /\ \A v \in Users : Member(v, g)' =>
                       \/ <<u, g, v>> \in told' \/ <<u, g, v>> \in missed'
                       \/ \E x \in Workers : Lets(x, v, g)'
  BY <1>3 DEF Complete
<1>4. CASE ~Member(u, g)
  BY <1>1, <1>2, <1>4, NewComes
<1>5. CASE Member(u, g)
  <2>1. u \in table => Complete(told, u, g)
    BY <1>2, <1>5 DEF KnownInv, ClientsKnow, Plain
  <2>2. CASE \E w \in Workers : PushToMembers(w)
    <3>1. PICK w \in Workers : PushToMembers(w)
      BY <2>2
    <3>2. u \in table /\ told \subseteq told' /\ db' = db
      BY <3>1 DEF PushToMembers
    <3>3. ASSUME NEW v \in Users, NEW x \in Workers, PushToMembers(x), Lets(x, v, g),
                 <<u, g, u>> \in told
          PROVE  <<u, g, v>> \in told'
      <4>1. u \in MembersOf(db[g])
        BY <1>1, <1>5 DEF Member, RoleIn, MembersOf
      <4>2. u # v => u \in Audience(job[x].req, MembersOf(db[g]))
        BY <3>2, <3>3, <4>1 DEF Audience, Knows, Lets
      <4>3. \A y \in Audience(job[x].req, MembersOf(db[g])) : <<y, g, v>> \in told'
        BY <3>3 DEF PushToMembers, Lets
      <4> QED
        BY <3>2, <3>3, <4>2, <4>3
    <3>4. ~(\E x \in Workers : Reply(x))
      BY <3>1, OneAtATime DEF Reply, PushToMembers, At
    <3> QED
      BY <1>1, <1>2, <1>5, <2>1, <3>2, <3>3, <3>4, CompleteSteps DEF KnownInv
  <2>3. CASE \E w \in Workers : Reply(w)
    <3>1. PICK w \in Workers : Reply(w)
      BY <2>3
    <3>2. table' = table /\ u \in table /\ Complete(told, u, g)
      BY <2>1, <3>1 DEF Reply
    <3>3. CASE Sends(w, u, g)
      <4>1. job[w].news # {} /\ job[w].req.of = u /\ job[w].req.group = g
        BY <3>3 DEF Sends
      <4>2. CASE job[w].req.op = "create" /\ w \in hungUp
        <5>1. AllMissed(u, g)
          BY <3>1, <4>1, <4>2 DEF KnownInv, HungUpAreMissed, Reply, At
        <5> QED
          BY <5>1, HistoryGrows DEF AllMissed
      <4>3. CASE ~(job[w].req.op = "create" /\ w \in hungUp)
        <5>1. told' = Replaced(told, u, g, job[w].news)
          BY <3>1, <3>2, <4>1, <4>3 DEF Reply
        <5>2. \A v \in job[w].news : <<u, g, v>> \in told'
          BY <5>1 DEF Replaced
        <5> QED
          BY <1>1, <1>2, <3>1, <3>3, <5>2, ReplySends DEF KnownInv
      <4> QED
        BY <4>2, <4>3
    <3>4. CASE ~Sends(w, u, g)
      <4>1. \A v \in Users : <<u, g, v>> \in told => <<u, g, v>> \in told'
        BY <3>1, <3>4 DEF Reply, Replaced, Sends
      <4>2. \A x \in Workers : ~PushToMembers(x) /\ ~(Reply(x) /\ Sends(x, u, g))
        BY <3>1, <3>4, OneAtATime DEF Reply, PushToMembers, At
      <4> QED
        BY <1>1, <1>2, <1>5, <3>2, <4>1, <4>2, CompleteSteps DEF KnownInv
    <3> QED
      BY <3>3, <3>4
  <2>4. ASSUME \A w \in Workers : ~PushToMembers(w) /\ ~Reply(w),
               NEW S, Complete(S, u, g),
               \A v \in Users : <<u, g, v>> \in S => <<u, g, v>> \in told'
        PROVE  \/ AllMissed(u, g)' \/ Coming(u, g)'
               \/ /\ <<u, g, u>> \in told'
                  /\ \A v \in Users : Member(v, g)' =>
                       \/ <<u, g, v>> \in told' \/ <<u, g, v>> \in missed'
                       \/ \E x \in Workers : Lets(x, v, g)'
    BY <1>1, <1>2, <1>5, <2>4, CompleteStays DEF KnownInv
  <2>5. CASE \E w \in Workers : Visits(w)
    <3>1. PICK w \in Workers : Visits(w)
      BY <2>5
    <3>2. \A x \in Workers : ~PushToMembers(x) /\ ~Reply(x)
      BY <3>1, VisitsAlone
    <3>3. CASE AddOnlineUser(w) /\ job[w].req.user = u
      <4>1. Complete(loginRes, u, g)
        BY <1>1, <1>2, <1>5, <3>3 DEF KnownInv, RepliesAreComplete, AddOnlineUser, At, Plain
      <4>2. \A v \in Users : <<u, g, v>> \in loginRes => <<u, g, v>> \in told'
        BY <3>3 DEF AddOnlineUser
      <4> QED
        BY <2>4, <3>2, <4>1, <4>2
    <3>4. CASE PushOfflineUserMessages(w) /\ job[w].req.user = u /\ <<u, g>> \in fresh
      <4>1. Complete(mail, u, g)
        BY <1>1, <1>2, <1>5, <3>4 DEF KnownInv, MailIsComplete, Plain
      <4>2. \A v \in Users : <<u, g, v>> \in mail => <<u, g, v>> \in told'
        BY <3>4 DEF PushOfflineUserMessages, Read
      <4> QED
        BY <2>4, <3>2, <4>1, <4>2
    <3>5. CASE /\ ~(AddOnlineUser(w) /\ job[w].req.user = u)
               /\ ~(PushOfflineUserMessages(w) /\ job[w].req.user = u /\ <<u, g>> \in fresh)
      <4>1. ~(DelOnlineUser(w) /\ job[w].req.user = u)
        BY DEF DelOnlineUser
      <4>2. u \in table
        BY <3>1, <3>5 DEF Visits, GetAllGroupChats, GroupsUnread, AddOnlineUser,
           PushOfflineUserMessages, MessagesUnread, DelOnlineUser
      <4>3. \A v \in Users : <<u, g, v>> \in told => <<u, g, v>> \in told'
        <5>1. AddOnlineUser(w) \/ DelOnlineUser(w) => \A t \in told : t[1] = u => t \in told'
          BY <3>5, <4>1 DEF AddOnlineUser, DelOnlineUser, Others
        <5>2. PushOfflineUserMessages(w) =>
                \A v \in Users : <<u, g, v>> \in told => <<u, g, v>> \in told'
          BY <3>5 DEF PushOfflineUserMessages, Read
        <5>3. GetAllGroupChats(w) \/ GroupsUnread(w) \/ MessagesUnread(w) => told' = told
          BY DEF GetAllGroupChats, GroupsUnread, MessagesUnread
        <5> QED
          BY <3>1, <5>1, <5>2, <5>3 DEF Visits
      <4> QED
        BY <2>1, <2>4, <3>2, <4>2, <4>3
    <3> QED
      BY <3>3, <3>4, <3>5
  <2>6. ~End
    BY DEF End
  <2> QED
    BY <2>1, <2>2, <2>3, <2>4, <2>5, <2>6, SessionSteps
<1> QED
  BY <1>4, <1>5

\* A login reply on its way has what its user's record and the groups' said,
\* and who is let in meanwhile is missed.
LEMMA RepliesStep ==
  ASSUME TypeInv, WholeInv, EnteringInv, KnownInv, [Next]_vars
  PROVE  RepliesAreComplete'
<1> SUFFICES ASSUME NEW w \in Workers, NEW u \in Users, NEW g \in Groups,
                    job'[w].at = "AddOnlineUser", job'[w].req.user = u, Plain(u, g)'
             PROVE  Complete(loginRes, u, g)'
  BY DEF RepliesAreComplete
<1>1. /\ Untouched({u, g})' /\ Untouched({g})' /\ Untouched({u, g})
      /\ Untouched({g}) /\ Member(u, g)' /\ u \notin cut'
  <2>1. Untouched({u, g})' /\ Member(u, g)'
    BY DEF Plain
  <2>2. Untouched({g})' /\ u \notin cut'
    BY <2>1, UntouchedParts DEF Untouched
  <2> QED
    BY <2>1, <2>2, UntouchedBefore
<1>2. SUFFICES \/ AllMissed(u, g)' \/ Coming(u, g)'
               \/ /\ <<u, g, u>> \in loginRes'
                  /\ \A v \in Users : Member(v, g)' =>
                       \/ <<u, g, v>> \in loginRes' \/ <<u, g, v>> \in missed'
                       \/ \E x \in Workers : Lets(x, v, g)'
  BY <1>2 DEF Complete
<1>3. CASE ~Member(u, g)
  BY <1>1, <1>3, NewComes
<1>4. ~(\E x \in Workers : GroupsUnread(x) /\ job[x].req.user = u)
  BY <1>1 DEF GroupsUnread
<1>5. ASSUME NEW x \in Workers, GetAllGroupChats(x), job[x].req.user = u, Member(u, g)
      PROVE  \/ Coming(u, g)'
             \/ /\ <<u, g, u>> \in loginRes'
                /\ \A v \in Users : Member(v, g)' => <<u, g, v>> \in loginRes'
  <2>1. \A y \in Workers : ~PushToMembers(y) /\ ~Reply(y)
    BY <1>5, VisitsAlone DEF Visits
  <2>2. CASE Coming(u, g)
    BY <1>1, <2>1, <2>2, WillBeSent DEF KnownInv, Coming
  <2>3. CASE ~Coming(u, g)
    <3>1. RoleOf(u, g) # "none"
      BY <1>1, <1>5, <2>3 DEF KnownInv, MembersHaveRoles, Plain
    <3>2. g \in GroupsOf(u) /\ db' = db
      BY <1>5, <3>1 DEF GroupsOf, RoleOf, GetAllGroupChats
    <3>3. ASSUME NEW v \in Users, Member(v, g) PROVE <<u, g, v>> \in loginRes'
      <4>1. v \in MembersOf(db[g])
        BY <3>3 DEF MembersOf, Member, RoleIn
      <4>2. <<u, g, v>> \in {t \in {u} \X GroupsOf(u) \X Users : t[3] \in MembersOf(db[t[2]])}
        BY <3>2, <4>1
      <4> QED
        BY <1>5, <4>2 DEF GetAllGroupChats
    <3>4. \A v \in Users : Member(v, g)' => Member(v, g)
      BY <3>2 DEF Member, RoleIn
    <3> QED
      BY <1>5, <3>3, <3>4
  <2> QED
    BY <2>2, <2>3
<1>6. CASE /\ Member(u, g)
           /\ ~(\E x \in Workers : GetAllGroupChats(x) /\ job[x].req.user = u)
  <2>1. job[w].at = "AddOnlineUser" /\ job[w].req.user = u
    <3>1. ASSUME NEW place, Goto(w, place), place # "AddOnlineUser" PROVE FALSE
      BY <3>1 DEF Goto, Idle, TypeInv, TypeOK
    <3>2. \/ job'[w] = job[w]
          \/ GetAllGroupChats(w) \/ GroupsUnread(w)
      <4>1. ASSUME NEW place, NEW q, Start(w, place, q), place # "AddOnlineUser" PROVE FALSE
        BY <4>1 DEF Start, TypeInv, TypeOK
      <4>2. ASSUME Begin(w) \/ BeginCreate(w) \/ BeginAnswer(w) PROVE FALSE
        <5>1. \A r \in todo : r.op # "create" => First(r.op) # "AddOnlineUser"
          BY SentByOp DEF TypeInv, First
        <5> QED
          BY <4>1, <4>2, <5>1 DEF Begin, BeginCreate, BeginAnswer
      <4>3. ~(HGet(w) \/ HSet(w) \/ RedisError(w) \/ PushToMembers(w))
        <5>1. ASSUME HGet(w) \/ HSet(w) \/ RedisError(w) \/ PushToMembers(w)
              PROVE  FALSE
          <6>1. job[w].at \in Edits \cup {"PushToMembers"} /\ job[w] \in Job
            BY <5>1 DEF HGet, HSet, Write, RedisError, PushToMembers, At, TypeInv, TypeOK
          <6>2. \A ok \in BOOLEAN : After(job[w].at, job[w].req, ok) # "AddOnlineUser"
            BY DEF After
          <6>3. \A news : ~GotoWith(w, After(job[w].at, job[w].req, TRUE), news)
            BY <6>2 DEF GotoWith, TypeInv, TypeOK, Job
          <6>4. ~HSet(w) /\ ~RedisError(w) /\ ~PushToMembers(w)
            BY <3>1, <6>1, <6>2, <6>3 DEF HSet, RedisError, PushToMembers, At
          <6>5. HGet(w)
            BY <5>1, <6>4
          <6>6. job' = [job EXCEPT ![w].copy = db[Key(job[w].at, job[w].req)]]
            BY <3>1, <6>2, <6>5 DEF HGet
          <6>7. job'[w].at = job[w].at
            BY <6>6 DEF TypeInv, TypeOK, Job
          <6> QED
            BY <6>1, <6>7 DEF Edits
        <5> QED
          BY <5>1
      <4>4. ~(\/ PushToManagers(w) \/ CheckApplication(w) \/ DeleteApplication(w)
              \/ Reply(w) \/ Login(w) \/ AddOnlineUser(w)
              \/ PushOfflineUserMessages(w) \/ MessagesUnread(w) \/ DelOnlineUser(w))
        BY <3>1 DEF PushToManagers, CheckApplication, DeleteApplication, Verdict,
           Reply, Login, AddOnlineUser, PushOfflineUserMessages, MessagesUnread,
           DelOnlineUser
      <4>5. ~GetGroupChat(w)
        <5>1. \A rec : ~(job' = [job EXCEPT ![w] = [@ EXCEPT !.at = "PushToManagers",
                                                            !.copy = rec]])
          BY DEF TypeInv, TypeOK, Job
        <5> QED
          BY <3>1, <5>1 DEF GetGroupChat
      <4>6. ~(End /\ job'[w] = Idle) /\ ~LoginPanics(w)
        BY DEF LoginPanics, End, Idle
      <4> QED
        BY <4>2, <4>3, <4>4, <4>5, <4>6, OwnSteps DEF Step, Visits
    <3>3. job'[w].req = job[w].req \/ job'[w] = job[w]
      BY <3>2 DEF GetAllGroupChats, GroupsUnread, Goto, TypeInv, TypeOK, Job
    <3> QED
      BY <1>4, <1>6, <3>2, <3>3
  <2>2. Complete(loginRes, u, g)
    BY <1>1, <1>6, <2>1 DEF KnownInv, RepliesAreComplete, Plain
  <2>3. Arriving(u)
    BY <2>1 DEF Arriving
  <2>4. \A t \in loginRes : t[1] = u => t \in loginRes'
    <3>1. ASSUME NEW x \in Workers, Visits(x)
          PROVE  \A t \in loginRes : t[1] = u => t \in loginRes'
      BY <1>4, <1>6, <3>1 DEF Visits, GetAllGroupChats, GroupsUnread, Others,
         AddOnlineUser, PushOfflineUserMessages, MessagesUnread, DelOnlineUser
    <3>2. ASSUME NEW x \in Workers, PushToMembers(x) \/ Reply(x)
          PROVE  loginRes' = loginRes
      BY <3>2 DEF PushToMembers, Reply
    <3>3. ~End
      BY DEF End, Idle
    <3> QED
      BY <3>1, <3>2, <3>3, SessionSteps
  <2>5. ASSUME NEW x \in Workers, Reply(x), Sends(x, u, g)
        PROVE  AllMissed(u, g)'
    BY <2>3, <2>5 DEF Reply, Sends, AllMissed
  <2>6. ASSUME NEW x \in Workers, NEW v \in Users, PushToMembers(x), Lets(x, v, g)
        PROVE  <<u, g, v>> \in missed'
    BY <2>3, <2>6 DEF PushToMembers, Lets
  <2> QED
    BY <1>1, <1>6, <2>2, <2>4, <2>5, <2>6, CompleteSteps DEF KnownInv
<1> QED
  BY <1>3, <1>5, <1>6

\* What is stored with a group's record stays complete: whoever is let in
\* after it is stored too, or the user has come meanwhile.
LEMMA MailStep ==
  ASSUME TypeInv, WholeInv, EnteringInv, KnownInv, [Next]_vars
  PROVE  MailIsComplete'
<1> SUFFICES ASSUME NEW u \in Users, NEW g \in Groups, <<u, g>> \in fresh', Plain(u, g)'
             PROVE  Complete(mail, u, g)'
  BY DEF MailIsComplete
<1>1. /\ Untouched({u, g})' /\ Untouched({g})' /\ Untouched({u, g}) /\ Untouched({u})
      /\ Untouched({g}) /\ Member(u, g)' /\ u \notin cut'
  <2>1. Untouched({u, g})' /\ Member(u, g)'
    BY DEF Plain
  <2>2. Untouched({g})' /\ Untouched({u})' /\ u \notin cut'
    BY <2>1, UntouchedParts DEF Untouched
  <2> QED
    BY <2>1, <2>2, UntouchedBefore
<1>2. SUFFICES \/ AllMissed(u, g)' \/ Coming(u, g)'
               \/ /\ <<u, g, u>> \in mail'
                  /\ \A v \in Users : Member(v, g)' =>
                       \/ <<u, g, v>> \in mail' \/ <<u, g, v>> \in missed'
                       \/ \E x \in Workers : Lets(x, v, g)'
  BY <1>2 DEF Complete
<1>3. CASE ~Member(u, g)
  BY <1>1, <1>3, NewComes
<1>4. CASE Member(u, g)
  <2>1. <<u, g>> \in fresh => Complete(mail, u, g)
    BY <1>1, <1>4 DEF KnownInv, MailIsComplete, Plain
  <2>2. <<u, g>> \in fresh /\ u \in table => Arriving(u)
    BY <1>1 DEF KnownInv, FreshIsPushed, Pushing, Arriving
  <2>3. ASSUME <<u, g>> \in fresh,
               \A v \in Users : <<u, g, v>> \in mail => <<u, g, v>> \in mail',
               \A x \in Workers : ~(Reply(x) /\ Sends(x, u, g)),
               \A x \in Workers, v \in Users :
                 PushToMembers(x) /\ Lets(x, v, g) /\ <<u, g, u>> \in mail =>
                   <<u, g, v>> \in mail' \/ <<u, g, v>> \in missed'
        PROVE  \/ AllMissed(u, g)' \/ Coming(u, g)'
               \/ /\ <<u, g, u>> \in mail'
                  /\ \A v \in Users : Member(v, g)' =>
                       \/ <<u, g, v>> \in mail' \/ <<u, g, v>> \in missed'
                       \/ \E x \in Workers : Lets(x, v, g)'
    BY <1>1, <1>4, <2>1, <2>3, CompleteSteps DEF KnownInv
  <2>4. CASE \E w \in Workers : PushToMembers(w)
    <3>1. PICK w \in Workers : PushToMembers(w)
      BY <2>4
    <3>2. <<u, g>> \in fresh /\ mail \subseteq mail'
      BY <3>1 DEF PushToMembers
    <3>3. ~(\E x \in Workers : Reply(x))
      BY <3>1, OneAtATime DEF Reply, PushToMembers, At
    <3>4. ASSUME NEW x \in Workers, NEW v \in Users, PushToMembers(x), Lets(x, v, g),
                 <<u, g, u>> \in mail
          PROVE  <<u, g, v>> \in mail' \/ <<u, g, v>> \in missed'
      <4>1. CASE Arriving(u)
        BY <3>4, <4>1 DEF PushToMembers, Lets
      <4>2. CASE u \notin table
        <5>1. u \in MembersOf(db[g])
          BY <1>4 DEF Member, RoleIn, MembersOf
        <5>2. u # v => u \in Absent(job[x].req, MembersOf(db[g]))
          BY <3>4, <4>2, <5>1 DEF Absent, Lets
        <5>3. \A y \in Absent(job[x].req, MembersOf(db[g])) : <<y, g, v>> \in mail'
          BY <3>4 DEF PushToMembers, Lets
        <5> QED
          BY <3>2, <3>4, <5>2, <5>3
      <4> QED
        BY <2>2, <3>2, <4>1, <4>2
    <3> QED
      BY <2>3, <3>2, <3>3, <3>4
  <2>5. CASE \E w \in Workers : Reply(w)
    <3>1. PICK w \in Workers : Reply(w)
      BY <2>5
    <3>2. CASE Sends(w, u, g)
      <4>1. job[w].news # {} /\ job[w].req.of = u /\ job[w].req.group = g
        BY <3>2 DEF Sends
      <4>2. CASE Arriving(u)
        BY <3>1, <4>1, <4>2 DEF Reply, AllMissed
      <4>3. CASE job[w].req.op = "create" /\ w \in hungUp
        <5>1. AllMissed(u, g)
          BY <3>1, <4>1, <4>3 DEF KnownInv, HungUpAreMissed, Reply, At
        <5> QED
          BY <5>1, HistoryGrows DEF AllMissed
      <4>4. CASE ~(job[w].req.op = "create" /\ w \in hungUp) /\ ~Arriving(u)
        <5>1. u \notin table
          BY <2>2, <3>1, <4>1, <4>4 DEF Reply
        <5>2. mail' = Replaced(mail, u, g, job[w].news)
          BY <3>1, <4>1, <4>4, <5>1 DEF Reply
        <5>3. \A v \in job[w].news : <<u, g, v>> \in mail'
          BY <5>2 DEF Replaced
        <5> QED
          BY <1>1, <3>1, <3>2, <5>3, ReplySends DEF KnownInv
      <4> QED
        BY <4>2, <4>3, <4>4
    <3>3. CASE ~Sends(w, u, g)
      <4>1. \A v \in Users : <<u, g, v>> \in mail => <<u, g, v>> \in mail'
        BY <3>1, <3>3 DEF Reply, Replaced, Sends
      <4>2. <<u, g>> \in fresh
        BY <3>1, <3>3 DEF Reply, Sends
      <4>3. \A x \in Workers : ~PushToMembers(x) /\ ~(Reply(x) /\ Sends(x, u, g))
        BY <3>1, <3>3, OneAtATime DEF Reply, PushToMembers, At
      <4> QED
        BY <2>3, <4>1, <4>2, <4>3
    <3> QED
      BY <3>2, <3>3
  <2>6. CASE \A w \in Workers : ~PushToMembers(w) /\ ~Reply(w)
    <3>1. ASSUME NEW w \in Workers, Visits(w)
          PROVE  <<u, g>> \in fresh /\ \A v \in Users : <<u, g, v>> \in mail => <<u, g, v>> \in mail'
      <4>1. CASE PushOfflineUserMessages(w)
        <5>1. job[w].req.user # u /\ <<u, g>> \in fresh
          BY <4>1 DEF PushOfflineUserMessages, Others
        <5> QED
          BY <4>1, <5>1 DEF PushOfflineUserMessages, Others
      <4>2. CASE MessagesUnread(w)
        <5>1. job[w].req.user # u /\ <<u, g>> \in fresh
          BY <1>1, <4>2 DEF MessagesUnread, Others
        <5> QED
          BY <4>2, <5>1 DEF MessagesUnread, Others
      <4>3. CASE GetAllGroupChats(w) \/ GroupsUnread(w) \/ AddOnlineUser(w) \/ DelOnlineUser(w)
        BY <4>3 DEF GetAllGroupChats, GroupsUnread, AddOnlineUser, DelOnlineUser
      <4> QED
        BY <3>1, <4>1, <4>2, <4>3 DEF Visits
    <3>2. End => mail' = mail /\ fresh' = fresh
      BY DEF End
    <3>3. <<u, g>> \in fresh /\ \A v \in Users : <<u, g, v>> \in mail => <<u, g, v>> \in mail'
      BY <2>6, <3>1, <3>2, SessionSteps
    <3> QED
      BY <2>3, <2>6, <3>3
  <2> QED
    BY <2>4, <2>5, <2>6
<1> QED
  BY <1>3, <1>4

LEMMA FreshStep ==
  ASSUME TypeInv, KnownInv, [Next]_vars
  PROVE  FreshIsPushed'
<1> SUFFICES ASSUME NEW u \in table', NEW g \in Groups, <<u, g>> \in fresh',
                    Untouched({u})'
             PROVE  \E w \in Workers : Pushing(w, u)'
  BY DEF FreshIsPushed
<1>1. Untouched({u}) /\ u \notin cut' /\ job \in [Workers -> Job]
  BY UntouchedBefore DEF Untouched, TypeInv, TypeOK
<1>2. CASE u \in table /\ <<u, g>> \in fresh
  <2>1. PICK w \in Workers : Pushing(w, u)
    BY <1>1, <1>2 DEF KnownInv, FreshIsPushed
  <2>2. job[w].at = "PushOfflineUserMessages" /\ job[w].req.user = u
    BY <2>1 DEF Pushing
  <2>3. ~PushOfflineUserMessages(w) /\ ~MessagesUnread(w)
    BY <1>1, <2>2 DEF PushOfflineUserMessages, MessagesUnread, Others
  <2>4. ~End
    BY DEF End
  <2>5. job'[w] = job[w]
    BY <2>2, <2>3, <2>4, OwnSteps
       DEF Begin, BeginCreate, BeginAnswer, Step, RedisError, Visits, HGet, HSet,
           Write, GetGroupChat, PushToManagers, CheckApplication,
           DeleteApplication, PushToMembers, Reply, Login, LoginPanics,
           GetAllGroupChats, GroupsUnread, AddOnlineUser, DelOnlineUser, At, Edits
  <2> QED
    BY <2>2, <2>5 DEF Pushing
<1>3. CASE u \notin table
  <2>1. ~End
    BY DEF End
  <2>2. ASSUME NEW w \in Workers, PushToMembers(w) \/ Reply(w) PROVE table' = table
    BY <2>2 DEF PushToMembers, Reply
  <2>3. PICK w \in Workers : Visits(w) /\ table' # table
    BY <1>3, <2>1, <2>2, SessionSteps
  <2>4. AddOnlineUser(w) /\ job[w].req.user = u
    BY <1>3, <2>3 DEF Visits, GetAllGroupChats, GroupsUnread, AddOnlineUser,
       PushOfflineUserMessages, MessagesUnread, DelOnlineUser
  <2>5. job'[w].at = "PushOfflineUserMessages" /\ job'[w].req = job[w].req
    BY <1>1, <2>4 DEF AddOnlineUser, Goto, Job
  <2> QED
    BY <2>4, <2>5 DEF Pushing
<1>4. CASE u \in table /\ <<u, g>> \notin fresh
  <2>1. ASSUME NEW w \in Workers, Visits(w) PROVE fresh' \subseteq fresh
    BY <2>1 DEF Visits, GetAllGroupChats, GroupsUnread, AddOnlineUser,
       PushOfflineUserMessages, MessagesUnread, DelOnlineUser, Others
  <2>2. ASSUME NEW w \in Workers, PushToMembers(w) PROVE fresh' = fresh
    BY <2>2 DEF PushToMembers
  <2>3. ASSUME NEW w \in Workers, Reply(w) PROVE <<u, g>> \notin fresh'
    BY <1>4, <2>3 DEF Reply
  <2>4. ~End
    BY DEF End
  <2> QED
    BY <1>4, <2>1, <2>2, <2>3, <2>4, SessionSteps
<1> QED
  BY <1>2, <1>3, <1>4

LEMMA RoleStays ==
  ASSUME TypeInv, [Next]_vars, NEW u \in Users, NEW g \in Groups,
         Untouched({u, g})', RoleOf(u, g) # "none"
  PROVE  RoleOf(u, g)' # "none"
<1>1. db[u] # Missing /\ db[u].groups[g] # "none" /\ u \notin stale'
  BY UntouchedParts DEF RoleOf
<1>2. db'[u] # Missing /\ db'[u].groups[g] # "none"
  BY <1>1, UserStays
<1> QED
  BY <1>2 DEF RoleOf

LEMMA MembersHaveRolesStep ==
  ASSUME TypeInv, WholeInv, EnteringInv, KnownInv, [Next]_vars
  PROVE  MembersHaveRoles'
<1> SUFFICES ASSUME NEW u \in Users, NEW g \in Groups, Plain(u, g)'
             PROVE  RoleOf(u, g)' # "none" \/ Coming(u, g)'
  BY DEF MembersHaveRoles
<1>1. /\ Untouched({u, g})' /\ Untouched({g})' /\ Untouched({u, g}) /\ Member(u, g)'
  <2>1. Untouched({u, g})' /\ Member(u, g)'
    BY DEF Plain
  <2>2. Untouched({g})'
    BY <2>1, UntouchedParts
  <2> QED
    BY <2>1, <2>2, UntouchedBefore
<1>2. CASE ~Member(u, g)
  BY <1>1, <1>2, NewComes
<1>3. CASE RoleOf(u, g) # "none"
  BY <1>1, <1>3, RoleStays
<1>4. ASSUME NEW w \in Workers, Lets(w, u, g) \/ Sends(w, u, g)
      PROVE  RoleOf(u, g)' # "none" \/ Coming(u, g)'
  <2>1. CASE Reply(w) /\ Sends(w, u, g)
    <3>1. RoleOf(u, g) # "none"
      BY <1>1, <2>1 DEF KnownInv, RepliedHaveRoles, Reply, At
    <3> QED
      BY <1>1, <3>1, RoleStays
  <2> QED
    BY <1>1, <1>4, <2>1, WillBeSent DEF KnownInv, Coming
<1> QED
  BY <1>1, <1>2, <1>3, <1>4 DEF KnownInv, MembersHaveRoles, Plain, Coming

\* A worker replies when it has written the user's record.
LEMMA RepliedHaveRolesStep ==
  ASSUME TypeInv, NamesInv, KnownInv, [Next]_vars
  PROVE  RepliedHaveRoles'
<1> SUFFICES ASSUME NEW w \in Workers, NEW u \in Users, NEW g \in Groups,
                    Untouched({u, g})', Sends(w, u, g)', job'[w].at = "Reply"
             PROVE  RoleOf(u, g)' # "none"
  BY DEF RepliedHaveRoles
<1>1. /\ Untouched({u, g}) /\ g \notin cut' /\ u \notin cut'
      /\ job \in [Workers -> Job] /\ job[w] \in Job /\ Fits(job[w])
  BY UntouchedBefore DEF Untouched, TypeInv, TypeOK
<1>2. ~PushToMembers(w)
  <2>1. PushToMembers(w) => \E news : GotoWith(w, "UpdateUserNewGC", news)
    BY DEF PushToMembers, After
  <2>2. \A news : ~GotoWith(w, "UpdateUserNewGC", news)
    BY <1>1 DEF GotoWith, Job
  <2> QED
    BY <2>1, <2>2
<1>3. ~(HSet(w) /\ job[w].at = "CreateGroupChat")
  <2>1. HSet(w) /\ job[w].at = "CreateGroupChat"
          => \E news : GotoWith(w, "UpdateUserNewGC", news)
    BY DEF HSet, After
  <2>2. \A news : ~GotoWith(w, "UpdateUserNewGC", news)
    BY <1>1 DEF GotoWith, Job
  <2> QED
    BY <2>1, <2>2
<1>4. /\ job'[w].req = job[w].req /\ job[w].news # {}
      /\ Sends(w, u, g) /\ job[w].req.of = u /\ job[w].req.group = g
  <2>1. job'[w].req = job[w].req /\ job[w].news # {}
    BY <1>2, <1>3, NewsSteps DEF Sends
  <2> QED
    BY <2>1 DEF Sends
<1>5. CASE job[w].at = "Reply"
  <2>1. RoleOf(u, g) # "none"
    BY <1>1, <1>4, <1>5 DEF KnownInv, RepliedHaveRoles
  <2> QED
    BY <2>1, RoleStays
<1>6. CASE job[w].at = "UpdateUserNewGC"
  <2>1. CASE HSet(w)
    <3>1. db'[u] # Missing /\ db'[u].groups[g] = NewRole(job[w].req)
      BY <1>4, <1>6, <2>1, UserWritten
    <3>2. NewRole(job[w].req) # "none"
      BY <1>1, <1>6, NewRoleIsRole DEF Fits
    <3> QED
      BY <3>1, <3>2 DEF RoleOf
  <2>2. ~Refuses(job[w].at, job[w].req, db[Key(job[w].at, job[w].req)])
    <3>1. u \in Named(job[w]) /\ Key(job[w].at, job[w].req) = u
      BY <1>4, <1>6 DEF Named, Key
    <3>2. db[u] # Missing
      BY <3>1 DEF NamesInv, Registered
    <3> QED
      BY <1>6, <3>1, <3>2 DEF Refuses
  <2>3. ~Lost(w)
    <3>1. w \in Busy /\ g \in Touched(job[w].req)
      BY <1>4, GroupIsTouched
    <3> QED
      BY <1>1, <3>1 DEF Lost
  <2> QED
    BY <1>2, <1>6, <2>1, <2>2, <2>3, HandlerSteps DEF Edits
<1> QED
  BY <1>4, <1>5, <1>6, GroupIsTouched, <1>2 DEF PushToMembers

LEMMA HungUpStep ==
  ASSUME TypeInv, KnownInv, [Next]_vars
  PROVE  HungUpAreMissed'
<1> SUFFICES ASSUME NEW w \in hungUp', job'[w].at # "idle",
                    job'[w].req.op = "create"
             PROVE  AllMissed(job[w].req.of, job[w].req.group)'
  BY DEF HungUpAreMissed
<1>1. /\ w \in Workers /\ job \in [Workers -> Job] /\ missed \subseteq missed'
  BY RecordsTypeStep, HistoryGrows DEF TypeInv, TypeOK
<1>2. job[w].at # "idle" /\ job'[w].req = job[w].req
  <2>1. ~BeginCreate(w)
    BY DEF BeginCreate
  <2>2. ASSUME Begin(w) \/ BeginAnswer(w) PROVE FALSE
    <3>1. \A place, q : Start(w, place, q) => job'[w].req = q
      BY <1>1 DEF Start
    <3>2. ~Begin(w)
      BY <3>1 DEF Begin
    <3>3. ~BeginAnswer(w)
      <4>1. BeginAnswer(w) => \E place, q : Start(w, place, q) /\ q.op = "answer"
        BY DEF BeginAnswer
      <4> QED
        BY <3>1, <4>1
    <3> QED
      BY <2>2, <3>2, <3>3
  <2>3. job[w].at = "idle" => job'[w] = job[w] \/ Begin(w) \/ BeginCreate(w) \/ BeginAnswer(w)
    <3>1. job[w].at = "idle" => ~Step(w) /\ ~RedisError(w) /\ ~Visits(w)
      BY VisitSteps DEF Step, Visits, RedisError, HGet, HSet, Write, GetGroupChat,
         PushToManagers, CheckApplication, DeleteApplication, PushToMembers,
         Reply, Login, LoginPanics, At, Edits, VisitPlaces
    <3> QED
      BY <1>1, <3>1, OwnSteps DEF Idle
  <2>4. job[w].at # "idle"
    BY <2>1, <2>2, <2>3
  <2> QED
    BY <1>1, <2>4, RequestSteps
<1>3. CASE w \in hungUp
  BY <1>1, <1>2, <1>3 DEF KnownInv, HungUpAreMissed, AllMissed
<1>4. CASE w \notin hungUp
  <2>1. ~End
    BY DEF End
  <2>2. ASSUME NEW x \in Workers, PushToMembers(x) \/ Reply(x) PROVE hungUp' = hungUp
    BY <2>2 DEF PushToMembers, Reply
  <2>3. PICK x \in Workers : Visits(x)
    BY <1>4, <2>1, <2>2, SessionSteps
  <2>4. PICK y : HangUp(y)
    BY <1>4, <2>3 DEF Visits, GetAllGroupChats, GroupsUnread, AddOnlineUser,
       PushOfflineUserMessages, MessagesUnread, DelOnlineUser
  <2>5. job[w].req.op = "create" /\ job[w].req.of = y
    BY <1>4, <2>4 DEF HangUp
  <2>6. y \in Users /\ job[w].req.group \in Groups
    <3>1. job[w] \in Job /\ Fits(job[w])
      BY <1>1 DEF TypeInv, TypeOK
    <3>2. job[w].req \in Registration \cup Visit \cup Befriending \cup Creation
                            \cup Appointment \cup Applying \cup Answer
      BY <1>2, <3>1 DEF Fits, Job, Places, Edits
    <3>3. job[w].req \in Creation
      BY <2>5, <3>2, RequestOps
    <3> QED
      BY <2>5, <3>3, RequestFields
  <2>7. w \in {v \in Workers : /\ ~At(v, "idle") /\ job[v].req.op = "create"
                              /\ job[v].req.of = y}
    BY <1>1, <1>2, <2>5 DEF At
  <2>8. ASSUME NEW v \in Users PROVE <<y, job[w].req.group, v>> \in missed'
    BY <2>4, <2>6, <2>7, <2>8 DEF HangUp
  <2> QED
    BY <1>2, <2>5, <2>8 DEF AllMissed
<1> QED
  BY <1>3, <1>4

LEMMA KnownStep ==
  ASSUME TypeInv, WholeInv, NamesInv, EnteringInv, KnownInv, [Next]_vars
  PROVE  KnownInv'
<1>1. NewsIsComplete' /\ ClientsKnow' /\ RepliesAreComplete' /\ MailIsComplete'
  BY NewsIsCompleteStep, ClientsKnowStep, RepliesStep, MailStep DEF KnownInv
<1>2. FreshIsPushed' /\ MembersHaveRoles' /\ RepliedHaveRoles' /\ HungUpAreMissed'
  BY FreshStep, MembersHaveRolesStep, RepliedHaveRolesStep, HungUpStep
<1> QED
  BY <1>1, <1>2 DEF KnownInv

\* The client of a member who is logged in knows all members of the group
\* when nobody is being let in, whatever joins, appointments, logins and
\* logouts overlapped and whatever was stored meanwhile, unless a write of
\* the group's or the member's record was lost, a failure met one of them,
\* or somebody was let in while that record or a login reply was on its way
\* to that client: PushToMembers of groupChatImpl.go reads the record again
\* after it has been written and stores for the members who are away, the
\* login reply has the records as they are read, and AddNewMember2GC of the
\* client drops only what the record that is on its way will say.
THEOREM MembersAreKnown == Spec => []MembersKnowEachOther
<1>1. TypeInv /\ KnownInv => MembersKnowEachOther
  <2> SUFFICES ASSUME TypeInv, KnownInv, NEW g \in Groups \ (stale \cup cut),
                      NEW u \in table \ (stale \cup cut),
                      db[g] # Missing, u \in MembersOf(db[g]),
                      \A w \in Busy : g \notin Touched(job[w].req),
                      NEW v \in MembersOf(db[g])
               PROVE  <<u, g, v>> \in told \cup missed
    BY DEF MembersKnowEachOther
  <2>1. /\ u \in Users /\ v \in Users
        /\ Member(v, g) /\ Plain(u, g)
    BY DEF MembersOf, Member, RoleIn, Untouched, Plain
  <2>2. ASSUME NEW w \in Workers, NEW x, Lets(w, x, g) \/ Sends(w, x, g)
        PROVE  FALSE
    BY <2>2, GroupIsTouched DEF Lets, Sends
  <2>3. Complete(told, u, g)
    BY <2>1 DEF KnownInv, ClientsKnow
  <2> QED
    BY <2>1, <2>2, <2>3 DEF Complete, Coming, AllMissed
<1>2. TypeInv /\ WholeInv /\ [Next]_vars => WholeInv'
  BY WholeStep
<1>3. TypeInv /\ EnteringInv /\ [Next]_vars => EnteringInv'
  BY EnteringStep
<1>4. TypeInv /\ WholeInv /\ NamesInv /\ [Next]_vars => NamesInv'
  BY NamesStep
<1>5. TypeInv /\ WholeInv /\ NamesInv /\ EnteringInv /\ KnownInv /\ [Next]_vars => KnownInv'
  BY KnownStep
<1> QED
  BY <1>1, <1>2, <1>3, <1>4, <1>5, WholeInit, NamesInit, EnteringInit, KnownInit,
     RecordsTypeInvariant, PTL DEF Spec
=============================================================================
