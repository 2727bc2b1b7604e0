--------------------------- MODULE RecordsProofs ----------------------------
(***************************************************************************)
(* Proofs about Records, for every set of users, groups and workers, every *)
(* number of seats and failures, and whatever is stored and requested at   *)
(* the start.                                                              *)
(***************************************************************************)
EXTENDS Records, SequenceLemmas, FiniteSetTheorems, TLAPS

-----------------------------------------------------------------------------
(* Type correctness.  What a handler is at work on goes with its place.    *)

Registration == [op : {"register"}, user : Users, pwd : Passwords]
Visit        == [op : {"login", "logout"}, user : Users]
Befriending  == [op : {"befriend"}, user : Users, of : Users]
Appointment  == [op : {"appoint"}, user : Users, of : Users, group : Groups]
Applying     == [op : {"apply"}, of : Users, group : Groups, time : Times]

Fits(j) ==
    /\ j.at = "Register" => j.req \in Registration /\ j.copy \in {NoCopy, Missing}
    /\ j.at \in {"Login", "GetAllGroupChats", "AddOnlineUser",
                 "PushOfflineUserMessages", "DelOnlineUser"} => j.req \in Visit
    /\ j.at = "ModifyUserStatusById" =>
         j.req \in Visit /\ j.copy \in Account \cup {NoCopy}
    /\ j.at \in {"AddFriendForUser", "AddFriendBack"} =>
         j.req \in Befriending /\ j.copy \in Account \cup {NoCopy}
    /\ j.at = "CreateGroupChat" => j.req \in Creation /\ j.req.user = j.req.of
    /\ j.at = "AddNewManagerInGC" =>
         j.req \in Appointment /\ j.copy \in GroupChat \cup {NoCopy}
    /\ j.at = "AddNewMemberToGC" =>
         j.req \in Answer /\ j.copy \in GroupChat \cup {NoCopy}
    /\ j.at \in {"CheckApplication", "DeleteApplication", "PushToMembers"} =>
         j.req \in Answer
    /\ j.at = "UpdateUserNewGC" =>
         /\ j.req \in Creation \cup Appointment \cup Answer
         /\ j.copy \in Account \cup {NoCopy}
    /\ j.at = "Reply" => j.req \in Creation \cup Answer
    /\ j.at = "GetGroupChat" => j.req \in Applying
    /\ j.at = "PushToManagers" => j.req \in Applying /\ j.copy \in GroupChat
    /\ j.at \notin {"UpdateUserNewGC", "Reply"} \/ j.req \in Appointment
         => j.news = {}

TypeInv ==
    /\ TypeOK /\ todo \subseteq Sent
    /\ \A w \in Workers : Fits(job[w])

LEMMA SentByOp ==
  ASSUME NEW r \in Sent
  PROVE  /\ r.op = "register" => r \in Registration
         /\ r.op \in {"login", "logout"} => r \in Visit
         /\ r.op = "befriend" => r \in Befriending
         /\ r.op = "appoint" => r \in Appointment
         /\ r.op = "apply" => r \in Applying
         /\ r.op = "create" => r.user \in Users
         /\ r.op \in {"register", "login", "logout", "befriend", "appoint",
                      "apply", "create"}
  BY DEF Sent, Registration, Visit, Befriending, Appointment, Applying

LEMMA RequestParts ==
  /\ Registration \cup Visit \cup Befriending \cup Appointment \cup Applying
       \subseteq Sent
  /\ Sent \cup Creation \cup Answer = Request
  BY DEF Sent, Registration, Visit, Befriending, Appointment, Applying, Request

LEMMA JobChanges ==
  ASSUME TypeInv, NEW w \in Workers, NEW j \in Job, Fits(j),
         job' = [job EXCEPT ![w] = j]
  PROVE  job' \in [Workers -> Job] /\ \A v \in Workers : Fits(job'[v])
  BY DEF TypeInv, TypeOK

LEMMA GotoFits ==
  ASSUME TypeInv, NEW w \in Workers, NEW place \in Places, Goto(w, place),
         place # "idle" => Fits([job[w] EXCEPT !.at = place, !.copy = NoCopy])
  PROVE  job' \in [Workers -> Job] /\ \A v \in Workers : Fits(job'[v])
<1>1. Idle \in Job /\ Fits(Idle)
  BY DEF Idle, Job, Places, Fits
<1>2. [job[w] EXCEPT !.at = place, !.copy = NoCopy] \in Job
  BY DEF TypeInv, TypeOK, Job
<1> QED
  BY <1>1, <1>2, JobChanges DEF Goto

GroupEdits == {"CreateGroupChat", "AddNewManagerInGC", "AddNewMemberToGC"}

LEMMA RequestFields ==
  /\ \A r \in Registration : r.user \in Users /\ r.pwd \in Passwords
  /\ \A r \in Visit : r.user \in Users
  /\ \A r \in Befriending : r.user \in Users /\ r.of \in Users
  /\ \A r \in Creation \cup Appointment :
       r.user \in Users /\ r.of \in Users /\ r.group \in Groups
  /\ \A r \in Applying : App(r) \in Application /\ r.of \in Users /\ r.group \in Groups
  /\ \A r \in Answer : /\ App(r) \in Application /\ r.user \in Users
                       /\ r.of \in Users /\ r.group \in Groups
  BY DEF Registration, Visit, Befriending, Creation, Appointment, Applying,
         Answer, App, Application

LEMMA RequestOps ==
  /\ \A r \in Registration : r.op = "register"
  /\ \A r \in Visit : r.op \in {"login", "logout"}
  /\ \A r \in Befriending : r.op = "befriend"
  /\ \A r \in Creation : r.op = "create"
  /\ \A r \in Appointment : r.op = "appoint"
  /\ \A r \in Applying : r.op = "apply"
  /\ \A r \in Answer : r.op = "answer"
  BY DEF Registration, Visit, Befriending, Creation, Appointment, Applying,
         Answer

LEMMA KeyOfEdit ==
  ASSUME NEW j, Fits(j), j.at \in Edits
  PROVE  /\ Key(j.at, j.req) \in Keys
         /\ j.at \in GroupEdits => /\ Key(j.at, j.req) \in Groups
                                   /\ Key(j.at, j.req) = j.req.group
         /\ j.at \notin GroupEdits => Key(j.at, j.req) \in Users
  BY RequestFields DEF Fits, Edits, GroupEdits, Key, Keys

LEMMA AfterFits ==
  ASSUME NEW j, Fits(j), j.at \in Edits \cup {"PushToMembers"}, NEW ok \in BOOLEAN
  PROVE  After(j.at, j.req, ok) \in
           CASE j.at = "ModifyUserStatusById" -> {"GetAllGroupChats", "idle"}
             [] j.at = "AddFriendForUser" -> {"AddFriendBack"}
             [] j.at = "CreateGroupChat" -> {"UpdateUserNewGC"}
             [] j.at = "AddNewManagerInGC" -> {"UpdateUserNewGC", "idle"}
             [] j.at = "AddNewMemberToGC" -> {"PushToMembers", "Reply"}
             [] j.at = "PushToMembers" -> {"UpdateUserNewGC"}
             [] j.at = "UpdateUserNewGC" ->
                  IF j.req \in Creation \cup Answer THEN {"Reply"} ELSE {"idle"}
             [] OTHER -> {"idle"}
  BY RequestOps DEF Fits, After, Edits

LEMMA AfterGoto ==
  ASSUME TypeInv, NEW w \in Workers, job[w].at \in Edits \cup {"PushToMembers"},
         NEW ok \in BOOLEAN, Goto(w, After(job[w].at, job[w].req, ok))
  PROVE  job' \in [Workers -> Job] /\ \A v \in Workers : Fits(job'[v])
<1> DEFINE j == job[w]
           place == After(j.at, j.req, ok)
<1>1. j \in Job /\ Fits(j)
  BY DEF TypeInv, TypeOK
<1>2. place \in Places
  BY <1>1, AfterFits DEF Edits, Places
<1>3. ASSUME place # "idle"
      PROVE  Fits([j EXCEPT !.at = place, !.copy = NoCopy])
  <2> DEFINE new == [j EXCEPT !.at = place, !.copy = NoCopy]
  <2>1. /\ new.at = place /\ new.copy = NoCopy
        /\ new.req = j.req /\ new.news = j.news
    BY <1>1 DEF Job
  <2>2. CASE j.at \in {"ModifyUserStatusById", "AddFriendForUser"}
    BY <1>1, <1>3, <2>1, <2>2, AfterFits DEF Fits, Edits
  <2>3. CASE j.at \in {"CreateGroupChat", "AddNewManagerInGC", "PushToMembers"}
    BY <1>1, <1>3, <2>1, <2>3, AfterFits DEF Fits, Edits
  <2>4. CASE j.at = "AddNewMemberToGC"
    BY <1>1, <1>3, <2>1, <2>4, AfterFits DEF Fits, Edits
  <2>5. CASE j.at = "UpdateUserNewGC"
    BY <1>1, <1>3, <2>1, <2>5, AfterFits DEF Fits, Edits
  <2> QED
    BY <1>1, <1>3, <2>2, <2>3, <2>4, <2>5, AfterFits DEF Edits
<1> QED
  BY <1>2, <1>3, GotoFits

LEMMA ChangedFits ==
  ASSUME TypeInv, NEW w \in Workers, job[w].at \in Edits, Copy(w) # NoCopy
  PROVE  LET new == Changed(job[w].at, job[w].req, Copy(w)) IN
         IF job[w].at \in GroupEdits THEN new \in GroupChat ELSE new \in Account
<1> DEFINE j == job[w]
           new == Changed(j.at, j.req, Copy(w))
<1>1. j \in Job /\ Fits(j)
  BY DEF TypeInv, TypeOK
<1>2. CASE j.at = "Register"
  BY <1>1, <1>2, RequestFields
     DEF Fits, Changed, NewAccount, Account, Roles, GroupEdits
<1>3. CASE j.at = "CreateGroupChat"
  <2>1. j.req.user \in Users
    BY <1>1, <1>3, RequestFields DEF Fits
  <2>2. <<j.req.user>> \in Seq(Users)
    BY <2>1
  <2> QED
    BY <1>3, <2>1, <2>2
       DEF Changed, NewGroupChat, GroupChat, Roles, GroupEdits
<1>4. CASE j.at = "ModifyUserStatusById"
  <2>1. Copy(w) \in Account
    BY <1>1, <1>4 DEF Fits, Copy, At
  <2> QED
    BY <1>4, <2>1 DEF Changed, Account, GroupEdits
<1>5. CASE j.at \in {"AddFriendForUser", "AddFriendBack"}
  <2>1. Copy(w) \in Account /\ j.req.user \in Users /\ j.req.of \in Users
    BY <1>1, <1>5, RequestFields DEF Fits, Copy, At
  <2> QED
    BY <1>5, <2>1 DEF Changed, Account, GroupEdits
<1>6. CASE j.at \in {"AddNewManagerInGC", "AddNewMemberToGC"}
  <2>1. Copy(w) \in GroupChat /\ j.req.of \in Users
    BY <1>1, <1>6, RequestFields DEF Fits, Copy, At
  <2>2. Append(Copy(w).mgrs, j.req.of) \in Seq(Users)
    BY <2>1, AppendRange DEF GroupChat
  <2>3. \A role \in {"admin", "member"} :
          [Copy(w).role EXCEPT ![j.req.of] = role] \in [Users -> Roles]
    BY <2>1 DEF GroupChat, Roles
  <2> QED
    BY <1>6, <2>1, <2>2, <2>3 DEF Changed, Seated, GroupChat, GroupEdits
<1>7. CASE j.at = "UpdateUserNewGC"
  <2>1. Copy(w) \in Account /\ j.req.group \in Groups
    BY <1>1, <1>7, RequestFields DEF Fits, Copy, At
  <2>2. NewRole(j.req) \in Roles
    BY <1>1, <1>7, RequestOps DEF Fits, NewRole, Roles
  <2> QED
    BY <1>7, <2>1, <2>2 DEF Changed, Account, GroupEdits
<1> QED
  BY <1>1, <1>2, <1>3, <1>4, <1>5, <1>6, <1>7 DEF Job, Edits

LEMMA BusyFits ==
  ASSUME TypeInv, NEW w \in Busy
  PROVE  /\ Touched(job[w].req) \subseteq Keys
         /\ job[w].req.op = "answer" => /\ job[w].req \in Answer
                                        /\ App(job[w].req) \in Application
<1>1. job[w] \in Job /\ Fits(job[w]) /\ job[w].at # "idle"
  BY DEF TypeInv, TypeOK, Busy, At
<1>2. job[w].req \in Registration \cup Visit \cup Befriending \cup Creation
                       \cup Appointment \cup Applying \cup Answer
  BY <1>1 DEF Fits, Job, Places, Edits
<1> QED
  BY <1>2, RequestFields, RequestOps DEF Touched, Keys

LEMMA WriteTypes ==
  ASSUME TypeInv, NEW w \in Workers, Write(w)
  PROVE  /\ db' \in [Keys -> Account \cup GroupChat \cup {Missing}]
         /\ \A u \in Users : db'[u] \in Account \cup {Missing}
         /\ \A g \in Groups : db'[g] \in GroupChat \cup {Missing}
         /\ stale' \subseteq Keys
         /\ rejoined' \subseteq Users \X Groups
         /\ crossed' \subseteq SUBSET Keys
<1> DEFINE k == Key(job[w].at, job[w].req)
           new == Changed(job[w].at, job[w].req, Copy(w))
<1>1. job[w].at \in Edits /\ Copy(w) # NoCopy /\ db' = [db EXCEPT ![k] = new]
  BY DEF Write
<1>2. job[w] \in Job /\ Fits(job[w]) /\ w \in Busy
  BY <1>1 DEF TypeInv, TypeOK, Busy, At, Edits
<1>3. IF job[w].at \in GroupEdits THEN k \in Groups /\ new \in GroupChat
                                  ELSE k \in Users /\ new \in Account
  BY <1>1, <1>2, ChangedFits, KeyOfEdit
<1>4. k \in Keys /\ Users \cap Groups = {} /\ Users \subseteq Keys /\ Groups \subseteq Keys
  BY <1>3, RecordsAssumption DEF Keys
<1> HIDE DEF k, new
<1>5. /\ db' \in [Keys -> Account \cup GroupChat \cup {Missing}]
      /\ \A u \in Users : db'[u] \in Account \cup {Missing}
      /\ \A g \in Groups : db'[g] \in GroupChat \cup {Missing}
  BY <1>1, <1>3, <1>4 DEF TypeInv, TypeOK
<1>6. stale' \subseteq Keys
  BY <1>4 DEF Write, TypeInv, TypeOK, k
<1>7. rejoined' \subseteq Users \X Groups
  <2>1. job[w].at = "AddNewMemberToGC" =>
          job[w].req.of \in Users /\ job[w].req.group \in Groups
    BY <1>2, RequestFields DEF Fits
  <2> QED
    BY <2>1 DEF Write, TypeInv, TypeOK
<1>8. crossed' \subseteq SUBSET Keys
  BY <1>2, BusyFits DEF Write, TypeInv, TypeOK
<1> QED
  BY <1>5, <1>6, <1>7, <1>8

LEMMA RecordsTypeInit == Init => TypeInv
<1> SUFFICES ASSUME Init PROVE TypeInv
  OBVIOUS
<1>1. PICK s \in Scenarios : db = s.start /\ todo = s.todo /\ table = s.table
  BY DEF Init
<1>2. /\ db \in [Keys -> Account \cup GroupChat \cup {Missing}]
      /\ \A u \in Users : db[u] \in Account \cup {Missing}
      /\ \A g \in Groups : db[g] \in GroupChat \cup {Missing}
      /\ todo \subseteq Sent /\ table \subseteq Users
  BY <1>1, ScenariosAssumption DEF Consistent
<1>3. Idle \in Job /\ Fits(Idle)
  BY DEF Idle, Job, Places, Fits
<1>4. told \subseteq Users \X Groups \X Users
  BY <1>2 DEF Init
<1> QED
  BY <1>2, <1>3, <1>4, RequestParts, RecordsAssumption
     DEF Init, TypeInv, TypeOK, Keys

LEMMA BeginTypes ==
  ASSUME TypeInv, NEW w \in Workers, Begin(w) \/ BeginCreate(w) \/ BeginAnswer(w)
  PROVE  TypeInv'
<1>1. CASE Begin(w)
  <2>1. PICK r \in todo : r.op # "create" /\ Start(w, First(r.op), r)
    BY <1>1 DEF Begin
  <2> DEFINE j == [at |-> First(r.op), req |-> r, copy |-> NoCopy, news |-> {}]
  <2>2. r \in Sent
    BY DEF TypeInv
  <2>3. First(r.op) \in Places
    BY <2>1, <2>2, SentByOp DEF First, Places, Edits
  <2>4. j \in Job
    BY <2>2, <2>3, RequestParts DEF Job
  <2>5. Fits(j)
    BY <2>1, <2>2, SentByOp DEF Fits, First
  <2>6. job' \in [Workers -> Job] /\ \A v \in Workers : Fits(job'[v])
    BY <2>1, <2>4, <2>5, JobChanges DEF Start
  <2>7. asked' \subseteq asked /\ todo' \subseteq todo
    BY <1>1 DEF Begin, Unasked
  <2> QED
    BY <1>1, <2>6, <2>7 DEF Begin, TypeInv, TypeOK, sessions, history
<1>2. CASE BeginCreate(w)
  <2>1. PICK r \in todo, g \in Groups :
          /\ r.op = "create"
          /\ Start(w, "CreateGroupChat",
                   [op |-> "create", user |-> r.user, of |-> r.user, group |-> g])
    BY <1>2 DEF BeginCreate
  <2> DEFINE c == [op |-> "create", user |-> r.user, of |-> r.user, group |-> g]
             j == [at |-> "CreateGroupChat", req |-> c, copy |-> NoCopy, news |-> {}]
  <2>2. c \in Creation
    BY <2>1, SentByOp DEF TypeInv, Creation
  <2>3. j \in Job /\ Fits(j)
    BY <2>2, RequestParts DEF Job, Fits, Places, Edits
  <2>4. job' \in [Workers -> Job] /\ \A v \in Workers : Fits(job'[v])
    BY <2>1, <2>3, JobChanges DEF Start
  <2> QED
    BY <1>2, <2>4 DEF BeginCreate, TypeInv, TypeOK, history
<1>3. CASE BeginAnswer(w)
  <2>1. PICK ask \in asked, yes \in BOOLEAN :
          Start(w, "CheckApplication",
                [op |-> "answer", user |-> ask[1], of |-> ask[2].applier,
                 group |-> ask[2].group, time |-> ask[2].time, yes |-> yes])
    BY <1>3 DEF BeginAnswer
  <2> DEFINE c == [op |-> "answer", user |-> ask[1], of |-> ask[2].applier,
                   group |-> ask[2].group, time |-> ask[2].time, yes |-> yes]
             j == [at |-> "CheckApplication", req |-> c, copy |-> NoCopy, news |-> {}]
  <2>2. c \in Answer
    BY DEF TypeInv, TypeOK, Application, Answer
  <2>3. j \in Job /\ Fits(j)
    BY <2>2, RequestParts DEF Job, Fits, Places
  <2>4. job' \in [Workers -> Job] /\ \A v \in Workers : Fits(job'[v])
    BY <2>1, <2>3, JobChanges DEF Start
  <2>5. asked' \subseteq asked
    BY <1>3 DEF BeginAnswer
  <2> QED
    BY <1>3, <2>4, <2>5 DEF BeginAnswer, TypeInv, TypeOK, sessions, history
<1> QED
  BY <1>1, <1>2, <1>3

LEMMA NotRefused ==
  ASSUME NEW at, NEW r, NEW rec, ~Refuses(at, r, rec)
  PROVE  /\ IF at = "Register" THEN rec = Missing ELSE rec # Missing
         /\ at = "AddNewManagerInGC" => ~NoSuchManager(r, rec)
  BY DEF Refuses, Taken

LEMMA EditTypes ==
  ASSUME TypeInv, NEW w \in Workers, HGet(w) \/ HSet(w) \/ RedisError(w)
  PROVE  TypeInv'
<1> DEFINE j == job[w]
           r == job[w].req
<1>1. j \in Job /\ Fits(j)
  BY DEF TypeInv, TypeOK
<1>2. CASE HGet(w)
  <2> DEFINE rec == db[Key(j.at, r)]
  <2>1. j.at \in Edits /\ j.at # "CreateGroupChat"
    BY <1>2 DEF HGet
  <2>2. CASE Refuses(j.at, r, rec)
    <3>1. Goto(w, After(j.at, r, FALSE))
      BY <1>2, <2>2 DEF HGet
    <3>2. job' \in [Workers -> Job] /\ \A v \in Workers : Fits(job'[v])
      BY <2>1, <3>1, AfterGoto
    <3> QED
      BY <1>2, <3>2 DEF HGet, TypeInv, TypeOK, clients, sessions, history
  <2>3. CASE ~Refuses(j.at, r, rec)
    <3>1. job' = [job EXCEPT ![w] = [@ EXCEPT !.copy = rec]]
      BY <1>2, <2>3 DEF HGet
    <3>2. /\ j.at \in GroupEdits => rec \in GroupChat
          /\ j.at = "Register" => rec = Missing
          /\ j.at \notin GroupEdits \cup {"Register"} => rec \in Account
      <4>1. IF j.at \in GroupEdits THEN rec \in GroupChat \cup {Missing}
                                   ELSE rec \in Account \cup {Missing}
        BY <1>1, <2>1, KeyOfEdit DEF TypeInv, TypeOK
      <4>2. IF j.at = "Register" THEN rec = Missing ELSE rec # Missing
        BY <2>3, NotRefused
      <4> QED
        BY <4>1, <4>2 DEF GroupEdits
    <3>3. rec \in Account \cup GroupChat \cup {Missing}
      BY <1>1, <2>1, KeyOfEdit DEF TypeInv, TypeOK
    <3> HIDE DEF rec
    <3>4. [j EXCEPT !.copy = rec] \in Job
      BY <1>1, <3>3 DEF Job
    <3>5. Fits([j EXCEPT !.copy = rec])
      BY <1>1, <2>1, <3>2 DEF Fits, GroupEdits, Edits, Job
    <3>6. job' \in [Workers -> Job] /\ \A v \in Workers : Fits(job'[v])
      BY <3>1, <3>4, <3>5, JobChanges
    <3> QED
      BY <1>2, <3>6 DEF HGet, TypeInv, TypeOK, clients, sessions, history
  <2> QED
    BY <2>2, <2>3
<1>3. CASE HSet(w)
  <2>1. Write(w) /\ j.at \in Edits
    BY <1>3 DEF HSet, Write
  <2>2. job' \in [Workers -> Job] /\ \A v \in Workers : Fits(job'[v])
    <3>1. CASE j.at = "CreateGroupChat"
      <4> DEFINE new == [j EXCEPT !.at = "UpdateUserNewGC", !.copy = NoCopy,
                                  !.news = {r.user}]
      <4>1. job' = [job EXCEPT ![w] = new]
        BY <1>3, <3>1 DEF HSet, GotoWith, After
      <4>2. r \in Creation /\ r.user \in Users
        BY <1>1, <3>1, RequestFields DEF Fits
      <4>3. new \in Job /\ Fits(new)
        BY <1>1, <4>2, RequestOps DEF Job, Fits, Places, Edits
      <4> QED
        BY <4>1, <4>3, JobChanges
    <3>2. CASE j.at # "CreateGroupChat"
      BY <1>3, <2>1, <3>2, AfterGoto DEF HSet
    <3> QED
      BY <3>1, <3>2
  <2> QED
    BY <1>3, <2>1, <2>2, WriteTypes DEF HSet, TypeInv, TypeOK, clients, sessions
<1>4. CASE RedisError(w)
  <2>1. j.at \in Edits \cup {"PushToMembers"} /\ Goto(w, After(j.at, r, FALSE))
    BY <1>4 DEF RedisError
  <2>2. job' \in [Workers -> Job] /\ \A v \in Workers : Fits(job'[v])
    BY <2>1, AfterGoto
  <2>3. failures' \in 0..MaxFailures
    BY <1>4, RecordsAssumption DEF RedisError, TypeInv, TypeOK
  <2>4. cut' \subseteq Keys
    <3>1. w \in Busy
      BY <2>1 DEF Busy, At, Edits
    <3> QED
      BY <1>4, <3>1, BusyFits DEF RedisError, TypeInv, TypeOK
  <2>5. CASE UNCHANGED <<db, stale, rejoined, crossed>>
    BY <1>4, <2>2, <2>3, <2>4, <2>5
       DEF RedisError, TypeInv, TypeOK, clients, sessions
  <2>6. CASE Write(w)
    BY <1>4, <2>2, <2>3, <2>4, <2>6, WriteTypes
       DEF RedisError, TypeInv, TypeOK, clients, sessions
  <2> QED
    BY <1>4, <2>5, <2>6 DEF RedisError
<1> QED
  BY <1>2, <1>3, <1>4

LEMMA ApplicationTypes ==
  ASSUME TypeInv, NEW w \in Workers,
         \/ GetGroupChat(w) \/ PushToManagers(w)
         \/ CheckApplication(w) \/ DeleteApplication(w)
  PROVE  TypeInv'
<1> DEFINE j == job[w]
           r == job[w].req
<1>1. j \in Job /\ Fits(j)
  BY DEF TypeInv, TypeOK
<1>2. CASE GetGroupChat(w)
  <2> DEFINE rec == db[r.group]
  <2>1. j.at = "GetGroupChat" /\ r \in Applying
    BY <1>1, <1>2 DEF GetGroupChat, At, Fits
  <2>2. rec \in GroupChat \cup {Missing}
    BY <2>1, RequestFields DEF TypeInv, TypeOK
  <2>3. CASE rec = Missing
    <3>1. Goto(w, "idle")
      BY <1>2, <2>3 DEF GetGroupChat
    <3>2. job' \in [Workers -> Job] /\ \A v \in Workers : Fits(job'[v])
      BY <3>1, GotoFits DEF Places, Fits
    <3> QED
      BY <1>2, <3>2 DEF GetGroupChat, TypeInv, TypeOK, clients, sessions, history
  <2>4. CASE rec # Missing
    <3> DEFINE new == [j EXCEPT !.at = "PushToManagers", !.copy = rec]
    <3>1. job' = [job EXCEPT ![w] = new]
      BY <1>2, <2>4 DEF GetGroupChat
    <3>2. new \in Job /\ Fits(new)
      BY <1>1, <2>1, <2>2, <2>4 DEF Job, Fits, Places
    <3>3. job' \in [Workers -> Job] /\ \A v \in Workers : Fits(job'[v])
      BY <3>1, <3>2, JobChanges
    <3> QED
      BY <1>2, <3>3 DEF GetGroupChat, TypeInv, TypeOK, clients, sessions, history
  <2> QED
    BY <2>3, <2>4
<1>3. CASE PushToManagers(w)
  <2>1. r \in Applying /\ j.copy \in GroupChat /\ App(r) \in Application
    BY <1>1, <1>3, RequestFields DEF PushToManagers, At, Fits
  <2>2. Range(j.copy.mgrs) \subseteq Users
    BY <2>1, RangeOfSeqInSet DEF GroupChat
  <2>3. asked' \subseteq Users \X Application /\ applied' \subseteq Application
    BY <1>3, <2>1, <2>2 DEF PushToManagers, TypeInv, TypeOK
  <2>4. job' \in [Workers -> Job] /\ \A v \in Workers : Fits(job'[v])
    BY <1>3, GotoFits DEF PushToManagers, Places, Fits
  <2> QED
    BY <1>3, <2>3, <2>4 DEF PushToManagers, TypeInv, TypeOK, sessions, history
<1>4. CASE CheckApplication(w)
  <2>1. j.at = "CheckApplication" /\ r \in Answer
    BY <1>1, <1>4 DEF CheckApplication, At, Fits
  <2>2. \A place \in {"DeleteApplication", "idle"} :
          place \in Places /\ Fits([j EXCEPT !.at = place, !.copy = NoCopy])
    BY <1>1, <2>1 DEF Places, Fits, Job
  <2>3. job' \in [Workers -> Job] /\ \A v \in Workers : Fits(job'[v])
    BY <1>4, <2>2, GotoFits DEF CheckApplication
  <2> QED
    BY <1>4, <2>3 DEF CheckApplication, TypeInv, TypeOK, clients, sessions, history
<1>5. CASE DeleteApplication(w)
  <2>1. /\ j.at = "DeleteApplication" /\ r \in Answer
        /\ App(r) \in Application /\ r.user \in Users
    BY <1>1, <1>5, RequestFields DEF DeleteApplication, At, Fits
  <2>2. \A place \in {"AddNewMemberToGC", "Reply"} :
          place \in Places /\ Fits([j EXCEPT !.at = place, !.copy = NoCopy])
    BY <1>1, <2>1 DEF Places, Edits, Fits, Job
  <2>3. job' \in [Workers -> Job] /\ \A v \in Workers : Fits(job'[v])
    BY <1>5, <2>2, GotoFits DEF DeleteApplication, Verdict
  <2> QED
    BY <1>5, <2>1, <2>3
       DEF DeleteApplication, Deleted, TypeInv, TypeOK, clients, sessions
<1> QED
  BY <1>2, <1>3, <1>4, <1>5

LEMMA ReplyTypes ==
  ASSUME TypeInv, NEW w \in Workers,
         PushToMembers(w) \/ Reply(w) \/ Login(w)
  PROVE  TypeInv'
<1> DEFINE j == job[w]
           r == job[w].req
<1>1. j \in Job /\ Fits(j)
  BY DEF TypeInv, TypeOK
<1>2. CASE PushToMembers(w)
  <2> DEFINE members == MembersOf(db[r.group])
             new == [j EXCEPT !.at = "UpdateUserNewGC", !.copy = NoCopy,
                              !.news = members]
  <2>1. j.at = "PushToMembers" /\ r \in Answer /\ r.of \in Users /\ r.group \in Groups
    BY <1>1, <1>2, RequestFields DEF PushToMembers, At, Fits
  <2>2. job' = [job EXCEPT ![w] = new] /\ members \subseteq Users
    BY <1>2 DEF PushToMembers, GotoWith, After, MembersOf
  <2>3. new \in Job /\ Fits(new)
    BY <1>1, <2>1, <2>2, RequestOps DEF Job, Fits, Places, Edits
  <2>4. job' \in [Workers -> Job] /\ \A v \in Workers : Fits(job'[v])
    BY <2>2, <2>3, JobChanges
  <2>5. told' \subseteq Users \X Groups \X Users
    BY <1>2, <2>1, <2>2 DEF PushToMembers, Audience, TypeInv, TypeOK
  <2>7. mail' \subseteq Users \X Groups \X Users
    BY <1>2, <2>1, <2>2 DEF PushToMembers, Absent, TypeInv, TypeOK
  <2>6. missed' \subseteq Users \X Groups \X Users
    <3>1. ASSUME NEW v \in Workers, job[v].news # {}
          PROVE  job[v].req.of \in Users
      <4>1. job[v] \in Job /\ Fits(job[v])
        BY DEF TypeInv, TypeOK
      <4>2. job[v].req \in Creation \cup Appointment \cup Answer
        BY <3>1, <4>1 DEF Fits
      <4> QED
        BY <4>2, RequestFields
    <3> QED
      BY <1>2, <2>1, <3>1 DEF PushToMembers, TypeInv, TypeOK
  <2> QED
    BY <1>2, <2>4, <2>5, <2>6, <2>7 DEF PushToMembers, TypeInv, TypeOK
<1>3. CASE Reply(w)
  <2>1. r \in Creation \cup Answer /\ r.of \in Users /\ r.group \in Groups
    BY <1>1, <1>3, RequestFields DEF Reply, At, Fits
  <2>2. j.news \subseteq Users
    BY <1>1 DEF Job
  <2>3. told' \subseteq Users \X Groups \X Users
    BY <1>3, <2>1, <2>2 DEF Reply, Replaced, TypeInv, TypeOK
  <2>6. mail' \subseteq Users \X Groups \X Users /\ fresh' \subseteq Users \X Groups
    BY <1>3, <2>1, <2>2 DEF Reply, Replaced, TypeInv, TypeOK
  <2>7. missed' \subseteq Users \X Groups \X Users
    BY <1>3, <2>1 DEF Reply, TypeInv, TypeOK
  <2>4. replied' \subseteq Application
    BY <1>3, <2>1, RequestFields, RequestOps DEF Reply, TypeInv, TypeOK
  <2>5. job' \in [Workers -> Job] /\ \A v \in Workers : Fits(job'[v])
    BY <1>3, GotoFits DEF Reply, Places, Fits
  <2> QED
    BY <1>3, <2>3, <2>4, <2>5, <2>6, <2>7 DEF Reply, TypeInv, TypeOK
<1>4. CASE Login(w)
  <2>1. j.at = "Login" /\ r \in Visit
    BY <1>1, <1>4 DEF Login, At, Fits
  <2>2. \A place \in {"idle", "GetAllGroupChats", "ModifyUserStatusById"} :
          place \in Places /\ Fits([j EXCEPT !.at = place, !.copy = NoCopy])
    BY <1>1, <2>1 DEF Places, Edits, Fits, Job
  <2>3. job' \in [Workers -> Job] /\ \A v \in Workers : Fits(job'[v])
    BY <1>4, <2>2, GotoFits DEF Login
  <2> QED
    BY <1>4, <2>3 DEF Login, TypeInv, TypeOK, clients, sessions, history
<1> QED
  BY <1>2, <1>3, <1>4

\* The steps of logins and logouts but for those of the user's record.
Visits(w) ==
    \/ GetAllGroupChats(w) \/ GroupsUnread(w) \/ AddOnlineUser(w)
    \/ PushOfflineUserMessages(w) \/ MessagesUnread(w) \/ DelOnlineUser(w)

VisitPlaces ==
    {"GetAllGroupChats", "AddOnlineUser", "PushOfflineUserMessages", "DelOnlineUser"}

LEMMA VisitSteps ==
  ASSUME NEW w, Visits(w)
  PROVE  /\ UNCHANGED <<db, applied, todo, asked, replied, stale, decided, raced,
                       forgotten, crossed, rejoined>>
         /\ job[w].at \in VisitPlaces
         /\ \E place \in {"AddOnlineUser", "PushOfflineUserMessages", "idle",
                         "ModifyUserStatusById"} : Goto(w, place)
         /\ cut' = cut \/ cut' = cut \cup {job[w].req.user}
         /\ missed \subseteq missed'
  BY DEF Visits, GetAllGroupChats, GroupsUnread, AddOnlineUser,
         PushOfflineUserMessages, MessagesUnread, DelOnlineUser, HangUp, At,
         VisitPlaces, history

LEMMA VisitTypes ==
  ASSUME TypeInv, NEW w \in Workers, Visits(w)
  PROVE  TypeInv'
<1> DEFINE u == job[w].req.user
<1>1. job[w] \in Job /\ Fits(job[w])
  BY DEF TypeInv, TypeOK
<1>2. job[w].req \in Visit /\ u \in Users
  BY <1>1, VisitSteps, RequestFields DEF VisitPlaces, Fits
<1>3. job' \in [Workers -> Job] /\ \A v \in Workers : Fits(job'[v])
  <2>1. \A place \in {"AddOnlineUser", "PushOfflineUserMessages", "idle",
                      "ModifyUserStatusById"} :
          /\ place \in Places
          /\ place # "idle" => Fits([job[w] EXCEPT !.at = place, !.copy = NoCopy])
    <3>1. job[w].news = {}
      BY <1>1, VisitSteps DEF VisitPlaces, Fits
    <3> QED
      BY <1>1, <1>2, <3>1 DEF Places, Edits, Fits, Job
  <2> QED
    BY <2>1, VisitSteps, GotoFits
<1>4. cut' \subseteq Keys
  BY <1>2, VisitSteps DEF TypeInv, TypeOK, Keys
<1>5. failures' \in 0..MaxFailures
  <2>1. failures \in 0..MaxFailures /\ MaxFailures \in Nat
    BY RecordsAssumption DEF TypeInv, TypeOK
  <2>2. failures' = failures \/ (failures < MaxFailures /\ failures' = failures + 1)
    BY DEF Visits, GetAllGroupChats, GroupsUnread, AddOnlineUser,
           PushOfflineUserMessages, MessagesUnread, DelOnlineUser
  <2> QED
    BY <2>1, <2>2
<1>6. loginRes' \subseteq Users \X Groups \X Users
  BY <1>2 DEF Visits, GetAllGroupChats, GroupsUnread, AddOnlineUser,
     PushOfflineUserMessages, MessagesUnread, DelOnlineUser, Others, GroupsOf,
     TypeInv, TypeOK
<1>7. table' \subseteq Users
  BY <1>2 DEF Visits, GetAllGroupChats, GroupsUnread, AddOnlineUser,
     PushOfflineUserMessages, MessagesUnread, DelOnlineUser, TypeInv, TypeOK
<1>8. told' \subseteq Users \X Groups \X Users
  BY <1>2 DEF Visits, GetAllGroupChats, GroupsUnread, AddOnlineUser,
     PushOfflineUserMessages, MessagesUnread, DelOnlineUser, Others, Read,
     TypeInv, TypeOK
<1>9. mail' \subseteq mail /\ fresh' \subseteq fresh
  BY DEF Visits, GetAllGroupChats, GroupsUnread, AddOnlineUser,
     PushOfflineUserMessages, MessagesUnread, DelOnlineUser, Others
<1>10. hungUp' \subseteq Workers /\ missed' \subseteq Users \X Groups \X Users
  BY <1>2 DEF Visits, GetAllGroupChats, GroupsUnread, AddOnlineUser, HangUp,
     PushOfflineUserMessages, MessagesUnread, DelOnlineUser, TypeInv, TypeOK, history
<1> QED
  BY <1>3, <1>4, <1>5, <1>6, <1>7, <1>8, <1>9, <1>10, VisitSteps DEF TypeInv, TypeOK

LEMMA EndTypes ==
  ASSUME TypeInv, End, failures' \in 0..MaxFailures
  PROVE  TypeInv'
<1>1. Idle \in Job /\ Fits(Idle)
  BY DEF Idle, Job, Places, Fits
<1>2. cut' \subseteq Keys
  BY BusyFits DEF End, TypeInv, TypeOK
<1>3. forgotten' \subseteq Application
  BY BusyFits DEF End, Deciding, TypeInv, TypeOK
<1>4. asked' \subseteq asked
  BY DEF End, Unasked
<1> QED
  BY <1>1, <1>2, <1>3, <1>4 DEF End, TypeInv, TypeOK

LEMMA RecordsTypeStep ==
  ASSUME TypeInv, [Next]_vars
  PROVE  TypeInv'
<1>1. ASSUME NEW w \in Workers, Begin(w) \/ BeginCreate(w) \/ BeginAnswer(w)
      PROVE  TypeInv'
  BY <1>1, BeginTypes
<1>2. ASSUME NEW w \in Workers, HGet(w) \/ HSet(w) \/ RedisError(w)
      PROVE  TypeInv'
  BY <1>2, EditTypes
<1>3. ASSUME NEW w \in Workers,
             \/ GetGroupChat(w) \/ PushToManagers(w)
             \/ CheckApplication(w) \/ DeleteApplication(w)
      PROVE  TypeInv'
  BY <1>3, ApplicationTypes
<1>4. ASSUME NEW w \in Workers,
             PushToMembers(w) \/ Reply(w) \/ Login(w)
      PROVE  TypeInv'
  BY <1>4, ReplyTypes
<1>5. ASSUME NEW w \in Workers, LoginPanics(w)
      PROVE  TypeInv'
  <2>1. failures' \in 0..MaxFailures
    BY <1>5, RecordsAssumption DEF LoginPanics, TypeInv, TypeOK
  <2> QED
    BY <1>5, <2>1, EndTypes DEF LoginPanics
<1>8. ASSUME NEW w \in Workers, Visits(w)
      PROVE  TypeInv'
  BY <1>8, VisitTypes
<1>6. CASE Crash
  <2>1. failures' \in 0..MaxFailures
    BY <1>6, RecordsAssumption DEF Crash, TypeInv, TypeOK
  <2> QED
    BY <1>6, <2>1, EndTypes DEF Crash
<1>7. CASE UNCHANGED vars
  BY <1>7 DEF vars, clients, sessions, history, TypeInv, TypeOK
<1> QED
  BY <1>1, <1>2, <1>3, <1>4, <1>5, <1>6, <1>7, <1>8 DEF Next, Step, Visits

\* The inductive invariant of the types, which the other proofs start from:
\* records and copies of records are whole, and a handler's place fits them.
THEOREM RecordsTypeInvariant == Spec => []TypeInv
  BY RecordsTypeInit, RecordsTypeStep, PTL DEF Spec

\* Whatever is stored and asked for, every record is whole, of the type of
\* its key, and a worker's copy is of the type of its place.
THEOREM RecordsTypeCorrect == Spec => []TypeOK
<1>1. TypeInv => TypeOK
  BY DEF TypeInv
<1> QED
  BY <1>1, RecordsTypeInvariant, PTL

-----------------------------------------------------------------------------
(* What any step does to the store and to a worker's copy.                 *)

LEMMA StoreSteps ==
  ASSUME [Next]_vars
  PROVE  \/ UNCHANGED <<db, stale, rejoined, crossed>>
         \/ \E w \in Workers : Write(w) /\ (HSet(w) \/ RedisError(w))
<1>1. ASSUME NEW w \in Workers, Begin(w) \/ BeginCreate(w) \/ BeginAnswer(w)
      PROVE  UNCHANGED <<db, stale, rejoined, crossed>>
  BY <1>1 DEF Begin, BeginCreate, BeginAnswer, history
<1>2. ASSUME NEW w \in Workers, Step(w)
      PROVE  \/ UNCHANGED <<db, stale, rejoined, crossed>>
             \/ Write(w) /\ HSet(w)
  BY <1>2, VisitSteps
     DEF Step, HGet, HSet, GetGroupChat, PushToManagers, CheckApplication,
         DeleteApplication, PushToMembers, Reply, Login, LoginPanics, End,
         Visits, history
<1>3. ASSUME NEW w \in Workers, RedisError(w)
      PROVE  UNCHANGED <<db, stale, rejoined, crossed>> \/ Write(w)
  BY <1>3 DEF RedisError
<1>4. Crash => UNCHANGED <<db, stale, rejoined, crossed>>
  BY DEF Crash, End
<1>5. UNCHANGED vars => UNCHANGED <<db, stale, rejoined, crossed>>
  BY DEF vars, history
<1>6. \A w \in Workers : Visits(w) => UNCHANGED <<db, stale, rejoined, crossed>>
  BY VisitSteps
<1> QED
  BY <1>1, <1>2, <1>3, <1>4, <1>5, <1>6 DEF Next, Visits

LEMMA CopySteps ==
  ASSUME TypeInv, [Next]_vars, NEW v \in Workers
  PROVE  \/ job'[v] = job[v]
         \/ job'[v].copy = NoCopy
         \/ /\ job[v].at \in Edits \ {"CreateGroupChat"}
            /\ ~Refuses(job[v].at, job[v].req, db[Key(job[v].at, job[v].req)])
            /\ job'[v] = [job[v] EXCEPT !.copy = db[Key(job[v].at, job[v].req)]]
            /\ UNCHANGED <<db, rejoined>>
         \/ /\ job[v].at = "GetGroupChat" /\ db[job[v].req.group] # Missing
            /\ job'[v] = [job[v] EXCEPT !.at = "PushToManagers",
                                        !.copy = db[job[v].req.group]]
            /\ UNCHANGED <<db, rejoined>>
<1> DEFINE Ok == \/ job'[v] = job[v]
                 \/ job'[v].copy = NoCopy
<1>1. job \in [Workers -> Job]
  BY DEF TypeInv, TypeOK
<1>2. ASSUME NEW w \in Workers, NEW place, Goto(w, place) PROVE Ok
  BY <1>1, <1>2 DEF Goto, Idle, Job
<1>3. ASSUME NEW w \in Workers, NEW place, NEW news, GotoWith(w, place, news)
      PROVE  Ok
  BY <1>1, <1>3 DEF GotoWith, Job
<1>4. ASSUME NEW w \in Workers, NEW place, NEW r, Start(w, place, r) PROVE Ok
  BY <1>1, <1>4 DEF Start
<1>5. End => Ok
  BY DEF End, Idle
<1>6. ASSUME NEW w \in Workers, Begin(w) \/ BeginCreate(w) \/ BeginAnswer(w)
      PROVE  Ok
  BY <1>4, <1>6 DEF Begin, BeginCreate, BeginAnswer
<1>7. ASSUME NEW w \in Workers,
             \/ HSet(w) \/ RedisError(w) \/ PushToManagers(w)
             \/ CheckApplication(w) \/ DeleteApplication(w)
             \/ PushToMembers(w) \/ Reply(w)
             \/ Login(w) \/ Visits(w) \/ LoginPanics(w)
      PROVE  Ok
  BY <1>2, <1>3, <1>5, <1>7, VisitSteps
     DEF HSet, RedisError, PushToManagers, CheckApplication, DeleteApplication,
         PushToMembers, Reply, Login, LoginPanics
<1>8. Crash \/ UNCHANGED vars => Ok
  BY <1>5 DEF Crash, vars
<1> HIDE DEF Ok
<1>9. ASSUME NEW w \in Workers, HGet(w), ~Ok
      PROVE  /\ job[v].at \in Edits \ {"CreateGroupChat"}
             /\ ~Refuses(job[v].at, job[v].req, db[Key(job[v].at, job[v].req)])
             /\ job'[v] = [job[v] EXCEPT !.copy = db[Key(job[v].at, job[v].req)]]
             /\ UNCHANGED <<db, rejoined>>
  <2>1. ~Refuses(job[w].at, job[w].req, db[Key(job[w].at, job[w].req)])
    BY <1>2, <1>9 DEF HGet
  <2>2. job' = [job EXCEPT ![w].copy = db[Key(job[w].at, job[w].req)]]
    BY <1>9, <2>1 DEF HGet
  <2>3. v = w
    BY <1>1, <1>9, <2>2 DEF Ok
  <2> QED
    BY <1>1, <1>9, <2>1, <2>2, <2>3 DEF HGet, history
<1>10. ASSUME NEW w \in Workers, GetGroupChat(w), ~Ok
       PROVE  /\ job[v].at = "GetGroupChat" /\ db[job[v].req.group] # Missing
              /\ job'[v] = [job[v] EXCEPT !.at = "PushToManagers",
                                          !.copy = db[job[v].req.group]]
              /\ UNCHANGED <<db, rejoined>>
  <2>1. db[job[w].req.group] # Missing
    BY <1>2, <1>10 DEF GetGroupChat
  <2>2. job' = [job EXCEPT ![w] = [@ EXCEPT !.at = "PushToManagers",
                                            !.copy = db[job[w].req.group]]]
    BY <1>10, <2>1 DEF GetGroupChat
  <2>3. v = w
    BY <1>1, <1>10, <2>2 DEF Ok
  <2> QED
    BY <1>1, <1>10, <2>1, <2>2, <2>3 DEF GetGroupChat, At, history
<1> QED
  BY <1>6, <1>7, <1>8, <1>9, <1>10 DEF Next, Step, Visits, Ok

-----------------------------------------------------------------------------
(* A group's record and the copies of it are whole.                        *)

Whole(g, rec) ==
    Seats(rec) /\ \A u \in Users : RoleFits(rec, u) \/ <<u, g>> \in rejoined

WholeStored == \A g \in Groups : db[g] # Missing => Whole(g, db[g])

\* What a worker has looked at before it writes.
Checked(w) ==
    LET j == job[w] IN
    j.copy # NoCopy =>
      /\ j.at \in {"AddNewManagerInGC", "AddNewMemberToGC", "PushToManagers"}
           => Whole(j.req.group, j.copy)
      /\ j.at = "AddNewManagerInGC" => ~NoSuchManager(j.req, j.copy)

WholeInv == WholeStored /\ \A w \in Workers : Checked(w)

LEMMA NewGroupIsWhole ==
  ASSUME NEW u \in Users
  PROVE  /\ Seats(NewGroupChat(u))
         /\ \A v \in Users : RoleFits(NewGroupChat(u), v)
<1> DEFINE rec == NewGroupChat(u)
<1>1. /\ rec.leader = u /\ rec.mgrs = <<u>>
      /\ \A v \in Users : rec.role[v] = IF v = u THEN "owner" ELSE "none"
  BY DEF NewGroupChat
<1>2. /\ <<u>> # <<>> /\ Head(<<u>>) = u /\ Len(<<u>>) = 1
      /\ Range(<<u>>) = {u} /\ IsInjective(<<u>>)
  BY DEF Range, IsInjective
<1> HIDE DEF rec
<1>3. Seats(rec)
  BY <1>1, <1>2, RecordsAssumption DEF Seats, MembersOf
<1>4. \A v \in Users : RoleFits(rec, v)
  BY <1>1, <1>2 DEF RoleFits
<1> QED
  BY <1>3, <1>4 DEF rec

LEMMA SeatedIsWhole ==
  ASSUME NEW rec \in GroupChat, NEW r \in Appointment, Seats(rec),
         ~NoSuchManager(r, rec)
  PROVE  /\ Seats(Seated(r, rec))
         /\ \A u \in Users : RoleFits(rec, u) => RoleFits(Seated(r, rec), u)
<1> DEFINE new == Seated(r, rec)
           x == r.of
<1>1. /\ rec.mgrs \in Seq(Users) /\ rec.role \in [Users -> Roles]
      /\ rec.leader \in Users /\ x \in Users
  BY RequestFields DEF GroupChat
<1>2. /\ rec.role[x] # "none" /\ x \notin Range(rec.mgrs)
      /\ Len(rec.mgrs) # MaxMgrs
  BY DEF NoSuchManager
<1>3. /\ new.leader = rec.leader /\ new.mgrs = Append(rec.mgrs, x)
      /\ new.role = [rec.role EXCEPT ![x] = "admin"]
  BY DEF Seated, GroupChat
<1>4. /\ rec.mgrs # <<>> /\ Head(rec.mgrs) = rec.leader
      /\ Len(rec.mgrs) <= MaxMgrs /\ IsInjective(rec.mgrs)
      /\ Range(rec.mgrs) \subseteq MembersOf(rec)
  BY DEF Seats
<1>5. x # rec.leader
  BY <1>1, <1>2, <1>4, TailRange
<1>6. /\ Append(rec.mgrs, x) # <<>>
      /\ Head(Append(rec.mgrs, x)) = Head(rec.mgrs)
      /\ Len(Append(rec.mgrs, x)) = Len(rec.mgrs) + 1
      /\ Len(rec.mgrs) \in Nat
  BY <1>1, <1>4, HeadTailProperties, LenProperties
<1>7. /\ IsInjective(Append(rec.mgrs, x))
      /\ Range(Append(rec.mgrs, x)) = Range(rec.mgrs) \cup {x}
  BY <1>1, <1>2, <1>4, AppendRange
<1> HIDE DEF new, x
<1>8. Seats(new)
  <2>1. Len(new.mgrs) <= MaxMgrs
    BY <1>2, <1>3, <1>4, <1>6, RecordsAssumption
  <2>2. Range(new.mgrs) \subseteq MembersOf(new)
    BY <1>1, <1>3, <1>4, <1>7 DEF MembersOf
  <2> QED
    BY <1>3, <1>4, <1>6, <1>7, <2>1, <2>2 DEF Seats
<1>9. ASSUME NEW u \in Users, RoleFits(rec, u)
      PROVE  RoleFits(new, u)
  <2>1. CASE u = x
    BY <1>1, <1>3, <1>5, <1>7, <2>1 DEF RoleFits
  <2>2. CASE u # x
    BY <1>1, <1>3, <1>7, <1>9, <2>2 DEF RoleFits
  <2> QED
    BY <2>1, <2>2
<1> QED
  BY <1>8, <1>9 DEF new

LEMMA MemberIsWhole ==
  ASSUME NEW rec \in GroupChat, NEW x \in Users, Seats(rec)
  PROVE  LET new == [rec EXCEPT !.role[x] = "member"] IN
         /\ Seats(new)
         /\ \A u \in Users \ {x} : RoleFits(rec, u) => RoleFits(new, u)
         /\ rec.role[x] = "none" /\ RoleFits(rec, x) => RoleFits(new, x)
<1> DEFINE new == [rec EXCEPT !.role[x] = "member"]
<1>1. /\ new.leader = rec.leader /\ new.mgrs = rec.mgrs
      /\ new.role = [rec.role EXCEPT ![x] = "member"]
      /\ rec.role \in [Users -> Roles]
  BY DEF GroupChat
<1> HIDE DEF new
<1>2. Seats(new)
  BY <1>1 DEF Seats, MembersOf
<1>3. \A u \in Users \ {x} : RoleFits(rec, u) => RoleFits(new, u)
  BY <1>1 DEF RoleFits
<1>4. rec.role[x] = "none" /\ RoleFits(rec, x) => RoleFits(new, x)
  BY <1>1 DEF RoleFits
<1> QED
  BY <1>2, <1>3, <1>4 DEF new

LEMMA WholeInit == Init => WholeInv
<1> SUFFICES ASSUME Init PROVE WholeInv
  OBVIOUS
<1>1. \A g \in Groups : db[g] # Missing =>
        Seats(db[g]) /\ \A u \in Users : RoleFits(db[g], u)
  BY ScenariosAssumption DEF Init, Consistent
<1> QED
  BY <1>1 DEF Init, WholeInv, WholeStored, Whole, Checked, Idle

\* The record a write leaves in a group.
LEMMA WholeWrite ==
  ASSUME TypeInv, WholeInv, NEW w \in Workers, Write(w)
  PROVE  rejoined \subseteq rejoined' /\ WholeStored'
<1> DEFINE j == job[w]
           r == job[w].req
           k == Key(j.at, r)
           new == Changed(j.at, r, Copy(w))
<1>1. /\ j.at \in Edits /\ Copy(w) # NoCopy
      /\ db' = [db EXCEPT ![k] = new] /\ rejoined \subseteq rejoined'
  BY DEF Write
<1>2. j \in Job /\ Fits(j) /\ Checked(w)
  BY DEF TypeInv, TypeOK, WholeInv
<1>3. k \in Keys /\ db \in [Keys -> Account \cup GroupChat \cup {Missing}]
  BY <1>1, <1>2, KeyOfEdit DEF TypeInv, TypeOK
<1>4. CASE j.at \notin GroupEdits
  <2>1. \A g \in Groups : db'[g] = db[g]
    BY <1>1, <1>2, <1>3, <1>4, KeyOfEdit, RecordsAssumption DEF Keys
  <2> QED
    BY <1>1, <2>1 DEF WholeInv, WholeStored, Whole
<1>5. ASSUME j.at \in GroupEdits
      PROVE  LET g == k IN
             /\ Seats(new)
             /\ \A u \in Users : RoleFits(new, u) \/ <<u, g>> \in rejoined'
  <2>1. k = r.group
    BY <1>1, <1>2, <1>5, KeyOfEdit
  <2>2. CASE j.at = "CreateGroupChat"
    <3>1. new = NewGroupChat(r.user) /\ r.user \in Users
      BY <1>2, <2>2, RequestFields DEF Changed, Fits
    <3> QED
      BY <3>1, NewGroupIsWhole
  <2>3. CASE j.at = "AddNewManagerInGC"
    <3>1. /\ new = Seated(r, j.copy) /\ j.copy \in GroupChat /\ r \in Appointment
          /\ ~NoSuchManager(r, j.copy) /\ Whole(k, j.copy)
      BY <1>1, <1>2, <2>1, <2>3 DEF Changed, Fits, Copy, At, Checked
    <3> QED
      BY <1>1, <3>1, SeatedIsWhole DEF Whole
  <2>4. CASE j.at = "AddNewMemberToGC"
    <3>1. /\ new = [j.copy EXCEPT !.role[r.of] = "member"]
          /\ j.copy \in GroupChat /\ r.of \in Users /\ Whole(k, j.copy)
      BY <1>1, <1>2, <2>1, <2>4, RequestFields
         DEF Changed, Fits, Copy, At, Checked
    <3>2. j.copy.role[r.of] = "none" \/ <<r.of, k>> \in rejoined'
      BY <2>1, <2>4 DEF Write, Copy, At
    <3> HIDE DEF new, j, r, k
    <3> QED
      BY <1>1, <3>1, <3>2, MemberIsWhole DEF Whole
  <2> QED
    BY <1>5, <2>2, <2>3, <2>4 DEF GroupEdits
<1>6. CASE j.at \in GroupEdits
  <2>1. \A g \in Groups : g # k => db'[g] = db[g]
    BY <1>1, <1>3 DEF Keys
  <2>2. db'[k] = new
    BY <1>1, <1>3
  <2> HIDE DEF k, new
  <2> QED
    BY <1>1, <1>5, <1>6, <2>1, <2>2 DEF WholeInv, WholeStored, Whole
<1> QED
  BY <1>1, <1>4, <1>6

LEMMA WholeStep ==
  ASSUME TypeInv, WholeInv, [Next]_vars
  PROVE  WholeInv'
<1>1. rejoined \subseteq rejoined' /\ WholeStored'
  <2>1. CASE UNCHANGED <<db, stale, rejoined, crossed>>
    BY <2>1 DEF WholeInv, WholeStored, Whole
  <2>2. ASSUME NEW w \in Workers, Write(w)
        PROVE  rejoined \subseteq rejoined' /\ WholeStored'
    BY <2>2, WholeWrite
  <2> QED
    BY <2>1, <2>2, StoreSteps
<1>2. \A g \in Groups : \A rec : Whole(g, rec) => Whole(g, rec)'
  BY <1>1 DEF Whole
<1>3. ASSUME NEW v \in Workers
      PROVE  Checked(v)'
  <2> DEFINE j == job[v]
  <2>1. j \in Job /\ Fits(j) /\ Checked(v)
    BY DEF TypeInv, TypeOK, WholeInv
  <2>2. CASE job'[v] = j
    BY <1>2, <2>1, <2>2, RequestFields DEF Checked, Fits, Whole
  <2>3. CASE job'[v].copy = NoCopy
    BY <2>3 DEF Checked
  <2>4. CASE /\ j.at \in Edits \ {"CreateGroupChat"}
             /\ ~Refuses(j.at, j.req, db[Key(j.at, j.req)])
             /\ job'[v] = [j EXCEPT !.copy = db[Key(j.at, j.req)]]
             /\ UNCHANGED <<db, rejoined>>
    <3> DEFINE rec == db[Key(j.at, j.req)]
    <3>1. /\ job'[v].at = j.at /\ job'[v].req = j.req /\ job'[v].copy = rec
      BY <2>1, <2>4 DEF Job
    <3>2. CASE j.at \in GroupEdits
      <4>1. /\ j.req.group \in Groups /\ rec = db[j.req.group] /\ rec # Missing
            /\ j.at = "AddNewManagerInGC" => ~NoSuchManager(j.req, rec)
        BY <2>1, <2>4, <3>2, KeyOfEdit, NotRefused DEF Edits, GroupEdits
      <4>2. Whole(j.req.group, rec)
        BY <4>1 DEF WholeInv, WholeStored
      <4>3. /\ Seats(rec)
            /\ \A u \in Users : RoleFits(rec, u)
                                 \/ <<u, j.req.group>> \in rejoined'
        BY <2>4, <4>2 DEF Whole
      <4> HIDE DEF rec
      <4> QED
        BY <3>1, <4>1, <4>3 DEF Checked, Whole
    <3>3. CASE j.at \notin GroupEdits
      BY <2>4, <3>1, <3>3 DEF Checked, GroupEdits, Edits
    <3> QED
      BY <3>2, <3>3
  <2>5. CASE /\ j.at = "GetGroupChat" /\ db[j.req.group] # Missing
             /\ job'[v] = [j EXCEPT !.at = "PushToManagers",
                                    !.copy = db[j.req.group]]
             /\ UNCHANGED <<db, rejoined>>
    <3>1. /\ job'[v].at = "PushToManagers" /\ job'[v].req = j.req
          /\ job'[v].copy = db[j.req.group] /\ j.req.group \in Groups
      BY <2>1, <2>5, RequestFields DEF Job, Fits
    <3>2. Whole(j.req.group, db[j.req.group])
      BY <2>5, <3>1 DEF WholeInv, WholeStored
    <3> QED
      BY <2>5, <3>1, <3>2 DEF Checked, Whole
  <2> QED
    BY <2>2, <2>3, <2>4, <2>5, CopySteps
<1> QED
  BY <1>1, <1>3 DEF WholeInv

\* Whatever writes are lost, a group and every copy of it has its leader in
\* the first seat, no more managers than seats, no manager twice and none
\* but members, and roles that go with the seats: AddNewManagerInGC,
\* AddNewMemberToGC and CreateGroupChat.
THEOREM GroupsAreWhole == Spec => []GroupIsWhole
<1>1. TypeInv /\ WholeInv => GroupIsWhole
  <2> SUFFICES ASSUME TypeInv, WholeInv, NEW g \in Groups, NEW rec \in Versions(g)
               PROVE  Whole(g, rec)
    BY DEF GroupIsWhole, Whole
  <2>1. CASE rec = db[g]
    BY <2>1 DEF WholeInv, WholeStored, Versions
  <2>2. ASSUME NEW w \in Workers, rec = job[w].copy, job[w].req.group = g,
               job[w].at \in {"AddNewManagerInGC", "AddNewMemberToGC",
                              "PushToManagers"}
        PROVE  Whole(g, rec)
    BY <2>2 DEF WholeInv, Checked, Versions
  <2> QED
    BY <2>1, <2>2 DEF Versions
<1>2. TypeInv /\ WholeInv /\ [Next]_vars => WholeInv'
  BY WholeStep
<1> QED
  BY <1>1, <1>2, WholeInit, RecordsTypeInvariant, PTL DEF Spec

-----------------------------------------------------------------------------
(* A write from a copy that is up to date takes nothing back.              *)

LEMMA ChangedKeeps ==
  ASSUME TypeInv, NEW w \in Workers, job[w].at \in Edits,
         Copy(w) \notin {NoCopy, Missing}
  PROVE  Keeps(Copy(w), Changed(job[w].at, job[w].req, Copy(w)))
<1> DEFINE j == job[w]
           r == job[w].req
           rec == Copy(w)
           new == Changed(j.at, r, rec)
<1>1. j \in Job /\ Fits(j) /\ j.at # "CreateGroupChat" /\ rec = j.copy
  BY DEF TypeInv, TypeOK, Copy, At
<1>2. j.at # "Register"
  BY <1>1 DEF Fits
<1>3. CASE j.at \in {"AddNewManagerInGC", "AddNewMemberToGC"}
  <2>1. rec \in GroupChat /\ r.of \in Users
    BY <1>1, <1>3, RequestFields DEF Fits
  <2>2. /\ "mgrs" \in DOMAIN rec /\ rec.mgrs \in Seq(Users)
        /\ rec.role \in [Users -> Roles]
    BY <2>1 DEF GroupChat
  <2>3. new.leader = rec.leader /\ MembersOf(rec) \subseteq MembersOf(new)
    BY <1>3, <2>1, <2>2 DEF Changed, Seated, GroupChat, MembersOf
  <2>4. Range(rec.mgrs) \subseteq Range(new.mgrs)
    <3>1. new.mgrs \in {rec.mgrs, Append(rec.mgrs, r.of)}
      BY <1>3, <2>1 DEF Changed, Seated, GroupChat
    <3>2. Range(rec.mgrs) \subseteq Range(Append(rec.mgrs, r.of))
      BY <2>1, <2>2, AppendRange
    <3> QED
      BY <3>1, <3>2
  <2> QED
    BY <2>2, <2>3, <2>4 DEF Keeps
<1>4. CASE j.at \in {"ModifyUserStatusById", "AddFriendForUser",
                     "AddFriendBack", "UpdateUserNewGC"}
  <2>1. rec \in Account
    BY <1>1, <1>4 DEF Fits
  <2>2. "mgrs" \notin DOMAIN rec /\ rec.groups \in [Groups -> Roles]
    BY <2>1 DEF Account
  <2>3. new.pwd = rec.pwd /\ rec.friends \subseteq new.friends
    BY <1>4, <2>1 DEF Changed, Account
  <2>4. \A g \in Groups : rec.groups[g] # "none" => new.groups[g] # "none"
    <3>1. CASE j.at = "UpdateUserNewGC"
      <4>1. NewRole(r) # "none"
        BY <1>1, <3>1, RequestOps DEF Fits, NewRole
      <4>2. new.groups = [rec.groups EXCEPT ![r.group] = NewRole(r)]
        BY <2>1, <3>1 DEF Changed, Account
      <4> QED
        BY <2>2, <4>1, <4>2
    <3>2. CASE j.at # "UpdateUserNewGC"
      BY <1>4, <2>1, <3>2 DEF Changed, Account
    <3> QED
      BY <3>1, <3>2
  <2> QED
    BY <2>2, <2>3, <2>4 DEF Keeps
<1> QED
  BY <1>1, <1>2, <1>3, <1>4 DEF Edits

\* No write but one from a copy that another worker's write has made out of
\* date takes a password, a friend, a membership, a leader or a seat from a
\* record: what every function of UserDao leaves of the record it has read.
THEOREM WritesTakeNothingBack == Spec => NothingTakenBack
<1> DEFINE Kept ==
             \A k \in Keys :
               db[k] # Missing =>
                 \/ Keeps(db[k], db'[k])
                 \/ \E w \in Workers : /\ job[w].at \in Edits
                                      /\ Key(job[w].at, job[w].req) = k
                                      /\ Copy(w) \notin {NoCopy, db[k]}
<1>1. ASSUME TypeInv, [Next]_vars
      PROVE  Kept
  <2>1. CASE UNCHANGED <<db, stale, rejoined, crossed>>
    BY <2>1 DEF Keeps
  <2>2. ASSUME NEW w \in Workers, Write(w)
        PROVE  Kept
    <3> DEFINE l == Key(job[w].at, job[w].req)
    <3>1. /\ job[w].at \in Edits /\ Copy(w) # NoCopy
          /\ db' = [db EXCEPT ![l] = Changed(job[w].at, job[w].req, Copy(w))]
      BY <2>2 DEF Write
    <3>2. db \in [Keys -> Account \cup GroupChat \cup {Missing}]
      BY <1>1 DEF TypeInv, TypeOK
    <3> SUFFICES ASSUME NEW k \in Keys, db[k] # Missing,
                        Key(job[w].at, job[w].req) = k => Copy(w) \in {NoCopy, db[k]}
                 PROVE  Keeps(db[k], db'[k])
      BY <3>1
    <3>3. CASE k # l
      BY <3>1, <3>2, <3>3 DEF Keeps
    <3>4. CASE k = l
      <4>1. Copy(w) = db[k]
        BY <3>1, <3>4
      <4> QED
        BY <1>1, <3>1, <3>2, <3>4, <4>1, ChangedKeeps
    <3> QED
      BY <3>3, <3>4
  <2> QED
    BY <1>1, <2>1, <2>2, StoreSteps
<1>2. TypeInv /\ [Next]_vars => [Kept]_vars
  BY <1>1
<1> QED
  BY <1>2, RecordsTypeInvariant, PTL DEF Spec, NothingTakenBack
=============================================================================
