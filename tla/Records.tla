------------------------------ MODULE Records ------------------------------
(***************************************************************************)
(* The two hashes of redis, users and groupChats, and the handlers that    *)
(* change them: server/model/userDao.go as called by userProcess.go and    *)
(* groupChatImpl.go.  A record is one JSON document: every function of     *)
(* UserDao reads it whole (HGET), changes its copy and writes it whole     *)
(* (HSET), on a redis connection of its own, so that another worker's      *)
(* write may fall between the two.                                         *)
(***************************************************************************)
EXTENDS Naturals, Sequences, FiniteSets, Functions

CONSTANTS Users, Groups,  \* ids: the keys of the two hashes
          Passwords,
          Times,          \* what tells two applications of a user apart
          Workers,        \* the pool
          Missing,        \* redis.ErrNil: no record under the key
          NoCopy, NoRequest,
          MaxMgrs,        \* MAX_GROUPMGR_NUMBER
          MaxFailures,    \* bound: redis errors and crashes
          Scenarios       \* bound: what is stored at the start and which
                          \* requests clients send

Keys  == Users \cup Groups
Roles == {"owner", "admin", "member", "none"}

Account   == [pwd : Passwords, online : BOOLEAN, friends : SUBSET Users,
              groups : [Groups -> Roles]]
GroupChat == [leader : Users, mgrs : Seq(Users), role : [Users -> Roles]]

Application == [applier : Users, group : Groups, time : Times]

\* What clients send of their own accord.
Sent ==
    [op : {"register"}, user : Users, pwd : Passwords]
    \cup [op : {"login", "logout", "create"}, user : Users]
    \cup [op : {"befriend"}, user : Users, of : Users]
    \cup [op : {"appoint"}, user : Users, of : Users, group : Groups]
    \cup [op : {"apply"}, of : Users, group : Groups, time : Times]

\* In a handler "create" has the group id it has found free.
Creation == [op : {"create"}, user : Users, of : Users, group : Groups]

Answer == [op : {"answer"}, user : Users, of : Users, group : Groups,
           time : Times, yes : BOOLEAN]

Request == Sent \cup Creation \cup Answer

MembersOf(rec) == {u \in Users : rec.role[u] # "none"}

\* The leader has the first seat; nobody has two and none but members one.
Seats(rec) ==
    /\ rec.mgrs # <<>> /\ Head(rec.mgrs) = rec.leader
    /\ Len(rec.mgrs) <= MaxMgrs /\ IsInjective(rec.mgrs)
    /\ Range(rec.mgrs) \subseteq MembersOf(rec)

\* The role that goes with a member's seat.
RoleFits(rec, u) ==
    /\ u = rec.leader <=> rec.role[u] = "owner"
    /\ u \in Range(rec.mgrs) \ {rec.leader} <=> rec.role[u] = "admin"

\* What is stored of membership and friendship is whole and agrees.
Consistent(d) ==
    /\ \A u \in Users : d[u] \in Account \cup {Missing}
    /\ \A g \in Groups : d[g] \in GroupChat \cup {Missing}
    /\ \A g \in Groups : d[g] # Missing =>
         Seats(d[g]) /\ \A u \in Users : RoleFits(d[g], u)
    /\ \A u \in Users, g \in Groups :
         (IF d[u] = Missing THEN "none" ELSE d[u].groups[g])
           = IF d[g] = Missing THEN "none" ELSE d[g].role[u]
    /\ \A u, v \in Users : d[u] # Missing /\ v \in d[u].friends
                            => d[v] # Missing /\ u \in d[v].friends

ASSUME RecordsAssumption ==
    /\ IsFiniteSet(Users) /\ Users \cap Groups = {}
    /\ Missing \notin Account \cup GroupChat
    /\ NoCopy \notin Account \cup GroupChat \cup {Missing}
    /\ NoRequest \notin Request
    /\ MaxMgrs \in Nat \ {0} /\ MaxFailures \in Nat

\* What is stored at the start is what such requests have left, the users
\* logged in are registered, and the requests but for registrations come
\* from, and name, registered users.
ASSUME ScenariosAssumption ==
    \A s \in Scenarios :
        /\ s.start \in [Keys -> Account \cup GroupChat \cup {Missing}]
        /\ Consistent(s.start)
        /\ s.table \subseteq {u \in Users : s.start[u] # Missing}
        /\ s.todo \subseteq Sent
        /\ \A r \in s.todo :
             /\ r.op \in {"create", "befriend"} => s.start[r.user] # Missing
             /\ r.op \in {"apply", "befriend"} => s.start[r.of] # Missing

VARIABLES
    db,         \* db[k]: the record under key k
    todo,       \* requests clients have yet to send
    applied,    \* joinGroupChatApplyMap
    asked,      \* <<m, a>>: application a is with manager m's client
    job,        \* job[w]: where worker w is, its request, its copy, and the
                \* members of the group record that goes with its reply
    told,       \* <<u, g, v>>: u's client knows v as a member of g
    replied,    \* applications whose applicant has been sent a verdict
    table,      \* UserMgr.onlineUsers: users whose client is logged in
    mail,       \* <<u, g, v>>: the messages stored for u say v is in g
    fresh,      \* <<u, g>>: ... and the record of g, with u's verdict
    loginRes,   \* <<u, g, v>>: the login reply u is to be sent says so
    hungUp,     \* workers creating a group whose creator's connection has
                \* been closed
    failures,
    decided,    \* history: <<m, a>>, m's answer to a passed the check
    raced,      \* ... applications two handlers checked before a delete
    forgotten,  \* ... applications the server had when it ended
    stale,      \* ... keys written from a copy that was out of date
    cut,        \* ... keys of handlers that a redis error or a crash met
    crossed,    \* ... {u, g}, a user's and a group's key, written by two
                \* handlers at once
    rejoined,   \* ... <<u, g>> let in while a member already
    missed      \* ... <<u, g, v>>: v was let in when the group's record, or
                \* a login reply, was on its way to u's client, or u's
                \* verdict came then or had no one to go to

sessions == <<table, mail, fresh, loginRes, hungUp>>
clients == <<todo, asked, told, replied, sessions>>
history == <<decided, raced, forgotten, crossed, rejoined, missed>>
vars    == <<db, applied, job, failures, stale, cut, clients, history>>

Idle == [at |-> "idle", req |-> NoRequest, copy |-> NoCopy, news |-> {}]

Init ==
    /\ \E s \in Scenarios : db = s.start /\ todo = s.todo /\ table = s.table
    /\ job = [w \in Workers |-> Idle]
    /\ told = {t \in table \X Groups \X Users :
                 /\ db[t[2]] # Missing
                 /\ db[t[2]].role[t[1]] # "none" /\ db[t[2]].role[t[3]] # "none"}
    /\ applied = {} /\ asked = {} /\ replied = {} /\ failures = 0
    /\ decided = {} /\ raced = {} /\ forgotten = {}
    /\ stale = {} /\ cut = {} /\ crossed = {} /\ rejoined = {}
    /\ missed = {}
    /\ mail = {} /\ fresh = {} /\ loginRes = {} /\ hungUp = {}

-----------------------------------------------------------------------------
(* The functions of UserDao.  A place of a handler is the function it is   *)
(* in; AddFriendForUser is called twice, the other way round the second    *)
(* time.                                                                   *)

Edits == {"Register", "ModifyUserStatusById", "AddFriendForUser",
          "AddFriendBack", "CreateGroupChat", "AddNewManagerInGC",
          "AddNewMemberToGC", "UpdateUserNewGC"}

\* Mutant: the second AddFriendForUser has the arguments of the first.
KeyOfRequestor(at, r) ==
    IF at \in {"AddFriendForUser", "AddFriendBack", "UpdateUserNewGC"}
      THEN r.of
    ELSE IF at \in {"Register", "ModifyUserStatusById"} THEN r.user
    ELSE r.group

Key(at, r) ==
    CASE at \in {"CreateGroupChat", "AddNewManagerInGC", "AddNewMemberToGC"}
           -> r.group
      [] at \in {"AddFriendForUser", "UpdateUserNewGC"} -> r.of
      [] OTHER -> r.user

App(r) == [applier |-> r.of, group |-> r.group, time |-> r.time]

\* The records a handler changes.
Touched(r) ==
    CASE r.op \in {"register", "login", "logout"} -> {r.user}
      [] r.op = "befriend" -> {r.user, r.of}
      [] r.op \in {"create", "appoint", "answer"} -> {r.of, r.group}
      [] OTHER -> {}

\* Mutant: a manager more than there are seats.
NoSuchManagerUnbounded(r, rec) ==
    \/ r.user # rec.leader \/ rec.role[r.of] = "none"
    \/ r.of \in Range(rec.mgrs) \/ Len(rec.mgrs) > MaxMgrs

\* AddNewManagerInGC: the caller is not the leader, the other one is not a
\* member, or a manager already, or no seat is free.
NoSuchManager(r, rec) ==
    \/ r.user # rec.leader \/ rec.role[r.of] = "none"
    \/ r.of \in Range(rec.mgrs) \/ Len(rec.mgrs) = MaxMgrs

\* Mutant: Register does not look.
NeverTaken(rec) == FALSE

Taken(rec) == rec # Missing

\* What the function refuses to do with the record it has read.
Refuses(at, r, rec) ==
    IF at = "Register" THEN Taken(rec)
    ELSE \/ rec = Missing
         \/ at = "AddFriendForUser" /\ r.user \in rec.friends
         \/ at = "AddFriendBack" /\ r.of \in rec.friends
         \/ at = "AddNewManagerInGC" /\ NoSuchManager(r, rec)

NewAccount(pwd) ==
    [pwd |-> pwd, online |-> FALSE, friends |-> {},
     groups |-> [g \in Groups |-> "none"]]

NewGroupChat(u) ==
    [leader |-> u, mgrs |-> <<u>>,
     role |-> [v \in Users |-> IF v = u THEN "owner" ELSE "none"]]

\* Mutant: the operation is passed for the role.
OperationAsRole(r) == r.op

\* Mutant: the new manager's record says member.
RoleForgotten(r) == IF r.op = "create" THEN "owner" ELSE "member"

\* Mutant: the new member gets the creator's role.
RoleOfCreator(r) == IF r.op = "appoint" THEN "admin" ELSE "owner"

\* The role UpdateUserNewGC is called with.
NewRole(r) == CASE r.op = "create" -> "owner"
                [] r.op = "appoint" -> "admin"
                [] r.op = "answer" -> "member"

Seated(r, rec) == [rec EXCEPT !.mgrs = Append(@, r.of), !.role[r.of] = "admin"]

\* The record the function writes.
Changed(at, r, rec) ==
    CASE at = "Register" -> NewAccount(r.pwd)
      [] at = "CreateGroupChat" -> NewGroupChat(r.user)
      [] at = "ModifyUserStatusById" ->
           [rec EXCEPT !.online = (r.op = "login")]
      [] at = "AddFriendForUser" -> [rec EXCEPT !.friends = @ \cup {r.user}]
      [] at = "AddFriendBack" -> [rec EXCEPT !.friends = @ \cup {r.of}]
      [] at = "AddNewManagerInGC" -> Seated(r, rec)
      [] at = "AddNewMemberToGC" -> [rec EXCEPT !.role[r.of] = "member"]
      [] at = "UpdateUserNewGC" -> [rec EXCEPT !.groups[r.group] = NewRole(r)]

\* Where a handler goes on when a call has been made, with or without
\* success.
After(at, r, ok) ==
    CASE at = "ModifyUserStatusById" /\ ok /\ r.op = "login" -> "GetAllGroupChats"
      [] at = "AddFriendForUser" -> "AddFriendBack"
      [] at = "CreateGroupChat" -> "UpdateUserNewGC"
      [] at = "AddNewManagerInGC" /\ ok -> "UpdateUserNewGC"
      [] at = "AddNewMemberToGC" -> IF ok THEN "PushToMembers" ELSE "Reply"
      [] at = "PushToMembers" -> "UpdateUserNewGC"
      [] at = "UpdateUserNewGC" /\ r.op \in {"answer", "create"} -> "Reply"
      [] OTHER -> "idle"

-----------------------------------------------------------------------------
(* Requests and the answers of managers.                                   *)

At(w, place) == job[w].at = place
Goto(w, place) ==
    job' = [job EXCEPT ![w] = IF place = "idle" THEN Idle
                              ELSE [@ EXCEPT !.at = place, !.copy = NoCopy]]
GotoWith(w, place, news) ==
    job' = [job EXCEPT ![w] = [@ EXCEPT !.at = place, !.copy = NoCopy,
                                        !.news = news]]
Start(w, place, r) ==
    job' = [job EXCEPT ![w] = [at |-> place, req |-> r, copy |-> NoCopy,
                             news |-> {}]]

Knows(u, g) == <<u, g, u>> \in told

\* u's client is logged in and has not closed its connection.
Present(u) ==
    /\ u \in table
    /\ \A w \in Workers : ~(At(w, "DelOnlineUser") /\ job[w].req.user = u)

\* A login of u has read what its reply says of the groups and has yet to
\* push the messages stored for u.
Arriving(u) ==
    \E w \in Workers : /\ job[w].at \in {"AddOnlineUser", "PushOfflineUserMessages"}
                       /\ job[w].req.user = u

\* A login or a logout of u is being handled.
Changing(u) ==
    \E w \in Workers : /\ ~At(w, "idle")
                       /\ job[w].req.op \in {"login", "logout"}
                       /\ job[w].req.user = u

First(op) == CASE op = "register" -> "Register"
               [] op = "login" -> "Login"
               [] op = "logout" -> "DelOnlineUser"
               [] op = "befriend" -> "AddFriendForUser"
               [] op = "apply" -> "GetGroupChat"
               [] op = "appoint" -> "AddNewManagerInGC"

Sender(r) == IF r.op = "apply" THEN r.of ELSE r.user

\* The applications that wait with the client of a user who leaves are gone.
Unasked(users) == {ask \in asked : ask[1] \notin users}

\* The client that knows a group does not apply to it (option 7 of ShowMenu);
\* sending a request and its arrival are one step.  Bound: a user's logins and
\* logouts are handled one at a time (Session.tla has those that overlap).
Begin(w) ==
    /\ At(w, "idle")
    /\ \E r \in todo :
         /\ r.op # "create"
         /\ r.op \in {"register", "login"} \/ Present(Sender(r))
         /\ r.op \in {"login", "logout"} => ~Changing(r.user)
         /\ r.op = "apply" => ~Knows(r.of, r.group)
         /\ todo' = todo \ {r}
         /\ asked' = IF r.op = "logout" THEN Unasked({r.user}) ELSE asked
         /\ Start(w, First(r.op), r)
    /\ UNCHANGED <<db, applied, told, replied, sessions, failures, stale, cut,
                   history>>

\* CreateGCAccording2Request draws ids until one has no record, and looks
\* no more.
BeginCreate(w) ==
    /\ At(w, "idle")
    /\ \E r \in todo, g \in Groups :
         /\ r.op = "create" /\ Present(r.user) /\ db[g] = Missing
         /\ todo' = todo \ {r}
         /\ hungUp' = hungUp \ {w}
         /\ Start(w, "CreateGroupChat",
                  [op |-> "create", user |-> r.user, of |-> r.user,
                   group |-> g])
    /\ UNCHANGED <<db, applied, asked, told, replied, table, mail, fresh,
                   loginRes, failures, stale, cut, history>>

\* A manager's client answers each application it has been pushed.
BeginAnswer(w) ==
    /\ At(w, "idle")
    /\ \E ask \in asked, yes \in BOOLEAN :
         /\ Present(ask[1]) /\ ~Arriving(ask[1])
         /\ asked' = asked \ {ask}
         /\ Start(w, "CheckApplication",
                  [op |-> "answer", user |-> ask[1], of |-> ask[2].applier,
                   group |-> ask[2].group, time |-> ask[2].time,
                   yes |-> yes])
    /\ UNCHANGED <<db, todo, applied, told, replied, sessions, failures, stale,
                   cut, history>>

-----------------------------------------------------------------------------
(* One function of UserDao.                                                *)

HGet(w) ==
    LET at == job[w].at   r == job[w].req   rec == db[Key(at, r)] IN
    /\ at \in Edits \ {"CreateGroupChat"} /\ job[w].copy = NoCopy
    /\ IF Refuses(at, r, rec) THEN Goto(w, After(at, r, FALSE))
       ELSE job' = [job EXCEPT ![w].copy = rec]
    /\ UNCHANGED <<db, applied, failures, stale, cut, clients, history>>

\* CreateGroupChat writes what it has not read: a Missing record.
Copy(w) == IF At(w, "CreateGroupChat") THEN Missing ELSE job[w].copy

Write(w) ==
    LET at == job[w].at   r == job[w].req   k == Key(at, r) IN
    /\ at \in Edits /\ Copy(w) # NoCopy
    /\ db' = [db EXCEPT ![k] = Changed(at, r, Copy(w))]
    /\ stale' = IF db[k] = Copy(w) THEN stale ELSE stale \cup {k}
    /\ rejoined' = IF at = "AddNewMemberToGC" /\ Copy(w).role[r.of] # "none"
                     THEN rejoined \cup {<<r.of, r.group>>} ELSE rejoined
    /\ crossed' =
         IF \E v \in Workers \ {w} :
              /\ job[v].at \in Edits \cup {"PushToMembers"}
              /\ Cardinality(Touched(r)) = 2
              /\ Touched(job[v].req) = Touched(r)
           THEN crossed \cup {Touched(r)} ELSE crossed

HSet(w) ==
    LET at == job[w].at   r == job[w].req IN
    /\ Write(w)
    /\ IF at = "CreateGroupChat" THEN GotoWith(w, After(at, r, TRUE), {r.user})
                                 ELSE Goto(w, After(at, r, TRUE))
    /\ UNCHANGED <<applied, failures, cut, clients, decided, raced, forgotten,
                   missed>>

\* A command fails, or its answer is lost after it has been carried out.
RedisError(w) ==
    LET at == job[w].at   r == job[w].req IN
    /\ failures < MaxFailures
    /\ at \in Edits \cup {"PushToMembers"}
    /\ failures' = failures + 1
    /\ cut' = cut \cup Touched(r)
    /\ Goto(w, After(at, r, FALSE))
    /\ \/ UNCHANGED <<db, stale, rejoined, crossed>>
       \/ Write(w)
    /\ UNCHANGED <<applied, clients, decided, raced, forgotten, missed>>

-----------------------------------------------------------------------------
(* groupChatImpl.go: applications.                                         *)

\* ProcessGroupChatManageMes, JOIN_GROUP_CHAT: the group's record is read,
\* for its managers.
GetGroupChat(w) ==
    LET rec == db[job[w].req.group] IN
    /\ At(w, "GetGroupChat")
    /\ IF rec = Missing THEN Goto(w, "idle")
       ELSE job' = [job EXCEPT ![w] = [@ EXCEPT !.at = "PushToManagers",
                                                !.copy = rec]]
    /\ UNCHANGED <<db, applied, failures, stale, cut, clients, history>>

\* The application is recorded and pushed to the managers read before.
PushToManagers(w) ==
    LET a == App(job[w].req) IN
    /\ At(w, "PushToManagers")
    /\ applied' = applied \cup {a}
    /\ asked' = asked \cup {<<m, a>> : m \in Range(job[w].copy.mgrs)}
    /\ Goto(w, "idle")
    /\ UNCHANGED <<db, todo, told, replied, sessions, failures, stale, cut,
                   history>>

\* ProcessGroupChatManageResMes: an application that is not in the map has
\* been dealt with.
CheckApplication(w) ==
    /\ At(w, "CheckApplication")
    /\ Goto(w, IF App(job[w].req) \in applied THEN "DeleteApplication"
               ELSE "idle")
    /\ UNCHANGED <<db, applied, failures, stale, cut, clients, history>>

\* Mutant: the refused applicant is not sent anything.
VerdictIfApproved(r) == IF r.yes THEN "AddNewMemberToGC" ELSE "idle"

Verdict(r) == IF r.yes THEN "AddNewMemberToGC" ELSE "Reply"

\* Mutant: the application stays in the map.
DeleteNothing(a) == applied

Deleted(a) == applied \ {a}

DeleteApplication(w) ==
    LET r == job[w].req IN
    /\ At(w, "DeleteApplication")
    /\ applied' = Deleted(App(r))
    /\ decided' = decided \cup {<<r.user, App(r)>>}
    /\ raced' = IF \E v \in Workers \ {w} : /\ At(v, "DeleteApplication")
                                            /\ App(job[v].req) = App(r)
                  THEN raced \cup {App(r)} ELSE raced
    /\ Goto(w, Verdict(r))
    /\ UNCHANGED <<db, failures, stale, cut, clients, forgotten, crossed,
                   rejoined, missed>>

\* AddNewMember2GC of a client drops the news of a group it does not know.
Audience(r, members) ==
    {u \in table \cap (members \ {r.of}) : Knows(u, r.group)}

\* Mutant: a member who is not logged in is not sent anything.
NothingStored(r, members) == {}

Absent(r, members) == (members \ {r.of}) \ table

\* The record is read again: the other members are sent the new member, by
\* their client or their stored messages.  The new member is sent this
\* record with the verdict.
PushToMembers(w) ==
    LET r == job[w].req   members == MembersOf(db[r.group]) IN
    /\ At(w, "PushToMembers")
    /\ told' = told \cup {<<u, r.group, r.of>> : u \in Audience(r, members)}
    /\ missed' = missed \cup
         {<<job[v].req.of, r.group, r.of>> :
            v \in {x \in Workers : job[x].news # {} /\ job[x].req.group = r.group}}
         \cup {<<u, r.group, r.of>> : u \in {x \in Users : Arriving(x)}}
    /\ mail' = mail \cup {<<u, r.group, r.of>> : u \in Absent(r, members)}
    /\ GotoWith(w, After("PushToMembers", r, TRUE), members)
    /\ UNCHANGED <<db, applied, failures, stale, cut, todo, asked, replied,
                   table, fresh, loginRes, hungUp, decided, raced, forgotten,
                   crossed, rejoined>>

\* What is known of u's group gives way to its record.
Replaced(known, u, g, members) ==
    (known \ {<<u, g, v>> : v \in Users}) \cup {<<u, g, v>> : v \in members}

\* The applicant is answered by PushMesToDesignatedUser, the creator on the
\* connection the request has come from (which a creator who has left the
\* table has closed); AddGroupChatToMap replaces what the client knew.
Reply(w) ==
    LET r == job[w].req   news == job[w].news   absent == r.of \notin table
        lost == r.op = "create" /\ w \in hungUp
    IN
    /\ At(w, "Reply")
    /\ replied' = IF r.op = "answer" THEN replied \cup {App(r)} ELSE replied
    /\ told' = IF news = {} \/ absent \/ lost THEN told
               ELSE Replaced(told, r.of, r.group, news)
    /\ IF news # {} /\ absent /\ ~lost
         THEN /\ mail' = Replaced(mail, r.of, r.group, news)
              /\ fresh' = fresh \cup {<<r.of, r.group>>}
         ELSE UNCHANGED <<mail, fresh>>
    /\ missed' = IF news # {} /\ Arriving(r.of)
                   THEN missed \cup {<<r.of, r.group, v>> : v \in Users}
                   ELSE missed
    /\ Goto(w, "idle")
    /\ UNCHANGED <<db, applied, failures, stale, cut, todo, asked, table,
                   loginRes, hungUp, decided, raced, forgotten, crossed,
                   rejoined>>

-----------------------------------------------------------------------------
(* Login and its reply, logout, and the end of the server.                 *)

\* The account is read for its password; the status is set if need be.
Login(w) ==
    LET rec == db[job[w].req.user] IN
    /\ At(w, "Login")
    /\ Goto(w, CASE rec = Missing -> "idle"
                 [] rec # Missing /\ rec.online -> "GetAllGroupChats"
                 [] OTHER -> "ModifyUserStatusById")
    /\ UNCHANGED <<db, applied, failures, stale, cut, clients, history>>

GroupsOf(u) == {g \in Groups : db[u].groups[g] # "none"}

\* What is known of groups, but for what u's client knew.
Others(known, u) == {t \in known : t[1] # u}

\* The groups of the user's record are read for the reply.
GetAllGroupChats(w) ==
    LET u == job[w].req.user IN
    /\ At(w, "GetAllGroupChats")
    /\ \A g \in GroupsOf(u) : db[g] # Missing
    /\ loginRes' = Others(loginRes, u)
                     \cup {t \in {u} \X GroupsOf(u) \X Users : t[3] \in MembersOf(db[t[2]])}
    /\ Goto(w, "AddOnlineUser")
    /\ UNCHANGED <<db, applied, failures, stale, cut, todo, asked, told,
                   replied, table, mail, fresh, hungUp, history>>

\* The user's record cannot be read: the reply has no groups.
GroupsUnread(w) ==
    LET u == job[w].req.user IN
    /\ At(w, "GetAllGroupChats")
    /\ failures < MaxFailures /\ failures' = failures + 1
    /\ cut' = cut \cup {u}
    /\ loginRes' = Others(loginRes, u)
    /\ Goto(w, "AddOnlineUser")
    /\ UNCHANGED <<db, applied, stale, todo, asked, told, replied, table, mail,
                   fresh, hungUp, history>>

\* The connection of u that groups are being created for is no longer u's.
HangUp(u) ==
    LET creating == {v \in Workers : /\ ~At(v, "idle") /\ job[v].req.op = "create"
                                     /\ job[v].req.of = u}
    IN /\ hungUp' = hungUp \cup creating
       /\ missed' = missed \cup {t \in {u} \X Groups \X Users :
                                   \E v \in creating : t[2] = job[v].req.group}

\* The user is entered and replied to; the client that has logged in knows
\* what the reply says.
AddOnlineUser(w) ==
    LET u == job[w].req.user IN
    /\ At(w, "AddOnlineUser")
    /\ table' = table \cup {u}
    /\ told' = Others(told, u) \cup {t \in loginRes : t[1] = u}
    /\ HangUp(u)
    /\ Goto(w, "PushOfflineUserMessages")
    /\ UNCHANGED <<db, applied, failures, stale, cut, todo, asked, replied,
                   mail, fresh, loginRes, decided, raced, forgotten, crossed,
                   rejoined>>

\* What u's client knows when it has read the messages stored for u.
Read(u) ==
    {t \in told : t[1] = u => <<u, t[2]>> \notin fresh}
      \cup {t \in mail : t[1] = u /\ (<<u, t[2]>> \in fresh \/ Knows(u, t[2]))}

PushOfflineUserMessages(w) ==
    LET u == job[w].req.user IN
    /\ At(w, "PushOfflineUserMessages")
    /\ told' = Read(u)
    /\ mail' = Others(mail, u) /\ fresh' = Others(fresh, u)
    /\ Goto(w, "idle")
    /\ UNCHANGED <<db, applied, failures, stale, cut, todo, asked, replied,
                   table, loginRes, hungUp, history>>

\* GetOfflineUserMessages fails: what it has taken is lost.
MessagesUnread(w) ==
    LET u == job[w].req.user IN
    /\ At(w, "PushOfflineUserMessages")
    /\ failures < MaxFailures /\ failures' = failures + 1
    /\ cut' = cut \cup {u}
    /\ \/ mail' = Others(mail, u) /\ fresh' = Others(fresh, u)
       \/ UNCHANGED <<mail, fresh>>
    /\ Goto(w, "idle")
    /\ UNCHANGED <<db, applied, stale, todo, asked, told, replied, table,
                   loginRes, hungUp, history>>

\* HandleForOffline; the client's HandleLogOut empties its groups.
DelOnlineUser(w) ==
    LET u == job[w].req.user IN
    /\ At(w, "DelOnlineUser")
    /\ table' = table \ {u}
    /\ told' = Others(told, u)
    /\ HangUp(u)
    /\ Goto(w, "ModifyUserStatusById")
    /\ UNCHANGED <<db, applied, failures, stale, cut, todo, asked, replied,
                   mail, fresh, loginRes, decided, raced, forgotten, crossed,
                   rejoined>>

Busy     == {w \in Workers : ~At(w, "idle")}
Deciding == {w \in Busy : job[w].req.op = "answer"}

\* The server ends: the applications, the handlers and the table are gone,
\* and with their connections the clients.
End ==
    /\ applied' = {}
    /\ job' = [w \in Workers |-> Idle]
    /\ cut' = cut \cup UNION {Touched(job[w].req) : w \in Busy}
    /\ forgotten' = forgotten \cup applied
                      \cup {App(job[w].req) : w \in Deciding}
    /\ asked' = Unasked(table)
    /\ table' = {} /\ told' = {} /\ loginRes' = {} /\ hungUp' = {}
    /\ UNCHANGED <<db, stale, todo, replied, mail, fresh, decided, raced,
                   crossed, rejoined, missed>>

\* A group of the user's has no record, or it cannot be read: the nil
\* pointer is followed.
LoginPanics(w) ==
    /\ At(w, "GetAllGroupChats")
    /\ \E g \in GroupsOf(job[w].req.user) :
         \/ db[g] = Missing /\ UNCHANGED failures
         \/ failures < MaxFailures /\ failures' = failures + 1
    /\ End

Crash ==
    /\ failures < MaxFailures
    /\ failures' = failures + 1
    /\ End

-----------------------------------------------------------------------------
Step(w) ==
    \/ HGet(w) \/ HSet(w)
    \/ GetGroupChat(w) \/ PushToManagers(w)
    \/ CheckApplication(w) \/ DeleteApplication(w)
    \/ PushToMembers(w) \/ Reply(w)
    \/ Login(w) \/ GetAllGroupChats(w) \/ LoginPanics(w)
    \/ AddOnlineUser(w) \/ PushOfflineUserMessages(w) \/ DelOnlineUser(w)

Next ==
    \/ Crash
    \/ \E w \in Workers :
         \/ Begin(w) \/ BeginCreate(w) \/ BeginAnswer(w)
         \/ Step(w) \/ RedisError(w) \/ GroupsUnread(w) \/ MessagesUnread(w)

Spec == Init /\ [][Next]_vars

\* Workers run; clients owe no request and managers no answer.
FairSpec == Spec /\ \A w \in Workers : WF_vars(Step(w))

-----------------------------------------------------------------------------
Places == Edits \cup {"idle", "GetGroupChat", "PushToManagers",
                     "CheckApplication", "DeleteApplication",
                     "PushToMembers", "Reply", "Login", "GetAllGroupChats",
                     "AddOnlineUser", "PushOfflineUserMessages",
                     "DelOnlineUser"}

Job == [at : Places, req : Request \cup {NoRequest},
        copy : Account \cup GroupChat \cup {Missing, NoCopy},
        news : SUBSET Users]

TypeOK ==
    /\ db \in [Keys -> Account \cup GroupChat \cup {Missing}]
    /\ \A u \in Users : db[u] \in Account \cup {Missing}
    /\ \A g \in Groups : db[g] \in GroupChat \cup {Missing}
    /\ todo \subseteq Request
    /\ applied \subseteq Application /\ replied \subseteq Application
    /\ asked \subseteq Users \X Application
    /\ job \in [Workers -> Job]
    /\ told \subseteq Users \X Groups \X Users
    /\ failures \in 0..MaxFailures
    /\ decided \subseteq Users \X Application
    /\ raced \subseteq Application /\ forgotten \subseteq Application
    /\ stale \subseteq Keys /\ cut \subseteq Keys
    /\ crossed \subseteq SUBSET Keys
    /\ rejoined \subseteq Users \X Groups
    /\ missed \subseteq Users \X Groups \X Users
    /\ table \subseteq Users /\ fresh \subseteq Users \X Groups
    /\ mail \subseteq Users \X Groups \X Users
    /\ loginRes \subseteq Users \X Groups \X Users
    /\ hungUp \subseteq Workers

\* The record under a key and every copy of it a worker holds.
Versions(g) ==
    LET holders == {w \in Workers :
                      /\ job[w].at \in {"AddNewManagerInGC",
                                       "AddNewMemberToGC", "PushToManagers"}
                      /\ job[w].req.group = g}
    IN ({db[g]} \cup {job[w].copy : w \in holders}) \ {Missing, NoCopy}

\* Whatever writes are lost to others, a group has its leader in the first
\* seat, nobody in two, none but members in any, and no more than there
\* are; the leader is the owner and the members in the other seats are the
\* managers, but for those let in who were members already.
GroupIsWhole ==
    \A g \in Groups : \A rec \in Versions(g) :
        /\ Seats(rec)
        /\ \A u \in Users : RoleFits(rec, u) \/ <<u, g>> \in rejoined

\* No handler is at work on both records, no write to either was lost and
\* no failure came in between.
Settled(k, l) ==
    /\ {k, l} \cap (stale \cup cut) = {}
    /\ \A w \in Busy : Touched(job[w].req) # {k, l}

RoleOf(u, g) == IF db[u] = Missing THEN "none" ELSE db[u].groups[g]
RoleIn(u, g) == IF db[g] = Missing THEN "none" ELSE db[g].role[u]

\* A user's record and a group's agree on whether the user is a member,
\* and on the role unless two handlers were changing it at once.
MembershipAgrees ==
    \A u \in Users, g \in Groups :
        Settled(u, g) =>
            /\ RoleOf(u, g) = "none" <=> RoleIn(u, g) = "none"
            /\ {u, g} \notin crossed => RoleOf(u, g) = RoleIn(u, g)

\* A group of a user's record exists, and is theirs if the record says so,
\* unless a failure or a lost write fell into its creation.
NoPhantomGroup ==
    \A u \in Users, g \in Groups \ (stale \cup cut) :
        /\ RoleOf(u, g) # "none" => db[g] # Missing
        /\ RoleOf(u, g) = "owner" => db[g].leader = u

\* Friends are friends of each other.
FriendshipIsMutual ==
    \A u, v \in Users :
        Settled(u, v) /\ db[u] # Missing /\ v \in db[u].friends
            => db[v] # Missing /\ u \in db[v].friends

\* One verdict on an application, unless two managers' answers passed the
\* check together.
DecidedOnce ==
    \A a \in Application \ raced :
        Cardinality({m \in Users : <<m, a>> \in decided}) <= 1

\* When nobody is being let in, the client of every member who is logged in
\* knows all members, whatever joins, logouts and logins overlapped and
\* whatever was stored meanwhile, unless a write of the group's or the
\* member's own record was lost; but for those let in while the group's
\* record or a login reply was on its way to that client, and verdicts that
\* came then.
MembersKnowEachOther ==
    \A g \in Groups \ (stale \cup cut), u \in table \ (stale \cup cut) :
        /\ db[g] # Missing /\ u \in MembersOf(db[g])
        /\ \A w \in Busy : g \notin Touched(job[w].req)
        => \A v \in MembersOf(db[g]) : <<u, g, v>> \in told \cup missed

Keeps(old, new) ==
    IF "mgrs" \in DOMAIN old
      THEN /\ new.leader = old.leader
           /\ MembersOf(old) \subseteq MembersOf(new)
           /\ Range(old.mgrs) \subseteq Range(new.mgrs)
      ELSE /\ new.pwd = old.pwd
           /\ old.friends \subseteq new.friends
           /\ \A g \in Groups : old.groups[g] # "none" => new.groups[g] # "none"

\* Only a write from a copy that is out of date takes back a registered
\* password, a friend, a group, a member or a manager.
NothingTakenBack ==
    [][\A k \in Keys :
          db[k] # Missing =>
              \/ Keeps(db[k], db'[k])
              \/ \E w \in Workers : /\ job[w].at \in Edits
                                   /\ Key(job[w].at, job[w].req) = k
                                   /\ Copy(w) \notin {NoCopy, db[k]}]_vars

Applications ==
    {App(r) : r \in {x \in UNION {s.todo : s \in Scenarios} : x.op = "apply"}}

\* An applicant is told when a manager has answered, though another one may
\* have answered first and redis may fail, unless the server ends.
AnsweredIsTold ==
    \A a \in Applications :
        (\E w \in Workers : At(w, "CheckApplication") /\ App(job[w].req) = a)
            ~> (a \in replied \cup forgotten)
=============================================================================
