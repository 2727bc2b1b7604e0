--------------------------- MODULE SessionProofs ----------------------------
(***************************************************************************)
(* Proofs about Session, for any users, friendships and connections, any   *)
(* size of the worker pool and any number of faults.                       *)
(***************************************************************************)
EXTENDS Session, TLAPS

-----------------------------------------------------------------------------
(* Type correctness.  A login knows its account, and a logout that goes on *)
(* to tell the friends is that of a user whose login was recorded.         *)

InPlaces  == {"idle", "login", "setStatus", "lookup", "kick", "friends",
              "enter", "reply", "record", "notify", "done", "refused",
              "unanswered"}
OutPlaces == {"idle", "notify", "delete", "setStatus", "close", "done",
              "superseded"}

Linked ==
    /\ \A c \in Conns :
          /\ pc[<<c, "in">>] \in InPlaces /\ pc[<<c, "out">>] \in OutPlaces
          /\ pc[<<c, "in">>] # "idle" => acct[c] \in Users
          /\ UsrId[c] # NoUser => UsrId[c] = acct[c]
          /\ pc[<<c, "out">>] \in {"notify", "delete", "setStatus"} => UsrId[c] # NoUser
          /\ Active(<<c, "out">>) => c \notin open
    /\ \A h \in Handlers : pc[h] # "notify" => found[h] = NoUser

TypeInv == TypeOK /\ Linked

LEMMA HandlerKinds ==
  /\ \A c \in Conns : <<c, "in">> \in Handlers /\ <<c, "out">> \in Handlers
                      /\ <<c, "in">> # <<c, "out">>
                      /\ <<c, "in">>[1] = c /\ <<c, "out">>[1] = c
                      /\ <<c, "in">>[2] = "in" /\ <<c, "out">>[2] = "out"
  /\ \A h \in Handlers : /\ h[1] \in Conns
                         /\ h = <<h[1], "in">> \/ h = <<h[1], "out">>
  /\ \A c, d \in Conns : <<c, "in">> # <<d, "out">>
                         /\ (<<c, "in">> = <<d, "in">> => c = d)
                         /\ (<<c, "out">> = <<d, "out">> => c = d)
  BY DEF Handlers

LEMMA FaultCounts ==
  ASSUME TypeInv, UNCHANGED faults \/ Fault
  PROVE  faults' \in 0..MaxFaults
  BY SessionAssumption DEF Fault, TypeInv, TypeOK

\* Where a handler goes, the others stay.
LEMMA GotoMoves ==
  ASSUME TypeInv, NEW h \in Handlers, NEW p \in PCs, Goto(h, p)
  PROVE  /\ pc' \in [Handlers -> PCs] /\ pc'[h] = p
         /\ \A g \in Handlers : g # h => pc'[g] = pc[g]
  BY DEF Goto, TypeInv, TypeOK

LEMMA SessionTypeInit == Init => TypeInv
<1> SUFFICES ASSUME Init PROVE TypeInv
  OBVIOUS
<1>1. TypeOK
  BY SessionAssumption DEF Init, PresenceInit, TypeOK, PCs, AtRest, Unknown, Statuses
<1>2. Linked
  BY HandlerKinds DEF Init, PresenceInit, Linked, InPlaces, OutPlaces, Active, AtRest
<1> QED
  BY <1>1, <1>2 DEF TypeInv

\* A handler of c moves on.
LEMMA HandlerMoves ==
  ASSUME TypeInv, NEW h \in Handlers, NEW p, Goto(h, p), UNCHANGED <<open, acct>>,
         h[2] = "in" => p \in InPlaces /\ acct[h[1]] \in Users,
         h[2] = "out" => p \in OutPlaces /\ (p \notin AtRest => h[1] \notin open),
         h[2] = "out" /\ p \in {"notify", "delete", "setStatus"} => UsrId'[h[1]] # NoUser,
         \A c \in Conns : UsrId'[c] \in {UsrId[c], acct[c]},
         \A c \in Conns : UsrId[c] # NoUser => UsrId'[c] # NoUser,
         \A g \in Handlers : g # h => found'[g] = found[g],
         p # "notify" => found'[h] = NoUser
  PROVE  Linked' /\ pc' \in [Handlers -> PCs]
<1>1. p \in PCs
  BY HandlerKinds DEF InPlaces, OutPlaces, PCs, AtRest
<1>2. /\ pc' \in [Handlers -> PCs] /\ pc'[h] = p
      /\ \A g \in Handlers : g # h => pc'[g] = pc[g]
  BY <1>1, GotoMoves
<1>3. ASSUME NEW c \in Conns
      PROVE  /\ pc'[<<c, "in">>] \in InPlaces
             /\ pc'[<<c, "in">>] # "idle" => acct'[c] \in Users
  <2>1. CASE <<c, "in">> = h
    BY <1>2, <2>1, HandlerKinds
  <2>2. CASE <<c, "in">> # h
    BY <1>2, <2>2, HandlerKinds DEF TypeInv, Linked
  <2> QED
    BY <2>1, <2>2
<1>4. ASSUME NEW c \in Conns
      PROVE  /\ pc'[<<c, "out">>] \in OutPlaces
             /\ pc'[<<c, "out">>] \in {"notify", "delete", "setStatus"} => UsrId'[c] # NoUser
             /\ pc'[<<c, "out">>] \notin AtRest => c \notin open'
  <2>1. CASE <<c, "out">> = h
    BY <1>2, <2>1, HandlerKinds
  <2>2. CASE <<c, "out">> # h
    BY <1>2, <2>2, HandlerKinds DEF TypeInv, Linked, Active
  <2> QED
    BY <2>1, <2>2
<1>5. \A c \in Conns : UsrId'[c] # NoUser => UsrId'[c] = acct'[c]
  BY DEF TypeInv, Linked
<1>6. \A g \in Handlers : pc'[g] # "notify" => found'[g] = NoUser
  BY <1>2 DEF TypeInv, Linked
<1> QED
  BY <1>2, <1>3, <1>4, <1>5, <1>6 DEF Linked, Active

LEMMA LoginTypes ==
  ASSUME TypeInv, NEW c \in Conns,
         \/ CheckPassword(c) \/ SetOnline(c) \/ LookUpOld(c)
         \/ Kick(c) \/ KickFails(c) \/ LoginRefused(c) \/ ReadFriends(c)
         \/ Enter(c) \/ Reply(c) \/ ReplyFails(c) \/ Record(c)
  PROVE  TypeInv'
<1> DEFINE h == <<c, "in">>
<1>1. /\ h \in Handlers /\ h[1] = c /\ h[2] = "in"
  BY HandlerKinds
<1>2. pc[h] # "idle" /\ pc[h] # "notify"
  BY DEF CheckPassword, SetOnline, LookUpOld, Kick, KickFails, LoginRefused, ReadFriends, Enter,
         Reply, ReplyFails, Record
<1>3. acct[c] \in Users /\ found[h] = NoUser /\ acct[c] # NoUser
  BY <1>1, <1>2, SessionAssumption DEF TypeInv, Linked
<1>4. PICK p \in InPlaces : Goto(h, p)
  BY DEF CheckPassword, SetOnline, LookUpOld, Kick, KickFails, LoginRefused, ReadFriends, Enter,
         Reply, ReplyFails, Record, InPlaces
<1>5. /\ UNCHANGED <<open, acct, accepts, table, found, reset>>
      /\ UsrId' \in {UsrId, [UsrId EXCEPT ![c] = acct[c]]}
  BY DEF CheckPassword, SetOnline, LookUpOld, Kick, KickFails, LoginRefused, ReadFriends, Enter,
         Reply, ReplyFails, Record, presenceVars, AddOnlineUser
<1> HIDE DEF h
<1>6. /\ UsrId' \in [Conns -> Users \cup {NoUser}]
      /\ \A d \in Conns : UsrId'[d] \in {UsrId[d], acct[d]}
      /\ \A d \in Conns : UsrId[d] # NoUser => UsrId'[d] # NoUser
  BY <1>3, <1>5 DEF TypeInv, TypeOK
<1>7. Linked' /\ pc' \in [Handlers -> PCs]
  BY <1>1, <1>3, <1>4, <1>5, <1>6, HandlerMoves
<1>8. onlineUsers' \in [Users -> Conns \cup {NoConn}] /\ status' \in [Users -> Statuses]
  <2>1. onlineUsers' = onlineUsers \/ onlineUsers' = [onlineUsers EXCEPT ![acct[c]] = c]
    BY DEF CheckPassword, SetOnline, LookUpOld, Kick, KickFails, LoginRefused, ReadFriends,
           Enter,
           Reply, ReplyFails, Record, presenceVars, AddOnlineUser
  <2>2. status' = status \/ status' = [status EXCEPT ![acct[c]] = "online"]
    BY DEF CheckPassword, SetOnline, LookUpOld, Kick, KickFails, LoginRefused, ReadFriends,
           Enter,
           Reply, ReplyFails, Record
  <2>3. /\ onlineUsers \in [Users -> Conns \cup {NoConn}]
        /\ status \in [Users -> Statuses] /\ "online" \in Statuses
    BY DEF TypeInv, TypeOK, Statuses
  <2> QED
    BY <2>1, <2>2, <2>3
<1>9. seen' \in [Conns -> Conns \cup {NoConn}] /\ kicked' \subseteq Conns
  <2>1. \/ UNCHANGED seen
        \/ seen' = [seen EXCEPT ![c] = onlineUsers[acct[c]]]
        \/ seen' = [seen EXCEPT ![c] = NoConn]
    BY DEF CheckPassword, SetOnline, LookUpOld, Kick, KickFails, LoginRefused, ReadFriends,
           Enter,
           Reply, ReplyFails, Record, GetOnlineUserByID
  <2>2. UNCHANGED kicked \/ kicked' = kicked \cup ({seen[c]} \cap open)
    BY DEF CheckPassword, SetOnline, LookUpOld, Kick, KickFails, LoginRefused, ReadFriends,
           Enter,
           Reply, ReplyFails, Record
  <2>3. onlineUsers[acct[c]] \in Conns \cup {NoConn}
    BY <1>3 DEF TypeInv, TypeOK
  <2>4. seen \in [Conns -> Conns \cup {NoConn}] /\ kicked \subseteq Conns /\ open \subseteq Conns
    BY DEF TypeInv, TypeOK
  <2>5. seen' \in [Conns -> Conns \cup {NoConn}]
    BY <2>1, <2>3, <2>4
  <2> QED
    BY <2>2, <2>4, <2>5
<1>10. list' \in [Conns -> [Users -> Statuses]] /\ view' \in [Conns -> [Users -> Statuses]]
  <2>1. Unknown \in [Users -> Statuses]
    BY DEF Unknown, Statuses
  <2>2. list' = list \/ list' = [list EXCEPT ![c] = status]
        \/ list' = [list EXCEPT ![c] = Unknown]
    BY DEF CheckPassword, SetOnline, LookUpOld, Kick, KickFails, LoginRefused, ReadFriends,
           Enter,
           Reply, ReplyFails, Record
  <2>3. view' = view \/ view' = [view EXCEPT ![c] = list[c]]
    BY DEF CheckPassword, SetOnline, LookUpOld, Kick, KickFails, LoginRefused, ReadFriends,
           Enter,
           Reply, ReplyFails, Record
  <2>4. /\ list \in [Conns -> [Users -> Statuses]] /\ view \in [Conns -> [Users -> Statuses]]
        /\ status \in [Users -> Statuses]
    BY DEF TypeInv, TypeOK
  <2>5. list' \in [Conns -> [Users -> Statuses]]
    BY <2>1, <2>2, <2>4
  <2>6. view' \in [Conns -> [Users -> Statuses]]
    BY <2>3, <2>4
  <2> QED
    BY <2>5, <2>6
<1>11. tell' \in [Handlers -> SUBSET Users]
  BY <1>3, SessionAssumption
     DEF CheckPassword, SetOnline, LookUpOld, Kick, KickFails, LoginRefused, ReadFriends, Enter,
         Reply, ReplyFails, Record, TypeInv, TypeOK
<1>12. overlap' \subseteq Users \X Users /\ spoiled' \subseteq Users
  BY <1>3
     DEF CheckPassword, SetOnline, LookUpOld, Kick, KickFails, LoginRefused, ReadFriends, Enter,
         Reply, ReplyFails, Record, history, TypeInv, TypeOK
<1>13. copies' = copies /\ faults' \in 0..MaxFaults
  <2>1. copies' = copies /\ (UNCHANGED faults \/ Fault)
    BY DEF CheckPassword, SetOnline, LookUpOld, Kick, KickFails, LoginRefused, ReadFriends,
           Enter,
           Reply, ReplyFails, Record, history
  <2> QED
    BY <2>1, FaultCounts
<1> QED
  BY <1>5, <1>6, <1>7, <1>8, <1>9, <1>10, <1>11, <1>12, <1>13 DEF TypeInv, TypeOK

\* NotifyOtherOnlineFriends, but for the end of the process.
LEMMA NotifyTypes ==
  ASSUME TypeInv, NEW h \in Handlers,
         (\E f \in Users : TryFriend(h, f)) \/ NotifyMyStatus(h) \/ NotifyDone(h)
  PROVE  TypeInv'
<1>1. /\ pc[h] = "notify" /\ h[1] \in Conns /\ h = <<h[1], h[2]>> /\ h[2] \in {"in", "out"}
      /\ UNCHANGED <<presenceVars, accepts, table, UsrId, acct, seen, list, status,
                     copies, kicked, reset, history>>
  BY HandlerKinds DEF TryFriend, NotifyMyStatus, NotifyDone
<1>2. acct[h[1]] \in Users
  BY <1>1, SessionAssumption DEF TypeInv, Linked, TypeOK
<1>3. CASE \E f \in Users : TryFriend(h, f)
  <2>1. PICK f \in Users : TryFriend(h, f)
    BY <1>3
  <2>2. /\ tell' = [tell EXCEPT ![h] = @ \ {f}] /\ UNCHANGED <<pc, view>>
        /\ found' = [found EXCEPT ![h] = IF IsOnline(f) THEN f ELSE NoUser]
    BY <2>1 DEF TryFriend
  <2>3. tell' \in [Handlers -> SUBSET Users] /\ found' \in [Handlers -> Users \cup {NoUser}]
        /\ \A g \in Handlers : g # h => found'[g] = found[g]
    BY <2>2 DEF TypeInv, TypeOK
  <2>4. TypeOK'
    BY <1>1, <2>2, <2>3 DEF TypeInv, TypeOK, presenceVars, history
  <2>5. Linked'
    BY <1>1, <2>2, <2>3 DEF TypeInv, Linked, presenceVars, Active
  <2> QED
    BY <2>4, <2>5 DEF TypeInv
<1>4. CASE NotifyMyStatus(h)
  <2>1. found' = [found EXCEPT ![h] = NoUser] /\ UNCHANGED <<pc, tell>>
    BY <1>4 DEF NotifyMyStatus
  <2>2. found' \in [Handlers -> Users \cup {NoUser}]
        /\ \A g \in Handlers : found'[g] \in {found[g], NoUser}
    BY <2>1 DEF TypeInv, TypeOK
  <2>3. view' \in [Conns -> [Users -> Statuses]]
    <3>1. PICK d : view' = view \/ view' = [view EXCEPT ![d][acct[h[1]]] = NewStatus(h)]
      BY <1>4 DEF NotifyMyStatus
    <3>2. NewStatus(h) \in Statuses
      BY DEF NewStatus, Statuses
    <3>3. view \in [Conns -> [Users -> Statuses]]
      BY DEF TypeInv, TypeOK
    <3> QED
      BY <1>2, <3>1, <3>2, <3>3
  <2>4. TypeOK'
    BY <1>1, <2>1, <2>2, <2>3 DEF TypeInv, TypeOK, presenceVars, history
  <2>5. Linked'
    BY <1>1, <2>1, <2>2 DEF TypeInv, Linked, presenceVars, Active
  <2> QED
    BY <2>4, <2>5 DEF TypeInv
<1>5. CASE NotifyDone(h)
  <2>1. /\ Goto(h, IF h[2] = "in" THEN "done" ELSE "delete")
        /\ UNCHANGED <<tell, found, view>> /\ found[h] = NoUser
    BY <1>5 DEF NotifyDone
  <2>2. h[2] = "out" => /\ UsrId[h[1]] # NoUser /\ h[1] \notin open
    BY <1>1 DEF TypeInv, Linked, Active, AtRest
  <2>3. Linked' /\ pc' \in [Handlers -> PCs]
    BY <1>1, <1>2, <2>1, <2>2, HandlerMoves DEF InPlaces, OutPlaces, presenceVars
  <2>4. TypeOK'
    BY <1>1, <2>1, <2>3 DEF TypeInv, TypeOK, presenceVars, history
  <2> QED
    BY <2>3, <2>4 DEF TypeInv
<1> QED
  BY <1>3, <1>4, <1>5

LEMMA LogoutTypes ==
  ASSUME TypeInv, NEW c \in Conns,
         LogoutStart(c) \/ Delete(c) \/ SetOffline(c) \/ Close(c)
  PROVE  TypeInv'
<1> DEFINE h == <<c, "out">>
<1>1. /\ h \in Handlers /\ h[1] = c /\ h[2] = "out"
  BY HandlerKinds
<1>2. c \notin open /\ pc[h] # "notify" /\ found[h] = NoUser
  <2>1. pc[h] # "notify"
    BY DEF LogoutStart, Delete, SetOffline, Close
  <2>2. LogoutStart(c) \/ Active(h)
    BY DEF LogoutStart, Delete, SetOffline, Close, Active, AtRest
  <2> QED
    BY <1>1, <2>1, <2>2 DEF LogoutStart, TypeInv, Linked
<1>3. PICK p \in OutPlaces :
        /\ Goto(h, p)
        /\ p \in {"notify", "delete", "setStatus"} => UsrId[c] # NoUser
  <2>1. CASE LogoutStart(c)
    <3>1. PICK up : /\ up = IF UsrId[c] = NoUser THEN NoConn ELSE GetOnlineUserByID(UsrId[c])
                    /\ \/ up = NoConn /\ Goto(h, "close")
                       \/ up \notin {c, NoConn} /\ Goto(h, "superseded")
                       \/ up = c /\ Goto(h, "notify")
      BY <2>1 DEF LogoutStart
    <3>2. c # NoConn
      BY NoConnAssumption
    <3>3. up = c => UsrId[c] # NoUser
      BY <3>1, <3>2
    <3> QED
      BY <3>1, <3>3 DEF OutPlaces
  <2>2. CASE Delete(c)
    BY <2>2 DEF Delete, OutPlaces, TypeInv, Linked
  <2>3. CASE SetOffline(c) \/ Close(c)
    BY <2>3 DEF SetOffline, Close, OutPlaces
  <2> QED
    BY <2>1, <2>2, <2>3
<1>4. /\ UNCHANGED <<open, accepts, UsrId, acct, seen, list, found, view, kicked, reset,
                     copies, spoiled, faults>>
      /\ tell' = tell \/ tell' = [tell EXCEPT ![h] = FriendsOf[UsrId[c]]]
      /\ UsrId[c] = NoUser => tell' = tell
      /\ onlineUsers' = onlineUsers \/ onlineUsers' = [onlineUsers EXCEPT ![UsrId[c]] = NoConn]
      /\ status' = status \/ status' = [status EXCEPT ![UsrId[c]] = "offline"]
      /\ table' \subseteq table
      /\ overlap' = overlap \/ NoteOverlap(acct[c])
  <2>1. CASE LogoutStart(c)
    <3>1. PICK up : /\ up = IF UsrId[c] = NoUser THEN NoConn ELSE GetOnlineUserByID(UsrId[c])
                    /\ \/ tell' = tell
                       \/ up = c /\ tell' = [tell EXCEPT ![h] = FriendsOf[UsrId[c]]]
      BY <2>1 DEF LogoutStart
    <3>2. c # NoConn
      BY NoConnAssumption
    <3>3. UsrId[c] = NoUser => tell' = tell
      BY <3>1, <3>2
    <3>4. tell' = tell \/ tell' = [tell EXCEPT ![h] = FriendsOf[UsrId[c]]]
      BY <3>1
    <3> QED
      BY <2>1, <3>3, <3>4 DEF LogoutStart, presenceVars
  <2>2. CASE Delete(c)
    BY <2>2 DEF Delete, DelOnlineUser, history
  <2>3. CASE SetOffline(c)
    BY <2>3 DEF SetOffline, presenceVars, history
  <2>4. CASE Close(c)
    BY <2>4 DEF Close, presenceVars, history
  <2> QED
    BY <2>1, <2>2, <2>3, <2>4
<1> HIDE DEF h
<1>5. Linked' /\ pc' \in [Handlers -> PCs]
  BY <1>1, <1>2, <1>3, <1>4, HandlerMoves
<1>6. /\ onlineUsers' \in [Users -> Conns \cup {NoConn}] /\ status' \in [Users -> Statuses]
      /\ table' \subseteq Conns
  BY <1>4 DEF TypeInv, TypeOK, Statuses
<1>7. tell' \in [Handlers -> SUBSET Users]
  <2>1. CASE UsrId[c] = NoUser
    BY <1>4, <2>1 DEF TypeInv, TypeOK
  <2>2. CASE UsrId[c] # NoUser
    <3>1. FriendsOf[UsrId[c]] \subseteq Users
      BY <2>2, SessionAssumption DEF TypeInv, TypeOK
    <3> QED
      BY <1>4, <3>1 DEF TypeInv, TypeOK
  <2> QED
    BY <2>1, <2>2
<1>8. overlap' \subseteq Users \X Users
  BY <1>4 DEF NoteOverlap, TypeInv, TypeOK
<1> QED
  BY <1>4, <1>5, <1>6, <1>7, <1>8 DEF TypeInv, TypeOK

LEMMA LoginStartTypes ==
  ASSUME TypeInv, NEW c \in Conns, NEW u \in Users, LoginStart(c, u)
  PROVE  TypeInv'
<1>1. /\ pc' \in [Handlers -> PCs] /\ pc'[<<c, "in">>] = "login"
      /\ \A g \in Handlers : g # <<c, "in">> => pc'[g] = pc[g]
  BY HandlerKinds, GotoMoves DEF LoginStart, PCs
<1>2. /\ acct[c] = NoUser /\ acct' = [acct EXCEPT ![c] = u]
      /\ UNCHANGED <<presenceVars, accepts, table, UsrId, seen, list, tell, found,
                     status, copies, view, kicked, reset, spoiled, faults>>
      /\ NoteOverlap(u) /\ pc[<<c, "in">>] = "idle"
  BY DEF LoginStart
<1>3. UsrId[c] = NoUser
  BY <1>2 DEF TypeInv, Linked
<1>4. /\ acct' \in [Conns -> Users \cup {NoUser}] /\ acct'[c] = u
      /\ \A d \in Conns : d # c => acct'[d] = acct[d]
  BY <1>2 DEF TypeInv, TypeOK
<1>5. overlap' \subseteq Users \X Users
  BY <1>2 DEF NoteOverlap, TypeInv, TypeOK
<1>6. TypeOK'
  BY <1>1, <1>2, <1>4, <1>5 DEF TypeInv, TypeOK, presenceVars
<1>7. \A d \in Conns : /\ pc'[<<d, "out">>] = pc[<<d, "out">>]
                       /\ d # c => pc'[<<d, "in">>] = pc[<<d, "in">>]
  BY <1>1, HandlerKinds
<1>8. Linked'
  <2>1. \A d \in Conns :
          /\ pc'[<<d, "in">>] \in InPlaces /\ pc'[<<d, "out">>] \in OutPlaces
          /\ pc'[<<d, "in">>] # "idle" => acct'[d] \in Users
          /\ UsrId'[d] # NoUser => UsrId'[d] = acct'[d]
          /\ pc'[<<d, "out">>] \in {"notify", "delete", "setStatus"} => UsrId'[d] # NoUser
    BY <1>1, <1>2, <1>3, <1>4, <1>7 DEF TypeInv, Linked, InPlaces
  <2>2. \A d \in Conns : Active(<<d, "out">>)' => d \notin open'
    BY <1>2, <1>7 DEF TypeInv, Linked, Active, presenceVars
  <2>3. \A g \in Handlers : pc'[g] # "notify" => found'[g] = NoUser
    BY <1>1, <1>2 DEF TypeInv, Linked
  <2> QED
    BY <2>1, <2>2, <2>3 DEF Linked
<1> QED
  BY <1>6, <1>8 DEF TypeInv

LEMMA ConnTypes ==
  ASSUME TypeInv, NEW c \in Conns, NewConn(c) \/ PeerCloses(c) \/ PeerResets(c)
  PROVE  TypeInv'
<1>1. CASE NewConn(c)
  <2>1. /\ pc' \in [Handlers -> PCs] /\ pc'[<<c, "in">>] = "idle" /\ pc'[<<c, "out">>] = "idle"
        /\ \A d \in Conns : d # c => /\ pc'[<<d, "in">>] = pc[<<d, "in">>]
                                    /\ pc'[<<d, "out">>] = pc[<<d, "out">>]
    <3>1. /\ pc' = [pc EXCEPT ![<<c, "in">>] = "idle", ![<<c, "out">>] = "idle"]
          /\ pc \in [Handlers -> PCs] /\ "idle" \in PCs
      BY <1>1 DEF NewConn, TypeInv, TypeOK, PCs, AtRest
    <3> QED
      BY <3>1, HandlerKinds
  <2>2. /\ open' = open \cup {c} /\ UNCHANGED onlineUsers
        /\ accepts < MaxAccepts /\ accepts' = accepts + 1 /\ table' = table \cup {c}
        /\ UsrId' = [UsrId EXCEPT ![c] = NoUser] /\ acct' = [acct EXCEPT ![c] = NoUser]
        /\ view' = [view EXCEPT ![c] = Unknown]
        /\ kicked' = kicked \ {c} /\ reset' = reset \ {c}
        /\ UNCHANGED <<seen, list, tell, found, status, copies, history>>
        /\ ~Active(<<c, "in">>) /\ ~Active(<<c, "out">>)
    BY <1>1 DEF NewConn, Connect
  <2>3. /\ accepts' \in 0..MaxAccepts /\ Unknown \in [Users -> Statuses]
    BY <2>2, SessionAssumption DEF TypeInv, TypeOK, Unknown, Statuses
  <2>4. /\ UsrId' \in [Conns -> Users \cup {NoUser}] /\ acct' \in [Conns -> Users \cup {NoUser}]
        /\ UsrId'[c] = NoUser
        /\ \A d \in Conns : d # c => UsrId'[d] = UsrId[d] /\ acct'[d] = acct[d]
        /\ view' \in [Conns -> [Users -> Statuses]]
    BY <2>2, <2>3 DEF TypeInv, TypeOK
  <2>5. TypeOK'
    BY <2>1, <2>2, <2>3, <2>4 DEF TypeInv, TypeOK, history
  <2>6. \A g \in Handlers : pc'[g] # "notify" => found'[g] = NoUser
    <3>1. found[<<c, "in">>] = NoUser /\ found[<<c, "out">>] = NoUser
      BY <2>2, HandlerKinds DEF Active, AtRest, TypeInv, Linked
    <3>2. ASSUME NEW g \in Handlers PROVE pc'[g] # "notify" => found[g] = NoUser
      <4>1. CASE g = <<c, "in">> \/ g = <<c, "out">>
        BY <3>1, <4>1
      <4>2. CASE g # <<c, "in">> /\ g # <<c, "out">>
        <5>1. PICK d \in Conns : g = <<d, "in">> \/ g = <<d, "out">>
          BY HandlerKinds
        <5>2. d # c
          BY <4>2, <5>1
        <5>3. pc'[<<d, "in">>] = pc[<<d, "in">>] /\ pc'[<<d, "out">>] = pc[<<d, "out">>]
          BY <2>1, <5>2
        <5>4. pc'[g] = pc[g]
          BY <5>1, <5>3
        <5> QED
          BY <5>4 DEF TypeInv, Linked
      <4> QED
        BY <4>1, <4>2
    <3> QED
      BY <2>2, <3>2
  <2>7. Linked'
    BY <2>1, <2>2, <2>4, <2>6 DEF TypeInv, Linked, InPlaces, OutPlaces, Active, AtRest
  <2> QED
    BY <2>5, <2>7 DEF TypeInv
<1>2. CASE PeerCloses(c) \/ PeerResets(c)
  <2>1. /\ open' \subseteq open /\ UNCHANGED <<onlineUsers, accepts, table, UsrId, acct,
             handlers, status, copies, view, kicked, overlap>>
        /\ reset' \subseteq reset \cup {c} /\ spoiled' \subseteq spoiled \cup Users
    BY <1>2 DEF PeerCloses, PeerResets, HangUp, history
  <2>4. faults' \in 0..MaxFaults
    <3>1. UNCHANGED faults \/ Fault
      BY <1>2 DEF PeerCloses, PeerResets, history
    <3> QED
      BY <3>1, FaultCounts
  <2>2. TypeOK'
    BY <2>1, <2>4 DEF TypeInv, TypeOK, handlers
  <2>3. Linked'
    BY <2>1 DEF TypeInv, Linked, handlers, Active
  <2> QED
    BY <2>2, <2>3 DEF TypeInv
<1> QED
  BY <1>1, <1>2

LEMMA RestartTypes ==
  ASSUME TypeInv, Restart, UNCHANGED faults \/ Fault
  PROVE  TypeInv'
<1>1. Unknown \in [Users -> Statuses]
  BY DEF Unknown, Statuses
<1>2. TypeOK'
  BY <1>1, FaultCounts DEF Restart, Crash, TypeInv, TypeOK, PCs, AtRest
<1>3. Linked'
  BY HandlerKinds DEF Restart, Linked, InPlaces, OutPlaces, Active, AtRest
<1> QED
  BY <1>2, <1>3 DEF TypeInv

\* What redis errors do to a handler that goes on, or has written already.
Lapse(h) ==
    \/ h[2] = "in" /\ (SetOnlineUnanswered(h[1]) \/ ReadFriendsFails(h[1]))
    \/ h[2] = "out" /\ SetOfflineFails(h[1])
    \/ TellNobody(h)

LEMMA LapseTypes ==
  ASSUME TypeInv, NEW h \in Handlers, Lapse(h)
  PROVE  /\ TypeInv' /\ Active(h) /\ acct[h[1]] \in Users /\ acct[h[1]] \in spoiled'
         /\ UNCHANGED <<presenceVars, accepts, table, UsrId, acct, seen, found, copies, view,
                        kicked, reset, overlap>>
         /\ status' = status \/ status' = [status EXCEPT ![acct[h[1]]] = "online"]
         /\ list' = list \/ \E x : list' = [list EXCEPT ![h[1]] = x]
         /\ tell' = tell \/ \E x : tell' = [tell EXCEPT ![h] = x]
         /\ pc' = pc \/ \E p : pc' = [pc EXCEPT ![h] = p]
         /\ spoiled \subseteq spoiled'
<1> DEFINE c == h[1]
<1>1. /\ c \in Conns /\ h[2] \in {"in", "out"}
      /\ h[2] = "in" => h = <<c, "in">>
      /\ h[2] = "out" => h = <<c, "out">>
  BY HandlerKinds
<1>2. Active(h)
  BY <1>1 DEF Lapse, SetOnlineUnanswered, ReadFriendsFails, SetOfflineFails, TellNobody, Active,
              AtRest
<1>3. /\ acct[c] \in Users
      /\ h[2] = "out" /\ pc[h] \in {"setStatus", "notify"} => UsrId[c] = acct[c] /\ c \notin open
  <2>1. h[2] = "out" => pc[h] \in {"setStatus", "notify"}
    BY <1>1 DEF Lapse, SetOnlineUnanswered, ReadFriendsFails, SetOfflineFails, TellNobody
  <2>2. CASE h[2] = "out"
    <3>1. UsrId[c] # NoUser /\ UsrId[c] = acct[c] /\ c \notin open /\ acct[c] \in Users \cup {NoUser}
      BY <1>1, <1>2, <2>1, <2>2 DEF TypeInv, TypeOK, Linked
    <3> QED
      BY <2>2, <3>1
  <2>3. CASE h[2] = "in"
    BY <1>1, <1>2, <2>3 DEF TypeInv, Linked, Active, AtRest
  <2> QED
    BY <1>1, <2>2, <2>3
<1>4. /\ UNCHANGED <<presenceVars, accepts, table, UsrId, acct, seen, found, copies, view,
                     kicked, reset, overlap>>
      /\ Fault
  BY DEF Lapse, SetOnlineUnanswered, ReadFriendsFails, SetOfflineFails, TellNobody
<1>5. spoiled' = spoiled \cup {acct[c]}
  BY <1>1, <1>3 DEF Lapse, SetOnlineUnanswered, ReadFriendsFails, SetOfflineFails, TellNobody
<1>6. status' = status \/ status' = [status EXCEPT ![acct[c]] = "online"]
  BY DEF Lapse, SetOnlineUnanswered, ReadFriendsFails, SetOfflineFails, TellNobody
<1>7. list' = list \/ \E x \in [Users -> Statuses] : list' = [list EXCEPT ![c] = x]
  <2>1. CASE ReadFriendsFails(c)
    <3>1. PICK missing : list' = [list EXCEPT ![c] =
                    [u \in Users |-> IF u \in missing THEN "offline" ELSE status[u]]]
      BY <2>1 DEF ReadFriendsFails
    <3>2. [u \in Users |-> IF u \in missing THEN "offline" ELSE status[u]] \in [Users -> Statuses]
      BY DEF TypeInv, TypeOK, Statuses
    <3> QED
      BY <3>1, <3>2
  <2>2. CASE ~ReadFriendsFails(c)
    BY <2>2 DEF Lapse, SetOnlineUnanswered, SetOfflineFails, TellNobody
  <2> QED
    BY <2>1, <2>2
<1>8. tell' = tell \/ tell' = [tell EXCEPT ![h] = {}]
  BY DEF Lapse, SetOnlineUnanswered, ReadFriendsFails, SetOfflineFails, TellNobody
<1>9. \/ pc' = pc
      \/ \E p \in InPlaces : h[2] = "in" /\ Goto(h, p) /\ p # "notify" /\ pc[h] # "notify"
      \/ h[2] = "out" /\ Goto(h, "close") /\ pc[h] = "setStatus"
  BY <1>1 DEF Lapse, SetOnlineUnanswered, ReadFriendsFails, SetOfflineFails, TellNobody,
              InPlaces
<1>10. found[h] = NoUser
  BY <1>1 DEF Lapse, SetOnlineUnanswered, ReadFriendsFails, SetOfflineFails, TellNobody,
              TypeInv,
              Linked
<1> HIDE DEF c
<1>11. Linked' /\ pc' \in [Handlers -> PCs]
  <2>1. CASE pc' = pc
    BY <1>4, <2>1 DEF TypeInv, TypeOK, Linked, Active, presenceVars
  <2>2. CASE \E p \in InPlaces : h[2] = "in" /\ Goto(h, p) /\ p # "notify"
    BY <1>1, <1>3, <1>4, <1>10, <2>2, HandlerMoves DEF presenceVars, c
  <2>3. CASE h[2] = "out" /\ Goto(h, "close") /\ pc[h] = "setStatus"
    BY <1>1, <1>3, <1>4, <1>10, <2>3, HandlerMoves DEF presenceVars, OutPlaces, c
  <2> QED
    BY <1>9, <2>1, <2>2, <2>3
<1>12. TypeOK'
  <2>4. status' \in [Users -> Statuses]
    BY <1>6 DEF TypeInv, TypeOK, Statuses
  <2>5. list' \in [Conns -> [Users -> Statuses]]
    BY <1>7 DEF TypeInv, TypeOK
  <2>1. status' \in [Users -> Statuses] /\ list' \in [Conns -> [Users -> Statuses]]
    BY <2>4, <2>5
  <2>2. tell' \in [Handlers -> SUBSET Users] /\ spoiled' \subseteq Users
    BY <1>3, <1>5, <1>8 DEF TypeInv, TypeOK
  <2>3. faults' \in 0..MaxFaults
    BY <1>4, FaultCounts
  <2> QED
    BY <1>4, <1>11, <2>1, <2>2, <2>3 DEF TypeInv, TypeOK, presenceVars
<1> QED
  BY <1>2, <1>3, <1>4, <1>5, <1>6, <1>7, <1>8, <1>9, <1>11, <1>12 DEF TypeInv, Goto, c

\* The other handlers' reads and writes of a user's record.
OthersStep(u, s) == CopyRecord(u) \/ SaveCopy(u, s) \/ DropCopy(u, s)

LEMMA OthersTypes ==
  ASSUME TypeInv, NEW u \in Users, NEW s \in Statuses, OthersStep(u, s)
  PROVE  TypeInv'
<1>1. UNCHANGED <<presenceVars, accepts, table, UsrId, acct, handlers, view, kicked, reset,
                  overlap>>
  BY DEF OthersStep, CopyRecord, SaveCopy, DropCopy, history
<1>2. status' = status \/ status' = [status EXCEPT ![u] = s]
  BY DEF OthersStep, CopyRecord, SaveCopy, DropCopy
<1>3. copies' \subseteq copies \cup {<<u, status[u]>>} /\ spoiled' \subseteq spoiled \cup {u}
  BY DEF OthersStep, CopyRecord, SaveCopy, DropCopy, history
<1>4. faults' \in 0..MaxFaults
  <2>1. UNCHANGED faults \/ Fault
    BY DEF OthersStep, CopyRecord, SaveCopy, DropCopy, history
  <2> QED
    BY <2>1, FaultCounts
<1>5. status \in [Users -> Statuses] /\ copies \subseteq Users \X Statuses /\ spoiled \subseteq Users
  BY DEF TypeInv, TypeOK
<1>6. /\ status' \in [Users -> Statuses] /\ copies' \subseteq Users \X Statuses
      /\ spoiled' \subseteq Users
  BY <1>2, <1>3, <1>5
<1>7. TypeOK'
  BY <1>1, <1>4, <1>6 DEF TypeInv, TypeOK, presenceVars, handlers
<1>8. Linked'
  BY <1>1 DEF TypeInv, Linked, Active, presenceVars, handlers
<1> QED
  BY <1>7, <1>8 DEF TypeInv

\* The steps of the server, one by one.
LEMMA SessionSteps ==
  ASSUME [Next]_vars
  PROVE  \/ UNCHANGED vars
         \/ \E c \in Conns, u \in Users : LoginStart(c, u)
         \/ \E c \in Conns : \/ CheckPassword(c) \/ SetOnline(c) \/ LookUpOld(c)
                             \/ Kick(c) \/ KickFails(c) \/ LoginRefused(c) \/ ReadFriends(c)
                             \/ Enter(c) \/ Reply(c) \/ ReplyFails(c) \/ Record(c)
         \/ \E c \in Conns : LogoutStart(c) \/ Delete(c) \/ SetOffline(c) \/ Close(c)
         \/ \E h \in Handlers : \/ \E f \in Users : TryFriend(h, f)
                                \/ NotifyMyStatus(h) \/ NotifyDone(h)
         \/ \E c \in Conns : NewConn(c) \/ PeerCloses(c) \/ PeerResets(c)
         \/ \E h \in Handlers : Lapse(h)
         \/ \E u \in Users, s \in Statuses : OthersStep(u, s)
         \/ Restart /\ (UNCHANGED faults \/ Fault)
<1>1. \A h : Notify(h) => \/ \E f \in Users : TryFriend(h, f)
                          \/ NotifyMyStatus(h) \/ NotifyDone(h)
                          \/ Restart /\ UNCHANGED faults
  BY DEF Notify, NotifyPanics
<1>2. \A c \in Conns : <<c, "in">> \in Handlers /\ <<c, "out">> \in Handlers
  BY HandlerKinds
<1>3. \A c \in Conns :
        RedisError(c) => LoginRefused(c) \/ (\E h \in Handlers : Lapse(h)) \/ (Restart /\ Fault)
  <2> SUFFICES ASSUME NEW c \in Conns, RedisError(c)
               PROVE  LoginRefused(c) \/ (\E h \in Handlers : Lapse(h)) \/ (Restart /\ Fault)
    OBVIOUS
  <2>1. /\ <<c, "in">>[1] = c /\ <<c, "in">>[2] = "in"
        /\ <<c, "out">>[1] = c /\ <<c, "out">>[2] = "out"
    OBVIOUS
  <2>2. (SetOnlineUnanswered(c) \/ ReadFriendsFails(c)) => Lapse(<<c, "in">>)
    BY <2>1 DEF Lapse
  <2>3. SetOfflineFails(c) => Lapse(<<c, "out">>)
    BY <2>1 DEF Lapse
  <2>4. \A h : TellNobody(h) => Lapse(h)
    BY DEF Lapse
  <2>5. ReadGroupsPanics(c) => Restart /\ Fault
    BY DEF ReadGroupsPanics
  <2> QED
    BY <1>2, <2>2, <2>3, <2>4, <2>5 DEF RedisError
<1>4. \A u \in Users : CopyRecord(u) \/ OtherSaves(u) => \E s \in Statuses : OthersStep(u, s)
  BY DEF OtherSaves, OthersStep, Statuses
<1>5. /\ \A c \in Conns : LoginStep(c) =>
            \/ CheckPassword(c) \/ SetOnline(c) \/ LookUpOld(c)
            \/ Kick(c) \/ KickFails(c) \/ ReadFriends(c)
            \/ Enter(c) \/ Reply(c) \/ ReplyFails(c) \/ Record(c) \/ Notify(<<c, "in">>)
      /\ \A c \in Conns : LogoutStep(c) =>
            \/ LogoutStart(c) \/ Notify(<<c, "out">>)
            \/ Delete(c) \/ SetOffline(c) \/ Close(c)
  BY DEF LoginStep, LogoutStep
<1>6. \/ UNCHANGED vars \/ Killed
      \/ \E c \in Conns, u \in Users : LoginStart(c, u)
      \/ \E u \in Users : CopyRecord(u) \/ OtherSaves(u)
      \/ \E c \in Conns : \/ LoginStep(c) \/ LogoutStep(c) \/ RedisError(c)
                          \/ NewConn(c) \/ PeerCloses(c) \/ PeerResets(c)
  BY DEF Next
<1>7. CASE UNCHANGED vars \/ Killed
  BY <1>7 DEF Killed
<1>8. CASE \E u \in Users : CopyRecord(u) \/ OtherSaves(u)
  BY <1>4, <1>8
<1>9. ASSUME NEW c \in Conns, LoginStep(c) \/ LogoutStep(c)
      PROVE  \/ \E d \in Conns : \/ CheckPassword(d) \/ SetOnline(d) \/ LookUpOld(d)
                                 \/ Kick(d) \/ KickFails(d) \/ ReadFriends(d)
                                 \/ Enter(d) \/ Reply(d) \/ ReplyFails(d) \/ Record(d)
             \/ \E d \in Conns : LogoutStart(d) \/ Delete(d) \/ SetOffline(d) \/ Close(d)
             \/ \E h \in Handlers : \/ \E f \in Users : TryFriend(h, f)
                                    \/ NotifyMyStatus(h) \/ NotifyDone(h)
             \/ Restart /\ UNCHANGED faults
  BY <1>1, <1>2, <1>5, <1>9
<1> QED
  BY <1>3, <1>6, <1>7, <1>8, <1>9

LEMMA SessionTypeStep ==
  ASSUME TypeInv, [Next]_vars
  PROVE  TypeInv'
<1>1. CASE UNCHANGED vars
  BY <1>1 DEF vars, presenceVars, handlers, history, TypeInv, TypeOK, Linked, Active
<1> QED
  BY <1>1, SessionSteps, LoginStartTypes, LoginTypes, LogoutTypes, NotifyTypes, ConnTypes,
     RestartTypes, LapseTypes, OthersTypes

\* Every variable has its type, whatever the handlers' order.
THEOREM SessionTypeCorrect == Spec => []TypeOK
<1>1. TypeInv => TypeOK
  BY DEF TypeInv
<1>2. TypeInv /\ [Next]_vars => TypeInv'
  BY SessionTypeStep
<1> QED
  BY <1>1, <1>2, SessionTypeInit, PTL DEF Spec

-----------------------------------------------------------------------------
(* The invariants.  Of an account whose handlers never ran side by side,   *)
(* one handler at most is active, and its place in the code says how far   *)
(* the stored status, the table and the friends' devices have got.         *)

\* Handlers that are active together have been noted, and a session in the
\* table is of a connection that gave its account.
OverlapInv ==
    /\ \A g, h \in Handlers :
          g # h /\ Active(g) /\ Active(h) /\ acct[g[1]] \in Users /\ acct[h[1]] \in Users
             => <<acct[g[1]], acct[h[1]]>> \in overlap
    /\ \A u \in Users : IsOnline(u) => acct[onlineUsers[u]] = u

Agrees(u) == status[u] = "online" <=> IsOnline(u)

AgreesAt(h, u) ==
    /\ pc[h] \in {"login", "close"} => Agrees(u)
    /\ pc[h] = "setStatus" => ~IsOnline(u) /\ (h[2] = "in" => Agrees(u))
    /\ pc[h] \in {"lookup", "kick", "friends", "enter", "reply", "record", "notify", "delete"}
          => status[u] = "online"
    /\ pc[h] = "kick" => IsOnline(u) /\ seen[h[1]] = onlineUsers[u]
    /\ pc[h] \in {"reply", "record", "notify", "delete"} => onlineUsers[u] = h[1]

AgreeOf(u) ==
    Undisturbed(u) => /\ Quiet(u) => Agrees(u)
                      /\ \A h \in Handlers : acct[h[1]] = u => AgreesAt(h, u)

\* A connected device that believes it is logged in to u.
Believes(c, u) == c \in open \ kicked /\ pc[<<c, "in">>] = "done" /\ acct[c] = u

ReachOf(u) ==
    Undisturbed(u) =>
        /\ \A c \in Conns : Believes(c, u) => onlineUsers[u] = c
        /\ \A d \in Conns : acct[d] = u /\ pc[<<d, "in">>] \in {"friends", "enter"}
                               => \A c \in Conns : ~Believes(c, u)

\* Two friends whose handlers never met.
Apart(u, f) ==
    /\ u \in FriendsOf[f] /\ f \in FriendsOf[u]
    /\ Undisturbed(u) /\ Undisturbed(f) /\ <<u, f>> \notin overlap

\* d is the device of f that shows the status of its friends.
Shows(d, f) == d \in open /\ onlineUsers[f] = d /\ pc[<<d, "in">>] = "done"

\* What that device shows of u while handler h of u is under way.
ShownAt(h, u, f, d) ==
    /\ pc[h] \in {"login", "kick", "close"} => view[d][u] = status[u]
    /\ pc[h] = "lookup" /\ IsOnline(u) => view[d][u] = status[u]
    /\ pc[h] \in {"setStatus", "delete"} => view[d][u] = "offline"
    /\ pc[h] = "setStatus" /\ h[2] = "in" => view[d][u] = status[u]
    /\ pc[h] = "notify" => f \in tell[h] \/ found[h] = f \/ view[d][u] = NewStatus(h)

\* What a login of f has read of u.
ReadAt(c, u) ==
    /\ pc[<<c, "in">>] \in {"enter", "reply"} => list[c][u] = status[u]
    /\ pc[<<c, "in">>] \in {"record", "notify"} => view[c][u] = status[u]

SeeOf(u, f) ==
    Apart(u, f) =>
        /\ \A d \in Conns : Shows(d, f) =>
              /\ Quiet(u) => view[d][u] = status[u]
              /\ \A h \in Handlers : acct[h[1]] = u => ShownAt(h, u, f, d)
        /\ \A c \in Conns : acct[c] = f /\ Quiet(u) => ReadAt(c, u)

AccountInv == \A u \in Users : AgreeOf(u) /\ ReachOf(u)
SeeInv == \A u, f \in Users : SeeOf(u, f)

SessionInv == TypeInv /\ OverlapInv /\ AccountInv /\ SeeInv

-----------------------------------------------------------------------------
(* Who is touched by a step.                                               *)

\* A step of handler h, which serves acct'[h[1]].
StepOf(h) ==
    \/ \E u \in Users : LoginStart(h[1], u) /\ h[2] = "in"
    \/ /\ h[2] = "in"
       /\ \/ CheckPassword(h[1]) \/ SetOnline(h[1]) \/ LookUpOld(h[1])
          \/ Kick(h[1]) \/ KickFails(h[1]) \/ LoginRefused(h[1]) \/ ReadFriends(h[1])
          \/ Enter(h[1]) \/ Reply(h[1]) \/ ReplyFails(h[1]) \/ Record(h[1])
    \/ /\ h[2] = "out"
       /\ LogoutStart(h[1]) \/ Delete(h[1]) \/ SetOffline(h[1]) \/ Close(h[1])
    \/ \E f \in Users : TryFriend(h, f)
    \/ NotifyMyStatus(h)
    \/ NotifyDone(h)
    \/ Lapse(h)

\* What a step of h leaves alone.
Frame(h) ==
    /\ \A g \in Handlers : g # h => pc'[g] = pc[g] /\ tell'[g] = tell[g] /\ found'[g] = found[g]
    /\ \A c \in Conns : c # h[1] => acct'[c] = acct[c]
    /\ \/ acct'[h[1]] = acct[h[1]]
       \/ /\ acct[h[1]] = NoUser
          /\ pc[<<h[1], "in">>] = "idle" /\ pc[<<h[1], "out">>] = "idle"
    /\ \A c \in Conns : c # h[1] => seen'[c] = seen[c] /\ list'[c] = list[c]
    /\ \A v \in Users : v # acct'[h[1]] => status'[v] = status[v]
                                           /\ onlineUsers'[v] = onlineUsers[v]
    /\ \A c \in Conns, v \in Users :
          v # acct'[h[1]] /\ c # h[1] => view'[c][v] = view[c][v]
    /\ open' = open /\ kicked \subseteq kicked'
    /\ overlap \subseteq overlap' /\ spoiled \subseteq spoiled'

\* Who is active beside h has been noted.
Noted(h) ==
    \A g \in Handlers :
        g # h /\ Active(g) /\ acct[g[1]] \in Users /\ acct'[h[1]] \in Users
          => <<acct[g[1]], acct'[h[1]]>> \in overlap' /\ <<acct'[h[1]], acct[g[1]]>> \in overlap'

\* Nothing that is about account u changes.
Unmoved(u) ==
    /\ Undisturbed(u)' => Undisturbed(u)
    /\ status'[u] = status[u] /\ onlineUsers'[u] = onlineUsers[u]
    /\ \A g \in Handlers :
          acct'[g[1]] = u => /\ acct[g[1]] = u /\ pc'[g] = pc[g]
                             /\ tell'[g] = tell[g] /\ found'[g] = found[g]
                             /\ seen'[g[1]] = seen[g[1]] /\ list'[g[1]] = list[g[1]]
    /\ \A g \in Handlers : acct[g[1]] = u /\ Active(g) => acct'[g[1]] = u
    /\ \A c \in Conns : acct'[c] = u => /\ (c \in open' => c \in open)
                                       /\ (c \in kicked => c \in kicked')

LEMMA FrameHolds ==
  ASSUME TypeInv, NEW h \in Handlers, StepOf(h)
  PROVE  Frame(h)
<1> DEFINE c == h[1]
           u == acct'[h[1]]
<1>1. /\ c \in Conns /\ h \in Handlers
      /\ h[2] = "in" => h = <<c, "in">>
      /\ h[2] = "out" => h = <<c, "out">>
      /\ h[2] \in {"in", "out"}
  BY HandlerKinds
<1>2. /\ pc \in [Handlers -> PCs] /\ acct \in [Conns -> Users \cup {NoUser}]
      /\ seen \in [Conns -> Conns \cup {NoConn}] /\ list \in [Conns -> [Users -> Statuses]]
      /\ tell \in [Handlers -> SUBSET Users] /\ found \in [Handlers -> Users \cup {NoUser}]
      /\ status \in [Users -> Statuses] /\ view \in [Conns -> [Users -> Statuses]]
      /\ onlineUsers \in [Users -> Conns \cup {NoConn}]
  BY DEF TypeInv, TypeOK
<1>3. CASE h[2] = "in" /\ \E v \in Users : LoginStart(c, v)
  <2>1. PICK v \in Users : LoginStart(c, v)
    BY <1>3
  <2>2. /\ acct' = [acct EXCEPT ![c] = v] /\ acct[c] = NoUser
        /\ pc[<<c, "in">>] = "idle" /\ pc[<<c, "out">>] = "idle"
        /\ pc' = [pc EXCEPT ![h] = "login"] /\ overlap \subseteq overlap'
        /\ UNCHANGED <<presenceVars, seen, list, tell, found, status, view, kicked, spoiled>>
    BY <2>1, <1>1, <1>3 DEF LoginStart, Goto, NoteOverlap
  <2> QED
    BY <1>1, <1>2, <2>2 DEF Frame, presenceVars
<1>4. CASE h[2] = "in" /\ \/ CheckPassword(c) \/ SetOnline(c) \/ LookUpOld(c)
                          \/ Kick(c) \/ KickFails(c) \/ LoginRefused(c) \/ ReadFriends(c)
                          \/ Enter(c) \/ Reply(c) \/ ReplyFails(c) \/ Record(c)
  <2>1. PICK p : pc' = [pc EXCEPT ![h] = p]
    BY <1>1, <1>4 DEF CheckPassword, SetOnline, LookUpOld, Kick, KickFails, LoginRefused,
                      ReadFriends, Enter,
                      Reply, ReplyFails, Record, Goto
  <2>2. /\ UNCHANGED <<open, acct, found, overlap>> /\ kicked \subseteq kicked'
        /\ spoiled \subseteq spoiled'
    BY <1>4 DEF CheckPassword, SetOnline, LookUpOld, Kick, KickFails, LoginRefused,
                ReadFriends, Enter,
                Reply, ReplyFails, Record, presenceVars, AddOnlineUser, history
  <2>3. /\ seen' = seen \/ \E x : seen' = [seen EXCEPT ![c] = x]
        /\ list' = list \/ \E x : list' = [list EXCEPT ![c] = x]
        /\ tell' = tell \/ \E x : tell' = [tell EXCEPT ![h] = x]
    <3>1. seen' = seen \/ \E x : seen' = [seen EXCEPT ![c] = x]
      BY <1>4 DEF CheckPassword, SetOnline, LookUpOld, Kick, KickFails, LoginRefused,
                  ReadFriends, Enter,
                  Reply, ReplyFails, Record
    <3>2. list' = list \/ \E x : list' = [list EXCEPT ![c] = x]
      BY <1>4 DEF CheckPassword, SetOnline, LookUpOld, Kick, KickFails, LoginRefused,
                  ReadFriends, Enter,
                  Reply, ReplyFails, Record
    <3>3. tell' = tell \/ \E x : tell' = [tell EXCEPT ![h] = x]
      BY <1>1, <1>4 DEF CheckPassword, SetOnline, LookUpOld, Kick, KickFails, LoginRefused,
                        ReadFriends, Enter,
                        Reply, ReplyFails, Record
    <3> QED
      BY <3>1, <3>2, <3>3
  <2>4. /\ status' = status \/ status' = [status EXCEPT ![acct[c]] = "online"]
        /\ onlineUsers' = onlineUsers \/ onlineUsers' = [onlineUsers EXCEPT ![acct[c]] = c]
        /\ view' = view \/ view' = [view EXCEPT ![c] = list[c]]
    BY <1>4 DEF CheckPassword, SetOnline, LookUpOld, Kick, KickFails, LoginRefused,
                ReadFriends, Enter,
                Reply, ReplyFails, Record, presenceVars, AddOnlineUser
  <2>5. \A g \in Handlers : g # h => pc'[g] = pc[g] /\ tell'[g] = tell[g]
    BY <1>2, <2>1, <2>3
  <2>6. \A d \in Conns : d # c => seen'[d] = seen[d] /\ list'[d] = list[d] /\ view'[d] = view[d]
    BY <1>2, <2>3, <2>4
  <2>7. \A v \in Users : v # u => status'[v] = status[v] /\ onlineUsers'[v] = onlineUsers[v]
    BY <1>2, <2>2, <2>4
  <2> QED
    BY <2>2, <2>5, <2>6, <2>7 DEF Frame
<1>5. CASE h[2] = "out" /\ (LogoutStart(c) \/ Delete(c) \/ SetOffline(c) \/ Close(c))
  <2>1. \E p : pc' = [pc EXCEPT ![h] = p]
    BY <1>1, <1>5 DEF LogoutStart, Delete, SetOffline, Close, Goto
  <2>2. UNCHANGED <<open, acct, seen, list, found, view, kicked, spoiled>>
    BY <1>5 DEF LogoutStart, Delete, SetOffline, Close, DelOnlineUser, presenceVars, history
  <2>3. overlap \subseteq overlap'
    BY <1>5 DEF LogoutStart, NoteOverlap, Delete, SetOffline, Close, history
  <2>4. tell' = tell \/ \E x : tell' = [tell EXCEPT ![h] = x]
    BY <1>1, <1>5 DEF LogoutStart, Delete, SetOffline, Close
  <2>5. \A d \in Conns : pc[<<d, "out">>] \in {"delete", "setStatus"} => UsrId[d] = acct[d]
    BY DEF TypeInv, Linked
  <2>6. (Delete(c) \/ SetOffline(c)) => UsrId[c] = acct[c]
    BY <1>1, <2>5 DEF Delete, SetOffline
  <2>7. /\ status' = status \/ status' = [status EXCEPT ![acct[c]] = "offline"]
        /\ onlineUsers' = onlineUsers \/ onlineUsers' = [onlineUsers EXCEPT ![acct[c]] = NoConn]
    BY <1>5, <2>6 DEF LogoutStart, Delete, SetOffline, Close, DelOnlineUser, presenceVars
  <2>8. \A g \in Handlers : g # h => pc'[g] = pc[g] /\ tell'[g] = tell[g]
    BY <1>2, <2>1, <2>4
  <2>9. \A v \in Users : v # u => status'[v] = status[v] /\ onlineUsers'[v] = onlineUsers[v]
    BY <1>2, <2>2, <2>7
  <2> QED
    BY <2>2, <2>3, <2>8, <2>9 DEF Frame
<1>6. CASE (\E f \in Users : TryFriend(h, f)) \/ NotifyMyStatus(h) \/ NotifyDone(h)
  <2>1. /\ UNCHANGED <<open, onlineUsers, acct, seen, list, status, kicked, overlap, spoiled>>
    BY <1>6 DEF TryFriend, NotifyMyStatus, NotifyDone, presenceVars, history
  <2>2. pc' = pc \/ \E p : pc' = [pc EXCEPT ![h] = p]
    BY <1>6 DEF TryFriend, NotifyMyStatus, NotifyDone, Goto
  <2>3. tell' = tell \/ \E x : tell' = [tell EXCEPT ![h] = x]
    BY <1>6 DEF TryFriend, NotifyMyStatus, NotifyDone
  <2>4. found' = found \/ \E x : found' = [found EXCEPT ![h] = x]
    BY <1>6 DEF TryFriend, NotifyMyStatus, NotifyDone
  <2>5. view' = view \/ \E d, x : view' = [view EXCEPT ![d][acct[c]] = x]
    BY <1>6 DEF TryFriend, NotifyMyStatus, NotifyDone
  <2>6. \A d \in Conns, v \in Users : v # u => view'[d][v] = view[d][v]
    BY <1>2, <2>1, <2>5
  <2>7. \A g \in Handlers : g # h => pc'[g] = pc[g] /\ tell'[g] = tell[g] /\ found'[g] = found[g]
    BY <1>2, <2>2, <2>3, <2>4
  <2> QED
    BY <2>1, <2>6, <2>7 DEF Frame
<1>7. CASE Lapse(h)
  <2>1. /\ UNCHANGED <<presenceVars, acct, seen, found, view, kicked, overlap>>
        /\ status' = status \/ status' = [status EXCEPT ![acct[c]] = "online"]
        /\ list' = list \/ \E x : list' = [list EXCEPT ![c] = x]
        /\ tell' = tell \/ \E x : tell' = [tell EXCEPT ![h] = x]
        /\ pc' = pc \/ \E p : pc' = [pc EXCEPT ![h] = p]
        /\ spoiled \subseteq spoiled'
    BY <1>7, LapseTypes
  <2>2. \A g \in Handlers : g # h => pc'[g] = pc[g] /\ tell'[g] = tell[g]
    BY <1>2, <2>1
  <2>3. \A d \in Conns : d # c => list'[d] = list[d]
    BY <1>2, <2>1
  <2>4. \A v \in Users : v # u => status'[v] = status[v]
    BY <1>2, <2>1
  <2> QED
    BY <2>1, <2>2, <2>3, <2>4 DEF Frame, presenceVars
<1> QED
  BY <1>3, <1>4, <1>5, <1>6, <1>7 DEF StepOf

\* A step of h is noted with the handlers active beside it.
LEMMA OverlapsAreNoted ==
  ASSUME TypeInv, OverlapInv, NEW h \in Handlers, StepOf(h)
  PROVE  Noted(h) /\ OverlapInv'
<1> DEFINE c == h[1]
<1>1. Frame(h)
  BY FrameHolds
<1>2. /\ c \in Conns
      /\ h[2] = "in" => h = <<c, "in">>
      /\ h[2] = "out" => h = <<c, "out">>
      /\ \A g \in Handlers : /\ g[1] \in Conns
                             /\ (g = <<g[1], "in">> \/ g = <<g[1], "out">>)
  BY HandlerKinds
<1>3. \/ NoteOverlap(acct'[c])
      \/ Active(h) /\ UNCHANGED <<acct, overlap>>
  <2>1. CASE \E v \in Users : LoginStart(c, v)
    <3>1. PICK v \in Users : acct' = [acct EXCEPT ![c] = v] /\ NoteOverlap(v)
      BY <2>1 DEF LoginStart
    <3>2. acct'[c] = v
      BY <1>2, <3>1 DEF TypeInv, TypeOK
    <3> QED
      BY <3>1, <3>2
  <2>2. CASE h[2] = "in" /\ \/ CheckPassword(c) \/ SetOnline(c) \/ LookUpOld(c)
                            \/ Kick(c) \/ KickFails(c) \/ LoginRefused(c) \/ ReadFriends(c)
                            \/ Enter(c) \/ Reply(c) \/ ReplyFails(c) \/ Record(c)
    <3>1. UNCHANGED <<acct, overlap>>
      BY <2>2 DEF CheckPassword, SetOnline, LookUpOld, Kick, KickFails, LoginRefused,
                  ReadFriends, Enter,
                  Reply, ReplyFails, Record, history
    <3>2. Active(h)
      BY <1>2, <2>2 DEF CheckPassword, SetOnline, LookUpOld, Kick, KickFails, LoginRefused,
                        ReadFriends, Enter,
                  Reply, ReplyFails, Record, Active, AtRest
    <3> QED
      BY <3>1, <3>2
  <2>3. CASE LogoutStart(c)
    BY <2>3 DEF LogoutStart
  <2>4. CASE h[2] = "out" /\ (Delete(c) \/ SetOffline(c) \/ Close(c))
    <3>1. UNCHANGED <<acct, overlap>>
      BY <2>4 DEF Delete, SetOffline, Close, history
    <3>2. Active(h)
      BY <1>2, <2>4 DEF Delete, SetOffline, Close, Active, AtRest
    <3> QED
      BY <3>1, <3>2
  <2>5. CASE (\E f \in Users : TryFriend(h, f)) \/ NotifyMyStatus(h) \/ NotifyDone(h)
    BY <2>5 DEF TryFriend, NotifyMyStatus, NotifyDone, history, Active, AtRest
  <2>6. CASE Lapse(h)
    BY <2>6, LapseTypes
  <2> QED
    BY <2>1, <2>2, <2>3, <2>4, <2>5, <2>6 DEF StepOf
<1>4. Noted(h)
  <2>1. CASE NoteOverlap(acct'[c])
    <3> SUFFICES ASSUME NEW g \in Handlers, g # h, Active(g), acct[g[1]] \in Users,
                        acct'[c] \in Users
                 PROVE  /\ <<acct[g[1]], acct'[c]>> \in overlap'
                        /\ <<acct'[c], acct[g[1]]>> \in overlap'
      BY DEF Noted
    <3>1. acct[g[1]] \in Running
      BY DEF Running
    <3> HIDE DEF c
    <3> QED
      BY <2>1, <3>1 DEF NoteOverlap
  <2>2. CASE Active(h) /\ UNCHANGED <<acct, overlap>>
    BY <2>2 DEF Noted, OverlapInv
  <2> QED
    BY <1>3, <2>1, <2>2
<1>5. ASSUME NEW g \in Handlers, g # h
      PROVE  /\ Active(g)' <=> Active(g)
             /\ Active(g) => acct'[g[1]] = acct[g[1]]
  BY <1>1, <1>2, <1>5 DEF Frame, Active, AtRest
<1>6. ASSUME NEW g \in Handlers, NEW k \in Handlers, g # k, Active(g)', Active(k)',
             acct'[g[1]] \in Users, acct'[k[1]] \in Users
      PROVE  <<acct'[g[1]], acct'[k[1]]>> \in overlap'
  <2>1. CASE g = h
    BY <1>4, <1>5, <1>6, <2>1 DEF Noted
  <2>2. CASE k = h
    BY <1>4, <1>5, <1>6, <2>2 DEF Noted
  <2>3. CASE g # h /\ k # h
    BY <1>1, <1>5, <1>6, <2>3 DEF OverlapInv, Frame
  <2> QED
    BY <2>1, <2>2, <2>3
<1>7. \/ onlineUsers' = onlineUsers
      \/ acct' = acct /\ onlineUsers' = [onlineUsers EXCEPT ![acct[c]] = c]
      \/ \E v : onlineUsers' = [onlineUsers EXCEPT ![v] = NoConn]
  <2>1. CASE Enter(c)
    BY <2>1 DEF Enter, AddOnlineUser
  <2>2. CASE Delete(c)
    BY <2>2 DEF Delete, DelOnlineUser
  <2>3. CASE ~Enter(c) /\ ~Delete(c)
    BY <2>3, LapseTypes DEF StepOf, LoginStart, CheckPassword, SetOnline, LookUpOld, Kick,
                            KickFails, LoginRefused,
                ReadFriends, Reply, ReplyFails, Record, LogoutStart, SetOffline, Close,
                TryFriend, NotifyMyStatus, NotifyDone, presenceVars
  <2> QED
    BY <2>1, <2>2, <2>3
<1>8. ASSUME NEW v \in Users, onlineUsers'[v] # NoConn PROVE acct'[onlineUsers'[v]] = v
  <2>1. CASE onlineUsers'[v] = onlineUsers[v]
    <3>1. onlineUsers[v] \in Conns /\ acct[onlineUsers[v]] = v
      BY <1>8, <2>1 DEF OverlapInv, IsOnline, GetOnlineUserByID, TypeInv, TypeOK
    <3>2. v # NoUser
      BY SessionAssumption
    <3>3. acct'[onlineUsers[v]] = acct[onlineUsers[v]]
      BY <1>1, <3>1, <3>2 DEF Frame
    <3> QED
      BY <2>1, <3>1, <3>3
  <2>2. CASE acct' = acct /\ onlineUsers' = [onlineUsers EXCEPT ![acct[c]] = c] /\ v = acct[c]
    BY <2>2 DEF TypeInv, TypeOK
  <2> QED
    BY <1>7, <1>8, <2>1, <2>2 DEF TypeInv, TypeOK
<1> QED
  BY <1>4, <1>6, <1>8 DEF OverlapInv, IsOnline, GetOnlineUserByID

\* What a step of a handler leaves of the other accounts, and that it is
\* alone if its own account is undisturbed.
LEMMA OthersUnmoved ==
  ASSUME TypeInv, NEW h \in Handlers, Frame(h), NEW u \in Users, u # acct'[h[1]]
  PROVE  Unmoved(u) /\ \A c \in Conns, v \in Users :
                          acct'[c] = u /\ v # acct'[h[1]] => view'[c][v] = view[c][v]
<1>1. h[1] \in Conns /\ \A g \in Handlers : g[1] \in Conns
                                           /\ (g = <<g[1], "in">> \/ g = <<g[1], "out">>)
  BY HandlerKinds
<1>2. ASSUME NEW g \in Handlers, acct'[g[1]] = u
      PROVE  /\ g[1] # h[1] /\ g # h /\ acct[g[1]] = u /\ pc'[g] = pc[g]
             /\ tell'[g] = tell[g] /\ found'[g] = found[g]
             /\ seen'[g[1]] = seen[g[1]] /\ list'[g[1]] = list[g[1]]
  BY <1>1, <1>2 DEF Frame
<1>3. ASSUME NEW g \in Handlers, acct[g[1]] = u PROVE acct'[g[1]] = u
  BY <1>1, <1>3, SessionAssumption DEF Frame
<1> QED
  BY <1>2, <1>3 DEF Frame, Unmoved, Undisturbed

LEMMA AloneInItsAccount ==
  ASSUME TypeInv, NEW h \in Handlers, Frame(h), Noted(h), NEW u \in Users, u = acct'[h[1]],
         Undisturbed(u)'
  PROVE  /\ Undisturbed(u)
         /\ \A g \in Handlers : g # h /\ acct[g[1]] = u => ~Active(g)
         /\ \A g \in Handlers : g # h /\ acct'[g[1]] = u => ~Active(g)'
         /\ ~Active(h) => Quiet(u)
<1>1. \A g \in Handlers : g[1] \in Conns /\ (g = <<g[1], "in">> \/ g = <<g[1], "out">>)
  BY HandlerKinds
<1>2. \A g \in Handlers : g # h /\ acct[g[1]] = u => ~Active(g)
  BY DEF Noted, Undisturbed
<1>3. ASSUME NEW g \in Handlers, g # h, acct'[g[1]] = u PROVE ~Active(g)'
  <2>1. pc'[g] = pc[g]
    BY <1>3 DEF Frame
  <2>2. CASE acct[g[1]] = u
    BY <1>2, <1>3, <2>1, <2>2 DEF Active
  <2>3. CASE acct[g[1]] # u
    <3>1. pc[g] = "idle"
      BY <1>1, <1>3, <2>3 DEF Frame
    <3> QED
      BY <2>1, <3>1 DEF Active, AtRest
  <2> QED
    BY <2>2, <2>3
<1>4. Undisturbed(u)
  BY DEF Frame, Undisturbed
<1> QED
  BY <1>2, <1>3, <1>4 DEF Quiet

\* A connection that comes or goes belongs to no account's handler.
LEMMA ConnsMoveNobody ==
  ASSUME TypeInv, OverlapInv, NEW c \in Conns, NewConn(c) \/ PeerCloses(c) \/ PeerResets(c)
  PROVE  /\ OverlapInv'
         /\ overlap \subseteq overlap'
         /\ \A u \in Users : /\ Unmoved(u)
                             /\ \A d \in Conns : acct'[d] = u => view'[d] = view[d]
<1>1. CASE NewConn(c)
  <2>1. /\ open' = open \cup {c} /\ onlineUsers' = onlineUsers
        /\ \A u \in Users : onlineUsers[u] # c
        /\ acct' = [acct EXCEPT ![c] = NoUser] /\ kicked' = kicked \ {c}
        /\ view' = [view EXCEPT ![c] = Unknown]
        /\ pc' = [pc EXCEPT ![<<c, "in">>] = "idle", ![<<c, "out">>] = "idle"]
        /\ UNCHANGED <<seen, list, tell, found, status, overlap, spoiled>>
        /\ ~Active(<<c, "in">>) /\ ~Active(<<c, "out">>)
    BY <1>1 DEF NewConn, Connect, history
  <2>2. /\ acct'[c] = NoUser /\ \A d \in Conns : d # c => acct'[d] = acct[d]
        /\ \A d \in Conns : d # c => view'[d] = view[d]
    BY <2>1 DEF TypeInv, TypeOK
  <2>3. /\ \A g \in Handlers : g[1] # c => pc'[g] = pc[g]
        /\ \A g \in Handlers : g[1] = c => ~Active(g) /\ ~Active(g)'
    <3>1. ASSUME NEW g \in Handlers, g[1] # c PROVE pc'[g] = pc[g]
      BY <2>1, <3>1 DEF TypeInv, TypeOK
    <3>2. pc'[<<c, "in">>] = "idle" /\ pc'[<<c, "out">>] = "idle"
      BY <2>1, HandlerKinds DEF TypeInv, TypeOK
    <3>3. ASSUME NEW g \in Handlers, g[1] = c PROVE ~Active(g) /\ pc'[g] = "idle"
      BY <2>1, <3>2, <3>3, HandlerKinds
    <3> QED
      BY <3>1, <3>3 DEF Active, AtRest
  <2>4. \A g \in Handlers : g[1] \in Conns
    BY HandlerKinds
  <2>5. OverlapInv'
    <3>1. \A g, h \in Handlers :
            g # h /\ Active(g)' /\ Active(h)' /\ acct'[g[1]] \in Users /\ acct'[h[1]] \in Users
               => <<acct'[g[1]], acct'[h[1]]>> \in overlap'
      <4>1. ASSUME NEW g \in Handlers, Active(g)' PROVE Active(g) /\ acct'[g[1]] = acct[g[1]]
        BY <2>2, <2>3, <2>4, <4>1 DEF Active
      <4> QED
        BY <2>1, <4>1 DEF OverlapInv
    <3>2. \A u \in Users : onlineUsers'[u] # NoConn => acct'[onlineUsers'[u]] = u
      BY <2>1, <2>2 DEF OverlapInv, IsOnline, GetOnlineUserByID, TypeInv, TypeOK
    <3> QED
      BY <3>1, <3>2 DEF OverlapInv, IsOnline, GetOnlineUserByID
  <2>6. ASSUME NEW u \in Users
        PROVE  Unmoved(u) /\ \A d \in Conns : acct'[d] = u => view'[d] = view[d]
    <3>1. u # NoUser
      BY SessionAssumption
    <3>2. ASSUME NEW g \in Handlers, acct'[g[1]] = u PROVE acct[g[1]] = u /\ pc'[g] = pc[g]
      BY <2>2, <2>3, <2>4, <3>1, <3>2
    <3>3. ASSUME NEW g \in Handlers, acct[g[1]] = u, Active(g) PROVE acct'[g[1]] = u
      BY <2>2, <2>3, <2>4, <3>3
    <3>4. \A d \in Conns : acct'[d] = u => d # c
      BY <2>2, <3>1
    <3> QED
      BY <2>1, <2>2, <3>2, <3>3, <3>4 DEF Unmoved, Undisturbed
  <2> QED
    BY <2>1, <2>5, <2>6
<1>2. CASE PeerCloses(c) \/ PeerResets(c)
  <2>1. /\ open' \subseteq open /\ spoiled \subseteq spoiled'
        /\ UNCHANGED <<onlineUsers, acct, pc, seen, list, tell, found, status, view, kicked,
                       overlap>>
    BY <1>2 DEF PeerCloses, PeerResets, HangUp, handlers, history
  <2> QED
    BY <2>1 DEF OverlapInv, Active, IsOnline, GetOnlineUserByID, Unmoved, Undisturbed
<1> QED
  BY <1>1, <1>2

\* An account that is not touched keeps its invariants.
LEMMA UnmovedKeeps ==
  ASSUME TypeInv, NEW u \in Users, Unmoved(u), AgreeOf(u), ReachOf(u)
  PROVE  /\ AgreeOf(u)' /\ ReachOf(u)'
         /\ Quiet(u)' => Quiet(u)
<1>1. Quiet(u)' => Quiet(u)
  BY DEF Unmoved, Quiet, Active
<1>2. \A g \in Handlers : acct'[g[1]] = u => /\ acct[g[1]] = u /\ pc'[g] = pc[g]
                                            /\ seen'[g[1]] = seen[g[1]]
  BY DEF Unmoved
<1>3. AgreeOf(u)'
  <2> SUFFICES ASSUME Undisturbed(u)'
               PROVE  /\ Quiet(u)' => Agrees(u)'
                      /\ \A h \in Handlers : acct'[h[1]] = u => AgreesAt(h, u)'
    BY DEF AgreeOf
  <2>1. Undisturbed(u) /\ (Agrees(u) => Agrees(u)')
    BY DEF Unmoved, Agrees, IsOnline, GetOnlineUserByID
  <2>2. ASSUME NEW h \in Handlers, acct'[h[1]] = u PROVE AgreesAt(h, u)'
    <3>1. AgreesAt(h, u)
      BY <1>2, <2>1, <2>2 DEF AgreeOf
    <3> QED
      BY <1>2, <2>2, <3>1 DEF AgreesAt, Unmoved, Agrees, IsOnline, GetOnlineUserByID
  <2> QED
    BY <1>1, <2>1, <2>2 DEF AgreeOf
<1>4. ReachOf(u)'
  <2>1. \A c \in Conns : <<c, "in">> \in Handlers /\ <<c, "in">>[1] = c
    BY HandlerKinds
  <2>2. \A c \in Conns : acct'[c] = u => acct[c] = u /\ pc'[<<c, "in">>] = pc[<<c, "in">>]
    BY <1>2, <2>1
  <2>3. \A c \in Conns : Believes(c, u)' => Believes(c, u)
    BY <2>2 DEF Believes, Unmoved
  <2>4. onlineUsers'[u] = onlineUsers[u] /\ (Undisturbed(u)' => Undisturbed(u))
    BY DEF Unmoved
  <2> QED
    BY <2>2, <2>3, <2>4 DEF ReachOf
<1> QED
  BY <1>1, <1>3, <1>4

\* The account served by a step keeps what the handler's place says of it.
LEMMA AgreeStep ==
  ASSUME TypeInv, NEW h \in Handlers, StepOf(h), NEW u \in Users, u = acct'[h[1]],
         AgreeOf(u), Undisturbed(u), Undisturbed(u)', ~Active(h) => Quiet(u)
  PROVE  AgreesAt(h, u)' /\ (~Active(h)' => Agrees(u)')
<1> DEFINE c == h[1]
<1>1. /\ c \in Conns
      /\ h[2] = "in" => h = <<c, "in">>
      /\ h[2] = "out" => h = <<c, "out">>
  BY HandlerKinds
<1>2. /\ acct[c] = u => AgreesAt(h, u)
      /\ ~Active(h) => Agrees(u)
  BY DEF AgreeOf
<1>3. /\ pc \in [Handlers -> PCs] /\ acct \in [Conns -> Users \cup {NoUser}]
      /\ seen \in [Conns -> Conns \cup {NoConn}] /\ status \in [Users -> Statuses]
      /\ onlineUsers \in [Users -> Conns \cup {NoConn}] /\ NoConn \notin Conns
  BY NoConnAssumption DEF TypeInv, TypeOK
<1>4. \A p : Goto(h, p) => pc'[h] = p
  BY <1>3 DEF Goto
<1>5. CASE h[2] = "in" /\ \E v \in Users : LoginStart(c, v)
  <2>1. /\ Goto(h, "login") /\ UNCHANGED <<presenceVars, status>> /\ ~Active(h)
    BY <1>1, <1>5 DEF LoginStart, Active, AtRest
  <2> QED
    BY <1>2, <1>4, <2>1 DEF AgreesAt, Agrees, IsOnline, GetOnlineUserByID, presenceVars, Active,
                           AtRest
<1>6. CASE h[2] = "in" /\ CheckPassword(c)
  <2>1. /\ pc[h] = "login" /\ Goto(h, IF status[u] = "offline" THEN "setStatus" ELSE "lookup")
        /\ UNCHANGED <<presenceVars, status, acct>>
    BY <1>1, <1>6 DEF CheckPassword
  <2>2. status[u] \in {"online", "offline"}
    BY <1>3 DEF Statuses
  <2> QED
    BY <1>2, <1>4, <2>1, <2>2
       DEF AgreesAt, Agrees, IsOnline, GetOnlineUserByID, presenceVars, Active, AtRest
<1>7. CASE h[2] = "in" /\ SetOnline(c)
  <2>1. /\ pc[h] = "setStatus" /\ Goto(h, "lookup") /\ status' = [status EXCEPT ![u] = "online"]
        /\ UNCHANGED <<presenceVars, acct>>
    BY <1>1, <1>7 DEF SetOnline
  <2> QED
    BY <1>3, <1>4, <2>1 DEF AgreesAt, Active, AtRest
<1>8. CASE h[2] = "in" /\ LookUpOld(c)
  <2>1. /\ pc[h] = "lookup" /\ Goto(h, IF IsOnline(u) THEN "kick" ELSE "friends")
        /\ seen' = [seen EXCEPT ![c] = onlineUsers[u]]
        /\ UNCHANGED <<presenceVars, status, acct>>
    BY <1>1, <1>8 DEF LookUpOld, GetOnlineUserByID
  <2>2. seen'[c] = onlineUsers[u]
    BY <1>1, <1>3, <2>1
  <2> QED
    BY <1>2, <1>4, <2>1, <2>2
       DEF AgreesAt, IsOnline, GetOnlineUserByID, presenceVars, Active, AtRest
<1>9. CASE h[2] = "in" /\ (Kick(c) \/ KickFails(c))
  <2>1. UNCHANGED <<presenceVars, status, acct>>
    BY <1>1, <1>9 DEF Kick, KickFails
  <2>2. pc[h] = "kick" /\ pc'[h] \in {"friends", "refused"}
    BY <1>1, <1>4, <1>9 DEF Kick, KickFails
  <2> QED
    BY <1>2, <2>1, <2>2
       DEF AgreesAt, Agrees, IsOnline, GetOnlineUserByID, presenceVars, Active, AtRest
<1>10. CASE h[2] = "in" /\ ReadFriends(c)
  <2>1. /\ pc[h] = "friends" /\ Goto(h, "enter") /\ UNCHANGED <<presenceVars, status, acct>>
    BY <1>1, <1>10 DEF ReadFriends
  <2> QED
    BY <1>2, <1>4, <2>1
       DEF AgreesAt, IsOnline, GetOnlineUserByID, presenceVars, Active, AtRest
<1>11. CASE h[2] = "in" /\ Enter(c)
  <2>1. /\ pc[h] = "enter" /\ Goto(h, "reply") /\ UNCHANGED <<status, acct>>
        /\ onlineUsers' = [onlineUsers EXCEPT ![u] = c]
    BY <1>1, <1>11 DEF Enter, AddOnlineUser
  <2>2. onlineUsers'[u] = c
    BY <1>3, <2>1
  <2> QED
    BY <1>2, <1>4, <2>1, <2>2 DEF AgreesAt, Active, AtRest
<1>12. CASE h[2] = "in" /\ (Reply(c) \/ Record(c))
  <2>1. /\ pc[h] \in {"reply", "record"} /\ pc'[h] \in {"record", "notify"}
        /\ UNCHANGED <<presenceVars, status, acct>>
    BY <1>1, <1>4, <1>12 DEF Reply, Record
  <2> QED
    BY <1>2, <2>1 DEF AgreesAt, presenceVars, Active, AtRest
<1>13. CASE h[2] = "in" /\ ReplyFails(c)
  <2>1. spoiled' = spoiled \cup {acct[c]} /\ acct[c] = u
    BY <1>13 DEF ReplyFails
  <2> QED
    BY <2>1 DEF Undisturbed
<1>14. CASE h[2] = "out" /\ LogoutStart(c)
  <2>1. /\ ~Active(h) /\ UNCHANGED <<presenceVars, status, acct>> /\ UsrId[c] \in {NoUser, u}
    BY <1>1, <1>14 DEF LogoutStart, Active, AtRest, TypeInv, Linked
  <2>2. \/ pc'[h] \in {"close", "superseded"}
        \/ pc'[h] = "notify" /\ UsrId[c] = u /\ onlineUsers[u] = c
    <3>1. PICK up : /\ up = IF UsrId[c] = NoUser THEN NoConn ELSE onlineUsers[UsrId[c]]
                    /\ \/ up = NoConn /\ Goto(h, "close")
                       \/ up \notin {c, NoConn} /\ Goto(h, "superseded")
                       \/ up = c /\ Goto(h, "notify")
      BY <1>1, <1>14 DEF LogoutStart, GetOnlineUserByID
    <3> QED
      BY <1>1, <1>3, <1>4, <2>1, <3>1
  <2>3. Agrees(u) /\ status'[u] = status[u] /\ onlineUsers'[u] = onlineUsers[u]
    BY <1>2, <2>1 DEF presenceVars
  <2> QED
    BY <1>1, <1>3, <2>2, <2>3
       DEF AgreesAt, Agrees, IsOnline, GetOnlineUserByID, Active, AtRest
<1>15. CASE h[2] = "out" /\ Delete(c)
  <2>1. pc[h] = "delete" /\ UsrId[c] = u
    BY <1>1, <1>15 DEF Delete, TypeInv, Linked
  <2>2. /\ onlineUsers' = [onlineUsers EXCEPT ![u] = NoConn] /\ Goto(h, "setStatus")
    BY <1>1, <1>15, <2>1 DEF Delete, DelOnlineUser
  <2> QED
    BY <1>3, <1>4, <1>15, <2>2 DEF AgreesAt, IsOnline, GetOnlineUserByID, Active, AtRest
<1>16. CASE h[2] = "out" /\ SetOffline(c)
  <2>1. pc[h] = "setStatus" /\ UsrId[c] = u /\ acct[c] = u
    BY <1>1, <1>16 DEF SetOffline, TypeInv, Linked
  <2>2. /\ status' = [status EXCEPT ![u] = "offline"] /\ Goto(h, "close")
        /\ UNCHANGED presenceVars
    BY <1>1, <1>16, <2>1 DEF SetOffline
  <2>3. status'[u] = "offline" /\ onlineUsers'[u] = onlineUsers[u] /\ ~IsOnline(u)
    BY <1>2, <1>3, <2>1, <2>2 DEF AgreesAt, presenceVars
  <2> QED
    BY <1>4, <2>2, <2>3 DEF AgreesAt, Agrees, IsOnline, GetOnlineUserByID, Active, AtRest
<1>17. CASE h[2] = "out" /\ Close(c)
  <2>1. pc[h] = "close" /\ Goto(h, "done") /\ UNCHANGED <<presenceVars, status, acct>>
    BY <1>1, <1>17 DEF Close
  <2> QED
    BY <1>2, <1>4, <2>1
       DEF AgreesAt, Agrees, IsOnline, GetOnlineUserByID, presenceVars, Active, AtRest
<1>18. CASE (\E f \in Users : TryFriend(h, f)) \/ NotifyMyStatus(h) \/ NotifyDone(h)
  <2>1. /\ pc[h] = "notify" /\ UNCHANGED <<presenceVars, status, acct>>
        /\ pc'[h] \in {"notify", "done", "delete"}
    BY <1>4, <1>18 DEF TryFriend, NotifyMyStatus, NotifyDone
  <2>2. status'[u] = "online" /\ onlineUsers'[u] = c
    BY <1>2, <2>1 DEF AgreesAt, presenceVars
  <2> QED
    BY <1>1, <1>3, <2>1, <2>2
       DEF AgreesAt, Agrees, IsOnline, GetOnlineUserByID, Active, AtRest
<1>19. CASE h[2] = "in" /\ LoginRefused(c)
  <2>1. UNCHANGED <<presenceVars, status, acct>> /\ pc[h] \in {"login", "setStatus"}
    BY <1>1, <1>19 DEF LoginRefused
  <2>2. pc'[h] = "refused"
    BY <1>1, <1>4, <1>19 DEF LoginRefused
  <2> QED
    BY <1>1, <1>2, <1>19, <2>1, <2>2
       DEF AgreesAt, Agrees, IsOnline, GetOnlineUserByID, presenceVars, Active, AtRest
<1>20. CASE Lapse(h)
  BY <1>20, LapseTypes DEF Undisturbed
<1> QED
  BY <1>5, <1>6, <1>7, <1>8, <1>9, <1>10, <1>11, <1>12, <1>13, <1>14, <1>15, <1>16, <1>17,
       <1>18,
     <1>19, <1>20 DEF StepOf

\* The account served by a step: no device is replaced unannounced.
LEMMA ReachStep ==
  ASSUME TypeInv, NEW h \in Handlers, StepOf(h), Frame(h), NEW u \in Users, u = acct'[h[1]],
         AgreeOf(u), ReachOf(u), Undisturbed(u), Undisturbed(u)',
         \A g \in Handlers : g # h /\ acct'[g[1]] = u => ~Active(g)'
  PROVE  ReachOf(u)'
<1> DEFINE c == h[1]
<1>1. /\ c \in Conns
      /\ h[2] = "in" => h = <<c, "in">>
      /\ h[2] = "out" => h = <<c, "out">>
      /\ \A d \in Conns : <<d, "in">> \in Handlers /\ <<d, "in">>[1] = d
      /\ \A g \in Handlers : g = <<g[1], "in">> \/ g = <<g[1], "out">>
  BY HandlerKinds
<1>2. acct[c] = u => AgreesAt(h, u)
  BY DEF AgreeOf
<1>3. /\ pc \in [Handlers -> PCs] /\ onlineUsers \in [Users -> Conns \cup {NoConn}]
      /\ NoConn \notin Conns /\ \A d \in Conns : <<d, "out">> # <<d, "in">>
  BY NoConnAssumption DEF TypeInv, TypeOK
<1>4. \A p : Goto(h, p) => pc'[h] = p
  BY <1>3 DEF Goto
<1>5. \/ pc'[h] \notin {"done", "friends", "enter"}
      \/ pc'[h] = "done" /\ NotifyDone(h)
      \/ pc'[h] = "done" /\ h[2] = "out"
      \/ pc'[h] = "friends" /\ (LookUpOld(c) \/ Kick(c))
      \/ pc'[h] = "enter" /\ ReadFriends(c)
      \/ pc'[h] = pc[h] /\ pc[h] = "notify"
  <2>1. CASE \E v \in Users : LoginStart(c, v) /\ h[2] = "in"
    BY <1>1, <1>4, <2>1 DEF LoginStart
  <2>2. CASE h[2] = "in" /\ (CheckPassword(c) \/ SetOnline(c) \/ KickFails(c)
                             \/ LoginRefused(c) \/ Enter(c)
                             \/ Reply(c) \/ ReplyFails(c) \/ Record(c))
    BY <1>1, <1>4, <2>2 DEF CheckPassword, SetOnline, KickFails, LoginRefused, Enter, Reply,
                            ReplyFails, Record
  <2>3. CASE h[2] = "in" /\ LookUpOld(c)
    BY <1>1, <1>4, <2>3 DEF LookUpOld
  <2>4. CASE h[2] = "in" /\ (Kick(c) \/ ReadFriends(c))
    BY <1>1, <1>4, <2>4 DEF Kick, ReadFriends
  <2>5. CASE h[2] = "out" /\ (LogoutStart(c) \/ Delete(c) \/ SetOffline(c) \/ Close(c))
    BY <1>1, <1>4, <2>5 DEF LogoutStart, Delete, SetOffline, Close
  <2>6. CASE (\E f \in Users : TryFriend(h, f)) \/ NotifyMyStatus(h)
    BY <2>6 DEF TryFriend, NotifyMyStatus
  <2>7. CASE NotifyDone(h)
    BY <1>1, <1>4, <2>7 DEF NotifyDone
  <2>8. ~Lapse(h)
    BY LapseTypes DEF Undisturbed
  <2> QED
    BY <2>1, <2>2, <2>3, <2>4, <2>5, <2>6, <2>7, <2>8 DEF StepOf
<1>6. ASSUME NEW d \in Conns, <<d, "in">> # h, Believes(d, u)'
      PROVE  Believes(d, u) /\ onlineUsers[u] = d
  <2>1. pc[<<d, "in">>] = "done" /\ d \in open \ kicked
    BY <1>1, <1>6 DEF Frame, Believes
  <2>2. acct[d] = u
    BY <1>1, <1>6, <2>1 DEF Frame, Believes
  <2> QED
    BY <2>1, <2>2 DEF Believes, ReachOf
<1>7. ASSUME NEW d \in Conns, Believes(d, u)' PROVE onlineUsers'[u] = d
  <2>1. CASE <<d, "in">> = h
    <3>1. pc'[h] = "done" /\ d = c /\ h[2] = "in"
      BY <1>1, <1>7, <2>1 DEF Believes
    <3>2. NotifyDone(h)
      BY <1>5, <3>1
    <3>3. pc[h] = "notify" /\ UNCHANGED <<presenceVars, acct>>
      BY <3>2 DEF NotifyDone
    <3> QED
      BY <1>2, <3>1, <3>3 DEF AgreesAt, presenceVars
  <2>2. CASE <<d, "in">> # h
    <3>1. Believes(d, u) /\ onlineUsers[u] = d
      BY <1>6, <1>7, <2>2
    <3>2. ~(h[2] = "in" /\ Enter(c))
      <4> SUFFICES ASSUME h[2] = "in", Enter(c) PROVE FALSE
        OBVIOUS
      <4>1. acct[c] = u /\ pc[<<c, "in">>] = "enter"
        BY DEF Enter
      <4> QED
        BY <1>1, <3>1, <4>1 DEF ReachOf
    <3>3. ~(h[2] = "out" /\ Delete(c))
      <4> SUFFICES ASSUME h[2] = "out", Delete(c) PROVE FALSE
        OBVIOUS
      <4>1. acct[c] = u /\ pc[h] = "delete"
        BY <1>1 DEF Delete
      <4>2. onlineUsers[u] = c
        BY <1>2, <4>1 DEF AgreesAt
      <4>3. c \notin open
        BY <1>1, <4>1 DEF TypeInv, Linked, Active, AtRest
      <4> QED
        BY <3>1, <4>2, <4>3 DEF Believes
    <3>4. onlineUsers' = onlineUsers
      BY <3>2, <3>3, LapseTypes DEF StepOf, LoginStart, CheckPassword, SetOnline, LookUpOld,
                                    Kick,
           KickFails, LoginRefused, ReadFriends, Reply, ReplyFails, Record, LogoutStart,
                SetOffline, Close,
           TryFriend, NotifyMyStatus, NotifyDone, presenceVars
    <3> QED
      BY <3>1, <3>4
  <2> QED
    BY <2>1, <2>2
<1>8. ASSUME NEW e \in Conns, acct'[e] = u, pc'[<<e, "in">>] \in {"friends", "enter"},
             NEW d \in Conns, Believes(d, u)'
      PROVE  FALSE
  <2>1. <<e, "in">> = h /\ e = c
    BY <1>1, <1>8 DEF Active, AtRest
  <2>2. Believes(d, u) /\ onlineUsers[u] = d
    <3>1. <<d, "in">> # h
      BY <1>8, <2>1 DEF Believes
    <3> QED
      BY <1>6, <1>8, <3>1
  <2>3. CASE ReadFriends(c)
    <3>1. acct[c] = u /\ pc[<<c, "in">>] = "friends"
      BY <2>3 DEF ReadFriends
    <3> QED
      BY <1>1, <2>2, <3>1 DEF ReachOf
  <2>4. CASE Kick(c)
    <3>1. /\ pc[<<c, "in">>] = "kick" /\ acct[c] = u /\ kicked' = kicked \cup ({seen[c]} \cap open)
      BY <2>4 DEF Kick
    <3>2. seen[c] = d
      BY <1>2, <2>1, <2>2, <3>1 DEF AgreesAt
    <3> QED
      BY <1>8, <2>2, <3>1, <3>2 DEF Believes
  <2>5. CASE LookUpOld(c) /\ pc'[h] = "friends"
    <3>1. ~IsOnline(u)
      BY <1>4, <2>1, <2>5 DEF LookUpOld
    <3> QED
      BY <1>3, <2>2, <3>1 DEF IsOnline, GetOnlineUserByID
  <2> QED
    BY <1>5, <1>8, <2>1, <2>3, <2>4, <2>5
<1> QED
  BY <1>7, <1>8 DEF ReachOf

\* The accounts, one by one.
LEMMA AccountStep ==
  ASSUME TypeInv, OverlapInv, AccountInv, NEW h \in Handlers, StepOf(h)
  PROVE  AccountInv'
<1>1. Frame(h) /\ Noted(h)
  BY FrameHolds, OverlapsAreNoted
<1>2. ASSUME NEW u \in Users PROVE AgreeOf(u)' /\ ReachOf(u)'
  <2>1. AgreeOf(u) /\ ReachOf(u)
    BY DEF AccountInv
  <2>2. CASE u # acct'[h[1]]
    BY <1>1, <2>1, <2>2, OthersUnmoved, UnmovedKeeps
  <2>3. CASE u = acct'[h[1]] /\ Undisturbed(u)'
    <3>1. /\ Undisturbed(u)
          /\ \A g \in Handlers : g # h /\ acct'[g[1]] = u => ~Active(g)'
          /\ ~Active(h) => Quiet(u)
      BY <1>1, <2>3, AloneInItsAccount
    <3>2. AgreesAt(h, u)' /\ (~Active(h)' => Agrees(u)')
      BY <2>1, <2>3, <3>1, AgreeStep
    <3>3. \A g \in Handlers : ~Active(g)' => AgreesAt(g, u)'
      BY DEF Active, AtRest, AgreesAt
    <3>4. Quiet(u)' => ~Active(h)'
      BY <2>3 DEF Quiet
    <3>5. AgreeOf(u)'
      BY <3>1, <3>2, <3>3, <3>4 DEF AgreeOf
    <3> QED
      BY <1>1, <2>1, <2>3, <3>1, <3>5, ReachStep
  <2>4. CASE ~Undisturbed(u)'
    BY <2>4 DEF AgreeOf, ReachOf
  <2> QED
    BY <2>2, <2>3, <2>4
<1> QED
  BY <1>2 DEF AccountInv

\* Two friends neither of whom is served by the step.
LEMMA PairUnmoved ==
  ASSUME TypeInv, OverlapInv', NEW u \in Users, NEW f \in Users, Unmoved(u), Unmoved(f),
         overlap \subseteq overlap', \A d \in Conns : acct'[d] = f => view'[d][u] = view[d][u],
         onlineUsers' \in [Users -> Conns \cup {NoConn}], SeeOf(u, f)
  PROVE  SeeOf(u, f)'
<1> SUFFICES ASSUME Apart(u, f)'
             PROVE  /\ \A d \in Conns : Shows(d, f)' =>
                          /\ Quiet(u)' => view'[d][u] = status'[u]
                          /\ \A h \in Handlers : acct'[h[1]] = u => ShownAt(h, u, f, d)'
                    /\ \A c \in Conns : acct'[c] = f /\ Quiet(u)' => ReadAt(c, u)'
  BY DEF SeeOf
<1>1. Apart(u, f)
  BY DEF Apart, Unmoved
<1>2. Quiet(u)' => Quiet(u)
  BY DEF Quiet, Unmoved, Active
<1>3. \A c \in Conns : <<c, "in">> \in Handlers /\ <<c, "in">>[1] = c
  BY HandlerKinds
<1>4. status'[u] = status[u] /\ (IsOnline(u)' <=> IsOnline(u))
  BY DEF Unmoved, IsOnline, GetOnlineUserByID
<1>5. ASSUME NEW d \in Conns, Shows(d, f)'
      PROVE  Shows(d, f) /\ view'[d][u] = view[d][u]
  <2>1. acct'[d] = f
    BY <1>5, NoConnAssumption DEF Shows, OverlapInv, IsOnline, GetOnlineUserByID
  <2> QED
    BY <1>3, <1>5, <2>1 DEF Shows, Unmoved
<1>6. ASSUME NEW d \in Conns, Shows(d, f)', NEW h \in Handlers, acct'[h[1]] = u
      PROVE  ShownAt(h, u, f, d)'
  <2>1. acct[h[1]] = u /\ pc'[h] = pc[h] /\ tell'[h] = tell[h] /\ found'[h] = found[h]
    BY <1>6 DEF Unmoved
  <2>2. ShownAt(h, u, f, d)
    BY <1>1, <1>5, <1>6, <2>1 DEF SeeOf
  <2> QED
    BY <1>4, <1>5, <1>6, <2>1, <2>2 DEF ShownAt, NewStatus
<1>7. ASSUME NEW c \in Conns, acct'[c] = f, Quiet(u)' PROVE ReadAt(c, u)'
  <2>1. /\ acct[c] = f /\ pc'[<<c, "in">>] = pc[<<c, "in">>] /\ list'[c] = list[c]
        /\ view'[c][u] = view[c][u]
    BY <1>3, <1>7 DEF Unmoved
  <2>2. ReadAt(c, u)
    BY <1>1, <1>2, <1>7, <2>1 DEF SeeOf
  <2> QED
    BY <1>4, <2>1, <2>2 DEF ReadAt
<1> QED
  BY <1>1, <1>2, <1>4, <1>5, <1>6, <1>7 DEF SeeOf

\* A handler of f takes no step of a friend's while that friend's runs.
LEMMA FriendsAtRest ==
  ASSUME TypeInv, NEW h \in Handlers, Frame(h), Noted(h), NEW u \in Users, u = acct'[h[1]],
         NEW f \in Users, f # u, Unmoved(f),
         <<u, f>> \notin overlap' \/ <<f, u>> \notin overlap'
  PROVE  Quiet(f) /\ Quiet(f)'
<1>1. ASSUME NEW g \in Handlers, acct[g[1]] = f PROVE ~Active(g)
  <2>1. CASE g = h
    <3>1. acct[h[1]] = f /\ f # NoUser
      BY <1>1, <2>1, SessionAssumption
    <3> QED
      BY <3>1 DEF Frame
  <2>2. CASE g # h
    BY <1>1, <2>2 DEF Noted
  <2> QED
    BY <2>1, <2>2
<1> QED
  BY <1>1 DEF Quiet, Unmoved, Active

\* What a device of f shows of u, when u is the one served.
LEMMA ShownStep ==
  ASSUME TypeInv, NEW h \in Handlers, StepOf(h), Frame(h),
         NEW u \in Users, u = acct'[h[1]], NEW f \in Users, f \in FriendsOf[u],
         NEW d \in Conns, d # h[1], Shows(d, f), Undisturbed(u)',
         ~Active(h) => view[d][u] = status[u],
         acct[h[1]] = u => ShownAt(h, u, f, d),
         acct[h[1]] = u => AgreesAt(h, u)
  PROVE  ShownAt(h, u, f, d)' /\ (~Active(h)' => view'[d][u] = status'[u])
<1> DEFINE c == h[1]
<1>1. /\ c \in Conns
      /\ h[2] = "in" => h = <<c, "in">>
      /\ h[2] = "out" => h = <<c, "out">>
      /\ f # NoUser /\ d # NoConn
  BY HandlerKinds, SessionAssumption, NoConnAssumption
<1>2. /\ pc \in [Handlers -> PCs] /\ acct \in [Conns -> Users \cup {NoUser}]
      /\ status \in [Users -> Statuses] /\ view \in [Conns -> [Users -> Statuses]]
      /\ onlineUsers \in [Users -> Conns \cup {NoConn}]
      /\ tell \in [Handlers -> SUBSET Users] /\ found \in [Handlers -> Users \cup {NoUser}]
  BY DEF TypeInv, TypeOK
<1>3. \A p : Goto(h, p) => pc'[h] = p
  BY <1>2 DEF Goto
<1>4. ~NotifyMyStatus(h) => view'[d][u] = view[d][u]
  <2>1. view' = view \/ view' = [view EXCEPT ![c] = list[c]] \/ NotifyMyStatus(h)
    BY LapseTypes DEF StepOf, LoginStart, CheckPassword, SetOnline, LookUpOld, Kick,
                      KickFails, LoginRefused, ReadFriends,
           Enter, Reply, ReplyFails, Record, LogoutStart, Delete, SetOffline, Close, TryFriend,
           NotifyDone
  <2> QED
    BY <1>2, <2>1
<1>5. CASE h[2] = "in" /\ \E v \in Users : LoginStart(c, v)
  <2>1. /\ Goto(h, "login") /\ UNCHANGED <<view, status>> /\ ~Active(h)
    BY <1>1, <1>5 DEF LoginStart, Active, AtRest
  <2> QED
    BY <1>3, <2>1 DEF ShownAt, Active, AtRest
<1>6. CASE h[2] = "in" /\ CheckPassword(c)
  <2>1. /\ pc[h] = "login" /\ Goto(h, IF status[u] = "offline" THEN "setStatus" ELSE "lookup")
        /\ UNCHANGED <<view, status, acct>>
    BY <1>1, <1>6 DEF CheckPassword
  <2> QED
    BY <1>3, <2>1 DEF ShownAt, Active, AtRest
<1>7. CASE h[2] = "in" /\ SetOnline(c)
  <2>1. /\ pc[h] = "setStatus" /\ Goto(h, "lookup") /\ UNCHANGED <<presenceVars, acct>>
    BY <1>1, <1>7 DEF SetOnline
  <2>2. ~IsOnline(u)'
    BY <2>1 DEF AgreesAt, IsOnline, GetOnlineUserByID, presenceVars
  <2> QED
    BY <1>3, <2>1, <2>2 DEF ShownAt, Active, AtRest
<1>8. CASE h[2] = "in" /\ LookUpOld(c)
  <2>1. /\ pc[h] = "lookup" /\ Goto(h, IF IsOnline(u) THEN "kick" ELSE "friends")
        /\ UNCHANGED <<presenceVars, status, view, acct>>
    BY <1>1, <1>8 DEF LookUpOld
  <2> QED
    BY <1>3, <2>1 DEF ShownAt, Active, AtRest
<1>9. CASE h[2] = "in" /\ (Kick(c) \/ KickFails(c))
  <2>1. /\ pc[h] = "kick" /\ pc'[h] \in {"friends", "refused"}
        /\ UNCHANGED <<status, view, acct>>
    BY <1>1, <1>3, <1>9 DEF Kick, KickFails
  <2> QED
    BY <2>1 DEF ShownAt, Active, AtRest
<1>10. CASE h[2] = "in" /\ (ReadFriends(c) \/ Enter(c) \/ Reply(c))
  <2>1. pc'[h] \in {"enter", "reply", "record"}
    BY <1>1, <1>3, <1>10 DEF ReadFriends, Enter, Reply
  <2> QED
    BY <2>1 DEF ShownAt, Active, AtRest
<1>11. CASE h[2] = "in" /\ ReplyFails(c)
  <2>1. spoiled' = spoiled \cup {acct[c]} /\ acct[c] = u
    BY <1>11 DEF ReplyFails
  <2> QED
    BY <2>1 DEF Undisturbed
<1>12. CASE h[2] = "in" /\ Record(c)
  <2>1. /\ pc'[h] = "notify" /\ tell' = [tell EXCEPT ![h] = FriendsOf[u]]
    BY <1>1, <1>3, <1>12 DEF Record
  <2>2. f \in tell'[h]
    BY <1>2, <2>1
  <2> QED
    BY <2>1, <2>2 DEF ShownAt, Active, AtRest
<1>13. CASE h[2] = "out" /\ LogoutStart(c)
  <2>1. /\ ~Active(h) /\ UNCHANGED <<view, status, acct>> /\ UsrId[c] \in {NoUser, u}
    BY <1>1, <1>13 DEF LogoutStart, Active, AtRest, TypeInv, Linked
  <2>2. \/ pc'[h] \in {"close", "superseded"}
        \/ /\ pc'[h] = "notify" /\ UsrId[c] = u
           /\ tell' = [tell EXCEPT ![h] = FriendsOf[UsrId[c]]]
    <3>1. PICK up : /\ up = IF UsrId[c] = NoUser THEN NoConn ELSE onlineUsers[UsrId[c]]
                    /\ \/ up = NoConn /\ Goto(h, "close")
                       \/ up \notin {c, NoConn} /\ Goto(h, "superseded")
                       \/ /\ up = c /\ Goto(h, "notify")
                          /\ tell' = [tell EXCEPT ![h] = FriendsOf[UsrId[c]]]
      BY <1>1, <1>13 DEF LogoutStart, GetOnlineUserByID
    <3> QED
      BY <1>1, <1>3, <2>1, <3>1, NoConnAssumption
  <2>3. pc'[h] = "notify" => f \in tell'[h]
    BY <1>2, <2>2
  <2> QED
    BY <2>1, <2>2, <2>3 DEF ShownAt, Active, AtRest
<1>14. CASE h[2] = "out" /\ Delete(c)
  <2>1. /\ pc[h] = "delete" /\ Goto(h, "setStatus") /\ UNCHANGED <<view, acct>>
    BY <1>1, <1>14 DEF Delete
  <2> QED
    BY <1>3, <1>14, <2>1 DEF ShownAt, Active, AtRest
<1>15. CASE h[2] = "out" /\ SetOffline(c)
  <2>1. /\ pc[h] = "setStatus" /\ UsrId[c] = u /\ acct[c] = u
        /\ status' = [status EXCEPT ![u] = "offline"] /\ Goto(h, "close") /\ UNCHANGED view
    BY <1>1, <1>15 DEF SetOffline, TypeInv, Linked
  <2>2. status'[u] = "offline" /\ view'[d][u] = "offline"
    BY <1>2, <2>1 DEF ShownAt
  <2> QED
    BY <1>3, <2>1, <2>2 DEF ShownAt, Active, AtRest
<1>16. CASE h[2] = "out" /\ Close(c)
  <2>1. pc[h] = "close" /\ Goto(h, "done") /\ UNCHANGED <<view, status, acct>>
    BY <1>1, <1>16 DEF Close
  <2> QED
    BY <1>3, <2>1 DEF ShownAt, Active, AtRest
<1>17. CASE \E v \in Users : TryFriend(h, v)
  <2>1. PICK v \in Users : TryFriend(h, v)
    BY <1>17
  <2>2. /\ pc[h] = "notify" /\ pc'[h] = "notify" /\ found[h] = NoUser
        /\ tell' = [tell EXCEPT ![h] = @ \ {v}] /\ UNCHANGED <<view, acct>>
        /\ found' = [found EXCEPT ![h] = IF IsOnline(v) THEN v ELSE NoUser]
    BY <2>1 DEF TryFriend
  <2>3. f \in tell[h] \/ view[d][u] = NewStatus(h)
    BY <1>1, <2>2 DEF ShownAt
  <2>4. IsOnline(f)
    BY <1>1 DEF Shows, IsOnline, GetOnlineUserByID
  <2>5. f \in tell[h] => f \in tell'[h] \/ found'[h] = f
    BY <1>2, <2>2, <2>4
  <2> QED
    BY <2>2, <2>3, <2>5 DEF ShownAt, NewStatus, Active, AtRest
<1>18. CASE NotifyMyStatus(h)
  <2>1. PICK e : /\ e = GetOnlineUserByID(found[h]) /\ pc[h] = "notify" /\ found[h] # NoUser
                 /\ view' = IF e \in open THEN [view EXCEPT ![e][u] = NewStatus(h)] ELSE view
                 /\ UNCHANGED <<pc, tell, acct>>
    BY <1>18 DEF NotifyMyStatus
  <2>2. f \in tell[h] \/ found[h] = f \/ view[d][u] = NewStatus(h)
    BY <2>1 DEF ShownAt
  <2>3. found[h] = f => view'[d][u] = NewStatus(h)
    BY <1>2, <2>1 DEF Shows, GetOnlineUserByID
  <2>4. view[d][u] = NewStatus(h) => view'[d][u] = NewStatus(h)
    BY <1>2, <2>1
  <2> QED
    BY <2>1, <2>2, <2>3, <2>4 DEF ShownAt, NewStatus, Active, AtRest
<1>19. CASE NotifyDone(h)
  <2>1. /\ pc[h] = "notify" /\ found[h] = NoUser /\ tell[h] = {}
        /\ Goto(h, IF h[2] = "in" THEN "done" ELSE "delete")
        /\ UNCHANGED <<view, status, acct>>
    BY <1>19 DEF NotifyDone
  <2>2. view'[d][u] = NewStatus(h)
    BY <1>1, <2>1 DEF ShownAt
  <2>3. status[u] = "online"
    BY <2>1 DEF AgreesAt
  <2> QED
    BY <1>3, <2>1, <2>2, <2>3 DEF ShownAt, NewStatus, Active, AtRest
<1>20. CASE h[2] = "in" /\ LoginRefused(c)
  <2>1. UNCHANGED <<status, view, acct>> /\ pc[h] \in {"login", "setStatus"}
    BY <1>1, <1>20 DEF LoginRefused
  <2>2. pc'[h] = "refused"
    BY <1>1, <1>3, <1>20 DEF LoginRefused
  <2> QED
    BY <1>1, <1>20, <2>1, <2>2 DEF ShownAt, Active, AtRest
<1>21. CASE Lapse(h)
  BY <1>21, LapseTypes DEF Undisturbed
<1> QED
  BY <1>5, <1>6, <1>7, <1>8, <1>9, <1>10, <1>11, <1>12, <1>13, <1>14, <1>15, <1>16, <1>17,
       <1>18,
     <1>19, <1>20, <1>21 DEF StepOf

\* What a device of f shows of u, when f is the one served and u at rest.
LEMMA ReadStep ==
  ASSUME TypeInv, NEW h \in Handlers, StepOf(h), Frame(h),
         NEW f \in Users, f = acct'[h[1]], NEW u \in Users, u # f,
         SeeOf(u, f), Apart(u, f), Quiet(u), Undisturbed(f)',
         \A g \in Handlers : g # h /\ acct'[g[1]] = f => ~Active(g)'
  PROVE  /\ \A d \in Conns : Shows(d, f)' => view'[d][u] = status'[u]
         /\ \A e \in Conns : acct'[e] = f => ReadAt(e, u)'
<1> DEFINE c == h[1]
<1>1. /\ c \in Conns
      /\ h[2] = "in" => h = <<c, "in">>
      /\ h[2] = "out" => h = <<c, "out">>
      /\ \A d \in Conns : /\ <<d, "in">> \in Handlers /\ <<d, "in">>[1] = d
                          /\ <<d, "in">>[2] = "in" /\ d # NoConn
  BY HandlerKinds, NoConnAssumption
<1>2. /\ pc \in [Handlers -> PCs] /\ acct \in [Conns -> Users \cup {NoUser}]
      /\ list \in [Conns -> [Users -> Statuses]] /\ view \in [Conns -> [Users -> Statuses]]
      /\ onlineUsers \in [Users -> Conns \cup {NoConn}]
  BY DEF TypeInv, TypeOK
<1>3. \A p : Goto(h, p) => pc'[h] = p
  BY <1>2 DEF Goto
<1>10. ~Lapse(h)
  BY LapseTypes DEF Undisturbed
<1>4. status'[u] = status[u]
  BY DEF Frame
<1>5. ASSUME NEW d \in Conns, ~(d = c /\ h[2] = "in" /\ Reply(c))
      PROVE  view'[d][u] = view[d][u]
  <2>1. CASE Reply(c) /\ h[2] = "in"
    <3>1. view' = [view EXCEPT ![c] = list[c]]
      BY <2>1 DEF Reply
    <3> QED
      BY <1>2, <1>5, <2>1, <3>1
  <2>2. CASE NotifyMyStatus(h)
    <3>1. view' = view \/ \E e, x : view' = [view EXCEPT ![e][f] = x]
      BY <2>2 DEF NotifyMyStatus
    <3> QED
      BY <1>2, <3>1
  <2>3. CASE ~(Reply(c) /\ h[2] = "in") /\ ~NotifyMyStatus(h)
    BY <1>10, <2>3 DEF StepOf, LoginStart, CheckPassword, SetOnline, LookUpOld, Kick,
                       KickFails, LoginRefused,
                ReadFriends, Enter, ReplyFails, Record, LogoutStart, Delete, SetOffline, Close,
                TryFriend, NotifyDone
  <2> QED
    BY <2>1, <2>2, <2>3
<1>6. acct[c] = f => ReadAt(c, u)
  BY <1>1 DEF SeeOf
<1>7. ASSUME NEW d \in Conns, Shows(d, f)' PROVE view'[d][u] = status'[u]
  <2>1. CASE <<d, "in">> = h
    <3>1. pc'[h] = "done" /\ d = c /\ h[2] = "in"
      BY <1>1, <1>7, <2>1 DEF Shows
    <3>2. NotifyDone(h)
      BY <1>1, <1>3, <1>10, <3>1 DEF StepOf, LoginStart, CheckPassword, SetOnline, LookUpOld,
                                     Kick,
           KickFails, LoginRefused, ReadFriends, Enter, Reply, ReplyFails, Record, TryFriend,
                NotifyMyStatus
    <3>3. pc[<<c, "in">>] = "notify" /\ acct[c] = f /\ view' = view
      BY <2>1, <3>1, <3>2 DEF NotifyDone
    <3> QED
      BY <1>4, <1>6, <3>1, <3>3 DEF ReadAt
  <2>2. CASE <<d, "in">> # h
    <3>1. pc[<<d, "in">>] = "done" /\ d \in open /\ onlineUsers'[f] = d
      BY <1>1, <1>7, <2>2 DEF Frame, Shows
    <3>2. onlineUsers[f] = d
      <4>1. CASE h[2] = "in" /\ Enter(c)
        <5>1. onlineUsers' = [onlineUsers EXCEPT ![f] = c]
          BY <4>1 DEF Enter, AddOnlineUser
        <5> QED
          BY <1>1, <1>2, <2>2, <3>1, <4>1, <5>1
      <4>2. CASE h[2] = "out" /\ Delete(c)
        <5>1. onlineUsers' = [onlineUsers EXCEPT ![UsrId[c]] = NoConn]
          BY <4>2 DEF Delete, DelOnlineUser
        <5> QED
          BY <1>1, <1>2, <3>1, <5>1
      <4>3. CASE ~(h[2] = "in" /\ Enter(c)) /\ ~(h[2] = "out" /\ Delete(c))
        <5>1. onlineUsers' = onlineUsers
          BY <1>10, <4>3 DEF StepOf, LoginStart, CheckPassword, SetOnline, LookUpOld, Kick,
                             KickFails, LoginRefused,
             ReadFriends, Reply, ReplyFails, Record, LogoutStart, SetOffline, Close,
             TryFriend, NotifyMyStatus, NotifyDone, presenceVars
        <5> QED
          BY <3>1, <5>1
      <4> QED
        BY <4>1, <4>2, <4>3
    <3>3. view[d][u] = status[u]
      BY <3>1, <3>2 DEF SeeOf, Shows
    <3> QED
      BY <1>1, <1>4, <1>5, <2>2, <3>3
  <2> QED
    BY <2>1, <2>2
<1>8. ASSUME NEW e \in Conns, acct'[e] = f,
             pc'[<<e, "in">>] \in {"enter", "reply", "record", "notify"}
      PROVE  ReadAt(e, u)'
  <2>1. <<e, "in">> = h /\ e = c /\ h[2] = "in"
    BY <1>1, <1>8 DEF Active, AtRest
  <2>2. CASE ReadFriends(c)
    <3>1. pc'[h] = "enter" /\ list' = [list EXCEPT ![c] = status]
      BY <1>3, <2>1, <2>2 DEF ReadFriends
    <3> QED
      BY <1>1, <1>2, <1>4, <2>1, <3>1 DEF ReadAt
  <2>3. CASE Enter(c)
    <3>1. pc[h] = "enter" /\ pc'[h] = "reply" /\ list' = list /\ acct[c] = f
      BY <1>3, <2>1, <2>3 DEF Enter
    <3> QED
      BY <1>4, <1>6, <2>1, <3>1 DEF ReadAt
  <2>4. CASE Reply(c)
    <3>1. /\ pc[h] = "reply" /\ pc'[h] = "record" /\ view' = [view EXCEPT ![c] = list[c]]
          /\ acct[c] = f
      BY <1>3, <2>1, <2>4 DEF Reply
    <3>2. view'[c] = list[c]
      BY <1>1, <1>2, <3>1
    <3> QED
      BY <1>4, <1>6, <2>1, <3>1, <3>2 DEF ReadAt
  <2>5. CASE Record(c) \/ (\E v \in Users : TryFriend(h, v)) \/ NotifyMyStatus(h)
    <3>1. pc[h] \in {"record", "notify"} /\ pc'[h] = "notify" /\ acct[c] = f
      BY <1>3, <2>1, <2>5 DEF Record, TryFriend, NotifyMyStatus
    <3>2. view'[c][u] = view[c][u]
      <4>1. ~Reply(c)
        BY <2>1, <3>1 DEF Reply
      <4> QED
        BY <1>1, <1>5, <4>1
    <3> QED
      BY <1>4, <1>6, <2>1, <3>1, <3>2 DEF ReadAt
  <2>6. \/ ReadFriends(c) \/ Enter(c) \/ Reply(c) \/ Record(c)
        \/ (\E v \in Users : TryFriend(h, v)) \/ NotifyMyStatus(h)
    <3>1. pc'[h] \in {"enter", "reply", "record", "notify"}
      BY <1>8, <2>1
    <3> QED
      BY <1>1, <1>3, <1>10, <2>1, <3>1 DEF StepOf, LoginStart, CheckPassword, SetOnline,
                                           LookUpOld, Kick,
           KickFails, LoginRefused, ReplyFails, NotifyDone
  <2> QED
    BY <2>2, <2>3, <2>4, <2>5, <2>6
<1>9. \A e \in Conns : acct'[e] = f => ReadAt(e, u)'
  BY <1>8 DEF ReadAt
<1> QED
  BY <1>7, <1>9

\* The pairs of friends, one by one.
LEMMA SeeStep ==
  ASSUME TypeInv, TypeInv', OverlapInv, AccountInv, SeeInv, NEW h \in Handlers, StepOf(h)
  PROVE  SeeInv'
<1>1. Frame(h) /\ Noted(h) /\ OverlapInv'
  BY FrameHolds, OverlapsAreNoted
<1>2. \A u \in Users : u # acct'[h[1]] =>
         Unmoved(u) /\ \A c \in Conns, v \in Users :
                          acct'[c] = u /\ v # acct'[h[1]] => view'[c][v] = view[c][v]
  BY <1>1, OthersUnmoved
<1>3. /\ overlap \subseteq overlap' /\ onlineUsers' \in [Users -> Conns \cup {NoConn}]
      /\ \A g \in Handlers : g[1] \in Conns
      /\ \A d \in Conns : <<d, "in">> \in Handlers /\ <<d, "in">>[1] = d
  BY <1>1, HandlerKinds DEF Frame, TypeInv, TypeOK
<1>4. ASSUME NEW u \in Users, NEW f \in Users PROVE SeeOf(u, f)'
  <2>1. SeeOf(u, f)
    BY DEF SeeInv
  <2>2. CASE u # acct'[h[1]] /\ f # acct'[h[1]]
    BY <1>1, <1>2, <1>3, <2>1, <2>2, PairUnmoved
  <2>3. CASE u = acct'[h[1]] /\ Apart(u, f)'
    <3>1. f # u /\ f \in FriendsOf[u] /\ Undisturbed(u)' /\ <<u, f>> \notin overlap'
      BY <2>3, SessionAssumption DEF Apart
    <3>2. /\ Undisturbed(u)
          /\ \A g \in Handlers : g # h /\ acct'[g[1]] = u => ~Active(g)'
          /\ ~Active(h) => Quiet(u)
      BY <1>1, <2>3, <3>1, AloneInItsAccount
    <3>3. Quiet(f) /\ Quiet(f)' /\ Unmoved(f)
      BY <1>1, <1>2, <2>3, <3>1, FriendsAtRest
    <3>4. Apart(u, f)
      BY <1>3, <2>3, <3>2, <3>3 DEF Apart, Unmoved
    <3>5. acct[h[1]] = u => AgreesAt(h, u)
      BY <3>2 DEF AccountInv, AgreeOf
    <3>6. ASSUME NEW d \in Conns, Shows(d, f)'
          PROVE  /\ ShownAt(h, u, f, d)'
                 /\ ~Active(h)' => view'[d][u] = status'[u]
      <4>1. acct'[d] = f
        BY <1>1, <3>6, NoConnAssumption DEF Shows, OverlapInv, IsOnline, GetOnlineUserByID
      <4>2. d # h[1]
        BY <2>3, <3>1, <4>1
      <4>3. Shows(d, f)
        BY <1>3, <3>3, <3>6, <4>1 DEF Shows, Unmoved
      <4>4. /\ Quiet(u) => view[d][u] = status[u]
            /\ acct[h[1]] = u => ShownAt(h, u, f, d)
        BY <2>1, <3>4, <4>3 DEF SeeOf
      <4> QED
        BY <1>1, <2>3, <3>1, <3>2, <3>5, <4>2, <4>3, <4>4, ShownStep
    <3>7. \A d \in Conns : \A g \in Handlers : ~Active(g)' => ShownAt(g, u, f, d)'
      BY DEF Active, AtRest, ShownAt
    <3>8. Quiet(u)' => ~Active(h)'
      BY <2>3 DEF Quiet
    <3>9. ASSUME NEW c \in Conns, acct'[c] = f PROVE ReadAt(c, u)'
      <4>1. ~Active(<<c, "in">>)'
        BY <1>3, <3>3, <3>9 DEF Quiet
      <4> QED
        BY <4>1 DEF Active, AtRest, ReadAt
    <3> QED
      BY <3>2, <3>6, <3>7, <3>8, <3>9 DEF SeeOf
  <2>4. CASE f = acct'[h[1]] /\ u # f /\ Apart(u, f)'
    <3>1. Undisturbed(f)' /\ <<u, f>> \notin overlap'
      BY <2>4 DEF Apart
    <3>2. /\ Undisturbed(f)
          /\ \A g \in Handlers : g # h /\ acct'[g[1]] = f => ~Active(g)'
      BY <1>1, <2>4, <3>1, AloneInItsAccount
    <3>3. Quiet(u) /\ Quiet(u)' /\ Unmoved(u)
      BY <1>1, <1>2, <2>4, <3>1, FriendsAtRest
    <3>4. Apart(u, f)
      BY <1>3, <2>4, <3>2, <3>3 DEF Apart, Unmoved
    <3>5. /\ \A d \in Conns : Shows(d, f)' => view'[d][u] = status'[u]
          /\ \A c \in Conns : acct'[c] = f => ReadAt(c, u)'
      BY <1>1, <2>1, <2>4, <3>1, <3>2, <3>3, <3>4, ReadStep
    <3>6. \A d \in Conns : \A g \in Handlers : acct'[g[1]] = u => ShownAt(g, u, f, d)'
      BY <3>3 DEF Quiet, Active, AtRest, ShownAt
    <3> QED
      BY <3>5, <3>6 DEF SeeOf
  <2>5. CASE u = f
    BY <2>5, SessionAssumption DEF SeeOf, Apart
  <2>6. CASE ~Apart(u, f)'
    BY <2>6 DEF SeeOf
  <2> QED
    BY <2>2, <2>3, <2>4, <2>5, <2>6
<1> QED
  BY <1>4 DEF SeeInv

-----------------------------------------------------------------------------
(* All steps together.                                                     *)

LEMMA SessionInvInit == Init => SessionInv
<1> SUFFICES ASSUME Init PROVE SessionInv
  OBVIOUS
<1>1. TypeInv
  BY SessionTypeInit
<1>2. /\ pc = [h \in Handlers |-> "idle"] /\ acct = [c \in Conns |-> NoUser]
      /\ status = [u \in Users |-> "offline"] /\ onlineUsers = [u \in Users |-> NoConn]
      /\ open = {} /\ NoUser \notin Users
  BY SessionAssumption DEF Init, PresenceInit
<1>3. \A h \in Handlers : ~Active(h) /\ acct[h[1]] = NoUser
  BY <1>2, HandlerKinds DEF Active, AtRest
<1>4. OverlapInv
  BY <1>2, <1>3 DEF OverlapInv, IsOnline, GetOnlineUserByID
<1>5. AccountInv
  BY <1>2, <1>3 DEF AccountInv, AgreeOf, ReachOf, Agrees, Believes, IsOnline, GetOnlineUserByID
<1>6. SeeInv
  BY <1>2, <1>3 DEF SeeInv, SeeOf, Shows
<1> QED
  BY <1>1, <1>4, <1>5, <1>6 DEF SessionInv

\* A restart leaves nobody active, and spoils who was online or active.
LEMMA RestartKeeps ==
  ASSUME TypeInv, OverlapInv, AccountInv, Restart
  PROVE  OverlapInv' /\ AccountInv' /\ SeeInv'
<1>1. /\ pc' = [h \in Handlers |-> "idle"] /\ acct' = [c \in Conns |-> NoUser]
      /\ onlineUsers' = [u \in Users |-> NoConn] /\ open' = {} /\ status' = status
      /\ spoiled' = spoiled \cup {u \in Users : IsOnline(u) \/ u \in Running}
      /\ overlap' = overlap /\ NoUser \notin Users
  BY SessionAssumption DEF Restart, Crash
<1>2. \A h \in Handlers : ~Active(h)' /\ acct'[h[1]] = NoUser
  BY <1>1, HandlerKinds DEF Active, AtRest
<1>3. OverlapInv'
  BY <1>1, <1>2 DEF OverlapInv, IsOnline, GetOnlineUserByID
<1>4. ASSUME NEW u \in Users PROVE AgreeOf(u)' /\ ReachOf(u)'
  <2>1. ASSUME Undisturbed(u)' PROVE Agrees(u)'
    <3>1. Undisturbed(u) /\ ~IsOnline(u) /\ u \notin Running
      BY <1>1, <2>1 DEF Undisturbed
    <3>2. Quiet(u)
      BY <3>1 DEF Running, Quiet
    <3>3. Agrees(u)
      BY <3>1, <3>2 DEF AccountInv, AgreeOf
    <3> QED
      BY <1>1, <3>1, <3>3 DEF Agrees, IsOnline, GetOnlineUserByID
  <2> QED
    BY <1>1, <1>2, <2>1 DEF AgreeOf, ReachOf, Believes
<1>5. \A u, f \in Users : SeeOf(u, f)'
  BY <1>1, <1>2 DEF SeeOf, Shows
<1> QED
  BY <1>3, <1>4, <1>5 DEF AccountInv, SeeInv

\* The other writers change nothing of an account, or disturb it.
LEMMA OthersKeep ==
  ASSUME TypeInv, OverlapInv, AccountInv, SeeInv, NEW w \in Users, NEW s \in Statuses,
         OthersStep(w, s)
  PROVE  OverlapInv' /\ AccountInv' /\ SeeInv'
<1>1. /\ UNCHANGED <<presenceVars, acct, handlers, view, kicked, overlap>>
      /\ spoiled \subseteq spoiled'
  BY DEF OthersStep, CopyRecord, SaveCopy, DropCopy, history
<1>2. OverlapInv'
  BY <1>1 DEF OverlapInv, Active, IsOnline, GetOnlineUserByID, presenceVars, handlers
<1>3. \A v \in Users : status'[v] = status[v] \/ v \in spoiled'
  <2>1. status' = status \/ (status' = [status EXCEPT ![w] = s]
                              /\ (s # status[w] => w \in spoiled'))
    BY DEF OthersStep, CopyRecord, SaveCopy, DropCopy
  <2> QED
    BY <2>1 DEF TypeInv, TypeOK
<1>4. ASSUME NEW v \in Users, Undisturbed(v)' PROVE Unmoved(v)
  BY <1>1, <1>3, <1>4 DEF Unmoved, Undisturbed, presenceVars, handlers
<1>5. AccountInv'
  <2>1. ASSUME NEW v \in Users, ~Undisturbed(v)' PROVE AgreeOf(v)' /\ ReachOf(v)'
    BY <2>1 DEF AgreeOf, ReachOf
  <2> QED
    BY <1>4, <2>1, UnmovedKeeps DEF AccountInv
<1>6. SeeInv'
  <2>1. ASSUME NEW u \in Users, NEW f \in Users, Undisturbed(u)', Undisturbed(f)'
        PROVE  SeeOf(u, f)'
    <3>1. onlineUsers' \in [Users -> Conns \cup {NoConn}]
      BY <1>1 DEF TypeInv, TypeOK, presenceVars
    <3>2. SeeOf(u, f) /\ Unmoved(u) /\ Unmoved(f)
      BY <1>4, <2>1 DEF SeeInv
    <3> QED
      BY <1>1, <1>2, <3>1, <3>2, PairUnmoved
  <2>2. \A u, f \in Users : ~Undisturbed(u)' \/ ~Undisturbed(f)' => SeeOf(u, f)'
    BY DEF SeeOf, Apart
  <2> QED
    BY <2>1, <2>2 DEF SeeInv
<1> QED
  BY <1>2, <1>5, <1>6

LEMMA SessionInvStep ==
  ASSUME SessionInv, [Next]_vars
  PROVE  SessionInv'
<1>1. TypeInv /\ OverlapInv /\ AccountInv /\ SeeInv
  BY DEF SessionInv
<1>2. TypeInv'
  BY <1>1, SessionTypeStep
<1>3. CASE \E h \in Handlers : StepOf(h)
  BY <1>1, <1>2, <1>3, OverlapsAreNoted, AccountStep, SeeStep DEF SessionInv
<1>4. CASE \E c \in Conns : NewConn(c) \/ PeerCloses(c) \/ PeerResets(c)
  <2>1. /\ OverlapInv' /\ overlap \subseteq overlap'
        /\ \A u \in Users : /\ Unmoved(u)
                            /\ \A d \in Conns : acct'[d] = u => view'[d] = view[d]
    BY <1>1, <1>4, ConnsMoveNobody
  <2>2. AccountInv'
    BY <1>1, <2>1, UnmovedKeeps DEF AccountInv
  <2>3. onlineUsers' \in [Users -> Conns \cup {NoConn}]
    BY <1>2 DEF TypeInv, TypeOK
  <2>4. SeeInv'
    BY <1>1, <2>1, <2>3, PairUnmoved DEF SeeInv
  <2> QED
    BY <1>2, <2>1, <2>2, <2>4 DEF SessionInv
<1>5. CASE Restart
  BY <1>1, <1>2, <1>5, RestartKeeps DEF SessionInv
<1>6. CASE UNCHANGED vars
  <2>1. OverlapInv'
    BY <1>1, <1>6 DEF vars, presenceVars, handlers, history, OverlapInv, Active, IsOnline,
                      GetOnlineUserByID
  <2>2. \A u \in Users : Unmoved(u)
    BY <1>6 DEF vars, presenceVars, handlers, history, Unmoved, Undisturbed
  <2>3. /\ overlap \subseteq overlap' /\ view' = view
        /\ onlineUsers' \in [Users -> Conns \cup {NoConn}]
    BY <1>2, <1>6 DEF vars, history, TypeInv, TypeOK
  <2>4. AccountInv'
    BY <1>1, <2>2, UnmovedKeeps DEF AccountInv
  <2>5. SeeInv'
    BY <1>1, <2>1, <2>2, <2>3, PairUnmoved DEF SeeInv
  <2> QED
    BY <1>2, <2>1, <2>4, <2>5 DEF SessionInv
<1>7. \/ \E h \in Handlers : StepOf(h)
      \/ \E c \in Conns : NewConn(c) \/ PeerCloses(c) \/ PeerResets(c)
      \/ Restart \/ UNCHANGED vars
      \/ \E w \in Users, s \in Statuses : OthersStep(w, s)
  <2>1. \A c \in Conns, u \in Users : LoginStart(c, u) => StepOf(<<c, "in">>)
    BY HandlerKinds DEF StepOf
  <2>2. \A c \in Conns : (\/ CheckPassword(c) \/ SetOnline(c) \/ LookUpOld(c)
                          \/ Kick(c) \/ KickFails(c) \/ LoginRefused(c) \/ ReadFriends(c)
                          \/ Enter(c) \/ Reply(c) \/ ReplyFails(c) \/ Record(c))
                             => StepOf(<<c, "in">>)
    BY HandlerKinds DEF StepOf
  <2>3. \A c \in Conns : LogoutStart(c) \/ Delete(c) \/ SetOffline(c) \/ Close(c)
                            => StepOf(<<c, "out">>)
    BY HandlerKinds DEF StepOf
  <2>4. \A h \in Handlers : (\E f \in Users : TryFriend(h, f)) \/ NotifyMyStatus(h)
                               \/ NotifyDone(h) => StepOf(h)
    BY DEF StepOf
  <2>5. \A c \in Conns : <<c, "in">> \in Handlers /\ <<c, "out">> \in Handlers
    BY HandlerKinds
  <2>12. \A h \in Handlers : Lapse(h) => StepOf(h)
    BY DEF StepOf
  <2> DEFINE Serve  == \E h \in Handlers : StepOf(h)
             Begins == \E c \in Conns, u \in Users : LoginStart(c, u)
             Logs   == \E c \in Conns : \/ CheckPassword(c) \/ SetOnline(c) \/ LookUpOld(c)
                                        \/ Kick(c) \/ KickFails(c) \/ LoginRefused(c) \/ ReadFriends(c)
                                        \/ Enter(c) \/ Reply(c) \/ ReplyFails(c) \/ Record(c)
             Leaves == \E c \in Conns : LogoutStart(c) \/ Delete(c) \/ SetOffline(c) \/ Close(c)
             Tells  == \E h \in Handlers : \/ \E f \in Users : TryFriend(h, f)
                                          \/ NotifyMyStatus(h) \/ NotifyDone(h)
             Conn   == \E c \in Conns : NewConn(c) \/ PeerCloses(c) \/ PeerResets(c)
             Lapses == \E h \in Handlers : Lapse(h)
             Others == \E w \in Users, s \in Statuses : OthersStep(w, s)
  <2>13. Lapses => Serve
    BY <2>12
  <2>6. Begins => Serve
    BY <2>1, <2>5
  <2>7. Logs => Serve
    BY <2>2, <2>5
  <2>8. Leaves => Serve
    BY <2>3, <2>5
  <2>9. Tells => Serve
    BY <2>4
  <2>10. \/ Begins \/ Logs \/ Leaves \/ Tells \/ Conn \/ Restart \/ UNCHANGED vars
         \/ Lapses \/ Others
    BY SessionSteps
  <2>11. (Conn => \E c \in Conns : NewConn(c) \/ PeerCloses(c) \/ PeerResets(c))
         /\ (Serve => \E h \in Handlers : StepOf(h))
         /\ (Others => \E w \in Users, s \in Statuses : OthersStep(w, s))
    OBVIOUS
  <2> HIDE DEF Serve, Begins, Logs, Leaves, Tells, Conn, Lapses, Others
  <2> QED
    BY <2>6, <2>7, <2>8, <2>9, <2>10, <2>11, <2>13
<1>8. CASE \E w \in Users, s \in Statuses : OthersStep(w, s)
  BY <1>1, <1>2, <1>8, OthersKeep DEF SessionInv
<1> QED
  BY <1>3, <1>4, <1>5, <1>6, <1>7, <1>8

LEMMA SessionInvHolds == Spec => []SessionInv
<1>1. SessionInv /\ [Next]_vars => SessionInv'
  BY SessionInvStep
<1> QED
  BY <1>1, SessionInvInit, PTL DEF Spec

\* The stored status and the table of online users agree on every account
\* no handler is serving, however the others interleave (HandleForOffline,
\* UserDao.Login and AddOnlineUser write the two apart from each other, and
\* AddFriendForUser and UpdateUserNewGC write the record too), unless a
\* fault or a stale record has come over its status.
THEOREM StatusAndTableAgree == Spec => []StatusAgrees
<1>1. SessionInv => StatusAgrees
  BY DEF SessionInv, AccountInv, AgreeOf, Agrees, StatusAgrees
<1> QED
  BY <1>1, SessionInvHolds, PTL

\* A device that is logged in and was not told of another login is the one
\* in the table: no logout of an older session and no silent login takes
\* its place (HandleForOffline's comparison of RemoteAddress).
THEOREM LoggedInAreReachable == Spec => []LoggedInIsReachable
<1>1. SessionInv => LoggedInIsReachable
  <2> SUFFICES ASSUME SessionInv, NEW c \in open \ kicked, pc[<<c, "in">>] = "done",
                      Undisturbed(acct[c])
               PROVE  onlineUsers[acct[c]] = c
    BY DEF LoggedInIsReachable
  <2>1. c \in Conns /\ acct[c] \in Users
    BY DEF SessionInv, TypeInv, TypeOK, Linked
  <2>2. ReachOf(acct[c])
    BY <2>1 DEF SessionInv, AccountInv
  <2> QED
    BY <2>1, <2>2 DEF ReachOf, Believes
<1> QED
  BY <1>1, SessionInvHolds, PTL

\* Friends whose handlers never ran side by side show each other's status,
\* after any logins, logouts and replaced sessions of the two
\* (NotifyOtherOnlineFriends and the list in the login reply), unless a
\* fault or a stale record has caught one of them.
THEOREM FriendsSeeEachOther == Spec => []FriendsSeeStatus
<1>1. SessionInv => FriendsSeeStatus
  <2> SUFFICES ASSUME SessionInv, NEW u \in Users, NEW f \in Users, NEW c \in open,
                      u \in FriendsOf[f], f \in FriendsOf[u],
                      onlineUsers[f] = c, pc[<<c, "in">>] = "done",
                      Quiet(u), Undisturbed(u), Undisturbed(f), <<u, f>> \notin overlap
               PROVE  view[c][u] = status[u]
    BY DEF FriendsSeeStatus
  <2>1. c \in Conns /\ SeeOf(u, f)
    BY DEF SessionInv, TypeInv, TypeOK, SeeInv
  <2> QED
    BY <2>1 DEF SeeOf, Apart, Shows
<1> QED
  BY <1>1, SessionInvHolds, PTL
=============================================================================
