------------------------ MODULE ClientSessionProofs -------------------------
(***************************************************************************)
(* Proofs about ClientSession, for any number of logins, any capacity of   *)
(* logOutChan and whatever the server sends.                               *)
(***************************************************************************)
EXTENDS ClientSession, SequenceLemmas, TLAPS

-----------------------------------------------------------------------------
(* Type correctness.  A goroutine has tokens to send while it is at that   *)
(* place, asks at a place that prompts and waits in the queue of IntResChan*)
(* once, and the menu is held between its two meetings with the reader.    *)

Linked ==
    /\ \A g \in Prompters : left[g] > 0 <=> Place(g) \in Resetting
    /\ \A g \in Prompters : asking[g] # "no" => Place(g) \in Prompting
    /\ Range(waiting) = {g \in Prompters : asking[g] = "waiting"}
    /\ IsInjective(waiting)
    /\ menu = "held" <=> reader \in {"askHeld", "unblock"}

TypeInv == TypeOK /\ Linked

LEMMA ClientTypeInit == Init => TypeInv
<1> SUFFICES ASSUME Init PROVE TypeInv
  OBVIOUS
<1>1. TypeOK
  <2>1. requests \in Seq(Prompters) /\ waiting \in Seq(Prompters)
    BY DEF Init
  <2>2. tokens \in 0..Capacity /\ logins \in 0..MaxLogins
    BY ClientSessionAssumption DEF Init
  <2>3. menu \in MenuPlaces /\ reader \in ReaderPlaces
    BY DEF Init, MenuPlaces, ReaderPlaces
  <2>5. asking \in [Prompters -> {"no", "requested", "waiting", "answered"}]
    BY DEF Init
  <2>6. manager \in Prompters \cup {"nobody"} /\ overtaken \in BOOLEAN
    BY DEF Init
  <2>7. left \in [{"menu", "reader"} -> 0..3]
    BY DEF Init
  <2>8. /\ friends \in BOOLEAN /\ groups \in BOOLEAN /\ slot \in BOOLEAN
        /\ display \in {"gone", "loop", "offering"} /\ retracting \in Nat
    BY DEF Init
  <2>4. /\ CurUsr \in BOOLEAN /\ up \in BOOLEAN /\ panicked \in BOOLEAN /\ twice \in BOOLEAN
        /\ frd \in {"select", "gone"} /\ gc \in {"select", "done", "gone"}
    BY DEF Init
  <2> QED
    BY <2>1, <2>2, <2>3, <2>4, <2>5, <2>6, <2>7, <2>8 DEF TypeOK
<1>2. Linked
  BY EmptyRange DEF Init, Linked, Prompters, Place, Resetting
<1> QED
  BY <1>1, <1>2 DEF TypeInv

\* A step of the program that leaves the prompts alone.
LEMMA ProgramTypes ==
  ASSUME TypeInv, UNCHANGED input,
         menu' \in MenuPlaces, reader' \in ReaderPlaces,
         logins' \in 0..MaxLogins, CurUsr' \in BOOLEAN, up' \in BOOLEAN,
         frd' \in {"select", "gone"}, gc' \in {"select", "done", "gone"},
         tokens' \in 0..Capacity, left' \in [{"menu", "reader"} -> 0..3],
         panicked' \in BOOLEAN, twice' \in BOOLEAN,
         friends' \in BOOLEAN, groups' \in BOOLEAN, slot' \in BOOLEAN,
         display' \in {"gone", "loop", "offering"}, retracting' \in Nat,
         left'["menu"] > 0 <=> menu' \in Resetting,
         left'["reader"] > 0 <=> reader' \in Resetting,
         menu' = menu \/ menu \notin Prompting,
         reader' = reader \/ reader \notin Prompting,
         menu' = "held" <=> reader' \in {"askHeld", "unblock"}
  PROVE  TypeInv'
<1>1. TypeOK'
  BY DEF input, TypeInv, TypeOK
<1>2. \A g \in Prompters : /\ left'[g] > 0 <=> Place(g)' \in Resetting
                           /\ Place(g)' = Place(g) \/ Place(g) \notin Prompting
  BY DEF Place, Prompters
<1>3. Linked'
  BY <1>2 DEF input, TypeInv, Linked
<1> QED
  BY <1>1, <1>3 DEF TypeInv

\* A step of the prompts alone.
LEMMA PromptTypes ==
  ASSUME TypeInv, ManagerStep \/ \E g \in Prompters : Request(g) \/ Await(g)
  PROVE  TypeInv'
<1>1. UNCHANGED program /\ \A g \in Prompters : Place(g)' = Place(g)
  BY DEF ManagerStep, ManagerPrompts, ManagerAnswers, Request, Await, program, Place
<1> DEFINE Typed == /\ asking' \in [Prompters -> {"no", "requested", "waiting", "answered"}]
                    /\ requests' \in Seq(Prompters) /\ waiting' \in Seq(Prompters)
                    /\ manager' \in Prompters \cup {"nobody"} /\ overtaken' \in BOOLEAN
                    /\ \A g \in Prompters : asking'[g] # "no" => Place(g) \in Prompting
                    /\ Range(waiting') = {g \in Prompters : asking'[g] = "waiting"}
                    /\ IsInjective(waiting')
<1>2. SUFFICES Typed
  BY <1>1 DEF program, tables, room, TypeInv, TypeOK, Linked
<1>3. /\ asking \in [Prompters -> {"no", "requested", "waiting", "answered"}]
      /\ requests \in Seq(Prompters) /\ waiting \in Seq(Prompters)
      /\ manager \in Prompters \cup {"nobody"} /\ overtaken \in BOOLEAN
      /\ \A g \in Prompters : asking[g] # "no" => Place(g) \in Prompting
      /\ Range(waiting) = {g \in Prompters : asking[g] = "waiting"}
      /\ IsInjective(waiting)
  BY DEF TypeInv, TypeOK, Linked
<1>4. ASSUME NEW g \in Prompters, Request(g)
      PROVE  Typed
  <2>1. Append(requests, g) \in Seq(Prompters)
    BY <1>3, AppendRange
  <2>2. \A h \in Prompters : asking'[h] = IF h = g THEN "requested" ELSE asking[h]
    BY <1>3, <1>4 DEF Request
  <2>3. overtaken' \in BOOLEAN
    BY <1>4 DEF Request
  <2> QED
    BY <1>3, <1>4, <2>1, <2>2, <2>3 DEF Request, program
<1>5. ASSUME NEW g \in Prompters, Await(g)
      PROVE  Typed
  <2>1. /\ Append(waiting, g) \in Seq(Prompters)
        /\ Range(Append(waiting, g)) = Range(waiting) \cup {g}
        /\ g \notin Range(waiting) => IsInjective(Append(waiting, g))
    BY <1>3, AppendRange
  <2>2. \A h \in Prompters : asking'[h] = IF h = g THEN "waiting" ELSE asking[h]
    BY <1>3, <1>5 DEF Await
  <2>3. g \notin Range(waiting)
    BY <1>3, <1>5 DEF Await
  <2> QED
    BY <1>3, <1>5, <2>1, <2>2, <2>3 DEF Await
<1>6. CASE ManagerPrompts
  <2>1. Head(requests) \in Prompters /\ Tail(requests) \in Seq(Prompters)
    BY <1>3, <1>6, TailRange DEF ManagerPrompts
  <2> QED
    BY <1>3, <1>6, <2>1 DEF ManagerPrompts
<1>7. CASE ManagerAnswers
  <2>1. /\ Head(waiting) \in Prompters /\ Head(waiting) \in Range(waiting)
        /\ Tail(waiting) \in Seq(Prompters) /\ IsInjective(Tail(waiting))
        /\ Range(Tail(waiting)) = Range(waiting) \ {Head(waiting)}
    BY <1>3, <1>7, TailRange DEF ManagerAnswers
  <2>2. \A h \in Prompters : asking'[h] = IF h = Head(waiting) THEN "answered" ELSE asking[h]
    BY <1>3, <1>7 DEF ManagerAnswers
  <2> QED
    BY <1>3, <1>7, <2>1, <2>2 DEF ManagerAnswers
<1> QED
  BY <1>4, <1>5, <1>6, <1>7 DEF ManagerStep

LEMMA Places ==
  /\ "menu" \in Prompters /\ "reader" \in Prompters
  /\ Place("menu") = menu /\ Place("reader") = reader
  /\ Place("menu")' = menu' /\ Place("reader")' = reader'
  BY DEF Prompters, Place

\* A goroutine has its answer, and goes on where it does not ask.
LEMMA AnsweredTypes ==
  ASSUME TypeInv, NEW g \in Prompters, NEW place, Answered(g, place),
         menu' \in MenuPlaces, reader' \in ReaderPlaces, Place(g)' \notin Resetting,
         \A h \in Prompters \ {g} : Place(h)' = Place(h),
         menu' = "held" <=> reader' \in {"askHeld", "unblock"}
  PROVE  TypeInv'
<1>1. /\ asking \in [Prompters -> {"no", "requested", "waiting", "answered"}]
      /\ asking[g] = "answered" /\ Place(g) \in Prompting
      /\ asking' = [asking EXCEPT ![g] = "no"]
      /\ UNCHANGED <<logins, CurUsr, friends, groups, up, frd, gc, tokens, left,
                     panicked, twice, display, slot, retracting,
                     requests, waiting, manager, overtaken>>
  BY DEF Answered, tables, room, TypeInv, TypeOK, Linked
<1>2. \A h \in Prompters : asking'[h] = IF h = g THEN "no" ELSE asking[h]
  BY <1>1
<1>3. TypeOK'
  BY <1>1 DEF TypeInv, TypeOK
<1>4. \A h \in Prompters : left'[h] > 0 <=> Place(h)' \in Resetting
  <2>1. Place(g) \notin Resetting
    BY <1>1 DEF Prompting, Resetting
  <2> QED
    BY <1>1, <2>1 DEF TypeInv, Linked
<1>5. \A h \in Prompters : asking'[h] # "no" => Place(h)' \in Prompting
  BY <1>2 DEF TypeInv, Linked
<1>6. Range(waiting') = {h \in Prompters : asking'[h] = "waiting"} /\ IsInjective(waiting')
  BY <1>1, <1>2 DEF TypeInv, Linked
<1> QED
  BY <1>3, <1>4, <1>5, <1>6 DEF TypeInv, Linked

LEMMA PanicTypes ==
  ASSUME TypeInv, NEW g, NEW places, Panic(g, places)
  PROVE  TypeInv'
  BY DEF Panic, input, tables, room, TypeInv, TypeOK, Linked, Place

\* What a step of HandleLogOut leaves typed: g goes from one of its places to
\* another, and has tokens to send between its first reset and its last token.
LogOutEffect(g, place) ==
    /\ Place(g) \in LogOutPlaces /\ Go(g, place)
    /\ place \in Resetting <=> left'[g] > 0
    /\ left' \in [{"menu", "reader"} -> 0..3]
    /\ \A h \in Prompters \ {g} : left'[h] = left[h]
    /\ tokens' \in 0..Capacity /\ CurUsr' \in BOOLEAN /\ up' \in BOOLEAN
    /\ friends' \in BOOLEAN /\ groups' \in BOOLEAN /\ twice' \in BOOLEAN
    /\ UNCHANGED <<logins, frd, gc, panicked, display, slot, retracting, input>>

LEMMA LogOutTypes ==
  ASSUME TypeInv, NEW g \in Prompters, HandleLogOut(g)
  PROVE  TypeInv'
<1>1. PICK place \in {"gone"} \cup LogOutPlaces : LogOutEffect(g, place)
  <2>1. /\ left \in [{"menu", "reader"} -> 0..3] /\ g \in {"menu", "reader"}
        /\ Place(g) \in Resetting <=> left[g] > 0
        /\ tokens \in 0..Capacity /\ CurUsr \in BOOLEAN /\ up \in BOOLEAN
        /\ friends \in BOOLEAN /\ groups \in BOOLEAN /\ twice \in BOOLEAN
    BY DEF TypeInv, TypeOK, Linked, Prompters
  <2> USE DEF LogOutEffect, LogOutPlaces, Resetting, tables, room
  <2>2. CASE CloseConn(g)
    <3>1. /\ Place(g) = "close" /\ up' = FALSE /\ Go(g, "reset")
          /\ twice' = (twice \/ {menu, reader} \subseteq LogOutPlaces)
          /\ UNCHANGED <<logins, CurUsr, friends, groups, frd, gc, tokens, left,
                         panicked, display, slot, retracting, input>>
      BY <2>2 DEF CloseConn
    <3>2. twice' \in BOOLEAN
      BY <3>1
    <3> QED
      BY <2>1, <3>1, <3>2
  <2>3. CASE ResetUser(g)
    <3>1. left' = [left EXCEPT ![g] = 3]
      BY <2>3 DEF ResetUser
    <3>2. left'[g] = 3 /\ left' \in [{"menu", "reader"} -> 0..3]
          /\ \A h \in Prompters \ {g} : left'[h] = left[h]
      BY <2>1, <3>1 DEF Prompters
    <3>3. /\ Go(g, "resetFrd") /\ Place(g) = "reset" /\ CurUsr' = FALSE
          /\ UNCHANGED <<logins, friends, groups, up, frd, gc, tokens, panicked,
                         twice, display, slot, retracting, input>>
      BY <2>3 DEF ResetUser
    <3>4. left'[g] > 0 /\ "resetFrd" \in Resetting /\ "resetFrd" \in LogOutPlaces
      BY <3>2
    <3>5. CurUsr' \in BOOLEAN
      BY <3>3
    <3>6. LogOutEffect(g, "resetFrd")
      BY <2>1, <3>2, <3>3, <3>4, <3>5
    <3> QED
      BY <3>4, <3>6
  <2>4. CASE NewFriendMgr(g) \/ NewGroupChatMgr(g)
    <3>1. /\ Place(g) \in Resetting
          /\ Go(g, "resetGC") \/ Go(g, "token")
          /\ friends' \in BOOLEAN /\ groups' \in BOOLEAN
          /\ UNCHANGED <<logins, CurUsr, up, frd, gc, tokens, left, panicked,
                         twice, display, slot, retracting, input>>
      BY <2>1, <2>4 DEF NewFriendMgr, NewGroupChatMgr
    <3> QED
      BY <2>1, <3>1
  <2>5. CASE SendToken(g)
    <3>1. left'[g] = left[g] - 1 /\ left[g] \in 1..3
          /\ \A h \in Prompters \ {g} : left'[h] = left[h]
      BY <2>1, <2>5 DEF SendToken, Prompters
    <3>2. left' \in [{"menu", "reader"} -> 0..3]
      BY <2>1, <2>5, <3>1 DEF SendToken
    <3>3. tokens' \in 0..Capacity
      BY <2>1, <2>5, ClientSessionAssumption DEF SendToken
    <3>4. /\ Place(g) = "token"
          /\ Go(g, IF left[g] = 1 THEN "gone" ELSE "token")
          /\ UNCHANGED <<logins, CurUsr, friends, groups, up, frd, gc, panicked,
                         twice, display, slot, retracting, input>>
      BY <2>5 DEF SendToken
    <3>5. CASE left[g] = 1
      BY <2>1, <3>1, <3>2, <3>3, <3>4, <3>5
    <3>6. CASE left[g] # 1
      BY <2>1, <3>1, <3>2, <3>3, <3>4, <3>6
    <3> QED
      BY <3>5, <3>6
  <2> QED
    BY <2>2, <2>3, <2>4, <2>5 DEF HandleLogOut
<1>2. Linked /\ TypeOK
  BY DEF TypeInv
<1>3. LogOutPlaces \cap (Prompting \cup {"held", "askHeld", "unblock"}) = {}
      /\ "gone" \notin {"held", "askHeld", "unblock"}
      /\ {"gone"} \cup LogOutPlaces \subseteq MenuPlaces \cap ReaderPlaces
      /\ Resetting \subseteq LogOutPlaces
  BY DEF LogOutPlaces, Resetting, Prompting, MenuPlaces, ReaderPlaces
<1>6. /\ place \in Resetting <=> left'[g] > 0
      /\ left' \in [{"menu", "reader"} -> 0..3]
      /\ tokens' \in 0..Capacity /\ CurUsr' \in BOOLEAN /\ up' \in BOOLEAN
      /\ friends' \in BOOLEAN /\ groups' \in BOOLEAN /\ twice' \in BOOLEAN
      /\ UNCHANGED <<logins, frd, gc, panicked, display, slot, retracting, input>>
  BY <1>1 DEF LogOutEffect
<1>4. CASE g = "menu"
  <2>1. /\ menu' = place /\ reader' = reader /\ menu \in LogOutPlaces
        /\ left'["reader"] = left["reader"]
    BY <1>1, <1>4 DEF LogOutEffect, Go, Place, Prompters
  <2>2. /\ menu' = "held" <=> reader' \in {"askHeld", "unblock"}
        /\ left'["reader"] > 0 <=> reader' \in Resetting
        /\ menu \notin Prompting
    BY <1>2, <1>3, <2>1, Places DEF Linked
  <2> QED
    BY <1>1, <1>2, <1>3, <1>4, <1>6, <2>1, <2>2, ProgramTypes DEF TypeOK
<1>5. CASE g = "reader"
  <2>1. /\ reader' = place /\ menu' = menu /\ reader \in LogOutPlaces
        /\ left'["menu"] = left["menu"]
    BY <1>1, <1>5 DEF LogOutEffect, Go, Place, Prompters
  <2>2. /\ menu' = "held" <=> reader' \in {"askHeld", "unblock"}
        /\ left'["menu"] > 0 <=> menu' \in Resetting
        /\ reader \notin Prompting
    BY <1>2, <1>3, <2>1, Places DEF Linked
  <2> QED
    BY <1>1, <1>2, <1>3, <1>5, <1>6, <2>1, <2>2, ProgramTypes DEF TypeOK
<1> QED
  BY <1>4, <1>5 DEF Prompters

LEMMA MenuTypes ==
  ASSUME TypeInv, MenuStep
  PROVE  TypeInv'
<1> USE DEF MenuPlaces, ReaderPlaces, LogOutPlaces, Resetting
<1>1. Linked /\ TypeOK
  BY DEF TypeInv
<1>2. CASE MenuTakesToken \/ MenuIsHeld \/ MenuIsReleased \/ MenuPrompts
           \/ MenuSends \/ MenuClearsUnread \/ EnterRoom \/ TypeQuit \/ LeaveRoom
  <2>1. /\ UNCHANGED <<input, logins, CurUsr, friends, groups, up, frd, gc, left,
                       panicked, twice, slot>>
        /\ tokens' \in 0..Capacity
        /\ display' \in {"gone", "loop", "offering"} /\ retracting' \in Nat
    BY <1>1, <1>2, ClientSessionAssumption
       DEF MenuTakesToken, MenuIsHeld, MenuIsReleased, MenuPrompts, MenuSends,
           MenuClearsUnread, EnterRoom, TypeQuit, LeaveRoom, OnTheirOwn, tables,
           room, TypeOK
  <2>2. /\ menu' \in MenuPlaces \ Resetting /\ reader' \in ReaderPlaces
        /\ menu \notin Prompting \cup Resetting
        /\ \/ reader' = reader
           \/ reader \notin Prompting \cup Resetting /\ reader' \notin Resetting
        /\ menu' = "held" <=> reader' \in {"askHeld", "unblock"}
    BY <1>1, <1>2
       DEF MenuTakesToken, MenuIsHeld, MenuIsReleased, MenuPrompts, MenuSends,
           MenuClearsUnread, EnterRoom, TypeQuit, LeaveRoom, TypeOK, Linked, Prompting
  <2> QED
    BY <1>1, <2>1, <2>2, ProgramTypes, Places DEF TypeOK, Linked
<1>3. ASSUME NEW place \in Prompting, Answered("menu", place), UNCHANGED reader,
             menu' \in MenuPlaces \ (Resetting \cup {"held"})
      PROVE  TypeInv'
  <2>1. reader \in ReaderPlaces \ {"askHeld", "unblock"}
    BY <1>1, <1>3 DEF Answered, Place, TypeOK, Linked, Prompting
  <2>2. \A h \in Prompters \ {"menu"} : Place(h)' = Place(h)
    BY <1>3 DEF Place, Prompters
  <2> QED
    BY <1>3, <2>1, <2>2, AnsweredTypes, Places
<1>4. CASE MenuAnswered \/ FriendAnswered \/ GroupAnswered \/ GroupOptionAnswered
           \/ MemberAnswered
  BY <1>3, <1>4 DEF MenuAnswered, FriendAnswered, GroupAnswered, GroupOptionAnswered,
                    MemberAnswered, Prompting
<1>8. CASE AskedAgain("menu", "member")
  <2>1. menu = "member"
    BY <1>8, Places DEF AskedAgain, Answered
  <2> QED
    BY <1>3, <1>8, <2>1 DEF AskedAgain, Prompting
<1>5. CASE Request("menu") \/ Await("menu")
  BY <1>5, PromptTypes, Places
<1>6. CASE HandleLogOut("menu")
  BY <1>6, LogOutTypes, Places
<1>7. CASE MenuPanics
  BY <1>7, PanicTypes, Places DEF MenuPanics
<1> QED
  BY <1>2, <1>4, <1>5, <1>6, <1>7, <1>8 DEF MenuStep

LEMMA ReaderTypes ==
  ASSUME TypeInv, ReaderReads \/ ReaderStep
  PROVE  TypeInv'
<1> USE DEF MenuPlaces, ReaderPlaces, LogOutPlaces, Resetting
<1>1. Linked /\ TypeOK
  BY DEF TypeInv
<1>2. CASE ReaderReads \/ ReaderEnds \/ HandleAddFriendResMes \/ HandleGroupManageResMes
           \/ FindSlot \/ FindNoSlot \/ TransferGCMes \/ HandOver
           \/ CountForFriend \/ CountForGroup \/ CountedForGroup \/ ReaderTells
  <2>1. /\ UNCHANGED <<input, logins, CurUsr, friends, groups, up, left, panicked,
                       twice, tokens, menu, retracting>>
        /\ frd' \in {"select", "gone"} /\ gc' \in {"select", "done", "gone"}
        /\ display' \in {"gone", "loop", "offering"} /\ slot' \in BOOLEAN
    BY <1>1, <1>2
       DEF ReaderReads, ReaderEnds, HandleAddFriendResMes, HandleGroupManageResMes,
           FindSlot, FindNoSlot, TransferGCMes, HandOver,
           CountForFriend, CountForGroup, CountedForGroup, ReaderTells, OnTheirOwn,
           tables, room, TypeOK
  <2>0. ASSUME NEW type \in Traffic \cup {"kick"}
        PROVE  Handling(type) \in ReaderPlaces \ (Resetting \cup {"askHeld", "unblock"})
    <3>1. type \in {"friendRequest", "groupRequest", "chat", "groupChat", "status",
                    "friendAnswer", "groupAnswer", "kick"}
      BY ClientSessionAssumption
    <3> QED
      BY <3>1 DEF Handling
  <2>2. reader' \in ReaderPlaces \ (Resetting \cup {"askHeld", "unblock"})
        /\ reader \notin Prompting \cup Resetting \cup {"unblock"}
    BY <1>2, <2>0
       DEF ReaderReads, ReaderEnds, HandleAddFriendResMes, HandleGroupManageResMes,
           FindSlot, FindNoSlot, TransferGCMes, HandOver,
           CountForFriend, CountForGroup, CountedForGroup, ReaderTells, Prompting
  <2>3. menu # "held"
    BY <1>1, <2>2 DEF Linked, Prompting
  <2> QED
    BY <1>1, <2>1, <2>2, <2>3, ProgramTypes, Places DEF TypeOK, Linked
<1>3. CASE \/ HandleGroupManageMes \/ HandleAddFriendRequest
           \/ AskedAgain("reader", "ask") \/ AskedAgain("reader", "askHeld")
  <2>1. \E place \in Prompting : Answered("reader", place)
    BY <1>3 DEF HandleGroupManageMes, HandleAddFriendRequest, AskedAgain, Prompting
  <2>2. /\ UNCHANGED menu /\ reader' \in {"read", "unblock", "ask", "askHeld"}
        /\ reader' \in {"askHeld", "unblock"} <=> reader = "askHeld"
        /\ reader # "unblock"
    BY <1>3, Places DEF HandleGroupManageMes, HandleAddFriendRequest, AskedAgain, Answered
  <2>3. \A h \in Prompters \ {"reader"} : Place(h)' = Place(h)
    BY <2>2 DEF Place, Prompters
  <2>4. menu' = "held" <=> reader' \in {"askHeld", "unblock"}
    BY <1>1, <2>2 DEF Linked
  <2>5. menu' \in MenuPlaces /\ reader' \in ReaderPlaces \ Resetting
    BY <1>1, <2>2 DEF TypeOK
  <2> QED
    BY <2>1, <2>3, <2>4, <2>5, AnsweredTypes, Places
<1>4. CASE Request("reader") \/ Await("reader")
  BY <1>4, PromptTypes, Places
<1>5. CASE HandleLogOut("reader")
  BY <1>5, LogOutTypes, Places
<1>6. CASE ReaderPanics
  BY <1>6, PanicTypes, Places DEF ReaderPanics, DecisionPanics
<1> QED
  BY <1>2, <1>3, <1>4, <1>5, <1>6 DEF ReaderStep

LEMMA ClientTypeStep ==
  ASSUME TypeInv, [Next]_vars
  PROVE  TypeInv'
<1>1. Linked /\ TypeOK
  BY DEF TypeInv
<1>2. CASE UNCHANGED vars
  BY <1>2 DEF vars, input, tables, room, TypeInv, TypeOK, Linked, Place
<1>3. CASE Login
  <2>1. menu = "gone" /\ reader = "gone"
    BY <1>3 DEF Login, InSession
  <2>2. /\ UNCHANGED <<input, tokens, left, panicked, twice, display, slot, retracting>>
        /\ friends' = TRUE /\ groups' = TRUE
        /\ menu' = "select" /\ reader' = "read" /\ logins' \in 0..MaxLogins
        /\ frd' = "select" /\ gc' = "select" /\ CurUsr' = TRUE /\ up' = TRUE
    BY <1>1, <1>3, ClientSessionAssumption DEF Login, room, TypeOK
  <2> QED
    BY <1>1, <2>1, <2>2, ProgramTypes, Places
       DEF TypeOK, Linked, MenuPlaces, ReaderPlaces, Prompting, Resetting
<1>4. CASE ServerCloses
  <2>1. UNCHANGED <<input, logins, CurUsr, tables, left, panicked, twice, menu, reader,
                    frd, gc, tokens, room>> /\ up' \in BOOLEAN
    BY <1>4 DEF ServerCloses
  <2> QED
    BY <1>1, <2>1, ProgramTypes, Places DEF tables, room, TypeOK, Linked
<1>5. CASE FrdTakesToken \/ GCTakesToken
  <2>1. tokens' \in 0..Capacity
    BY <1>1, <1>5, ClientSessionAssumption DEF FrdTakesToken, GCTakesToken, TypeOK
  <2>2. /\ UNCHANGED <<input, logins, CurUsr, tables, up, left, panicked, twice,
                       menu, reader, room>>
        /\ frd' \in {"select", "gone"} /\ gc' \in {"select", "done", "gone"}
    BY <1>1, <1>5 DEF FrdTakesToken, GCTakesToken, OnTheirOwn, TypeOK
  <2> QED
    BY <1>1, <2>1, <2>2, ProgramTypes, Places DEF tables, room, TypeOK, Linked
<1>6. CASE Offer \/ Retract
  <2>1. display' \in {"gone", "loop", "offering"} /\ retracting' \in Nat
    BY <1>1, <1>6 DEF Offer, Retract, TypeOK
  <2>3. slot' \in BOOLEAN
    BY <1>6 DEF Offer, Retract
  <2>2. UNCHANGED <<input, logins, CurUsr, tables, up, left, panicked, twice, menu,
                    reader, frd, gc, tokens>>
    BY <1>6 DEF Offer, Retract, OnTheirOwn
  <2> QED
    BY <1>1, <2>1, <2>2, <2>3, ProgramTypes, Places DEF tables, TypeOK, Linked
<1> QED
  BY <1>2, <1>3, <1>4, <1>5, <1>6, PromptTypes, MenuTypes, ReaderTypes DEF Next

\* Every variable of a login has its type: in particular logOutChan never
\* holds more than its capacity, and no goroutine sends a fourth token.
THEOREM ClientTypeCorrect == Spec => []TypeOK
<1>1. TypeInv => TypeOK
  BY DEF TypeInv
<1>2. TypeInv /\ [Next]_vars => TypeInv'
  BY ClientTypeStep
<1> QED
  BY <1>1, <1>2, ClientTypeInit, PTL DEF Spec

-----------------------------------------------------------------------------
(* The tokens.  After a logout there is one more for the menu, unless it   *)
(* has gone or is in HandleLogOut itself.                                  *)

Ones(b) == IF b THEN 1 ELSE 0

Takers == Ones(frd # "gone") + Ones(gc # "gone")
          + Ones(menu \notin {"gone"} \cup LogOutPlaces)

TokenInv == ~CurUsr => tokens + left["menu"] + left["reader"] >= Takers

LEMMA TokenSteps ==
  ASSUME TypeInv, [Next]_vars
  PROVE  \/ CurUsr'
         \/ \E g \in Prompters : ResetUser(g) \/ SendToken(g)
         \/ FrdTakesToken \/ GCTakesToken \/ MenuTakesToken
         \/ /\ UNCHANGED <<tokens, left, CurUsr, frd>>
            /\ gc' = "gone" <=> gc = "gone"
            /\ menu' \in {"gone"} \cup LogOutPlaces
                 \/ menu \notin {"gone"} \cup LogOutPlaces
<1>1. CASE UNCHANGED vars
  BY <1>1 DEF vars, input
<1>2. CASE Login
  BY <1>2 DEF Login
<1>3. CASE ServerCloses \/ ReaderReads \/ ReaderEnds \/ HandleAddFriendResMes
           \/ HandleGroupManageResMes \/ CountForFriend \/ CountForGroup
           \/ CountedForGroup \/ ReaderTells \/ FindSlot \/ FindNoSlot
           \/ TransferGCMes \/ HandOver \/ Offer \/ Retract
  BY <1>3 DEF ServerCloses, ReaderReads, ReaderEnds, HandleAddFriendResMes,
              HandleGroupManageResMes, CountForFriend, CountForGroup,
              CountedForGroup, ReaderTells, FindSlot, FindNoSlot, TransferGCMes,
              HandOver, Offer, Retract
<1>4. CASE MenuIsHeld \/ MenuIsReleased \/ MenuPrompts \/ MenuSends \/ MenuClearsUnread
           \/ EnterRoom \/ TypeQuit \/ LeaveRoom
  BY <1>4 DEF MenuIsHeld, MenuIsReleased, MenuPrompts, MenuSends, MenuClearsUnread,
              EnterRoom, TypeQuit, LeaveRoom, LogOutPlaces, Resetting
<1>5. ASSUME NEW g \in Prompters, NEW place \in Prompting, Answered(g, place),
             g = "reader" => menu' = menu
      PROVE  /\ UNCHANGED <<tokens, left, CurUsr, frd, gc>>
             /\ menu' = menu \/ menu \notin {"gone"} \cup LogOutPlaces
  BY <1>5, Places DEF Answered, Prompters, Prompting, LogOutPlaces, Resetting
<1>6. CASE MenuAnswered \/ FriendAnswered \/ GroupAnswered \/ GroupOptionAnswered
           \/ MemberAnswered
  BY <1>5, <1>6, Places DEF MenuAnswered, FriendAnswered, GroupAnswered,
     GroupOptionAnswered, MemberAnswered, Prompting
<1>7. CASE \/ HandleGroupManageMes \/ HandleAddFriendRequest
           \/ AskedAgain("menu", "member")
           \/ AskedAgain("reader", "ask") \/ AskedAgain("reader", "askHeld")
  BY <1>5, <1>7, Places
     DEF HandleGroupManageMes, HandleAddFriendRequest, AskedAgain, Prompting
<1>11. ASSUME NEW g \in Prompters, NewFriendMgr(g) \/ NewGroupChatMgr(g)
       PROVE  /\ UNCHANGED <<tokens, left, CurUsr, frd, gc>>
              /\ menu' = menu \/ menu' \in LogOutPlaces
  BY <1>11 DEF NewFriendMgr, NewGroupChatMgr, Go, LogOutPlaces, Resetting
<1>8. CASE ManagerStep \/ \E g \in Prompters : Request(g) \/ Await(g)
  BY <1>8 DEF ManagerStep, ManagerPrompts, ManagerAnswers, Request, Await, program
<1>9. ASSUME NEW g \in Prompters, CloseConn(g)
      PROVE  CurUsr'
  BY <1>9 DEF CloseConn
<1>10. CASE MenuPanics \/ ReaderPanics
  BY <1>10 DEF MenuPanics, ReaderPanics, DecisionPanics, Panic
<1> QED
  BY <1>1, <1>2, <1>3, <1>4, <1>6, <1>7, <1>8, <1>9, <1>10, <1>11, Places
     DEF Next, MenuStep, ReaderStep, HandleLogOut

LEMMA TokenStep ==
  ASSUME TypeInv, TokenInv, [Next]_vars
  PROVE  TokenInv'
<1>1. /\ tokens \in Nat /\ left["menu"] \in Nat /\ left["reader"] \in Nat
      /\ left \in [{"menu", "reader"} -> 0..3] /\ CurUsr \in BOOLEAN
      /\ frd \in {"select", "gone"} /\ gc \in {"select", "done", "gone"}
  BY ClientSessionAssumption DEF TypeInv, TypeOK
<1>2. /\ tokens' \in Nat /\ left'["menu"] \in Nat /\ left'["reader"] \in Nat
  BY ClientTypeStep, ClientSessionAssumption DEF TypeInv, TypeOK
<1>3. Takers \in 0..3 /\ Takers' \in 0..3
  BY DEF Takers, Ones
<1>4. ASSUME NEW g \in Prompters, ResetUser(g)
      PROVE  TokenInv'
  <2>1. left'[g] = 3
    BY <1>1, <1>4 DEF ResetUser, Prompters
  <2> QED
    BY <1>2, <1>3, <2>1 DEF TokenInv, Prompters
<1>5. ASSUME NEW g \in Prompters, SendToken(g)
      PROVE  TokenInv'
  <2>1. tokens' = tokens + 1 /\ left'[g] = left[g] - 1
        /\ \A h \in Prompters \ {g} : left'[h] = left[h]
    BY <1>1, <1>5 DEF SendToken, Prompters
  <2>2. tokens' + left'["menu"] + left'["reader"] = tokens + left["menu"] + left["reader"]
    BY <1>1, <2>1 DEF Prompters
  <2>3. Takers' <= Takers
    <3>1. UNCHANGED <<frd, gc>> /\ (menu' = menu \/ menu' \in {"gone", "token"})
      BY <1>5 DEF SendToken, Go
    <3> QED
      BY <3>1 DEF Takers, Ones, LogOutPlaces, Resetting
  <2>4. CurUsr' = CurUsr
    BY <1>5 DEF SendToken
  <2> QED
    BY <1>1, <1>2, <1>3, <2>2, <2>3, <2>4 DEF TokenInv
<1>6. CASE FrdTakesToken \/ GCTakesToken \/ MenuTakesToken
  <2>1. tokens' = tokens - 1 /\ UNCHANGED <<left, CurUsr>>
    BY <1>6 DEF FrdTakesToken, GCTakesToken, MenuTakesToken
  <2>2. Takers' = Takers - 1
    BY <1>6 DEF FrdTakesToken, GCTakesToken, MenuTakesToken, Takers, Ones, LogOutPlaces, Resetting
  <2> QED
    BY <1>1, <1>3, <2>1, <2>2 DEF TokenInv
<1>7. CASE /\ UNCHANGED <<tokens, left, CurUsr, frd>>
           /\ gc' = "gone" <=> gc = "gone"
           /\ menu' \in {"gone"} \cup LogOutPlaces
                \/ menu \notin {"gone"} \cup LogOutPlaces
  <2>1. Takers' <= Takers
    BY <1>7 DEF Takers, Ones
  <2> QED
    BY <1>1, <1>3, <1>7, <2>1 DEF TokenInv
<1>8. CASE CurUsr'
  BY <1>8 DEF TokenInv
<1> QED
  BY <1>4, <1>5, <1>6, <1>7, <1>8, TokenSteps

\* After HandleLogOut has begun to send its tokens there is one, sent or yet
\* to be sent, for each goroutine that counts unread messages and is still
\* there, although the menu takes one too.
THEOREM CountersAreTold == Spec => []TokenForEachCounter
<1>1. Init => TypeInv /\ TokenInv
  BY ClientTypeInit DEF Init, TokenInv, Takers, Ones, LogOutPlaces, Resetting
<1>2. TypeInv /\ TokenInv /\ [Next]_vars => (TypeInv /\ TokenInv)'
  BY ClientTypeStep, TokenStep
<1>3. TypeInv /\ TokenInv => TokenForEachCounter
  <2> SUFFICES ASSUME TypeInv, TokenInv PROVE TokenForEachCounter
    OBVIOUS
  <2>1. tokens \in Nat /\ left["menu"] \in Nat /\ left["reader"] \in Nat
    BY ClientSessionAssumption DEF TypeInv, TypeOK
  <2> QED
    BY <2>1 DEF TokenInv, Takers, Ones, TokenForEachCounter
<1> QED
  BY <1>1, <1>2, <1>3, PTL DEF Spec

-----------------------------------------------------------------------------
(* The prompts.  As long as no goroutine asks between the request and the  *)
(* wait of the other, those that wait are in the order of the prompts, and *)
(* at most the last one to ask does not wait yet.                          *)

Queue == IF manager = "nobody" THEN requests ELSE <<manager>> \o requests

InOrder ==
    ~overtaken =>
        \/ /\ Queue = waiting
           /\ \A g \in Prompters : asking[g] # "requested"
        \/ \E g \in Prompters :
              /\ Queue = Append(waiting, g) /\ asking[g] = "requested"
              /\ \A h \in Prompters \ {g} : asking[h] # "requested"

LEMMA Rotations ==
  ASSUME NEW S, NEW s \in Seq(S), NEW e \in S, NEW d \in S
  PROVE  /\ s # <<>> => <<Head(s)>> \o Tail(s) = s
         /\ <<e>> \o s # <<>> /\ Head(<<e>> \o s) = e /\ Tail(<<e>> \o s) = s
         /\ Append(<<e>> \o s, d) = <<e>> \o Append(s, d)
         /\ s # <<>> => /\ Head(Append(s, d)) = Head(s)
                        /\ Tail(Append(s, d)) = Append(Tail(s), d)
  OBVIOUS

\* Only the prompts themselves change their order.
LEMMA InputSteps ==
  ASSUME TypeInv, [Next]_vars
  PROVE  \/ ManagerStep
         \/ \E g \in Prompters : Request(g) \/ Await(g)
         \/ \E g \in Prompters, place \in Prompting : Answered(g, place)
         \/ UNCHANGED input
<1>1. CASE UNCHANGED vars
  BY <1>1 DEF vars
<1>2. CASE Login \/ ServerCloses \/ ReaderReads \/ FrdTakesToken \/ GCTakesToken
           \/ Offer \/ Retract
  BY <1>2 DEF Login, ServerCloses, ReaderReads, FrdTakesToken, GCTakesToken, Offer,
              Retract, OnTheirOwn
<1>3. ASSUME NEW g \in Prompters, HandleLogOut(g)
      PROVE  UNCHANGED input
  BY <1>3 DEF HandleLogOut, CloseConn, ResetUser, NewFriendMgr, NewGroupChatMgr, SendToken
<1>4. CASE MenuPanics \/ ReaderPanics
  BY <1>4 DEF MenuPanics, ReaderPanics, DecisionPanics, Panic
<1>5. CASE MenuTakesToken \/ MenuIsHeld \/ MenuIsReleased \/ MenuPrompts
           \/ MenuSends \/ MenuClearsUnread \/ EnterRoom \/ TypeQuit \/ LeaveRoom
  BY <1>5 DEF MenuTakesToken, MenuIsHeld, MenuIsReleased, MenuPrompts, MenuSends,
              MenuClearsUnread, EnterRoom, TypeQuit, LeaveRoom, OnTheirOwn
<1>6. CASE ReaderEnds \/ HandleAddFriendResMes \/ HandleGroupManageResMes
           \/ CountForFriend \/ CountForGroup \/ CountedForGroup \/ ReaderTells
           \/ FindSlot \/ FindNoSlot \/ TransferGCMes \/ HandOver
  BY <1>6 DEF ReaderEnds, HandleAddFriendResMes, HandleGroupManageResMes,
              CountForFriend, CountForGroup, CountedForGroup, ReaderTells, FindSlot,
              FindNoSlot, TransferGCMes, HandOver, OnTheirOwn
<1>7. CASE MenuAnswered \/ FriendAnswered \/ GroupAnswered \/ GroupOptionAnswered
           \/ MemberAnswered \/ HandleGroupManageMes \/ HandleAddFriendRequest
           \/ AskedAgain("menu", "member")
           \/ AskedAgain("reader", "ask") \/ AskedAgain("reader", "askHeld")
  <2>1. {"prompt", "friend", "group", "groupOption", "leaderOption", "member", "ask",
         "askHeld"} = Prompting
    BY DEF Prompting
  <2> QED
    BY <1>7, <2>1, Places
       DEF MenuAnswered, FriendAnswered, GroupAnswered, GroupOptionAnswered,
           MemberAnswered, HandleGroupManageMes, HandleAddFriendRequest, AskedAgain
<1> QED
  BY <1>1, <1>2, <1>3, <1>4, <1>5, <1>6, <1>7, Places DEF Next, MenuStep, ReaderStep

LEMMA OrderStep ==
  ASSUME TypeInv, InOrder, [Next]_vars
  PROVE  InOrder'
<1>1. /\ asking \in [Prompters -> {"no", "requested", "waiting", "answered"}]
      /\ requests \in Seq(Prompters) /\ waiting \in Seq(Prompters)
      /\ manager \in Prompters \cup {"nobody"} /\ overtaken \in BOOLEAN
      /\ Range(waiting) = {g \in Prompters : asking[g] = "waiting"}
      /\ "nobody" \notin Prompters
  BY DEF TypeInv, TypeOK, Linked, Prompters
<1>2. CASE UNCHANGED input
  BY <1>2 DEF input, InOrder, Queue
<1>3. ASSUME NEW g \in Prompters, NEW place \in Prompting, Answered(g, place)
      PROVE  InOrder'
  <2>1. /\ UNCHANGED <<requests, waiting, manager, overtaken>>
        /\ \A h \in Prompters : asking'[h] = "requested" <=> asking[h] = "requested"
    BY <1>1, <1>3 DEF Answered
  <2>2. Queue' = Queue
    BY <2>1 DEF Queue
  <2> QED
    BY <2>1, <2>2 DEF InOrder
<1>4. ASSUME NEW g \in Prompters, Request(g)
      PROVE  InOrder'
  <2> SUFFICES ASSUME ~overtaken' PROVE InOrder'
    BY DEF InOrder
  <2>1. /\ asking[g] = "no" /\ UNCHANGED <<waiting, manager>>
        /\ requests' = Append(requests, g)
        /\ \A h \in Prompters : asking'[h] = IF h = g THEN "requested" ELSE asking[h]
        /\ \A h \in Prompters : asking[h] # "requested"
        /\ overtaken => Calm
    BY <1>1, <1>4 DEF Request, program
  <2>2. Queue = waiting
    <3>1. CASE overtaken
      BY <2>1, <3>1 DEF Calm, Queue
    <3>2. CASE ~overtaken
      BY <2>1, <3>2 DEF InOrder
    <3> QED
      BY <3>1, <3>2
  <2>3. Queue' = Append(Queue, g)
    BY <1>1, <2>1, Rotations DEF Queue
  <2> QED
    BY <2>1, <2>2, <2>3 DEF InOrder
<1>5. ASSUME NEW g \in Prompters, Await(g)
      PROVE  InOrder'
  <2>1. /\ asking[g] = "requested" /\ UNCHANGED <<requests, manager, overtaken>>
        /\ waiting' = Append(waiting, g)
        /\ \A h \in Prompters : asking'[h] = IF h = g THEN "waiting" ELSE asking[h]
    BY <1>1, <1>5 DEF Await
  <2>2. Queue' = Queue
    BY <2>1 DEF Queue
  <2>3. ~overtaken => Queue = Append(waiting, g)
                      /\ \A h \in Prompters \ {g} : asking[h] # "requested"
    BY <2>1 DEF InOrder
  <2> QED
    BY <2>1, <2>2, <2>3 DEF InOrder
<1>6. CASE ManagerPrompts
  <2>1. /\ manager = "nobody" /\ requests # <<>> /\ UNCHANGED <<asking, waiting, overtaken>>
        /\ manager' = Head(requests) /\ requests' = Tail(requests)
    BY <1>6 DEF ManagerPrompts
  <2>2. Head(requests) # "nobody"
    BY <1>1, <2>1, TailRange
  <2>3. Queue' = Queue
    BY <1>1, <2>1, <2>2, Rotations DEF Queue
  <2> QED
    BY <2>1, <2>3 DEF InOrder
<1>7. CASE ManagerAnswers
  <2>1. /\ manager # "nobody" /\ waiting # <<>> /\ UNCHANGED <<requests, overtaken>>
        /\ waiting' = Tail(waiting) /\ manager' = "nobody"
        /\ asking' = [asking EXCEPT ![Head(waiting)] = "answered"]
    BY <1>7 DEF ManagerAnswers
  <2>2. Head(waiting) \in Prompters /\ asking[Head(waiting)] = "waiting"
    BY <1>1, <2>1, TailRange
  <2>3. \A h \in Prompters : asking'[h] = "requested" <=> asking[h] = "requested"
    BY <1>1, <2>1, <2>2
  <2>4. Queue' = Tail(Queue)
    BY <1>1, <2>1, Rotations DEF Queue
  <2>5. \A g \in Prompters : Tail(Append(waiting, g)) = Append(Tail(waiting), g)
    BY <1>1, <2>1, Rotations
  <2> QED
    BY <2>1, <2>3, <2>4, <2>5 DEF InOrder
<1> QED
  BY <1>2, <1>3, <1>4, <1>5, <1>6, <1>7, InputSteps DEF ManagerStep

\* An integer goes to the goroutine whose prompt it answers, unless one has
\* asked between the other's request and its wait on IntResChan; and while
\* the reader asks about a friend's request, the menu asks nothing.
THEOREM AnswersAreTaken == Spec => []AnswersReachTheirPrompt
<1>1. Init => TypeInv /\ InOrder
  <2>1. Init => InOrder
    BY DEF Init, InOrder, Queue
  <2> QED
    BY <2>1, ClientTypeInit
<1>2. TypeInv /\ InOrder /\ [Next]_vars => (TypeInv /\ InOrder)'
  BY ClientTypeStep, OrderStep
<1>3. TypeInv /\ InOrder => AnswersReachTheirPrompt
  <2> SUFFICES ASSUME TypeInv, InOrder PROVE AnswersReachTheirPrompt
    OBVIOUS
  <2>1. /\ requests \in Seq(Prompters) /\ waiting \in Seq(Prompters)
        /\ manager \in Prompters \cup {"nobody"}
    BY DEF TypeInv, TypeOK
  <2>2. ASSUME manager # "nobody", waiting # <<>>, ~overtaken
        PROVE  Head(waiting) = manager
    <3>1. Head(Queue) = manager
      BY <2>1, <2>2, Rotations DEF Queue
    <3>2. Queue = waiting \/ \E g \in Prompters : Queue = Append(waiting, g)
      BY <2>2 DEF InOrder
    <3> QED
      BY <2>1, <2>2, <3>1, <3>2, Rotations
  <2>3. reader = "askHeld" => asking["menu"] = "no"
    BY Places DEF TypeInv, Linked, Prompting
  <2> QED
    BY <2>2, <2>3 DEF AnswersReachTheirPrompt
<1> QED
  BY <1>1, <1>2, <1>3, PTL DEF Spec
=============================================================================
