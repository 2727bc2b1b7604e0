--------------------------- MODULE ClientSession ---------------------------
(***************************************************************************)
(* The goroutines of one login of the client (client/main/main.go,         *)
(* client/processes/server.go) and the channels that tie them together:    *)
(* ShowMenu, ProcessServerMes (the reader), the two goroutines that count  *)
(* unread messages and the display of a room (GroupChatView has its        *)
(* messages).  The channels are global: a token of logOutChan that nobody  *)
(* takes is there at the next login.  The menu and the reader also share   *)
(* the goroutine that reads integers from the keyboard; what strings and   *)
(* texts they prompt for is left out.                                      *)
(***************************************************************************)
EXTENDS Naturals, Sequences, FiniteSets, Functions

CONSTANTS MaxLogins,  \* bound: logins at one client
          Capacity,   \* of logOutChan, 3
          Traffic     \* what the server may send, besides the kick:
                      \* "friendRequest", "groupRequest", "chat",
                      \* "groupChat", "status", and the answers
                      \* "friendAnswer", "groupAnswer"

ASSUME ClientSessionAssumption ==
    /\ MaxLogins \in Nat /\ Capacity \in Nat
    /\ Traffic \subseteq {"friendRequest", "groupRequest", "chat", "groupChat",
                          "status", "friendAnswer", "groupAnswer"}

Prompters == {"menu", "reader"}

VARIABLES
    logins,    \* how often the user has logged in
    CurUsr,    \* whether model.CurUsr is set: UserId # 0, Conn # nil
    friends,   \* whether FrdMgr has the table of this login
    groups,    \* whether GCMgr has it
    up,        \* whether the connection is open
    menu,      \* where ShowMenu is
    reader,    \* where ProcessServerMes is
    frd,       \* where FrdMgr.AcquireUnreadMesCount is
    gc,        \* where GCMgr.AcquireUnreadMesCount is
    tokens,    \* messages in logOutChan
    left,      \* left[g]: tokens HandleLogOut, run by g, has yet to send
    display,   \* where GCMesRealTimeDisplay of the room is
    slot,      \* whether gCMesRealTimeDisplayChan holds a sign
    retracting, \* displays that were told to quit while they offered, and
               \* have yet to take a sign back
    asking,    \* asking[g]: how far g is with ReadIntInput: its prompt has
               \* been requested, g waits for an answer, or has one
    requests,  \* IntInputRequestChan: who asked for each prompt
    waiting,   \* who waits in <-IntResChan, longest first
    manager,   \* whose prompt keyboardIntInputManager is at, or "nobody"
    panicked,  \* a nil Conn or a missing map entry was dereferenced
    twice,     \* history: menu and reader were in HandleLogOut together
    overtaken  \* ... a prompt was requested when another had been and its
               \* goroutine was not waiting yet

input == <<asking, requests, waiting, manager, overtaken>>
tables == <<friends, groups>>
room   == <<display, slot, retracting>>
vars  == <<logins, CurUsr, tables, up, menu, reader, frd, gc, tokens, left,
           panicked, twice, room, input>>

OnTheirOwn == <<logins, tables, up, panicked, twice, input>>

Resetting    == {"resetFrd", "resetGC", "token"}
LogOutPlaces == {"close", "reset"} \cup Resetting
Prompting    == {"prompt", "friend", "group", "groupOption", "leaderOption",
                 "member", "ask", "askHeld"}
MenuPlaces   == {"select", "held", "prompt", "friend", "group", "groupOption",
                 "leaderOption", "member", "option", "readFrd", "readGC",
                 "room", "quit", "gone"} \cup LogOutPlaces
ReaderPlaces == {"read", "block", "ask", "askHeld", "unblock", "count",
                 "groupChat", "transfer", "handOver", "countGC", "counted",
                 "tell", "tellGC", "note", "result", "gone"}
                \cup LogOutPlaces

InSession == {menu, reader, frd, gc} # {"gone"}

Init ==
    /\ logins = 0 /\ CurUsr = FALSE /\ up = FALSE
    /\ friends = FALSE /\ groups = FALSE
    /\ display = "gone" /\ slot = FALSE /\ retracting = 0
    /\ menu = "gone" /\ reader = "gone" /\ frd = "gone" /\ gc = "gone"
    /\ tokens = 0 /\ left = [g \in {"menu", "reader"} |-> 0]
    /\ panicked = FALSE /\ twice = FALSE
    /\ asking = [g \in Prompters |-> "no"]
    /\ requests = <<>> /\ waiting = <<>> /\ manager = "nobody"
    /\ overtaken = FALSE

\* handleLogin, when wg.Wait of the last session has returned.
Login ==
    /\ ~InSession /\ logins < MaxLogins
    /\ logins' = logins + 1
    /\ CurUsr' = TRUE /\ up' = TRUE /\ friends' = TRUE /\ groups' = TRUE
    /\ menu' = "select" /\ reader' = "read"
    /\ frd' = "select" /\ gc' = "select"
    /\ UNCHANGED <<tokens, left, panicked, twice, room, input>>

ServerCloses ==
    /\ up /\ up' = FALSE
    /\ UNCHANGED <<logins, CurUsr, tables, menu, reader, frd, gc, tokens,
                   left, panicked, twice, room, input>>

-----------------------------------------------------------------------------
(* ReadIntInput and keyboardIntInputManager.                               *)

Place(g) == IF g = "menu" THEN menu ELSE reader

program == <<logins, CurUsr, tables, up, menu, reader, frd, gc, tokens, left,
             panicked, twice, room>>

Calm == requests = <<>> /\ manager = "nobody" /\ waiting = <<>>

\* IntInputRequestChan <- prompt.
Request(g) ==
    /\ Place(g) \in Prompting /\ asking[g] = "no"
    /\ asking' = [asking EXCEPT ![g] = "requested"]
    /\ requests' = Append(requests, g)
    /\ overtaken' = (/\ overtaken /\ ~Calm
                     \/ \E h \in Prompters \ {g} : asking[h] = "requested")
    /\ UNCHANGED <<program, waiting, manager>>

\* <-IntResChan.
Await(g) ==
    /\ asking[g] = "requested"
    /\ asking' = [asking EXCEPT ![g] = "waiting"]
    /\ waiting' = Append(waiting, g)
    /\ UNCHANGED <<program, requests, manager, overtaken>>

ManagerPrompts ==
    /\ manager = "nobody" /\ requests # <<>>
    /\ manager' = Head(requests) /\ requests' = Tail(requests)
    /\ UNCHANGED <<program, asking, waiting, overtaken>>

\* The user types an integer.  IntResChan is unbuffered: it goes to the
\* goroutine that has waited longest, whosever the prompt was.
ManagerAnswers ==
    /\ manager # "nobody" /\ waiting # <<>>
    /\ asking' = [asking EXCEPT ![Head(waiting)] = "answered"]
    /\ waiting' = Tail(waiting) /\ manager' = "nobody"
    /\ UNCHANGED <<program, requests, overtaken>>

\* A prompt of g's at place has its answer.
Answered(g, place) ==
    /\ Place(g) = place /\ asking[g] = "answered"
    /\ asking' = [asking EXCEPT ![g] = "no"]
    /\ UNCHANGED <<logins, CurUsr, tables, up, frd, gc, tokens, left, panicked,
                   twice, room, requests, waiting, manager, overtaken>>

\* An integer that is none of those asked for: the prompt comes again.
AskedAgain(g, place) ==
    /\ Answered(g, place)
    /\ UNCHANGED <<menu, reader>>

-----------------------------------------------------------------------------
(* ShowMenu.                                                               *)

MenuTakesToken ==
    /\ menu = "select" /\ tokens > 0
    /\ tokens' = tokens - 1 /\ menu' = "gone"
    /\ UNCHANGED <<CurUsr, reader, frd, gc, left, room, OnTheirOwn>>

\* Mutant: blockShowMenuChan is buffered, the menu goes on.
MenuGoesOn ==
    /\ menu = "select" /\ reader = "block"
    /\ menu' = "prompt" /\ reader' = "askHeld"
    /\ UNCHANGED <<CurUsr, frd, gc, tokens, left, room, OnTheirOwn>>

\* blockShowMenuChan is unbuffered: the reader and the menu meet.
MenuIsHeld ==
    /\ menu = "select" /\ reader = "block"
    /\ menu' = "held" /\ reader' = "askHeld"
    /\ UNCHANGED <<CurUsr, frd, gc, tokens, left, room, OnTheirOwn>>

MenuIsReleased ==
    /\ menu = "held" /\ reader = "unblock"
    /\ menu' = "select" /\ reader' = "read"
    /\ UNCHANGED <<CurUsr, frd, gc, tokens, left, room, OnTheirOwn>>

\* The default case: neither channel is ready.
MenuPrompts ==
    /\ menu = "select" /\ tokens = 0 /\ reader # "block"
    /\ menu' = "prompt"
    /\ UNCHANGED <<CurUsr, reader, frd, gc, tokens, left, room, OnTheirOwn>>

\* A client that was kicked meanwhile has UserId 0.
MenuAnswered ==
    /\ Answered("menu", "prompt")
    /\ menu' \in IF CurUsr THEN {"select", "friend", "group", "option", "close"}
                            ELSE {"gone"}
    /\ UNCHANGED reader

\* Options 2, 3, 4 and 7: the id of a friend, a stranger or a group.
FriendAnswered ==
    /\ Answered("menu", "friend")
    /\ menu' \in {"select", "option"} \cup (IF friends THEN {"readFrd"} ELSE {})
    /\ UNCHANGED reader

\* Option 5 asks until the table has the group: a user without groups never
\* leaves it, and after a kick there is none.
GroupAnswered ==
    /\ Answered("menu", "group")
    /\ menu' \in {"group"} \cup (IF groups THEN {"groupOption"} ELSE {})
                  \cup (IF groups /\ CurUsr THEN {"leaderOption"} ELSE {})
    /\ UNCHANGED reader

\* Only the group's leader is offered to appoint a manager.
GroupOptionAnswered ==
    \/ /\ Answered("menu", "groupOption")
       /\ menu' \in {"select", "readGC"}
       /\ UNCHANGED reader
    \/ /\ Answered("menu", "leaderOption")
       /\ menu' \in {"select", "readGC"} \cup (IF CurUsr THEN {"member"} ELSE {})
       /\ UNCHANGED reader

\* GCOwnerAddGCManager.
MemberAnswered ==
    /\ Answered("menu", "member")
    /\ menu' \in {"select", "option"}
    /\ UNCHANGED reader

\* An option that sends: a write to CurUsr.Conn.
MenuSends ==
    /\ menu = "option" /\ CurUsr
    /\ menu' = "select"
    /\ UNCHANGED <<CurUsr, reader, frd, gc, tokens, left, room, OnTheirOwn>>

\* Opening a friend's messages: readMsgCountChan.
MenuClearsUnread ==
    /\ menu = "readFrd" /\ frd = "select"
    /\ menu' = "select"
    /\ UNCHANGED <<CurUsr, reader, frd, gc, tokens, left, room, OnTheirOwn>>

\* Entering a group's room: readGCMsgCountChan, and a display is started.
EnterRoom ==
    /\ menu = "readGC" /\ gc = "select"
    /\ menu' = "room" /\ display' = "loop"
    /\ UNCHANGED <<CurUsr, reader, frd, gc, tokens, left, slot, retracting,
                   OnTheirOwn>>

\* A text that is sent changes nothing here; "quit" ends the visit.
TypeQuit ==
    /\ menu = "room"
    /\ menu' = "quit"
    /\ UNCHANGED <<CurUsr, reader, frd, gc, tokens, left, room, OnTheirOwn>>

\* quitGroupChatChan: a display that offers has to take its sign back.
LeaveRoom ==
    /\ menu = "quit" /\ display # "gone"
    /\ menu' = "select" /\ display' = "gone"
    /\ retracting' = IF display = "offering" THEN retracting + 1 ELSE retracting
    /\ UNCHANGED <<CurUsr, reader, frd, gc, tokens, left, slot, OnTheirOwn>>

-----------------------------------------------------------------------------
(* GCMesRealTimeDisplay.                                                   *)

Offer ==
    /\ display = "loop" /\ ~slot
    /\ display' = "offering" /\ slot' = TRUE
    /\ UNCHANGED <<CurUsr, menu, reader, frd, gc, tokens, left, retracting,
                   OnTheirOwn>>

Retract ==
    /\ retracting > 0 /\ slot
    /\ retracting' = retracting - 1 /\ slot' = FALSE
    /\ UNCHANGED <<CurUsr, menu, reader, frd, gc, tokens, left, display,
                   OnTheirOwn>>

-----------------------------------------------------------------------------
(* ProcessServerMes.                                                       *)

\* ReadPkg fails on a closed connection.
ReaderEnds ==
    /\ reader = "read" /\ ~up
    /\ reader' = "gone"
    /\ UNCHANGED <<CurUsr, menu, frd, gc, tokens, left, room, OnTheirOwn>>

Handling(type) ==
    CASE type = "friendRequest" -> "block"
      [] type = "groupRequest"  -> "ask"
      [] type = "chat"          -> "count"
      [] type = "groupChat"     -> "groupChat"
      [] type = "status"        -> "tell"
      [] type = "friendAnswer"  -> "note"
      [] type = "groupAnswer"   -> "result"
      [] type = "kick"          -> "close"

ReaderReads ==
    /\ reader = "read" /\ up
    /\ \E type \in Traffic \cup {"kick"} : reader' = Handling(type)
    /\ UNCHANGED <<CurUsr, menu, frd, gc, tokens, left, room, OnTheirOwn>>

\* The user decides on an application, and the reader writes to
\* CurUsr.Conn.
HandleGroupManageMes ==
    /\ Answered("reader", "ask") /\ CurUsr
    /\ reader' = "read"
    /\ UNCHANGED menu

HandleAddFriendRequest ==
    /\ Answered("reader", "askHeld") /\ CurUsr
    /\ reader' = "unblock"
    /\ UNCHANGED menu

\* The friend is entered in the table, and looked up again to be given the
\* name the user has typed.
HandleAddFriendResMes ==
    /\ reader = "note"
    /\ reader' = "read"
    /\ UNCHANGED <<CurUsr, menu, frd, gc, tokens, left, room, OnTheirOwn>>

\* A group is entered in the table, or one of the table is changed.
HandleGroupManageResMes ==
    /\ reader = "result"
    /\ reader' = "read"
    /\ UNCHANGED <<CurUsr, menu, frd, gc, tokens, left, room, OnTheirOwn>>

\* unreadMsgCountChan.
CountForFriend ==
    /\ reader = "count" /\ frd = "select"
    /\ reader' = "tell"
    /\ UNCHANGED <<CurUsr, menu, frd, gc, tokens, left, room, OnTheirOwn>>

\* A display's sign is there to be taken.
FindSlot ==
    /\ reader = "groupChat" /\ slot
    /\ reader' = "transfer" /\ slot' = FALSE
    /\ UNCHANGED <<CurUsr, menu, frd, gc, tokens, left, display, retracting,
                   OnTheirOwn>>

FindNoSlot ==
    /\ reader = "groupChat" /\ ~slot
    /\ reader' = "countGC"
    /\ UNCHANGED <<CurUsr, menu, frd, gc, tokens, left, room, OnTheirOwn>>

\* The sender's name is taken from the table.
TransferGCMes ==
    /\ reader = "transfer" /\ groups
    /\ reader' = "handOver"
    /\ UNCHANGED <<CurUsr, menu, frd, gc, tokens, left, room, OnTheirOwn>>

\* newGCMesChan is unbuffered: the reader meets a display that offers,
\* whosever sign it took.
HandOver ==
    /\ reader = "handOver" /\ display = "offering"
    /\ reader' = "read" /\ display' = "loop"
    /\ UNCHANGED <<CurUsr, menu, frd, gc, tokens, left, slot, retracting,
                   OnTheirOwn>>

\* unreadGCMsgCountChan, then updateUnreadGCMesDone.
CountForGroup ==
    /\ reader = "countGC" /\ gc = "select"
    /\ reader' = "counted" /\ gc' = "done"
    /\ UNCHANGED <<CurUsr, menu, frd, tokens, left, room, OnTheirOwn>>

CountedForGroup ==
    /\ reader = "counted" /\ gc = "done"
    /\ reader' = "tellGC" /\ gc' = "select"
    /\ UNCHANGED <<CurUsr, menu, frd, tokens, left, room, OnTheirOwn>>

\* The line about a friend or a group is printed from the tables.
ReaderTells ==
    /\ \/ reader = "tell" /\ friends
       \/ reader = "tellGC" /\ groups
    /\ reader' = "read"
    /\ UNCHANGED <<CurUsr, menu, frd, gc, tokens, left, room, OnTheirOwn>>

-----------------------------------------------------------------------------
(* AcquireUnreadMesCount of FrdMgr and of GCMgr.                           *)

FrdTakesToken ==
    /\ frd = "select" /\ tokens > 0
    /\ tokens' = tokens - 1 /\ frd' = "gone"
    /\ UNCHANGED <<CurUsr, menu, reader, gc, left, room, OnTheirOwn>>

GCTakesToken ==
    /\ gc = "select" /\ tokens > 0
    /\ tokens' = tokens - 1 /\ gc' = "gone"
    /\ UNCHANGED <<CurUsr, menu, reader, frd, left, room, OnTheirOwn>>

-----------------------------------------------------------------------------
(* HandleLogOut, run by the menu (option 8) or by the reader (the kick).   *)

Go(g, place) ==
    IF g = "menu" THEN menu' = place /\ UNCHANGED reader
                  ELSE reader' = place /\ UNCHANGED menu

\* Mutant: the connection is left to handleLogin's deferred Close.
CloseConnLater(g) ==
    /\ Place(g) = "close" /\ CurUsr
    /\ up' = up
    /\ Go(g, "reset")
    /\ twice' = (twice \/ {menu, reader} \subseteq LogOutPlaces)
    /\ UNCHANGED <<logins, CurUsr, tables, frd, gc, tokens, left, panicked,
                   room, input>>

CloseConn(g) ==
    /\ Place(g) = "close" /\ CurUsr
    /\ up' = FALSE
    /\ Go(g, "reset")
    /\ twice' = (twice \/ {menu, reader} \subseteq LogOutPlaces)
    /\ UNCHANGED <<logins, CurUsr, tables, frd, gc, tokens, left, panicked,
                   room, input>>

\* Mutant: two tokens are sent.
ResetUserTwoTokens(g) ==
    /\ Place(g) = "reset"
    /\ CurUsr' = FALSE
    /\ Go(g, "resetFrd")
    /\ left' = [left EXCEPT ![g] = 2]
    /\ UNCHANGED <<logins, tables, up, frd, gc, tokens, panicked, twice, room,
                   input>>

\* model.CurUsr is made anew; three tokens are to follow.
ResetUser(g) ==
    /\ Place(g) = "reset"
    /\ CurUsr' = FALSE
    /\ Go(g, "resetFrd")
    /\ left' = [left EXCEPT ![g] = 3]
    /\ UNCHANGED <<logins, tables, up, frd, gc, tokens, panicked, twice, room,
                   input>>

NewFriendMgr(g) ==
    /\ Place(g) = "resetFrd"
    /\ friends' = FALSE
    /\ Go(g, "resetGC")
    /\ UNCHANGED <<logins, CurUsr, groups, up, frd, gc, tokens, left, panicked,
                   twice, room, input>>

NewGroupChatMgr(g) ==
    /\ Place(g) = "resetGC"
    /\ groups' = FALSE
    /\ Go(g, "token")
    /\ UNCHANGED <<logins, CurUsr, friends, up, frd, gc, tokens, left, panicked,
                   twice, room, input>>

\* Mutant: logOutChan has no bound.
SendTokenAlways(g) ==
    /\ Place(g) = "token"
    /\ tokens' = tokens + 1
    /\ left' = [left EXCEPT ![g] = @ - 1]
    /\ Go(g, IF left[g] = 1 THEN "gone" ELSE "token")
    /\ UNCHANGED <<logins, CurUsr, tables, up, frd, gc, panicked, twice, room,
                   input>>

\* Mutant: logOutChan has room for two.
SendTokenToSmall(g) ==
    /\ Place(g) = "token" /\ tokens < 2
    /\ tokens' = tokens + 1
    /\ left' = [left EXCEPT ![g] = @ - 1]
    /\ Go(g, IF left[g] = 1 THEN "gone" ELSE "token")
    /\ UNCHANGED <<logins, CurUsr, tables, up, frd, gc, panicked, twice, room,
                   input>>

\* logOutChan <- struct{}{}, three times.
SendToken(g) ==
    /\ Place(g) = "token" /\ tokens < Capacity
    /\ tokens' = tokens + 1
    /\ left' = [left EXCEPT ![g] = @ - 1]
    /\ Go(g, IF left[g] = 1 THEN "gone" ELSE "token")
    /\ UNCHANGED <<logins, CurUsr, tables, up, frd, gc, panicked, twice, room,
                   input>>

HandleLogOut(g) ==
    \/ CloseConn(g) \/ ResetUser(g) \/ NewFriendMgr(g) \/ NewGroupChatMgr(g)
    \/ SendToken(g)

\* After HandleLogOut, CurUsr.Conn is nil and the tables are empty: Close,
\* a write, or an entry that is not there any more is a nil dereference.
Panic(g, places) ==
    /\ Place(g) \in places
    /\ panicked' = TRUE
    /\ UNCHANGED <<logins, CurUsr, tables, up, menu, reader, frd, gc, tokens,
                   left, twice, room, input>>

MenuPanics == ~CurUsr /\ Panic("menu", {"close", "option", "room"})

DecisionPanics ==
    ~CurUsr /\ asking["reader"] = "answered" /\ Panic("reader", {"ask", "askHeld"})

ReaderPanics ==
    \/ ~CurUsr /\ Panic("reader", {"close"})
    \/ ~friends /\ Panic("reader", {"count", "tell", "note"})
    \/ ~groups /\ Panic("reader", {"transfer", "tellGC", "result"})
    \/ DecisionPanics

-----------------------------------------------------------------------------
MenuStep ==
    \/ MenuTakesToken \/ MenuIsHeld \/ MenuIsReleased \/ MenuPrompts
    \/ Request("menu") \/ Await("menu") \/ MenuAnswered \/ FriendAnswered
    \/ GroupAnswered \/ GroupOptionAnswered \/ MemberAnswered
    \/ AskedAgain("menu", "member") \/ MenuSends \/ MenuClearsUnread
    \/ EnterRoom \/ TypeQuit \/ LeaveRoom
    \/ HandleLogOut("menu") \/ MenuPanics

ReaderStep ==
    \/ ReaderEnds \/ Request("reader") \/ Await("reader")
    \/ HandleGroupManageMes \/ HandleAddFriendRequest
    \/ AskedAgain("reader", "ask") \/ AskedAgain("reader", "askHeld")
    \/ HandleAddFriendResMes \/ HandleGroupManageResMes
    \/ FindSlot \/ FindNoSlot \/ TransferGCMes \/ HandOver
    \/ CountForFriend \/ CountForGroup \/ CountedForGroup \/ ReaderTells
    \/ HandleLogOut("reader") \/ ReaderPanics

ManagerStep == ManagerPrompts \/ ManagerAnswers

Next ==
    /\ ~panicked
    /\ \/ Login \/ ServerCloses \/ ReaderReads
       \/ MenuStep \/ ReaderStep \/ FrdTakesToken \/ GCTakesToken
       \/ ManagerStep \/ Offer \/ Retract

Spec == Init /\ [][Next]_vars

Decides == HandleGroupManageMes \/ HandleAddFriendRequest \/ DecisionPanics

\* Goroutines run and a select does not for ever prefer one ready case to
\* another.  The user answers the prompts, one that comes again and again
\* with an integer it offers at last; no message has to come.
Fairness ==
    /\ WF_vars(~panicked /\ MenuStep) /\ SF_vars(~panicked /\ MenuTakesToken)
    /\ WF_vars(~panicked /\ ReaderStep) /\ WF_vars(~panicked /\ ManagerStep)
    /\ SF_vars(~panicked /\ FrdTakesToken)
    /\ SF_vars(~panicked /\ GCTakesToken)
    /\ SF_vars(~panicked /\ MemberAnswered) /\ SF_vars(~panicked /\ Decides)

FairSpec == Spec /\ Fairness

-----------------------------------------------------------------------------
TypeOK ==
    /\ logins \in 0..MaxLogins /\ CurUsr \in BOOLEAN /\ up \in BOOLEAN
    /\ friends \in BOOLEAN /\ groups \in BOOLEAN
    /\ display \in {"gone", "loop", "offering"} /\ slot \in BOOLEAN
    /\ retracting \in Nat
    /\ menu \in MenuPlaces /\ reader \in ReaderPlaces
    /\ frd \in {"select", "gone"} /\ gc \in {"select", "done", "gone"}
    /\ tokens \in 0..Capacity
    /\ left \in [{"menu", "reader"} -> 0..3]
    /\ panicked \in BOOLEAN /\ twice \in BOOLEAN /\ overtaken \in BOOLEAN
    /\ asking \in [Prompters -> {"no", "requested", "waiting", "answered"}]
    /\ requests \in Seq(Prompters) /\ waiting \in Seq(Prompters)
    /\ manager \in Prompters \cup {"nobody"}

\* Once a logout has begun to send its tokens, there is one for every
\* goroutine that can end in no other way.
TokenForEachCounter ==
    ~CurUsr =>
        tokens + left["menu"] + left["reader"]
            >= (IF frd = "gone" THEN 0 ELSE 1) + (IF gc = "gone" THEN 0 ELSE 1)

\* HandleLogOut gets rid of its three tokens, also when earlier ones are
\* left in the channel, unless the menu and the reader run it together.
LogOutCompletes ==
    \A g \in {"menu", "reader"} :
        left[g] > 0 ~> (left[g] = 0 \/ twice \/ panicked)

\* The integer typed at a prompt is taken by the goroutine that asked for
\* it, unless one asked between the other's request and its wait.  Requests
\* of friends never do: the menu is held meanwhile.
AnswersReachTheirPrompt ==
    /\ manager # "nobody" /\ waiting # <<>> /\ ~overtaken
         => Head(waiting) = manager
    /\ reader = "askHeld" => asking["menu"] = "no"

\* In a hand-off to a goroutine that has ended.
Stranded ==
    \/ reader = "handOver" /\ display = "gone"
    \/ reader = "block" /\ menu = "gone"
    \/ reader = "count" /\ frd = "gone"
    \/ reader = "countGC" /\ gc = "gone"
    \/ menu = "readFrd" /\ frd = "gone"
    \/ menu = "readGC" /\ gc = "gone"

\* Asking for a group when the table has none.
NoGroupToChoose == menu = "group" /\ ~groups

\* After a logout or a kick the client returns to its first menu, unless a
\* hand-off was under way to a goroutine that took its token, or the menu
\* asks for a group.
BackToFirstMenu ==
    (InSession /\ ~CurUsr)
        ~> (~InSession \/ Stranded \/ NoGroupToChoose \/ twice \/ panicked)

\* While the user is logged in, there is a menu: "显示登录成功后的界面".
MenuShown == InSession /\ CurUsr => menu # "gone"
=============================================================================
