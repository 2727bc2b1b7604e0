--------------------------- MODULE GroupChatView ---------------------------
(***************************************************************************)
(* The client's live display of a group chat (client/processes/server.go): *)
(* the reader ProcessServerMes, the menu's loop in a chat room and the     *)
(* goroutine GCMesRealTimeDisplay that each entry to a room starts.  A     *)
(* display offers a slot in gCMesRealTimeDisplayChan; the reader that      *)
(* takes the slot hands its message over on newGCMesChan, and a reader     *)
(* that finds no slot counts the message as unread; either way it saves it *)
(* after that.  The menu and the reader share the logs of ChatLog.         *)
(***************************************************************************)
EXTENDS ChatLog

CONSTANTS MaxVisits,  \* bound: entries to a room
          NoDisplay

\* The runs of GCMesRealTimeDisplay, one for each visit, in their order.
Displays == 1..MaxVisits

ASSUME GroupChatViewAssumption == MaxVisits \in Nat /\ NoDisplay \notin Displays

VARIABLES
    room,       \* the display of the room the menu is in, or NoDisplay
    quitting,   \* whether the menu waits in quitGroupChatChan <-
    at,         \* at[d]: where display d is
    slots,      \* messages in gCMesRealTimeDisplayChan, whose capacity is 1
    displayed   \* group messages shown by a display

view == <<room, quitting, at, slots, displayed>>
vars == <<view, logVars>>

\* "offer": the outer select; "shown": in Visualize; "wait": the inner
\* select; "retract": taking its slot back after a quit.
Places == {"unborn", "offer", "wait", "shown", "retract", "gone"}

Init ==
    /\ LogInit
    /\ room = NoDisplay /\ quitting = FALSE
    /\ at = [d \in Displays |-> "unborn"]
    /\ slots = 0 /\ displayed = {}

-----------------------------------------------------------------------------
(* The menu: ShowMenu, option 5, and its loop in the room.                 *)

\* readGCMsgCountChan.
ClearUnread(c) ==
    /\ menu.at = "menu" /\ ~over /\ \E d \in Displays : at[d] = "unborn"
    /\ unread' = [unread EXCEPT ![c] = {}]
    /\ menu' = [at |-> "enter", chat |-> c]
    /\ UNCHANGED <<session, view, log, saver, reader, arrived, own, lists, paged, kept,
                   torn, passed>>

Enter(d) ==
    /\ menu.at = "enter"
    /\ at[d] = "unborn" /\ \A e \in 1..(d - 1) : at[e] # "unborn"
    /\ room' = d
    /\ at' = [at EXCEPT ![d] = "offer"]
    /\ menu' = [menu EXCEPT !.at = "history"]
    /\ UNCHANGED <<session, quitting, slots, displayed, log, saver, reader, unread,
                   arrived, own, lists, paged, kept, torn, passed>>

\* outputGroupChatHistoryMes: the newest page, and no more.
ReadHistory ==
    /\ menu.at = "history" /\ ~over
    /\ ReadMess(menu.chat, 0)
    /\ StopReading(menu.chat, BatchSize)
    /\ menu' = [menu EXCEPT !.at = "room"]
    /\ UNCHANGED <<session, view, log, saver, reader, unread, arrived, own, lists, kept>>

\* SendGroupChatMes: a message that could not be written is saved.
SendGroupChatMesFails ==
    /\ menu.at = "room" /\ ~over /\ own < MaxOwn
    /\ own' = own + 1
    /\ Decode("menu", menu.chat, Len(Inbound) + own + 1)
    /\ menu' = [at |-> "saving", back |-> menu]
    /\ UNCHANGED <<session, view, log, reader, unread, arrived, lists, paged, kept,
                   passed>>

TypeQuit ==
    /\ menu.at = "room"
    /\ quitting' = TRUE
    /\ menu' = [at |-> "quit"]
    /\ UNCHANGED <<session, room, at, slots, displayed, log, saver, reader, unread,
                   arrived, own, lists, paged, kept, torn, passed>>

\* quitGroupChatChan is unbuffered: any display in a select may be the one
\* that takes the menu's quit.
Quit ==
    /\ quitting
    /\ quitting' = FALSE /\ room' = NoDisplay /\ menu' = AtMenu
    /\ UNCHANGED <<session, displayed, log, saver, reader, unread, arrived, own, lists,
                   paged, kept, torn, passed>>

-----------------------------------------------------------------------------
(* GCMesRealTimeDisplay.                                                   *)

\* Mutant: gCMesRealTimeDisplayChan has more room.
OfferMore(d) ==
    /\ at[d] = "offer"
    /\ slots' = slots + 1
    /\ at' = [at EXCEPT ![d] = "wait"]
    /\ UNCHANGED <<room, quitting, displayed, logVars>>

Offer(d) ==
    /\ at[d] = "offer" /\ slots = 0
    /\ slots' = 1
    /\ at' = [at EXCEPT ![d] = "wait"]
    /\ UNCHANGED <<room, quitting, displayed, logVars>>

\* Mutant: break, which leaves only the select.
LeaveFromOfferBreaks(d) ==
    /\ at[d] = "offer" /\ Quit
    /\ UNCHANGED <<at, slots>>

LeaveFromOffer(d) ==
    /\ at[d] = "offer" /\ Quit
    /\ at' = [at EXCEPT ![d] = "gone"]
    /\ UNCHANGED slots

\* Mutant: the slot is not taken back.
LeaveFromWaitKeepsSlot(d) ==
    /\ at[d] = "wait" /\ Quit
    /\ at' = [at EXCEPT ![d] = "gone"]
    /\ UNCHANGED slots

\* Mutant: the inner select sees quit after a message only.
LeaveFromWaitForMessage(d) ==
    /\ reader = "hand" /\ at[d] = "wait" /\ Quit
    /\ at' = [at EXCEPT ![d] = "retract"]
    /\ UNCHANGED slots

LeaveFromWait(d) ==
    /\ at[d] = "wait" /\ Quit
    /\ at' = [at EXCEPT ![d] = "retract"]
    /\ UNCHANGED slots

Retract(d) ==
    /\ at[d] = "retract" /\ slots > 0
    /\ slots' = slots - 1
    /\ at' = [at EXCEPT ![d] = "gone"]
    /\ UNCHANGED <<room, quitting, displayed, logVars>>

Visualize(d) ==
    /\ at[d] = "shown"
    /\ at' = [at EXCEPT ![d] = "offer"]
    /\ UNCHANGED <<room, quitting, slots, displayed, logVars>>

-----------------------------------------------------------------------------
(* ProcessServerMes, the case of a group message.                          *)

Receive ==
    /\ reader = "read" /\ ~over /\ Next1 \in DOMAIN Inbound
    /\ Inbound[Next1] \in GroupChats
    /\ arrived' = Next1
    /\ reader' = "select"
    /\ UNCHANGED <<session, view, log, saver, menu, unread, own, lists, paged, kept,
                   torn, passed>>

TakeSlot ==
    /\ reader = "select" /\ ~over /\ slots > 0
    /\ slots' = slots - 1
    /\ reader' = "hand"
    /\ UNCHANGED <<session, room, quitting, at, displayed, log, saver, menu, unread,
                   arrived, own, lists, paged, kept, torn, passed>>

\* The default case: the GCMgr goroutine is asked to count.
FindNoSlot ==
    /\ reader = "select" /\ ~over /\ slots = 0
    /\ reader' = "tell"
    /\ UNCHANGED <<session, view, log, saver, menu, unread, arrived, own, lists,
                   paged, kept, torn, passed>>

\* Mutant: a message that found no slot is saved only.
CountNothing ==
    /\ reader = "tell" /\ ~over
    /\ reader' = "save"
    /\ UNCHANGED <<session, view, log, saver, menu, unread, arrived, own, lists, paged,
                   kept, torn, passed>>

\* It has counted, and updateUnreadGCMesDone says so: ClientSession has what
\* the reader does when that goroutine has gone.
CountUnread ==
    /\ reader = "tell" /\ ~over
    /\ Count(arrived)
    /\ reader' = "save"
    /\ UNCHANGED <<session, view, log, saver, menu, arrived, own, lists, paged, kept,
                   torn, passed>>

\* newGCMesChan is unbuffered: the reader and a display meet.
HandOver(d) ==
    /\ reader = "hand" /\ at[d] = "wait"
    /\ displayed' = displayed \cup {arrived}
    /\ reader' = "save"
    /\ at' = [at EXCEPT ![d] = "shown"]
    /\ UNCHANGED <<session, room, quitting, slots, log, saver, menu, unread, arrived,
                   own, lists, paged, kept, torn, passed>>

SaveGroupChatMes ==
    /\ reader = "save" /\ ~over
    /\ Decode("reader", Inbound[arrived], arrived)
    /\ reader' = "saving"
    /\ UNCHANGED <<session, view, log, menu, unread, arrived, own, lists, paged, kept,
                   passed>>

-----------------------------------------------------------------------------
(* The end of the client, and its next run.                                *)

\* After a logout the managers know neither the friend nor the group of the
\* message in the reader's hand, and CurUsr has no connection the menu could
\* send on: each is a nil pointer.
Panics ==
    /\ over
    /\ \/ menu = NoMenu /\ reader \in {"select", "tell", "count"}
       \/ reader = "out" /\ menu.at \in {"menu", "room"}

\* Option 9, or a panic; then the user starts the client and logs in.
Restart ==
    /\ \/ Panics /\ UNCHANGED ends
       \/ menu.at = "menu" /\ ends < MaxEnds /\ ends' = ends + 1
    /\ reader' = "read" /\ menu' = AtMenu /\ over' = FALSE
    /\ unread' = [c \in Chats |-> {}] /\ forgotten' = 1..arrived
    /\ saver' = [g \in Savers |-> NoSave]
    /\ torn' = torn \cup {c \in Chats : \E g \in Savers : Saving(g, c)}
    /\ room' = NoDisplay /\ quitting' = FALSE /\ slots' = 0
    /\ at' = [d \in Displays |-> IF at[d] = "unborn" THEN "unborn" ELSE "gone"]
    /\ UNCHANGED <<displayed, log, arrived, own, lists, paged, kept, passed>>

-----------------------------------------------------------------------------
ReaderStep == TakeSlot \/ FindNoSlot \/ CountUnread \/ SaveGroupChatMes
DisplayStep(d) ==
    \/ Offer(d) \/ LeaveFromOffer(d) \/ LeaveFromWait(d) \/ Retract(d)
    \/ Visualize(d) \/ HandOver(d)

Next ==
    \/ Receive \/ ReaderStep \/ Restart
    \/ ReadHistory \/ SendGroupChatMesFails \/ TypeQuit
    \/ \E c \in GroupChats : ClearUnread(c)
    \/ \E d \in Displays : Enter(d) \/ DisplayStep(d)
    \/ LogStep /\ UNCHANGED view

Spec == Init /\ [][Next]_vars

\* Goroutines run, and a select does not for ever prefer one ready case to
\* another; the server and the user owe nothing.
Fairness ==
    /\ WF_vars(ReaderStep)
    /\ WF_vars((Save("reader") \/ CountForFriend) /\ UNCHANGED view)
    /\ \A d \in Displays :
         /\ WF_vars(DisplayStep(d))
         /\ SF_vars(LeaveFromOffer(d) \/ LeaveFromWait(d))

FairSpec == Spec /\ Fairness

-----------------------------------------------------------------------------
MenuType ==
    [at : {"menu", "quit", "out"}]
    \cup [at : {"list", "more"}, chat : Friends, offset : Nat]
    \cup [at : {"enter", "history", "room"}, chat : GroupChats]

TypeOK ==
    /\ log \in [Chats -> Seq(Messages)] /\ kept \in [Chats -> Seq(Messages)]
    /\ saver \in [Savers -> {NoSave}
                    \cup [at : {"truncate", "encode"}, chat : Chats,
                          mes : Messages, copy : Seq(Messages)]]
    /\ reader \in {"read", "select", "tell", "hand", "save", "saving", "count",
                   "out"}
    /\ menu \in MenuType \cup [at : {"saving"}, back : MenuType]
    /\ unread \in [Chats -> SUBSET Messages]
    /\ arrived \in 0..Len(Inbound) /\ own \in 0..MaxOwn /\ lists \in 0..MaxLists
    /\ ends \in 0..MaxEnds
    /\ paged \subseteq Messages /\ torn \subseteq Chats
    /\ passed \subseteq Messages
    /\ over \in BOOLEAN /\ forgotten \subseteq Messages
    /\ room \in Displays \cup {NoDisplay} /\ quitting \in BOOLEAN
    /\ at \in [Displays -> Places]
    /\ slots \in 0..1 /\ displayed \subseteq Messages

\* Every slot a display has offered and not yet got rid of is in the
\* channel or with the reader: the reader never holds a message for which
\* no display waits, or owes a retraction.
SlotsAreOwned ==
    slots + (IF reader = "hand" THEN 1 ELSE 0)
        = Cardinality({d \in Displays : at[d] \in {"wait", "retract"}})

\* The menu has cleared the counter of c and not yet shown its log.
Opening(c) ==
    menu.at \in {"enter", "history", "list", "more"} /\ menu.chat = c

\* A message that the reader is done with has been shown by a display or
\* from the log, or is counted as unread.  Missed are only those beyond the
\* page the user stopped at, one for each look at a log, the message the
\* reader had counted and not saved, and those whose counter was emptied by
\* adding the chat once more or by the end of the session; what a display
\* has shown is not counted.
SeenOrUnread ==
    \A m \in 1..arrived : LET c == Inbound[m] IN
        /\ \/ m \in displayed \cup paged \cup unread[c] \cup passed \cup forgotten
           \/ m = arrived /\ reader \notin {"read", "out"}
           \/ Opening(c) \/ c \in torn
        /\ ~(m \in displayed /\ m \in unread[c])

\* Outside a room no display goes on offering slots, so that the messages
\* that arrive there are counted.
NobodyOffersOutside ==
    \A d \in Displays : at[d] \in {"offer", "wait", "shown"} => room = d

\* A user who types quit leaves the room.
QuitCompletes == quitting ~> ~quitting

\* The reader of a client goes on reading: "不停的读取服务器发送的消息".
ReaderGoesOn == reader # "read" ~> reader \in {"read", "out"}
=============================================================================
