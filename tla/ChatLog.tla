------------------------------ MODULE ChatLog ------------------------------
(***************************************************************************)
(* The chat logs of the client (client/processes/fileReadWrite.go), one    *)
(* file per friend or group, newest message first.  A save decodes the     *)
(* file, truncates it and writes it again; the reader ProcessServerMes and *)
(* the menu ShowMenu both save and the menu pages through, with no lock.   *)
(* With the logs go the counters of unread messages.                       *)
(***************************************************************************)
EXTENDS Naturals, Sequences, FiniteSets, Functions

CONSTANTS Friends, GroupChats,
          Inbound,    \* bound: the chat of each message that will arrive
          MaxOwn,     \* bound: messages the user sends
          MaxLists,   \* bound: times the user looks at a friend's messages
          MaxEnds,    \* bound: ends of a session of the client
          BatchSize   \* messages of a page

Chats  == Friends \cup GroupChats
Savers == {"reader", "menu"}

ASSUME ChatLogAssumption ==
    /\ Friends \cap GroupChats = {}
    /\ Inbound \in Seq(Chats)
    /\ MaxOwn \in Nat /\ MaxLists \in Nat /\ MaxEnds \in Nat
    /\ BatchSize \in Nat \ {0}

\* The user's own messages follow those that arrive.
Messages == 1..(Len(Inbound) + MaxOwn)

VARIABLES
    log,      \* log[c]: the messages the file of c decodes to
    saver,    \* saver[g]: the save that goroutine g is in
    reader,   \* where ProcessServerMes is
    menu,     \* where ShowMenu is, in which chat, from which offset
    over,     \* whether HandleLogOut has cleared CurUsr
    ends,     \* sessions that have ended
    unread,   \* unread[c]: messages counted since the counter was cleared
    arrived,  \* messages read from the connection
    own,      \* messages the user has sent
    lists,    \* times the user has looked at a friend's messages
    paged,    \* messages shown to the user from a log
    kept,     \* history: kept[c]: messages whose save has ended, newest first
    torn,     \* ... chats whose log two goroutines had in hand at once
    passed,   \* ... messages the user has had the chance to see: beyond the
              \* page, or not in the log yet when it was shown
    forgotten \* ... messages whose counter was emptied with the chat unseen

logVars == <<log, saver, reader, menu, over, ends, unread, arrived, own, lists,
             paged, kept, torn, passed, forgotten>>
session == <<over, ends, forgotten>>

NoSave == [at |-> "idle"]
AtMenu == [at |-> "menu"]
NoMenu == [at |-> "out"]

LogInit ==
    /\ log = [c \in Chats |-> <<>>] /\ saver = [g \in Savers |-> NoSave]
    /\ reader = "read" /\ menu = AtMenu
    /\ unread = [c \in Chats |-> {}]
    /\ arrived = 0 /\ own = 0 /\ lists = 0 /\ paged = {}
    /\ kept = [c \in Chats |-> <<>>] /\ torn = {} /\ passed = {}
    /\ over = FALSE /\ ends = 0 /\ forgotten = {}

-----------------------------------------------------------------------------
(* saveMes.                                                                *)

Saving(g, c) == saver[g].at # "idle" /\ saver[g].chat = c

\* The file is opened and decoded; an empty one decodes to no message.
Decode(g, c, m) ==
    /\ saver' = [saver EXCEPT ![g] = [at |-> "truncate", chat |-> c, mes |-> m,
                                      copy |-> log[c]]]
    /\ torn' = IF \E h \in Savers \ {g} : Saving(h, c) THEN torn \cup {c}
               ELSE torn

Truncate(g) ==
    /\ saver[g].at = "truncate"
    /\ log' = [log EXCEPT ![saver[g].chat] = <<>>]
    /\ saver' = [saver EXCEPT ![g].at = "encode"]
    /\ UNCHANGED <<session, reader, menu, unread, arrived, own, lists, paged, kept, torn,
                   passed>>

\* The reader then counts a friend's message and goes on reading after a
\* group's; the menu prompts again.
AfterSave(g) ==
    IF g = "menu" THEN menu' = menu.back /\ UNCHANGED reader
    ELSE /\ reader' = IF saver[g].chat \in Friends THEN "count" ELSE "read"
         /\ UNCHANGED menu

\* Mutant: the oldest message comes first.
AtTheEnd(messages, m) == messages \o <<m>>

InFront(messages, m) == <<m>> \o messages

\* One write, from the start of the file.
Encode(g) ==
    LET c == saver[g].chat   m == saver[g].mes IN
    /\ saver[g].at = "encode"
    /\ log' = [log EXCEPT ![c] = InFront(saver[g].copy, m)]
    /\ kept' = [kept EXCEPT ![c] = <<m>> \o @]
    /\ saver' = [saver EXCEPT ![g] = NoSave]
    /\ AfterSave(g)
    /\ UNCHANGED <<session, unread, arrived, own, lists, paged, torn, passed>>

Save(g) == Truncate(g) \/ Encode(g)

-----------------------------------------------------------------------------
(* ReadMess: one page, from an offset.                                     *)

Page(c, offset) ==
    SubSeq(log[c], offset + 1,
           IF offset + BatchSize > Len(log[c]) THEN Len(log[c])
           ELSE offset + BatchSize)

\* The file may have been truncated for a save.
ReadMess(c, offset) ==
    /\ paged' = paged \cup Range(Page(c, offset))
    /\ torn' = IF \E g \in Savers : Saving(g, c) /\ saver[g].at = "encode"
                 THEN torn \cup {c} ELSE torn

\* The user stops reading at an offset: what lies beyond is not shown, be
\* the file truncated for a save just now, and the message the reader has in
\* hand may not be in the log yet.
StopReading(c, offset) ==
    passed' = passed \cup Range(SubSeq(kept[c], offset + 1, Len(kept[c])))
                     \cup {m \in 1..arrived : /\ m = arrived /\ Inbound[m] = c
                                              /\ reader # "read"}

-----------------------------------------------------------------------------
(* A friend's messages: ProcessServerMes, sendOneToOneMesById,             *)
(* GenerateFriendMesList.                                                  *)

Next1 == arrived + 1

\* A message is saved, then counted.
ReceiveFromFriend ==
    /\ reader = "read" /\ ~over
    /\ Next1 \in DOMAIN Inbound /\ Inbound[Next1] \in Friends
    /\ arrived' = Next1
    /\ Decode("reader", Inbound[Next1], Next1)
    /\ reader' = "saving"
    /\ UNCHANGED <<session, log, menu, unread, own, lists, paged, kept, passed>>

Count(m) == unread' = [unread EXCEPT ![Inbound[m]] = @ \cup {m}]

CountForFriend ==
    /\ reader = "count" /\ ~over
    /\ Count(arrived)
    /\ reader' = "read"
    /\ UNCHANGED <<session, log, saver, menu, arrived, own, lists, paged, kept, torn,
                   passed>>

\* The user's message, once it has been written to the connection.
SendOneToOneMes(c) ==
    /\ menu.at = "menu" /\ ~over /\ own < MaxOwn
    /\ own' = own + 1
    /\ Decode("menu", c, Len(Inbound) + own + 1)
    /\ menu' = [at |-> "saving", back |-> AtMenu]
    /\ UNCHANGED <<session, log, reader, unread, arrived, lists, paged, kept, passed>>

\* Option 3: the counter is cleared, then the list is shown page by page.
OpenList(c) ==
    /\ menu.at = "menu" /\ ~over /\ lists < MaxLists
    /\ lists' = lists + 1
    /\ unread' = [unread EXCEPT ![c] = {}]
    /\ menu' = [at |-> "list", chat |-> c, offset |-> 0]
    /\ UNCHANGED <<session, log, saver, reader, arrived, own, paged, kept, torn, passed>>

ShowPage ==
    /\ menu.at = "list" /\ ~over /\ Page(menu.chat, menu.offset) # <<>>
    /\ ReadMess(menu.chat, menu.offset)
    /\ menu' = [menu EXCEPT !.at = "more", !.offset = @ + BatchSize]
    /\ UNCHANGED <<session, log, saver, reader, unread, arrived, own, lists, kept,
                   passed>>

NoMorePages ==
    /\ menu.at = "list" /\ ~over /\ Page(menu.chat, menu.offset) = <<>>
    /\ ReadMess(menu.chat, menu.offset)
    /\ StopReading(menu.chat, menu.offset)
    /\ menu' = AtMenu
    /\ UNCHANGED <<session, log, saver, reader, unread, arrived, own, lists, kept>>

\* The user types continue, or anything else.
More ==
    /\ menu.at = "more"
    /\ \/ menu' = [menu EXCEPT !.at = "list"] /\ UNCHANGED passed
       \/ menu' = AtMenu /\ StopReading(menu.chat, menu.offset)
    /\ UNCHANGED <<session, log, saver, reader, unread, arrived, own, lists, paged, kept,
                   torn>>

-----------------------------------------------------------------------------
(* What empties the counters with the chats unseen.                        *)

\* AddNewFriendToMap for a friend, at the second acceptance of two who asked
\* each other; AddGroupChatToMap for a group, at its second verdict.
AddAgain(c) ==
    /\ reader = "read" /\ ~over
    /\ unread' = [unread EXCEPT ![c] = {}]
    /\ forgotten' = forgotten \cup unread[c]
    /\ UNCHANGED <<log, saver, reader, menu, over, ends, arrived, own, lists,
                   paged, kept, torn, passed>>

\* NewFriendMgr and NewGroupChatMgr: the counters are those of nobody.
HandleLogOut ==
    /\ ends < MaxEnds /\ ends' = ends + 1
    /\ ~over /\ over' = TRUE
    /\ unread' = [c \in Chats |-> {}]
    /\ forgotten' = 1..arrived
    /\ UNCHANGED <<log, saver, arrived, own, lists, paged, kept, torn, passed>>

\* Option 8.
LogOut == menu.at = "menu" /\ HandleLogOut /\ menu' = NoMenu /\ UNCHANGED reader

LoggedInOnAnotherDevice ==
    reader = "read" /\ HandleLogOut /\ reader' = "out" /\ UNCHANGED menu

\* The reader finds the connection closed; one with a message in hand does
\* not save it, for its group is in the manager no longer.
ReaderEnds ==
    /\ over /\ reader \in {"read", "save"}
    /\ reader' = "out"
    /\ UNCHANGED <<session, log, saver, menu, unread, arrived, own, lists, paged,
                   kept, torn, passed>>

\* CurUsr names the log's path, and is nobody now.
ReadFails ==
    /\ over /\ menu.at \in {"list", "history"}
    /\ menu' = IF menu.at = "list" THEN AtMenu ELSE [menu EXCEPT !.at = "room"]
    /\ UNCHANGED <<session, log, saver, reader, unread, arrived, own, lists,
                   paged, kept, torn, passed>>

\* A token of logOutChan, or UserId = 0 after the next key.
MenuEnds ==
    /\ over /\ menu.at = "menu"
    /\ menu' = NoMenu
    /\ UNCHANGED <<session, log, saver, reader, unread, arrived, own, lists,
                   paged, kept, torn, passed>>

\* wg.Wait has seen both end; the login reply's friends and groups are added
\* with their counters at nothing.
Login ==
    /\ reader = "out" /\ menu = NoMenu
    /\ reader' = "read" /\ menu' = AtMenu /\ over' = FALSE
    /\ unread' = [c \in Chats |-> {}]
    /\ UNCHANGED <<log, saver, ends, arrived, own, lists, paged, kept, torn,
                   passed, forgotten>>

SessionStep ==
    \/ \E c \in Chats : AddAgain(c)
    \/ LogOut \/ LoggedInOnAnotherDevice
    \/ ReaderEnds \/ ReadFails \/ MenuEnds \/ Login

-----------------------------------------------------------------------------
LogStep ==
    \/ ReceiveFromFriend \/ CountForFriend
    \/ \E g \in Savers : Save(g)
    \/ ShowPage \/ NoMorePages \/ More
    \/ \E c \in Friends : SendOneToOneMes(c) \/ OpenList(c)
    \/ SessionStep

-----------------------------------------------------------------------------
\* No message is lost from a log, or saved twice or out of order, unless the
\* reader and the menu had the file in hand at once.
LogIsComplete ==
    \A c \in Chats \ torn :
        (\A g \in Savers : ~Saving(g, c)) => log[c] = kept[c]
=============================================================================
