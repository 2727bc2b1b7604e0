------------------------ MODULE GroupChatViewProofs -------------------------
(***************************************************************************)
(* Proofs about GroupChatView and the ChatLog it shares with the menu, for *)
(* any friends, groups, arrivals and visits, and any size of a page.       *)
(***************************************************************************)
EXTENDS GroupChatView, SequenceLemmas, FiniteSetTheorems, TLAPS

USE DEF session

-----------------------------------------------------------------------------
(* Type correctness.  Who is in a save is at the place of one.             *)

Saves == [at : {"truncate", "encode"}, chat : Chats, mes : Messages,
          copy : Seq(Messages)]

Linked ==
    /\ saver["reader"] # NoSave <=> reader = "saving"
    /\ saver["menu"] # NoSave <=> menu.at = "saving"
    /\ menu.at = "saving" => menu.back.at \in {"menu", "room"}
    /\ quitting <=> menu.at = "quit"
    /\ reader \notin {"read", "out"} => arrived > 0
    /\ reader = "out" \/ menu.at = "out" => over
    /\ reader = "count" => Inbound[arrived] \in Friends
    /\ reader \in {"select", "tell", "hand", "save"} => Inbound[arrived] \in GroupChats
    /\ reader = "saving" => /\ saver["reader"].chat = Inbound[arrived]
                            /\ saver["reader"].mes = arrived

TypeInv == TypeOK /\ Linked

\* The two halves of TypeOK.
LogType ==
    /\ log \in [Chats -> Seq(Messages)] /\ kept \in [Chats -> Seq(Messages)]
    /\ saver \in [Savers -> {NoSave} \cup Saves]
    /\ reader \in {"read", "select", "tell", "hand", "save", "saving", "count",
                   "out"}
    /\ menu \in MenuType \cup [at : {"saving"}, back : MenuType]
    /\ unread \in [Chats -> SUBSET Messages]
    /\ arrived \in 0..Len(Inbound) /\ own \in 0..MaxOwn /\ lists \in 0..MaxLists
    /\ ends \in 0..MaxEnds
    /\ paged \subseteq Messages /\ torn \subseteq Chats
    /\ passed \subseteq Messages
    /\ over \in BOOLEAN /\ forgotten \subseteq Messages

RoomType ==
    /\ room \in Displays \cup {NoDisplay} /\ quitting \in BOOLEAN
    /\ at \in [Displays -> Places]
    /\ slots \in 0..1 /\ displayed \subseteq Messages

LEMMA TypeHalves == TypeOK <=> LogType /\ RoomType
  BY DEF TypeOK, LogType, RoomType, Saves

LEMMA Arrivals ==
  /\ Len(Inbound) \in Nat /\ DOMAIN Inbound = 1..Len(Inbound)
  /\ \A m \in 1..Len(Inbound) : Inbound[m] \in Chats /\ m \in Messages
  /\ \A n \in Nat : n < MaxOwn => Len(Inbound) + n + 1 \in Messages
  /\ Chats = Friends \cup GroupChats /\ Friends \cap GroupChats = {}
  /\ MaxOwn \in Nat /\ MaxLists \in Nat /\ BatchSize \in Nat \ {0}
  /\ MaxEnds \in Nat
<1>1. Inbound \in Seq(Chats) /\ MaxOwn \in Nat
  BY ChatLogAssumption
<1>2. /\ Len(Inbound) \in Nat /\ DOMAIN Inbound = 1..Len(Inbound)
      /\ \A m \in 1..Len(Inbound) : Inbound[m] \in Chats
  BY <1>1
<1>3. Messages = 1..(Len(Inbound) + MaxOwn)
  BY DEF Messages
<1>4. \A m \in 1..Len(Inbound) : m \in Messages
  BY <1>1, <1>2, <1>3
<1>5. \A n \in Nat : n < MaxOwn => Len(Inbound) + n + 1 \in Messages
  BY <1>1, <1>2, <1>3
<1> QED
  BY <1>2, <1>4, <1>5, ChatLogAssumption DEF Chats

LEMMA SaveIsNotIdle ==
  ASSUME TypeInv, NEW g \in Savers
  PROVE  /\ saver[g] = NoSave <=> saver[g].at = "idle"
         /\ saver[g] # NoSave => saver[g] \in Saves
  BY DEF TypeInv, TypeOK, NoSave, Saves

LEMMA DecodeTypes ==
  ASSUME TypeInv, NEW g \in Savers, NEW c \in Chats, NEW m \in Messages,
         Decode(g, c, m)
  PROVE  /\ saver' \in [Savers -> {NoSave} \cup Saves]
         /\ saver'[g] = [at |-> "truncate", chat |-> c, mes |-> m, copy |-> log[c]]
         /\ saver'[g] # NoSave
         /\ \A h \in Savers \ {g} : saver'[h] = saver[h]
         /\ torn \subseteq torn' /\ torn' \subseteq torn \cup {c} /\ torn' \subseteq Chats
<1>1. log[c] \in Seq(Messages) /\ saver \in [Savers -> {NoSave} \cup Saves]
      /\ torn \subseteq Chats
  BY DEF TypeInv, TypeOK, Saves
<1> DEFINE s == [at |-> "truncate", chat |-> c, mes |-> m, copy |-> log[c]]
<1>2. s \in Saves /\ s # NoSave
  BY <1>1 DEF Saves, NoSave
<1>3. saver' = [saver EXCEPT ![g] = s]
  BY DEF Decode
<1> HIDE DEF s
<1>4. saver' \in [Savers -> {NoSave} \cup Saves] /\ saver'[g] = s
      /\ \A h \in Savers \ {g} : saver'[h] = saver[h]
  BY <1>1, <1>2, <1>3
<1> QED
  BY <1>1, <1>2, <1>4 DEF s, Decode

LEMMA PageTypes ==
  ASSUME TypeInv, NEW c \in Chats, NEW o \in Nat
  PROVE  /\ Range(Page(c, o)) \subseteq Messages
         /\ Range(SubSeq(kept[c], o + 1, Len(kept[c]))) \subseteq Messages
<1>1. log[c] \in Seq(Messages) /\ kept[c] \in Seq(Messages)
  BY DEF TypeInv, TypeOK
<1> QED
  BY <1>1, PageRange, Arrivals DEF Page

LEMMA ViewTypeInit == Init => TypeInv
<1> SUFFICES ASSUME Init PROVE TypeInv
  OBVIOUS
<1>1. LogType
  <2>1. <<>> \in Seq(Messages)
    OBVIOUS
  <2>2. AtMenu \in MenuType /\ AtMenu \in MenuType \cup [at : {"saving"}, back : MenuType]
    BY DEF AtMenu, MenuType
  <2>3. 0 \in 0..Len(Inbound) /\ 0 \in 0..MaxOwn /\ 0 \in 0..MaxLists /\ 0 \in 0..MaxEnds
    BY Arrivals
  <2> QED
    BY <2>1, <2>2, <2>3 DEF Init, LogInit, LogType
<1>2. RoomType
  <2>1. at \in [Displays -> Places]
    BY DEF Init, Places
  <2>2. room \in Displays \cup {NoDisplay} /\ quitting \in BOOLEAN
    BY DEF Init
  <2>3. slots \in 0..1 /\ displayed \subseteq Messages
    BY DEF Init
  <2> QED
    BY <2>1, <2>2, <2>3 DEF RoomType
<1>3. Linked
  BY DEF Init, LogInit, Linked, AtMenu, Savers
<1> QED
  BY <1>1, <1>2, <1>3, TypeHalves DEF TypeInv

\* The steps of the menu.
LEMMA MenuTypes ==
  ASSUME TypeInv,
         \/ ReadHistory \/ SendGroupChatMesFails \/ TypeQuit
         \/ \E c \in GroupChats : ClearUnread(c)
         \/ \E d \in Displays : Enter(d)
  PROVE  TypeInv'
<1>1. ASSUME NEW c \in GroupChats, ClearUnread(c)
      PROVE  TypeInv'
  BY <1>1, Arrivals DEF ClearUnread, TypeInv, TypeOK, Linked, MenuType, view
<1>2. ASSUME NEW d \in Displays, Enter(d)
      PROVE  TypeInv'
  BY <1>2 DEF Enter, TypeInv, TypeOK, Linked, MenuType, Places
<1>3. CASE ReadHistory
  <2>1. menu.chat \in Chats /\ menu \in MenuType
    BY <1>3, Arrivals DEF ReadHistory, TypeInv, TypeOK, MenuType
  <2>2. menu' \in MenuType /\ menu'.at = "room"
    BY <1>3, <2>1 DEF ReadHistory, MenuType
  <2>3. paged' \subseteq Messages
    <3>1. Range(Page(menu.chat, 0)) \subseteq Messages
      BY <2>1, PageTypes
    <3> QED
      BY <1>3, <3>1 DEF ReadHistory, ReadMess, TypeInv, TypeOK
  <2>4. passed' \subseteq Messages
    <3>1. Range(SubSeq(kept[menu.chat], BatchSize + 1, Len(kept[menu.chat]))) \subseteq Messages
      BY <2>1, PageTypes, Arrivals
    <3>2. 1..arrived \subseteq Messages
      BY Arrivals DEF TypeInv, TypeOK
    <3> QED
      BY <1>3, <3>1, <3>2 DEF ReadHistory, StopReading, TypeInv, TypeOK
  <2>5. torn' \subseteq Chats
    BY <1>3, <2>1 DEF ReadHistory, ReadMess, TypeInv, TypeOK
  <2> QED
    BY <1>3, <2>2, <2>3, <2>4, <2>5 DEF ReadHistory, TypeInv, TypeOK, Linked, view
<1>4. CASE SendGroupChatMesFails
  <2>1. menu.chat \in Chats /\ menu \in MenuType /\ own \in Nat /\ own < MaxOwn
    BY <1>4, Arrivals DEF SendGroupChatMesFails, TypeInv, TypeOK, MenuType
  <2>2. Len(Inbound) + own + 1 \in Messages
    BY <2>1, Arrivals
  <2>3. /\ saver' \in [Savers -> {NoSave} \cup Saves] /\ saver'["menu"] # NoSave
        /\ saver'["reader"] = saver["reader"] /\ torn' \subseteq Chats
    BY <1>4, <2>1, <2>2, DecodeTypes DEF SendGroupChatMesFails, Savers
  <2>4. menu' \in [at : {"saving"}, back : MenuType] /\ menu'.back.at = "room"
    BY <1>4, <2>1 DEF SendGroupChatMesFails
  <2>5. own' \in 0..MaxOwn
    BY <1>4, <2>1, Arrivals DEF SendGroupChatMesFails
  <2> QED
    BY <1>4, <2>3, <2>4, <2>5
       DEF SendGroupChatMesFails, TypeInv, TypeOK, Linked, view, Saves
<1>5. CASE TypeQuit
  BY <1>5 DEF TypeQuit, TypeInv, TypeOK, Linked, MenuType
<1> QED
  BY <1>1, <1>2, <1>3, <1>4, <1>5

\* The steps of a display.
LEMMA DisplayTypes ==
  ASSUME TypeInv, NEW d \in Displays, DisplayStep(d)
  PROVE  TypeInv'
<1>1. LogType /\ RoomType /\ Linked
  BY TypeHalves DEF TypeInv
<1>2. CASE Offer(d) \/ Visualize(d) \/ Retract(d)
  <2>1. UNCHANGED <<logVars, quitting>>
    BY <1>2 DEF Offer, Visualize, Retract
  <2>2. LogType' /\ Linked'
    BY <1>1, <2>1 DEF logVars, LogType, Linked
  <2>3. at' \in [Displays -> Places]
    BY <1>1, <1>2 DEF Offer, Visualize, Retract, RoomType, Places
  <2>4. RoomType'
    BY <1>1, <1>2, <2>3 DEF Offer, Visualize, Retract, RoomType
  <2> QED
    BY <2>2, <2>4 DEF TypeInv, TypeOK, LogType, RoomType, Saves
<1>3. CASE LeaveFromOffer(d) \/ LeaveFromWait(d)
  <2>1. /\ quitting /\ quitting' = FALSE /\ room' = NoDisplay /\ menu' = AtMenu
        /\ UNCHANGED <<session, displayed, log, saver, reader, unread, arrived,
                       own, lists, paged, kept, torn, passed, slots>>
    BY <1>3 DEF LeaveFromOffer, LeaveFromWait, Quit
  <2>2. at' \in [Displays -> Places]
    BY <1>1, <1>3 DEF LeaveFromOffer, LeaveFromWait, RoomType, Places
  <2>3. RoomType'
    BY <1>1, <2>1, <2>2 DEF RoomType
  <2>4. LogType' /\ Linked'
    <3>1. AtMenu \in MenuType /\ AtMenu.at = "menu"
      BY DEF AtMenu, MenuType
    <3>2. LogType'
      BY <1>1, <2>1, <3>1 DEF LogType
    <3>3. Linked'
      BY <1>1, <2>1, <3>1 DEF Linked
    <3> QED
      BY <3>2, <3>3
  <2> QED
    BY <2>3, <2>4 DEF TypeInv, TypeOK, LogType, RoomType, Saves
<1>4. CASE HandOver(d)
  <2>1. arrived \in Messages /\ saver["reader"] = NoSave
        /\ Inbound[arrived] \in GroupChats
    BY <1>4, Arrivals DEF HandOver, TypeInv, TypeOK, Linked
  <2> QED
    BY <1>4, <2>1 DEF HandOver, TypeInv, TypeOK, Linked, Places
<1> QED
  BY <1>2, <1>3, <1>4 DEF DisplayStep

\* The steps of the reader at a group's message.
LEMMA ReaderTypes ==
  ASSUME TypeInv, Receive \/ ReaderStep
  PROVE  TypeInv'
<1>1. CASE Receive
  BY <1>1, Arrivals DEF Receive, Next1, TypeInv, TypeOK, Linked, view
<1>2. CASE TakeSlot \/ FindNoSlot
  BY <1>2 DEF TakeSlot, FindNoSlot, TypeInv, TypeOK, Linked, session, view
<1>3. reader \notin {"read", "out"} => arrived \in Messages /\ Inbound[arrived] \in Chats
  BY Arrivals DEF TypeInv, TypeOK, Linked
<1>4. CASE CountUnread
  <2>1. unread' \in [Chats -> SUBSET Messages]
    BY <1>3, <1>4 DEF CountUnread, Count, TypeInv, TypeOK
  <2> QED
    BY <1>4, <2>1 DEF CountUnread, TypeInv, TypeOK, Linked, view
<1>5. CASE SaveGroupChatMes
  <2>1. /\ Decode("reader", Inbound[arrived], arrived) /\ "reader" \in Savers
        /\ arrived \in Messages /\ Inbound[arrived] \in Chats
    BY <1>3, <1>5 DEF SaveGroupChatMes, Savers
  <2>2. /\ saver' \in [Savers -> {NoSave} \cup Saves] /\ saver'["reader"] # NoSave
        /\ saver'["reader"].chat = Inbound[arrived] /\ saver'["reader"].mes = arrived
        /\ saver'["menu"] = saver["menu"] /\ torn' \subseteq Chats
    <3>1. /\ saver' \in [Savers -> {NoSave} \cup Saves] /\ saver'["reader"] # NoSave
          /\ saver'["reader"] = [at |-> "truncate", chat |-> Inbound[arrived],
                                 mes |-> arrived, copy |-> log[Inbound[arrived]]]
          /\ \A h \in Savers \ {"reader"} : saver'[h] = saver[h]
          /\ torn' \subseteq Chats
      BY <2>1, DecodeTypes
    <3> QED
      BY <3>1 DEF Savers
  <2> QED
    BY <1>5, <2>2 DEF SaveGroupChatMes, TypeInv, TypeOK, Linked, view, Saves
<1> QED
  BY <1>1, <1>2, <1>4, <1>5 DEF ReaderStep

\* The steps that empty the counters and end a session.
LEMMA SessionTypes ==
  ASSUME TypeInv, SessionStep, UNCHANGED view
  PROVE  TypeInv'
<1> USE DEF view, session
<1>1. 1..arrived \subseteq Messages /\ MaxEnds \in Nat /\ ends \in 0..MaxEnds
      /\ unread \in [Chats -> SUBSET Messages]
  BY Arrivals DEF TypeInv, TypeOK
<1>2. ASSUME NEW c \in Chats, AddAgain(c)
      PROVE  TypeInv'
  <2>1. /\ unread' = [unread EXCEPT ![c] = {}]
        /\ forgotten' = forgotten \cup unread[c]
    BY <1>2 DEF AddAgain
  <2>2. unread' \in [Chats -> SUBSET Messages] /\ unread[c] \subseteq Messages
    BY <1>1, <2>1
  <2>3. forgotten' \subseteq Messages
    BY <2>1, <2>2 DEF TypeInv, TypeOK
  <2> QED
    BY <1>2, <2>2, <2>3 DEF AddAgain, TypeInv, TypeOK, Linked
<1>3. ASSUME HandleLogOut
      PROVE  /\ unread' \in [Chats -> SUBSET Messages] /\ over' = TRUE
             /\ forgotten' \subseteq Messages /\ ends' \in 0..MaxEnds
             /\ UNCHANGED <<log, saver, arrived, own, lists, paged, kept, torn,
                            passed>>
  BY <1>1, <1>3 DEF HandleLogOut
<1>4. NoMenu \in MenuType /\ AtMenu \in MenuType
  BY DEF NoMenu, AtMenu, MenuType
<1>5. CASE LogOut
  <2>1. /\ HandleLogOut /\ menu.at = "menu" /\ menu' = NoMenu /\ reader' = reader
    BY <1>5 DEF LogOut
  <2>2. TypeOK'
    BY <1>3, <1>4, <2>1 DEF TypeInv, TypeOK
  <2>3. Linked'
    BY <1>3, <2>1 DEF TypeInv, Linked, NoMenu
  <2> QED
    BY <2>2, <2>3 DEF TypeInv
<1>6. CASE LoggedInOnAnotherDevice
  <2>1. /\ HandleLogOut /\ menu' = menu /\ reader = "read" /\ reader' = "out"
    BY <1>6 DEF LoggedInOnAnotherDevice
  <2>2. TypeOK'
    BY <1>3, <2>1 DEF TypeInv, TypeOK
  <2>3. Linked'
    BY <1>3, <2>1 DEF TypeInv, Linked
  <2> QED
    BY <2>2, <2>3 DEF TypeInv
<1>7. CASE ReaderEnds
  BY <1>7 DEF ReaderEnds, TypeInv, TypeOK, Linked
<1>8. CASE ReadFails
  <2>1. menu' \in MenuType /\ menu'.at \in {"menu", "room"}
        /\ menu.at \in {"list", "history"}
    BY <1>8 DEF ReadFails, TypeInv, TypeOK, MenuType, AtMenu
  <2> QED
    BY <1>8, <2>1 DEF ReadFails, TypeInv, TypeOK, Linked
<1>9. CASE MenuEnds
  BY <1>4, <1>9 DEF MenuEnds, TypeInv, TypeOK, Linked, NoMenu
<1>10. CASE Login
  <2>1. unread' \in [Chats -> SUBSET Messages]
    BY <1>10 DEF Login
  <2> QED
    BY <1>4, <1>10, <2>1 DEF Login, TypeInv, TypeOK, Linked, NoMenu, AtMenu
<1> QED
  BY <1>2, <1>5, <1>6, <1>7, <1>8, <1>9, <1>10 DEF SessionStep

\* The client's next run.
LEMMA RestartTypes ==
  ASSUME TypeInv, Restart
  PROVE  TypeInv'
<1>1. 1..arrived \subseteq Messages
  BY Arrivals DEF TypeInv, TypeOK
<1>2. at' \in [Displays -> Places]
  BY DEF Restart, Places
<1>3. saver' \in [Savers -> {NoSave} \cup Saves] /\ \A g \in Savers : saver'[g] = NoSave
  BY DEF Restart
<1>4. /\ unread' \in [Chats -> SUBSET Messages] /\ forgotten' \subseteq Messages
      /\ torn' \subseteq Chats
  BY <1>1 DEF Restart, TypeInv, TypeOK
<1>5. ends' \in 0..MaxEnds
  BY Arrivals DEF Restart, TypeInv, TypeOK
<1>6. AtMenu \in MenuType
  BY DEF AtMenu, MenuType
<1>7. TypeOK'
  <2>1. LogType'
    BY <1>3, <1>4, <1>5, <1>6 DEF Restart, TypeInv, TypeOK, LogType
  <2>2. RoomType'
    <3>1. /\ room' = NoDisplay /\ quitting' = FALSE /\ slots' = 0
          /\ displayed' = displayed
      BY DEF Restart
    <3>2. displayed \subseteq Messages
      BY DEF TypeInv, TypeOK
    <3>3. slots' \in 0..1
      BY <3>1
    <3>4. quitting' \in BOOLEAN /\ room' \in Displays \cup {NoDisplay}
      BY <3>1
    <3>5. displayed' \subseteq Messages
      BY <3>1, <3>2
    <3> QED
      BY <1>2, <3>3, <3>4, <3>5, Zenon DEF RoomType
  <2> QED
    BY <2>1, <2>2 DEF TypeOK, LogType, RoomType, Saves
<1>8. Linked'
  BY <1>3 DEF Restart, TypeInv, Linked, AtMenu, Savers
<1> QED
  BY <1>7, <1>8 DEF TypeInv

\* The steps of a save and of the pages of a friend's log.
LEMMA LogTypes ==
  ASSUME TypeInv, LogStep, UNCHANGED view
  PROVE  TypeInv'
<1> USE DEF view
<1>1. reader \notin {"read", "out"} => arrived \in Messages /\ Inbound[arrived] \in Chats
  BY Arrivals DEF TypeInv, TypeOK, Linked
<1>2. CASE ReceiveFromFriend
  <2>1. /\ Decode("reader", Inbound[Next1], Next1) /\ "reader" \in Savers
        /\ Next1 \in Messages /\ Inbound[Next1] \in Chats
        /\ Next1 \in 1..Len(Inbound)
    BY <1>2, Arrivals DEF ReceiveFromFriend, Savers
  <2>2. /\ saver' \in [Savers -> {NoSave} \cup Saves] /\ saver'["reader"] # NoSave
        /\ saver'["reader"] = [at |-> "truncate", chat |-> Inbound[Next1],
                               mes |-> Next1, copy |-> log[Inbound[Next1]]]
        /\ \A h \in Savers \ {"reader"} : saver'[h] = saver[h]
        /\ torn' \subseteq Chats
    BY <2>1, DecodeTypes
  <2>3. saver'["menu"] = saver["menu"]
    BY <2>2 DEF Savers
  <2> QED
    BY <1>2, <2>1, <2>2, <2>3
       DEF ReceiveFromFriend, TypeInv, TypeOK, Linked, Saves
<1>3. CASE CountForFriend
  <2>1. unread' \in [Chats -> SUBSET Messages]
    BY <1>1, <1>3 DEF CountForFriend, Count, TypeInv, TypeOK
  <2> QED
    BY <1>3, <2>1 DEF CountForFriend, TypeInv, TypeOK, Linked
<1>4. ASSUME NEW g \in Savers, Truncate(g)
      PROVE  TypeInv'
  <2>1. saver[g] \in Saves /\ saver[g].chat \in Chats
    BY <1>4 DEF Truncate, TypeInv, TypeOK, NoSave, Saves
  <2>2. saver' = [saver EXCEPT ![g] = [@ EXCEPT !.at = "encode"]]
    BY <1>4 DEF Truncate
  <2>3. /\ saver' \in [Savers -> {NoSave} \cup Saves]
        /\ \A h \in Savers : /\ saver'[h] = NoSave <=> saver[h] = NoSave
                             /\ saver[h] # NoSave =>
                                  /\ saver'[h].chat = saver[h].chat
                                  /\ saver'[h].mes = saver[h].mes
    <3> DEFINE s == [saver[g] EXCEPT !.at = "encode"]
    <3>1. /\ s \in Saves /\ s # NoSave /\ saver[g] # NoSave
          /\ s.chat = saver[g].chat /\ s.mes = saver[g].mes
      BY <2>1 DEF Saves, NoSave
    <3>2. saver' = [saver EXCEPT ![g] = s] /\ saver \in [Savers -> {NoSave} \cup Saves]
      BY <2>2 DEF TypeInv, TypeOK, Saves
    <3> HIDE DEF s
    <3> QED
      BY <3>1, <3>2
  <2>4. log' \in [Chats -> Seq(Messages)]
    BY <1>4, <2>1 DEF Truncate, TypeInv, TypeOK
  <2> QED
    BY <1>4, <2>3, <2>4 DEF Truncate, TypeInv, TypeOK, Linked, Savers, Saves
<1>5. ASSUME NEW g \in Savers, Encode(g)
      PROVE  TypeInv'
  <2>1. saver[g] \in Saves /\ saver[g] # NoSave
    BY <1>5 DEF Encode, TypeInv, TypeOK, NoSave, Saves
  <2>2. /\ saver[g].chat \in Chats /\ saver[g].mes \in Messages
        /\ saver[g].copy \in Seq(Messages) /\ kept[saver[g].chat] \in Seq(Messages)
    BY <2>1 DEF Saves, TypeInv, TypeOK
  <2>3. /\ saver' \in [Savers -> {NoSave} \cup Saves] /\ saver'[g] = NoSave
        /\ \A h \in Savers \ {g} : saver'[h] = saver[h]
    BY <1>5 DEF Encode, TypeInv, TypeOK, Saves
  <2>4. <<saver[g].mes>> \o saver[g].copy \in Seq(Messages)
        /\ <<saver[g].mes>> \o kept[saver[g].chat] \in Seq(Messages)
    BY <2>2, FrontRange
  <2>5. log' \in [Chats -> Seq(Messages)] /\ kept' \in [Chats -> Seq(Messages)]
    BY <1>5, <2>2, <2>4 DEF Encode, InFront, TypeInv, TypeOK
  <2>6. CASE g = "menu"
    <3>1. menu.at = "saving" /\ menu \in [at : {"saving"}, back : MenuType]
      BY <2>1, <2>6 DEF TypeInv, TypeOK, Linked, MenuType
    <3>2. menu' = menu.back /\ reader' = reader
      BY <1>5, <2>6 DEF Encode, AfterSave
    <3>3. menu' \in MenuType /\ menu'.at # "saving"
      BY <3>1, <3>2 DEF TypeInv, Linked
    <3>4. saver'["reader"] = saver["reader"]
      BY <2>3, <2>6 DEF Savers
    <3>5. menu'.at \in {"menu", "room"} /\ ~quitting /\ quitting' = quitting
      BY <1>5, <3>1, <3>2 DEF TypeInv, Linked
    <3>6. TypeOK'
      BY <1>5, <2>3, <2>5, <3>2, <3>3 DEF Encode, TypeInv, TypeOK, Saves
    <3>7. Linked'
      BY <1>5, <2>3, <2>6, <3>1, <3>2, <3>3, <3>4, <3>5
         DEF Encode, TypeInv, TypeOK, Linked
    <3> QED
      BY <3>6, <3>7 DEF TypeInv
  <2>7. CASE g = "reader"
    <3>1. /\ saver'["menu"] = saver["menu"] /\ menu' = menu
          /\ reader' = IF saver[g].chat \in Friends THEN "count" ELSE "read"
      BY <1>5, <2>3, <2>7 DEF Encode, AfterSave, Savers
    <3>2. reader = "saving" /\ saver[g].chat = Inbound[arrived]
      BY <2>1, <2>7 DEF TypeInv, Linked
    <3> QED
      BY <1>5, <2>3, <2>5, <2>7, <3>1, <3>2
         DEF Encode, TypeInv, TypeOK, Linked, Saves
  <2> QED
    BY <2>6, <2>7 DEF Savers
<1>6. ASSUME NEW c \in Friends, SendOneToOneMes(c)
      PROVE  TypeInv'
  <2>1. /\ c \in Chats /\ own \in Nat /\ own < MaxOwn
        /\ Len(Inbound) + own + 1 \in Messages /\ own' \in 0..MaxOwn
    BY <1>6, Arrivals DEF SendOneToOneMes, TypeInv, TypeOK
  <2>2. /\ saver' \in [Savers -> {NoSave} \cup Saves] /\ saver'["menu"] # NoSave
        /\ saver'["reader"] = saver["reader"] /\ torn' \subseteq Chats
    BY <1>6, <2>1, DecodeTypes DEF SendOneToOneMes, Savers
  <2>3. menu' \in [at : {"saving"}, back : MenuType] /\ menu'.back.at = "menu"
    BY <1>6 DEF SendOneToOneMes, AtMenu, MenuType
  <2> QED
    BY <1>6, <2>1, <2>2, <2>3
       DEF SendOneToOneMes, TypeInv, TypeOK, Linked, Saves
<1>7. ASSUME NEW c \in Friends, OpenList(c)
      PROVE  TypeInv'
  <2>1. menu' \in MenuType /\ menu'.at = "list" /\ lists' \in 0..MaxLists
    BY <1>7, Arrivals DEF OpenList, MenuType, TypeInv, TypeOK
  <2>2. unread' \in [Chats -> SUBSET Messages]
    BY <1>7 DEF OpenList, TypeInv, TypeOK
  <2> QED
    BY <1>7, <2>1, <2>2 DEF OpenList, TypeInv, TypeOK, Linked
<1>8. ASSUME menu.at \in {"list", "more"}
      PROVE  /\ menu \in [at : {"list", "more"}, chat : Friends, offset : Nat]
             /\ menu.chat \in Chats /\ menu.offset \in Nat
             /\ saver["menu"] = NoSave
             /\ ReadMess(menu.chat, menu.offset)
                  => paged' \subseteq Messages /\ torn' \subseteq Chats
             /\ StopReading(menu.chat, menu.offset) => passed' \subseteq Messages
  <2>1. /\ menu \in [at : {"list", "more"}, chat : Friends, offset : Nat]
        /\ saver["menu"] = NoSave
    BY <1>8 DEF TypeInv, TypeOK, Linked, MenuType
  <2>2. menu.chat \in Chats /\ menu.offset \in Nat
    BY <2>1, Arrivals
  <2>3. ReadMess(menu.chat, menu.offset)
          => paged' \subseteq Messages /\ torn' \subseteq Chats
    BY <2>2, PageTypes DEF ReadMess, TypeInv, TypeOK
  <2>4. 1..arrived \subseteq Messages
    BY Arrivals DEF TypeInv, TypeOK
  <2>5. StopReading(menu.chat, menu.offset) => passed' \subseteq Messages
    BY <2>2, <2>4, PageTypes DEF StopReading, TypeInv, TypeOK
  <2> QED
    BY <2>1, <2>2, <2>3, <2>5
<1>9. CASE ShowPage
  <2>1. menu' \in MenuType /\ menu'.at = "more"
    <3>1. menu.offset + BatchSize \in Nat
      BY <1>8, <1>9, Arrivals DEF ShowPage
    <3> QED
      BY <1>8, <1>9, <3>1 DEF ShowPage, MenuType
  <2> QED
    BY <1>8, <1>9, <2>1 DEF ShowPage, TypeInv, TypeOK, Linked
<1>10. CASE NoMorePages
  BY <1>8, <1>10 DEF NoMorePages, TypeInv, TypeOK, Linked, AtMenu, MenuType
<1>11. CASE More
  <2>1. menu' \in MenuType /\ menu'.at \in {"list", "menu"}
    BY <1>8, <1>11 DEF More, MenuType, AtMenu
  <2>2. passed' \subseteq Messages
    BY <1>8, <1>11 DEF More, TypeInv, TypeOK
  <2> QED
    BY <1>8, <1>11, <2>1, <2>2 DEF More, TypeInv, TypeOK, Linked
<1>12. CASE SessionStep
  BY <1>12, SessionTypes
<1> QED
  BY <1>2, <1>3, <1>4, <1>5, <1>6, <1>7, <1>9, <1>10, <1>11, <1>12 DEF LogStep, Save

LEMMA ViewTypeStep ==
  ASSUME TypeInv, [Next]_vars
  PROVE  TypeInv'
<1>1. ASSUME UNCHANGED vars PROVE TypeInv'
  <2>1. UNCHANGED <<view, logVars>>
    BY <1>1 DEF vars
  <2> QED
    BY <2>1 DEF view, logVars, TypeInv, TypeOK, Linked
<1> QED
  BY <1>1, MenuTypes, DisplayTypes, ReaderTypes, LogTypes, RestartTypes DEF Next

\* Who is in a save has its message and its chat, a room has the display
\* its menu entered, and every variable has its type.
THEOREM ViewTypeCorrect == Spec => []TypeOK
<1>1. Init => TypeInv
  BY ViewTypeInit
<1>2. TypeInv /\ [Next]_vars => TypeInv'
  BY ViewTypeStep
<1>3. TypeInv => TypeOK
  BY DEF TypeInv
<1> QED
  BY <1>1, <1>2, <1>3, PTL DEF Spec

-----------------------------------------------------------------------------
(* The slots.  Offer puts one in the channel and Retract takes it out; the *)
(* reader moves one into its hand, and the hand over gives it to a display *)
(* that waits.                                                             *)

Owing == {d \in Displays : at[d] \in {"wait", "retract"}}

LEMMA OwingIsFinite == IsFiniteSet(Owing) /\ Cardinality(Owing) \in Nat
<1>1. MaxVisits \in Nat
  BY GroupChatViewAssumption
<1>2. IsFiniteSet(Displays)
  BY <1>1, FS_Interval DEF Displays
<1>3. IsFiniteSet(Owing)
  BY <1>2, FS_Subset DEF Owing
<1> QED
  BY <1>3, FS_CardinalityType

\* A step that neither the displays nor the channel nor the reader's hand
\* takes part in, and those that one of them takes part in.
LEMMA SlotSteps ==
  ASSUME TypeInv, [Next]_vars
  PROVE  \/ /\ UNCHANGED slots /\ Owing' = Owing
            /\ reader = "hand" <=> reader' = "hand"
         \/ TakeSlot \/ Restart
         \/ \E d \in Displays : Offer(d) \/ Retract(d) \/ HandOver(d)
<1>1. ASSUME UNCHANGED <<at, slots>>, reader = "hand" <=> reader' = "hand"
      PROVE  UNCHANGED slots /\ Owing' = Owing
             /\ (reader = "hand" <=> reader' = "hand")
  BY <1>1 DEF Owing
<1>2. CASE UNCHANGED vars
  BY <1>1, <1>2 DEF vars, view, logVars
<1>3. CASE Receive \/ FindNoSlot \/ CountUnread \/ SaveGroupChatMes
  BY <1>1, <1>3 DEF Receive, FindNoSlot, CountUnread, SaveGroupChatMes, view
<1>4. CASE \/ ReadHistory \/ SendGroupChatMesFails \/ TypeQuit
           \/ \E c \in GroupChats : ClearUnread(c)
  BY <1>1, <1>4 DEF ReadHistory, SendGroupChatMesFails, TypeQuit, ClearUnread, view
<1>5. ASSUME NEW d \in Displays, Enter(d) \/ LeaveFromOffer(d) \/ LeaveFromWait(d)
                                  \/ Visualize(d)
      PROVE  UNCHANGED slots /\ Owing' = Owing
             /\ (reader = "hand" <=> reader' = "hand")
  <2>1. UNCHANGED <<slots, reader>>
    BY <1>5 DEF Enter, LeaveFromOffer, LeaveFromWait, Visualize, Quit, logVars
  <2>2. \A e \in Displays : at'[e] \in {"wait", "retract"} <=> at[e] \in {"wait", "retract"}
    BY <1>5 DEF Enter, LeaveFromOffer, LeaveFromWait, Visualize, TypeInv, TypeOK
  <2>3. Owing' = Owing
    BY <2>2 DEF Owing
  <2> QED
    BY <2>1, <2>3
<1>6. CASE LogStep /\ UNCHANGED view
  <2>1. \A g \in Savers : Save(g) => (reader = "hand" <=> reader' = "hand")
    <3>1. ASSUME NEW g \in Savers, Encode(g)
          PROVE  reader = "hand" <=> reader' = "hand"
      <4>1. CASE g = "menu"
        BY <3>1, <4>1 DEF Encode, AfterSave
      <4>2. CASE g = "reader"
        <5>1. reader = "saving"
          BY <3>1, <4>2 DEF Encode, TypeInv, Linked, NoSave
        <5> QED
          BY <3>1, <4>2, <5>1 DEF Encode, AfterSave
      <4> QED
        BY <4>1, <4>2 DEF Savers
    <3> QED
      BY <3>1 DEF Save, Truncate
  <2>2. reader = "hand" <=> reader' = "hand"
    BY <1>6, <2>1
       DEF LogStep, ReceiveFromFriend, CountForFriend, ShowPage, NoMorePages,
           More, SendOneToOneMes, OpenList, SessionStep, AddAgain, LogOut,
           HandleLogOut, LoggedInOnAnotherDevice, ReaderEnds, ReadFails, MenuEnds,
           Login
  <2> QED
    BY <1>1, <1>6, <2>2 DEF view
<1> QED
  BY <1>2, <1>3, <1>4, <1>5, <1>6 DEF Next, ReaderStep, DisplayStep

LEMMA SlotsStep ==
  ASSUME TypeInv, SlotsAreOwned, [Next]_vars
  PROVE  SlotsAreOwned'
<1> DEFINE InHand == IF reader = "hand" THEN 1 ELSE 0
<1>1. slots + InHand = Cardinality(Owing) /\ slots \in 0..1
  BY DEF SlotsAreOwned, Owing, TypeInv, TypeOK
<1>2. SUFFICES slots' + InHand' = Cardinality(Owing')
  BY DEF SlotsAreOwned, Owing
<1>3. CASE /\ UNCHANGED slots /\ Owing' = Owing
           /\ reader = "hand" <=> reader' = "hand"
  BY <1>1, <1>3
<1>4. CASE TakeSlot
  <2>1. Owing' = Owing
    BY <1>4 DEF TakeSlot, Owing
  <2> QED
    BY <1>1, <1>4, <2>1 DEF TakeSlot
<1>5. ASSUME NEW d \in Displays, Offer(d)
      PROVE  slots' + InHand' = Cardinality(Owing')
  <2>1. Owing' = Owing \cup {d} /\ d \notin Owing
    BY <1>5 DEF Offer, Owing, TypeInv, TypeOK
  <2>2. Cardinality(Owing') = Cardinality(Owing) + 1
    BY <2>1, OwingIsFinite, FS_AddElement
  <2> QED
    BY <1>1, <1>5, <2>2, OwingIsFinite DEF Offer, logVars
<1>6. ASSUME NEW d \in Displays, Retract(d) \/ HandOver(d)
      PROVE  slots' + InHand' = Cardinality(Owing')
  <2>1. Owing' = Owing \ {d} /\ d \in Owing
    BY <1>6 DEF Retract, HandOver, Owing, TypeInv, TypeOK
  <2>2. Cardinality(Owing') = Cardinality(Owing) - 1
    BY <2>1, OwingIsFinite, FS_RemoveElement
  <2>3. slots' + InHand' = slots + InHand - 1
    BY <1>1, <1>6 DEF Retract, HandOver, logVars
  <2> QED
    BY <1>1, <2>2, <2>3, OwingIsFinite
<1>7. CASE Restart
  <2>1. \A d \in Displays : at'[d] \in {"unborn", "gone"}
    BY <1>7 DEF Restart
  <2>2. Owing' = {}
    BY <2>1 DEF Owing
  <2>3. Cardinality(Owing') = 0
    BY <2>2, FS_EmptySet
  <2> QED
    BY <1>7, <2>3 DEF Restart
<1> QED
  BY <1>3, <1>4, <1>5, <1>6, <1>7, SlotSteps

\* Every slot in gCMesRealTimeDisplayChan, or in the reader's hand, is that
\* of a display that waits for its message or owes a retraction: the reader
\* never holds a message that no display is there to take.
THEOREM SlotsHaveOwners == Spec => []SlotsAreOwned
<1>1. Init => TypeInv /\ SlotsAreOwned
  <2> SUFFICES ASSUME Init PROVE SlotsAreOwned
    BY ViewTypeInit
  <2>1. Owing = {}
    BY DEF Init, Owing
  <2>2. Cardinality(Owing) = 0
    BY <2>1, FS_EmptySet
  <2>3. slots = 0 /\ reader # "hand"
    BY DEF Init, LogInit
  <2> QED
    BY <2>2, <2>3 DEF SlotsAreOwned, Owing
<1>2. TypeInv /\ SlotsAreOwned /\ [Next]_vars => (TypeInv /\ SlotsAreOwned)'
  BY ViewTypeStep, SlotsStep
<1> QED
  BY <1>1, <1>2, PTL DEF Spec

-----------------------------------------------------------------------------
(* The room.  The menu is in the room of a display from Enter to Quit.     *)

MenuRoom == IF menu.at = "saving" THEN menu.back.at ELSE menu.at

RoomInv ==
    /\ NobodyOffersOutside
    /\ room # NoDisplay <=> MenuRoom \in {"history", "room", "quit"}

LEMMA RoomInit == Init => RoomInv
  BY DEF Init, LogInit, RoomInv, NobodyOffersOutside, MenuRoom, AtMenu

\* Steps that leave the room and the displays alone.
LEMMA RoomStays ==
  ASSUME TypeInv, RoomInv, UNCHANGED <<room, at>>,
         MenuRoom' \in {"history", "room", "quit"}
           <=> MenuRoom \in {"history", "room", "quit"}
  PROVE  RoomInv'
  BY DEF RoomInv, NobodyOffersOutside

LEMMA RoomStep ==
  ASSUME TypeInv, RoomInv, [Next]_vars
  PROVE  RoomInv'
<1> DEFINE Inside == {"history", "room", "quit"}
<1>1. ASSUME UNCHANGED <<room, at, menu>>
      PROVE  RoomInv'
  BY <1>1, RoomStays DEF MenuRoom
<1>2. CASE UNCHANGED vars
  BY <1>1, <1>2 DEF vars, view, logVars
<1>3. CASE Receive \/ ReaderStep
  BY <1>1, <1>3 DEF Receive, ReaderStep, TakeSlot, FindNoSlot, CountUnread, SaveGroupChatMes,
                    view
<1>4. CASE ReadHistory
  BY <1>4, RoomStays DEF ReadHistory, TypeInv, TypeOK, MenuType, MenuRoom, view
<1>5. CASE SendGroupChatMesFails
  BY <1>5, RoomStays DEF SendGroupChatMesFails, MenuRoom, view
<1>6. CASE TypeQuit
  BY <1>6, RoomStays DEF TypeQuit, MenuRoom
<1>7. ASSUME NEW c \in GroupChats, ClearUnread(c)
      PROVE  RoomInv'
  BY <1>7, RoomStays DEF ClearUnread, MenuRoom, view
<1>8. ASSUME NEW d \in Displays, Enter(d)
      PROVE  RoomInv'
  <2>1. room = NoDisplay
    BY <1>8 DEF Enter, RoomInv, MenuRoom
  <2>2. \A e \in Displays \ {d} : at'[e] \notin {"offer", "wait", "shown"}
    BY <1>8, <2>1, GroupChatViewAssumption
       DEF Enter, RoomInv, NobodyOffersOutside, TypeInv, TypeOK
  <2>3. room' = d /\ d # NoDisplay
    BY <1>8, GroupChatViewAssumption DEF Enter
  <2>4. MenuRoom' = "history"
    BY <1>8 DEF Enter, TypeInv, TypeOK, MenuType, MenuRoom
  <2> QED
    BY <2>2, <2>3, <2>4 DEF RoomInv, NobodyOffersOutside
<1>9. ASSUME NEW d \in Displays, Offer(d) \/ Visualize(d) \/ HandOver(d) \/ Retract(d)
      PROVE  RoomInv'
  <2>1. UNCHANGED <<room, menu>>
    BY <1>9 DEF Offer, Visualize, HandOver, Retract, logVars
  <2>2. \A e \in Displays : at'[e] \in {"offer", "wait", "shown"}
                              => at[e] \in {"offer", "wait", "shown"}
    BY <1>9 DEF Offer, Visualize, HandOver, Retract, TypeInv, TypeOK
  <2> QED
    BY <2>1, <2>2 DEF RoomInv, NobodyOffersOutside, MenuRoom
<1>10. ASSUME NEW d \in Displays, LeaveFromOffer(d) \/ LeaveFromWait(d)
       PROVE  RoomInv'
  <2>1. room = d /\ room' = NoDisplay /\ menu' = AtMenu
    BY <1>10 DEF LeaveFromOffer, LeaveFromWait, Quit, RoomInv, NobodyOffersOutside
  <2>2. /\ at'[d] \notin {"offer", "wait", "shown"}
        /\ \A e \in Displays \ {d} : at'[e] = at[e]
    BY <1>10 DEF LeaveFromOffer, LeaveFromWait, TypeInv, TypeOK
  <2>3. \A e \in Displays : at'[e] \notin {"offer", "wait", "shown"}
    BY <2>1, <2>2 DEF RoomInv, NobodyOffersOutside
  <2> QED
    BY <2>1, <2>3 DEF RoomInv, NobodyOffersOutside, MenuRoom, AtMenu
<1>11. CASE LogStep /\ UNCHANGED view
  <2>1. UNCHANGED <<room, at>>
    BY <1>11 DEF view
  <2>2. CASE ReceiveFromFriend \/ CountForFriend \/ \E g \in Savers : Truncate(g)
    BY <1>1, <2>1, <2>2 DEF ReceiveFromFriend, CountForFriend, Truncate
  <2>3. ASSUME NEW g \in Savers, Encode(g)
        PROVE  RoomInv'
    <3>1. CASE g = "reader"
      BY <1>1, <2>1, <2>3, <3>1 DEF Encode, AfterSave
    <3>2. CASE g = "menu"
      <4>1. menu.at = "saving" /\ menu' = menu.back
        BY <2>3, <3>2 DEF Encode, AfterSave, TypeInv, Linked, NoSave
      <4>2. menu.back \in MenuType /\ menu.back.at # "saving"
        BY <4>1 DEF TypeInv, TypeOK, MenuType, Linked
      <4>3. MenuRoom' = MenuRoom
        BY <4>1, <4>2 DEF MenuRoom
      <4> QED
        BY <2>1, <4>3, RoomStays
    <3> QED
      BY <3>1, <3>2 DEF Savers
  <2>4. CASE ShowPage \/ NoMorePages \/ More
             \/ \E c \in Friends : SendOneToOneMes(c) \/ OpenList(c)
    <3>1. menu.at \notin Inside \cup {"saving"}
      BY <2>4 DEF ShowPage, NoMorePages, More, SendOneToOneMes, OpenList
    <3>2. menu'.at \notin Inside
          /\ (menu'.at = "saving" => menu'.back.at \notin Inside)
      <4>1. CASE ShowPage \/ More
        <5>1. menu \in [at : {"list", "more"}, chat : Friends, offset : Nat]
          BY <4>1 DEF ShowPage, More, TypeInv, TypeOK, MenuType
        <5>2. ShowPage => menu'.at = "more"
          BY <5>1 DEF ShowPage
        <5>3. More => menu'.at \in {"list", "menu"}
          BY <5>1 DEF More, AtMenu
        <5> QED
          BY <4>1, <5>2, <5>3
      <4>2. CASE NoMorePages \/ \E c \in Friends : SendOneToOneMes(c) \/ OpenList(c)
        BY <4>2 DEF NoMorePages, SendOneToOneMes, OpenList, AtMenu
      <4> QED
        BY <2>4, <4>1, <4>2
    <3> QED
      BY <2>1, <3>1, <3>2, RoomStays DEF MenuRoom
  <2>5. CASE (\E c \in Chats : AddAgain(c)) \/ LoggedInOnAnotherDevice \/ ReaderEnds
    BY <1>1, <2>1, <2>5 DEF AddAgain, LoggedInOnAnotherDevice, ReaderEnds
  <2>6. CASE LogOut \/ MenuEnds \/ Login
    <3>1. menu.at \in {"menu", "out"} /\ menu'.at \in {"menu", "out"}
      BY <2>6 DEF LogOut, MenuEnds, Login, NoMenu, AtMenu
    <3> QED
      BY <2>1, <3>1, RoomStays DEF MenuRoom
  <2>7. CASE ReadFails
    <3>1. CASE menu.at = "list"
      BY <2>1, <2>7, <3>1, RoomStays DEF ReadFails, MenuRoom, AtMenu
    <3>2. CASE menu.at = "history"
      <4>1. menu'.at = "room"
        BY <2>7, <3>2 DEF ReadFails, TypeInv, TypeOK, MenuType
      <4> QED
        BY <2>1, <3>2, <4>1, RoomStays DEF MenuRoom
    <3> QED
      BY <2>7, <3>1, <3>2 DEF ReadFails
  <2> QED
    BY <1>11, <2>2, <2>3, <2>4, <2>5, <2>6, <2>7 DEF LogStep, SessionStep, Save
<1>12. CASE Restart
  <2>1. \A e \in Displays : at'[e] \in {"unborn", "gone"}
    BY <1>12 DEF Restart
  <2> QED
    BY <1>12, <2>1 DEF Restart, RoomInv, NobodyOffersOutside, MenuRoom, AtMenu
<1> QED
  BY <1>2, <1>3, <1>4, <1>5, <1>6, <1>7, <1>8, <1>9, <1>10, <1>11, <1>12
     DEF Next, DisplayStep

\* A display that still offers slots, waits for a message or shows one is
\* the display of the room the menu is in.  quitGroupChatChan is shared, so
\* this holds only because no two displays are in a select at once.
THEOREM RoomsAreLeft == Spec => []NobodyOffersOutside
<1>1. Init => TypeInv /\ RoomInv
  BY ViewTypeInit, RoomInit
<1>2. TypeInv /\ RoomInv /\ [Next]_vars => (TypeInv /\ RoomInv)'
  BY ViewTypeStep, RoomStep
<1>3. RoomInv => NobodyOffersOutside
  BY DEF RoomInv
<1> QED
  BY <1>1, <1>2, <1>3, PTL DEF Spec

-----------------------------------------------------------------------------
(* The logs.  While no two goroutines have a file in hand, a save has the  *)
(* whole log in its copy.                                                  *)

Faithful(c) ==
    /\ \A g \in Savers : Saving(g, c) =>
          /\ saver[g].copy = kept[c]
          /\ saver[g].at = "truncate" => log[c] = kept[c]
    /\ ~(Saving("reader", c) /\ Saving("menu", c))
    /\ (\A g \in Savers : ~Saving(g, c)) => log[c] = kept[c]

LogInv == \A c \in Chats \ torn : Faithful(c)

\* What a step of the client does to a file: a goroutine that is not in a
\* save decodes it, or it is truncated, or written, or left alone.
LEMMA FileSteps ==
  ASSUME TypeInv, [Next]_vars
  PROVE  \/ \E g \in Savers, c \in Chats, m \in Messages :
               Decode(g, c, m) /\ saver[g] = NoSave /\ UNCHANGED <<log, kept>>
         \/ \E g \in Savers : Truncate(g) \/ Encode(g)
         \/ UNCHANGED <<log, kept, saver>> /\ torn \subseteq torn'
         \/ Restart
<1> DEFINE Decodes == \E g \in Savers, c \in Chats, m \in Messages :
                        Decode(g, c, m) /\ saver[g] = NoSave /\ UNCHANGED <<log, kept>>
           Leaves == UNCHANGED <<log, kept, saver>> /\ torn \subseteq torn'
<1>1. CASE UNCHANGED vars
  BY <1>1 DEF vars, logVars
<1>2. CASE Receive \/ TakeSlot \/ FindNoSlot \/ CountUnread
  BY <1>2 DEF Receive, TakeSlot, FindNoSlot, CountUnread
<1>3. CASE SaveGroupChatMes
  <2>1. /\ arrived \in Messages /\ Inbound[arrived] \in Chats
        /\ saver["reader"] = NoSave /\ "reader" \in Savers
    BY <1>3, Arrivals DEF SaveGroupChatMes, TypeInv, TypeOK, Linked, Savers
  <2> QED
    BY <1>3, <2>1 DEF SaveGroupChatMes
<1>4. CASE ReadHistory
  BY <1>4 DEF ReadHistory, ReadMess
<1>5. CASE SendGroupChatMesFails
  <2>1. menu.chat \in Chats /\ own \in Nat /\ own < MaxOwn
    BY <1>5, Arrivals DEF SendGroupChatMesFails, TypeInv, TypeOK, MenuType
  <2>2. Len(Inbound) + own + 1 \in Messages
    BY <2>1, Arrivals
  <2>3. saver["menu"] = NoSave /\ "menu" \in Savers
    BY <1>5 DEF SendGroupChatMesFails, TypeInv, Linked, Savers
  <2> QED
    BY <1>5, <2>1, <2>2, <2>3 DEF SendGroupChatMesFails
<1>6. CASE TypeQuit \/ \E c \in GroupChats : ClearUnread(c)
  BY <1>6 DEF TypeQuit, ClearUnread
<1>7. ASSUME NEW d \in Displays, Enter(d) \/ DisplayStep(d)
      PROVE  Leaves
  BY <1>7 DEF Enter, DisplayStep, Offer, LeaveFromOffer, LeaveFromWait, Quit, Retract,
              Visualize, HandOver, logVars
<1>8. CASE LogStep
  <2>1. CASE ReceiveFromFriend
    <3>1. /\ Next1 \in Messages /\ Inbound[Next1] \in Chats
          /\ saver["reader"] = NoSave /\ "reader" \in Savers
      BY <2>1, Arrivals DEF ReceiveFromFriend, TypeInv, TypeOK, Linked, Savers
    <3> QED
      BY <2>1, <3>1 DEF ReceiveFromFriend
  <2>2. ASSUME NEW c \in Friends, SendOneToOneMes(c)
        PROVE  Decodes
    <3>1. /\ c \in Chats /\ saver["menu"] = NoSave /\ "menu" \in Savers
          /\ Len(Inbound) + own + 1 \in Messages
      BY <2>2, Arrivals DEF SendOneToOneMes, TypeInv, TypeOK, Linked, Savers
    <3> QED
      BY <2>2, <3>1 DEF SendOneToOneMes
  <2>3. CASE CountForFriend \/ ShowPage \/ NoMorePages \/ More
             \/ \E c \in Friends : OpenList(c)
    BY <2>3 DEF CountForFriend, ShowPage, NoMorePages, More, OpenList, ReadMess
  <2>4. CASE SessionStep
    BY <2>4 DEF SessionStep, AddAgain, LogOut, LoggedInOnAnotherDevice, HandleLogOut,
                ReaderEnds, ReadFails, MenuEnds, Login
  <2> QED
    BY <1>8, <2>1, <2>2, <2>3, <2>4 DEF LogStep, Save
<1> QED
  BY <1>1, <1>2, <1>3, <1>4, <1>5, <1>6, <1>7, <1>8 DEF Next, ReaderStep

LEMMA LogInvStep ==
  ASSUME TypeInv, LogInv, [Next]_vars
  PROVE  LogInv'
<1>1. ASSUME NEW g \in Savers, NEW c \in Chats, NEW m \in Messages,
             Decode(g, c, m), saver[g] = NoSave, UNCHANGED <<log, kept>>
      PROVE  LogInv'
  <2>1. /\ saver'[g] = [at |-> "truncate", chat |-> c, mes |-> m, copy |-> log[c]]
        /\ \A h \in Savers \ {g} : saver'[h] = saver[h]
        /\ torn \subseteq torn'
    BY <1>1, DecodeTypes
  <2> SUFFICES ASSUME NEW e \in Chats \ torn'
               PROVE  Faithful(e)'
    BY DEF LogInv
  <2>2. e \in Chats \ torn /\ Faithful(e) /\ ~Saving(g, e)
    BY <1>1, <2>1 DEF LogInv, Saving, NoSave
  <2>3. CASE e # c
    <3>1. \A h \in Savers : /\ Saving(h, e)' <=> Saving(h, e)
                            /\ Saving(h, e) => saver'[h] = saver[h]
      BY <2>1, <2>2, <2>3 DEF Saving
    <3> QED
      BY <1>1, <2>2, <3>1 DEF Faithful, Savers
  <2>4. CASE e = c
    <3>1. \A h \in Savers \ {g} : ~Saving(h, e)
      BY <1>1, <2>4 DEF Decode
    <3>2. \A h \in Savers \ {g} : ~Saving(h, e)'
      BY <2>1, <3>1 DEF Saving
    <3>3. log[e] = kept[e]
      BY <2>2, <3>1 DEF Faithful
    <3>4. saver'[g].copy = kept'[e] /\ log'[e] = kept'[e] /\ Saving(g, e)'
      BY <1>1, <2>1, <2>4, <3>3 DEF Saving
    <3> QED
      BY <3>2, <3>4 DEF Faithful, Savers
  <2> QED
    BY <2>3, <2>4
<1>2. ASSUME NEW g \in Savers, Truncate(g)
      PROVE  LogInv'
  <2>1. saver[g] \in Saves
    BY <1>2 DEF Truncate, TypeInv, TypeOK, NoSave, Saves
  <2>2. /\ saver'[g] = [saver[g] EXCEPT !.at = "encode"]
        /\ \A h \in Savers \ {g} : saver'[h] = saver[h]
        /\ \A e \in Chats : e # saver[g].chat => log'[e] = log[e]
        /\ UNCHANGED <<kept, torn>>
    BY <1>2 DEF Truncate, TypeInv, TypeOK
  <2>3. saver'[g].chat = saver[g].chat /\ saver'[g].at = "encode"
        /\ saver'[g].copy = saver[g].copy /\ saver[g].at = "truncate"
    BY <1>2, <2>1, <2>2 DEF Saves, Truncate
  <2> SUFFICES ASSUME NEW e \in Chats \ torn
               PROVE  Faithful(e)'
    BY <2>2 DEF LogInv
  <2>4. Faithful(e) /\ \A h \in Savers : Saving(h, e)' <=> Saving(h, e)
    BY <2>2, <2>3 DEF LogInv, Saving
  <2>5. \A h \in Savers : saver'[h].copy = saver[h].copy
    BY <2>2, <2>3
  <2>6. CASE e = saver[g].chat
    <3>1. Saving(g, e) /\ \A h \in Savers \ {g} : ~Saving(h, e)
      BY <2>3, <2>4, <2>6 DEF Faithful, Saving, Savers
    <3>2. \A h \in Savers : Saving(h, e)' => h = g
      BY <2>4, <3>1
    <3>3. saver'[g].copy = kept'[e] /\ saver'[g].at # "truncate" /\ Saving(g, e)'
      BY <2>2, <2>3, <2>4, <3>1 DEF Faithful
    <3>4. ~(Saving("reader", e)' /\ Saving("menu", e)')
      BY <2>4 DEF Faithful, Savers
    <3> QED
      BY <3>2, <3>3, <3>4 DEF Faithful
  <2>7. CASE e # saver[g].chat
    <3>1. ~Saving(g, e) /\ log'[e] = log[e] /\ kept'[e] = kept[e]
      BY <2>2, <2>7 DEF Saving
    <3>2. \A h \in Savers : Saving(h, e)' => Saving(h, e) /\ saver'[h] = saver[h]
      BY <2>2, <2>4, <3>1
    <3>3. ~(Saving("reader", e)' /\ Saving("menu", e)')
      BY <2>4 DEF Faithful, Savers
    <3>4. (\A h \in Savers : ~Saving(h, e)') => log'[e] = kept'[e]
      BY <2>4, <3>1 DEF Faithful
    <3>5. \A h \in Savers : Saving(h, e)' =>
              /\ saver'[h].copy = kept'[e]
              /\ saver'[h].at = "truncate" => log'[e] = kept'[e]
      BY <2>4, <3>1, <3>2 DEF Faithful
    <3> QED
      BY <3>3, <3>4, <3>5 DEF Faithful
  <2> QED
    BY <2>6, <2>7
<1>3. ASSUME NEW g \in Savers, Encode(g)
      PROVE  LogInv'
  <2>1. saver[g].at = "encode" /\ saver[g].chat \in Chats
    BY <1>3 DEF Encode, TypeInv, TypeOK, NoSave
  <2>2. /\ saver'[g] = NoSave
        /\ \A h \in Savers \ {g} : saver'[h] = saver[h]
        /\ UNCHANGED torn
        /\ log'[saver[g].chat] = <<saver[g].mes>> \o saver[g].copy
        /\ kept'[saver[g].chat] = <<saver[g].mes>> \o kept[saver[g].chat]
        /\ \A e \in Chats : e # saver[g].chat => log'[e] = log[e] /\ kept'[e] = kept[e]
    BY <1>3, <2>1 DEF Encode, InFront, TypeInv, TypeOK
  <2> SUFFICES ASSUME NEW e \in Chats \ torn
               PROVE  Faithful(e)'
    BY <2>2 DEF LogInv
  <2>3. Faithful(e) /\ ~Saving(g, e)'
    BY <2>2 DEF LogInv, Saving, NoSave
  <2>4. CASE e = saver[g].chat
    <3>1. Saving(g, e)
      BY <2>1, <2>4 DEF Saving
    <3>2. \A h \in Savers \ {g} : ~Saving(h, e)
      BY <2>3, <3>1 DEF Faithful, Savers
    <3>3. \A h \in Savers : ~Saving(h, e)'
      BY <2>2, <2>3, <3>2 DEF Saving
    <3>4. log'[e] = kept'[e]
      BY <2>2, <2>3, <2>4, <3>1 DEF Faithful
    <3> QED
      BY <3>3, <3>4 DEF Faithful, Savers
  <2>5. CASE e # saver[g].chat
    <3>1. \A h \in Savers : /\ Saving(h, e)' <=> Saving(h, e)
                            /\ Saving(h, e) => saver'[h] = saver[h]
      BY <2>2, <2>3, <2>5 DEF Saving
    <3> QED
      BY <2>2, <2>3, <2>5, <3>1 DEF Faithful, Savers
  <2> QED
    BY <2>4, <2>5
<1>4. CASE UNCHANGED <<log, kept, saver>> /\ torn \subseteq torn'
  BY <1>4 DEF LogInv, Faithful, Saving
<1>5. CASE Restart
  <2> SUFFICES ASSUME NEW e \in Chats \ torn'
               PROVE  Faithful(e)'
    BY DEF LogInv
  <2>1. e \notin torn /\ \A g \in Savers : ~Saving(g, e)
    BY <1>5 DEF Restart
  <2>2. log[e] = kept[e]
    BY <2>1 DEF LogInv, Faithful
  <2>3. \A g \in Savers : ~Saving(g, e)'
    BY <1>5 DEF Restart, Saving, NoSave
  <2> QED
    BY <1>5, <2>2, <2>3 DEF Restart, Faithful, Savers
<1> QED
  BY <1>1, <1>2, <1>3, <1>4, <1>5, FileSteps

\* A chat log in which no two goroutines have met has, whenever no save of
\* it is under way, every message that was saved, once and newest first.
THEOREM LogsAreComplete == Spec => []LogIsComplete
<1>1. Init => TypeInv /\ LogInv
  <2> SUFFICES ASSUME Init PROVE LogInv
    BY ViewTypeInit
  <2> QED
    BY DEF Init, LogInit, LogInv, Faithful, Saving, NoSave, Savers
<1>2. TypeInv /\ LogInv /\ [Next]_vars => (TypeInv /\ LogInv)'
  BY ViewTypeStep, LogInvStep
<1>3. LogInv => LogIsComplete
  BY DEF LogInv, Faithful, LogIsComplete
<1> QED
  BY <1>1, <1>2, <1>3, PTL DEF Spec

-----------------------------------------------------------------------------
(* What the user has seen.  A message is accounted for from the time the   *)
(* reader lets go of it; the log has it, or the menu is about to show it.  *)

Dealt(m)  == m \in displayed \cup paged \cup unread[Inbound[m]] \cup passed \cup forgotten
InHand(m) ==
    /\ m = arrived
    /\ \/ reader \in {"select", "tell", "hand"}
       \/ Inbound[m] \in Friends /\ reader \notin {"read", "out"}

\* The messages of the log of c from an offset on.
Beyond(c, offset) == Range(SubSeq(kept[c], offset + 1, Len(kept[c])))

KeptInv ==
    \A m \in 1..arrived :
        m # arrived \/ reader \in {"read", "count"}
            => m \in Range(kept[Inbound[m]]) \cup forgotten

AccountedInv ==
    \A m \in 1..arrived :
        Dealt(m) \/ InHand(m) \/ Opening(Inbound[m]) \/ Inbound[m] \in torn

PagedInv ==
    menu.at \in {"list", "more"} /\ menu.chat \notin torn =>
        \A m \in 1..arrived :
            Inbound[m] = menu.chat /\ (m # arrived \/ reader = "read")
                => Dealt(m) \/ m \in Beyond(menu.chat, menu.offset)

ShownInv ==
    /\ \A m \in displayed : /\ m \in 1..arrived /\ Inbound[m] \in GroupChats
                            /\ m \notin unread[Inbound[m]]
    /\ \A c \in Chats : \A m \in unread[c] : m \in 1..arrived /\ Inbound[m] = c
    /\ reader \in {"select", "tell", "hand"} =>
          arrived \notin displayed /\ \A c \in Chats : arrived \notin unread[c]

OverInv == over => 1..arrived \subseteq forgotten

SeenInv == KeptInv /\ AccountedInv /\ PagedInv /\ ShownInv /\ OverInv

LEMMA SeenInit == Init => SeenInv
<1> SUFFICES ASSUME Init PROVE SeenInv
  OBVIOUS
<1>1. arrived = 0 /\ displayed = {} /\ unread = [c \in Chats |-> {}] /\ reader = "read"
  BY DEF Init, LogInit
<1>2. 1..arrived = {}
  BY <1>1
<1> QED
  BY <1>1, <1>2 DEF SeenInv, KeptInv, AccountedInv, PagedInv, ShownInv, OverInv

LEMMA ChatOfArrival ==
  ASSUME TypeInv, NEW m \in 1..arrived
  PROVE  Inbound[m] \in Chats /\ m \in Messages /\ arrived \in Nat /\ m \in 1..Len(Inbound)
  BY Arrivals DEF TypeInv, TypeOK

LEMMA BeyondAll ==
  ASSUME TypeInv, NEW c \in Chats
  PROVE  Beyond(c, 0) = Range(kept[c])
  BY AllRange DEF Beyond, TypeInv, TypeOK

\* A page is of the messages kept, unless the log is torn or has been
\* truncated for a save: and then ReadMess tears it.
LEMMA PageOfKept ==
  ASSUME TypeInv, LogInv, NEW c \in Chats \ torn', NEW o \in Nat, ReadMess(c, o)
  PROVE  Beyond(c, o) \subseteq paged' \cup Beyond(c, o + BatchSize)
<1>1. c \notin torn /\ \A g \in Savers : Saving(g, c) => saver[g].at # "encode"
  BY DEF ReadMess
<1>2. \A g \in Savers : Saving(g, c) => saver[g].at = "truncate"
  BY <1>1, SaveIsNotIdle DEF Saving, Saves, NoSave
<1>3. log[c] = kept[c]
  BY <1>1, <1>2 DEF LogInv, Faithful
<1>4. kept[c] \in Seq(Messages) /\ BatchSize \in Nat \ {0}
  BY Arrivals DEF TypeInv, TypeOK
<1>5. Beyond(c, o) \subseteq Range(Page(c, o)) \cup Beyond(c, o + BatchSize)
  BY <1>3, <1>4, PageRange DEF Beyond, Page
<1> QED
  BY <1>5 DEF ReadMess

-----------------------------------------------------------------------------
\* Steps that neither take a message nor show one.
Away == menu.at \notin {"enter", "history", "list", "more"}

Quiet ==
    /\ UNCHANGED <<arrived, kept, unread, displayed, paged, passed, session>>
    /\ torn \subseteq torn'
    /\ \/ reader' = reader
       \/ reader = "select" /\ reader' \in {"tell", "hand"}
       \/ reader = "save" /\ reader' = "saving"
    /\ \/ menu' = menu
       \/ Away /\ Away'
       \/ menu.at = "enter" /\ menu'.at = "history" /\ menu'.chat = menu.chat

LEMMA QuietSteps ==
  ASSUME TypeInv, [Next]_vars
  PROVE  \/ Quiet
         \/ \E d \in Displays : HandOver(d)
         \/ /\ UNCHANGED displayed
            /\ \/ Receive \/ ReceiveFromFriend
               \/ CountUnread \/ CountForFriend
               \/ \E c \in Chats : (c \in GroupChats /\ ClearUnread(c))
                                    \/ (c \in Friends /\ OpenList(c))
               \/ ReadHistory \/ ShowPage \/ NoMorePages \/ More
               \/ \E g \in Savers : Encode(g)
               \/ SessionStep \/ Restart
<1>1. CASE UNCHANGED vars
  BY <1>1 DEF vars, view, logVars, session, Quiet
<1>2. CASE TakeSlot \/ FindNoSlot
  BY <1>2 DEF TakeSlot, FindNoSlot, Quiet, session, view
<1>3. CASE SaveGroupChatMes
  BY <1>3 DEF SaveGroupChatMes, Quiet, Decode, view
<1>4. CASE SendGroupChatMesFails
  BY <1>4 DEF SendGroupChatMesFails, Quiet, Decode, view, Away
<1>5. CASE TypeQuit
  BY <1>5 DEF TypeQuit, Quiet, Away
<1>6. ASSUME NEW d \in Displays, Enter(d)
      PROVE  Quiet
  <2>1. menu \in [at : {"enter", "history", "room"}, chat : GroupChats]
    BY <1>6 DEF Enter, TypeInv, TypeOK, MenuType
  <2> QED
    BY <1>6, <2>1 DEF Enter, Quiet
<1>7. ASSUME NEW d \in Displays, Offer(d) \/ Retract(d) \/ Visualize(d)
      PROVE  Quiet
  BY <1>7 DEF Offer, Retract, Visualize, Quiet, logVars
<1>8. ASSUME NEW d \in Displays, LeaveFromOffer(d) \/ LeaveFromWait(d)
      PROVE  Quiet
  <2>1. menu.at = "quit" /\ menu' = AtMenu
    BY <1>8 DEF LeaveFromOffer, LeaveFromWait, Quit, TypeInv, Linked
  <2> QED
    BY <1>8, <2>1 DEF LeaveFromOffer, LeaveFromWait, Quit, Quiet, Away, AtMenu
<1>9. ASSUME NEW g \in Savers, Truncate(g), UNCHANGED view
      PROVE  Quiet
  BY <1>9 DEF Truncate, Quiet, view
<1>10. ASSUME NEW c \in Friends, SendOneToOneMes(c), UNCHANGED view
       PROVE  Quiet
  BY <1>10 DEF SendOneToOneMes, Quiet, Decode, view, Away
<1>11. Chats = Friends \cup GroupChats
  BY DEF Chats
<1>12. CASE LogStep /\ UNCHANGED view
  <2>1. UNCHANGED displayed
    BY <1>12 DEF view
  <2> QED
    BY <1>9, <1>10, <1>11, <1>12, <2>1 DEF LogStep, Save
<1>13. ASSUME Receive \/ CountUnread \/ ReadHistory \/ \E c \in GroupChats : ClearUnread(c)
       PROVE  UNCHANGED displayed
  BY <1>13 DEF Receive, CountUnread, ReadHistory, ClearUnread, view
<1>14. CASE Restart
  BY <1>14 DEF Restart
<1> QED
  BY <1>1, <1>2, <1>3, <1>4, <1>5, <1>6, <1>7, <1>8, <1>11, <1>12, <1>13, <1>14
     DEF Next, ReaderStep, DisplayStep

LEMMA QuietSeen ==
  ASSUME TypeInv, SeenInv, Quiet
  PROVE  SeenInv'
<1>1. /\ UNCHANGED <<arrived, kept, unread, displayed, paged, passed, over, forgotten>>
      /\ torn \subseteq torn'
  BY DEF Quiet, session
<1>2. /\ reader' \in {"read", "count"} <=> reader \in {"read", "count"}
      /\ reader' \in {"read", "out"} <=> reader \in {"read", "out"}
      /\ reader' = "read" <=> reader = "read"
      /\ reader' \in {"select", "tell", "hand"} <=> reader \in {"select", "tell", "hand"}
  BY DEF Quiet
<1>3. \A c \in Chats : Opening(c) => Opening(c)'
  BY DEF Quiet, Opening, Away
<1>4. menu'.at \in {"list", "more"} => menu' = menu
  BY DEF Quiet, Away
<1>5. \A m \in 1..arrived : (Dealt(m)' <=> Dealt(m)) /\ (InHand(m)' <=> InHand(m))
  BY <1>1, <1>2 DEF Dealt, InHand
<1>6. KeptInv'
  BY <1>1, <1>2 DEF SeenInv, KeptInv
<1>7. AccountedInv'
  BY <1>1, <1>3, <1>5, ChatOfArrival DEF SeenInv, AccountedInv
<1>8. PagedInv'
  BY <1>1, <1>2, <1>4, <1>5 DEF SeenInv, PagedInv, Beyond
<1>9. ShownInv'
  BY <1>1, <1>2 DEF SeenInv, ShownInv
<1>10. OverInv'
  BY <1>1 DEF SeenInv, OverInv
<1> QED
  BY <1>6, <1>7, <1>8, <1>9, <1>10 DEF SeenInv

\* The reader takes the next message.
LEMMA ArrivalSeen ==
  ASSUME TypeInv, SeenInv, Receive \/ ReceiveFromFriend, UNCHANGED displayed
  PROVE  SeenInv'
<1>1. /\ reader = "read" /\ arrived' = arrived + 1 /\ arrived \in Nat
      /\ UNCHANGED <<menu, kept, unread, paged, passed, displayed, over, forgotten>>
      /\ ~over
  BY DEF Receive, ReceiveFromFriend, Next1, TypeInv, TypeOK
<1>2. /\ reader' \notin {"read", "count", "out"} /\ torn \subseteq torn'
      /\ reader' \in {"select", "hand"} \/ Inbound[arrived'] \in Friends
  BY DEF Receive, ReceiveFromFriend, Next1, Decode
<1>3. 1..arrived' = (1..arrived) \cup {arrived'} /\ arrived' \notin 1..arrived
      /\ \A m \in 1..arrived : m # arrived'
  BY <1>1
<1>4. InHand(arrived)'
  BY <1>2 DEF InHand
<1>5. \A m \in 1..arrived : (Dealt(m)' <=> Dealt(m)) /\ ~InHand(m)
  BY <1>1 DEF Dealt, InHand
<1>6. KeptInv'
  BY <1>1, <1>2, <1>3 DEF SeenInv, KeptInv
<1>7. AccountedInv'
  <2>1. ASSUME NEW m \in 1..arrived
        PROVE  Dealt(m)' \/ Opening(Inbound[m])' \/ Inbound[m] \in torn'
    BY <1>1, <1>2, <1>5 DEF SeenInv, AccountedInv, Opening
  <2> QED
    BY <1>3, <1>4, <2>1 DEF AccountedInv
<1>8. PagedInv'
  BY <1>1, <1>2, <1>3, <1>5 DEF SeenInv, PagedInv, Beyond
<1>9. ShownInv' /\ OverInv'
  BY <1>1, <1>3 DEF SeenInv, ShownInv, OverInv
<1> QED
  BY <1>6, <1>7, <1>8, <1>9 DEF SeenInv

\* The reader counts the message it has in hand.
LEMMA CountSeen ==
  ASSUME TypeInv, SeenInv, CountUnread \/ CountForFriend, UNCHANGED displayed
  PROVE  SeenInv'
<1>1. /\ UNCHANGED <<menu, kept, arrived, paged, passed, torn, displayed, over, forgotten>>
      /\ unread' = [unread EXCEPT ![Inbound[arrived]] = @ \cup {arrived}]
      /\ arrived \in 1..arrived /\ Inbound[arrived] \in Chats
  BY Arrivals DEF CountUnread, CountForFriend, Count, view, TypeInv, TypeOK, Linked
<1>2. /\ reader' \in {"read", "count"} => reader = "count"
      /\ reader' \notin {"select", "tell", "hand"}
      /\ reader = "count" \/ reader = "tell"
  BY DEF CountUnread, CountForFriend
<1>3. /\ unread \in [Chats -> SUBSET Messages]
      /\ unread'[Inbound[arrived]] = unread[Inbound[arrived]] \cup {arrived}
      /\ \A c \in Chats : c # Inbound[arrived] => unread'[c] = unread[c]
  BY <1>1 DEF TypeInv, TypeOK
<1>4. Dealt(arrived)'
  BY <1>1, <1>3 DEF Dealt
<1>5. \A m \in 1..arrived : /\ Dealt(m) => Dealt(m)'
                            /\ InHand(m) => m = arrived
  BY <1>1, <1>3, ChatOfArrival DEF Dealt, InHand
<1>6. KeptInv'
  BY <1>1, <1>2 DEF SeenInv, KeptInv
<1>7. AccountedInv'
  BY <1>1, <1>4, <1>5 DEF SeenInv, AccountedInv, Opening
<1>8. PagedInv'
  BY <1>1, <1>4, <1>5 DEF SeenInv, PagedInv, Beyond
<1>9. ShownInv'
  <2>1. arrived \notin displayed
    BY <1>1, <1>2, Arrivals DEF SeenInv, ShownInv, TypeInv, Linked
  <2>2. ASSUME NEW m \in displayed
        PROVE  m \in 1..arrived /\ Inbound[m] \in GroupChats /\ m \notin unread'[Inbound[m]]
    BY <1>1, <1>3, <2>1, <2>2, ChatOfArrival DEF SeenInv, ShownInv
  <2>3. \A c \in Chats : \A m \in unread'[c] : m \in 1..arrived /\ Inbound[m] = c
    BY <1>1, <1>3 DEF SeenInv, ShownInv
  <2> QED
    BY <1>1, <1>2, <2>2, <2>3 DEF ShownInv
<1>10. OverInv'
  BY <1>1 DEF SeenInv, OverInv
<1> QED
  BY <1>6, <1>7, <1>8, <1>9, <1>10 DEF SeenInv

\* A display takes the message from the reader.
LEMMA HandOverSeen ==
  ASSUME TypeInv, SeenInv, NEW d \in Displays, HandOver(d)
  PROVE  SeenInv'
<1>1. /\ UNCHANGED <<menu, kept, arrived, unread, paged, passed, torn, over, forgotten>>
      /\ displayed' = displayed \cup {arrived}
      /\ reader = "hand" /\ reader' = "save"
      /\ arrived \in 1..arrived /\ Inbound[arrived] \in GroupChats
      /\ Inbound[arrived] \in Chats
  BY Arrivals DEF HandOver, TypeInv, TypeOK, Linked
<1>2. Dealt(arrived)'
  BY <1>1 DEF Dealt
<1>3. \A m \in 1..arrived : /\ Dealt(m) => Dealt(m)'
                            /\ InHand(m) => m = arrived
  BY <1>1 DEF Dealt, InHand
<1>4. KeptInv'
  BY <1>1 DEF SeenInv, KeptInv
<1>5. AccountedInv'
  BY <1>1, <1>2, <1>3 DEF SeenInv, AccountedInv, Opening
<1>6. PagedInv'
  BY <1>1, <1>3 DEF SeenInv, PagedInv, Beyond
<1>7. ShownInv' /\ OverInv'
  BY <1>1 DEF SeenInv, ShownInv, OverInv
<1> QED
  BY <1>4, <1>5, <1>6, <1>7 DEF SeenInv

\* The menu clears a counter to show what was counted.
LEMMA OpeningSeen ==
  ASSUME TypeInv, SeenInv, NEW c \in Chats, UNCHANGED displayed,
         (c \in GroupChats /\ ClearUnread(c)) \/ (c \in Friends /\ OpenList(c))
  PROVE  SeenInv'
<1>1. /\ UNCHANGED <<kept, arrived, reader, paged, passed, torn, displayed, over, forgotten>>
      /\ unread' = [unread EXCEPT ![c] = {}]
      /\ menu.at = "menu" /\ menu'.chat = c /\ menu'.at \in {"enter", "list"}
      /\ menu'.at = "list" => menu'.offset = 0
  BY DEF ClearUnread, OpenList, view
<1>2. unread \in [Chats -> SUBSET Messages] /\ unread'[c] = {}
      /\ \A e \in Chats : e # c => unread'[e] = unread[e]
  BY <1>1 DEF TypeInv, TypeOK
<1>3. Opening(c)' /\ \A e \in Chats : ~Opening(e)
  BY <1>1 DEF Opening
<1>4. \A m \in 1..arrived : /\ Inbound[m] # c => (Dealt(m) => Dealt(m)')
                            /\ InHand(m) => InHand(m)'
  BY <1>1, <1>2, ChatOfArrival DEF Dealt, InHand
<1>5. KeptInv'
  BY <1>1 DEF SeenInv, KeptInv
<1>6. AccountedInv'
  BY <1>1, <1>3, <1>4, ChatOfArrival DEF SeenInv, AccountedInv
<1>7. PagedInv'
  <2>1. Beyond(c, 0) = Range(kept[c]) /\ Beyond(c, 0)' = Beyond(c, 0)
    BY <1>1, BeyondAll DEF Beyond
  <2>2. SUFFICES ASSUME menu'.at = "list", NEW m \in 1..arrived, Inbound[m] = c,
                        m # arrived \/ reader = "read"
                 PROVE  m \in Beyond(c, 0)' \cup forgotten
    BY <1>1 DEF PagedInv, Dealt
  <2>3. m \in Range(kept[c]) \cup forgotten
    BY <2>2 DEF SeenInv, KeptInv
  <2> QED
    BY <2>1, <2>3
<1>8. ShownInv' /\ OverInv'
  BY <1>1, <1>2 DEF SeenInv, ShownInv, OverInv
<1> QED
  BY <1>5, <1>6, <1>7, <1>8 DEF SeenInv

\* The user looks at a page, or stops.
LEMMA StopSeen ==
  ASSUME TypeInv, SeenInv, NEW c \in Chats, NEW o \in Nat, StopReading(c, o),
         \A m \in 1..arrived :
            Inbound[m] = c /\ (m # arrived \/ reader = "read")
               => \/ m \in displayed \cup paged' \cup unread[c] \cup passed
                     \cup forgotten
                  \/ m \in Beyond(c, o)
  PROVE  \A m \in 1..arrived :
            Inbound[m] = c => m \in displayed \cup paged' \cup unread[c] \cup passed'
                                 \cup forgotten
<1> SUFFICES ASSUME NEW m \in 1..arrived, Inbound[m] = c
             PROVE  m \in displayed \cup paged' \cup unread[c] \cup passed' \cup forgotten
  OBVIOUS
<1>1. passed \cup Beyond(c, o) \subseteq passed'
  BY DEF StopReading, Beyond
<1>2. CASE m = arrived /\ reader # "read"
  BY <1>2 DEF StopReading
<1>3. CASE m # arrived \/ reader = "read"
  BY <1>1, <1>3
<1> QED
  BY <1>2, <1>3

LEMMA PageSeen ==
  ASSUME TypeInv, LogInv, SeenInv, UNCHANGED displayed,
         ReadHistory \/ ShowPage \/ NoMorePages \/ More
  PROVE  SeenInv'
<1>1. /\ UNCHANGED <<kept, arrived, reader, unread, displayed, over, forgotten>>
      /\ paged \subseteq paged' /\ passed \subseteq passed' /\ torn \subseteq torn'
  BY DEF ReadHistory, ShowPage, NoMorePages, More, ReadMess, StopReading
<1>2. \A m \in 1..arrived : /\ Dealt(m) => Dealt(m)'
                            /\ InHand(m) <=> InHand(m)'
  BY <1>1 DEF Dealt, InHand
<1>3. KeptInv' /\ ShownInv' /\ OverInv'
  BY <1>1 DEF SeenInv, KeptInv, ShownInv, OverInv
<1>0. PICK c : c = menu.chat
  OBVIOUS
<1>4. /\ menu.at \in {"history", "list", "more"}
      /\ menu \in [at : {"list", "more"}, chat : Friends, offset : Nat]
                     \cup [at : {"enter", "history", "room"}, chat : GroupChats]
      /\ c \in Chats /\ menu.chat = c
  BY <1>0, Arrivals
     DEF ReadHistory, ShowPage, NoMorePages, More, TypeInv, TypeOK, MenuType
<1>5. \A e \in Chats : Opening(e) <=> e = c
  BY <1>4 DEF Opening
\* Every message of c that the log may have is dealt with or further on.
<1>6. ASSUME NEW o \in Nat, c \notin torn', ReadMess(c, o),
             menu.at = "history" => o = 0,
             menu.at # "history" => o = menu.offset
      PROVE  \A m \in 1..arrived :
                Inbound[m] = c /\ (m # arrived \/ reader = "read")
                   => \/ m \in displayed \cup paged' \cup unread[c] \cup passed \cup forgotten
                      \/ m \in Beyond(c, o + BatchSize)
  <2> SUFFICES ASSUME NEW m \in 1..arrived, Inbound[m] = c,
                      m # arrived \/ reader = "read"
               PROVE  \/ m \in displayed \cup paged' \cup unread[c] \cup passed \cup forgotten
                      \/ m \in Beyond(c, o + BatchSize)
    OBVIOUS
  <2>1. Beyond(c, o) \subseteq paged' \cup Beyond(c, o + BatchSize)
    BY <1>4, <1>6, PageOfKept
  <2>2. Dealt(m) \/ m \in Beyond(c, o)
    <3>1. CASE menu.at = "history"
      <4>1. m \in Range(kept[c]) \cup forgotten
        BY DEF SeenInv, KeptInv
      <4> QED
        BY <1>4, <1>6, <3>1, <4>1, BeyondAll DEF Dealt
    <3>2. CASE menu.at # "history"
      BY <1>1, <1>4, <1>6, <3>2 DEF SeenInv, PagedInv
    <3> QED
      BY <3>1, <3>2
  <2> QED
    BY <1>1, <2>1, <2>2 DEF Dealt
\* The menu goes on showing c, or every message of it is dealt with.
<1>7. ASSUME Opening(c)' \/ c \in torn' \/ \A m \in 1..arrived : Inbound[m] = c => Dealt(m)'
      PROVE  AccountedInv'
  <2> SUFFICES ASSUME NEW m \in 1..arrived
               PROVE  (Dealt(m) \/ InHand(m) \/ Opening(Inbound[m]) \/ Inbound[m] \in torn)'
    BY <1>1 DEF AccountedInv
  <2>1. CASE Inbound[m] = c
    BY <1>7, <2>1
  <2>2. CASE Inbound[m] # c
    <3>1. Dealt(m) \/ InHand(m) \/ Inbound[m] \in torn
      BY <1>5, <2>2, ChatOfArrival DEF SeenInv, AccountedInv
    <3> QED
      BY <1>1, <1>2, <3>1
  <2> QED
    BY <2>1, <2>2
<1>8. CASE ReadHistory
  <2>1. menu'.at = "room" /\ ReadMess(c, 0) /\ StopReading(c, BatchSize) /\ menu.at = "history"
    BY <1>4, <1>8 DEF ReadHistory
  <2>2. ASSUME c \notin torn'
        PROVE  \A m \in 1..arrived : Inbound[m] = c => Dealt(m)'
    <3>1. 0 + BatchSize = BatchSize /\ BatchSize \in Nat
      BY Arrivals
    <3>2. \A m \in 1..arrived :
             Inbound[m] = c /\ (m # arrived \/ reader = "read")
                => \/ m \in displayed \cup paged' \cup unread[c] \cup passed \cup forgotten
                   \/ m \in Beyond(c, BatchSize)
      BY <1>6, <2>1, <2>2, <3>1
    <3> QED
      BY <1>1, <1>4, <2>1, <3>1, <3>2, StopSeen DEF Dealt
  <2> QED
    BY <1>3, <1>7, <2>1, <2>2 DEF SeenInv, PagedInv
<1>9. CASE ShowPage
  <2>1. /\ menu.at = "list" /\ menu.offset \in Nat /\ ReadMess(c, menu.offset)
        /\ menu'.at = "more" /\ menu'.chat = c /\ menu'.offset = menu.offset + BatchSize
        /\ UNCHANGED passed
    BY <1>4, <1>9 DEF ShowPage
  <2>2. Opening(c)'
    BY <2>1 DEF Opening
  <2>3. c \notin torn' => PagedInv'
    BY <1>1, <1>6, <2>1 DEF PagedInv, Dealt, Beyond
  <2>4. c \in torn' => PagedInv'
    BY <2>1 DEF PagedInv
  <2> QED
    BY <1>3, <1>7, <2>2, <2>3, <2>4 DEF SeenInv
<1>10. ASSUME menu' = AtMenu, menu.at # "history", UNCHANGED paged \/ ReadMess(c, menu.offset),
              StopReading(c, menu.offset)
       PROVE  SeenInv'
  <2>1. menu.offset \in Nat
    BY <1>4, <1>10
  <2>2. ASSUME c \notin torn'
        PROVE  \A m \in 1..arrived : Inbound[m] = c => Dealt(m)'
    <3>1. \A m \in 1..arrived :
             Inbound[m] = c /\ (m # arrived \/ reader = "read")
                => \/ m \in displayed \cup paged' \cup unread[c] \cup passed \cup forgotten
                   \/ m \in Beyond(c, menu.offset)
      BY <1>1, <1>4, <1>10, <2>2 DEF SeenInv, PagedInv, Dealt
    <3> QED
      BY <1>1, <1>4, <1>10, <2>1, <3>1, StopSeen DEF Dealt
  <2> QED
    BY <1>3, <1>7, <1>10, <2>2 DEF SeenInv, PagedInv, AtMenu
<1>11. CASE NoMorePages
  BY <1>4, <1>10, <1>11 DEF NoMorePages
<1>12. CASE More
  <2>1. CASE menu' = AtMenu /\ StopReading(menu.chat, menu.offset)
    BY <1>4, <1>10, <1>12, <2>1 DEF More
  <2>2. CASE menu' = [menu EXCEPT !.at = "list"] /\ UNCHANGED passed
    <3>1. /\ menu.at = "more" /\ UNCHANGED <<paged, torn, passed>>
          /\ menu'.at = "list" /\ menu'.chat = c /\ menu'.offset = menu.offset
      BY <1>4, <1>12, <2>2 DEF More
    <3>2. Opening(c)'
      BY <3>1 DEF Opening
    <3>3. PagedInv'
      <4> SUFFICES ASSUME c \notin torn, NEW m \in 1..arrived, Inbound[m] = c,
                          m # arrived \/ reader = "read"
                   PROVE  Dealt(m)' \/ m \in Beyond(c, menu.offset)
        BY <1>1, <3>1 DEF PagedInv, Beyond
      <4>1. Dealt(m) \/ m \in Beyond(c, menu.offset)
        BY <1>4, <3>1 DEF SeenInv, PagedInv
      <4> QED
        BY <1>2, <4>1
    <3> QED
      BY <1>3, <1>7, <3>2, <3>3 DEF SeenInv
  <2> QED
    BY <1>12, <2>1, <2>2 DEF More
<1> QED
  BY <1>8, <1>9, <1>11, <1>12

\* A save ends.
LEMMA SaveSeen ==
  ASSUME TypeInv, SeenInv, UNCHANGED displayed, NEW g \in Savers, Encode(g)
  PROVE  SeenInv'
<1>0. PICK e, n : e = saver[g].chat /\ n = saver[g].mes
  OBVIOUS
<1>1. /\ UNCHANGED <<arrived, unread, paged, passed, displayed, torn, over, forgotten>>
      /\ saver[g] \in Saves /\ e \in Chats /\ n \in Messages
      /\ saver[g] # NoSave
  BY <1>0 DEF Encode, TypeInv, TypeOK, NoSave, Saves
<1>2. /\ kept'[e] = <<n>> \o kept[e] /\ kept[e] \in Seq(Messages)
      /\ \A c \in Chats : c # e => kept'[c] = kept[c]
  BY <1>0, <1>1 DEF Encode, TypeInv, TypeOK
<1>3. n \in Range(kept'[e])
      /\ \A c \in Chats : Range(kept[c]) \subseteq Range(kept'[c])
  <2>1. Range(<<n>> \o kept[e]) = {n} \cup Range(kept[e])
    <3>1. 0 \in Nat
      OBVIOUS
    <3> QED
      BY <1>1, <1>2, <3>1, FrontRange
  <2> QED
    BY <1>2, <2>1
<1>4. ASSUME NEW c \in Chats, NEW o \in Nat
      PROVE  Beyond(c, o) \subseteq Beyond(c, o)'
  <2>1. CASE c = e
    <3>1. Range(SubSeq(kept[e], o + 1, Len(kept[e])))
            \subseteq Range(SubSeq(<<n>> \o kept[e], o + 1, Len(<<n>> \o kept[e])))
      BY <1>1, <1>2, FrontRange
    <3>2. Beyond(c, o)' = Range(SubSeq(kept'[c], o + 1, Len(kept'[c])))
      BY DEF Beyond
    <3> QED
      BY <1>2, <2>1, <3>1, <3>2 DEF Beyond
  <2>2. CASE c # e
    BY <1>2, <2>2 DEF Beyond
  <2> QED
    BY <2>1, <2>2
<1>5. \A m \in 1..arrived : Dealt(m)' <=> Dealt(m)
  BY <1>1 DEF Dealt
<1>6. CASE g = "menu"
  <2>1. /\ reader' = reader /\ menu.at = "saving" /\ menu'.at \in {"menu", "room"}
    BY <1>1, <1>6 DEF Encode, AfterSave, TypeInv, Linked
  <2>2. KeptInv'
    BY <1>1, <1>3, <2>1, ChatOfArrival DEF SeenInv, KeptInv
  <2>3. AccountedInv'
    BY <1>1, <1>5, <2>1 DEF SeenInv, AccountedInv, InHand, Opening
  <2>4. PagedInv' /\ ShownInv' /\ OverInv'
    BY <1>1, <2>1 DEF SeenInv, PagedInv, ShownInv, OverInv
  <2> QED
    BY <2>2, <2>3, <2>4 DEF SeenInv
<1>7. CASE g = "reader"
  <2>1. /\ reader = "saving" /\ e = Inbound[arrived] /\ n = arrived
        /\ menu' = menu /\ reader' = IF e \in Friends THEN "count" ELSE "read"
    BY <1>0, <1>1, <1>7 DEF Encode, AfterSave, TypeInv, Linked
  <2>2. KeptInv'
    BY <1>1, <1>3, <2>1, ChatOfArrival DEF SeenInv, KeptInv
  <2>3. AccountedInv'
    BY <1>1, <1>5, <2>1 DEF SeenInv, AccountedInv, InHand, Opening
  <2>4. PagedInv'
    <3>1. SUFFICES ASSUME menu.at \in {"list", "more"}, menu.chat \notin torn,
                          NEW m \in 1..arrived, Inbound[m] = menu.chat,
                          m # arrived \/ reader' = "read"
                   PROVE  Dealt(m)' \/ m \in Beyond(menu.chat, menu.offset)'
      BY <1>1, <2>1 DEF PagedInv, Beyond
    <3>2. menu.chat \in Friends /\ menu.chat \in Chats /\ menu.offset \in Nat
      BY <3>1, Arrivals DEF TypeInv, TypeOK, MenuType
    <3>3. m # arrived
      BY <2>1, <3>1, <3>2
    <3>4. Dealt(m) \/ m \in Beyond(menu.chat, menu.offset)
      BY <3>1, <3>3 DEF SeenInv, PagedInv
    <3> QED
      BY <1>4, <1>5, <2>1, <3>2, <3>4 DEF Beyond
  <2>5. ShownInv' /\ OverInv'
    BY <1>1, <2>1 DEF SeenInv, ShownInv, OverInv
  <2> QED
    BY <2>2, <2>3, <2>4, <2>5 DEF SeenInv
<1> QED
  BY <1>6, <1>7 DEF Savers

\* The counters are emptied, or the session ends and the next begins.
LEMMA SessionSeen ==
  ASSUME TypeInv, SeenInv, SessionStep, UNCHANGED displayed
  PROVE  SeenInv'
<1>1. UNCHANGED <<arrived, kept, displayed, paged, passed, torn>>
  BY DEF SessionStep, AddAgain, LogOut, LoggedInOnAnotherDevice, HandleLogOut,
         ReaderEnds, ReadFails, MenuEnds, Login
\* What the steps at and after a logout have in common.
<1>2. ASSUME 1..arrived \subseteq forgotten',
             \A c \in Chats : unread'[c] \subseteq unread[c],
             reader' \in {"select", "tell", "hand"} => reader' = reader
      PROVE  SeenInv'
  <2>1. \A m \in 1..arrived : Dealt(m)'
    BY <1>1, <1>2 DEF Dealt
  <2>2. KeptInv' /\ AccountedInv' /\ PagedInv' /\ OverInv'
    BY <1>1, <1>2, <2>1 DEF KeptInv, AccountedInv, PagedInv, OverInv
  <2>3. ShownInv'
    <3>1. ASSUME NEW m \in displayed
          PROVE  m \in 1..arrived /\ Inbound[m] \in GroupChats /\ m \notin unread'[Inbound[m]]
      BY <1>2, ChatOfArrival DEF SeenInv, ShownInv
    <3>2. \A c \in Chats : \A m \in unread'[c] : m \in 1..arrived /\ Inbound[m] = c
      BY <1>2 DEF SeenInv, ShownInv
    <3>3. reader' \in {"select", "tell", "hand"} =>
             arrived \notin displayed /\ \A c \in Chats : arrived \notin unread'[c]
      BY <1>2 DEF SeenInv, ShownInv
    <3> QED
      BY <1>1, <3>1, <3>2, <3>3 DEF ShownInv
  <2> QED
    BY <2>2, <2>3 DEF SeenInv
<1>3. over => 1..arrived \subseteq forgotten
  BY DEF SeenInv, OverInv
<1>4. ASSUME NEW c \in Chats, AddAgain(c)
      PROVE  SeenInv'
  <2>1. /\ UNCHANGED <<reader, menu, over>> /\ ~over
        /\ unread' = [unread EXCEPT ![c] = {}]
        /\ forgotten' = forgotten \cup unread[c]
    BY <1>4 DEF AddAgain
  <2>2. unread \in [Chats -> SUBSET Messages] /\ unread'[c] = {}
        /\ \A e \in Chats : e # c => unread'[e] = unread[e]
    BY <2>1 DEF TypeInv, TypeOK
  <2>3. \A m \in 1..arrived : /\ Dealt(m) => Dealt(m)'
                              /\ InHand(m) => InHand(m)'
    BY <1>1, <2>1, <2>2, ChatOfArrival DEF Dealt, InHand
  <2>4. KeptInv' /\ OverInv'
    BY <1>1, <2>1 DEF SeenInv, KeptInv, OverInv
  <2>5. AccountedInv'
    BY <1>1, <2>1, <2>3 DEF SeenInv, AccountedInv, Opening
  <2>6. PagedInv'
    BY <1>1, <2>1, <2>3 DEF SeenInv, PagedInv, Beyond
  <2>7. ShownInv'
    <3>1. ASSUME NEW m \in displayed
          PROVE  m \in 1..arrived /\ Inbound[m] \in GroupChats /\ m \notin unread'[Inbound[m]]
      BY <2>2, ChatOfArrival DEF SeenInv, ShownInv
    <3>2. \A e \in Chats : \A m \in unread'[e] : m \in 1..arrived /\ Inbound[m] = e
      BY <2>2 DEF SeenInv, ShownInv
    <3>3. reader' \notin {"select", "tell", "hand"}
      BY <1>4 DEF AddAgain
    <3> QED
      BY <1>1, <3>1, <3>2, <3>3 DEF ShownInv
  <2> QED
    BY <2>4, <2>5, <2>6, <2>7 DEF SeenInv
<1>5. CASE LogOut \/ LoggedInOnAnotherDevice
  BY <1>2, <1>5 DEF LogOut, LoggedInOnAnotherDevice, HandleLogOut
<1>6. CASE ReaderEnds \/ ReadFails \/ MenuEnds
  BY <1>2, <1>3, <1>6 DEF ReaderEnds, ReadFails, MenuEnds
<1>7. CASE Login
  BY <1>2, <1>3, <1>7 DEF Login, TypeInv, Linked
<1> QED
  BY <1>4, <1>5, <1>6, <1>7 DEF SessionStep

\* The client starts again.
LEMMA RestartSeen ==
  ASSUME TypeInv, SeenInv, Restart
  PROVE  SeenInv'
<1>1. /\ UNCHANGED <<arrived, kept, displayed>> /\ menu' = AtMenu /\ reader' = "read"
      /\ forgotten' = 1..arrived /\ over' = FALSE /\ unread' = [c \in Chats |-> {}]
  BY DEF Restart
<1>2. \A m \in 1..arrived : Dealt(m)'
  BY <1>1 DEF Dealt
<1>3. KeptInv' /\ AccountedInv' /\ PagedInv' /\ OverInv'
  BY <1>1, <1>2 DEF KeptInv, AccountedInv, PagedInv, OverInv
<1>4. ShownInv'
  <2>1. \A m \in displayed : m \in 1..arrived /\ Inbound[m] \in GroupChats
                               /\ Inbound[m] \in Chats
    BY ChatOfArrival DEF SeenInv, ShownInv
  <2> QED
    BY <1>1, <2>1 DEF ShownInv
<1> QED
  BY <1>3, <1>4 DEF SeenInv

LEMMA SeenStep ==
  ASSUME TypeInv, LogInv, SeenInv, [Next]_vars
  PROVE  SeenInv'
<1>1. Quiet => SeenInv'
  BY QuietSeen
<1>2. \A d \in Displays : HandOver(d) => SeenInv'
  BY HandOverSeen
<1>3. ASSUME UNCHANGED displayed
      PROVE  /\ Receive \/ ReceiveFromFriend => SeenInv'
             /\ CountUnread \/ CountForFriend => SeenInv'
             /\ ReadHistory \/ ShowPage \/ NoMorePages \/ More => SeenInv'
  BY <1>3, ArrivalSeen, CountSeen, PageSeen
<1>4. ASSUME UNCHANGED displayed
      PROVE  /\ \A c \in Chats : (c \in GroupChats /\ ClearUnread(c))
                                 \/ (c \in Friends /\ OpenList(c)) => SeenInv'
             /\ \A g \in Savers : Encode(g) => SeenInv'
             /\ SessionStep => SeenInv'
  BY <1>4, OpeningSeen, SaveSeen, SessionSeen
<1> QED
  BY <1>1, <1>2, <1>3, <1>4, QuietSteps, RestartSeen

\* A message the reader is done with has been shown, or is counted as
\* unread, or its log is about to be shown, or was: nothing that arrives is
\* left to a display that has gone or to a log that is never opened, and a
\* counter is cleared for nothing only where a chat is added once more or
\* the session ends; no message is shown live and counted as well.
THEOREM MessagesAreSeen == Spec => []SeenOrUnread
<1>1. Init => TypeInv /\ LogInv /\ SeenInv
  <2>1. Init => LogInv
    BY DEF Init, LogInit, LogInv, Faithful, Saving, NoSave, Savers
  <2> QED
    BY <2>1, ViewTypeInit, SeenInit
<1>2. TypeInv /\ LogInv /\ SeenInv /\ [Next]_vars => (TypeInv /\ LogInv /\ SeenInv)'
  BY ViewTypeStep, LogInvStep, SeenStep
<1>3. SeenInv => SeenOrUnread
  <2> SUFFICES ASSUME SeenInv, NEW m \in 1..arrived
               PROVE  /\ \/ m \in displayed \cup paged \cup unread[Inbound[m]] \cup passed
                               \cup forgotten
                         \/ m = arrived /\ reader \notin {"read", "out"}
                         \/ Opening(Inbound[m]) \/ Inbound[m] \in torn
                      /\ ~(m \in displayed /\ m \in unread[Inbound[m]])
    BY DEF SeenOrUnread
  <2>1. InHand(m) => m = arrived /\ reader \notin {"read", "out"}
    BY DEF InHand
  <2> QED
    BY <2>1 DEF SeenInv, AccountedInv, Dealt, ShownInv
<1> QED
  BY <1>1, <1>2, <1>3, PTL DEF Spec
=============================================================================
