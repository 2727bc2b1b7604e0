# chatroomEpoll: a verification development

TLA+ models, TLC runs and TLAPS proofs for the chat server and client of this
repository (Go; server on epoll, TLS and redis, console client).

## 1. The system

| component | source | state | operations |
|---|---|---|---|
| epoll loop, worker pool | `server/main/main.go`, `threadPool.go` | epoll's ready list, the batch returned by `EpollWait`, `fileDescriberToProcessor`, the channel `tasks` (10 places), ten workers | accept and TLS handshake in `main`, dispatch, `processConn` |
| wire format | `server/utils/utils.go`, `client/utils/utils.go` | the TLS connection's own buffer | `ReadPkg` (two Reads), `WritePkg` |
| dispatch | `server/main/processor.go` | `Processor.UsrId` | `handleMesFromClient`, `serverProcessMes` |
| online users | `server/processes/userMgr.go` | `onlineUsers` | add, delete, look up |
| login and logout | `server/processes/userProcess.go` | `UserStatus` in redis, the clients' lists of friends | `ServerProcessLogin`, the kick, `NotifyOtherOnlineFriends`, `HandleForOffline` |
| message delivery | `userProcess.go`, `smsProcess.go`, `userDao.go` | the redis list of offline messages of each user | one-to-one, group and friend messages, `PushOfflineUserMessages` |
| group chats | `groupChatImpl.go`, `userDao.go` | group records, members' records, `joinGroupChatApplyMap` | create, apply, answer, add a manager |
| accounts, friendships | `userDao.go` | user records (whole JSON documents) | register, add a friend |
| client session | `client/main/main.go`, `client/processes/server.go` | `model.CurUsr`, `FrdMgr`, `GCMgr`, global channels | `handleLogin`, `ShowMenu`, `ProcessServerMes`, `HandleLogOut` |
| unread counters | `FriendMgr.go`, `GroupChatMgr.go` | two maps | `AcquireUnreadMesCount` |
| live group display | `client/processes/server.go` | `gCMesRealTimeDisplayChan`, `newGCMesChan`, `quitGroupChatChan` | `GCMesRealTimeDisplay` |
| keyboard input | `client/main/main.go`, `client/utils/utils.go` | three request and three answer channels | `ReadIntInput`, `keyboardIntInputManager` and their likes |
| chat logs | `client/processes/fileReadWrite.go` | one JSON file per friend or group | append, page through |

How they interact. `main` is the only reader of epoll. It puts descriptors into
`tasks`; a worker takes one, looks its `Processor` up, reads **one** message
and runs its handler to the end. Handlers share `onlineUsers`, redis and the
TLS connections, and nothing else orders them: two messages of one account, of
two friends, or even of one connection are handled side by side. A client has
one goroutine that reads, one that shows the menu and two that count unread
messages; they are tied together by channels that outlive a login.

What makes it hard:

* epoll is edge triggered, and a worker reads once per edge;
* every decision of a handler (is the recipient online? is there an older
  session?) is a look at a table that another worker may change before the
  handler acts on it;
* a user or a group is one JSON document, read whole and written whole, and
  one request changes two of them;
* redis keeps the records and the offline lists over a crash, while the tables,
  the applications to groups, the batches popped from a list and the connections
  are lost;
* a write to a peer that has gone may fail or may vanish;
* the client's channels are unbuffered or bounded, and global; its menu and its
  reader share the keyboard and the files.

What makes each component correct is stated by the properties of section 4.

## 2. Modules

| module | models | proofs |
|---|---|---|
| `Presence` | `userMgr.go`: the table of online users and the connections still up. Extended by the next two | |
| `Mailbox` | abstract: what a sender is promised of a message | |
| `Delivery` | `SendOneToOneMes`, `ForwardGroupChatMes`, friend requests and answers, `StoreOfflineUserMessages`, `GetOfflineUserMessages`, `PushOfflineUserMessages`; implements `Mailbox` | `DeliveryProofs` |
| `Session` | `ServerProcessLogin`, kick, notifications, `HandleForOffline`, `processConn` | `SessionProofs` |
| `EventLoop` | `main`, `worker`, `ReadPkg` | `EventLoopProofs` |
| `Records` | `userDao.go` on the hashes `users` and `groupChats`, called by `Register`, `ForwardAddFriendResMes`, `groupChatImpl.go`, `Login` and the logout | `RecordsProofs`, `AgreementProofs` |
| `ClientSession` | `handleLogin`, `ShowMenu`, `ProcessServerMes`, `AcquireUnreadMesCount`, `HandleLogOut`, `ReadIntInput`, `keyboardIntInputManager` | `ClientSessionProofs` |
| `ChatLog` | `fileReadWrite.go` and the counters of unread messages; the part of the next that any chat shares | `GroupChatViewProofs` |
| `GroupChatView` | `GCMesRealTimeDisplay` with the reader and the menu; extends `ChatLog` | `GroupChatViewProofs` |

`SequenceLemmas` has the facts about ranges of sequences that the proofs share;
`EventLoopProofs` begins with those about counting in sequences and in the pool.

Each module abstracts what another one has. `EventLoop` knows that a message was
read once and by whom, and its `HandleMes` stands for a handler of `Session`,
`Delivery` or `Records`. `Session` decides who is in the table, which `Delivery`
takes as given but interleaves in the same way (both extend `Presence`). `Records`
has the stored documents and takes it that what is pushed to a client arrives,
which is `Mailbox`'s promise. The client's modules take messages from a server
that may send any of them at any time.

`MC<module>.tla` gives each its instance for TLC, and the `.cfg` files choose
bounds and failures. Definitions headed *Mutant* are faulty variants of the
definition below them; no specification uses them. They show that a property
notices the fault.

### How a module corresponds to the code

**Delivery.** A message is accepted (`SendOneToOneMes` up to the friendship
check, or `ForwardGroupChatMes` with the members of the group as recipients),
and its handler then serves one recipient after the other: look the session up,
then write to it or store the message. Look-up and store are two actions, as in
the code, so a login may come in between. The push at login pops the list message by
message until it is empty, then writes the batch message by message. An `LPOP` is
two steps: redis takes the head off the list (`Pop`), and the answer reaches the
login (`PopAnswer`) or never does (`PopFails` at `"answer"`, or a crash), when
the message is neither in redis nor with the login. An error also meets what
comes first: the friendship check, or the group's record (`AcceptFails`: the
message is turned back or dropped). An `RPUSH` that redis carried out and whose
answer is lost stores the message, and since every caller only logs the error that
is `Store`; `StoreFails` is one that was not carried out. `inbox[u]` is what
reached a client of `u`, `queue[u]` the redis list, `lost` the copies given up.
Contents are left out: a message is a model value with an origin and a destination.

**Session.** A handler is a pair of a connection and `"in"` (its login) or `"out"`
(the end of its stream), and a program counter goes through the statements that
touch shared state: status, table, kick, friends' status, table again, reply,
`p.UsrId`, one friend after the other. `view[c]` is what the client on `c` has
been told of its friends. `NotifyPanics` is the nil dereference in
`NotifyMyStatus`: it ends the process, as a crash does. The status is a field of a
record that others write whole: `copies` are the records in the hands of handlers
that add a friend or a group, with the status they read, and `SaveCopy` puts that
one back (`CopyRecord`, `SaveCopy`, `DropCopy`). `ModifyUserStatusById` does the
same to the other fields, which is in `Records`; the status it writes does not
depend on the copy it read, so `SetOnline` and `SetOffline` are one step each. A
redis error has the outcome the code gives it at each place: `LoginRefused` (a
reply with an error), `SetOnlineUnanswered` (the record is written and the login
refused), `ReadFriendsFails`, `ReadGroupsPanics` (a nil group is dereferenced),
`TellNobody` (no friend hears of it), `SetOfflineFails` (ignored). `overlap` and
`spoiled` are history: which accounts had two handlers at once, and which were
caught by a crash, a reset, an error or a stale record that changed their status,
so that the invariants can say what is promised to the others. The end of a stream
may be looked at twice (`close_notify` and FIN).

**EventLoop.** Epoll's ready list, the batch, the channel and the workers are
explicit. `sent`, `pulled` and `read` count what arrived at the socket, what
`tls.Conn` took from it, and what `ReadPkg` returned (headers and bodies).
The list is a set, since epoll promises no order: `EpollWait` returns the readable
descriptors of it in any order, at most `MaxEvents` (the 20 of `main.go:78`) of
them, and drops those that are no longer readable, as the kernel does. A
record may arrive in two pieces, and a `Read` may take more records from the
socket than the one it returns. `merged` is history: the descriptors for
which two arrivals shared an edge, or a read (that of the handshake included)
used up the next record's edge. Errors in `main` are its `return` after
`EpollWait` (`EpollWaitFails`, then `stopped`) and its `continue`s: after `Accept`
(`AcceptFails`) and after `File`, `SetNonblock` or `EpollCtl` (`RegisterFails`), when
the connection is in `dropped`, known to nobody.

**Records.** `db` holds both hashes. A place of a handler is the function of
`UserDao` it is in; each is two actions, `HGet` into the worker's copy (with the
function's refusals) and `HSet` of the changed copy, so a write of another worker
may fall in between. `After` is the order in which a handler calls them, also
after an error. `RedisError` is a command that fails, or one that was carried out
and whose answer was lost. `applied` is `joinGroupChatApplyMap`, which a check and
a delete visit in two steps. `told` is what the clients know of a group's members.
A login reply replaces it (`loginRes` until it arrives), a logout empties it, a
verdict or a new group's answer brings one group's record, and news of a new
member adds one. News of a group the client does not know is dropped, as
`AddNewMember2GC` does. `table` are the users who are online; for the others news
is stored (`mail`) and so is a verdict with its record (`fresh`), and a client
reads what was stored after the reply to its login. `hungUp` are creators whose
connection ends before the answer. `LoginPanics` is the nil pointer that a group
without a record gives `GetAllGroupChatsOfUserByID`. History variables name what
spoils a promise: `stale` (a write from a copy out of date), `cut` (a handler met
by a redis error or a crash), `crossed` (two handlers on the same two records),
`rejoined` (a member let in again), `raced` (two answers to one application past
the check), `forgotten` (applications at the server's end), `missed` (let in while
the record, or the reply to a login, was on its way to another's client; a verdict
that came to a client before that reply, or that had no one to go to).

**ClientSession.** Unbuffered channels are joint actions of two goroutines;
`logOutChan` is a counter. A menu option is the integers it asks for, what it
does to the channels and to `CurUsr.Conn`. A prompt is `Request` (into
`IntInputRequestChan`), `Await` (on `IntResChan`) and the manager's two steps;
Go serves the receivers of a channel in the order they came. The loops that ask
again do so here too: a verdict that is none, option 5 until the group is in the
table. A room is a display with its sign in the channel (`slot`), which
`Retract` takes back after a quit, and the reader's choice between `FindSlot` and
counting; `HandOver` is `newGCMesChan`, in which the reader may wait for a
display that has gone. `HandleLogOut` replaces `CurUsr`, `FrdMgr` and `GCMgr` in
three steps (`friends`, `groups`: whether the tables of this login are still
there). `Panic` is a nil `Conn` or a missing table entry after one of them.

**ChatLog.** A save is `Decode`, `Truncate` and `Encode` of the whole file, by the
reader or the menu, with nothing between them that keeps the other out. A page is
read from what the file holds at that moment; reading on is the user's choice. A
friend's message is saved and then counted, a group's counted and then saved, as
in `ProcessServerMes`. `torn` records the files two goroutines had in hand at
once, `passed` what the user has had the chance to see. Counters are also set to
nothing by `AddNewFriendToMap` and `AddGroupChatToMap` when the chat was there
already (`AddAgain`), and replaced when a session ends: by a logout or a kick
(`LogOut`, `LoggedInOnAnotherDevice`), after which reader and menu end and a login
begins anew, or by the end of the process (`Panics`, `Restart`); `forgotten` are
the messages counted in a chat that is added again, and all that had arrived when
a session ended.

**GroupChatView.** The inner and outer `select` of a display are places, and a
display that was told to quit while it waits owes a retraction of its slot. A
slot says nothing of its group, in the model as in the code: a message of
another group may be shown.

## 3. Runs

| run | configuration | shows |
|---|---|---|
| `delivery` | 2 users, 3 messages (one-to-one, group, and one turned back by the friendship check), 2 connections that are reused, redis errors and lost answers, crashes | a copy is in one place; redis order kept; only an `LPOP` shortens a list; `Mailbox` is implemented |
| `delivery_liveness` | 2 messages (group, friend request), no failures, `FairSpec` | only a closed connection costs a message; lists are pushed to their end |
| `late_store` | violation | a message stored after the drain stays behind |
| `session` | 2 friends, 3 connections, 3 accepts, 1 fault (a reset, a kill, a redis error or a record in another handler's hands), panics | status, table and friends' view agree where no handlers overlapped and no fault struck |
| `session_liveness` | 2 connections, 2 accepts, `FairSpec` | closed sessions leave both tables |
| `session_notify` | violation | the friend notified may be gone: nil dereference |
| `eventloop` | 2 clients, a patient one with 2 records and one that is not with 1, in pieces or whole, 2 workers, channel of 1, errors in `main`, `FairSpec` | a look is on its way for whatever waits; one handler per record; a patient client does no harm; what arrives is handled, accepted, noticed |
| `records` | 8 databases of 3 users and 2 groups with up to 5 requests, 2 workers, 2 seats for managers, 1 failure, `FairSpec` | the two hashes agree, groups are whole, verdicts are made once and told, members know each other, but for the named causes |
| `client_session` | 5 logins, 7 kinds of messages and the kick, rooms, `FairSpec` | tokens suffice and are always sent; answers reach their prompts; back to the first menu but for the named ways to get stuck |
| `client_session_menu` | violation | a left-over token ends the next menu |
| `group_view` | a friend and a group, 2 arrivals, 2 visits, 1 look at the friend's messages, 1 message of the user's own, 2 ends of a session, `FairSpec` | slots owned, messages seen or counted, logs complete, quit completes |
| `group_view_reader` | violation | the reader waits for ever after a quit |

Bounds, and why they are enough. The races are between two handlers (or a handler
and a peer), so two workers reach each of them; a third would add only what two at
a time already do, since handlers share no counter but the pool size. Two accounts
are needed for friends and three connections for a second device beside a friend.
`MaxAccepts` bounds the connections of a behaviour, because a connection's name is
reused, and `MaxFaults` is one because two faults add no promise: whoever one has
caught is promised nothing any more. The run of `session` does not follow a state in
which every account has overlapped or been caught (`SomeoneIsPromised`), since the
history only grows and nothing is promised from there on. One place in the channel makes it full with
two events. `MaxEvents` is 2, as many as are ever readable at once with two
connections, so that a batch may be half dispatched when the channel is full; that
a longer list is taken in turns is left to the proofs. Two records (`MaxMsgs`) of
a patient client are needed for the second to meet the handling of the first; a
record in pieces with a close is enough for a body taken for a header, for merged
edges and for more looks than records. `Paced` names the clients that send whole
records and wait for the handling of each, beside one that does neither.

The eight databases of `MCRecords` (`Scenarios`) bring the requests that touch the
same records together: a user who applies twice and is made a manager; two who
join while one logs out and in; an outsider who joins while a member logs in; two
managers and one application; two members for the last seat; one id registered
twice and two friends who add each other; two groups created while one creator
logs in; a creator who is not answered yet and applies to the own group. Two seats
(`MaxMgrs`) make the bound matter with three users, and one failure
(`MaxFailures`) reaches every point of a handler. A request is sent and arrives in
one step. The logins and logouts of one user come one after the other here
(`Session` has them overlap).

Client tokens left over reach their maximum, three, at the fourth login
(`MaxLogins` is 5). Two visits (`MaxVisits`) are needed for a display left over
from an earlier one. `Inbound` (a group's message, then a friend's) and one own
message (`MaxOwn`) give each file two savers and messages beyond a page of one
(`BatchSize`). Two ends of a session (`MaxEnds`) let one come while the next
login's messages are counted. Deadlock is not checked where clients or users may
stop, which is everywhere.

Fairness. Goroutines run and writes return: weak fairness of each handler, worker,
`main`, reader and keyboard manager. Strong fairness is used where a step waits
for one of several things that come and go: the end of a stream waits for a free
worker, which the first-in first-out channel gives it, and a `select` among ready
cases is random in Go. Clients owe no message and managers no verdict. Two
assumptions concern the outside: a client that connects finishes its TLS handshake
or goes away (`tls.Client`'s `Handshake` is called at once), and the user answers
prompts.

## 4. What the runs show

* **No copy is duplicated or vanishes silently.** `NeverTwoPlaces`, `HeldOnce`,
  `CopiesAccountedFor`, `MailboxSpec`: with failures. `NoLossWithoutCause`:
  without failures only a closed connection costs a message. `InStoredOrder`: what
  is pushed is in the order redis had. `QueueOutlivesTheServer`: a message leaves
  a list only from its head and into the answer to an `LPOP` of a login of that
  account; neither a crash nor a failed drain nor a logout shortens one. An
  answer that never comes takes its message along.
* **Sessions.** `StatusAgrees`, `LoggedInIsReachable`, `FriendsSeeStatus` hold for
  accounts whose handlers never overlapped and no fault caught; each exclusion is
  needed, and is a hazard of the code: two logins at once replace each other
  without a notice, a logout deletes the session of a login that came after its
  check, a friend's status is read before the table is entered, a reset leaves a
  ghost, a crash leaves the status online, an error of redis at a logout too, and
  a record written from a copy of before a login or logout brings the old status
  back (such a record does no harm when its status is the one stored). What
  befalls an account in the excluded cases no property says.
* **Events.** `WakeupForEveryRecord`: one look per record is enough unless edges
  merge; when they do, a message waits for the next arrival. `EveryRecordReadOnce`
  holds for any interleaving; `PacedDoesNoHarm` is about the clients that send
  whole records one at a time, which the code does not enforce. The liveness
  properties except a server that has ended (`Ended`: the error of `EpollWait`, or
  the slice out of range) and the state in which every worker waits in a `Read`
  for a client that owes nothing (`PoolHeld`), when nothing else is served. Two
  records in pieces bring it about: with `Msgs` of 1 for the patient client and 2
  for the other one, TLC finds a message that is never handled if the exception is
  left out. In the run's own instance a single such record holds one worker of
  two, and the properties hold without it.
* **Records.** `GroupIsWhole`: no lost write can break a group's own record; only
  a member let in twice, who may be its leader, has a seat without the role.
  `MembershipAgrees`, `FriendshipIsMutual`, `NoPhantomGroup`: the two records of a
  membership or a friendship agree when no handler is at work on both, unless one
  of them was written from a stale copy or a failure fell in between; the roles
  also need that two handlers did not cross. `NothingTakenBack`: nothing else
  takes a member, a friend, a seat or a password away. `DecidedOnce` and
  `AnsweredIsTold`: one verdict on an application, and the applicant hears it,
  unless two answers passed the check together, or the server ended.
  `MembersKnowEachOther`: the client of every member who is online has all members
  of the group, over logins that replace what it knows, logouts that empty it and
  news that waited in redis; but for those let in while a record or a login reply
  was on its way to it, and unless a write of the group's or of the user's record
  was lost or cut. Each exception is needed: without it TLC finds a counterexample
  in these databases.
* **Client.** `TokenForEachCounter`: the tokens of a logout suffice.
  `LogOutCompletes`: they are all sent, unless menu and reader log out together
  (`twice`). `BackToFirstMenu`: after a logout or a kick the first menu comes
  back, unless a hand-off was under way to a goroutine that has ended (`Stranded`:
  the menu, a counting goroutine, or a room's display, which leaves the reader
  waiting in `newGCMesChan` for ever), menu and reader log out together, a panic
  ends the client, or the menu asks for a group of a table that has none
  (`NoGroupToChoose`). These are the known ways to hang; the property is that
  there is no other. `AnswersReachTheirPrompt`: an integer typed for one goroutine
  is taken by it, unless the other one asked between its request and its wait; a
  friend's request never does, since it holds the menu, an application to a group
  may.
* **Chats.** `SlotsAreOwned`, `NobodyOffersOutside`, `QuitCompletes` for the
  displays. `SeenOrUnread`: a message the reader is done with was shown, is
  counted, or was passed over by a user who saw a page without it, unless its
  counter was emptied with the chat unseen (`forgotten`): by a friend or a group
  that is added once more, or by the end of the session. `LogIsComplete`: a log
  has every message once and in order, unless menu and reader had the file in hand
  at once, which does lose messages.

Disagreements between the code and its comments are the four runs marked
*violation*; `PROJECT.json` quotes them.

## 5. Proofs

The theorems hold for every value of the constants: any sets of users,
connections, groups, messages and workers, any friendships, databases, requests
and bounds. They use only the named assumptions of the modules, which say what
type a constant has and, for `Records`, that the databases it starts from are
what the program writes (`ScenariosAssumption`); TLC evaluates them on every run.

| module | theorem | states |
|---|---|---|
| `DeliveryProofs` | `TypeCorrect` | `TypeOK` |
| | `CopyInOnePlace`, `CopyHeldOnce`, `CopiesAreAccountedFor` | `NeverTwoPlaces`, `HeldOnce`, `CopiesAccountedFor` |
| | `DeliveryImplementsMailbox` | `MailboxSpec` |
| | `OfflineMessagesInOrder` | `InStoredOrder` |
| | `QueuesOutliveTheServer`, `LossesHaveCauses` | the action properties `QueueOutlivesTheServer`, `NoLossWithoutCause` |
| `SessionProofs` | `SessionTypeCorrect` | `TypeOK` |
| | `StatusAndTableAgree`, `LoggedInAreReachable`, `FriendsSeeEachOther` | `StatusAgrees`, `LoggedInIsReachable`, `FriendsSeeStatus` |
| `EventLoopProofs` | `EventTypeCorrect`, `RecordsReadOnce` | `TypeOK`, `EveryRecordReadOnce` |
| | `PacedClientsDoNoHarm`, `WakeupsSuffice` | `PacedDoesNoHarm`, `WakeupForEveryRecord` |
| `RecordsProofs` | `RecordsTypeCorrect`, `GroupsAreWhole` | `TypeOK`, `GroupIsWhole` |
| | `WritesTakeNothingBack` | the action property `NothingTakenBack` |
| `AgreementProofs` | `FriendshipsAreMutual`, `GroupsExist`, `MembershipsAgree` | `FriendshipIsMutual`, `NoPhantomGroup`, `MembershipAgrees` |
| | `ApplicationsAreDecidedOnce`, `MembersAreKnown` | `DecidedOnce`, `MembersKnowEachOther` |
| `ClientSessionProofs` | `ClientTypeCorrect`, `CountersAreTold`, `AnswersAreTaken` | `TypeOK`, `TokenForEachCounter`, `AnswersReachTheirPrompt` |
| `GroupChatViewProofs` | `ViewTypeCorrect`, `SlotsHaveOwners`, `RoomsAreLeft` | `TypeOK`, `SlotsAreOwned`, `NobodyOffersOutside` |
| | `LogsAreComplete`, `MessagesAreSeen` | `LogIsComplete`, `SeenOrUnread` |

The arguments. Hardly any of these properties is inductive as it stands: each
speaks of moments when nobody is at work, and the invariant has to say what holds
while somebody is.

*Delivery.* The inductive invariant is `TypeOK /\ Ledger`, where `Ledger` adds
`Fresh` (a message not yet sent is nowhere) to the three properties of copies: that
a copy stored now is not already in the inbox follows from where its handler is,
and that a message accepted now has no copies yet has to be said. For the
refinement each action is shown to be a step of `Mailbox` (take, deliver, lose) or
a stutter. The order of offline messages needs `OrderInv`: a message is stored once
for a user (which is where `Ledger` comes in), list and batches are in the order of
storing, and every message of a batch is stored before every one of the list. The
last conjunct is what two logins that pop the same list keep between them.

*Session.* `SessionInv` has `OverlapInv` (two handlers of one account that run at
once are in `overlap`), `AgreeOf` and `ReachOf` per account and `SeeOf` per pair of
friends. They say what status, table and a friend's view are at each place of a
handler, for accounts that never overlapped (`AgreesAt`, `ShownAt`, `ReadAt`). A copy
in another handler's hands needs no clause: what it writes is either the status
that is stored, or puts the account among the `spoiled`.
`Frame` bounds what one step may touch, `Noted` says that it records an overlap it
begins, and `Unmoved` that another account's handlers have not moved; with these
each step is considered for the one account it serves.

*Event loop.* `Fresh` says that of a connection main has yet to take nothing is in
the table, the channel or a worker; `Counts` orders the counters of a connection and
says which worker is between two of them (`Bodies` is the parity of `read`). A
patient client has at most one thing under way (`Patience`): its descriptor on the
list, reported, queued or looked at, or a message in a worker's hands. `Awake`
strengthens `WakeupForEveryRecord` to the connection in its handshake and to a
first piece, which owes a look although no record has arrived; a worker that waits
for the rest of that record is that look. `Looks` moves from batch to channel to
worker without loss (`MainLooks`, `WorkerLooks`), so only `EpollWait`, an arrival and
a `Read` need thought: a `Read` that takes the one record left empties the list's
entry but needs it no longer.

*Records.* Everything rests on `TypeInv` (whole records of the key's type, copies
that fit the handler's place). `WholeInv` adds that copies in the hands of workers
are whole too, which is why a lost write cannot break a group. Agreement of two
records is carried through the middle of a handler: `FriendInv` (the second write is
about to be made), `EnteringInv`, `MemberOfBoth` and `SameInBoth` (between the
group's write and the user's), `ClaimsInv` (what a user's record or a copy of it
says of groups), `NamesInv` (whoever is named is registered). `SentOnce` and
`OpenUntilDecided` follow an application through its life. `KnownInv` says who is
about to tell whom: of two members, one is known to the other's client, or is news
that a handler has yet to write (`NewsIsComplete`), that waits in redis
(`MailIsComplete`, with `FreshIsPushed`), or is in the reply to a login on its way
(`RepliesAreComplete`), or is named in `missed`.
`ClientsKnow`, `MembersHaveRoles`, `RepliedHaveRoles` and `HungUpAreMissed` tie these
to who is online and to what the two records say.

*Client.* `TokenInv` balances the tokens in the channel and those still to be sent
against the goroutines that count. `InOrder` says that, as long as nobody overtook,
the waits on `IntResChan` are in the order of the prompts, but for the last.

*Chats.* `Owing` are the displays that a slot is out for: as many as the channel and
the reader's hand hold, since each step moves one of each.
`RoomInv` ties the room to the place of the menu. `LogInv` says what a saver that has
a file in hand holds of it. `SeenInv` follows a message from the reader's hand to
the log, the counter and the pages (`AccountedInv`, `PagedInv`), where `kept` is what
the file would hold without the save that is under way; what an end of the session
or a second adding empties is `forgotten` in the same step.

What proving changed in the models. `Refuses` had cases whose guards overlap, which
TLC resolves by their order and a prover may not. `GroupIsWhole` has to except a
leader who is let into the own group, and `MembersKnowEachOther` groups with a lost
write: three workers, or a database no run had, violate the stronger statements.
`StopReading` while a file is truncated had to look at what the file will hold, which
the run's bound of one look at a list hid. `EventLoop` had epoll's list as a
sequence that `SelectSeq` filtered, an order the code has no right to and an operator
the provers do not know; and it returned the whole list, where a program with more
connections than events has to come back for the rest. `Begin` did not say that a
client does not apply to a group it knows. The strengthened invariants were checked
by TLC on the instances of section 3 before they were proved.

Only model-checked: liveness, since the prover handles neither fairness nor
`ENABLED` (`ClosedSessionIsForgotten`, `OfflineMessagesArrive`,
`EveryMessageHandled`, `EveryConnectionAccepted`, `AnsweredIsTold`, `QuitCompletes`,
`LogOutCompletes`, `BackToFirstMenu`). Recursive operators are not used, since the
prover loses its arithmetic back end in modules that reach one.

## 6. Not modelled

* The keyboard managers of strings and texts, which have the form of the one for
  integers, the lock that gives the keyboard to one of them at a time, and what a
  `Scanner` has read ahead.
* Names, remarks and texts; the building and printing of messages
  (`message.go`, most of `client/processes/userProcess.go`): sequential
  marshalling without shared state.
* The 8096-byte buffer of `Transfer`: a bound on data the modules abstract from.
* Descriptor numbers, their reuse, and the finalizer that may close one.
* Go's own map races: undefined behaviour that ends the process, as a crash does.
* In `Records`, what clients know of roles; a second device of one account and the
  late logout of a first one; the drawing of ids while redis does not answer. That
  a look-up and a store are two steps is `Delivery`'s: here news is written or
  stored at once.
* In `ChatLog`, errors of the file system; decoding a file is one step. A logout
  does not fall between the reading of a friend's message and the opening of its log,
  nor between the choice of a friend and the list shown.
* In `ClientSession`, option 9 (`os.Exit`) and a login that fails; both end or begin
  again without the goroutines of a session.
* `GetRedisPool`: twenty lines of configuration.

`PROJECT.json` lists each with its reason. `Session` assumes that the end of a
stream reaches a worker; `EventLoop` says when it does.

## 7. Plan

Done: delivery with its abstract specification, sessions, events, records, the
client's session, its keyboard for integers, its logs and displays; the proofs of
section 5.

Next, most important first.

1. `FdTable`: descriptor numbers, `unix.Close` twice, the finalizer.
2. The client's `Login`, which takes the first package for the reply, composed
   with `Session`.
3. `Records` with the roles that clients know.
