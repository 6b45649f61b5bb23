# TLA+ models of the TCP chat server

This directory holds TLA+ specifications of the chat application in this repository (`src/` and
`include/` below are its directories), the TLC configurations that check them on small instances, and
theorems about them with proofs checked by TLAPS.

Line numbers in the modules' comments refer to the C sources, the README and the guides of the
repository. A definition has the name of the C function or variable it models where there is one.

## 1. The system

A single-threaded server multiplexes TCP connections with `select()`. Clients send length-prefixed
requests; a handler per request type reads and writes five tables in memory, answers, notifies other
clients, and saves one of four data files. A client is a program with two threads: one reads commands,
one prints what the server sends.

| Component | State it keeps | Operations | Talks to |
|---|---|---|---|
| Connections (`server.c`) | `clients[]`: descriptor, `user_id`, `last_activity`; `client_count` | accept, `disconnect_client` | user records, sessions, friends (broadcast) |
| User records (`user.c`) | `g_users[]` with a status; `users.dat` | `handle_register`, `handle_login`, `handle_logout` | |
| Sessions (`user.c`) | `g_sessions[]`, append-only, a valid flag each | `create_session`, `invalidate_session`, `invalidate_session_by_user` | |
| Friendships (`friend.c`) | `g_friendships[]`, directed records with a status; `friends.dat` | request, accept, reject, remove, list | clients that are online (announcements) |
| Groups (`group.c`) | `g_groups[]`, `g_group_members[]`; `groups.dat` | create, invite, join, leave, remove, message | friends' and members' clients |
| Messages (`message.c`) | `g_messages[]` with a delivered flag (`messages.dat`), `g_offline_queue[]` (memory only) | send to a friend or a group, deliver at login | |
| Event loop (`server.c`) | `master_set`, `max_fd`, the snapshot `read_fds` | `select`, accept, one message per ready slot, timeouts | every handler |
| Framing (`protocol.c`) | how far a message has been sent or read | `send_message`, `recv_message` | |
| Storage (`*_to_file`, `*_from_file`) | four files | truncate-and-write after a change, read at start | every table |
| Client (`src/client/`) | `running`, `user_id`, two threads | commands, receive loop, disconnect, signal handler | the server |
| Log, password hash, `view_dat` | a log file; none | | |

### What is hard about it

* **One fact in several places.** That a user is here is recorded in a slot, in the user's status, in
  the session table and in the picture each friend's client has. Four handlers write them, in different
  orders, and one of them can fail half way (a full session table). A user can log in twice, a slot can
  change its user without a disconnect, and the server can die while users are recorded online.
* **Tables that are only appended to and overwritten.** Friendships are deleted by emptying a status,
  memberships by changing a group id, queue entries by a flag. Lookups are linear searches for the first
  match, so the order of operations over a long time decides what is found.
* **Decisions at one time, effects at another.** A message is queued when its recipient is away and
  handed over at the next login; a friend request is announced at once or at login; in both cases neither
  lost nor twice.
* **Sending that fails silently.** `send_response` ignores what `send_message` returns: a broken
  connection or an oversize payload loses a message already acknowledged.
* **A snapshot that the loop invalidates.** The slots are scanned against what `select()` returned, while
  accepts and disconnects in the same round close and reuse descriptors. A `recv()` that finds nothing
  would stop the server.
* **Four files, saved apart.** Each save truncates its file and rewrites it, and its result is ignored.
  It can fail to open the file or die half way; ids are positions, so a lost record gives its id to
  somebody else.
* **Two threads and a signal handler without a lock.** The client's main thread, its receive thread and
  its signal handler share `running` and `user_id`; leaving waits for a thread that waits for the server,
  and a signal can cut a message in two.
* **Sending that blocks.** The server's one thread stops in `send()` to a client that does not read, and
  in `recv()` in the middle of a message; the client stops in `send()` when the server does not read.
* **Time.** Timeouts are looked for only in rounds where nothing at all happened.

What makes each component correct: slots, statuses, sessions and views agree (presence); one live record per
pair and friendship by consent (friends); one membership per user and group, roles given and taken by the
right hand (groups); each message in order and once, or twice or lost for a reason one can name (messages);
descriptor bookkeeping, no blocking on an empty socket, everybody served and silent clients dropped as long as
no client holds up the server (event loop); a restart brings back what was saved, and ids keep their meaning
(storage); messages received as they were sent (framing); both ends agree on the user, a client that leaves
gets out and does not stop the server (client). `PROJECT.json` lists the hazards line by line with the
properties that cover them.

## 2. The modules

| Module | Models | Checked by |
|---|---|---|
| `Presence` | slots, statuses, sessions, friends' views | `MCPresence`, `PresenceProofs` |
| `Friends`, `FriendGraph` | the friendship table; the relation it implements | `MCFriends`, `FriendsProofs` |
| `Groups` | groups and memberships | `MCGroups`, `GroupsProofs` |
| `Messaging`, `Mailbox` | messages, queue and delivery; what they promise | `MCMessaging`, `MessagingProofs` |
| `Storage` | the four files, saves that fail, restarts | `MCStorage`, `StorageProofs` |
| `EventLoop` | the server's thread, descriptors, time | `MCEventLoop`, `EventLoopProofs` |
| `Framing` | one direction of a connection, byte by byte | `MCFraming`, `FramingProofs` |
| `ClientApp` | the client's threads and its connection, message by message | `MCClientApp`, `ClientAppProofs` |

One handler is one action: the server is a single thread, and nothing else writes its tables. What a
handler does in sequence (kick the old session, then try to create one, then set the slot, the status,
the list and the broadcast) is in that order inside the action. A request that is refused and changes
nothing has no action: it is a stuttering step. The handlers of different components share only the
slots, so each module has its own small version of "who is online", driven by logins and logouts that may
come at any time. Three modules look below the handler: `EventLoop` at the thread that calls it, `Framing`
at the pieces of one message, `ClientApp` at the answers it sends one by one and at the threads that read
them. `EventLoop` and `Messaging` use the outcomes of `Framing` (a message is complete, incomplete, ill-formed
or too long), `ClientApp` its messages and its torn message.

Operators named `M_...` are not part of the model. Each is a plausible slip in the definition that
follows it (a dropped test, an off-by-one, an update of the wrong record); with it in place, one of the
properties fails. They document what the properties exclude.

### Presence

`clients[s]` is `Closed`, `0` (connected) or a user id. `handle_login` covers a login on a free
connection, a second login of the same user elsewhere and a login on a slot that is logged in already;
the code allows all three. `g_sessions` only grows: with the table full, a login fails after the old
session has been invalidated. `disconnect_client` is also what a timeout and a failed `recv` do;
`handle_logout` does its work and then calls it, so it is the same action. `signal_handler` runs between
two handlers. `Crash` loses the memory and keeps the statuses in `users.dat`; the shutdown writes
them offline first. `view` is what each client was last told, from `MSG_FRIEND_LIST_RSP` and
`MSG_STATUS_NOTIFY`; notifications go to the first slot that holds the friend.

`muddled` is an auxiliary variable: users whose login met another one (of the same user, or on the same
slot) or who were online at a crash, until they log in afresh. For them the tables do disagree (see the
run `presence_twice`), so the exact properties speak of the others. That is not an assumption about the
environment: muddled users take part in every run and in the theorems, and must not spoil the others.

### Friends and FriendGraph

The table with its tombstones, in the order of the array, and the four handlers that change it. `told`
is what a client has been told of since its login. `wants` is an auxiliary variable for consent: asking
and accepting say yes, rejecting and removing say no. `FriendGraph` has no table: a relation between
ordered pairs; `Friends` implements it with `rel` mapped to the first live record from one user to the
other.

### Groups

Membership records with a role; removing a record sets its group id to -1, which lookups still find when
a request names -1, as the code's search does. Handlers that use the result of a failed lookup without a
test stop the process (`up`). Id 0 is the `user_id` of a connection that has not logged in: two handlers
do not test for it.

### Messaging and Mailbox

`g_messages` and `g_offline_queue` with both sets of delivered flags, `inbox` for what arrives at a
user's client. `broken` connections are those the server has not noticed yet; sizes are `fits` and
`too_long`, a payload that fits as sent but not as delivered (`MAX_PAYLOAD`, with the id, the name and
the time added). `g_group_members` is the table of `Groups` without roles: a record has a group id and a user
id, and a removal moves the record to the id -1, under which a user may have many. `handle_group_message`
serves -1 like any other id that the client types: the first `MaxFanout` records (`get_group_members` with
its array of 100) get the message, one copy each. Under -1 there is no group whose name could be sent, so
the server dies at the first recipient it finds online; what it queued is lost with it. Only if all of them
are away does it go on, and then a user with two deleted records gets two copies at its next login. The id 0 of
a record is found when a connection has not logged in (`here`).

`owed` is auxiliary: the acknowledged messages a user may expect. `deleted` and `beyond` in a message are
auxiliary too: that it went to deleted records, and which members had their records after the first
`MaxFanout`. They name the exceptions in the properties. `Mailbox` promises delivery in order and as often as
a message was kept, with no queue or flags; `Messaging` implements it with the box mapped to the
undelivered entries that fit (`Kept`). A login delivers in the order of the queue (`Nth` counts its
positions). `restart` is a shutdown or crash and a new start: `messages.dat` keeps the messages, nothing
keeps the queue, and `Mailbox` promises no more than that. `groups.dat` brings no members back (see
`storage_members`).

### EventLoop

`select`, one `accept`, the scan of the slots with one blocking message read each, the handler of that
message, and the timeout pass. A socket holds requests, an end, and last perhaps an incomplete message. Of a
handler the module has what can stop the thread and what changes the slots: it sends to any connections
in any order (`answers`: its own client, friends, members), each `send()` waits while the client does not read
(`full`), and a handler that ends a connection closes it after it has told the friends (`leaving`). The
timeout pass is such a handler with several connections to close, one after the other. `Stopped(f)` says that the
server sits in `recv()` or `send()` for the client of descriptor `f`. Time runs in the 30 s steps of
`select()`; `quiet` says that nothing happened since the last one, in which case `check_client_timeouts`
runs. `accept()` takes the least free descriptor and fails when there is none.

### Storage

One action per handler that saves, with as much of its table as a reload can tell apart: who is behind a user
id, the two ids and the status of a friendship, whether a group record was created or was read out of members,
the number of members, the delivered flag of a message. A save is `done`, or fails to open the file and the
server goes on, or is cut: the disk is full and the server goes on, or the process dies, and the file holds
the first records only (any number of them, none included; for `groups.dat` any number of bytes, since its
reader splits them anew). `signal_handler` may come in the middle of a handler: the files it leaves are those
before or after the handler's update of its table. `server_init` loads what is there; the offline queue starts
empty. Two auxiliary variables name the excuses: `stale`, the files whose last save failed or was cut, and
`lost`, that `users.dat` was one of them at some restart. `people` in a friendship is auxiliary too: the two
persons who made it.

### Framing

One direction of a connection: `left` is what `send()` has still to take of the last message, `wire` what
the sockets hold, `header` and `buffer` how far `recv_message` has come. `send` and `recv` move any number
of cells. A cell is a byte, but the header has two cells for its six bytes (a length, a type). Either end
may close; the client's `signal_handler` may come between two `send()` calls of one message, and then sends
a logout on the same socket and never returns to the message.

### ClientApp

`ui` is the main thread's place (in `run_ui`, in a `send`, in the steps of `client_disconnect`), `receive` the
receive thread's; each step of `client_disconnect` is an action, because the other thread may write `running`
or `user_id` in between: the test and reset of `running`, the look at `user_id`, the logout, the join. The
signal handler runs the same steps on top of whatever the main thread does and then exits; if `running` is 0
it exits at once. `up` and `down` are the messages in the two directions, bounded, so that both `send()`s
block. On the server's side, `slot` is `clients[s].user_id` and `reply` what a handler has still to send here:
the answers to this client's request, or a notification from a handler that serves another client (before a
login too: a handler that looks for the user id 0 finds this slot). Every handler answers the client that
asked; what else it does is in the other modules. After a torn message (`TORN`) the server waits for the rest
(`read`), unless what followed it made it whole or its length wrong.

## 3. The runs

| Run | Result | What it shows |
|---|---|---|
| `presence` | pass | `OneValidSession`, `ValidSessionIsOnline`, `PresenceExact`, `ViewExact`, `OfflineByOwnDisconnect` with double logins, a full session table, slot reuse, shutdown and crash |
| `presence_twice` | violation | `LoggedInIsOnline`: of two connections of one user, the end of either sets the user offline. The old session is invalidated, its connection is not closed |
| `friends` | pass | `OneRecordPerPair`, `FriendsAgree`, `PendingAnnounced`, and the refinement of `FriendGraph` |
| `groups` | pass | `OneMembership`, `AdminIsCreator`, `DiesOfStaleRecordsOnly`, `RemovedByRight`, `JoinsByOwnHand` |
| `messaging` | pass | `ArriveInOrder`, `QueueOnlyForAbsent`, `LostForAReason`, and the refinement of `Mailbox`, with deleted records, a fan-out limit and a full queue |
| `event_loop` | pass | `BookKeeping`, `BlocksOnPartOnly`, and under fairness `EveryClientServed`, `SilentAreDropped`, with their exceptions |
| `event_loop_full` | violation | `SilentAreDropped` fails when descriptors run out before slots: the loop spins on `accept()` |
| `storage` | pass | `RestartKeeps`, `TailOnlyIsLost`, `FriendshipsKeepPersons` with saves that fail or are cut, shutdowns and crashes |
| `storage_members` | violation | `MembersSurvive`: with fewer than `MAX_GROUPS` groups in it, the members in `groups.dat` are read back as groups |
| `framing` | pass | `ReceivedAsSent`, `GivesUpForAReason`, and under fairness `Arrives`, with pieces of any size |
| `client_app` | pass | `UserIdAgrees`, `LogoutIsLast`, and under fairness `LogoutEnds`, `ServerGoesOn` |
| `client_quit` | violation | `QuitEnds`: `quit` before login sends nothing and waits for a thread that waits for the server |

The runs that end in a violation state what a document or comment of the repository says; `findings` in
`PROJECT.json` quotes it. Disagreements met while modelling and not given a run of
their own, because the line of code shows them as it stands:

* a request that was rejected can still be accepted, although the refusal says "No pending request"
  (`handlers.c:259-263`);
* a user with an open invitation receives the group's messages, although the comment at
  `handlers.c:818-822` says the server should not send them;
* a user may join a group without an invitation (`test_demo/commands_reference.md:204`), and ids that
  belong to no user can be invited (`test_demo/04_group_chat.md:192`);
* an admin who joins its own group again becomes an ordinary member (`handlers.c:642`), although the
  comment at `handlers.c:618` says "We shouldn't overwrite admin";
* the delivered flag of a group message is set when the first of its absent recipients comes back
  (`server.c:425`; `README.md:351-352`);
* a client that stops in the middle of a message stops the server for all (`server.c:190`), although
  `REQUIREMENTS_CHECKLIST.md:45` calls the server non-blocking;
* the reason of a refused login is not shown: the server sends `FAIL||reason`, and the client's pattern
  (`client.c:138`) does not match an empty field (`test_demo/01_basic_auth.md:64-65`);
* the list of friends sent at login (`server.c:384`) does not have the format that the client reads
  (`client.c:199`);
* removed memberships still answer to a request that names the group id -1 (`group.c:161`): a message to it
  goes to those who were removed from some group, once for each time, or ends the server (`handlers.c:841`);
* a group's members after the first 100 records get no message and no entry in the queue, though the sender
  was told OK (`handlers.c:804-811`);
* a client that does not read stops the server in `send()` (`server.c:340`), its timeouts included;
* queued group messages are delivered as direct ones (`commands_reference.md:245`);
* the offline queue is lost at a restart, although `REQUIREMENTS_CHECKLIST.md:340` says it is
  "persisted in messages.dat";
* how late an idle client is dropped has no bound, because any traffic postpones the timeout pass
  (`GUIDE_VN.md:253`).

### Bounds

* `presence`: three slots, three users of whom 1 is a friend of 2 and of 3, four session records. Two
  slots are needed for one user on two connections and for one slot that changes its user, the third for
  a bystander whose tables must not be disturbed; four sessions let double logins, logins after a logout
  and a login that finds the table full follow each other.
* `friends`: three users (interchangeable), three records: enough to ask, answer, remove, ask again and
  fill the table with a tombstone in it; a third party is there to interfere.
* `groups`: two users, the stranger 0, two groups, three records, and the id -1 among those typed.
* `messaging`: two users who are friends, the id 0, one group and the id -1, three membership records, a
  fan-out of two, two messages, three queue entries: one user can be removed twice and the other once, the
  third record of a group is beyond the fan-out, and two messages to two deleted records overflow the queue by one.
* `event_loop`: two slots, three descriptors (one connection is turned away by "Server is full"), two pending
  items per socket, one message sent by a handler before each close, a limit of one time step.
  `event_loop_full` swaps the two: three slots and two descriptors. The program has `MAX_CLIENTS` 1024 slots,
  and 1024 is the usual limit of descriptors.

* `storage`: two persons, who may get each other's ids, two ids, one friendship, two groups, two members,
  one message. A group is two bytes and a member one, so that two members read as one group and half a
  group can be left; in the program they are 376 and 40 bytes, and nine to ten members take the place of a group.
* `framing`: two messages and a logout, payloads of up to two cells whose values look like lengths, a
  stream of three cells: no message fits with the next one's header, the longest does not fit at all, and
  every split of header and payload occurs.
* `client_app`: two accounts (a login as somebody else on a connection that is logged in), two messages
  towards the server and one towards the client, so that both directions fill up and both `send()`s block.
  `client_quit` needs one account.

The bounds on the tables are the program's own `MAX_...` constants made small, and reaching them is part of
what is checked. `MaxSent`, `MaxAnswers`, `MaxIdle` and the backlog bound what clients and handlers do and how
far silence is counted; beyond the limit the count has no effect.

### Fairness

`Framing`: `WF(send)` and `WF(recv)`, each end goes on with a message it has begun (that it begins one, or
closes, is never assumed). `ClientApp`: weak fairness of each of the client's threads and of `send_response`,
since a server that is in a handler goes on with it; `SF(Serve)`, because notifications from other handlers
put off the turn of this connection again and again, but `EventLoop` shows that the turn comes as long as the
other clients hold up the server no longer than this one does (`EveryClientServed`). Nobody has to type, to
notify or to be dropped, and the signal is never forced.

`ServerGoesOn` names the two states in which the server stays blocked on this client; without either of
them it fails. In one, the client has reset `running`, its receive thread has ended, and it sends its
logout into a full socket while the server sends into the other full socket. In the other, a signal came
in the middle of a `send()`: the server waits for the rest of that message and the client for an answer.

`EventLoop`: `WF(ServerStep)`: the thread is scheduled when it can run; it is the only
one of its process. `SF(Tick)`: time passes; it is strong because a busy server disables the step again
and again without stopping the clock. Nothing is assumed about clients, who may stop in the middle of a message
or stop reading for ever; TCP does not guarantee anything else, and the server has no timeout for either. Hence
the liveness properties say in their formulas what they depend on: `ClientsGoOn`, that the server does not stay
with one client for ever, in `recv()` for the rest of its message or in `send()` for it to read. Without it both
fail. `SilentAreDropped` starts from the assumption that clients fall silent, and those that fall silent in the
middle of a message are an exception to the timeout that README.md:336 promises, like those that do not read;
the third exception, too few descriptors, is the run `event_loop_full`.

## 4. The theorems

Each holds for every value of the constants that satisfies the assumption of its module, and rests on an
inductive invariant; the runs check what follows from it. Where an argument goes by induction on a position
in a sequence (the order of delivery, the last answer under way), the proof takes a minimal counterexample
(`WFMin` of the library), because its induction theorems cannot be used with the provers at hand.

`Presence`, for every number of slots, users and sessions and every symmetric, irreflexive friendship
relation (`PresenceAssumption`):

* `PresenceTypes`, `SessionsCorrect` and `ValidMeansOnline`: `TypeOK`, `OneValidSession` and
  `ValidSessionIsOnline` hold always. The inductive invariant `SessionInv` adds `SessionRegistered` (a session
  belongs to a registered user): `handle_register` resets a status, and without it a user that does not exist
  yet might have a session. The argument is the lemma `KickRemovesAll`: `handle_login` invalidates only the
  first valid session it finds, which is all of them because of `OneValidSession` itself.
* `PresenceCorrect` and `FriendsSeenRight`: `PresenceExact` and `ViewExact` hold always. The inductive
  invariant `ExactInv` is `SessionInv` with both, and `Unregistered` (ids without a record are on no slot and
  not online). A login on a fresh connection of a user who is out leaves exactly one slot, one valid session
  and the status; every other login muddles those it meets. `ViewExact` goes by the snapshot at login plus one
  notification per status change: for a user on a single slot, the first slot that holds it is that one, so
  that no notification goes elsewhere.
* `OnlyOwnDisconnect`: `OfflineByOwnDisconnect`, from the same invariant. `handle_register` is the action
  that needs it.

`Friends`, for every number of users and records:

* `FriendTypes` and `OnePair`: `TypeOK` and `OneRecordPerPair`. `create_friendship` refuses a pair that has a
  live record in either direction, and a record that was removed is never revived. With one live record per
  pair the "first match" of every search is the only match (`BetweenFound`, `DirectedFound`), which is what
  the other two theorems rest on.
* `FriendshipByConsent`: `FriendsAgree`. The inductive invariant `FriendInv` adds `NoSelf` and `Consent`
  (who asked still wants it, and a friend who accepted does). A rejection takes back the wish of one user;
  `OneRecordPerPair` says that no other record between the two needed it.
* `TableImplementsGraph`: the refinement of `FriendGraph`. The relation is read from the table; each
  handler changes it for its own pair only, and logins and logouts are stutters.
* `EveryRequestAnnounced`: `PendingAnnounced`, for every run in which no more requests wait for one user than
  a login announces. This hypothesis (`FewPending`) is the code's: `handle_login` gives
  `get_pending_friend_requests` an array of 100. In the instance of the run it always holds.

`Messaging`, for any users, friendships and groups, any size of the three tables and any fan-out, with broken
connections and without:

* `OnceAndInOrder`: `ArriveInOrder`. `OrderInv` is inductive. The queue is in the order of sending, with one
  entry per message and recipient unless the message went to deleted records (`QueueOrdered`); nothing is
  queued, received or owed that is not in the table (`Known`), so that a new number is larger than all of them;
  and what waits for a user was sent after everything it has received (`QueueAhead`). The last holds because
  nothing waits for a user who is online (`AbsentOnly`), and is what lets a login append the whole of the queue
  to what has arrived. That a group message is queued once per member comes from `OneRecord`: a user has
  one record in a group other than -1, because `add_group_member` looks for one first and a removal only moves
  records to -1. That the scan delivers the entries in the order of their positions is a fact about `Nth`, from the
  ranks of the elements of a finite set.
* `QueueIsForAbsent`: `QueueOnlyForAbsent`, from `AbsentOnly` and `QueueOrdered`. `MessageTypes`: `TypeOK`.
* `NotLostWithoutReason`: `LostForAReason`, from `MessagingInv`, which is `OrderInv` with that property. An
  entry is marked only when it is delivered, and a message is refused by the queue only if it is full, of
  messages no newer.
* `TablesImplementMailbox`: `ImplementsMailbox`. Sending is `Post` with as many copies for each user as got into
  the queue or over the connection, a login is `Arrive`, a restart is `Restart`, and so is a message to -1 that
  ends the server; the rest are stutters and `Depart`.

`Groups`, for every number of users, groups and records:

* `GroupTypes`, `MembershipsCorrect` and `OnlyCreatorIsAdmin`: `TypeOK`, `OneMembership` and `AdminIsCreator`,
  inductive together. The three ways in which handlers change the table (`AddChanges`, `OverwriteChanges` for
  roles and for removals) keep them; only `handle_group_create` gives the role of an admin, in a group that
  did not exist before.
* `OnlyRightfulRemoval` and `OnlyOwnJoin`: `RemovedByRight` and `JoinsByOwnHand`, from the same invariant.
  `OneMembership` is needed because a removal overwrites only the first record it finds.
* `DeathNeedsStaleRecord`: `DiesOfStaleRecordsOnly`. The invariant `DeathInv` adds `GroupsExist`: a record is
  deleted or of a group that exists, so a group that is not found is the id of the deleted ones.

`EventLoop`, for every number of slots and descriptors and every bound:

* `LoopTypes`, `BooksKept` and `LoopCorrect`: `TypeOK`, `BookKeeping` and `BlocksOnPartOnly`. The invariant
  `LoopInv` adds that no two slots have one descriptor (`OwnFd`), that between `select()` and `accept()` what
  was found can still be read (`Snapshot`), and that the slots still to be served hold something (`Filled`).
  `accept()` is the step that could break it: the descriptor it hands out was in no slot, so it is not in the
  snapshot. A close in mid-scan takes its socket's data and its slot away together, and the timeout pass,
  which closes many, runs only when there is no snapshot (`Prepared`).

`Storage`, for any persons, tables of any size and records of any size:

* `StorageTypes`: `TypeOK`. `FilesInv` is inductive and speaks of each table with its file: the file
  holds the oldest records of the table (`Begins` for users; for friendships up to the status, for messages up
  to the delivered flag, for groups as far as the table goes), and all of them unless its last save went
  wrong. `SavesItsFile` and `CutBegins` say what a save does to its file and to the others.
* `RestartBringsBack`: `RestartKeeps`. For groups it needs that `load_groups_from_file` finds at least as many
  groups as were written, whatever the sizes of a group and a member are (`WholeRecords`, `ImageReadBack`).
* `IdsKeepTheirMeaning`: `TailOnlyIsLost`. It is also what keeps the tables within their limits after a
  restart, so it is part of the invariant of `StorageTypes`.
* `PersonsKept`: `FriendshipsKeepPersons`. Given `FilesInv`, the invariant `PeopleKept` says that every
  friendship, in memory and in a `friends.dat` of any age, is about users the server knows, because users
  are only ever appended, and that only the loss of a save of `users.dat` takes known ones away.

`ClientApp`, for any accounts and sockets of any size:

* `ClientTypes` and `GoodbyeIsLast`: `TypeOK` and `LogoutIsLast`. The invariant `ClientInv` adds that a
  client that leaves has its running flag down (`Leaving`), so that a signal then ends the program at once,
  and that only the first signal can tear a message (`TornOnce`).
* `SamePerson`: `UserIdAgrees`. The last login answer under way decides what `user_id` will be, or `user_id`
  does where there is none (`Outcome`). A step of the receive thread takes the first of these messages,
  `send_response` moves one from the handler to the socket and `serve` appends at the end; `OutcomeRead`,
  `OutcomeAppended` and `MoveOne` say what that does to the outcome. `ClosedAfterThread` is needed because the
  descriptor is closed only when nobody reads from it.

`Framing`, for any payloads, any limit, any capacity of the socket and any number of messages:

* `FramingTypes`, `MessagesAsSent` and `RefusedForAReason`: `TypeOK`, `ReceivedAsSent` and
  `GivesUpForAReason`. In `FramingInv`, `InStep` says that the cells sent so far can be laid out: there are a
  sequence `T` and offsets `b` such that the frame of the i-th message lies in `T` after `b[i]` cells (`Frames`),
  and what the receiver holds, what is under way and what is still to be sent are, one after the other, what
  `T` has after the frames of the messages that were returned (`After`). A `send()` or a `recv()` of any size only
  groups these cells anew; a new message adds a frame (`FramesExtended`); an end that closes drops the rest
  (`FramesCut`); the signal handler writes over the end of the last frame (`FramesInterrupted`), of which some has
  been sent and not all (`Interrupted`), so that less than a header follows it. `HeaderTells` is what follows for
  `recv_message`: whenever it has a header, it is that of the next message, and the lengths it accepts are those
  that `send_message` sends.

With these, every invariant, action property and refinement that a passing run checks is also a theorem. Only
model-checked are

* the liveness properties (`EveryClientServed`, `SilentAreDropped`, `Arrives`, `LogoutEnds`, `ServerGoesOn`):
  fairness and `ENABLED` are out of the provers' reach;
* `PendingAnnounced` without `FewPending`, which does not hold for more requests than a login announces;
* the disagreements with the documents, which are counterexamples.

## 5. What is not modelled, and the plan

Not modelled on purpose: the wording and layout of messages, the activity log, the password hash and the
session tokens (no code reads a token back), the read-only `view_dat` tool.

Left out of the components that are modelled:

* the limits of 100 notified friends and 100 announced requests, and lists that do not fit the response
  buffer: friendships are fixed in `Presence` and far fewer in `Friends`;
* the announcement of group invitations at login (at most 50), which reads the table of `Groups` and changes nothing;
* what the client prints: two formats it misreads are listed above;
* a signal handler of the server that interrupts a save or a function holding a lock (`stdio`, `malloc`).

To come:

1. `ChatServer`: `Presence` with `Friends` and `Messaging`, so that friendships change while statuses are
   broadcast and messages queued, with the limits above.
2. Invariants behind the liveness properties, with proofs: that the states where neither side of `ClientApp` can go
   on are the two that `ServerGoesOn` names, and that every round of `EventLoop` serves all that `select()` found.

## 6. Running

    tlc -workers 2 -config MCPresence.cfg MCPresence        # or another run of PROJECT.json
    tlapm PresenceProofs.tla                                # and FriendsProofs, GroupsProofs, MessagingProofs,
                                                            # EventLoopProofs, StorageProofs, FramingProofs, ClientAppProofs
