----------------------------- MODULE Messaging -----------------------------
(***************************************************************************)
(* Messages (message.c), the queue for users who are offline, and their    *)
(* delivery (handle_chat_send and handle_group_message in handlers.c,      *)
(* deliver_message and deliver_offline_messages in server.c).              *)
(*                                                                         *)
(* The server hands a message to a connection with send_message and does   *)
(* not look at the result.  A connection may be broken before the server   *)
(* notices, and send_message refuses a payload over MAX_PAYLOAD: a message *)
(* whose text just fits MSG_CHAT_SEND no longer fits MSG_CHAT_DELIVER, to  *)
(* which the server adds an id, a name and a time.                         *)
(*                                                                         *)
(* A group message goes to the users of the group's first member records.  *)
(* Removing a member leaves its record under the group id -1, which a      *)
(* client may well send: a message to -1 goes to those who were removed    *)
(* from some group, once for each time.                                    *)
(*                                                                         *)
(* Who is whose friend is fixed here and records are added and removed by  *)
(* anybody (module Groups has who may); both are checked at the time of    *)
(* sending only.                                                           *)
(***************************************************************************)
EXTENDS Integers, Sequences, FiniteSets, SequencesExt

CONSTANTS
  Users,            \* user ids; one that nobody has registered yet is never online
  Strangers,        \* other ids that can be invited to a group
  Friends,          \* pairs of users who are friends
  GroupIds,         \* groups
  MaxGroupMembers,  \* MAX_GROUP_MEMBERS
  MaxFanout,        \* the 100 of member_ids
  MaxMessages,      \* MAX_MESSAGES
  MaxOfflineQueue,  \* MAX_OFFLINE_QUEUE
  Breaks,           \* may a connection break without the server noticing?
  Sizes             \* of messages: {"fits"} or {"fits", "too_long"}

NoGroup == -1
Keys == GroupIds \cup {NoGroup}
Ids == Users \cup Strangers

ASSUME MessagingAssumption ==
  /\ Users \subseteq Nat \ {0} /\ Strangers \subseteq Nat \ Users
  /\ Friends \subseteq Users \X Users
  /\ GroupIds \subseteq Nat \ {0}
  /\ MaxGroupMembers \in Nat /\ MaxFanout \in Nat
  /\ MaxMessages \in Nat /\ MaxOfflineQueue \in Nat \ {0}
  /\ Breaks \in BOOLEAN
  /\ Sizes \subseteq {"fits", "too_long"}

VARIABLES
  online,           \* users find_client_by_user_id finds a slot for
  broken,           \* those of them whose connection is broken
  g_group_members,  \* the membership table
  g_messages,       \* the message table; ids are positions
  g_offline_queue,  \* the queue; entries stay in it after delivery
  inbox,            \* user -> what arrived at its client, oldest first
  owed              \* user -> messages for it, acknowledged to their sender while
                    \* the user was away or its connection worked, but for those
                    \* that a restart has taken out of the queue

vars == <<online, broken, g_group_members, g_messages, g_offline_queue, inbox, owed>>

\* recipient_id is left out: queue_offline_message alone reads it, at once.  deleted
\* and beyond are auxiliary: was the message sent to deleted records, and which
\* members have a record only after the first MaxFanout?
Message == [size : Sizes, delivered : BOOLEAN, deleted : BOOLEAN, beyond : SUBSET Users]
Member == [group : Keys, user : Ids]
Entry == [message : 1 .. MaxMessages, recipient : Ids, delivered : BOOLEAN]
Arrival == [message : 1 .. MaxMessages, type : {"CHAT_DELIVER", "GROUP_MSG_DELIVER"}]

TypeOK ==
  /\ online \subseteq Users /\ broken \subseteq online
  /\ g_group_members \in Seq(Member) /\ Len(g_group_members) <= MaxGroupMembers
  /\ g_messages \in Seq(Message) /\ Len(g_messages) <= MaxMessages
  /\ g_offline_queue \in Seq(Entry) /\ Len(g_offline_queue) <= MaxOfflineQueue
  /\ inbox \in [Users -> Seq(Arrival)]
  /\ owed \in [Users -> SUBSET (1 .. MaxMessages)]

-----------------------------------------------------------------------------
(* group.c, message.c and server.c.  M_... is a plausible slip in what      *)
(* follows it.                                                              *)

Rows(g) == {i \in DOMAIN g_group_members : g_group_members[i].group = g}
RowsOf(g, u) == {i \in Rows(g) : g_group_members[i].user = u}
UsersAt(rows) == {g_group_members[i].user : i \in rows}

is_group_member(g, u) == RowsOf(g, u) # {}

\* get_group_members: the first MaxFanout records, by their positions.
get_group_members(g) == {i \in Rows(g) : Cardinality({j \in Rows(g) : j < i}) < MaxFanout}

\* A scan of a table: the k-th of the positions in S.
Nth(S, k) == CHOOSE i \in S : Cardinality({j \in S : j <= i}) = k

IdsAt(rows) == [k \in 1 .. Cardinality(rows) |-> g_group_members[Nth(rows, k)].user]

NewId == Len(g_messages) + 1

\* queue_offline_message and queue_offline_group_message, called for one id after
\* the other: what does not fit the queue is logged and dropped.
M_QueueRoom == MaxOfflineQueue - Len(g_offline_queue) + 1
M_QueueRoomLess == MaxOfflineQueue - Len(g_offline_queue) - 1
QueueRoom == MaxOfflineQueue - Len(g_offline_queue)

Queue(ids) ==
  g_offline_queue' = g_offline_queue \o
    [i \in 1 .. Min({Len(ids), QueueRoom}) |->
       [message |-> NewId, recipient |-> ids[i], delivered |-> FALSE]]

\* send_response to the clients of S: only a working connection and a payload
\* that fits make the message arrive.
Handed(S, size, type) ==
  [u \in Users |->
     IF u \in S \ broken /\ size = "fits"
     THEN Append(inbox[u], [message |-> NewId, type |-> type])
     ELSE inbox[u]]

\* The positions of the entries that deliver_offline_messages delivers to u, and
\* of those among them that send_message accepts.
M_Due(u) == {i \in DOMAIN g_offline_queue : g_offline_queue[i].recipient = u}
Due(u) ==
  {i \in DOMAIN g_offline_queue : g_offline_queue[i].recipient = u /\ ~g_offline_queue[i].delivered}

Fitting(u) == {i \in Due(u) : g_messages[g_offline_queue[i].message].size = "fits"}

\* What arrives at u when it logs in.
Kept(u) ==
  LET due == Fitting(u) IN
  [k \in 1 .. Cardinality(due) |-> g_offline_queue[Nth(due, k)].message]

Arrivals(u) == [k \in DOMAIN Kept(u) |-> [message |-> Kept(u)[k], type |-> "CHAT_DELIVER"]]

\* Every entry for u is then marked, whatever became of the sending.
Marked(u) ==
  [i \in DOMAIN g_offline_queue |->
     [g_offline_queue[i] EXCEPT !.delivered = @ \/ g_offline_queue[i].recipient = u]]

-----------------------------------------------------------------------------
(* Handlers *)

Init ==
  /\ online = {} /\ broken = {}
  /\ g_group_members = <<>>
  /\ g_messages = <<>> /\ g_offline_queue = <<>>
  /\ inbox = [u \in Users |-> <<>>]
  /\ owed = [u \in Users |-> {}]

Received(u) == {inbox[u][i].message : i \in DOMAIN inbox[u]}

Sender(u) == u \in online \ broken /\ Len(g_messages) < MaxMessages

Owe(S) ==
  owed' = [u \in Users |-> IF u \in S \ broken THEN owed[u] \cup {NewId} ELSE owed[u]]

\* The ids of S that find_client_by_user_id does not find, it finding those here.
M_Offline(S, here) == S \ (here \ broken)
Offline(S, here) == S \ here

\* handle_chat_send from u to its friend v, acknowledged before delivery.
handle_chat_send(u, v, size) ==
  /\ Sender(u) /\ <<u, v>> \in Friends
  /\ g_messages' = Append(g_messages, [size |-> size, delivered |-> v \in online,
                                       deleted |-> FALSE, beyond |-> {}])
  /\ inbox' = Handed({v} \cap online, size, "CHAT_DELIVER")
  /\ Queue(IF v \in Offline({v}, online) THEN <<v>> ELSE <<>>)
  /\ Owe({v})
  /\ UNCHANGED <<online, broken, g_group_members>>

\* server_init, but for messages.dat: no file has the queue, and groups.dat brings
\* no members back (module Storage, which also has the saves that go wrong).
server_init ==
  /\ online' = {} /\ broken' = {}
  /\ g_group_members' = <<>>
  /\ g_offline_queue' = <<>>
  /\ owed' = [u \in Users |-> owed[u] \cap Received(u)]
  /\ UNCHANGED inbox

\* handle_group_message from u to the others with a record of g, acknowledged
\* before delivery.  find_client_by_user_id finds those online, and for the id 0 a
\* connection that has not logged in if there is one.  A user has one record in a
\* group and hence gets one copy at most; under -1 each record counts, but the
\* server dies at the first client it finds, for want of a group's name, and has
\* to be started again.
handle_group_message(u, g, size, here) ==
  LET rows == {i \in get_group_members(g) : g_group_members[i].user # u}
      audience == UsersAt(rows)
      members == UsersAt(Rows(g)) \ {u} IN
  /\ Sender(u) /\ is_group_member(g, u)
  /\ g_messages' = Append(g_messages, [size |-> size, delivered |-> FALSE,
                                       deleted |-> g = NoGroup,
                                       beyond |-> (members \ audience) \cap Users])
  /\ IF g = NoGroup /\ audience \cap here # {}
     THEN server_init
     ELSE /\ inbox' = Handed(audience \cap online, size, "GROUP_MSG_DELIVER")
          /\ Queue(IdsAt({i \in rows : g_group_members[i].user \in Offline(audience, here)}))
          /\ Owe(members)
          /\ UNCHANGED <<online, broken, g_group_members>>

\* handle_login, as far as deliver_offline_messages goes.  The messages are
\* marked with the entries that name them.
handle_login(u) ==
  /\ u \notin online /\ online' = online \cup {u}
  /\ inbox' = [inbox EXCEPT ![u] = @ \o Arrivals(u)]
  /\ g_offline_queue' = Marked(u)
  /\ g_messages' = [m \in DOMAIN g_messages |->
       [g_messages[m] EXCEPT !.delivered = @ \/ \E i \in Due(u) : g_offline_queue[i].message = m]]
  /\ UNCHANGED <<broken, g_group_members, owed>>

\* disconnect_client: the client left, or the server noticed that it had.
disconnect_client(u) ==
  /\ u \in online /\ online' = online \ {u} /\ broken' = broken \ {u}
  /\ UNCHANGED <<g_group_members, g_messages, g_offline_queue, inbox, owed>>

\* A connection breaks; the server will notice when it next reads from it.
Break(u) ==
  /\ Breaks /\ u \in online \ broken /\ broken' = broken \cup {u}
  /\ UNCHANGED <<online, g_group_members, g_messages, g_offline_queue, inbox, owed>>

\* signal_handler, which disconnects everybody and saves, or a crash, in a group
\* handler for instance; and server_init again.
restart == server_init /\ UNCHANGED g_messages

\* Module Groups: v joins group g or is invited to it, and leaves it or is removed
\* from it.  Whoever has a record under -1 may invite to -1.
add_group_member(g, v) ==
  /\ Len(g_group_members) < MaxGroupMembers /\ ~is_group_member(g, v)
  /\ g_group_members' = Append(g_group_members, [group |-> g, user |-> v])
  /\ UNCHANGED <<online, broken, g_messages, g_offline_queue, inbox, owed>>

First(S) == CHOOSE i \in S : \A j \in S : i <= j

remove_group_member(g, v) ==
  /\ is_group_member(g, v)
  /\ g_group_members' = [g_group_members EXCEPT ![First(RowsOf(g, v))].group = NoGroup]
  /\ UNCHANGED <<online, broken, g_messages, g_offline_queue, inbox, owed>>

Next ==
  \/ restart
  \/ \E u \in Users :
      \/ handle_login(u) \/ disconnect_client(u) \/ Break(u)
      \/ \E size \in Sizes :
           \/ \E v \in Users : handle_chat_send(u, v, size)
           \/ \E g \in Keys, here \in {online, online \cup {0}} :
                handle_group_message(u, g, size, here)
  \/ \E v \in Ids :
      \/ \E g \in Keys : add_group_member(g, v)
      \/ \E g \in GroupIds : remove_group_member(g, v)

Spec == Init /\ [][Next]_vars

-----------------------------------------------------------------------------
(* Properties *)

\* Messages arrive at a client in the order they were sent and none arrives twice
\* but those sent to deleted records, over any number of logins, through the queue
\* or directly, from users and groups alike: nothing sent later overtakes what is
\* queued.  Numbers go on after a restart where they stopped.
ArriveInOrder ==
  \A u \in Users : \A i, j \in DOMAIN inbox[u] :
    i < j => \/ inbox[u][i].message < inbox[u][j].message
             \/ /\ inbox[u][i].message = inbox[u][j].message
                /\ g_messages[inbox[u][i].message].deleted

\* Nothing waits in the queue for a user who is online, and nothing but a message
\* to deleted records is queued twice for one id.
QueueOnlyForAbsent ==
  \A i \in DOMAIN g_offline_queue :
    /\ ~g_offline_queue[i].delivered => g_offline_queue[i].recipient \notin online
    /\ \A j \in DOMAIN g_offline_queue :
         /\ g_offline_queue[i].message = g_offline_queue[j].message
         /\ g_offline_queue[i].recipient = g_offline_queue[j].recipient
         => i = j \/ g_messages[g_offline_queue[i].message].deleted

\* While the server runs, an acknowledged message is received or waits in the
\* queue, for every member of the group it was sent to, with four exceptions only:
\* the connection was broken (see owed), the message is too long once the server
\* has added its fields, the member's record comes after those that
\* get_group_members returns, or the queue had been filled before it.
LostForAReason ==
  \A u \in Users : \A m \in owed[u] :
    \/ m \in Received(u)
    \/ \E i \in Due(u) : g_offline_queue[i].message = m
    \/ g_messages[m].size = "too_long"
    \/ u \in g_messages[m].beyond
    \/ /\ Len(g_offline_queue) = MaxOfflineQueue
       /\ \A i \in DOMAIN g_offline_queue : g_offline_queue[i].message <= m

\* The two tables, the flags in them and what is handed to the clients amount to
\* Mailbox, for the messages that are not lost on the way in.
Numbers(entries) == [i \in DOMAIN entries |-> entries[i].message]

Promise == INSTANCE Mailbox WITH
  MaxCopies <- MaxOfflineQueue,
  next <- NewId, here <- online,
  box <- [u \in Users |-> Kept(u)],
  got <- [u \in Users |-> Numbers(inbox[u])]

ImplementsMailbox == Promise!Spec

=============================================================================
