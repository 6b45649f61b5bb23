-------------------------- MODULE MessagingProofs --------------------------
(***************************************************************************)
(* Theorems about Messaging, for any users, friendships and groups and any *)
(* size of the three tables and of the fan-out: messages arrive in order   *)
(* and once but for those to deleted records, the queue holds what waits   *)
(* and nothing else, a message is lost for a reason, and the tables        *)
(* implement Mailbox.                                                      *)
(***************************************************************************)
EXTENDS Messaging, FiniteSetTheorems, SequenceTheorems, TLAPS

USE MessagingAssumption

-----------------------------------------------------------------------------
(* Nth: the k-th smallest of a finite set of numbers.  The rank of a number  *)
(* grows with it, so that ranks are a bijection with 1 .. Cardinality(S).    *)

UpTo(S, i) == {j \in S : j <= i}
Rank(S, i) == Cardinality(UpTo(S, i))

LEMMA RankType ==
  ASSUME NEW S \in SUBSET Nat, IsFiniteSet(S), NEW i \in S
  PROVE  /\ Rank(S, i) \in 1 .. Cardinality(S)
         /\ IsFiniteSet(UpTo(S, i)) /\ Cardinality(S) \in Nat
<1>1. UpTo(S, i) \in SUBSET S /\ i \in UpTo(S, i)
  BY DEF UpTo
<1>2. IsFiniteSet(UpTo(S, i)) /\ Cardinality(UpTo(S, i)) <= Cardinality(S)
  BY <1>1, FS_Subset
<1>3. Cardinality(UpTo(S, i)) \in Nat /\ Cardinality(S) \in Nat
  BY <1>2, FS_CardinalityType
<1>4. Cardinality(UpTo(S, i)) # 0
  BY <1>1, <1>2, FS_EmptySet
<1> QED
  BY <1>2, <1>3, <1>4 DEF Rank

LEMMA RankGrows ==
  ASSUME NEW S \in SUBSET Nat, IsFiniteSet(S), NEW i \in S, NEW j \in S, i < j
  PROVE  Rank(S, i) < Rank(S, j)
<1>1. UpTo(S, i) \in SUBSET UpTo(S, j) /\ j \in UpTo(S, j) /\ j \notin UpTo(S, i)
  <2>1. \A x \in S : x \in Nat
    OBVIOUS
  <2>2. \A x \in S : x <= i => x <= j
    BY <2>1
  <2>3. j <= j /\ ~(j <= i)
    BY <2>1
  <2> QED
    BY <2>2, <2>3, Zenon DEF UpTo
<1>2. IsFiniteSet(UpTo(S, j)) /\ Rank(S, i) \in Nat /\ Rank(S, j) \in Nat
  BY RankType
<1>3. /\ Cardinality(UpTo(S, i)) <= Cardinality(UpTo(S, j))
      /\ Cardinality(UpTo(S, j)) = Cardinality(UpTo(S, i)) => UpTo(S, j) = UpTo(S, i)
  BY <1>1, <1>2, FS_Subset
<1> QED
  BY <1>1, <1>2, <1>3 DEF Rank

LEMMA EveryRank ==
  ASSUME NEW S \in SUBSET Nat, IsFiniteSet(S), NEW k \in 1 .. Cardinality(S)
  PROVE  \E i \in S : Rank(S, i) = k
<1> DEFINE f == [i \in S |-> Rank(S, i)]
           T == 1 .. Cardinality(S)
<1>1. Cardinality(S) \in Nat
  BY FS_CardinalityType
<1>2. IsFiniteSet(T) /\ Cardinality(T) = Cardinality(S)
  BY <1>1, FS_Interval
<1>3. f \in [S -> T]
  BY RankType
<1>4. \A i, j \in S : f[i] = f[j] => i = j
  <2> SUFFICES ASSUME NEW i \in S, NEW j \in S, i # j PROVE f[i] # f[j]
    OBVIOUS
  <2>1. i < j \/ j < i
    OBVIOUS
  <2>2. Rank(S, i) \in Nat /\ Rank(S, j) \in Nat
    BY RankType
  <2> QED
    BY <2>1, <2>2, RankGrows
<1>5. f \in Injection(S, T)
  BY <1>3, <1>4 DEF Injection, IsInjective
<1> HIDE DEF f, T
<1>6. f \in Surjection(S, T)
  BY <1>2, <1>5, FS_Injection
<1>7. \E i \in S : f[i] = k
  BY <1>6 DEF Surjection, T
<1> QED
  BY <1>7 DEF f

\* What Nth finds, in both directions.
LEMMA NthIsFound ==
  ASSUME NEW S \in SUBSET Nat, IsFiniteSet(S), NEW k \in 1 .. Cardinality(S)
  PROVE  Nth(S, k) \in S /\ Rank(S, Nth(S, k)) = k
<1>1. \E i \in S : Rank(S, i) = k
  BY EveryRank
<1>2. Nth(S, k) = CHOOSE i \in S : Rank(S, i) = k
  BY Zenon DEF Nth, Rank, UpTo
<1> QED
  BY <1>1, <1>2, Zenon

LEMMA NthOfRank ==
  ASSUME NEW S \in SUBSET Nat, IsFiniteSet(S), NEW i \in S
  PROVE  Nth(S, Rank(S, i)) = i
<1>1. Rank(S, i) \in 1 .. Cardinality(S)
  BY RankType
<1>2. PICK n : n = Nth(S, Rank(S, i))
  OBVIOUS
<1>3. n \in S /\ Rank(S, n) = Rank(S, i)
  BY <1>1, <1>2, NthIsFound
<1>4. n = i \/ n < i \/ i < n
  BY <1>3
<1>5. Rank(S, i) \in Nat
  BY <1>1
<1> QED
  BY <1>2, <1>3, <1>4, <1>5, RankGrows

LEMMA NthGrows ==
  ASSUME NEW S \in SUBSET Nat, IsFiniteSet(S),
         NEW k \in 1 .. Cardinality(S), NEW l \in 1 .. Cardinality(S), k < l
  PROVE  Nth(S, k) < Nth(S, l)
<1>1. PICK i, j : i = Nth(S, k) /\ j = Nth(S, l)
  OBVIOUS
<1>2. i \in S /\ j \in S /\ Rank(S, i) = k /\ Rank(S, j) = l
  BY <1>1, NthIsFound
<1>3. i < j \/ j < i \/ i = j
  BY <1>2
<1>4. Cardinality(S) \in Nat
  BY FS_CardinalityType
<1> QED
  BY <1>1, <1>2, <1>3, <1>4, RankGrows

\* Numbers above all others come after them.
NthJoined(S, E, c, e) ==
  /\ c \in Nat /\ e \in Nat
  /\ Cardinality(S \cup E) = c + e
  /\ \A k \in 1 .. c : Nth(S \cup E, k) = Nth(S, k)
  /\ \A k \in c + 1 .. c + e : Nth(S \cup E, k) \in E

LEMMA NthOfUnion ==
  ASSUME NEW S \in SUBSET Nat, IsFiniteSet(S), NEW E \in SUBSET Nat, IsFiniteSet(E),
         \A i \in S : \A j \in E : i < j,
         NEW c, c = Cardinality(S), NEW e, e = Cardinality(E)
  PROVE  NthJoined(S, E, c, e)
<1> DEFINE T == S \cup E
<1>1. S \cap E = {}
  OBVIOUS
<1>2. T \in SUBSET Nat /\ IsFiniteSet(T) /\ c \in Nat /\ e \in Nat /\ Cardinality(T) = c + e
  <2>1. Cardinality(S \cap E) = 0
    BY <1>1, FS_EmptySet
  <2>2. c \in Nat /\ e \in Nat
    BY FS_CardinalityType
  <2>3. IsFiniteSet(T) /\ Cardinality(T) = Cardinality(S) + Cardinality(E) - Cardinality(S \cap E)
    BY FS_Union
  <2> QED
    BY <2>1, <2>2, <2>3
<1>3. \A i \in S : UpTo(T, i) = UpTo(S, i)
  <2> SUFFICES ASSUME NEW i \in S PROVE UpTo(T, i) = UpTo(S, i)
    OBVIOUS
  <2>1. \A j \in E : ~(j <= i)
    OBVIOUS
  <2> QED
    BY <2>1, Zenon DEF UpTo
<1> HIDE DEF T
<1>4. \A i \in S : i \in T /\ Rank(T, i) = Rank(S, i)
  BY <1>3 DEF Rank, T
<1>5. \A k \in 1 .. c : Nth(T, k) = Nth(S, k)
  <2> SUFFICES ASSUME NEW k \in 1 .. c PROVE Nth(T, k) = Nth(S, k)
    OBVIOUS
  <2>1. PICK i : i = Nth(S, k)
    OBVIOUS
  <2>2. i \in S /\ Rank(S, i) = k
    BY <2>1, NthIsFound
  <2>3. Nth(T, Rank(T, i)) = i
    BY <1>2, <1>4, <2>2, NthOfRank
  <2> QED
    BY <1>4, <2>1, <2>2, <2>3
<1>6. \A k \in c + 1 .. c + e : Nth(T, k) \in E
  <2> SUFFICES ASSUME NEW k \in c + 1 .. c + e PROVE Nth(T, k) \in E
    OBVIOUS
  <2>1. PICK i : i = Nth(T, k)
    OBVIOUS
  <2>2. k \in 1 .. Cardinality(T) /\ ~(k \in 1 .. c)
    BY <1>2
  <2>3. i \in T /\ Rank(T, i) = k
    BY <1>2, <2>1, <2>2, NthIsFound
  <2>4. i \notin S
    <3>1. i \in S => Rank(S, i) \in 1 .. c
      BY RankType
    <3> QED
      BY <1>4, <2>2, <2>3, <3>1
  <2> QED
    BY <2>1, <2>3, <2>4 DEF T
<1> QED
  BY <1>2, <1>5, <1>6 DEF T, NthJoined

-----------------------------------------------------------------------------
(* The inductive invariant *)

\* A user has one record in a group, in the table M of members.
OneIn(M) ==
  \A g \in GroupIds : \A i, j \in DOMAIN M :
    M[i].group = g /\ M[j].group = g /\ M[i].user = M[j].user => i = j

OneRecord == OneIn(g_group_members)

\* The queue is in the order of sending, and has one entry for each message and
\* recipient but where the message is to deleted records.
QueueOrdered ==
  \A i, j \in DOMAIN g_offline_queue : i < j =>
    /\ g_offline_queue[i].message <= g_offline_queue[j].message
    /\ g_offline_queue[i].recipient = g_offline_queue[j].recipient
         => \/ g_offline_queue[i].message < g_offline_queue[j].message
            \/ g_messages[g_offline_queue[i].message].deleted

\* Only messages of the table are queued, received and owed.
Known ==
  /\ \A i \in DOMAIN g_offline_queue : g_offline_queue[i].message <= Len(g_messages)
  /\ \A u \in Users : \A i \in DOMAIN inbox[u] : inbox[u][i].message <= Len(g_messages)
  /\ \A u \in Users : \A m \in owed[u] : m <= Len(g_messages)

\* What waits for a user was sent after all it has received.
QueueAhead ==
  \A u \in Users : \A i \in DOMAIN inbox[u] : \A j \in Due(u) :
    inbox[u][i].message < g_offline_queue[j].message

AbsentOnly ==
  \A i \in DOMAIN g_offline_queue :
    ~g_offline_queue[i].delivered => g_offline_queue[i].recipient \notin online

OrderInv ==
  TypeOK /\ OneRecord /\ QueueOrdered /\ Known /\ QueueAhead /\ AbsentOnly /\ ArriveInOrder

MessagingInv == OrderInv /\ LostForAReason

-----------------------------------------------------------------------------
(* Sending *)

\* What handle_chat_send and handle_group_message have in common, unless the server
\* dies: a message to the users in O, handed to those in R and queued for ids.
Sends(O, R, ids, size, type, d, B) ==
  /\ Len(g_messages) < MaxMessages
  /\ \E b \in BOOLEAN :
       g_messages' = Append(g_messages, [size |-> size, delivered |-> b, deleted |-> d, beyond |-> B])
  /\ inbox' = Handed(R, size, type)
  /\ Queue(ids) /\ Owe(O)
  /\ UNCHANGED <<online, broken, g_group_members>>

\* Nobody of O is forgotten but those in B.
Addressed(O, R, ids, d, B) ==
  /\ R \in SUBSET online /\ B \in SUBSET Users /\ d \in BOOLEAN
  /\ ids \in Seq(Ids) /\ \A k \in DOMAIN ids : ids[k] \notin online
  /\ \A u \in Users : u \in O => u \in R \/ u \in B \/ \E k \in DOMAIN ids : ids[k] = u
  /\ d \/ \A j, k \in DOMAIN ids : ids[j] = ids[k] => j = k

LEMMA ChatSends ==
  ASSUME TypeOK, NEW u \in Users, NEW v \in Users, NEW size \in Sizes, handle_chat_send(u, v, size)
  PROVE  \E O, R, ids, B : /\ Sends(O, R, ids, size, "CHAT_DELIVER", FALSE, B)
                           /\ Addressed(O, R, ids, FALSE, B)
<1>1. PICK ids : ids = IF v \in Offline({v}, online) THEN <<v>> ELSE <<>>
  OBVIOUS
<1>2. (v \in online) \in BOOLEAN
  OBVIOUS
<1>3. Sends({v}, {v} \cap online, ids, size, "CHAT_DELIVER", FALSE, {})
  BY <1>1, <1>2, Zenon DEF handle_chat_send, Sends, Sender
<1>4. v \in Ids
  BY DEF Ids
<1>5. CASE v \in online
  <2>1. ids = <<>>
    BY <1>1, <1>5 DEF Offline
  <2>2. Addressed({v}, {v} \cap online, ids, FALSE, {})
    BY <1>5, <2>1 DEF Addressed
  <2> QED
    BY <1>3, <2>2, Zenon
<1>6. CASE v \notin online
  <2>1. ids = <<v>>
    BY <1>1, <1>6 DEF Offline
  <2>2. Addressed({v}, {v} \cap online, ids, FALSE, {})
    BY <1>4, <1>6, <2>1 DEF Addressed
  <2> QED
    BY <1>3, <2>2, Zenon
<1> QED
  BY <1>5, <1>6

\* Positions of the membership table, and the users at them.
LEMMA RowsType ==
  ASSUME TypeOK, NEW g
  PROVE  /\ Rows(g) \in SUBSET Nat /\ IsFiniteSet(Rows(g))
         /\ get_group_members(g) \in SUBSET Rows(g)
         /\ \A i \in Rows(g) : /\ i \in DOMAIN g_group_members
                              /\ g_group_members[i].group = g /\ g_group_members[i].user \in Ids
<1>1. PICK n : n = Len(g_group_members)
  OBVIOUS
<1>2. n \in Nat /\ DOMAIN g_group_members = 1 .. n /\ \A i \in 1 .. n : g_group_members[i] \in Member
  BY <1>1 DEF TypeOK
<1>3. Rows(g) \in SUBSET (1 .. n)
  BY <1>2 DEF Rows
<1>4. IsFiniteSet(1 .. n) /\ 1 .. n \in SUBSET Nat
  BY <1>2, FS_Interval
<1>5. IsFiniteSet(Rows(g)) /\ Rows(g) \in SUBSET Nat
  BY <1>3, <1>4, FS_Subset
<1>6. \A m \in Member : m.user \in Ids
  BY DEF Member
<1>7. \A i \in Rows(g) : /\ i \in DOMAIN g_group_members
                         /\ g_group_members[i].group = g /\ g_group_members[i].user \in Ids
  BY <1>2, <1>6, Zenon DEF Rows
<1>8. get_group_members(g) \in SUBSET Rows(g)
  BY DEF get_group_members
<1> QED
  BY <1>5, <1>7, <1>8

LEMMA FunctionIsSeq ==
  ASSUME NEW T, NEW n \in Nat, NEW s \in [1 .. n -> T]
  PROVE  s \in Seq(T) /\ Len(s) = n
OBVIOUS

\* ids are the users at the positions of A.
Lists(ids, A) ==
  /\ ids \in Seq(Ids)
  /\ \A k \in DOMAIN ids : \E i \in A : ids[k] = g_group_members[i].user
  /\ \A i \in A : \E k \in DOMAIN ids : ids[k] = g_group_members[i].user
  /\ (\A i, j \in A : g_group_members[i].user = g_group_members[j].user => i = j)
       => \A j, k \in DOMAIN ids : ids[j] = ids[k] => j = k

LEMMA IdsAtRows ==
  ASSUME TypeOK, NEW g, NEW A \in SUBSET Rows(g), NEW ids, ids = IdsAt(A)
  PROVE  Lists(ids, A)
<1>1. A \in SUBSET Nat /\ IsFiniteSet(A) /\ \A i \in A : g_group_members[i].user \in Ids
  BY RowsType, FS_Subset
<1>2. PICK c : c = Cardinality(A)
  OBVIOUS
<1>3. c \in Nat
  BY <1>1, <1>2, FS_CardinalityType
<1>4. \A k \in 1 .. c : Nth(A, k) \in A /\ Rank(A, Nth(A, k)) = k
  BY <1>1, <1>2, NthIsFound
<1>5. ids = [k \in 1 .. c |-> g_group_members[Nth(A, k)].user]
  BY <1>2, Zenon DEF IdsAt
<1>6. ids \in Seq(Ids) /\ DOMAIN ids = 1 .. c
  <2>1. ids \in [1 .. c -> Ids]
    BY <1>1, <1>4, <1>5
  <2> QED
    BY <1>3, <2>1, FunctionIsSeq
<1>7. \A k \in 1 .. c : ids[k] = g_group_members[Nth(A, k)].user
  BY <1>5
<1>8. ASSUME NEW i \in A PROVE \E k \in 1 .. c : ids[k] = g_group_members[i].user
  <2>1. Rank(A, i) \in 1 .. c /\ Nth(A, Rank(A, i)) = i
    BY <1>1, <1>2, RankType, NthOfRank
  <2> QED
    BY <1>7, <2>1, Zenon
<1>9. ASSUME \A i, j \in A : g_group_members[i].user = g_group_members[j].user => i = j,
             NEW j \in 1 .. c, NEW k \in 1 .. c, ids[j] = ids[k]
      PROVE  j = k
  <2>1. PICK x, y : x = Nth(A, j) /\ y = Nth(A, k)
    OBVIOUS
  <2>2. /\ x \in A /\ Rank(A, x) = j /\ ids[j] = g_group_members[x].user
        /\ y \in A /\ Rank(A, y) = k /\ ids[k] = g_group_members[y].user
    BY <1>4, <1>7, <2>1, Zenon
  <2>3. x = y
    BY <1>9, <2>2, Zenon
  <2> QED
    BY <2>2, <2>3, Zenon
<1>10. \A k \in 1 .. c : \E i \in A : ids[k] = g_group_members[i].user
  BY <1>4, <1>7, Zenon
<1> QED
  BY <1>6, <1>8, <1>9, <1>10, Zenon DEF Lists

\* The message table with one message more, or unchanged.
Grown ==
  /\ g_messages' \in Seq(Message) /\ Len(g_messages') <= MaxMessages
  /\ Len(g_messages) \in Nat /\ Len(g_messages') \in Nat
  /\ Len(g_messages) <= Len(g_messages') /\ Len(g_messages') <= Len(g_messages) + 1
  /\ \A m \in 1 .. Len(g_messages) : g_messages'[m] = g_messages[m]

LEMMA AppendGrows ==
  ASSUME TypeOK, Len(g_messages) < MaxMessages, NEW m \in Message, g_messages' = Append(g_messages, m)
  PROVE  Grown /\ Len(g_messages') = Len(g_messages) + 1 /\ g_messages'[Len(g_messages) + 1] = m
BY DEF TypeOK, Grown

\* A group message is sent like others, or the server dies of it.
LEMMA GroupSends ==
  ASSUME TypeOK, OneRecord, NEW u \in Users, NEW g \in Keys, NEW size \in Sizes,
         NEW here \in {online, online \cup {0}}, handle_group_message(u, g, size, here)
  PROVE  \/ \E O, R, ids, d, B : /\ Sends(O, R, ids, size, "GROUP_MSG_DELIVER", d, B)
                                 /\ Addressed(O, R, ids, d, B)
         \/ server_init /\ Grown
<1>1. PICK rows, audience, members :
        /\ rows = {i \in get_group_members(g) : g_group_members[i].user # u}
        /\ audience = UsersAt(rows) /\ members = UsersAt(Rows(g)) \ {u}
  OBVIOUS
<1>2. PICK B, d : B = (members \ audience) \cap Users /\ d = (g = NoGroup)
  OBVIOUS
<1>3. PICK A, ids : A = {i \in rows : g_group_members[i].user \in Offline(audience, here)} /\ ids = IdsAt(A)
  OBVIOUS
<1>4. B \in SUBSET Users /\ d \in BOOLEAN
  BY <1>2
<1>5. /\ Len(g_messages) < MaxMessages
      /\ g_messages' = Append(g_messages, [size |-> size, delivered |-> FALSE, deleted |-> d, beyond |-> B])
      /\ IF g = NoGroup /\ audience \cap here # {}
         THEN server_init
         ELSE /\ inbox' = Handed(audience \cap online, size, "GROUP_MSG_DELIVER")
              /\ Queue(ids) /\ Owe(members)
              /\ UNCHANGED <<online, broken, g_group_members>>
  BY <1>1, <1>2, <1>3, Zenon DEF handle_group_message, Sender
<1>6. CASE g = NoGroup /\ audience \cap here # {}
  <2>1. [size |-> size, delivered |-> FALSE, deleted |-> d, beyond |-> B] \in Message
    BY <1>4 DEF Message
  <2> QED
    BY <1>5, <1>6, <2>1, AppendGrows
<1>7. CASE ~(g = NoGroup /\ audience \cap here # {})
  <2>1. Sends(members, audience \cap online, ids, size, "GROUP_MSG_DELIVER", d, B)
    BY <1>5, <1>7, Zenon DEF Sends
  <2>2. rows \in SUBSET Rows(g) /\ A \in SUBSET Rows(g) /\ A \in SUBSET rows
    BY <1>1, <1>3, RowsType
  <2>3. /\ ids \in Seq(Ids)
        /\ \A k \in DOMAIN ids : \E i \in A : ids[k] = g_group_members[i].user
        /\ \A i \in A : \E k \in DOMAIN ids : ids[k] = g_group_members[i].user
        /\ (\A i, j \in A : g_group_members[i].user = g_group_members[j].user => i = j)
             => \A j, k \in DOMAIN ids : ids[j] = ids[k] => j = k
    <3>1. Lists(ids, A)
      BY <1>3, <2>2, IdsAtRows
    <3> QED
      BY <3>1, Zenon DEF Lists
  <2>4. online \subseteq Users /\ online \subseteq here /\ \A w \in Users : w \in here => w \in online
    BY DEF TypeOK
  <2>5. \A k \in DOMAIN ids : ids[k] \notin online
    <3>1. \A i \in A : g_group_members[i].user \notin online
      BY <1>3, <2>4 DEF Offline
    <3> QED
      BY <2>3, <3>1
  <2>6. ASSUME NEW w \in Users, w \in members
        PROVE  w \in audience \cap online \/ w \in B \/ \E k \in DOMAIN ids : ids[k] = w
    <3>1. CASE w \notin audience
      BY <1>2, <2>6, <3>1
    <3>2. CASE w \in audience /\ w \in here
      BY <2>4, <3>2
    <3>3. CASE w \in audience /\ w \notin here
      <4>1. PICK i \in rows : g_group_members[i].user = w
        BY <1>1, <3>3 DEF UsersAt
      <4>2. i \in A
        BY <1>3, <3>3, <4>1 DEF Offline
      <4> QED
        BY <2>3, <4>1, <4>2
    <3> QED
      BY <3>1, <3>2, <3>3
  <2>7. d \/ \A j, k \in DOMAIN ids : ids[j] = ids[k] => j = k
    <3>1. CASE d
      BY <3>1
    <3>2. CASE ~d
      <4>1. g \in GroupIds
        BY <1>2, <3>2 DEF Keys
      <4>2. \A i \in A : i \in DOMAIN g_group_members /\ g_group_members[i].group = g
        BY <2>2, RowsType
      <4>3. \A i, j \in A : g_group_members[i].user = g_group_members[j].user => i = j
        BY <4>1, <4>2, Zenon DEF OneRecord, OneIn
      <4> QED
        BY <2>3, <4>3
    <3> QED
      BY <3>1, <3>2
  <2>8. audience \cap online \in SUBSET online
    OBVIOUS
  <2>9. Addressed(members, audience \cap online, ids, d, B)
    BY <1>4, <2>3, <2>5, <2>6, <2>7, <2>8, Zenon DEF Addressed
  <2> QED
    BY <2>1, <2>9, Zenon
<1> QED
  BY <1>6, <1>7

\* The table of messages grows by one.
Recorded(size, d, B) ==
  /\ Grown /\ Len(g_messages') = Len(g_messages) + 1
  /\ g_messages'[Len(g_messages) + 1].size = size
  /\ g_messages'[Len(g_messages) + 1].deleted = d
  /\ g_messages'[Len(g_messages) + 1].beyond = B

LEMMA SendRecorded ==
  ASSUME TypeOK, NEW O, NEW R, NEW ids, NEW size \in Sizes, NEW type,
         NEW d \in BOOLEAN, NEW B \in SUBSET Users, Sends(O, R, ids, size, type, d, B)
  PROVE  Recorded(size, d, B)
<1>1. PICK b \in BOOLEAN :
        g_messages' = Append(g_messages, [size |-> size, delivered |-> b, deleted |-> d, beyond |-> B])
  BY DEF Sends
<1>2. PICK m \in Message : m = [size |-> size, delivered |-> b, deleted |-> d, beyond |-> B]
  BY Zenon DEF Message
<1>3. m.size = size /\ m.deleted = d /\ m.beyond = B
  BY <1>2
<1>4. Len(g_messages) < MaxMessages /\ g_messages' = Append(g_messages, m)
  BY <1>1, <1>2 DEF Sends
<1>5. Grown /\ Len(g_messages') = Len(g_messages) + 1 /\ g_messages'[Len(g_messages) + 1] = m
  BY <1>4, AppendGrows
<1> QED
  BY <1>3, <1>5, Zenon DEF Recorded

\* The queue grows by entries for the first of ids, and for all of them unless it
\* is full then.
Enqueued(ids) ==
  /\ g_offline_queue' \in Seq(Entry)
  /\ Len(g_offline_queue) \in Nat /\ Len(g_offline_queue') \in Nat
  /\ Len(g_offline_queue) <= Len(g_offline_queue') /\ Len(g_offline_queue') <= MaxOfflineQueue
  /\ \A i \in 1 .. Len(g_offline_queue) : g_offline_queue'[i] = g_offline_queue[i]
  /\ \A i \in Len(g_offline_queue) + 1 .. Len(g_offline_queue') :
       /\ g_offline_queue'[i].message = Len(g_messages) + 1
       /\ i - Len(g_offline_queue) \in DOMAIN ids
       /\ g_offline_queue'[i].recipient = ids[i - Len(g_offline_queue)]
       /\ g_offline_queue'[i].delivered = FALSE
  /\ \/ Len(g_offline_queue') = MaxOfflineQueue
     \/ Len(g_offline_queue') = Len(g_offline_queue) + Len(ids)

LEMMA Extended ==
  ASSUME NEW T, NEW s \in Seq(T), NEW t \in Seq(T)
  PROVE  /\ s \o t \in Seq(T) /\ Len(s \o t) = Len(s) + Len(t)
         /\ \A i \in 1 .. Len(s) : (s \o t)[i] = s[i]
         /\ \A i \in Len(s) + 1 .. Len(s) + Len(t) : (s \o t)[i] = t[i - Len(s)]
OBVIOUS

LEMMA MinOfTwo ==
  ASSUME NEW a \in Nat, NEW b \in Nat
  PROVE  Min({a, b}) = IF a <= b THEN a ELSE b
<1>1. PICK m \in {a, b} : \A y \in {a, b} : m <= y
  OBVIOUS
<1>2. Min({a, b}) \in {a, b} /\ \A y \in {a, b} : Min({a, b}) <= y
  BY <1>1 DEF Min
<1> QED
  BY <1>2

LEMMA SendEnqueued ==
  ASSUME TypeOK, Len(g_messages) < MaxMessages, NEW ids \in Seq(Ids), Queue(ids)
  PROVE  Enqueued(ids)
<1>1. PICK n, c, room : n = Len(g_offline_queue) /\ c = Len(ids) /\ room = QueueRoom
  OBVIOUS
<1>2. /\ c \in Nat /\ n \in Nat /\ room \in Nat /\ n + room = MaxOfflineQueue
      /\ g_offline_queue \in Seq(Entry) /\ DOMAIN ids = 1 .. c
  BY <1>1 DEF TypeOK, QueueRoom
<1>3. PICK k : k = Min({c, room})
  OBVIOUS
<1>4. k \in Nat /\ k <= c /\ k <= room /\ (k = c \/ k = room)
  <2>1. Min({c, room}) = IF c <= room THEN c ELSE room
    BY <1>2, MinOfTwo
  <2> QED
    BY <1>2, <1>3, <2>1
<1> DEFINE e(i) == [message |-> NewId, recipient |-> ids[i], delivered |-> FALSE]
<1>5. PICK new : new = [i \in 1 .. k |-> e(i)]
  OBVIOUS
<1>6. NewId \in 1 .. MaxMessages /\ NewId = Len(g_messages) + 1
  BY DEF NewId, TypeOK
<1>7. \A i \in 1 .. k : i \in 1 .. c /\ ids[i] \in Ids
  BY <1>1, <1>2, <1>4
<1>8. \A i \in 1 .. k : e(i) \in Entry
  BY <1>6, <1>7 DEF Entry
<1>9. new \in Seq(Entry) /\ Len(new) = k
  BY <1>4, <1>5, <1>8
<1>10. \A i \in 1 .. k : /\ new[i].message = Len(g_messages) + 1
                         /\ new[i].recipient = ids[i] /\ new[i].delivered = FALSE
  BY <1>5, <1>6
<1>11. g_offline_queue' = g_offline_queue \o new
  BY <1>1, <1>3, <1>5, Zenon DEF Queue
<1>12. /\ g_offline_queue' \in Seq(Entry) /\ Len(g_offline_queue') = n + k
       /\ \A i \in 1 .. n : g_offline_queue'[i] = g_offline_queue[i]
       /\ \A i \in n + 1 .. n + k : g_offline_queue'[i] = new[i - n]
  <2>1. PICK q : q = g_offline_queue
    OBVIOUS
  <2>2. q \in Seq(Entry) /\ Len(q) = n /\ new \in Seq(Entry) /\ Len(new) = k
    BY <1>1, <1>2, <1>9, <2>1
  <2>3. /\ q \o new \in Seq(Entry) /\ Len(q \o new) = Len(q) + Len(new)
        /\ \A i \in 1 .. Len(q) : (q \o new)[i] = q[i]
        /\ \A i \in Len(q) + 1 .. Len(q) + Len(new) : (q \o new)[i] = new[i - Len(q)]
    BY <2>2, Extended
  <2>4. g_offline_queue' = q \o new
    BY <1>11, <2>1
  <2> QED
    BY <2>1, <2>2, <2>3, <2>4, Zenon
<1>13. \A i \in n + 1 .. n + k : i - n \in 1 .. k
  BY <1>2, <1>4
<1>14. \A i \in n + 1 .. n + k : /\ g_offline_queue'[i].message = Len(g_messages) + 1
                                 /\ i - n \in DOMAIN ids
                                 /\ g_offline_queue'[i].recipient = ids[i - n]
                                 /\ g_offline_queue'[i].delivered = FALSE
  BY <1>2, <1>7, <1>10, <1>12, <1>13
<1>15. n + k = MaxOfflineQueue \/ n + k = n + c
  BY <1>2, <1>4
<1>16. n + k <= MaxOfflineQueue /\ n + k \in Nat /\ n <= n + k
  BY <1>2, <1>4
<1> QED
  BY <1>1, <1>2, <1>12, <1>14, <1>15, <1>16 DEF Enqueued

\* What reaches the clients.
HandedOver(R, size) ==
  /\ inbox' \in [Users -> Seq(Arrival)]
  /\ \A u \in Users :
       /\ Len(inbox[u]) \in Nat
       /\ u \in R \ broken /\ size = "fits" =>
            /\ Len(inbox'[u]) = Len(inbox[u]) + 1
            /\ \A i \in 1 .. Len(inbox[u]) : inbox'[u][i] = inbox[u][i]
            /\ inbox'[u][Len(inbox[u]) + 1].message = Len(g_messages) + 1
       /\ ~(u \in R \ broken /\ size = "fits") => inbox'[u] = inbox[u]

LEMMA SendHandedOver ==
  ASSUME TypeOK, NEW O, NEW R, NEW ids, NEW size \in Sizes,
         NEW type \in {"CHAT_DELIVER", "GROUP_MSG_DELIVER"}, NEW d, NEW B,
         Sends(O, R, ids, size, type, d, B)
  PROVE  HandedOver(R, size)
<1>1. NewId \in 1 .. MaxMessages /\ NewId = Len(g_messages) + 1
  BY DEF NewId, TypeOK, Sends
<1>2. PICK a \in Arrival : a = [message |-> NewId, type |-> type]
  BY <1>1, Zenon DEF Arrival
<1>3. a.message = Len(g_messages) + 1
  BY <1>1, <1>2
<1>4. inbox' = [u \in Users |->
        IF u \in R \ broken /\ size = "fits" THEN Append(inbox[u], a) ELSE inbox[u]]
  BY <1>2, Zenon DEF Sends, Handed
<1>5. \A u \in Users : inbox[u] \in Seq(Arrival)
  BY DEF TypeOK
<1>6. \A u \in Users :
        /\ Append(inbox[u], a) \in Seq(Arrival)
        /\ Len(inbox[u]) \in Nat /\ Len(Append(inbox[u], a)) = Len(inbox[u]) + 1
        /\ \A i \in 1 .. Len(inbox[u]) : Append(inbox[u], a)[i] = inbox[u][i]
        /\ Append(inbox[u], a)[Len(inbox[u]) + 1] = a
  BY <1>5
<1>7. inbox' \in [Users -> Seq(Arrival)]
  BY <1>4, <1>5, <1>6
<1> QED
  BY <1>3, <1>4, <1>6, <1>7 DEF HandedOver


\* Who waits for what after a message was sent: the old entries and the new ones.
LEMMA SendDue ==
  ASSUME TypeOK, NEW ids, Enqueued(ids), NEW u \in Users,
         NEW n, n = Len(g_offline_queue), NEW N, N = Len(g_offline_queue')
  PROVE  /\ \A i \in Due(u) : i \in Due(u)' /\ i \in 1 .. n
         /\ \A i \in Due(u)' :
              \/ i \in Due(u)
              \/ /\ i \in n + 1 .. N /\ i - n \in DOMAIN ids /\ ids[i - n] = u
                 /\ g_offline_queue'[i].message = Len(g_messages) + 1
         /\ \A i \in n + 1 .. N : g_offline_queue'[i].recipient = u => i \in Due(u)'
<1>1. n \in Nat /\ N \in Nat /\ n <= N
  BY DEF Enqueued
<1>2. DOMAIN g_offline_queue = 1 .. n /\ DOMAIN g_offline_queue' = 1 .. N
  BY DEF TypeOK, Enqueued
<1>3. /\ \A i \in 1 .. n : i \in 1 .. N
      /\ \A i \in n + 1 .. N : i \in 1 .. N
      /\ \A i \in 1 .. N : i \in 1 .. n \/ i \in n + 1 .. N
  BY <1>1
<1>4. /\ \A i \in 1 .. n : g_offline_queue'[i] = g_offline_queue[i]
      /\ \A i \in n + 1 .. N :
           /\ g_offline_queue'[i].message = Len(g_messages) + 1
           /\ i - n \in DOMAIN ids /\ g_offline_queue'[i].recipient = ids[i - n]
           /\ g_offline_queue'[i].delivered = FALSE
  BY DEF Enqueued
<1>5. /\ \A i : i \in Due(u) <=> /\ i \in 1 .. n
                                 /\ g_offline_queue[i].recipient = u /\ ~g_offline_queue[i].delivered
      /\ \A i : i \in Due(u)' <=> /\ i \in 1 .. N
                                  /\ g_offline_queue'[i].recipient = u /\ ~g_offline_queue'[i].delivered
  BY <1>2, Zenon DEF Due
<1>6. \A i \in Due(u) : i \in Due(u)' /\ i \in 1 .. n
  BY <1>3, <1>4, <1>5, Zenon
<1>7. ASSUME NEW i \in Due(u)', i \notin Due(u)
      PROVE  /\ i \in n + 1 .. N /\ i - n \in DOMAIN ids /\ ids[i - n] = u
             /\ g_offline_queue'[i].message = Len(g_messages) + 1
  <2>1. i \in n + 1 .. N
    <3>1. i \in 1 .. N /\ g_offline_queue'[i].recipient = u /\ ~g_offline_queue'[i].delivered
      BY <1>5, <1>7, Zenon
    <3>2. i \notin 1 .. n
      <4> SUFFICES ASSUME i \in 1 .. n PROVE FALSE
        OBVIOUS
      <4>1. g_offline_queue'[i] = g_offline_queue[i]
        BY <1>4
      <4>2. g_offline_queue[i].recipient = u /\ ~g_offline_queue[i].delivered
        BY <3>1, <4>1
      <4> QED
        BY <1>5, <1>7, <4>2, Zenon
    <3> QED
      BY <1>3, <3>1, <3>2
  <2>2. g_offline_queue'[i].recipient = u
    BY <1>5, <1>7, Zenon
  <2>3. /\ g_offline_queue'[i].message = Len(g_messages) + 1
        /\ i - n \in DOMAIN ids /\ g_offline_queue'[i].recipient = ids[i - n]
    BY <1>4, <2>1, Zenon
  <2> QED
    BY <2>1, <2>2, <2>3, Zenon
<1>8. \A i \in n + 1 .. N : g_offline_queue'[i].recipient = u => i \in Due(u)'
  BY <1>3, <1>4, <1>5, Zenon
<1> QED
  BY <1>6, <1>7, <1>8

\* The numbers in the queue and in the inboxes are those of messages of the table.
LEMMA NumbersKnown ==
  ASSUME TypeOK, Known, NEW n, n = Len(g_offline_queue), NEW l, l = Len(g_messages)
  PROVE  /\ n \in Nat /\ l \in Nat /\ DOMAIN g_offline_queue = 1 .. n /\ DOMAIN g_messages = 1 .. l
         /\ \A i \in 1 .. n : g_offline_queue[i] \in Entry /\ g_offline_queue[i].message \in 1 .. l
         /\ \A u \in Users : \A i \in DOMAIN inbox[u] :
              inbox[u][i] \in Arrival /\ inbox[u][i].message \in 1 .. l
<1>1. /\ n \in Nat /\ l \in Nat /\ DOMAIN g_offline_queue = 1 .. n /\ DOMAIN g_messages = 1 .. l
      /\ \A i \in 1 .. n : g_offline_queue[i] \in Entry
  BY DEF TypeOK
<1>2. \A u \in Users : \A i \in DOMAIN inbox[u] : inbox[u][i] \in Arrival
  BY DEF TypeOK
<1>3. /\ \A i \in 1 .. n : g_offline_queue[i].message <= l
      /\ \A u \in Users : \A i \in DOMAIN inbox[u] : inbox[u][i].message <= l
  BY <1>1, Zenon DEF Known
<1>4. /\ \A e \in Entry : e.message \in Nat \ {0}
      /\ \A a \in Arrival : a.message \in Nat \ {0}
  BY DEF Entry, Arrival
<1>5. \A m \in Nat \ {0} : m <= l => m \in 1 .. l
  BY <1>1
<1> QED
  BY <1>1, <1>2, <1>3, <1>4, <1>5, Zenon

LEMMA SendOrderInv ==
  ASSUME OrderInv, NEW O, NEW R, NEW ids, NEW d, NEW B, NEW size \in Sizes,
         Addressed(O, R, ids, d, B), Recorded(size, d, B), Enqueued(ids), HandedOver(R, size), Owe(O),
         UNCHANGED <<online, broken, g_group_members>>
  PROVE  OrderInv'
<1>0. TypeOK /\ OneRecord /\ QueueOrdered /\ Known /\ QueueAhead /\ AbsentOnly /\ ArriveInOrder
  BY DEF OrderInv
<1>1. PICK n, N, l, k : n = Len(g_offline_queue) /\ N = Len(g_offline_queue') /\ l = Len(g_messages) /\ k = l + 1
  OBVIOUS
<1>2. n \in Nat /\ N \in Nat /\ n <= N /\ l \in Nat /\ k \in Nat /\ l < k /\ Len(g_messages') = k
  BY <1>1 DEF Enqueued, Recorded, Grown
<1>3. DOMAIN g_offline_queue = 1 .. n /\ DOMAIN g_offline_queue' = 1 .. N
  BY <1>0, <1>1 DEF TypeOK, Enqueued
<1>4. /\ \A i \in 1 .. N : i \in 1 .. n \/ i \in n + 1 .. N
      /\ \A i, j \in 1 .. N : i < j /\ j \in 1 .. n => i \in 1 .. n
      /\ \A i, j \in n + 1 .. N : i < j => i - n # j - n
  BY <1>2
<1>5. /\ \A i \in 1 .. n : g_offline_queue'[i] = g_offline_queue[i]
      /\ \A i \in n + 1 .. N : /\ g_offline_queue'[i].message = k
                               /\ i - n \in DOMAIN ids /\ g_offline_queue'[i].recipient = ids[i - n]
  BY <1>1 DEF Enqueued
<1>6. \A i \in 1 .. n : g_offline_queue[i].message \in 1 .. l
  BY <1>0, <1>1, NumbersKnown
<1>7. PICK len, newlen : len = [u \in Users |-> Len(inbox[u])] /\ newlen = [u \in Users |-> Len(inbox'[u])]
  OBVIOUS
<1>8. \A u \in Users : /\ len[u] \in Nat /\ newlen[u] \in Nat
                       /\ DOMAIN inbox[u] = 1 .. len[u] /\ DOMAIN inbox'[u] = 1 .. newlen[u]
  BY <1>0, <1>7 DEF TypeOK, HandedOver
<1>9. \A u \in Users : \A i \in 1 .. len[u] : inbox[u][i].message \in 1 .. l
  <2>1. \A u \in Users : \A i \in DOMAIN inbox[u] : inbox[u][i].message \in 1 .. l
    BY <1>0, <1>1, NumbersKnown
  <2> QED
    BY <1>8, <2>1, Zenon
<1>10. ASSUME NEW u \in Users
       PROVE  \/ inbox'[u] = inbox[u]
              \/ /\ u \in online /\ newlen[u] = len[u] + 1
                 /\ \A i \in 1 .. len[u] : inbox'[u][i] = inbox[u][i]
                 /\ inbox'[u][newlen[u]].message = k
  <2>1. R \in SUBSET online
    BY DEF Addressed
  <2> QED
    BY <1>1, <1>7, <2>1 DEF HandedOver
<1>11. TypeOK' /\ OneRecord'
  <2>1. owed' \in [Users -> SUBSET (1 .. MaxMessages)]
    <3>1. NewId \in 1 .. MaxMessages
      BY DEF NewId, Recorded, Grown
    <3> QED
      BY <1>0, <3>1 DEF TypeOK, Owe
  <2>2. TypeOK'
    BY <1>0, <2>1 DEF TypeOK, Recorded, Grown, Enqueued, HandedOver
  <2>3. OneRecord'
    BY <1>0 DEF OneRecord, OneIn
  <2> QED
    BY <2>2, <2>3
<1>18. /\ \A m \in 1 .. l : g_messages'[m] = g_messages[m] /\ m <= k /\ m < k
      /\ g_messages'[k].deleted = d
  <2>1. /\ \A m \in 1 .. l : g_messages'[m] = g_messages[m]
        /\ g_messages'[k].deleted = d
    BY <1>1, Zenon DEF Recorded, Grown
  <2>2. \A m \in 1 .. l : m <= k /\ m < k
    BY <1>2
  <2> QED
    BY <2>1, <2>2, Zenon
<1>12. QueueOrdered'
  <2> SUFFICES ASSUME NEW i \in 1 .. N, NEW j \in 1 .. N, i < j
               PROVE  /\ g_offline_queue'[i].message <= g_offline_queue'[j].message
                      /\ g_offline_queue'[i].recipient = g_offline_queue'[j].recipient
                           => \/ g_offline_queue'[i].message < g_offline_queue'[j].message
                              \/ g_messages'[g_offline_queue'[i].message].deleted
    BY <1>3 DEF QueueOrdered
  <2>1. CASE j \in 1 .. n
    <3>1. i \in 1 .. n
      BY <1>4, <2>1
    <3>2. /\ g_offline_queue[i].message <= g_offline_queue[j].message
          /\ g_offline_queue[i].recipient = g_offline_queue[j].recipient
               => \/ g_offline_queue[i].message < g_offline_queue[j].message
                  \/ g_messages[g_offline_queue[i].message].deleted
      BY <1>0, <1>3, <2>1, <3>1, Zenon DEF QueueOrdered
    <3>3. /\ g_offline_queue'[i] = g_offline_queue[i] /\ g_offline_queue'[j] = g_offline_queue[j]
          /\ g_messages'[g_offline_queue[i].message] = g_messages[g_offline_queue[i].message]
      BY <1>5, <1>6, <1>18, <2>1, <3>1, Zenon
    <3> QED
      BY <3>2, <3>3, Zenon
  <2>2. CASE i \in 1 .. n /\ j \in n + 1 .. N
    BY <1>5, <1>6, <1>18, <2>2, Zenon
  <2>3. CASE i \in n + 1 .. N /\ j \in n + 1 .. N
    <3>1. g_offline_queue'[i].message = k /\ g_offline_queue'[j].message = k /\ k <= k
      BY <1>2, <1>5, <2>3
    <3>2. g_offline_queue'[i].recipient = g_offline_queue'[j].recipient => d
      <4>1. ids[i - n] = ids[j - n] => d \/ i - n = j - n
        BY <1>5, <2>3, Zenon DEF Addressed
      <4> QED
        BY <1>4, <1>5, <2>3, <4>1, Zenon
    <3> QED
      BY <1>18, <3>1, <3>2, Zenon
  <2> QED
    BY <1>4, <2>1, <2>2, <2>3
<1>13. Known'
  <2>1. \A i \in 1 .. N : g_offline_queue'[i].message <= k
    <3>1. k <= k
      BY <1>2
    <3> QED
      BY <1>4, <1>5, <1>6, <1>18, <3>1, Zenon
  <2>2. ASSUME NEW u \in Users, NEW i \in 1 .. newlen[u] PROVE inbox'[u][i].message <= k
    <3>1. CASE inbox'[u] = inbox[u]
      <4>1. i \in 1 .. len[u]
        BY <1>7, <3>1
      <4> QED
        BY <1>9, <1>18, <3>1, <4>1
    <3>2. CASE i = newlen[u] /\ inbox'[u][newlen[u]].message = k
      BY <1>2, <3>2
    <3>3. CASE i \in 1 .. len[u] /\ inbox'[u][i] = inbox[u][i]
      BY <1>9, <1>18, <3>3
    <3> QED
      BY <1>8, <1>10, <3>1, <3>2, <3>3
  <2>3. ASSUME NEW u \in Users, NEW m \in owed'[u] PROVE m <= k
    <3>1. NewId = k
      BY <1>1 DEF NewId
    <3>2. m \in owed[u] \/ m = k
      BY <1>0, <2>3, <3>1 DEF Owe
    <3>3. m \in owed[u] => m \in Nat /\ m <= l
      BY <1>0, <1>1 DEF TypeOK, Known
    <3> QED
      BY <1>2, <3>2, <3>3
  <2> QED
    BY <1>2, <1>3, <1>8, <2>1, <2>2, <2>3 DEF Known
<1>14. AbsentOnly'
  <2>1. \A i \in 1 .. n : ~g_offline_queue'[i].delivered => g_offline_queue'[i].recipient \notin online
    BY <1>0, <1>3, <1>5 DEF AbsentOnly
  <2>2. \A i \in n + 1 .. N : g_offline_queue'[i].recipient \notin online
    BY <1>5, Zenon DEF Addressed
  <2> QED
    BY <1>3, <1>4, <2>1, <2>2 DEF AbsentOnly
<1>15. \A u \in Users : \A i \in Due(u) : u \notin online /\ i \in 1 .. n
  BY <1>0, <1>3 DEF Due, AbsentOnly
<1>16. QueueAhead'
  <2> SUFFICES ASSUME NEW u \in Users, NEW i \in 1 .. newlen[u], NEW j \in Due(u)'
               PROVE  inbox'[u][i].message < g_offline_queue'[j].message
    BY <1>8 DEF QueueAhead
  <2>1. \/ j \in Due(u)
        \/ j - n \in DOMAIN ids /\ ids[j - n] = u /\ g_offline_queue'[j].message = k
    BY <1>0, <1>1, SendDue
  <2>2. u \notin online
    BY <1>15, <2>1 DEF Addressed
  <2>3. inbox'[u] = inbox[u] /\ i \in 1 .. len[u]
    BY <1>7, <1>10, <2>2
  <2>4. CASE j \in Due(u)
    <3>1. g_offline_queue'[j] = g_offline_queue[j]
      BY <1>5, <1>15, <2>4
    <3>2. inbox[u][i].message < g_offline_queue[j].message
      BY <1>0, <1>8, <2>3, <2>4, Zenon DEF QueueAhead
    <3> QED
      BY <2>3, <3>1, <3>2, Zenon
  <2>5. CASE g_offline_queue'[j].message = k
    <3>1. inbox[u][i].message < k
      BY <1>9, <1>18, <2>3, Zenon
    <3> QED
      BY <2>3, <2>5, <3>1, Zenon
  <2> QED
    BY <2>1, <2>4, <2>5
<1>17. ArriveInOrder'
  <2> SUFFICES ASSUME NEW u \in Users, NEW i \in 1 .. newlen[u], NEW j \in 1 .. newlen[u], i < j
               PROVE  \/ inbox'[u][i].message < inbox'[u][j].message
                      \/ /\ inbox'[u][i].message = inbox'[u][j].message
                         /\ g_messages'[inbox'[u][i].message].deleted
    BY <1>8 DEF ArriveInOrder
  <2>0. \A x, y \in 1 .. len[u] : x < y =>
          \/ inbox[u][x].message < inbox[u][y].message
          \/ /\ inbox[u][x].message = inbox[u][y].message
             /\ g_messages'[inbox[u][x].message].deleted
    <3>1. \A x, y \in 1 .. len[u] : x < y =>
            \/ inbox[u][x].message < inbox[u][y].message
            \/ /\ inbox[u][x].message = inbox[u][y].message
               /\ g_messages[inbox[u][x].message].deleted
      BY <1>0, <1>8, Zenon DEF ArriveInOrder
    <3>2. \A x \in 1 .. len[u] : g_messages'[inbox[u][x].message] = g_messages[inbox[u][x].message]
      BY <1>9, <1>18, Zenon
    <3> QED
      BY <3>1, <3>2, Zenon
  <2>1. CASE inbox'[u] = inbox[u]
    <3>1. newlen[u] = len[u]
      BY <1>7, <2>1
    <3> QED
      BY <2>0, <2>1, <3>1, Zenon
  <2>2. CASE /\ newlen[u] = len[u] + 1
             /\ \A x \in 1 .. len[u] : inbox'[u][x] = inbox[u][x]
             /\ inbox'[u][newlen[u]].message = k
    <3>1. i \in 1 .. len[u] /\ (j \in 1 .. len[u] \/ j = newlen[u])
      BY <1>8, <2>2
    <3>2. CASE j \in 1 .. len[u]
      <4>1. inbox'[u][i] = inbox[u][i] /\ inbox'[u][j] = inbox[u][j]
        BY <2>2, <3>1, <3>2, Zenon
      <4>2. \/ inbox[u][i].message < inbox[u][j].message
            \/ /\ inbox[u][i].message = inbox[u][j].message
               /\ g_messages'[inbox[u][i].message].deleted
        BY <2>0, <3>1, <3>2, Zenon
      <4> QED
        BY <4>1, <4>2
    <3>3. CASE j = newlen[u]
      <4>1. inbox[u][i].message < k
        BY <1>9, <1>18, <3>1, Zenon
      <4>2. inbox'[u][i].message = inbox[u][i].message /\ inbox'[u][j].message = k
        BY <2>2, <3>1, <3>3, Zenon
      <4> QED
        BY <4>1, <4>2, Zenon
    <3> QED
      BY <3>1, <3>2, <3>3
  <2> QED
    BY <1>10, <2>1, <2>2, Zenon
<1> QED
  BY <1>11, <1>12, <1>13, <1>14, <1>16, <1>17 DEF OrderInv

\* A message that is owed after one was sent is an old one, or the new one to a
\* user of O whose connection is not broken.
LEMMA SendLostForAReason ==
  ASSUME OrderInv, LostForAReason, NEW O, NEW R, NEW ids, NEW d, NEW B, NEW size \in Sizes,
         Addressed(O, R, ids, d, B), Recorded(size, d, B), Enqueued(ids), HandedOver(R, size), Owe(O),
         UNCHANGED <<online, broken, g_group_members>>
  PROVE  LostForAReason'
<1>0. TypeOK /\ Known
  BY DEF OrderInv
<1>1. PICK n, N, l, k : n = Len(g_offline_queue) /\ N = Len(g_offline_queue') /\ l = Len(g_messages) /\ k = l + 1
  OBVIOUS
<1>2. n \in Nat /\ N \in Nat /\ n <= N /\ N <= MaxOfflineQueue /\ l \in Nat /\ k \in Nat /\ l < k
  BY <1>1 DEF Enqueued, Recorded, Grown
<1>3. DOMAIN g_offline_queue = 1 .. n /\ DOMAIN g_offline_queue' = 1 .. N
  BY <1>0, <1>1 DEF TypeOK, Enqueued
<1>4. \A i \in 1 .. N : i \in 1 .. n \/ i \in n + 1 .. N
  BY <1>2
<1>5. /\ \A i \in 1 .. n : g_offline_queue'[i] = g_offline_queue[i]
      /\ \A i \in n + 1 .. N : /\ g_offline_queue'[i].message = k
                               /\ g_offline_queue'[i].recipient = ids[i - n]
      /\ N = MaxOfflineQueue \/ N = n + Len(ids)
  BY <1>1 DEF Enqueued
<1>6. \A i \in 1 .. n : g_offline_queue[i].message \in 1 .. l
  BY <1>0, <1>1, NumbersKnown
<1>7. MaxOfflineQueue \in Nat
  OBVIOUS
<1>8. SUFFICES ASSUME NEW u \in Users, NEW m \in owed'[u]
               PROVE  \/ m \in Received(u)'
                      \/ \E i \in Due(u)' : g_offline_queue'[i].message = m
                      \/ g_messages'[m].size = "too_long"
                      \/ u \in g_messages'[m].beyond
                      \/ /\ N = MaxOfflineQueue
                         /\ \A i \in 1 .. N : g_offline_queue'[i].message <= m
  BY <1>1, <1>3, Zenon DEF LostForAReason
<1>9. /\ \A i \in Due(u) : i \in Due(u)' /\ i \in 1 .. n
      /\ \A i \in n + 1 .. N : g_offline_queue'[i].recipient = u => i \in Due(u)'
  BY <1>0, <1>1, SendDue
<1>10. PICK len, newlen : len = Len(inbox[u]) /\ newlen = Len(inbox'[u])
  OBVIOUS
<1>11. len \in Nat /\ newlen \in Nat /\ DOMAIN inbox[u] = 1 .. len /\ DOMAIN inbox'[u] = 1 .. newlen
  BY <1>0, <1>10 DEF TypeOK, HandedOver
<1>12. /\ u \in R \ broken /\ size = "fits" =>
            /\ newlen = len + 1
            /\ \A i \in 1 .. len : inbox'[u][i] = inbox[u][i]
            /\ inbox'[u][newlen].message = k
       /\ ~(u \in R \ broken /\ size = "fits") => inbox'[u] = inbox[u]
  BY <1>1, <1>10 DEF HandedOver
<1>13. Received(u) = {inbox[u][i].message : i \in 1 .. len}
       /\ Received(u)' = {inbox'[u][i].message : i \in 1 .. newlen}
  BY <1>11 DEF Received
<1>14. m \in owed[u] \/ (m = k /\ u \in O \ broken)
  BY <1>1 DEF Owe, NewId
<1>15. CASE m \in owed[u]
  <2>1. \/ m \in Received(u)
        \/ \E i \in Due(u) : g_offline_queue[i].message = m
        \/ g_messages[m].size = "too_long" \/ u \in g_messages[m].beyond
        \/ n = MaxOfflineQueue /\ \A i \in 1 .. n : g_offline_queue[i].message <= m
    BY <1>1, <1>3, <1>15, Zenon DEF LostForAReason
  <2>2. CASE m \in Received(u)
    <3>1. PICK i \in 1 .. len : m = inbox[u][i].message
      BY <1>13, <2>2
    <3>2. inbox'[u][i] = inbox[u][i] /\ i \in 1 .. newlen
      <4>1. CASE u \in R \ broken /\ size = "fits"
        BY <1>11, <1>12, <4>1
      <4>2. CASE ~(u \in R \ broken /\ size = "fits")
        BY <1>10, <1>12, <4>2
      <4> QED
        BY <4>1, <4>2
    <3> QED
      BY <1>13, <3>1, <3>2, Zenon
  <2>3. CASE \E i \in Due(u) : g_offline_queue[i].message = m
    BY <1>5, <1>9, <2>3, Zenon
  <2>4. CASE g_messages[m].size = "too_long" \/ u \in g_messages[m].beyond
    <3>1. m \in 1 .. l
      BY <1>0, <1>1, <1>2, <1>15 DEF TypeOK, Known
    <3>2. \A x \in 1 .. l : g_messages'[x] = g_messages[x]
      BY <1>1, Zenon DEF Recorded, Grown
    <3> QED
      BY <2>4, <3>1, <3>2, Zenon
  <2>5. CASE n = MaxOfflineQueue /\ \A i \in 1 .. n : g_offline_queue[i].message <= m
    <3>1. N = n
      BY <1>2, <1>7, <2>5
    <3> QED
      BY <1>5, <2>5, <3>1, Zenon
  <2> QED
    BY <2>1, <2>2, <2>3, <2>4, <2>5
<1>16. CASE m = k /\ u \in O \ broken
  <2>0. g_messages'[k].size = size /\ g_messages'[k].beyond = B
    BY <1>1, Zenon DEF Recorded
  <2>1. CASE size # "fits"
    <3>1. size = "too_long"
      BY <2>1
    <3> QED
      BY <1>16, <2>0, <3>1
  <2>2. CASE u \in B
    BY <1>16, <2>0, <2>2
  <2>3. CASE size = "fits" /\ u \in R
    <3>1. u \in R \ broken
      BY <1>16, <2>3
    <3>2. newlen \in 1 .. newlen /\ inbox'[u][newlen].message = m
      BY <1>11, <1>12, <1>16, <2>3, <3>1
    <3> QED
      BY <1>13, <3>2, Zenon
  <2>4. CASE \E x \in DOMAIN ids : ids[x] = u
    <3>1. PICK x \in DOMAIN ids : ids[x] = u
      BY <2>4
    <3>2. CASE N = MaxOfflineQueue
      <4>1. \A i \in 1 .. N : g_offline_queue'[i].message <= k
        BY <1>2, <1>4, <1>5, <1>6
      <4> QED
        BY <1>16, <3>2, <4>1
    <3>3. CASE N = n + Len(ids)
      <4>1. x \in Nat /\ n + x \in n + 1 .. N /\ (n + x) - n = x
        <5>1. ids \in Seq(Ids)
          BY DEF Addressed
        <5>2. Len(ids) \in Nat /\ x \in 1 .. Len(ids)
          BY <5>1
        <5> QED
          BY <1>2, <3>3, <5>2
      <4>2. PICK y : y = n + x
        OBVIOUS
      <4>3. y \in n + 1 .. N /\ g_offline_queue'[y].recipient = u /\ g_offline_queue'[y].message = m
        BY <1>5, <1>16, <3>1, <4>1, <4>2
      <4> QED
        BY <1>9, <4>3, Zenon
    <3> QED
      BY <1>5, <3>2, <3>3
  <2> QED
    BY <1>16, <2>1, <2>2, <2>3, <2>4 DEF Addressed
<1> QED
  BY <1>14, <1>15, <1>16

-----------------------------------------------------------------------------
(* Delivering what waited *)

\* The two tables after u has logged in.
Delivered(u) ==
  /\ g_offline_queue' \in Seq(Entry) /\ Len(g_offline_queue') = Len(g_offline_queue)
  /\ \A i \in DOMAIN g_offline_queue :
       /\ g_offline_queue'[i].message = g_offline_queue[i].message
       /\ g_offline_queue'[i].recipient = g_offline_queue[i].recipient
       /\ ~g_offline_queue'[i].delivered
            <=> ~g_offline_queue[i].delivered /\ g_offline_queue[i].recipient # u
  /\ g_messages' \in Seq(Message) /\ Len(g_messages') = Len(g_messages)
  /\ \A m \in DOMAIN g_messages :
       /\ g_messages'[m].size = g_messages[m].size
       /\ g_messages'[m].deleted = g_messages[m].deleted
       /\ g_messages'[m].beyond = g_messages[m].beyond

LEMMA EntryMarked ==
  ASSUME NEW e \in Entry, NEW b \in BOOLEAN
  PROVE  /\ [e EXCEPT !.delivered = b] \in Entry
         /\ [e EXCEPT !.delivered = b].message = e.message
         /\ [e EXCEPT !.delivered = b].recipient = e.recipient
         /\ [e EXCEPT !.delivered = b].delivered = b
BY DEF Entry

LEMMA MessageMarked ==
  ASSUME NEW e \in Message, NEW b \in BOOLEAN
  PROVE  /\ [e EXCEPT !.delivered = b] \in Message
         /\ [e EXCEPT !.delivered = b].size = e.size
         /\ [e EXCEPT !.delivered = b].deleted = e.deleted
         /\ [e EXCEPT !.delivered = b].beyond = e.beyond
BY DEF Message

LEMMA LoginDelivers ==
  ASSUME TypeOK, NEW u \in Users, handle_login(u)
  PROVE  Delivered(u)
<1> DEFINE q(i) == g_offline_queue[i].delivered \/ g_offline_queue[i].recipient = u
           d(m) == g_messages[m].delivered \/ \E i \in Due(u) : g_offline_queue[i].message = m
<1>1. PICK n, l : n = Len(g_offline_queue) /\ l = Len(g_messages)
  OBVIOUS
<1>2. /\ n \in Nat /\ DOMAIN g_offline_queue = 1 .. n /\ \A i \in 1 .. n : g_offline_queue[i] \in Entry
      /\ l \in Nat /\ DOMAIN g_messages = 1 .. l /\ \A m \in 1 .. l : g_messages[m] \in Message
  BY <1>1 DEF TypeOK
<1>3. /\ g_offline_queue' = [i \in 1 .. n |-> [g_offline_queue[i] EXCEPT !.delivered = q(i)]]
      /\ g_messages' = [m \in 1 .. l |-> [g_messages[m] EXCEPT !.delivered = d(m)]]
  <2>1. g_offline_queue' = [i \in DOMAIN g_offline_queue |-> [g_offline_queue[i] EXCEPT !.delivered = q(i)]]
    BY DEF handle_login, Marked
  <2>2. g_messages' = [m \in DOMAIN g_messages |-> [g_messages[m] EXCEPT !.delivered = d(m)]]
    BY DEF handle_login
  <2> QED
    BY <1>2, <2>1, <2>2
<1>4. /\ \A i \in 1 .. n : q(i) \in BOOLEAN
      /\ \A m \in 1 .. l : d(m) \in BOOLEAN
  <2>1. \A e \in Entry : e.delivered \in BOOLEAN
    BY DEF Entry
  <2>2. \A e \in Message : e.delivered \in BOOLEAN
    BY DEF Message
  <2> QED
    BY <1>2, <2>1, <2>2
<1> HIDE DEF q, d
<1>5. \A i \in 1 .. n :
        /\ g_offline_queue'[i] \in Entry
        /\ g_offline_queue'[i].message = g_offline_queue[i].message
        /\ g_offline_queue'[i].recipient = g_offline_queue[i].recipient
        /\ g_offline_queue'[i].delivered = q(i)
  <2> SUFFICES ASSUME NEW i \in 1 .. n
               PROVE  /\ g_offline_queue'[i] \in Entry
                      /\ g_offline_queue'[i].message = g_offline_queue[i].message
                      /\ g_offline_queue'[i].recipient = g_offline_queue[i].recipient
                      /\ g_offline_queue'[i].delivered = q(i)
    OBVIOUS
  <2>1. PICK e : e = g_offline_queue[i]
    OBVIOUS
  <2>2. g_offline_queue'[i] = [e EXCEPT !.delivered = q(i)]
    BY <1>3, <2>1
  <2>3. e \in Entry /\ q(i) \in BOOLEAN
    BY <1>2, <1>4, <2>1
  <2> QED
    BY <2>1, <2>2, <2>3, EntryMarked
<1>6. \A m \in 1 .. l : /\ g_messages'[m] \in Message /\ g_messages'[m].size = g_messages[m].size
                        /\ g_messages'[m].deleted = g_messages[m].deleted
                        /\ g_messages'[m].beyond = g_messages[m].beyond
  <2> SUFFICES ASSUME NEW m \in 1 .. l
               PROVE  /\ g_messages'[m] \in Message /\ g_messages'[m].size = g_messages[m].size
                      /\ g_messages'[m].deleted = g_messages[m].deleted
                      /\ g_messages'[m].beyond = g_messages[m].beyond
    OBVIOUS
  <2>1. PICK e : e = g_messages[m]
    OBVIOUS
  <2>2. g_messages'[m] = [e EXCEPT !.delivered = d(m)]
    BY <1>3, <2>1
  <2>3. e \in Message /\ d(m) \in BOOLEAN
    BY <1>2, <1>4, <2>1
  <2> QED
    BY <2>1, <2>2, <2>3, MessageMarked
<1>7. g_offline_queue' \in Seq(Entry) /\ Len(g_offline_queue') = n
  <2>1. g_offline_queue' \in [1 .. n -> Entry]
    BY <1>3, <1>5
  <2> QED
    BY <1>2, <2>1, FunctionIsSeq
<1>8. g_messages' \in Seq(Message) /\ Len(g_messages') = l
  <2>1. g_messages' \in [1 .. l -> Message]
    BY <1>3, <1>6
  <2> QED
    BY <1>2, <2>1, FunctionIsSeq
<1>9. \A i \in 1 .. n : ~g_offline_queue'[i].delivered
        <=> ~g_offline_queue[i].delivered /\ g_offline_queue[i].recipient # u
  BY <1>5, Zenon DEF q
<1> QED
  BY <1>1, <1>2, <1>5, <1>6, <1>7, <1>8, <1>9 DEF Delivered

\* What arrives at u: the messages of the entries that fit, in the order of the
\* queue.
LEMMA KeptInOrder ==
  ASSUME OrderInv, NEW u \in Users, NEW c, c = Cardinality(Fitting(u))
  PROVE  /\ c \in Nat /\ Kept(u) \in Seq(1 .. MaxMessages) /\ Len(Kept(u)) = c
         /\ \A k \in 1 .. c : \E i \in Due(u) : Kept(u)[k] = g_offline_queue[i].message
         /\ \A k, l \in 1 .. c : k < l =>
              \/ Kept(u)[k] < Kept(u)[l]
              \/ Kept(u)[k] = Kept(u)[l] /\ g_messages[Kept(u)[k]].deleted
         /\ \A i \in Fitting(u) : \E k \in 1 .. c : Kept(u)[k] = g_offline_queue[i].message
<1>0. TypeOK /\ QueueOrdered
  BY DEF OrderInv
<1>1. PICK F : F = Fitting(u)
  OBVIOUS
<1>2. PICK n : n = Len(g_offline_queue)
  OBVIOUS
<1>3. n \in Nat /\ DOMAIN g_offline_queue = 1 .. n /\ \A i \in 1 .. n : g_offline_queue[i] \in Entry
  BY <1>0, <1>2 DEF TypeOK
<1>4. F \subseteq 1 .. n /\ \A i \in F : i \in Due(u) /\ g_offline_queue[i].recipient = u
  BY <1>1, <1>3, Zenon DEF Fitting, Due
<1>5. IsFiniteSet(1 .. n)
  BY <1>3, FS_Interval
<1>6. IsFiniteSet(F) /\ F \in SUBSET Nat
  <2>1. IsFiniteSet(F)
    BY <1>4, <1>5, FS_Subset
  <2>2. F \in SUBSET Nat
    BY <1>4
  <2> QED
    BY <2>1, <2>2
<1>7. c \in Nat /\ c = Cardinality(F)
  BY <1>1, <1>6, FS_CardinalityType
<1>8. \A k \in 1 .. c : Nth(F, k) \in F
  BY <1>6, <1>7, NthIsFound
<1>9. Kept(u) = [k \in 1 .. c |-> g_offline_queue[Nth(F, k)].message]
  BY <1>1, <1>7, Zenon DEF Kept
<1>10. \A e \in Entry : e.message \in 1 .. MaxMessages
  BY DEF Entry
<1>11. \A k \in 1 .. c : g_offline_queue[Nth(F, k)].message \in 1 .. MaxMessages
  BY <1>3, <1>4, <1>8, <1>10, Zenon
<1>12. Kept(u) \in Seq(1 .. MaxMessages) /\ Len(Kept(u)) = c
  <2>1. Kept(u) \in [1 .. c -> 1 .. MaxMessages]
    BY <1>9, <1>11
  <2> QED
    BY <1>7, <2>1, FunctionIsSeq
<1>13. \A k \in 1 .. c : \E i \in Due(u) : Kept(u)[k] = g_offline_queue[i].message
  BY <1>4, <1>8, <1>9, Zenon
<1>14. ASSUME NEW k \in 1 .. c, NEW l \in 1 .. c, k < l
       PROVE  \/ Kept(u)[k] < Kept(u)[l]
              \/ Kept(u)[k] = Kept(u)[l] /\ g_messages[Kept(u)[k]].deleted
  <2>1. PICK i, j : i = Nth(F, k) /\ j = Nth(F, l)
    OBVIOUS
  <2>2. i \in F /\ j \in F /\ i < j
    BY <1>6, <1>7, <1>8, <1>14, <2>1, NthGrows
  <2>3. /\ g_offline_queue[i].message <= g_offline_queue[j].message
        /\ \/ g_offline_queue[i].message < g_offline_queue[j].message
           \/ g_messages[g_offline_queue[i].message].deleted
    BY <1>0, <1>3, <1>4, <2>2, Zenon DEF QueueOrdered
  <2>4. Kept(u)[k] = g_offline_queue[i].message /\ Kept(u)[l] = g_offline_queue[j].message
    BY <1>9, <2>1, Zenon
  <2>5. Kept(u)[k] \in Nat /\ Kept(u)[l] \in Nat
    BY <1>12
  <2> QED
    BY <2>3, <2>4, <2>5
<1>15. ASSUME NEW i \in F PROVE \E k \in 1 .. c : Kept(u)[k] = g_offline_queue[i].message
  <2>1. Rank(F, i) \in 1 .. c /\ Nth(F, Rank(F, i)) = i
    BY <1>6, <1>7, RankType, NthOfRank
  <2> QED
    BY <1>9, <2>1, Zenon
<1> QED
  BY <1>1, <1>7, <1>12, <1>13, <1>14, <1>15

\* The inbox of u after the login: what it had, then what was kept.
Fetched(u, len, c) ==
  /\ len \in Nat /\ len = Len(inbox[u]) /\ c \in Nat
  /\ inbox' \in [Users -> Seq(Arrival)]
  /\ \A w \in Users \ {u} : inbox'[w] = inbox[w]
  /\ Len(inbox'[u]) = len + c
  /\ \A i \in 1 .. len : inbox'[u][i] = inbox[u][i]
  /\ \A i \in len + 1 .. len + c : inbox'[u][i].message = Kept(u)[i - len]

LEMMA LoginFetches ==
  ASSUME OrderInv, NEW u \in Users, handle_login(u),
         NEW len, len = Len(inbox[u]), NEW c, c = Cardinality(Fitting(u))
  PROVE  Fetched(u, len, c)
<1>1. inbox \in [Users -> Seq(Arrival)] /\ inbox[u] \in Seq(Arrival)
  BY DEF OrderInv, TypeOK
<1>2. c \in Nat /\ Kept(u) \in Seq(1 .. MaxMessages) /\ Len(Kept(u)) = c
  BY KeptInOrder
<1>3. PICK kept : kept = Kept(u)
  OBVIOUS
<1>4. DOMAIN kept = 1 .. c /\ \A k \in 1 .. c : kept[k] \in 1 .. MaxMessages
  BY <1>2, <1>3
<1>5. PICK new : new = [k \in 1 .. c |-> [message |-> kept[k], type |-> "CHAT_DELIVER"]]
  OBVIOUS
<1>6. \A k \in 1 .. c : [message |-> kept[k], type |-> "CHAT_DELIVER"] \in Arrival
  BY <1>4, Zenon DEF Arrival
<1>7. new \in Seq(Arrival) /\ Len(new) = c
  <2>1. new \in [1 .. c -> Arrival]
    BY <1>5, <1>6, Zenon
  <2> QED
    BY <1>2, <2>1, FunctionIsSeq
<1>8. \A k \in 1 .. c : new[k].message = kept[k]
  BY <1>5
<1>9. inbox' = [inbox EXCEPT ![u] = inbox[u] \o new]
  BY <1>3, <1>4, <1>5, Zenon DEF handle_login, Arrivals
<1>10. PICK old : old = inbox[u]
  OBVIOUS
<1>11. PICK both : both = old \o new
  OBVIOUS
<1>12. /\ both \in Seq(Arrival) /\ Len(both) = len + c
       /\ \A i \in 1 .. len : both[i] = old[i]
       /\ \A i \in len + 1 .. len + c : both[i] = new[i - len]
  <2>1. old \in Seq(Arrival) /\ new \in Seq(Arrival) /\ len = Len(old) /\ c = Len(new)
    BY <1>1, <1>7, <1>10
  <2>2. /\ old \o new \in Seq(Arrival) /\ Len(old \o new) = Len(old) + Len(new)
        /\ \A i \in 1 .. Len(old) : (old \o new)[i] = old[i]
        /\ \A i \in Len(old) + 1 .. Len(old) + Len(new) : (old \o new)[i] = new[i - Len(old)]
    BY <2>1, Extended
  <2>3. both \in Seq(Arrival) /\ Len(both) = len + c
    BY <1>11, <2>1, <2>2
  <2>4. \A i \in 1 .. len : both[i] = old[i]
    BY <1>11, <2>1, <2>2
  <2>5. \A i \in len + 1 .. len + c : both[i] = new[i - len]
    BY <1>11, <2>1, <2>2
  <2> QED
    BY <2>3, <2>4, <2>5
<1>13. /\ inbox' \in [Users -> Seq(Arrival)] /\ inbox'[u] = both
       /\ \A w \in Users \ {u} : inbox'[w] = inbox[w]
  BY <1>1, <1>9, <1>10, <1>11, <1>12
<1>14. len \in Nat
  BY <1>1
<1>15. \A i \in len + 1 .. len + c : i - len \in 1 .. c
  BY <1>2, <1>14
<1>16. \A i \in len + 1 .. len + c : inbox'[u][i].message = kept[i - len]
  <2>1. \A i \in len + 1 .. len + c : inbox'[u][i] = new[i - len]
    BY <1>12, <1>13, Zenon
  <2>2. \A i \in len + 1 .. len + c : new[i - len].message = kept[i - len]
    BY <1>8, <1>15, Zenon
  <2> QED
    BY <2>1, <2>2, Zenon
<1> QED
  BY <1>2, <1>3, <1>10, <1>11, <1>12, <1>13, <1>14, <1>16 DEF Fetched

\* Nothing waits for u any longer, and the same as before for everybody else.
LEMMA LoginDue ==
  ASSUME TypeOK, NEW u \in Users, Delivered(u), NEW w
  PROVE  \A i : i \in Due(w)' <=> i \in Due(w) /\ w # u
<1>1. PICK n : n = Len(g_offline_queue)
  OBVIOUS
<1>2. DOMAIN g_offline_queue = 1 .. n /\ DOMAIN g_offline_queue' = 1 .. n
  BY <1>1 DEF TypeOK, Delivered
<1>3. \A i \in 1 .. n :
        /\ g_offline_queue'[i].recipient = g_offline_queue[i].recipient
        /\ ~g_offline_queue'[i].delivered
             <=> ~g_offline_queue[i].delivered /\ g_offline_queue[i].recipient # u
  BY <1>2, Zenon DEF Delivered
<1>4. /\ \A i : i \in Due(w) <=> /\ i \in 1 .. n
                                 /\ g_offline_queue[i].recipient = w /\ ~g_offline_queue[i].delivered
      /\ \A i : i \in Due(w)' <=> /\ i \in 1 .. n
                                  /\ g_offline_queue'[i].recipient = w /\ ~g_offline_queue'[i].delivered
  BY <1>2, Zenon DEF Due
<1> QED
  BY <1>3, <1>4, Zenon

LEMMA LoginOrderInv ==
  ASSUME OrderInv, NEW u \in Users, handle_login(u)
  PROVE  OrderInv'
<1>0. TypeOK /\ OneRecord /\ QueueOrdered /\ Known /\ QueueAhead /\ AbsentOnly /\ ArriveInOrder
  BY DEF OrderInv
<1>1. PICK n, l, len, c : /\ n = Len(g_offline_queue) /\ l = Len(g_messages)
                          /\ len = Len(inbox[u]) /\ c = Cardinality(Fitting(u))
  OBVIOUS
<1>2. Delivered(u) /\ Fetched(u, len, c)
  BY <1>0, <1>1, LoginDelivers, LoginFetches
<1>3. /\ n \in Nat /\ DOMAIN g_offline_queue = 1 .. n /\ DOMAIN g_offline_queue' = 1 .. n
      /\ Len(g_messages') = l
  BY <1>0, <1>1, <1>2 DEF TypeOK, Delivered
<1>4. \A i \in 1 .. n :
        /\ g_offline_queue'[i].message = g_offline_queue[i].message
        /\ g_offline_queue'[i].recipient = g_offline_queue[i].recipient
        /\ ~g_offline_queue'[i].delivered
             <=> ~g_offline_queue[i].delivered /\ g_offline_queue[i].recipient # u
  BY <1>2, <1>3, Zenon DEF Delivered
<1>5. /\ len \in Nat /\ c \in Nat
      /\ DOMAIN inbox[u] = 1 .. len /\ DOMAIN inbox'[u] = 1 .. len + c
      /\ \A w \in Users \ {u} : inbox'[w] = inbox[w]
      /\ \A i \in 1 .. len : inbox'[u][i] = inbox[u][i]
      /\ \A i \in len + 1 .. len + c : inbox'[u][i].message = Kept(u)[i - len]
  <2>1. inbox[u] \in Seq(Arrival)
    BY <1>0 DEF TypeOK
  <2>2. /\ inbox'[u] \in Seq(Arrival) /\ Len(inbox'[u]) = len + c
        /\ len \in Nat /\ len = Len(inbox[u]) /\ c \in Nat
    BY <1>2 DEF Fetched
  <2>3. DOMAIN inbox[u] = 1 .. len /\ DOMAIN inbox'[u] = 1 .. len + c
    BY <2>1, <2>2
  <2> QED
    BY <1>2, <2>2, <2>3, Zenon DEF Fetched
<1>6. /\ \A k \in 1 .. c : \E i \in Due(u) : Kept(u)[k] = g_offline_queue[i].message
      /\ \A k, m \in 1 .. c : k < m =>
           \/ Kept(u)[k] < Kept(u)[m]
           \/ Kept(u)[k] = Kept(u)[m] /\ g_messages[Kept(u)[k]].deleted
  BY <1>1, KeptInOrder
<1>7. /\ \A i \in 1 .. len + c : i \in 1 .. len \/ i \in len + 1 .. len + c
      /\ \A i \in len + 1 .. len + c : i - len \in 1 .. c
      /\ \A i, j \in len + 1 .. len + c : i < j => i - len < j - len
      /\ \A i, j \in 1 .. len + c : i < j /\ j \in 1 .. len => i \in 1 .. len
  <2>1. len \in Nat /\ c \in Nat
    BY <1>5
  <2> QED
    BY <2>1
<1>8. \A i \in len + 1 .. len + c : \E j \in Due(u) : inbox'[u][i].message = g_offline_queue[j].message
  <2> SUFFICES ASSUME NEW i \in len + 1 .. len + c
               PROVE  \E j \in Due(u) : inbox'[u][i].message = g_offline_queue[j].message
    OBVIOUS
  <2>1. PICK k : k = i - len
    OBVIOUS
  <2>2. k \in 1 .. c /\ inbox'[u][i].message = Kept(u)[k]
    BY <1>5, <1>7, <2>1, Zenon
  <2>3. \E j \in Due(u) : Kept(u)[k] = g_offline_queue[j].message
    BY <1>6, <2>2, Zenon
  <2> QED
    BY <2>2, <2>3
<1>9. \A w \in Users : \A i : i \in Due(w)' => i \in Due(w) /\ i \in 1 .. n /\ w # u
  <2>1. \A w : \A i \in Due(w) : i \in 1 .. n
    BY <1>3 DEF Due
  <2> QED
    BY <1>0, <1>2, <2>1, LoginDue, Zenon
<1>10. UNCHANGED <<broken, g_group_members, owed>> /\ online' = online \cup {u}
  BY DEF handle_login
<1>11. TypeOK' /\ OneRecord'
  BY <1>0, <1>2, <1>10 DEF TypeOK, OneRecord, Delivered, Fetched
<1>17. /\ \A m \in 1 .. l : g_messages'[m].deleted = g_messages[m].deleted
       /\ \A i \in 1 .. n : g_offline_queue[i].message \in 1 .. l
       /\ \A w \in Users : \A i \in DOMAIN inbox[w] : inbox[w][i].message \in 1 .. l
  <2>1. /\ DOMAIN g_messages = 1 .. l
        /\ \A i \in 1 .. n : g_offline_queue[i].message \in 1 .. l
        /\ \A w \in Users : \A i \in DOMAIN inbox[w] : inbox[w][i].message \in 1 .. l
    BY <1>0, <1>1, NumbersKnown
  <2> QED
    BY <1>2, <2>1, Zenon DEF Delivered
<1>12. QueueOrdered'
  <2> SUFFICES ASSUME NEW i \in 1 .. n, NEW j \in 1 .. n, i < j
               PROVE  /\ g_offline_queue'[i].message <= g_offline_queue'[j].message
                      /\ g_offline_queue'[i].recipient = g_offline_queue'[j].recipient
                           => \/ g_offline_queue'[i].message < g_offline_queue'[j].message
                              \/ g_messages'[g_offline_queue'[i].message].deleted
    BY <1>3, Zenon DEF QueueOrdered
  <2>1. /\ g_offline_queue[i].message <= g_offline_queue[j].message
        /\ g_offline_queue[i].recipient = g_offline_queue[j].recipient
             => \/ g_offline_queue[i].message < g_offline_queue[j].message
                \/ g_messages[g_offline_queue[i].message].deleted
    BY <1>0, <1>3, Zenon DEF QueueOrdered
  <2>2. /\ g_offline_queue'[i].message = g_offline_queue[i].message
        /\ g_offline_queue'[j].message = g_offline_queue[j].message
        /\ g_offline_queue'[i].recipient = g_offline_queue[i].recipient
        /\ g_offline_queue'[j].recipient = g_offline_queue[j].recipient
    BY <1>4, Zenon
  <2>3. g_messages'[g_offline_queue[i].message].deleted = g_messages[g_offline_queue[i].message].deleted
    BY <1>17, Zenon
  <2> QED
    BY <2>1, <2>2, <2>3
<1>13. Known'
  <2>1. \A i \in 1 .. n : g_offline_queue'[i].message <= l
    BY <1>0, <1>1, <1>3, <1>4, Zenon DEF Known
  <2>2. ASSUME NEW w \in Users, NEW i \in DOMAIN inbox'[w] PROVE inbox'[w][i].message <= l
    <3>1. CASE w # u
      BY <1>0, <1>1, <1>5, <2>2, <3>1, Zenon DEF Known
    <3>2. CASE w = u /\ i \in 1 .. len
      BY <1>0, <1>1, <1>5, <3>2, Zenon DEF Known
    <3>3. CASE w = u /\ i \in len + 1 .. len + c
      <4>1. PICK j \in Due(u) : inbox'[u][i].message = g_offline_queue[j].message
        BY <1>8, <3>3
      <4>2. j \in DOMAIN g_offline_queue
        BY DEF Due
      <4> QED
        BY <1>0, <1>1, <3>3, <4>1, <4>2, Zenon DEF Known
    <3> QED
      BY <1>5, <1>7, <2>2, <3>1, <3>2, <3>3
  <2>3. \A w \in Users : \A m \in owed'[w] : m <= l
    BY <1>0, <1>1, <1>10, Zenon DEF Known
  <2> QED
    BY <1>3, <2>1, <2>2, <2>3, Zenon DEF Known
<1>14. AbsentOnly'
  <2>1. \A i \in 1 .. n : ~g_offline_queue'[i].delivered => g_offline_queue'[i].recipient \notin online'
    BY <1>0, <1>3, <1>4, <1>10, Zenon DEF AbsentOnly
  <2> QED
    BY <1>3, <2>1, Zenon DEF AbsentOnly
<1>15. QueueAhead'
  <2>1. ASSUME NEW w \in Users, NEW i \in DOMAIN inbox'[w], NEW j \in Due(w)'
        PROVE  inbox'[w][i].message < g_offline_queue'[j].message
    <3>1. j \in Due(w) /\ j \in 1 .. n /\ inbox'[w] = inbox[w]
      BY <1>5, <1>9
    <3>2. i \in DOMAIN inbox[w] /\ g_offline_queue'[j].message = g_offline_queue[j].message
      BY <1>4, <2>1, <3>1, Zenon
    <3> QED
      BY <1>0, <3>1, <3>2, Zenon DEF QueueAhead
  <2> QED
    BY <2>1, Zenon DEF QueueAhead
<1>16. ArriveInOrder'
  <2>1. ASSUME NEW w \in Users, NEW i \in DOMAIN inbox'[w], NEW j \in DOMAIN inbox'[w], i < j
        PROVE  \/ inbox'[w][i].message < inbox'[w][j].message
               \/ /\ inbox'[w][i].message = inbox'[w][j].message
                  /\ g_messages'[inbox'[w][i].message].deleted
    <3>0. ASSUME NEW x \in DOMAIN inbox[w], NEW y \in DOMAIN inbox[w], x < y
          PROVE  \/ inbox[w][x].message < inbox[w][y].message
                 \/ /\ inbox[w][x].message = inbox[w][y].message
                    /\ g_messages'[inbox[w][x].message].deleted
      <4>1. \/ inbox[w][x].message < inbox[w][y].message
            \/ /\ inbox[w][x].message = inbox[w][y].message
               /\ g_messages[inbox[w][x].message].deleted
        BY <1>0, <3>0, Zenon DEF ArriveInOrder
      <4>2. g_messages'[inbox[w][x].message].deleted = g_messages[inbox[w][x].message].deleted
        BY <1>17, Zenon
      <4> QED
        BY <4>1, <4>2
    <3>1. CASE w # u
      <4>1. inbox'[w] = inbox[w]
        BY <1>5, <3>1
      <4> QED
        BY <2>1, <3>0, <4>1, Zenon
    <3>2. CASE w = u
      <4>1. i \in 1 .. len + c /\ j \in 1 .. len + c
        BY <1>5, <2>1, <3>2, Zenon
      <4>2. CASE j \in 1 .. len
        <5>1. i \in 1 .. len
          BY <1>7, <2>1, <4>1, <4>2
        <5>2. i \in DOMAIN inbox[w] /\ j \in DOMAIN inbox[w]
          BY <1>5, <3>2, <4>2, <5>1
        <5>3. inbox'[w][i] = inbox[w][i] /\ inbox'[w][j] = inbox[w][j]
          BY <1>5, <3>2, <4>2, <5>1, Zenon
        <5>4. \/ inbox[w][i].message < inbox[w][j].message
              \/ /\ inbox[w][i].message = inbox[w][j].message
                 /\ g_messages'[inbox[w][i].message].deleted
          BY <2>1, <3>0, <5>2, Zenon
        <5> QED
          BY <5>3, <5>4
      <4>3. CASE i \in 1 .. len /\ j \in len + 1 .. len + c
        <5>1. PICK k \in Due(u) : inbox'[u][j].message = g_offline_queue[k].message
          BY <1>8, <4>3
        <5>2. inbox[u][i].message < g_offline_queue[k].message
          BY <1>0, <1>5, <4>3, Zenon DEF QueueAhead
        <5> QED
          BY <1>5, <3>2, <4>3, <5>1, <5>2, Zenon
      <4>4. CASE i \in len + 1 .. len + c /\ j \in len + 1 .. len + c
        <5>1. PICK x, y : x = i - len /\ y = j - len
          OBVIOUS
        <5>2. x \in 1 .. c /\ y \in 1 .. c /\ x < y
          BY <1>7, <2>1, <4>4, <5>1, Zenon
        <5>3. inbox'[w][i].message = Kept(u)[x] /\ inbox'[w][j].message = Kept(u)[y]
          BY <1>5, <3>2, <4>4, <5>1, Zenon
        <5>4. \/ Kept(u)[x] < Kept(u)[y]
              \/ Kept(u)[x] = Kept(u)[y] /\ g_messages[Kept(u)[x]].deleted
          BY <1>6, <5>2, Zenon
        <5>5. g_messages'[Kept(u)[x]].deleted = g_messages[Kept(u)[x]].deleted
          <6>1. PICK k \in Due(u) : Kept(u)[x] = g_offline_queue[k].message
            BY <1>6, <5>2, Zenon
          <6>2. k \in 1 .. n
            BY <1>3 DEF Due
          <6> QED
            BY <1>17, <6>1, <6>2, Zenon
        <5> QED
          BY <5>3, <5>4, <5>5
      <4> QED
        BY <1>7, <4>1, <4>2, <4>3, <4>4, Zenon
    <3> QED
      BY <3>1, <3>2
  <2> QED
    BY <2>1, Zenon DEF ArriveInOrder
<1> QED
  BY <1>11, <1>12, <1>13, <1>14, <1>15, <1>16 DEF OrderInv

\* What waited for u has been received, or was too long to be sent.
LEMMA LoginLostForAReason ==
  ASSUME OrderInv, LostForAReason, NEW u \in Users, handle_login(u)
  PROVE  LostForAReason'
<1>0. TypeOK /\ Known
  BY DEF OrderInv
<1>1. PICK n, len, c : n = Len(g_offline_queue) /\ len = Len(inbox[u]) /\ c = Cardinality(Fitting(u))
  OBVIOUS
<1>2. Delivered(u) /\ Fetched(u, len, c)
  BY <1>0, <1>1, LoginDelivers, LoginFetches
<1>3. /\ n \in Nat /\ DOMAIN g_offline_queue = 1 .. n /\ DOMAIN g_offline_queue' = 1 .. n
      /\ Len(g_offline_queue') = Len(g_offline_queue) /\ DOMAIN g_messages = 1 .. Len(g_messages)
  BY <1>0, <1>1, <1>2 DEF TypeOK, Delivered
<1>4. /\ \A i \in 1 .. n : g_offline_queue'[i].message = g_offline_queue[i].message
      /\ \A m \in DOMAIN g_messages : /\ g_messages'[m].size = g_messages[m].size
                                       /\ g_messages'[m].beyond = g_messages[m].beyond
  BY <1>2, <1>3, Zenon DEF Delivered
<1>5. /\ len \in Nat /\ c \in Nat
      /\ DOMAIN inbox[u] = 1 .. len /\ DOMAIN inbox'[u] = 1 .. len + c
      /\ \A w \in Users \ {u} : inbox'[w] = inbox[w]
      /\ \A i \in 1 .. len : inbox'[u][i] = inbox[u][i]
      /\ \A i \in len + 1 .. len + c : inbox'[u][i].message = Kept(u)[i - len]
  <2>1. inbox[u] \in Seq(Arrival)
    BY <1>0 DEF TypeOK
  <2>2. /\ inbox'[u] \in Seq(Arrival) /\ Len(inbox'[u]) = len + c
        /\ len \in Nat /\ len = Len(inbox[u]) /\ c \in Nat
    BY <1>2 DEF Fetched
  <2>3. DOMAIN inbox[u] = 1 .. len /\ DOMAIN inbox'[u] = 1 .. len + c
    BY <2>1, <2>2
  <2> QED
    BY <1>2, <2>2, <2>3, Zenon DEF Fetched
<1>6. \A w \in Users : \A i : i \in Due(w)' <=> i \in Due(w) /\ w # u
  BY <1>0, <1>2, LoginDue
<1>7. SUFFICES ASSUME NEW w \in Users, NEW m \in owed[w]
               PROVE  \/ m \in Received(w)'
                      \/ \E i \in Due(w)' : g_offline_queue'[i].message = m
                      \/ g_messages'[m].size = "too_long" \/ w \in g_messages'[m].beyond
                      \/ /\ Len(g_offline_queue) = MaxOfflineQueue
                         /\ \A i \in 1 .. n : g_offline_queue'[i].message <= m
  <2>1. owed' = owed
    BY DEF handle_login
  <2> QED
    BY <1>3, <2>1, Zenon DEF LostForAReason
<1>8. \/ m \in Received(w)
      \/ \E i \in Due(w) : g_offline_queue[i].message = m
      \/ g_messages[m].size = "too_long" \/ w \in g_messages[m].beyond
      \/ /\ Len(g_offline_queue) = MaxOfflineQueue
         /\ \A i \in 1 .. n : g_offline_queue[i].message <= m
  BY <1>3, Zenon DEF LostForAReason
<1>9. m \in DOMAIN g_messages
  <2>1. m \in 1 .. MaxMessages /\ m <= Len(g_messages) /\ Len(g_messages) \in Nat
    BY <1>0 DEF TypeOK, Known
  <2> QED
    BY <1>3, <2>1
<1>10. CASE m \in Received(w)
  <2>1. PICK i \in DOMAIN inbox[w] : m = inbox[w][i].message
    BY <1>10 DEF Received
  <2>2. CASE w # u
    <3>1. inbox'[w] = inbox[w]
      BY <1>5, <2>2
    <3> QED
      BY <2>1, <3>1, Zenon DEF Received
  <2>3. CASE w = u
    <3>1. \A x \in 1 .. len : x \in 1 .. len + c
      BY <1>5
    <3>2. i \in DOMAIN inbox'[u] /\ inbox'[u][i] = inbox[u][i]
      BY <1>5, <2>1, <2>3, <3>1, Zenon
    <3> QED
      BY <2>1, <2>3, <3>2, Zenon DEF Received
  <2> QED
    BY <2>2, <2>3
<1>11. CASE \E i \in Due(w) : g_offline_queue[i].message = m
  <2>1. PICK i \in Due(w) : g_offline_queue[i].message = m
    BY <1>11
  <2>2. i \in 1 .. n
    BY <1>3, Zenon DEF Due
  <2>3. CASE w # u
    BY <1>4, <1>6, <2>1, <2>2, <2>3, Zenon
  <2>4. CASE w = u /\ i \in Fitting(u)
    <3>1. PICK k \in 1 .. c : Kept(u)[k] = m
      BY <1>1, <2>1, <2>4, KeptInOrder
    <3>2. PICK j : j = len + k
      OBVIOUS
    <3>3. j \in len + 1 .. len + c /\ j \in 1 .. len + c /\ j - len = k
      <4>1. len \in Nat /\ c \in Nat
        BY <1>5
      <4> QED
        BY <3>2, <4>1
    <3>4. j \in DOMAIN inbox'[u] /\ inbox'[u][j].message = m
      BY <1>5, <3>1, <3>3, Zenon
    <3> QED
      BY <2>4, <3>4, Zenon DEF Received
  <2>5. CASE w = u /\ i \notin Fitting(u)
    <3>1. g_messages[m].size # "fits"
      BY <2>1, <2>5 DEF Fitting
    <3>2. g_messages[m].size \in Sizes
      <4>1. g_messages[m] \in Message
        BY <1>0, <1>3, <1>9 DEF TypeOK
      <4> QED
        BY <4>1 DEF Message
    <3> QED
      BY <1>4, <1>9, <3>1, <3>2
  <2> QED
    BY <2>3, <2>4, <2>5
<1>12. CASE g_messages[m].size = "too_long" \/ w \in g_messages[m].beyond
  BY <1>4, <1>9, <1>12
<1>13. CASE /\ Len(g_offline_queue) = MaxOfflineQueue
            /\ \A i \in 1 .. n : g_offline_queue[i].message <= m
  BY <1>4, <1>13, Zenon
<1> QED
  BY <1>8, <1>10, <1>11, <1>12, <1>13

-----------------------------------------------------------------------------
(* The other steps, and all of them *)

\* Nobody comes online and nothing is sent or delivered.
LEMMA OthersKeep ==
  ASSUME MessagingInv, UNCHANGED <<g_messages, g_offline_queue, inbox, owed>>,
         online' \in SUBSET online, broken' \in SUBSET online',
         g_group_members' \in Seq(Member), Len(g_group_members') <= MaxGroupMembers, OneRecord'
  PROVE  MessagingInv'
<1>0. TypeOK /\ QueueOrdered /\ Known /\ QueueAhead /\ AbsentOnly /\ ArriveInOrder /\ LostForAReason
  BY DEF MessagingInv, OrderInv
<1>1. TypeOK'
  BY <1>0 DEF TypeOK
<1>2. QueueOrdered' /\ Known' /\ ArriveInOrder'
  BY <1>0 DEF QueueOrdered, Known, ArriveInOrder
<1>3. QueueAhead' /\ LostForAReason'
  BY <1>0 DEF QueueAhead, LostForAReason, Due, Received
<1>4. AbsentOnly'
  BY <1>0 DEF AbsentOnly
<1> QED
  BY <1>1, <1>2, <1>3, <1>4 DEF MessagingInv, OrderInv

\* A record more, for a user who has none in the group.
LEMMA AddKeeps ==
  ASSUME MessagingInv, NEW g \in Keys, NEW v \in Ids, add_group_member(g, v)
  PROVE  MessagingInv'
<1>0. TypeOK /\ OneRecord
  BY DEF MessagingInv, OrderInv
<1>1. PICK M, P, n, r : /\ M = g_group_members /\ P = g_group_members' /\ n = Len(M)
                        /\ r = [group |-> g, user |-> v]
  OBVIOUS
<1>2. M \in Seq(Member) /\ n < MaxGroupMembers /\ r \in Member /\ P = Append(M, r)
  BY <1>0, <1>1 DEF TypeOK, Member, add_group_member
<1>3. /\ P \in Seq(Member) /\ n \in Nat /\ Len(P) = n + 1 /\ Len(P) <= MaxGroupMembers
      /\ DOMAIN M = 1 .. n /\ DOMAIN P = 1 .. n + 1
      /\ P[n + 1] = r /\ \A i \in 1 .. n : P[i] = M[i]
  BY <1>1, <1>2
<1>4. \A i \in 1 .. n : ~(M[i].group = g /\ M[i].user = v)
  BY <1>1, <1>3 DEF add_group_member, is_group_member, RowsOf, Rows
<1>5. r.group = g /\ r.user = v
  BY <1>1
<1>6. \A i \in 1 .. n + 1 : i \in 1 .. n \/ i = n + 1
  BY <1>3
<1>7. OneIn(P)
  <2> SUFFICES ASSUME NEW h \in GroupIds, NEW i \in 1 .. n + 1, NEW j \in 1 .. n + 1,
                      P[i].group = h, P[j].group = h, P[i].user = P[j].user
               PROVE  i = j
    <3>1. DOMAIN P = 1 .. n + 1
      BY <1>3
    <3> QED
      BY <3>1, Zenon DEF OneIn
  <2>1. CASE i \in 1 .. n /\ j \in 1 .. n
    <3>1. M[i].group = h /\ M[j].group = h /\ M[i].user = M[j].user
      BY <1>3, <2>1
    <3>2. OneIn(M)
      BY <1>0, <1>1 DEF OneRecord
    <3> QED
      BY <1>3, <2>1, <3>1, <3>2, Zenon DEF OneIn
  <2>2. CASE i \in 1 .. n /\ j = n + 1
    BY <1>3, <1>4, <1>5, <2>2
  <2>3. CASE i = n + 1 /\ j \in 1 .. n
    BY <1>3, <1>4, <1>5, <2>3
  <2> QED
    BY <1>6, <2>1, <2>2, <2>3
<1>8. /\ UNCHANGED <<online, broken, g_messages, g_offline_queue, inbox, owed>>
      /\ online' \in SUBSET online /\ broken' \in SUBSET online'
  BY <1>0 DEF TypeOK, add_group_member
<1> QED
  BY <1>1, <1>3, <1>7, <1>8, OthersKeep DEF OneRecord

\* A record moves to the deleted ones.
LEMMA RemoveKeeps ==
  ASSUME MessagingInv, NEW g \in GroupIds, NEW v \in Ids, remove_group_member(g, v)
  PROVE  MessagingInv'
<1>0. TypeOK /\ OneRecord
  BY DEF MessagingInv, OrderInv
<1>1. PICK M, P, n, x : /\ M = g_group_members /\ P = g_group_members' /\ n = Len(M)
                        /\ x = First(RowsOf(g, v))
  OBVIOUS
<1>2. /\ M \in Seq(Member) /\ n \in Nat /\ DOMAIN M = 1 .. n /\ n <= MaxGroupMembers
      /\ \A i \in 1 .. n : M[i] \in Member
  BY <1>0, <1>1 DEF TypeOK
<1>3. P = [M EXCEPT ![x].group = NoGroup]
  BY <1>1 DEF remove_group_member
<1>4. /\ DOMAIN P = 1 .. n
      /\ \A i \in 1 .. n : P[i] = IF i = x THEN [M[i] EXCEPT !.group = NoGroup] ELSE M[i]
  BY <1>2, <1>3
<1>5. ASSUME NEW m \in Member
      PROVE  /\ [m EXCEPT !.group = NoGroup] \in Member
             /\ [m EXCEPT !.group = NoGroup].group = NoGroup
  BY DEF Member, Keys
<1>6. NoGroup \notin GroupIds
  BY DEF NoGroup
<1>7. P \in Seq(Member) /\ Len(P) <= MaxGroupMembers
  <2>1. \A i \in 1 .. n : P[i] \in Member
    BY <1>2, <1>4, <1>5, Zenon
  <2>2. P = [i \in 1 .. n |-> P[i]]
    BY <1>3, <1>4
  <2>3. P \in [1 .. n -> Member]
    BY <2>1, <2>2
  <2> QED
    BY <1>2, <2>3, FunctionIsSeq
<1>8. \A i \in 1 .. n : P[i].group \in GroupIds => P[i] = M[i]
  BY <1>2, <1>4, <1>5, <1>6, Zenon
<1>9. OneIn(P)
  <2> SUFFICES ASSUME NEW h \in GroupIds, NEW i \in 1 .. n, NEW j \in 1 .. n,
                      P[i].group = h, P[j].group = h, P[i].user = P[j].user
               PROVE  i = j
    BY <1>4, Zenon DEF OneIn
  <2>1. P[i] = M[i] /\ P[j] = M[j]
    BY <1>8
  <2>2. OneIn(M)
    BY <1>0, <1>1 DEF OneRecord
  <2> QED
    BY <1>2, <2>1, <2>2, Zenon DEF OneIn
<1>10. /\ UNCHANGED <<online, broken, g_messages, g_offline_queue, inbox, owed>>
       /\ online' \in SUBSET online /\ broken' \in SUBSET online'
  BY <1>0 DEF TypeOK, remove_group_member
<1> QED
  BY <1>1, <1>7, <1>9, <1>10, OthersKeep DEF OneRecord

LEMMA RestartKeeps ==
  ASSUME MessagingInv, server_init, Grown
  PROVE  MessagingInv'
<1>0. TypeOK /\ Known /\ ArriveInOrder
  BY DEF MessagingInv, OrderInv
<1>1. /\ online' = {} /\ broken' = {} /\ g_group_members' = <<>>
      /\ g_offline_queue' = <<>> /\ inbox' = inbox
      /\ owed' = [u \in Users |-> owed[u] \cap Received(u)]
  BY DEF server_init
<1>2. PICK l : l = Len(g_messages)
  OBVIOUS
<1>3. /\ l \in Nat /\ Len(g_messages') \in Nat /\ l <= Len(g_messages')
      /\ \A m \in 1 .. l : g_messages'[m] = g_messages[m]
      /\ g_messages' \in Seq(Message) /\ Len(g_messages') <= MaxMessages
  BY <1>2 DEF Grown
<1>4. \A u \in Users : \A i \in DOMAIN inbox[u] : inbox[u][i].message \in 1 .. l
  BY <1>0, <1>2, NumbersKnown
<1>5. (\A i : i \notin DOMAIN g_offline_queue') /\ (\A i : i \notin DOMAIN g_group_members')
  BY <1>1
<1>6. TypeOK'
  <2>1. owed' \in [Users -> SUBSET (1 .. MaxMessages)]
    BY <1>0, <1>1 DEF TypeOK
  <2>2. g_offline_queue' \in Seq(Entry) /\ Len(g_offline_queue') <= MaxOfflineQueue
    BY <1>1
  <2>3. g_group_members' \in Seq(Member) /\ Len(g_group_members') <= MaxGroupMembers
    BY <1>1
  <2> QED
    BY <1>0, <1>1, <1>3, <2>1, <2>2, <2>3 DEF TypeOK
<1>7. QueueOrdered' /\ AbsentOnly' /\ OneRecord'
  BY <1>5, Zenon DEF QueueOrdered, AbsentOnly, OneRecord, OneIn
<1>8. QueueAhead'
  BY <1>5, Zenon DEF QueueAhead, Due
<1>9. ArriveInOrder'
  <2> SUFFICES ASSUME NEW u \in Users, NEW i \in DOMAIN inbox[u], NEW j \in DOMAIN inbox[u], i < j
               PROVE  \/ inbox[u][i].message < inbox[u][j].message
                      \/ /\ inbox[u][i].message = inbox[u][j].message
                         /\ g_messages'[inbox[u][i].message].deleted
    BY <1>1 DEF ArriveInOrder
  <2>1. \/ inbox[u][i].message < inbox[u][j].message
        \/ /\ inbox[u][i].message = inbox[u][j].message
           /\ g_messages[inbox[u][i].message].deleted
    BY <1>0, Zenon DEF ArriveInOrder
  <2>2. g_messages'[inbox[u][i].message] = g_messages[inbox[u][i].message]
    BY <1>3, <1>4, Zenon
  <2> QED
    BY <2>1, <2>2
<1>10. Known'
  <2>1. \A u \in Users : \A m \in owed'[u] : m <= Len(g_messages')
    <3>1. \A u \in Users : \A m \in owed'[u] : m \in Nat /\ m <= l
      BY <1>0, <1>1, <1>2 DEF Known, TypeOK
    <3> QED
      BY <1>3, <3>1
  <2>2. \A u \in Users : \A i \in DOMAIN inbox'[u] : inbox'[u][i].message <= Len(g_messages')
    <3>1. \A m \in 1 .. l : m <= Len(g_messages')
      BY <1>3
    <3> QED
      BY <1>1, <1>4, <3>1, Zenon
  <2> QED
    BY <1>5, <2>1, <2>2, Zenon DEF Known
<1>11. LostForAReason'
  <2>1. \A u \in Users : \A m \in owed'[u] : m \in Received(u)'
    <3>1. \A u \in Users : Received(u)' = Received(u)
      BY <1>1 DEF Received
    <3> QED
      BY <1>1, <3>1
  <2> QED
    BY <2>1 DEF LostForAReason
<1> QED
  BY <1>6, <1>7, <1>8, <1>9, <1>10, <1>11 DEF MessagingInv, OrderInv

LEMMA NothingGrows ==
  ASSUME TypeOK, UNCHANGED g_messages
  PROVE  Grown
<1>1. Len(g_messages) \in Nat /\ g_messages \in Seq(Message) /\ Len(g_messages) <= MaxMessages
  BY DEF TypeOK
<1> QED
  BY <1>1 DEF Grown

LEMMA SendFacts ==
  ASSUME TypeOK, NEW O, NEW R, NEW ids, NEW size \in Sizes,
         NEW type \in {"CHAT_DELIVER", "GROUP_MSG_DELIVER"}, NEW d, NEW B,
         Sends(O, R, ids, size, type, d, B), Addressed(O, R, ids, d, B)
  PROVE  /\ Recorded(size, d, B) /\ HandedOver(R, size) /\ Enqueued(ids) /\ Owe(O)
         /\ Len(g_messages) < MaxMessages /\ UNCHANGED <<online, broken, g_group_members>>
<1>1. d \in BOOLEAN /\ B \in SUBSET Users /\ ids \in Seq(Ids)
  BY DEF Addressed
<1>2. /\ Len(g_messages) < MaxMessages /\ Queue(ids) /\ Owe(O)
      /\ UNCHANGED <<online, broken, g_group_members>>
  BY DEF Sends
<1>3. Recorded(size, d, B)
  BY <1>1, SendRecorded
<1>4. HandedOver(R, size)
  BY SendHandedOver
<1>5. Enqueued(ids)
  BY <1>1, <1>2, SendEnqueued
<1> QED
  BY <1>2, <1>3, <1>4, <1>5

LEMMA SendKeeps ==
  ASSUME MessagingInv, NEW O, NEW R, NEW ids, NEW size \in Sizes,
         NEW type \in {"CHAT_DELIVER", "GROUP_MSG_DELIVER"}, NEW d, NEW B,
         Sends(O, R, ids, size, type, d, B), Addressed(O, R, ids, d, B)
  PROVE  MessagingInv'
<1>1. OrderInv /\ TypeOK /\ LostForAReason
  BY DEF MessagingInv, OrderInv
<1>2. /\ Recorded(size, d, B) /\ HandedOver(R, size) /\ Enqueued(ids) /\ Owe(O)
      /\ UNCHANGED <<online, broken, g_group_members>>
  BY <1>1, SendFacts
<1>3. OrderInv'
  BY <1>1, <1>2, SendOrderInv
<1>4. LostForAReason'
  BY <1>1, <1>2, SendLostForAReason
<1> QED
  BY <1>3, <1>4 DEF MessagingInv

LEMMA InitMessaging == Init => MessagingInv
<1> SUFFICES ASSUME Init PROVE MessagingInv
  OBVIOUS
<1>1. TypeOK
  BY DEF Init, TypeOK
<1>2. /\ \A i : i \notin DOMAIN g_offline_queue
      /\ \A i : i \notin DOMAIN g_group_members
      /\ \A u \in Users : \A i : i \notin DOMAIN inbox[u]
      /\ \A u \in Users : owed[u] = {}
  BY DEF Init
<1> QED
  BY <1>1, <1>2, Zenon
     DEF MessagingInv, OrderInv, OneRecord, OneIn, QueueOrdered, Known, QueueAhead, AbsentOnly,
         ArriveInOrder, LostForAReason

LEMMA NextMessaging == MessagingInv /\ [Next]_vars => MessagingInv'
<1> SUFFICES ASSUME MessagingInv, [Next]_vars PROVE MessagingInv'
  OBVIOUS
<1>0. TypeOK /\ OneRecord
  BY DEF MessagingInv, OrderInv
<1>10. ASSUME UNCHANGED <<g_group_members, g_messages, g_offline_queue, inbox, owed>>,
             online' \in SUBSET online, broken' \in SUBSET online'
      PROVE  MessagingInv'
  <2>1. g_group_members' \in Seq(Member) /\ Len(g_group_members') <= MaxGroupMembers /\ OneRecord'
    BY <1>0, <1>10 DEF TypeOK, OneRecord
  <2> QED
    BY <1>10, <2>1, OthersKeep
<1>1. CASE UNCHANGED vars
  BY <1>0, <1>1, <1>10 DEF vars, TypeOK
<1>2. CASE restart
  <2>1. server_init /\ Grown
    BY <1>0, <1>2, NothingGrows DEF restart
  <2> QED
    BY <2>1, RestartKeeps
<1>3. ASSUME NEW u \in Users, handle_login(u) PROVE MessagingInv'
  BY <1>3, LoginOrderInv, LoginLostForAReason DEF MessagingInv
<1>4. ASSUME NEW u \in Users, disconnect_client(u) PROVE MessagingInv'
  BY <1>0, <1>4, <1>10 DEF disconnect_client, TypeOK
<1>5. ASSUME NEW u \in Users, Break(u) PROVE MessagingInv'
  BY <1>0, <1>5, <1>10 DEF Break, TypeOK
<1>6. ASSUME NEW u \in Users, NEW v \in Users, NEW size \in Sizes, handle_chat_send(u, v, size)
      PROVE  MessagingInv'
  <2>1. PICK O, R, ids, B : /\ Sends(O, R, ids, size, "CHAT_DELIVER", FALSE, B)
                            /\ Addressed(O, R, ids, FALSE, B)
    BY <1>0, <1>6, ChatSends
  <2> QED
    BY <2>1, SendKeeps
<1>7. ASSUME NEW u \in Users, NEW g \in Keys, NEW size \in Sizes,
             NEW here \in {online, online \cup {0}}, handle_group_message(u, g, size, here)
      PROVE  MessagingInv'
  <2>1. CASE \E O, R, ids, d, B : /\ Sends(O, R, ids, size, "GROUP_MSG_DELIVER", d, B)
                                  /\ Addressed(O, R, ids, d, B)
    BY <2>1, SendKeeps
  <2>2. CASE server_init /\ Grown
    BY <2>2, RestartKeeps
  <2> QED
    BY <1>0, <1>7, <2>1, <2>2, GroupSends
<1>8. ASSUME NEW g \in Keys, NEW v \in Ids, add_group_member(g, v) PROVE MessagingInv'
  BY <1>8, AddKeeps
<1>9. ASSUME NEW g \in GroupIds, NEW v \in Ids, remove_group_member(g, v) PROVE MessagingInv'
  BY <1>9, RemoveKeeps
<1> QED
  BY <1>1, <1>2, <1>3, <1>4, <1>5, <1>6, <1>7, <1>8, <1>9 DEF Next

LEMMA MessagingInvAlways == Spec => []MessagingInv
BY InitMessaging, NextMessaging, PTL DEF Spec

-----------------------------------------------------------------------------
(* Theorems *)

\* The tables, the inboxes and what is owed to whom keep their types: the three
\* tables never outgrow MAX_GROUP_MEMBERS, MAX_MESSAGES and MAX_OFFLINE_QUEUE.
THEOREM MessageTypes == Spec => []TypeOK
<1>1. MessagingInv => TypeOK
  BY DEF MessagingInv, OrderInv
<1> QED
  BY <1>1, MessagingInvAlways, PTL

\* Every client receives its messages in the order of sending and none twice but
\* those to deleted records, through the queue or directly and over any number of
\* logins, restarts, joins and removals.
THEOREM OnceAndInOrder == Spec => []ArriveInOrder
<1>1. MessagingInv => ArriveInOrder
  BY DEF MessagingInv, OrderInv
<1> QED
  BY <1>1, MessagingInvAlways, PTL

\* Nothing waits in the queue for a user who is online, and nothing but a message
\* to deleted records is queued twice for one user.
THEOREM QueueIsForAbsent == Spec => []QueueOnlyForAbsent
<1>1. MessagingInv => QueueOnlyForAbsent
  <2> SUFFICES ASSUME MessagingInv, NEW i \in DOMAIN g_offline_queue, NEW j \in DOMAIN g_offline_queue,
                      g_offline_queue[i].message = g_offline_queue[j].message,
                      g_offline_queue[i].recipient = g_offline_queue[j].recipient
               PROVE  i = j \/ g_messages[g_offline_queue[i].message].deleted
    BY DEF MessagingInv, OrderInv, AbsentOnly, QueueOnlyForAbsent
  <2>1. TypeOK /\ QueueOrdered
    BY DEF MessagingInv, OrderInv
  <2>2. i \in Nat /\ j \in Nat
    BY <2>1 DEF TypeOK
  <2>3. g_offline_queue[i].message \in Nat
    <3>1. g_offline_queue[i] \in Entry
      BY <2>1 DEF TypeOK
    <3> QED
      BY <3>1 DEF Entry
  <2>4. i < j \/ j < i => g_messages[g_offline_queue[i].message].deleted
    BY <2>1, <2>3 DEF QueueOrdered
  <2> QED
    BY <2>2, <2>4
<1> QED
  BY <1>1, MessagingInvAlways, PTL

\* An acknowledged message is received or waits, for every member of the group it
\* was sent to, unless its connection was broken, it is too long to be delivered,
\* the member is beyond the fan-out or the queue was full.
THEOREM NotLostWithoutReason == Spec => []LostForAReason
<1>1. MessagingInv => LostForAReason
  BY DEF MessagingInv
<1> QED
  BY <1>1, MessagingInvAlways, PTL

-----------------------------------------------------------------------------
(* Mailbox.  What is kept for a user is a function of the two tables, stated  *)
(* for any two tables, so that it can be compared between two states.         *)

FittingOf(Q, G, w) ==
  {i \in DOMAIN Q : Q[i].recipient = w /\ ~Q[i].delivered /\ G[Q[i].message].size = "fits"}

KeptOf(Q, G, w) ==
  [k \in 1 .. Cardinality(FittingOf(Q, G, w)) |-> Q[Nth(FittingOf(Q, G, w), k)].message]

KeptNow(w) == KeptOf(g_offline_queue, g_messages, w)
KeptThen(w) == KeptOf(g_offline_queue', g_messages', w)

LEMMA KeptIsOf ==
  ASSUME NEW w
  PROVE  /\ Fitting(w) = FittingOf(g_offline_queue, g_messages, w)
         /\ Kept(w) = KeptNow(w) /\ Kept(w)' = KeptThen(w)
<1>1. Fitting(w) = FittingOf(g_offline_queue, g_messages, w)
  BY DEF Fitting, Due, FittingOf
<1>2. Fitting(w)' = FittingOf(g_offline_queue', g_messages', w)
  BY DEF Fitting, Due, FittingOf
<1> QED
  BY <1>1, <1>2 DEF Kept, KeptOf, KeptNow, KeptThen

\* The same positions with the same messages: the same is kept.
LEMMA KeptSame ==
  ASSUME NEW Q, NEW G, NEW P, NEW H, NEW w,
         FittingOf(P, H, w) = FittingOf(Q, G, w),
         FittingOf(Q, G, w) \in SUBSET Nat, IsFiniteSet(FittingOf(Q, G, w)),
         \A i \in FittingOf(Q, G, w) : P[i].message = Q[i].message
  PROVE  KeptOf(P, H, w) = KeptOf(Q, G, w)
<1>1. PICK F, c : F = FittingOf(Q, G, w) /\ c = Cardinality(F)
  OBVIOUS
<1>2. F \in SUBSET Nat /\ IsFiniteSet(F) /\ F = FittingOf(P, H, w)
  BY <1>1
<1>3. \A k \in 1 .. c : Nth(F, k) \in F
  BY <1>1, <1>2, NthIsFound
<1>4. \A k \in 1 .. c : P[Nth(F, k)].message = Q[Nth(F, k)].message
  BY <1>1, <1>3
<1>5. /\ KeptOf(Q, G, w) = [k \in 1 .. c |-> Q[Nth(F, k)].message]
      /\ KeptOf(P, H, w) = [k \in 1 .. c |-> P[Nth(F, k)].message]
  BY <1>1, <1>2, Zenon DEF KeptOf
<1> QED
  BY <1>4, <1>5

Copies(m, e) == [k \in 1 .. e |-> m]

Joins(s, m, c, e) ==
  s \o Copies(m, e) = [k \in 1 .. c + e |-> IF k \in 1 .. c THEN s[k] ELSE m]

LEMMA JoinedTo ==
  ASSUME NEW T, NEW s \in Seq(T), NEW m \in T, NEW c, c = Len(s), NEW e \in Nat
  PROVE  Joins(s, m, c, e)
<1>1. PICK r : r = Copies(m, e)
  OBVIOUS
<1>2. r \in Seq(T) /\ Len(r) = e /\ \A k \in 1 .. e : r[k] = m
  <2>1. r = [k \in 1 .. e |-> m]
    BY <1>1 DEF Copies
  <2>2. r \in [1 .. e -> T]
    BY <2>1
  <2> QED
    BY <2>1, <2>2, FunctionIsSeq
<1>3. PICK z : z = s \o r
  OBVIOUS
<1>4. /\ s \o r \in Seq(T) /\ Len(s \o r) = Len(s) + Len(r)
      /\ \A i \in 1 .. Len(s) : (s \o r)[i] = s[i]
      /\ \A i \in Len(s) + 1 .. Len(s) + Len(r) : (s \o r)[i] = r[i - Len(s)]
  BY <1>2, Extended
<1>5. c \in Nat /\ z \in Seq(T) /\ Len(z) = c + e /\ \A k \in 1 .. c : z[k] = s[k]
  BY <1>2, <1>3, <1>4
<1>6. \A k \in c + 1 .. c + e : z[k] = m
  <2>1. \A k \in c + 1 .. c + e : z[k] = r[k - c]
    BY <1>2, <1>3, <1>4
  <2>2. \A k \in c + 1 .. c + e : k - c \in 1 .. e
    BY <1>5
  <2> QED
    BY <1>2, <2>1, <2>2
<1>7. z = [k \in 1 .. c + e |-> z[k]]
  BY <1>5
<1>8. \A k \in 1 .. c + e : k \in 1 .. c \/ (k \notin 1 .. c /\ k \in c + 1 .. c + e)
  BY <1>5
<1>9. \A k \in 1 .. c + e : z[k] = IF k \in 1 .. c THEN s[k] ELSE m
  BY <1>5, <1>6, <1>8, Zenon
<1> QED
  BY <1>1, <1>3, <1>7, <1>9, Zenon DEF Joins

MessageIds == 1 .. MaxMessages

\* More positions, behind the others, all of the message m: it is kept last.
MoreOf(Q, G, P, H, w, E, m) ==
  /\ FittingOf(P, H, w) = FittingOf(Q, G, w) \cup E
  /\ FittingOf(Q, G, w) \in SUBSET Nat /\ IsFiniteSet(FittingOf(Q, G, w))
  /\ E \in SUBSET Nat /\ IsFiniteSet(E)
  /\ \A i \in FittingOf(Q, G, w) : P[i].message = Q[i].message /\ \A j \in E : i < j
  /\ \A j \in E : P[j].message = m
  /\ KeptOf(Q, G, w) \in Seq(MessageIds) /\ m \in MessageIds

LEMMA KeptExtended ==
  ASSUME NEW Q, NEW G, NEW P, NEW H, NEW w, NEW E, NEW m, MoreOf(Q, G, P, H, w, E, m)
  PROVE  KeptOf(P, H, w) = KeptOf(Q, G, w) \o Copies(m, Cardinality(E))
<1>1. PICK F, c, e, s : /\ F = FittingOf(Q, G, w) /\ c = Cardinality(F)
                        /\ e = Cardinality(E) /\ s = KeptOf(Q, G, w)
  OBVIOUS
<1>2. /\ F \in SUBSET Nat /\ IsFiniteSet(F) /\ FittingOf(P, H, w) = F \cup E
      /\ E \in SUBSET Nat /\ IsFiniteSet(E) /\ \A i \in F : \A j \in E : i < j
  BY <1>1 DEF MoreOf
<1>3. PICK U : U = F \cup E
  OBVIOUS
<1>4. /\ c \in Nat /\ e \in Nat /\ Cardinality(U) = c + e
      /\ \A k \in 1 .. c : Nth(U, k) = Nth(F, k)
      /\ \A k \in c + 1 .. c + e : Nth(U, k) \in E
  <2>1. NthJoined(F, E, c, e)
    BY <1>1, <1>2, NthOfUnion
  <2> QED
    BY <1>3, <2>1, Zenon DEF NthJoined
<1>5. \A k \in 1 .. c : Nth(F, k) \in F
  BY <1>1, <1>2, NthIsFound
<1>6. \A k \in 1 .. c : P[Nth(F, k)].message = Q[Nth(F, k)].message
  BY <1>1, <1>5 DEF MoreOf
<1>7. s = [k \in 1 .. c |-> Q[Nth(F, k)].message]
  BY <1>1, Zenon DEF KeptOf
<1>8. KeptOf(P, H, w) = [k \in 1 .. c + e |-> P[Nth(U, k)].message]
  BY <1>2, <1>3, <1>4, Zenon DEF KeptOf
<1>9. \A k \in 1 .. c + e : k \in 1 .. c \/ (k \notin 1 .. c /\ k \in c + 1 .. c + e)
  BY <1>4
<1>10. \A k \in 1 .. c + e : P[Nth(U, k)].message = IF k \in 1 .. c THEN s[k] ELSE m
  <2> SUFFICES ASSUME NEW k \in 1 .. c + e
               PROVE  P[Nth(U, k)].message = IF k \in 1 .. c THEN s[k] ELSE m
    OBVIOUS
  <2>1. CASE k \in 1 .. c
    BY <1>4, <1>6, <1>7, <2>1, Zenon
  <2>2. CASE k \notin 1 .. c /\ k \in c + 1 .. c + e
    <3>1. P[Nth(U, k)].message = m
      BY <1>4, <2>2, Zenon DEF MoreOf
    <3> QED
      BY <2>2, <3>1
  <2> QED
    BY <1>9, <2>1, <2>2
<1>11. KeptOf(P, H, w) = [k \in 1 .. c + e |-> IF k \in 1 .. c THEN s[k] ELSE m]
  BY <1>8, <1>10, Zenon
<1>12. s \in Seq(MessageIds) /\ m \in MessageIds
  BY <1>1, Zenon DEF MoreOf
<1>13. Len(s) = c
  <2>1. DOMAIN s = 1 .. c
    BY <1>7
  <2>2. DOMAIN s = 1 .. Len(s) /\ Len(s) \in Nat
    BY <1>12
  <2> QED
    BY <1>4, <2>1, <2>2
<1>14. s \o Copies(m, e) = [k \in 1 .. c + e |-> IF k \in 1 .. c THEN s[k] ELSE m]
  <2>1. c = Len(s)
    BY <1>13
  <2>2. Joins(s, m, c, e)
    BY <1>4, <1>12, <2>1, JoinedTo
  <2> QED
    BY <2>2, Zenon DEF Joins
<1> QED
  BY <1>1, <1>11, <1>14, Zenon

\* What the two tables keep is, for each user, positions of the queue and numbers
\* of messages.
LEMMA KeptPositions ==
  ASSUME OrderInv, NEW w \in Users, NEW n, n = Len(g_offline_queue),
         NEW F, F = FittingOf(g_offline_queue, g_messages, w)
  PROVE  /\ n \in Nat /\ DOMAIN g_offline_queue = 1 .. n
         /\ F \in SUBSET Nat /\ IsFiniteSet(F) /\ F \subseteq 1 .. n /\ F = Fitting(w)
         /\ KeptNow(w) = Kept(w) /\ KeptNow(w) \in Seq(1 .. MaxMessages)
<1>1. n \in Nat /\ DOMAIN g_offline_queue = 1 .. n
  BY DEF OrderInv, TypeOK
<1>2. F = Fitting(w) /\ KeptNow(w) = Kept(w)
  BY KeptIsOf
<1>3. F \subseteq 1 .. n
  BY <1>1, Zenon DEF FittingOf
<1>4. IsFiniteSet(1 .. n)
  BY <1>1, FS_Interval
<1>5. IsFiniteSet(F)
  BY <1>3, <1>4, FS_Subset
<1>6. F \in SUBSET Nat
  BY <1>3
<1>7. Kept(w) \in Seq(1 .. MaxMessages)
  BY KeptInOrder
<1> QED
  BY <1>1, <1>2, <1>3, <1>5, <1>6, <1>7

BoxNow == [w \in Users |-> KeptNow(w)]
GotNow == [w \in Users |-> Numbers(inbox[w])]
BoxThen == [w \in Users |-> KeptThen(w)]
GotThen == [w \in Users |-> Numbers(inbox'[w])]

\* What an inbox with one more message, or with several, amounts to.
LEMMA NumbersAppended ==
  ASSUME NEW s \in Seq(Arrival), NEW t \in Seq(Arrival), Len(t) = Len(s) + 1,
         \A i \in 1 .. Len(s) : t[i] = s[i]
  PROVE  Numbers(t) = Append(Numbers(s), t[Len(s) + 1].message)
<1>1. PICK n : n = Len(s)
  OBVIOUS
<1>2. n \in Nat /\ DOMAIN s = 1 .. n /\ DOMAIN t = 1 .. n + 1
  BY <1>1
<1>3. PICK x, y : x = Numbers(s) /\ y = Numbers(t)
  OBVIOUS
<1>4. x = [i \in 1 .. n |-> s[i].message] /\ y = [i \in 1 .. n + 1 |-> t[i].message]
  BY <1>2, <1>3, Zenon DEF Numbers
<1>5. \A a \in Arrival : a.message \in 1 .. MaxMessages
  BY DEF Arrival
<1>6. \A i \in 1 .. n : s[i] \in Arrival
  BY <1>1
<1>7. x \in Seq(1 .. MaxMessages) /\ Len(x) = n
  <2>1. \A i \in 1 .. n : s[i].message \in 1 .. MaxMessages
    BY <1>5, <1>6, Zenon
  <2>2. x \in [1 .. n -> 1 .. MaxMessages]
    BY <1>4, <2>1
  <2> QED
    BY <1>2, <2>2, FunctionIsSeq
<1>8. t[n + 1].message \in 1 .. MaxMessages
  <2>1. t[n + 1] \in Arrival
    BY <1>1
  <2> QED
    BY <1>5, <2>1
<1>9. PICK m : m = t[n + 1].message
  OBVIOUS
<1>10. Append(x, m) = [i \in 1 .. n + 1 |-> IF i = n + 1 THEN m ELSE x[i]]
  BY <1>7, <1>8, <1>9
<1>11. \A i \in 1 .. n + 1 : i = n + 1 \/ (i \in 1 .. n /\ i # n + 1)
  BY <1>2
<1>12. \A i \in 1 .. n + 1 : t[i].message = IF i = n + 1 THEN m ELSE x[i]
  <2> SUFFICES ASSUME NEW i \in 1 .. n + 1 PROVE t[i].message = IF i = n + 1 THEN m ELSE x[i]
    OBVIOUS
  <2>1. CASE i = n + 1
    BY <1>9, <2>1
  <2>2. CASE i \in 1 .. n /\ i # n + 1
    <3>1. t[i] = s[i] /\ x[i] = s[i].message
      BY <1>1, <1>4, <2>2
    <3> QED
      BY <2>2, <3>1, Zenon
  <2> QED
    BY <1>11, <2>1, <2>2
<1>13. y = Append(x, m)
  BY <1>4, <1>10, <1>12, Zenon
<1> QED
  BY <1>1, <1>3, <1>9, <1>13, Zenon

Continues(s, t, kept, n, c) ==
  /\ s \in Seq(Arrival) /\ t \in Seq(Arrival) /\ kept \in Seq(MessageIds)
  /\ n = Len(s) /\ c = Len(kept) /\ Len(t) = n + c
  /\ \A i \in 1 .. n : t[i] = s[i]
  /\ \A i \in n + 1 .. n + c : t[i].message = kept[i - n]

LEMMA NumbersJoined ==
  ASSUME NEW s, NEW t, NEW kept, NEW n, NEW c, Continues(s, t, kept, n, c)
  PROVE  Numbers(t) = Numbers(s) \o kept
<1>0. kept \in Seq(1 .. MaxMessages) /\ Len(kept) = c
  BY DEF MessageIds, Continues
<1>1. /\ s \in Seq(Arrival) /\ t \in Seq(Arrival) /\ n = Len(s) /\ Len(t) = n + c
      /\ \A i \in 1 .. n : t[i] = s[i]
      /\ \A i \in n + 1 .. n + c : t[i].message = kept[i - n]
  BY DEF Continues
<1>2. n \in Nat /\ c \in Nat /\ DOMAIN s = 1 .. n /\ DOMAIN t = 1 .. n + c
  BY <1>0, <1>1
<1>3. PICK x, y : x = Numbers(s) /\ y = Numbers(t)
  OBVIOUS
<1>4. x = [i \in 1 .. n |-> s[i].message] /\ y = [i \in 1 .. n + c |-> t[i].message]
  BY <1>2, <1>3, Zenon DEF Numbers
<1>5. \A a \in Arrival : a.message \in 1 .. MaxMessages
  BY DEF Arrival
<1>6. \A i \in 1 .. n : s[i] \in Arrival
  BY <1>1
<1>7. x \in Seq(1 .. MaxMessages) /\ Len(x) = n
  <2>1. \A i \in 1 .. n : s[i].message \in 1 .. MaxMessages
    BY <1>5, <1>6, Zenon
  <2>2. x \in [1 .. n -> 1 .. MaxMessages]
    BY <1>4, <2>1
  <2> QED
    BY <1>2, <2>2, FunctionIsSeq
<1>8. PICK z : z = x \o kept
  OBVIOUS
<1>9. \A i \in 1 .. n + c : (i \in 1 .. n /\ i <= n) \/ (i \in n + 1 .. n + c /\ ~(i <= n))
  BY <1>2
<1>10. /\ z = [i \in 1 .. n + c |-> z[i]]
       /\ \A i \in 1 .. n : z[i] = x[i]
       /\ \A i \in n + 1 .. n + c : z[i] = kept[i - n]
  <2>0. PICK T : T = 1 .. MaxMessages
    OBVIOUS
  <2>1. /\ x \o kept \in Seq(T) /\ Len(x \o kept) = Len(x) + Len(kept)
        /\ \A i \in 1 .. Len(x) : (x \o kept)[i] = x[i]
        /\ \A i \in Len(x) + 1 .. Len(x) + Len(kept) : (x \o kept)[i] = kept[i - Len(x)]
    <3>1. x \in Seq(T) /\ kept \in Seq(T)
      BY <1>0, <1>7, <2>0
    <3> QED
      BY <3>1, Extended
  <2>2. z \in Seq(T) /\ Len(z) = n + c
    BY <1>0, <1>7, <1>8, <2>1
  <2>3. \A i \in 1 .. n : z[i] = x[i]
    BY <1>7, <1>8, <2>1
  <2>4. \A i \in n + 1 .. n + c : z[i] = kept[i - n]
    BY <1>0, <1>7, <1>8, <2>1
  <2>5. z = [i \in 1 .. n + c |-> z[i]]
    BY <1>2, <2>2
  <2> QED
    BY <2>3, <2>4, <2>5
<1>11. \A i \in 1 .. n + c : t[i].message = z[i]
  <2> SUFFICES ASSUME NEW i \in 1 .. n + c PROVE t[i].message = z[i]
    OBVIOUS
  <2>1. CASE i \in 1 .. n
    <3>1. t[i] = s[i] /\ x[i] = s[i].message
      BY <1>1, <1>4, <2>1
    <3> QED
      BY <1>10, <2>1, <3>1, Zenon
  <2>2. CASE i \in n + 1 .. n + c
    <3>1. t[i].message = kept[i - n]
      BY <1>1, <2>2
    <3> QED
      BY <1>10, <2>2, <3>1, Zenon
  <2> QED
    BY <1>9, <2>1, <2>2
<1>12. y = z
  BY <1>4, <1>10, <1>11, Zenon
<1> QED
  BY <1>3, <1>8, <1>12, Zenon

LEMMA KeptMapped ==
  /\ [u \in Users |-> Kept(u)] = BoxNow
  /\ [u \in Users |-> Kept(u)]' = BoxThen
  /\ [u \in Users |-> Numbers(inbox[u])] = GotNow
  /\ [u \in Users |-> Numbers(inbox[u])]' = GotThen
<1>1. \A u : Kept(u) = KeptNow(u) /\ Kept(u)' = KeptThen(u)
  BY KeptIsOf
<1>2. [u \in Users |-> Kept(u)] = BoxNow
  BY <1>1, Zenon DEF BoxNow
<1>3. [u \in Users |-> Kept(u)]' = BoxThen
  BY <1>1, Zenon DEF BoxThen
<1> QED
  BY <1>2, <1>3 DEF GotNow, GotThen, Numbers

\* Sending: those in reach receive the message, those with new entries keep it as
\* often.
NewFor(n, N, w, size) ==
  {i \in n + 1 .. N : size = "fits" /\ g_offline_queue'[i].recipient = w}

LEMMA FewUpTo ==
  ASSUME NEW N \in Nat, NEW S \in SUBSET (1 .. N)
  PROVE  S \in SUBSET Nat /\ IsFiniteSet(S) /\ Cardinality(S) \in 0 .. N
<1>1. IsFiniteSet(1 .. N) /\ Cardinality(1 .. N) = N
  BY FS_Interval
<1>2. IsFiniteSet(S) /\ Cardinality(S) <= N
  <2>1. PICK U : U = 1 .. N
    OBVIOUS
  <2>2. IsFiniteSet(U) /\ S \in SUBSET U /\ Cardinality(U) = N
    BY <1>1, <2>1
  <2>3. IsFiniteSet(S) /\ Cardinality(S) <= Cardinality(U)
    BY <2>2, FS_Subset
  <2> QED
    BY <2>2, <2>3
<1>3. Cardinality(S) \in Nat
  BY <1>2, FS_CardinalityType
<1> QED
  BY <1>2, <1>3

KeptMore(w, m, c) == c \in 0 .. MaxOfflineQueue /\ KeptThen(w) = KeptNow(w) \o Copies(m, c)

LEMMA SendBox ==
  ASSUME OrderInv, NEW ids, NEW size \in Sizes, NEW d, NEW B, Recorded(size, d, B), Enqueued(ids),
         NEW n, n = Len(g_offline_queue), NEW N, N = Len(g_offline_queue'), NEW w \in Users,
         NEW E, E = NewFor(n, N, w, size)
  PROVE  KeptMore(w, Len(g_messages) + 1, Cardinality(E))
<1>0. TypeOK /\ Known
  BY DEF OrderInv
<1>1. PICK Q, G, P, H : /\ Q = g_offline_queue /\ G = g_messages
                        /\ P = g_offline_queue' /\ H = g_messages'
  OBVIOUS
<1>2. PICK l, F : l = Len(G) /\ F = FittingOf(Q, G, w)
  OBVIOUS
<1>3. /\ n \in Nat /\ DOMAIN Q = 1 .. n /\ F \in SUBSET Nat /\ IsFiniteSet(F) /\ F \subseteq 1 .. n
      /\ KeptNow(w) = KeptOf(Q, G, w) /\ KeptOf(Q, G, w) \in Seq(1 .. MaxMessages)
      /\ KeptThen(w) = KeptOf(P, H, w)
  <2>1. F = FittingOf(g_offline_queue, g_messages, w)
    BY <1>1, <1>2
  <2> QED
    BY <1>1, <2>1, KeptPositions DEF KeptNow, KeptThen
<1>4. /\ N \in Nat /\ n <= N /\ N <= MaxOfflineQueue /\ DOMAIN P = 1 .. N
      /\ \A i \in 1 .. n : P[i] = Q[i]
      /\ \A i \in n + 1 .. N : P[i].message = l + 1 /\ P[i].delivered = FALSE
  BY <1>1, <1>2 DEF Enqueued
<1>5. /\ l \in Nat /\ l < MaxMessages /\ H[l + 1].size = size
      /\ \A m \in 1 .. l : H[m] = G[m]
  BY <1>1, <1>2 DEF Recorded, Grown
<1>6. \A i \in 1 .. n : Q[i].message \in 1 .. l
  BY <1>0, <1>1, <1>2, NumbersKnown
<1>7. /\ \A i : i \in FittingOf(P, H, w) <=>
           i \in 1 .. N /\ P[i].recipient = w /\ ~P[i].delivered /\ H[P[i].message].size = "fits"
      /\ \A i : i \in F <=>
           i \in 1 .. n /\ Q[i].recipient = w /\ ~Q[i].delivered /\ G[Q[i].message].size = "fits"
  BY <1>2, <1>3, <1>4, Zenon DEF FittingOf
<1>8. /\ \A i \in 1 .. N : i \in 1 .. n \/ i \in n + 1 .. N
      /\ \A i \in 1 .. n : i \in 1 .. N
      /\ \A i \in n + 1 .. N : i \in 1 .. N /\ i \in Nat /\ \A j \in 1 .. n : j < i
  BY <1>3, <1>4
<1>9. \A i \in 1 .. n : i \in FittingOf(P, H, w) <=> i \in F
  <2> SUFFICES ASSUME NEW i \in 1 .. n PROVE i \in FittingOf(P, H, w) <=> i \in F
    OBVIOUS
  <2>1. i \in 1 .. N /\ P[i] = Q[i] /\ H[Q[i].message] = G[Q[i].message]
    BY <1>4, <1>5, <1>6, <1>8, Zenon
  <2>2. H[P[i].message].size = G[Q[i].message].size
    BY <2>1
  <2> QED
    BY <1>7, <2>1, <2>2, Zenon
<1>10. \A i \in n + 1 .. N : i \in FittingOf(P, H, w) <=> P[i].recipient = w /\ size = "fits"
  <2> SUFFICES ASSUME NEW i \in n + 1 .. N
               PROVE  i \in FittingOf(P, H, w) <=> P[i].recipient = w /\ size = "fits"
    OBVIOUS
  <2>1. i \in 1 .. N /\ P[i].message = l + 1 /\ ~P[i].delivered
    BY <1>4, <1>8
  <2>2. H[P[i].message].size = size
    BY <1>5, <2>1
  <2> QED
    BY <1>7, <2>1, <2>2, Zenon
<1>11. \A i \in FittingOf(P, H, w) : i \in 1 .. n \/ i \in n + 1 .. N
  BY <1>7, <1>8
<1>12. \A i : i \in E <=> i \in n + 1 .. N /\ size = "fits" /\ P[i].recipient = w
  BY <1>1, Zenon DEF NewFor
<1>13. E \in SUBSET Nat /\ IsFiniteSet(E) /\ Cardinality(E) \in 0 .. MaxOfflineQueue
  <2>1. N \in Nat /\ N <= MaxOfflineQueue
    BY <1>4
  <2>2. \A i \in E : i \in 1 .. N
    BY <1>8, <1>12, Zenon
  <2>3. E \in SUBSET (1 .. N)
    BY <2>2
  <2>4. E \in SUBSET Nat /\ IsFiniteSet(E) /\ Cardinality(E) \in 0 .. N
    BY <2>1, <2>3, FewUpTo
  <2> QED
    BY <2>1, <2>4
<1>14. FittingOf(P, H, w) = F \cup E
  <2>1. \A x : x \in FittingOf(P, H, w) => x \in F \/ x \in E
    BY <1>9, <1>10, <1>11, <1>12, Zenon
  <2>2. \A x : x \in F \/ x \in E => x \in FittingOf(P, H, w)
    BY <1>7, <1>9, <1>10, <1>12, Zenon
  <2> QED
    BY <2>1, <2>2
<1>15. /\ \A x \in F : P[x].message = Q[x].message /\ \A j \in E : x < j
       /\ \A j \in E : P[j].message = l + 1
  <2>1. \A x \in F : x \in 1 .. n
    BY <1>7
  <2>2. \A j \in E : j \in n + 1 .. N
    BY <1>12
  <2> QED
    BY <1>4, <1>8, <2>1, <2>2, Zenon
<1>16. KeptOf(Q, G, w) \in Seq(MessageIds) /\ l + 1 \in MessageIds
  <2>1. l + 1 \in 1 .. MaxMessages
    BY <1>5
  <2> QED
    BY <1>3, <2>1, Zenon DEF MessageIds
<1>17. MoreOf(Q, G, P, H, w, E, l + 1)
  BY <1>2, <1>3, <1>13, <1>14, <1>15, <1>16, Zenon DEF MoreOf
<1>18. KeptOf(P, H, w) = KeptOf(Q, G, w) \o Copies(l + 1, Cardinality(E))
  BY <1>17, KeptExtended
<1> QED
  BY <1>1, <1>2, <1>3, <1>13, <1>18, Zenon DEF KeptMore

LEMMA SendGot ==
  ASSUME OrderInv, NEW R, NEW size \in Sizes, HandedOver(R, size), NEW w \in Users
  PROVE  Numbers(inbox'[w]) = IF w \in R \ broken /\ size = "fits"
                              THEN Append(Numbers(inbox[w]), Len(g_messages) + 1) ELSE Numbers(inbox[w])
<1>1. PICK s, t : s = inbox[w] /\ t = inbox'[w]
  OBVIOUS
<1>2. s \in Seq(Arrival) /\ t \in Seq(Arrival)
  BY <1>1 DEF OrderInv, TypeOK, HandedOver
<1>3. CASE w \in R \ broken /\ size = "fits"
  <2>1. /\ Len(t) = Len(s) + 1 /\ \A i \in 1 .. Len(s) : t[i] = s[i]
        /\ t[Len(s) + 1].message = Len(g_messages) + 1
    BY <1>1, <1>3 DEF HandedOver
  <2>2. Numbers(t) = Append(Numbers(s), t[Len(s) + 1].message)
    BY <1>2, <2>1, NumbersAppended
  <2> QED
    BY <1>1, <1>3, <2>1, <2>2, Zenon
<1>4. CASE ~(w \in R \ broken /\ size = "fits")
  <2>1. t = s
    BY <1>1, <1>4 DEF HandedOver
  <2> QED
    BY <1>1, <1>4, <2>1, Zenon
<1> QED
  BY <1>3, <1>4

LEMMA SendPosts ==
  ASSUME MessagingInv, NEW O, NEW R, NEW ids, NEW size \in Sizes,
         NEW type \in {"CHAT_DELIVER", "GROUP_MSG_DELIVER"}, NEW d, NEW B,
         Sends(O, R, ids, size, type, d, B), Addressed(O, R, ids, d, B)
  PROVE  Promise!Next
<1>1. OrderInv /\ TypeOK
  BY DEF MessagingInv, OrderInv
<1>2. /\ Recorded(size, d, B) /\ HandedOver(R, size) /\ Enqueued(ids)
      /\ Len(g_messages) < MaxMessages /\ online' = online
  BY <1>1, SendFacts
<1>3. PICK n, N, m : n = Len(g_offline_queue) /\ N = Len(g_offline_queue') /\ m = Len(g_messages) + 1
  OBVIOUS
<1>4. PICK reached : reached = {w \in Users : size = "fits" /\ w \in R \ broken}
  OBVIOUS
<1>5. PICK new : new = [w \in Users |-> Cardinality(NewFor(n, N, w, size))]
  OBVIOUS
<1>6. \A w \in Users : /\ new[w] \in 0 .. MaxOfflineQueue
                       /\ KeptThen(w) = KeptNow(w) \o Copies(m, new[w])
  <2> SUFFICES ASSUME NEW w \in Users
               PROVE  new[w] \in 0 .. MaxOfflineQueue /\ KeptThen(w) = KeptNow(w) \o Copies(m, new[w])
    OBVIOUS
  <2>1. PICK E : E = NewFor(n, N, w, size)
    OBVIOUS
  <2>2. KeptMore(w, m, Cardinality(E))
    BY <1>1, <1>2, <1>3, <2>1, SendBox
  <2>3. new[w] = Cardinality(E)
    BY <1>5, <2>1
  <2> QED
    BY <2>2, <2>3, Zenon DEF KeptMore
<1>7. ASSUME NEW w \in Users, w \in online PROVE KeptThen(w) = KeptNow(w)
  <2>1. \A i \in n + 1 .. N : i - n \in DOMAIN ids /\ g_offline_queue'[i].recipient = ids[i - n]
    BY <1>2, <1>3 DEF Enqueued
  <2>2. \A i \in n + 1 .. N : g_offline_queue'[i].recipient \notin online
    BY <2>1, Zenon DEF Addressed
  <2>3. NewFor(n, N, w, size) = {}
    BY <1>7, <2>2 DEF NewFor
  <2>4. new[w] = 0
    BY <1>5, <2>3, FS_EmptySet
  <2>5. Copies(m, 0) = <<>>
    BY DEF Copies
  <2>6. KeptNow(w) \in Seq(MessageIds)
    BY <1>1, KeptPositions DEF MessageIds
  <2>7. KeptNow(w) \o <<>> = KeptNow(w)
    BY <2>6
  <2> QED
    BY <1>6, <2>4, <2>5, <2>7
<1>8. \A w \in Users : Numbers(inbox'[w]) =
        IF w \in reached THEN Append(Numbers(inbox[w]), m) ELSE Numbers(inbox[w])
  BY <1>1, <1>2, <1>3, <1>4, SendGot
<1>9. PICK copies : copies = [w \in Users |-> IF w \in online THEN (IF w \in reached THEN 1 ELSE 0) ELSE new[w]]
  OBVIOUS
<1>10. copies \in [Users -> 0 .. MaxOfflineQueue]
  BY <1>6, <1>9
<1>11. \A w \in Users : w \in online /\ copies[w] > 0 <=> w \in reached
  <2>1. reached \subseteq online
    BY <1>4 DEF Addressed
  <2> QED
    BY <1>9, <2>1
<1>12. GotThen = [w \in Users |-> IF w \in online /\ copies[w] > 0 THEN Append(GotNow[w], m) ELSE GotNow[w]]
  BY <1>8, <1>11, Zenon DEF GotNow, GotThen
<1>13. BoxThen = [w \in Users |->
                    IF w \in online THEN BoxNow[w] ELSE BoxNow[w] \o [k \in 1 .. copies[w] |-> m]]
  <2>1. \A w \in Users : KeptThen(w) = IF w \in online THEN KeptNow(w) ELSE KeptNow(w) \o Copies(m, copies[w])
    BY <1>6, <1>7, <1>9
  <2> QED
    BY <2>1, Zenon DEF BoxNow, BoxThen, Copies
<1>14. NewId = m /\ NewId <= MaxMessages /\ NewId' = NewId + 1
  BY <1>1, <1>2, <1>3 DEF NewId, Recorded, Grown, TypeOK
<1>15. Promise!Post(copies)
  BY <1>2, <1>12, <1>13, <1>14, KeptMapped, Zenon DEF Promise!Post
<1> QED
  BY <1>10, <1>15, Zenon DEF Promise!Next

\* Logging in: what was kept for u arrives and nothing is kept any longer.
LEMMA LoginArrives ==
  ASSUME MessagingInv, NEW u \in Users, handle_login(u)
  PROVE  Promise!Next
<1>1. OrderInv /\ TypeOK
  BY DEF MessagingInv, OrderInv
<1>2. PICK len, c : len = Len(inbox[u]) /\ c = Cardinality(Fitting(u))
  OBVIOUS
<1>3. Delivered(u) /\ Fetched(u, len, c)
  BY <1>1, <1>2, LoginDelivers, LoginFetches
<1>4. PICK Q, G, P, H : /\ Q = g_offline_queue /\ G = g_messages
                        /\ P = g_offline_queue' /\ H = g_messages'
  OBVIOUS
<1>5. /\ DOMAIN P = DOMAIN Q
      /\ \A i \in DOMAIN Q : /\ P[i].message = Q[i].message /\ P[i].recipient = Q[i].recipient
                             /\ ~P[i].delivered <=> ~Q[i].delivered /\ Q[i].recipient # u
                             /\ H[Q[i].message].size = G[Q[i].message].size
  <2>1. \A i \in DOMAIN Q : Q[i].message \in DOMAIN G
    <3>1. \A i \in DOMAIN Q : Q[i] \in Entry /\ Q[i].message <= Len(G)
      BY <1>1, <1>4 DEF OrderInv, TypeOK, Known
    <3>2. \A e \in Entry : e.message \in Nat \ {0}
      BY DEF Entry
    <3>3. DOMAIN G = 1 .. Len(G) /\ Len(G) \in Nat
      BY <1>1, <1>4 DEF TypeOK
    <3> QED
      BY <3>1, <3>2, <3>3
  <2>2. DOMAIN P = DOMAIN Q
    BY <1>1, <1>3, <1>4 DEF Delivered, TypeOK
  <2> QED
    BY <1>3, <1>4, <2>1, <2>2, Zenon DEF Delivered
<1>6. /\ \A w, i : i \in FittingOf(P, H, w) <=>
           i \in DOMAIN Q /\ P[i].recipient = w /\ ~P[i].delivered /\ H[P[i].message].size = "fits"
      /\ \A w, i : i \in FittingOf(Q, G, w) <=>
           i \in DOMAIN Q /\ Q[i].recipient = w /\ ~Q[i].delivered /\ G[Q[i].message].size = "fits"
  BY <1>5, Zenon DEF FittingOf
<1>7. \A w, i : i \in FittingOf(P, H, w) <=> i \in FittingOf(Q, G, w) /\ w # u
  <2> SUFFICES ASSUME NEW w, NEW i
               PROVE  i \in FittingOf(P, H, w) <=> i \in FittingOf(Q, G, w) /\ w # u
    OBVIOUS
  <2>1. CASE i \in DOMAIN Q
    <3>1. /\ P[i].recipient = Q[i].recipient
          /\ ~P[i].delivered <=> ~Q[i].delivered /\ Q[i].recipient # u
      BY <1>5, <2>1, Zenon
    <3>2. H[P[i].message].size = G[Q[i].message].size
      BY <1>5, <2>1
    <3> QED
      BY <1>6, <2>1, <3>1, <3>2
  <2>2. CASE i \notin DOMAIN Q
    BY <1>6, <2>2, Zenon
  <2> QED
    BY <2>1, <2>2
<1>8. ASSUME NEW w \in Users \ {u} PROVE KeptThen(w) = KeptNow(w)
  <2>1. PICK F : F = FittingOf(Q, G, w)
    OBVIOUS
  <2>2. F \in SUBSET Nat /\ IsFiniteSet(F)
    BY <1>1, <1>4, <2>1, KeptPositions
  <2>3. FittingOf(P, H, w) = F
    <3>1. \A i : i \in FittingOf(P, H, w) <=> i \in F
      BY <1>7, <2>1
    <3> QED
      BY <3>1
  <2>4. \A i \in F : P[i].message = Q[i].message
    BY <1>5, <1>6, <2>1, Zenon
  <2>5. KeptOf(P, H, w) = KeptOf(Q, G, w)
    BY <2>1, <2>2, <2>3, <2>4, KeptSame
  <2> QED
    BY <1>4, <2>5 DEF KeptThen, KeptNow
<1>9. KeptThen(u) = <<>>
  <2>1. FittingOf(P, H, u) = {}
    BY <1>7
  <2>2. Cardinality({}) = 0
    BY FS_EmptySet
  <2>3. KeptOf(P, H, u) = [k \in 1 .. 0 |-> P[Nth({}, k)].message]
    BY <2>1, <2>2, Zenon DEF KeptOf
  <2>4. KeptOf(P, H, u) = <<>>
    BY <2>3
  <2> QED
    BY <1>4, <2>4 DEF KeptThen
<1>10. Numbers(inbox'[u]) = Numbers(inbox[u]) \o KeptNow(u)
  <2>1. PICK s, t, kept : s = inbox[u] /\ t = inbox'[u] /\ kept = Kept(u)
    OBVIOUS
  <2>2. kept \in Seq(MessageIds) /\ c = Len(kept) /\ kept = KeptNow(u)
    BY <1>1, <1>2, <2>1, KeptInOrder, KeptIsOf DEF MessageIds
  <2>3. Continues(s, t, kept, len, c)
    <3>1. /\ s \in Seq(Arrival) /\ t \in Seq(Arrival) /\ len = Len(s)
      BY <1>1, <1>2, <1>3, <2>1 DEF Fetched, TypeOK
    <3>2. /\ Len(t) = len + c /\ \A i \in 1 .. len : t[i] = s[i]
          /\ \A i \in len + 1 .. len + c : t[i].message = kept[i - len]
      BY <1>3, <2>1, Zenon DEF Fetched
    <3> QED
      BY <2>2, <3>1, <3>2, Zenon DEF Continues
  <2>4. Numbers(t) = Numbers(s) \o kept
    BY <2>3, NumbersJoined
  <2> QED
    BY <2>1, <2>2, <2>4, Zenon
<1>11. \A w \in Users \ {u} : inbox'[w] = inbox[w]
  BY <1>3 DEF Fetched
<1>12. BoxThen = [BoxNow EXCEPT ![u] = <<>>]
  BY <1>8, <1>9 DEF BoxNow, BoxThen
<1>13. GotThen = [GotNow EXCEPT ![u] = GotNow[u] \o BoxNow[u]]
  BY <1>10, <1>11, Zenon DEF GotNow, GotThen, BoxNow
<1>14. NewId' = NewId /\ online' = online \cup {u}
  BY <1>3 DEF NewId, Delivered, handle_login
<1>15. Promise!Arrive(u)
  BY <1>12, <1>13, <1>14, KeptMapped, Zenon DEF Promise!Arrive
<1> QED
  BY <1>15, Zenon DEF Promise!Next

\* The tables and the inboxes stay: so does what is kept and what was received.
LEMMA TablesStay ==
  ASSUME UNCHANGED <<g_messages, g_offline_queue, inbox>>
  PROVE  NewId' = NewId /\ BoxThen = BoxNow /\ GotThen = GotNow
BY DEF NewId, BoxThen, BoxNow, KeptThen, KeptNow, GotThen, GotNow

LEMMA RestartRestarts ==
  ASSUME server_init, Grown
  PROVE  Promise!Next
<1>1. /\ NewId' \in {NewId, NewId + 1} /\ online' = {} /\ GotThen = GotNow
  <2>1. PICK l, k : l = Len(g_messages) /\ k = Len(g_messages')
    OBVIOUS
  <2>2. l \in Nat /\ k \in Nat /\ l <= k /\ k <= l + 1
    BY <2>1 DEF Grown
  <2>3. NewId = l + 1 /\ NewId' = k + 1
    BY <2>1 DEF NewId
  <2>4. k = l \/ k = l + 1
    BY <2>2
  <2>5. online' = {} /\ GotThen = GotNow
    BY DEF server_init, GotThen, GotNow
  <2> QED
    BY <2>3, <2>4, <2>5
<1>2. BoxThen = [w \in Users |-> <<>>]
  <2>1. PICK P, H : P = g_offline_queue' /\ H = g_messages'
    OBVIOUS
  <2>2. P = <<>>
    BY <2>1 DEF server_init
  <2>3. \A w : FittingOf(P, H, w) = {}
    BY <2>2 DEF FittingOf
  <2>4. Cardinality({}) = 0
    BY FS_EmptySet
  <2>5. \A w : KeptOf(P, H, w) = [k \in 1 .. 0 |-> P[Nth({}, k)].message]
    BY <2>3, <2>4, Zenon DEF KeptOf
  <2>6. \A w : KeptOf(P, H, w) = <<>>
    BY <2>5
  <2> QED
    BY <2>1, <2>6, Zenon DEF BoxThen, KeptThen
<1>3. Promise!Restart
  BY <1>1, <1>2, KeptMapped, Zenon DEF Promise!Restart
<1> QED
  BY <1>3, Zenon DEF Promise!Next

LEMMA InitMailbox == Init => Promise!Init
<1> SUFFICES ASSUME Init PROVE Promise!Init
  OBVIOUS
<1>1. NewId = 1 /\ online = {}
  BY DEF Init, NewId
<1>2. BoxNow = [w \in Users |-> <<>>]
  <2>1. PICK Q, G : Q = g_offline_queue /\ G = g_messages
    OBVIOUS
  <2>2. Q = <<>>
    BY <2>1 DEF Init
  <2>3. \A w : FittingOf(Q, G, w) = {}
    BY <2>2 DEF FittingOf
  <2>4. Cardinality({}) = 0
    BY FS_EmptySet
  <2>5. \A w : KeptOf(Q, G, w) = [k \in 1 .. 0 |-> Q[Nth({}, k)].message]
    BY <2>3, <2>4, Zenon DEF KeptOf
  <2>6. \A w : KeptOf(Q, G, w) = <<>>
    BY <2>5
  <2> QED
    BY <2>1, <2>6, Zenon DEF BoxNow, KeptNow
<1>3. GotNow = [w \in Users |-> <<>>]
  <2>1. Numbers(<<>>) = <<>>
    BY DEF Numbers
  <2> QED
    BY <2>1 DEF Init, GotNow
<1> QED
  BY <1>1, <1>2, <1>3, KeptMapped, Zenon DEF Promise!Init

Mapped == <<NewId, online, [u \in Users |-> Kept(u)], [u \in Users |-> Numbers(inbox[u])]>>

LEMMA NextMailbox == MessagingInv /\ [Next]_vars => [Promise!Next]_Mapped
<1> SUFFICES ASSUME MessagingInv, [Next]_vars PROVE Promise!Next \/ UNCHANGED Mapped
  OBVIOUS
<1>1. ASSUME UNCHANGED <<g_messages, g_offline_queue, inbox>>, UNCHANGED online
      PROVE  UNCHANGED Mapped
  BY <1>1, TablesStay, KeptMapped, Zenon DEF Mapped
<1>2. CASE UNCHANGED vars
  BY <1>1, <1>2 DEF vars
<1>3. CASE restart
  <2>1. TypeOK
    BY DEF MessagingInv, OrderInv
  <2>2. server_init /\ Grown
    BY <1>3, <2>1, NothingGrows DEF restart
  <2> QED
    BY <2>2, RestartRestarts
<1>4. ASSUME NEW u \in Users, handle_login(u) PROVE Promise!Next
  BY <1>4, LoginArrives
<1>5. ASSUME NEW u \in Users, disconnect_client(u) PROVE Promise!Next
  <2>1. /\ NewId' = NewId /\ BoxThen = BoxNow /\ GotThen = GotNow /\ online' = online \ {u}
    BY <1>5, TablesStay DEF disconnect_client
  <2>2. Promise!Depart(u)
    BY <2>1, KeptMapped, Zenon DEF Promise!Depart
  <2> QED
    BY <2>2, Zenon DEF Promise!Next
<1>6. ASSUME NEW u \in Users, Break(u) PROVE UNCHANGED Mapped
  BY <1>1, <1>6 DEF Break
<1>7. ASSUME NEW u \in Users, NEW v \in Users, NEW size \in Sizes, handle_chat_send(u, v, size)
      PROVE  Promise!Next
  <2>1. TypeOK
    BY DEF MessagingInv, OrderInv
  <2>2. PICK O, R, ids, B : /\ Sends(O, R, ids, size, "CHAT_DELIVER", FALSE, B)
                            /\ Addressed(O, R, ids, FALSE, B)
    BY <1>7, <2>1, ChatSends
  <2> QED
    BY <2>2, SendPosts
<1>8. ASSUME NEW u \in Users, NEW g \in Keys, NEW size \in Sizes,
             NEW here \in {online, online \cup {0}}, handle_group_message(u, g, size, here)
      PROVE  Promise!Next
  <2>1. TypeOK /\ OneRecord
    BY DEF MessagingInv, OrderInv
  <2>2. CASE \E O, R, ids, d, B : /\ Sends(O, R, ids, size, "GROUP_MSG_DELIVER", d, B)
                                  /\ Addressed(O, R, ids, d, B)
    BY <2>2, SendPosts
  <2>3. CASE server_init /\ Grown
    BY <2>3, RestartRestarts
  <2> QED
    BY <1>8, <2>1, <2>2, <2>3, GroupSends
<1>9. ASSUME NEW g \in Keys, NEW v \in Ids, add_group_member(g, v) PROVE UNCHANGED Mapped
  BY <1>1, <1>9 DEF add_group_member
<1>10. ASSUME NEW g \in GroupIds, NEW v \in Ids, remove_group_member(g, v) PROVE UNCHANGED Mapped
  BY <1>1, <1>10 DEF remove_group_member
<1> QED
  BY <1>2, <1>3, <1>4, <1>5, <1>6, <1>7, <1>8, <1>9, <1>10 DEF Next

\* Every step of the handlers on the tables and the inboxes is a step of Mailbox,
\* or none: what is entered in the queue is delivered as often as it was entered,
\* what is handed over arrives once, and all of it in the order of sending.
THEOREM TablesImplementMailbox == Spec => ImplementsMailbox
<1>1. MessagingInv /\ [Next]_vars => [Promise!Next]_(Promise!vars)
  BY NextMailbox DEF Mapped, Promise!vars
<1> QED
  BY <1>1, InitMailbox, MessagingInvAlways, PTL DEF Spec, ImplementsMailbox, Promise!Spec

=============================================================================
