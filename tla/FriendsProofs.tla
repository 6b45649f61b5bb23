--------------------------- MODULE FriendsProofs ---------------------------
(***************************************************************************)
(* Theorems about Friends, for every number of users and records: one live *)
(* record per pair, friendship by consent, every request announced, and    *)
(* the refinement of FriendGraph.                                          *)
(***************************************************************************)
EXTENDS Friends, FiniteSetTheorems, TLAPS

USE FriendsAssumption

\* No record joins a user to itself.
NoSelf == \A i \in DOMAIN g_friendships : g_friendships[i].user # g_friendships[i].friend

\* Who asked still wants it, as long as the record lives; a friend who accepted
\* does too.  With one record per pair, nothing else between two users can take
\* a wish back without touching their record.
Consent ==
  \A i \in DOMAIN g_friendships :
    Live(i) =>
      /\ <<g_friendships[i].user, g_friendships[i].friend>> \in wants
      /\ g_friendships[i].status = "accepted"
           => <<g_friendships[i].friend, g_friendships[i].user>> \in wants

FriendInv == TypeOK /\ OneRecordPerPair /\ NoSelf /\ Consent

-----------------------------------------------------------------------------
(* Searches.  With one live record per pair, the first record found is the  *)
(* only one, so that the order of the table does not matter.                *)

LEMMA TableIsFunction ==
  ASSUME TypeOK
  PROVE  /\ Len(g_friendships) \in Nat
         /\ DOMAIN g_friendships = 1 .. Len(g_friendships)
         /\ g_friendships \in [1 .. Len(g_friendships) -> Record]
         /\ \A i \in DOMAIN g_friendships : g_friendships[i] \in Record
BY DEF TypeOK

\* The first of a set of one number is that number.
LEMMA FirstOfOne ==
  ASSUME NEW S \in SUBSET Int, NEW x \in S, \A i, j \in S : i = j
  PROVE  First(S) = x
<1>1. x \in S /\ \A j \in S : x <= j
  OBVIOUS
<1>2. First(S) \in S
  BY <1>1 DEF First
<1> QED
  BY <1>2

LEMMA SamePair ==
  ASSUME NEW a, NEW b, NEW c, NEW d, {a, b} = {c, d}
  PROVE  (a = c /\ b = d) \/ (a = d /\ b = c)
<1>1. a \in {c, d} /\ b \in {c, d} /\ c \in {a, b} /\ d \in {a, b}
  BY Zenon
<1> QED
  BY <1>1

LEMMA BetweenFound ==
  ASSUME TypeOK, OneRecordPerPair, NEW u \in Users, NEW v \in Users, NEW k \in Between(u, v)
  PROVE  First(Between(u, v)) = k
<1>1. Between(u, v) \subseteq Int /\ k \in Between(u, v)
  BY TableIsFunction DEF Between
<1>2. \A i, j \in Between(u, v) : i = j
  BY DEF Between, From, OneRecordPerPair
<1> QED
  BY <1>1, <1>2, FirstOfOne

LEMMA DirectedFound ==
  ASSUME TypeOK, OneRecordPerPair, NEW u \in Users, NEW v \in Users, NEW k \in Directed(u, v)
  PROVE  First(Directed(u, v)) = k
<1>1. Directed(u, v) \subseteq Int /\ k \in Directed(u, v)
  BY TableIsFunction DEF Directed
<1>2. \A i, j \in Directed(u, v) : i = j
  BY DEF Directed, From, OneRecordPerPair
<1> QED
  BY <1>1, <1>2, FirstOfOne

-----------------------------------------------------------------------------
(* The two ways in which handlers change the table *)

\* A new record between two users who share none.
LEMMA Asked ==
  ASSUME FriendInv, NEW u \in Users, NEW v \in Users, u # v, Between(u, v) = {}, ~TableFull,
         g_friendships' = Append(g_friendships, [user |-> u, friend |-> v, status |-> "pending"])
  PROVE  /\ g_friendships' \in Seq(Record) /\ Len(g_friendships') <= MaxFriendships
         /\ DOMAIN g_friendships' = DOMAIN g_friendships \cup {Len(g_friendships) + 1}
         /\ Len(g_friendships) + 1 \notin DOMAIN g_friendships
         /\ \A i \in DOMAIN g_friendships : g_friendships'[i] = g_friendships[i]
         /\ g_friendships'[Len(g_friendships) + 1] = [user |-> u, friend |-> v, status |-> "pending"]
         /\ OneRecordPerPair' /\ NoSelf'
<1> DEFINE n == Len(g_friendships) + 1
           r == [user |-> u, friend |-> v, status |-> "pending"]
<1>0. TypeOK
  BY DEF FriendInv
<1>1. r \in Record
  BY DEF Record
<1>2. g_friendships \in Seq(Record) /\ Len(g_friendships) < MaxFriendships
  BY <1>0, TableIsFunction DEF TableFull, TypeOK
<1>3. /\ g_friendships' \in Seq(Record) /\ Len(g_friendships') = n
      /\ DOMAIN g_friendships = 1 .. Len(g_friendships) /\ DOMAIN g_friendships' = 1 .. n
      /\ g_friendships'[n] = r
      /\ \A i \in DOMAIN g_friendships : g_friendships'[i] = g_friendships[i]
  BY <1>1, <1>2
<1>4. DOMAIN g_friendships' = DOMAIN g_friendships \cup {n} /\ n \notin DOMAIN g_friendships
  BY <1>2, <1>3
<1>5. OneRecordPerPair'
  <2>1. \A i \in DOMAIN g_friendships :
          Live(i) => {g_friendships[i].user, g_friendships[i].friend} # {u, v}
    BY SamePair DEF Between, From
  <2>2. ASSUME NEW i \in DOMAIN g_friendships', NEW j \in DOMAIN g_friendships',
               Live(i)', Live(j)',
               {g_friendships'[i].user, g_friendships'[i].friend}
                 = {g_friendships'[j].user, g_friendships'[j].friend}
        PROVE  i = j
    <3>1. CASE i # n /\ j # n
      BY <1>3, <1>4, <2>2, <3>1 DEF FriendInv, OneRecordPerPair, Live
    <3>0. g_friendships'[n].user = u /\ g_friendships'[n].friend = v
      BY <1>3
    <3>2. CASE i = n /\ j # n
      <4>1. j \in DOMAIN g_friendships /\ g_friendships'[j] = g_friendships[j] /\ Live(j)
        BY <1>3, <1>4, <2>2, <3>2 DEF Live
      <4>2. {g_friendships[j].user, g_friendships[j].friend} = {u, v}
        BY <2>2, <3>0, <3>2, <4>1
      <4> QED
        BY <2>1, <4>1, <4>2
    <3>3. CASE i # n /\ j = n
      <4>1. i \in DOMAIN g_friendships /\ g_friendships'[i] = g_friendships[i] /\ Live(i)
        BY <1>3, <1>4, <2>2, <3>3 DEF Live
      <4>2. {g_friendships[i].user, g_friendships[i].friend} = {u, v}
        BY <2>2, <3>0, <3>3, <4>1
      <4> QED
        BY <2>1, <4>1, <4>2
    <3> QED
      BY <3>1, <3>2, <3>3
  <2> QED
    BY <2>2 DEF OneRecordPerPair
<1>6. NoSelf'
  BY <1>3, <1>4 DEF FriendInv, NoSelf
<1> QED
  BY <1>2, <1>3, <1>4, <1>5, <1>6

\* A new status of a live record.
LEMMA Restated ==
  ASSUME FriendInv, NEW k \in DOMAIN g_friendships, Live(k),
         NEW s \in {"accepted", "rejected", Deleted}, SetStatus(k, s)
  PROVE  /\ g_friendships' \in Seq(Record) /\ Len(g_friendships') = Len(g_friendships)
         /\ DOMAIN g_friendships' = DOMAIN g_friendships
         /\ \A i \in DOMAIN g_friendships :
              /\ g_friendships'[i].user = g_friendships[i].user
              /\ g_friendships'[i].friend = g_friendships[i].friend
              /\ g_friendships'[i].status = IF i = k THEN s ELSE g_friendships[i].status
         /\ OneRecordPerPair' /\ NoSelf'
<1>0. TypeOK
  BY DEF FriendInv
<1>1. g_friendships \in Seq(Record) /\ DOMAIN g_friendships = 1 .. Len(g_friendships)
  BY <1>0, TableIsFunction DEF TypeOK
<1>2. g_friendships' = [g_friendships EXCEPT ![k].status = s]
  BY DEF SetStatus
<1>3. g_friendships[k] \in Record /\ [g_friendships[k] EXCEPT !.status = s] \in Record
  BY <1>0, TableIsFunction DEF Record
<1>4. g_friendships' \in Seq(Record) /\ Len(g_friendships') = Len(g_friendships)
  BY <1>1, <1>2, <1>3
<1>5. DOMAIN g_friendships' = DOMAIN g_friendships
  BY <1>1, <1>4
<1>6. \A i \in DOMAIN g_friendships :
        g_friendships'[i] = IF i = k THEN [g_friendships[k] EXCEPT !.status = s]
                                     ELSE g_friendships[i]
  BY <1>2
<1>7. \A i \in DOMAIN g_friendships :
        /\ g_friendships'[i].user = g_friendships[i].user
        /\ g_friendships'[i].friend = g_friendships[i].friend
        /\ g_friendships'[i].status = IF i = k THEN s ELSE g_friendships[i].status
  BY <1>3, <1>6 DEF Record
<1>8. \A i \in DOMAIN g_friendships : Live(i)' => Live(i)
  BY <1>5, <1>7 DEF Live
<1>9. OneRecordPerPair'
  BY <1>5, <1>7, <1>8 DEF FriendInv, OneRecordPerPair
<1>10. NoSelf'
  BY <1>5, <1>7 DEF FriendInv, NoSelf
<1> QED
  BY <1>4, <1>5, <1>7, <1>9, <1>10


-----------------------------------------------------------------------------
(* The invariant *)

LEMMA InitFriendInv == Init => FriendInv
BY DEF Init, FriendInv, TypeOK, OneRecordPerPair, NoSelf, Consent, Record

LEMMA RequestFriendInv ==
  ASSUME FriendInv, NEW u \in Users, NEW v \in Users, handle_friend_request(u, v)
  PROVE  FriendInv'
<1> DEFINE n == Len(g_friendships) + 1
<1>0. TypeOK
  BY DEF FriendInv
<1>1. /\ g_friendships' \in Seq(Record) /\ Len(g_friendships') <= MaxFriendships
      /\ DOMAIN g_friendships' = DOMAIN g_friendships \cup {n}
      /\ \A i \in DOMAIN g_friendships : g_friendships'[i] = g_friendships[i]
      /\ g_friendships'[n] = [user |-> u, friend |-> v, status |-> "pending"]
      /\ OneRecordPerPair' /\ NoSelf'
  BY Asked DEF handle_friend_request
<1>2. wants' = wants \cup {<<u, v>>}
  BY DEF handle_friend_request
<1>3. TypeOK'
  BY <1>0, <1>1, <1>2 DEF TypeOK, handle_friend_request
<1>4. Consent'
  <2>1. ASSUME NEW i \in DOMAIN g_friendships', Live(i)', i # n
        PROVE  i \in DOMAIN g_friendships /\ Live(i) /\ g_friendships'[i] = g_friendships[i]
    BY <1>1, <2>1 DEF Live
  <2>2. /\ g_friendships'[n].user = u /\ g_friendships'[n].friend = v
        /\ g_friendships'[n].status = "pending"
    BY <1>1
  <2> QED
    BY <1>1, <1>2, <2>1, <2>2 DEF FriendInv, Consent
<1> QED
  BY <1>1, <1>3, <1>4 DEF FriendInv

LEMMA AcceptFriendInv ==
  ASSUME FriendInv, NEW u \in Users, NEW v \in Users, handle_friend_accept(u, v)
  PROVE  FriendInv'
<1>0. TypeOK /\ OneRecordPerPair
  BY DEF FriendInv
<1>1. PICK k \in Directed(v, u) : TRUE
  BY DEF handle_friend_accept
<1>2. First(Directed(v, u)) = k
  BY <1>0, DirectedFound
<1>3. k \in DOMAIN g_friendships /\ Live(k) /\ g_friendships[k].user = v /\ g_friendships[k].friend = u
  BY <1>1 DEF Directed, From
<1>4. SetStatus(k, "accepted") /\ wants' = wants \cup {<<u, v>>}
  BY <1>2 DEF handle_friend_accept
<1>5. /\ g_friendships' \in Seq(Record) /\ Len(g_friendships') = Len(g_friendships)
      /\ DOMAIN g_friendships' = DOMAIN g_friendships
      /\ \A i \in DOMAIN g_friendships :
           /\ g_friendships'[i].user = g_friendships[i].user
           /\ g_friendships'[i].friend = g_friendships[i].friend
           /\ g_friendships'[i].status = IF i = k THEN "accepted" ELSE g_friendships[i].status
      /\ OneRecordPerPair' /\ NoSelf'
  BY <1>3, <1>4, Restated
<1>6. TypeOK'
  BY <1>0, <1>4, <1>5 DEF TypeOK, handle_friend_accept
<1>7. Consent'
  BY <1>3, <1>4, <1>5 DEF FriendInv, Consent, Live
<1> QED
  BY <1>5, <1>6, <1>7 DEF FriendInv

\* Rejecting takes back a wish of the one who is asked; no other record between
\* the two can need it.
LEMMA RejectFriendInv ==
  ASSUME FriendInv, NEW u \in Users, NEW v \in Users, handle_friend_reject(u, v)
  PROVE  FriendInv'
<1>0. TypeOK /\ OneRecordPerPair
  BY DEF FriendInv
<1>1. PICK k \in Directed(v, u) : TRUE
  BY DEF handle_friend_reject
<1>2. First(Directed(v, u)) = k
  BY <1>0, DirectedFound
<1>3. k \in DOMAIN g_friendships /\ Live(k) /\ g_friendships[k].user = v /\ g_friendships[k].friend = u
  BY <1>1 DEF Directed, From
<1>4. SetStatus(k, "rejected") /\ wants' = wants \ {<<u, v>>}
  BY <1>2 DEF handle_friend_reject
<1>5. /\ g_friendships' \in Seq(Record) /\ Len(g_friendships') = Len(g_friendships)
      /\ DOMAIN g_friendships' = DOMAIN g_friendships
      /\ \A i \in DOMAIN g_friendships :
           /\ g_friendships'[i].user = g_friendships[i].user
           /\ g_friendships'[i].friend = g_friendships[i].friend
           /\ g_friendships'[i].status = IF i = k THEN "rejected" ELSE g_friendships[i].status
      /\ OneRecordPerPair' /\ NoSelf'
  BY <1>3, <1>4, Restated
<1>6. TypeOK'
  BY <1>0, <1>4, <1>5 DEF TypeOK, handle_friend_reject
<1>7. Consent'
  <2>1. u # v
    BY <1>3 DEF FriendInv, NoSelf
  <2>2. ASSUME NEW i \in DOMAIN g_friendships, Live(i), i # k
        PROVE  {g_friendships[i].user, g_friendships[i].friend} # {u, v}
    BY <1>0, <1>3, <2>2 DEF OneRecordPerPair
  <2> QED
    BY <1>3, <1>4, <1>5, <2>1, <2>2 DEF FriendInv, Consent, Live
<1> QED
  BY <1>5, <1>6, <1>7 DEF FriendInv

LEMMA RemoveFriendInv ==
  ASSUME FriendInv, NEW u \in Users, NEW v \in Users, handle_friend_remove(u, v)
  PROVE  FriendInv'
<1>0. TypeOK /\ OneRecordPerPair
  BY DEF FriendInv
<1>1. PICK k \in Between(u, v) : TRUE
  BY DEF handle_friend_remove
<1>2. First(Between(u, v)) = k
  BY <1>0, BetweenFound
<1>3. /\ k \in DOMAIN g_friendships /\ Live(k)
      /\ {g_friendships[k].user, g_friendships[k].friend} = {u, v}
  BY <1>1 DEF Between, From
<1>4. SetStatus(k, Deleted) /\ wants' = wants \ {<<u, v>>, <<v, u>>}
  BY <1>2 DEF handle_friend_remove
<1>5. /\ g_friendships' \in Seq(Record) /\ Len(g_friendships') = Len(g_friendships)
      /\ DOMAIN g_friendships' = DOMAIN g_friendships
      /\ \A i \in DOMAIN g_friendships :
           /\ g_friendships'[i].user = g_friendships[i].user
           /\ g_friendships'[i].friend = g_friendships[i].friend
           /\ g_friendships'[i].status = IF i = k THEN Deleted ELSE g_friendships[i].status
      /\ OneRecordPerPair' /\ NoSelf'
  BY <1>3, <1>4, Restated
<1>6. TypeOK'
  BY <1>0, <1>4, <1>5 DEF TypeOK, handle_friend_remove
<1>7. Consent'
  <2>1. ASSUME NEW i \in DOMAIN g_friendships, Live(i), i # k
        PROVE  {g_friendships[i].user, g_friendships[i].friend} # {u, v}
    BY <1>0, <1>3, <2>1 DEF OneRecordPerPair
  <2>2. ~Live(k)'
    BY <1>3, <1>5 DEF Live
  <2> QED
    BY <1>4, <1>5, <2>1, <2>2 DEF FriendInv, Consent, Live
<1> QED
  BY <1>5, <1>6, <1>7 DEF FriendInv

\* Logins and logouts leave the table and the wishes alone.
LEMMA PresenceFriendInv ==
  ASSUME FriendInv, UNCHANGED <<g_friendships, wants>>, TypeOK'
  PROVE  FriendInv'
BY DEF FriendInv, OneRecordPerPair, NoSelf, Consent, Live

LEMMA NextFriendInv == FriendInv /\ [Next]_vars => FriendInv'
<1> SUFFICES ASSUME FriendInv, [Next]_vars PROVE FriendInv'
  OBVIOUS
<1>0. TypeOK
  BY DEF FriendInv
<1>1. CASE UNCHANGED vars
  BY <1>0, <1>1, PresenceFriendInv DEF vars, TypeOK
<1>2. ASSUME NEW u \in Users, Login(u) PROVE FriendInv'
  <2>1. Announced(u) \subseteq Users
    BY <1>0, TableIsFunction DEF Announced, PendingTo, Record
  <2>2. TypeOK'
    BY <1>0, <1>2, <2>1 DEF Login, TypeOK
  <2> QED
    BY <1>2, <2>2, PresenceFriendInv DEF Login
<1>3. ASSUME NEW u \in Users, Logout(u) PROVE FriendInv'
  <2>1. TypeOK'
    BY <1>0, <1>3 DEF Logout, TypeOK
  <2> QED
    BY <1>3, <2>1, PresenceFriendInv DEF Logout
<1> QED
  BY <1>1, <1>2, <1>3, RequestFriendInv, AcceptFriendInv, RejectFriendInv, RemoveFriendInv DEF Next

-----------------------------------------------------------------------------
(* The theorems *)

LEMMA FriendInvAlways == Spec => []FriendInv
BY InitFriendInv, NextFriendInv, PTL DEF Spec

\* The table never has two live records between two users, for any number of
\* users and records (find_friendship's linear searches, friend.c:43-67).
THEOREM OnePair == Spec => []OneRecordPerPair
BY FriendInvAlways, PTL DEF FriendInv

\* The records keep their types, and the table never outgrows its array
\* (create_friendship, friend.c).
THEOREM FriendTypes == Spec => []TypeOK
BY FriendInvAlways, PTL DEF FriendInv

\* Friends are two users who both said yes and have not taken it back.
THEOREM FriendshipByConsent == Spec => []FriendsAgree
<1>1. FriendInv => FriendsAgree
  <2> SUFFICES ASSUME FriendInv, NEW u \in Users, NEW v \in Users, are_friends(u, v)
               PROVE  <<u, v>> \in wants /\ <<v, u>> \in wants
    BY DEF FriendsAgree
  <2>1. PICK k \in Between(u, v) : TRUE
    BY DEF are_friends
  <2>2. First(Between(u, v)) = k
    BY BetweenFound DEF FriendInv
  <2>3. g_friendships[k].status = "accepted" /\ Live(k) /\ (From(k, u, v) \/ From(k, v, u))
    BY <2>2 DEF are_friends, Between
  <2> QED
    BY <2>3 DEF FriendInv, Consent, From, Live
<1> QED
  BY <1>1, FriendInvAlways, PTL

-----------------------------------------------------------------------------
(* Announced requests *)

\* No more requests wait for anybody than a login announces.
FewPending == \A v \in Users : Cardinality(PendingTo(v)) <= MaxPending

\* Then a login announces all of them: before each there are fewer than there
\* are altogether.
LEMMA AllAnnounced ==
  ASSUME TypeOK, FewPending, NEW v \in Users, NEW i \in PendingTo(v)
  PROVE  g_friendships[i].user \in Announced(v)
<1> DEFINE Before == {k \in PendingTo(v) : k < i}
<1>1. PendingTo(v) \subseteq 1 .. Len(g_friendships) /\ Len(g_friendships) \in Nat
  BY DEF PendingTo, TypeOK
<1>2. IsFiniteSet(PendingTo(v))
  <2>1. IsFiniteSet(1 .. Len(g_friendships))
    BY <1>1, FS_Interval
  <2> QED
    BY <1>1, <2>1, FS_Subset
<1>3. Before \subseteq PendingTo(v) /\ Before # PendingTo(v)
  BY <1>1
<1>4. /\ IsFiniteSet(Before) /\ Cardinality(Before) <= Cardinality(PendingTo(v))
      /\ Cardinality(PendingTo(v)) # Cardinality(Before)
  BY <1>2, <1>3, FS_Subset, Zenon
<1>5. Cardinality(Before) \in Nat /\ Cardinality(PendingTo(v)) \in Nat
  BY <1>2, <1>4, FS_CardinalityType
<1>6. Cardinality(Before) < MaxPending
  BY <1>4, <1>5, FriendsAssumption DEF FewPending
<1> QED
  BY <1>6 DEF Announced

\* A request that is new in a step of a handler was made in it.
LEMMA FewerPending ==
  ASSUME FriendInv, PendingAnnounced, NEW k \in DOMAIN g_friendships, Live(k),
         NEW s \in {"accepted", "rejected", Deleted}, SetStatus(k, s),
         UNCHANGED <<online, told>>
  PROVE  PendingAnnounced'
<1>1. s # "pending"
  BY Zenon DEF Deleted
<1>2. DOMAIN g_friendships' = DOMAIN g_friendships
  BY Restated
<1>3. \A i \in DOMAIN g_friendships :
        /\ g_friendships'[i].user = g_friendships[i].user
        /\ g_friendships'[i].friend = g_friendships[i].friend
        /\ i # k => g_friendships'[i].status = g_friendships[i].status
  BY Restated
<1>4. g_friendships'[k].status = s
  BY Restated
<1>5. \A v \in Users : \A i \in PendingTo(v)' : i \in PendingTo(v)
  BY <1>1, <1>2, <1>3, <1>4 DEF PendingTo
<1>6. online \subseteq Users
  BY DEF FriendInv, TypeOK
<1> QED
  BY <1>2, <1>3, <1>5, <1>6 DEF PendingAnnounced, PendingTo

LEMMA RequestPending ==
  ASSUME FriendInv, PendingAnnounced, NEW u \in Users, NEW v \in Users, handle_friend_request(u, v)
  PROVE  PendingAnnounced'
<1> DEFINE n == Len(g_friendships) + 1
<1>1. /\ DOMAIN g_friendships' = DOMAIN g_friendships \cup {n}
      /\ \A i \in DOMAIN g_friendships : g_friendships'[i] = g_friendships[i]
      /\ g_friendships'[n] = [user |-> u, friend |-> v, status |-> "pending"]
  BY Asked DEF handle_friend_request
<1>2. online' = online /\ told' = IF v \in online THEN [told EXCEPT ![v] = @ \cup {u}] ELSE told
  BY DEF handle_friend_request
<1>3. told \in [Users -> SUBSET Users] /\ online \subseteq Users
  BY DEF FriendInv, TypeOK
<1>4. SUFFICES ASSUME NEW w \in online, NEW i \in PendingTo(w)'
               PROVE  g_friendships'[i].user \in told'[w]
  BY <1>2 DEF PendingAnnounced
<1>5. CASE i = n
  BY <1>1, <1>2, <1>3, <1>5 DEF PendingTo
<1>6. CASE i # n
  <2>1. i \in PendingTo(w) /\ g_friendships'[i] = g_friendships[i]
    BY <1>1, <1>6 DEF PendingTo
  <2>2. g_friendships[i].user \in told[w]
    BY <2>1 DEF PendingAnnounced
  <2> QED
    BY <1>2, <1>3, <2>1, <2>2
<1> QED
  BY <1>5, <1>6

LEMMA NextPending ==
  FriendInv /\ PendingAnnounced /\ FewPending /\ [Next]_vars => PendingAnnounced'
<1> SUFFICES ASSUME FriendInv, PendingAnnounced, FewPending, [Next]_vars PROVE PendingAnnounced'
  OBVIOUS
<1>0. TypeOK /\ OneRecordPerPair
  BY DEF FriendInv
<1>1. CASE UNCHANGED vars
  BY <1>1 DEF vars, PendingAnnounced, PendingTo
<1>2. ASSUME NEW u \in Users, NEW v \in Users, handle_friend_request(u, v) PROVE PendingAnnounced'
  BY <1>2, RequestPending
<1>3. ASSUME NEW u \in Users, NEW v \in Users,
             handle_friend_accept(u, v) \/ handle_friend_reject(u, v)
      PROVE  PendingAnnounced'
  <2>1. PICK k \in Directed(v, u) : TRUE
    BY <1>3 DEF handle_friend_accept, handle_friend_reject
  <2>2. First(Directed(v, u)) = k /\ k \in DOMAIN g_friendships /\ Live(k)
    BY <1>0, <2>1, DirectedFound DEF Directed
  <2> QED
    BY <1>3, <2>2, FewerPending DEF handle_friend_accept, handle_friend_reject
<1>4. ASSUME NEW u \in Users, NEW v \in Users, handle_friend_remove(u, v) PROVE PendingAnnounced'
  <2>1. PICK k \in Between(u, v) : TRUE
    BY <1>4 DEF handle_friend_remove
  <2>2. First(Between(u, v)) = k /\ k \in DOMAIN g_friendships /\ Live(k)
    BY <1>0, <2>1, BetweenFound DEF Between
  <2> QED
    BY <1>4, <2>2, FewerPending DEF handle_friend_remove
<1>5. ASSUME NEW u \in Users, Login(u) PROVE PendingAnnounced'
  <2>1. /\ online' = online \cup {u} /\ told' = [told EXCEPT ![u] = Announced(u)]
        /\ g_friendships' = g_friendships /\ told \in [Users -> SUBSET Users]
    BY <1>0, <1>5 DEF Login, TypeOK
  <2>2. \A i \in PendingTo(u) : g_friendships[i].user \in told'[u]
    BY <1>0, <2>1, AllAnnounced
  <2>3. \A w \in online : w # u => told'[w] = told[w]
    BY <2>1
  <2> QED
    BY <2>1, <2>2, <2>3 DEF PendingAnnounced, PendingTo
<1>6. ASSUME NEW u \in Users, Logout(u) PROVE PendingAnnounced'
  BY <1>0, <1>6 DEF Logout, PendingAnnounced, PendingTo, TypeOK
<1> QED
  BY <1>1, <1>2, <1>3, <1>4, <1>5, <1>6 DEF Next

\* Whoever is online has been told of every request that waits for it, made
\* before its login or after, as long as no more wait for anybody than a login
\* announces (the 100 of pending_friends, server.c).
THEOREM EveryRequestAnnounced == Spec /\ []FewPending => []PendingAnnounced
<1>1. Init => PendingAnnounced
  BY DEF Init, PendingAnnounced
<1> QED
  BY <1>1, FriendInvAlways, NextPending, PTL DEF Spec

-----------------------------------------------------------------------------
(* The refinement.  FriendGraph's relation is read from the table. *)

Pairs == Users \X Users

RelMap == [p \in Pairs |-> RelOf(p[1], p[2])]

\* The relation between two users is the status of their only record, in its
\* direction, or nothing.
RelValues ==
  \A a, b \in Users :
    /\ \A k \in Directed(a, b) : RelOf(a, b) = g_friendships[k].status
    /\ Directed(a, b) = {} => RelOf(a, b) = "none"

LEMMA RelIsStatus == FriendInv => RelValues
<1> SUFFICES ASSUME FriendInv, NEW a \in Users, NEW b \in Users
             PROVE  /\ \A k \in Directed(a, b) : RelOf(a, b) = g_friendships[k].status
                    /\ Directed(a, b) = {} => RelOf(a, b) = "none"
  BY DEF RelValues
<1>1. \A k \in Directed(a, b) : First(Directed(a, b)) = k
  BY DirectedFound DEF FriendInv
<1> QED
  BY <1>1 DEF RelOf

LEMMA RelIsStatusNext == FriendInv' => RelValues'
BY RelIsStatus, PTL

\* Pairs are equal if both members are.
LEMMA PairMembers ==
  ASSUME NEW p \in Pairs
  PROVE  p = <<p[1], p[2]>> /\ p[1] \in Users /\ p[2] \in Users
BY DEF Pairs

\* The map changes where one relation does.
LEMMA OneRelChanges ==
  ASSUME NEW a \in Users, NEW b \in Users, NEW x, RelOf(a, b)' = x,
         \A c, d \in Users : <<c, d>> # <<a, b>> => RelOf(c, d)' = RelOf(c, d)
  PROVE  RelMap' = [RelMap EXCEPT ![<<a, b>>] = x]
<1>1. <<a, b>> \in Pairs /\ <<a, b>>[1] = a /\ <<a, b>>[2] = b
  BY DEF Pairs
<1>2. RelMap' = [p \in Pairs |-> RelOf(p[1], p[2])'] /\ RelMap = [p \in Pairs |-> RelOf(p[1], p[2])]
  BY DEF RelMap
<1>3. ASSUME NEW p \in Pairs, p # <<a, b>> PROVE RelOf(p[1], p[2])' = RelOf(p[1], p[2])
  BY <1>3, PairMembers
<1>4. \A p \in Pairs : RelMap'[p] = IF p = <<a, b>> THEN x ELSE RelMap[p]
  BY <1>1, <1>2, <1>3
<1> QED
  BY <1>1, <1>2, <1>4

LEMMA RequestAsks ==
  ASSUME FriendInv, FriendInv', NEW u \in Users, NEW v \in Users, handle_friend_request(u, v)
  PROVE  Graph!Ask(u, v)
<1> DEFINE n == Len(g_friendships) + 1
<1>0. RelValues /\ RelValues'
  BY RelIsStatus, RelIsStatusNext
<1>1. /\ DOMAIN g_friendships' = DOMAIN g_friendships \cup {n}
      /\ n \notin DOMAIN g_friendships
      /\ \A i \in DOMAIN g_friendships : g_friendships'[i] = g_friendships[i]
      /\ g_friendships'[n] = [user |-> u, friend |-> v, status |-> "pending"]
  BY Asked DEF handle_friend_request
<1>2. u # v /\ Between(u, v) = {}
  BY DEF handle_friend_request
<1>3. RelOf(u, v) = "none" /\ RelOf(v, u) = "none"
  <2>1. Directed(u, v) = {} /\ Directed(v, u) = {}
    BY <1>2 DEF Between, Directed
  <2> QED
    BY <1>0, <2>1 DEF RelValues
<1>4. n \in Directed(u, v)'
  <2>1. n \in DOMAIN g_friendships'
    BY <1>1
  <2>2. /\ g_friendships'[n].user = u /\ g_friendships'[n].friend = v
        /\ g_friendships'[n].status = "pending"
    BY <1>1
  <2> HIDE DEF n
  <2> QED
    BY <2>1, <2>2 DEF Directed, Live, From, Deleted
<1>5. RelOf(u, v)' = "pending"
  <2>1. RelOf(u, v)' = g_friendships'[n].status
    BY <1>0, <1>4 DEF RelValues
  <2> QED
    BY <1>1, <2>1
<1>6. ASSUME NEW a \in Users, NEW b \in Users, <<a, b>> # <<u, v>>
      PROVE  RelOf(a, b)' = RelOf(a, b)
  <2>1. Directed(a, b)' = Directed(a, b)
    BY <1>1, <1>6 DEF Directed, Live, From
  <2>2. CASE Directed(a, b) = {}
    BY <1>0, <2>1, <2>2 DEF RelValues
  <2>3. CASE Directed(a, b) # {}
    <3>1. PICK k \in Directed(a, b) : TRUE
      BY <2>3
    <3>2. RelOf(a, b) = g_friendships[k].status /\ RelOf(a, b)' = g_friendships'[k].status
      BY <1>0, <2>1, <3>1 DEF RelValues
    <3> QED
      BY <1>1, <3>1, <3>2 DEF Directed
  <2> QED
    BY <2>2, <2>3
<1>7. RelMap' = [RelMap EXCEPT ![<<u, v>>] = "pending"]
  BY <1>5, <1>6, OneRelChanges
<1>8. RelMap[<<u, v>>] = "none" /\ RelMap[<<v, u>>] = "none"
  BY <1>3 DEF RelMap, Pairs
<1> QED
  BY <1>2, <1>7, <1>8 DEF RelMap, Pairs, Graph!Ask

\* Changing the status of the record from a to b to s changes the relation
\* there, and nowhere else.
LEMMA RestatedRel ==
  ASSUME FriendInv, FriendInv', NEW a \in Users, NEW b \in Users, NEW k \in Directed(a, b),
         NEW s \in {"accepted", "rejected", Deleted}, SetStatus(k, s)
  PROVE  /\ RelOf(a, b) # "none" /\ a # b /\ RelOf(b, a) = "none"
         /\ RelMap' = [RelMap EXCEPT ![<<a, b>>] = IF s = Deleted THEN "none" ELSE s]
<1>0. RelValues /\ RelValues' /\ TypeOK
  BY RelIsStatus, RelIsStatusNext DEF FriendInv
<1>1. /\ k \in DOMAIN g_friendships /\ Live(k)
      /\ g_friendships[k].user = a /\ g_friendships[k].friend = b
  BY DEF Directed, From
<1>2. /\ DOMAIN g_friendships' = DOMAIN g_friendships
      /\ \A i \in DOMAIN g_friendships :
           /\ g_friendships'[i].user = g_friendships[i].user
           /\ g_friendships'[i].friend = g_friendships[i].friend
           /\ g_friendships'[i].status = IF i = k THEN s ELSE g_friendships[i].status
  BY <1>1, Restated
<1>3. a # b
  BY <1>1 DEF FriendInv, NoSelf
<1>4. \A i \in Directed(a, b) \cup Directed(b, a) : i = k
  BY <1>1 DEF Directed, From, FriendInv, OneRecordPerPair
<1>5. RelOf(a, b) # "none"
  <2>1. RelOf(a, b) = g_friendships[k].status
    BY <1>0 DEF RelValues
  <2> QED
    BY <1>0, <1>1, <2>1, TableIsFunction DEF Record, Deleted
<1>6. RelOf(b, a) = "none"
  <2>1. Directed(b, a) = {}
    BY <1>1, <1>3, <1>4 DEF Directed, From
  <2> QED
    BY <1>0, <2>1 DEF RelValues
<1>7. RelOf(a, b)' = IF s = Deleted THEN "none" ELSE s
  <2>1. CASE s = Deleted
    <3>1. Directed(a, b)' = {}
      BY <1>2, <1>4, <2>1 DEF Directed, From, Live
    <3> QED
      BY <1>0, <2>1, <3>1 DEF RelValues
  <2>2. CASE s # Deleted
    <3>1. k \in Directed(a, b)'
      BY <1>1, <1>2, <2>2 DEF Directed, From, Live
    <3>2. RelOf(a, b)' = g_friendships'[k].status
      BY <1>0, <3>1 DEF RelValues
    <3> QED
      BY <1>1, <1>2, <2>2, <3>2
  <2> QED
    BY <2>1, <2>2
<1>8. ASSUME NEW c \in Users, NEW d \in Users, <<c, d>> # <<a, b>>
      PROVE  RelOf(c, d)' = RelOf(c, d)
  <2>1. k \notin Directed(c, d) /\ k \notin Directed(c, d)'
    BY <1>1, <1>2, <1>8 DEF Directed, From
  <2>2. Directed(c, d)' = Directed(c, d)
    BY <1>2, <2>1 DEF Directed, Live, From
  <2>3. CASE Directed(c, d) = {}
    BY <1>0, <2>2, <2>3 DEF RelValues
  <2>4. CASE Directed(c, d) # {}
    <3>1. PICK i \in Directed(c, d) : TRUE
      BY <2>4
    <3>2. RelOf(c, d) = g_friendships[i].status /\ RelOf(c, d)' = g_friendships'[i].status
      BY <1>0, <2>2, <3>1 DEF RelValues
    <3> QED
      BY <1>2, <2>1, <3>1, <3>2 DEF Directed
  <2> QED
    BY <2>3, <2>4
<1>9. RelMap' = [RelMap EXCEPT ![<<a, b>>] = IF s = Deleted THEN "none" ELSE s]
  BY <1>7, <1>8, OneRelChanges
<1> QED
  BY <1>3, <1>5, <1>6, <1>9

LEMMA AnswerAnswers ==
  ASSUME FriendInv, FriendInv', NEW u \in Users, NEW v \in Users
  PROVE  /\ handle_friend_accept(u, v) => Graph!Answer(v, u, "accepted")
         /\ handle_friend_reject(u, v) => Graph!Answer(v, u, "rejected")
<1>1. ASSUME NEW s \in {"accepted", "rejected"}, Directed(v, u) # {},
             SetStatus(First(Directed(v, u)), s)
      PROVE  Graph!Answer(v, u, s)
  <2>1. PICK k \in Directed(v, u) : TRUE
    BY <1>1
  <2>2. SetStatus(k, s)
    BY <1>1, DirectedFound DEF FriendInv
  <2>3. s # Deleted
    BY <1>1 DEF Deleted
  <2>4. RelOf(v, u) # "none" /\ RelMap' = [RelMap EXCEPT ![<<v, u>>] = s]
    BY <2>2, <2>3, RestatedRel
  <2>5. RelMap[<<v, u>>] # "none"
    BY <2>4 DEF RelMap, Pairs
  <2> QED
    BY <2>4, <2>5 DEF RelMap, Pairs, Graph!Answer
<1> QED
  BY <1>1 DEF handle_friend_accept, handle_friend_reject

LEMMA RemoveForgets ==
  ASSUME FriendInv, FriendInv', NEW u \in Users, NEW v \in Users, handle_friend_remove(u, v)
  PROVE  Graph!Forget(u, v)
<1>1. PICK k \in Between(u, v) : TRUE
  BY DEF handle_friend_remove
<1>2. SetStatus(k, Deleted)
  BY BetweenFound DEF handle_friend_remove, FriendInv
<1>3. k \in Directed(u, v) \/ k \in Directed(v, u)
  BY DEF Between, Directed
<1>4. ASSUME NEW a \in Users, NEW b \in Users, k \in Directed(a, b)
      PROVE  /\ RelMap[<<a, b>>] # "none"
             /\ RelMap' = [RelMap EXCEPT ![<<a, b>>] = "none", ![<<b, a>>] = "none"]
             /\ RelMap' = [RelMap EXCEPT ![<<b, a>>] = "none", ![<<a, b>>] = "none"]
  <2>1. /\ RelOf(a, b) # "none" /\ a # b /\ RelOf(b, a) = "none"
        /\ RelMap' = [RelMap EXCEPT ![<<a, b>>] = "none"]
    BY <1>2, <1>4, RestatedRel
  <2>2. RelMap[<<a, b>>] # "none" /\ RelMap[<<b, a>>] = "none" /\ <<a, b>> # <<b, a>>
    BY <2>1 DEF RelMap, Pairs
  <2> QED
    BY <2>1, <2>2 DEF RelMap
<1> QED
  BY <1>3, <1>4 DEF RelMap, Pairs, Graph!Forget

LEMMA InitGraph == Init => Graph!Init
<1> SUFFICES ASSUME Init PROVE RelMap = [p \in Pairs |-> "none"]
  BY DEF RelMap, Pairs, Graph!Init
<1>1. \A a, b \in Users : RelOf(a, b) = "none"
  BY DEF Init, RelOf, Directed
<1> QED
  BY <1>1, PairMembers DEF RelMap

LEMMA NextGraph == FriendInv /\ FriendInv' /\ [Next]_vars => [Graph!Next]_RelMap
<1> SUFFICES ASSUME FriendInv, FriendInv', [Next]_vars
             PROVE  Graph!Next \/ RelMap' = RelMap
  OBVIOUS
<1>1. CASE UNCHANGED g_friendships
  BY <1>1 DEF RelMap, RelOf, Directed, Live, From, First
<1>2. ASSUME NEW u \in Users, NEW v \in Users, handle_friend_request(u, v) PROVE Graph!Next
  BY <1>2, RequestAsks DEF Graph!Next
<1>3. ASSUME NEW u \in Users, NEW v \in Users, handle_friend_accept(u, v) PROVE Graph!Next
  BY <1>3, AnswerAnswers DEF Graph!Next, Graph!Answers
<1>4. ASSUME NEW u \in Users, NEW v \in Users, handle_friend_reject(u, v) PROVE Graph!Next
  BY <1>4, AnswerAnswers DEF Graph!Next, Graph!Answers
<1>5. ASSUME NEW u \in Users, NEW v \in Users, handle_friend_remove(u, v) PROVE Graph!Next
  BY <1>5, RemoveForgets DEF Graph!Next
<1> QED
  BY <1>1, <1>2, <1>3, <1>4, <1>5 DEF Next, vars, Login, Logout

\* Every step of the handlers on the table is a step of FriendGraph, or none.
THEOREM TableImplementsGraph == Spec => ImplementsFriendGraph
<1>1. FriendInv /\ FriendInv' /\ [Next]_vars
        => [Graph!Next]_([p \in Users \X Users |-> RelOf(p[1], p[2])])
  BY NextGraph DEF RelMap, Pairs
<1> QED
  BY <1>1, InitGraph, FriendInvAlways, PTL DEF Spec, ImplementsFriendGraph, Graph!Spec

=============================================================================
