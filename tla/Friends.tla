------------------------------ MODULE Friends ------------------------------
(***************************************************************************)
(* The friendship table (friend.c) and the handlers that use it            *)
(* (handle_friend_*, handlers.c).                                          *)
(*                                                                         *)
(* The table is an array of directed records.  A record is found by a      *)
(* linear search, is never moved, and is deleted by emptying its status,   *)
(* so that the array only grows.  Requests are announced to their receiver *)
(* at once if it is online and at its next login otherwise.                *)
(***************************************************************************)
EXTENDS Integers, Sequences, FiniteSets

CONSTANTS
  Users,            \* registered user ids
  MaxFriendships,   \* MAX_FRIENDSHIPS: records in the table
  MaxPending        \* requests announced at a login (the 100 of pending_friends)

ASSUME FriendsAssumption ==
  MaxFriendships \in Nat /\ MaxPending \in Nat

VARIABLES
  g_friendships,  \* the table, g_friendship_count records long
  online,         \* users some client is logged in as
  told,           \* user -> requesters announced to it since it logged in
  wants           \* <<u, v>>: the last thing u was granted about v is yes

vars == <<g_friendships, online, told, wants>>

Deleted == ""
Record == [user : Users, friend : Users,
           status : {"pending", "accepted", "rejected", Deleted}]

TypeOK ==
  /\ g_friendships \in Seq(Record) /\ Len(g_friendships) <= MaxFriendships
  /\ online \subseteq Users
  /\ told \in [Users -> SUBSET Users]
  /\ wants \subseteq Users \X Users

-----------------------------------------------------------------------------
(* friend.c.  M_... is a plausible slip in the definition after it. *)

Live(i) == i \in DOMAIN g_friendships /\ g_friendships[i].status # Deleted

From(i, u, v) == g_friendships[i].user = u /\ g_friendships[i].friend = v

\* find_friendship: the records a search from u to v can return.
M_Directed(u, v) == {i \in DOMAIN g_friendships : Live(i) /\ (From(i, u, v) \/ From(i, v, u))}
Directed(u, v) == {i \in DOMAIN g_friendships : Live(i) /\ From(i, u, v)}

\* find_friendship_bidirectional
M_Between(u, v) == {i \in DOMAIN g_friendships : Live(i) /\ From(i, u, v)}
Between(u, v) ==
  {i \in DOMAIN g_friendships : Live(i) /\ (From(i, u, v) \/ From(i, v, u))}

First(S) == CHOOSE i \in S : \A j \in S : i <= j

are_friends(u, v) ==
  Between(u, v) # {} /\ g_friendships[First(Between(u, v))].status = "accepted"

M_TableFull == Len(g_friendships) > MaxFriendships
TableFull == Len(g_friendships) >= MaxFriendships

SetStatus(i, s) == g_friendships' = [g_friendships EXCEPT ![i].status = s]

\* get_pending_friend_requests: the senders of the first MaxPending records
\* that wait for an answer of u.
PendingTo(u) ==
  {i \in DOMAIN g_friendships : g_friendships[i].status = "pending" /\ g_friendships[i].friend = u}

M_Announced(u) ==
  {g_friendships[i].user : i \in {j \in PendingTo(u) :
     Cardinality({k \in PendingTo(u) : k < j}) < MaxPending - 1}}
Announced(u) ==
  {g_friendships[i].user : i \in {j \in PendingTo(u) :
     Cardinality({k \in PendingTo(u) : k < j}) < MaxPending}}

-----------------------------------------------------------------------------
(* Handlers.  u is the user of the connection; refused requests change      *)
(* nothing and have no action.                                              *)

Init ==
  /\ g_friendships = <<>>
  /\ online = {}
  /\ told = [u \in Users |-> {}]
  /\ wants = {}

\* handle_friend_request: u asks v.  create_friendship repeats the search.
handle_friend_request(u, v) ==
  /\ u \in online /\ u # v
  /\ Between(u, v) = {} /\ ~TableFull
  /\ g_friendships' = Append(g_friendships, [user |-> u, friend |-> v, status |-> "pending"])
  /\ told' = IF v \in online THEN [told EXCEPT ![v] = @ \cup {u}] ELSE told
  /\ wants' = wants \cup {<<u, v>>}
  /\ UNCHANGED online

\* handle_friend_accept: u answers the request of v, whatever its status.
handle_friend_accept(u, v) ==
  /\ u \in online
  /\ Directed(v, u) # {} /\ SetStatus(First(Directed(v, u)), "accepted")
  /\ wants' = wants \cup {<<u, v>>}
  /\ UNCHANGED <<online, told>>

\* handle_friend_reject
handle_friend_reject(u, v) ==
  /\ u \in online
  /\ Directed(v, u) # {} /\ SetStatus(First(Directed(v, u)), "rejected")
  /\ wants' = wants \ {<<u, v>>}
  /\ UNCHANGED <<online, told>>

\* handle_friend_remove: u removes whatever is between u and v, including a
\* request that is still pending or was rejected.  The matter is closed for both.
handle_friend_remove(u, v) ==
  /\ u \in online
  /\ Between(u, v) # {} /\ SetStatus(First(Between(u, v)), Deleted)
  /\ wants' = wants \ {<<u, v>>, <<v, u>>}
  /\ UNCHANGED <<online, told>>

\* The part of handle_login that announces pending requests, and its reverse.
Login(u) ==
  /\ u \notin online
  /\ online' = online \cup {u}
  /\ told' = [told EXCEPT ![u] = Announced(u)]
  /\ UNCHANGED <<g_friendships, wants>>

Logout(u) ==
  /\ u \in online
  /\ online' = online \ {u}
  /\ told' = [told EXCEPT ![u] = {}]
  /\ UNCHANGED <<g_friendships, wants>>

Next ==
  \/ \E u \in Users : Login(u) \/ Logout(u)
  \/ \E u, v \in Users : \/ handle_friend_request(u, v)
                         \/ handle_friend_accept(u, v)
                         \/ handle_friend_reject(u, v)
                         \/ handle_friend_remove(u, v)

Spec == Init /\ [][Next]_vars

-----------------------------------------------------------------------------
(* Properties *)

\* Two users share at most one record that is not deleted, in either
\* direction, however often they ask, answer, remove and ask again.
OneRecordPerPair ==
  \A i, j \in DOMAIN g_friendships :
    Live(i) /\ Live(j) /\ {g_friendships[i].user, g_friendships[i].friend}
                         = {g_friendships[j].user, g_friendships[j].friend}
      => i = j

\* Friends are two users who both said yes, and neither has taken it back:
\* nobody can answer a request for its receiver.
FriendsAgree ==
  \A u, v \in Users : are_friends(u, v) => <<u, v>> \in wants /\ <<v, u>> \in wants

\* A user who is online has been told of every request that waits for its
\* answer, whether the request came before or after the login (for at most
\* MaxPending of them).
PendingAnnounced ==
  \A v \in online : \A i \in PendingTo(v) : g_friendships[i].user \in told[v]

\* The table implements the relation of FriendGraph.
RelOf(u, v) ==
  IF Directed(u, v) = {} THEN "none" ELSE g_friendships[First(Directed(u, v))].status

Graph == INSTANCE FriendGraph WITH rel <- [p \in Users \X Users |-> RelOf(p[1], p[2])]

ImplementsFriendGraph == Graph!Spec

=============================================================================
