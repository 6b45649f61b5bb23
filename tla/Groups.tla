------------------------------- MODULE Groups -------------------------------
(***************************************************************************)
(* Groups and their membership table (group.c) and the handlers that use   *)
(* them (handle_group_*, handlers.c).                                      *)
(*                                                                         *)
(* A membership record is an invitation until its user joins.  Removing it *)
(* overwrites its group id with -1, which no group has but which a client  *)
(* may well send as a group id.  Some handlers look a group or a user up   *)
(* and use the result without a test; with nothing found the process dies. *)
(***************************************************************************)
EXTENDS Integers, Sequences, FiniteSets

CONSTANTS
  Users,       \* registered user ids, positive
  Strangers,   \* ids clients also type that belong to no user; 0 is the
               \* user_id of a connection that has not logged in
  MaxGroups,   \* MAX_GROUPS
  MaxMembers,  \* MAX_GROUP_MEMBERS
  MaxFanout,   \* members a group message is sent to (the 100 of member_ids)
  Keys         \* group ids clients type

NoGroup == -1
Groups == 1 .. MaxGroups
Ids == Users \cup Strangers

ASSUME GroupsAssumption ==
  /\ Users \subseteq Nat \ {0} /\ Strangers \subseteq Nat \ Users
  /\ MaxGroups \in Nat /\ MaxMembers \in Nat /\ MaxFanout \in Nat
  /\ Keys \subseteq Groups \cup {NoGroup}

VARIABLES
  up,               \* the server process is alive
  online,           \* user ids some slot holds, 0 included
  created_by,       \* g_groups: the creators of groups 1 .. g_group_count
  g_group_members,  \* the membership table; only appended to and overwritten
  actor             \* user id of the connection served last; 0 for none or not logged in

vars == <<up, online, created_by, g_group_members, actor>>

Roles == {"admin", "member", "invited"}
Member == [group : Groups \cup {NoGroup}, user : Ids, role : Roles]

TypeOK ==
  /\ up \in BOOLEAN
  /\ online \subseteq Ids \cup {0}
  /\ created_by \in Seq(Users) /\ Len(created_by) <= MaxGroups
  /\ g_group_members \in Seq(Member) /\ Len(g_group_members) <= MaxMembers
  /\ actor \in Users \cup {0}

-----------------------------------------------------------------------------
(* group.c.  M_... is a plausible slip in the definition after it. *)

Exists(g) == g \in DOMAIN created_by               \* get_group_by_id(g) != NULL

RecordsOf(g, u) ==
  {i \in DOMAIN g_group_members : g_group_members[i].group = g /\ g_group_members[i].user = u}

\* is_group_member: true of invited users too.
M_is_group_member(g, u) == \E i \in RecordsOf(g, u) : g_group_members[i].role # "invited"
is_group_member(g, u) == RecordsOf(g, u) # {}

M_is_group_admin(g, u) == \E i \in RecordsOf(g, u) : g_group_members[i].role # "invited"
is_group_admin(g, u) == \E i \in RecordsOf(g, u) : g_group_members[i].role = "admin"

RoleOf(g, u) == {g_group_members[i].role : i \in RecordsOf(g, u)}

\* create_group numbers groups by their place in g_groups.
M_NewGroupId == Len(created_by) + 2
NewGroupId == Len(created_by) + 1

First(S) == CHOOSE i \in S : \A j \in S : i <= j

\* add_group_member: may fail, for a full table or a member that is there.
M_TableFull == Len(g_group_members) > MaxMembers
TableFull == Len(g_group_members) >= MaxMembers

M_JoinedRole == "admin"
JoinedRole == "member"
M_InvitedRole == "member"
InvitedRole == "invited"

add_group_member(g, u, r) ==
  IF TableFull \/ is_group_member(g, u)
  THEN g_group_members
  ELSE Append(g_group_members, [group |-> g, user |-> u, role |-> r])

\* remove_group_member and update_group_member_role: the first record found.
remove_group_member(g, u) ==
  [g_group_members EXCEPT ![First(RecordsOf(g, u))].group = NoGroup]

update_group_member_role(g, u, r) ==
  [g_group_members EXCEPT ![First(RecordsOf(g, u))].role = r]

\* get_group_members: the users of the first MaxFanout records of g.
get_group_members(g) ==
  LET rows == {i \in DOMAIN g_group_members : g_group_members[i].group = g} IN
  {g_group_members[i].user : i \in {j \in rows : Cardinality({k \in rows : k < j}) < MaxFanout}}

-----------------------------------------------------------------------------
(* Handlers.  u is the user_id of the connection; refused requests change   *)
(* nothing and have no action.                                              *)

Init ==
  /\ up = TRUE
  /\ online = {}
  /\ created_by = <<>>
  /\ g_group_members = <<>>
  /\ actor = 0

Serve(u) == up /\ u \in online /\ actor' = u

handle_group_create(u) ==
  /\ Serve(u) /\ u # 0
  /\ Len(created_by) < MaxGroups
  /\ created_by' = Append(created_by, u)
  /\ g_group_members' = add_group_member(NewGroupId, u, "admin")
  /\ UNCHANGED <<up, online>>

\* u invites v to group g.  An online v is told first, with the group's and
\* the inviter's names; then the invitation is recorded, if there is room.
\* Neither the caller's login nor the existence of v is checked.
handle_group_invite(u, g, v) ==
  /\ Serve(u)
  /\ is_group_member(g, u) /\ ~is_group_member(g, v)
  /\ IF v \in online /\ (~Exists(g) \/ u \notin Users)
     THEN up' = FALSE /\ UNCHANGED g_group_members
     ELSE up' = up /\ g_group_members' = add_group_member(g, v, InvitedRole)
  /\ UNCHANGED <<online, created_by>>

\* u joins group g: any record u has there becomes "member", the update being
\* made twice; without a record one is added.
handle_group_join(u, g) ==
  /\ Serve(u) /\ u # 0
  /\ Exists(g)
  /\ IF is_group_member(g, u)
     THEN g_group_members' = update_group_member_role(g, u, JoinedRole)
     ELSE /\ ~TableFull
          /\ g_group_members' = add_group_member(g, u, JoinedRole)
  /\ UNCHANGED <<up, online, created_by>>

handle_group_leave(u, g) ==
  /\ Serve(u) /\ u # 0
  /\ is_group_member(g, u)
  /\ g_group_members' = remove_group_member(g, u)
  /\ UNCHANGED <<up, online, created_by>>

\* u, an admin of g, removes v.  The record goes first; then an online v is
\* told, with the group's name.
handle_group_remove_user(u, g, v) ==
  /\ Serve(u)
  /\ is_group_admin(g, u) /\ u # v
  /\ is_group_member(g, v)
  /\ g_group_members' = remove_group_member(g, v)
  /\ up' = ~(v \in online /\ ~Exists(g))
  /\ UNCHANGED <<online, created_by>>

\* u sends a message to group g.  Offline members get it at their next login
\* (module Messaging); the group's name is needed for the online ones.
handle_group_message(u, g) ==
  LET audience == (get_group_members(g) \ {u}) \cap online IN
  /\ Serve(u) /\ u # 0
  /\ is_group_member(g, u)
  /\ up' = (Exists(g) \/ audience = {})
  /\ UNCHANGED <<online, created_by, g_group_members>>

\* A user logs in or out; for 0, the first connection that has not logged in
\* appears or the last one goes.
Come(u) == /\ up /\ u \notin online /\ online' = online \cup {u}
           /\ actor' = 0
           /\ UNCHANGED <<up, created_by, g_group_members>>
Go(u) ==   /\ up /\ u \in online /\ online' = online \ {u}
           /\ actor' = 0
           /\ UNCHANGED <<up, created_by, g_group_members>>

Next ==
  \/ \E u \in Users \cup {0} :
       \/ Come(u) \/ Go(u)
       \/ handle_group_create(u)
       \/ \E g \in Keys :
            \/ handle_group_join(u, g) \/ handle_group_leave(u, g)
            \/ handle_group_message(u, g)
            \/ \E v \in Ids : handle_group_invite(u, g, v) \/ handle_group_remove_user(u, g, v)

Spec == Init /\ [][Next]_vars

-----------------------------------------------------------------------------
(* Properties *)

\* A user has at most one record in a group, through any order of inviting,
\* joining, leaving and removing; only the id -1 collects several.
OneMembership ==
  \A g \in Groups, u \in Ids : \A i, j \in RecordsOf(g, u) : i = j

\* The only admin a group ever has is the user who created it.
AdminIsCreator ==
  \A g \in Groups, u \in Ids : is_group_admin(g, u) => Exists(g) /\ created_by[g] = u

\* The server dies of a failed lookup only where a deleted record or a record
\* of an id that is no user is left in the table.
DiesOfStaleRecordsOnly ==
  ~up => \E i \in DOMAIN g_group_members :
           g_group_members[i].group = NoGroup \/ g_group_members[i].user \notin Users

\* A user stops being in a group only by leaving or by an admin's hand.
RemovedByRight ==
  [][\A g \in Groups, u \in Ids :
       RoleOf(g, u) # {} /\ RoleOf(g, u)' = {}
         => actor' = u \/ "admin" \in RoleOf(g, actor')]_vars

\* Others can invite a user but not make it a member: any other role it gets
\* it takes itself.
JoinsByOwnHand ==
  [][\A g \in Groups, u \in Ids :
       (RoleOf(g, u)' \ RoleOf(g, u)) \ {"invited"} # {} => actor' = u]_vars

=============================================================================
