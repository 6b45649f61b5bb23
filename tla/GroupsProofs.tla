---------------------------- MODULE GroupsProofs ----------------------------
(***************************************************************************)
(* Theorems about Groups, for every number of users, groups and records.   *)
(***************************************************************************)
EXTENDS Groups, WellFoundedInduction, TLAPS

USE GroupsAssumption

-----------------------------------------------------------------------------
(* Searches *)

LEMMA MembersAreRecords ==
  ASSUME TypeOK
  PROVE  /\ Len(g_group_members) \in Nat /\ Len(g_group_members) <= MaxMembers
         /\ DOMAIN g_group_members = 1 .. Len(g_group_members)
         /\ \A i \in DOMAIN g_group_members : g_group_members[i] \in Member
BY DEF TypeOK

\* A linear search for a record that is there finds one.
LEMMA FirstIsFound ==
  ASSUME NEW S \in SUBSET Nat, S # {}
  PROVE  First(S) \in S
<1> DEFINE R == {ss \in Nat \X Nat : ss[1] < ss[2]}
<1>1. R = OpToRel(<, Nat)
  BY DEF OpToRel
<1>2. IsWellFoundedOn(R, Nat)
  BY <1>1, NatLessThanWellFounded
<1>3. \E x \in S : \A y \in S : ~ (<<y, x>> \in R)
  BY <1>2, WFMin
<1>4. \A x, y \in S : ~ (<<y, x>> \in R) => x <= y
  OBVIOUS
<1>5. \E x \in S : \A y \in S : x <= y
  BY <1>3, <1>4
<1> QED
  BY <1>5 DEF First

-----------------------------------------------------------------------------
(* The three ways in which handlers change the table *)

\* Record n is new and says that u has role r in group g, where u had none.
Added(n, g, u, r) ==
  /\ DOMAIN g_group_members' = DOMAIN g_group_members \cup {n}
  /\ n \notin DOMAIN g_group_members
  /\ \A i \in DOMAIN g_group_members : g_group_members'[i] = g_group_members[i]
  /\ g_group_members'[n] = [group |-> g, user |-> u, role |-> r]
  /\ RecordsOf(g, u) = {}

\* add_group_member changes nothing, or appends a record for a user who has none
\* in that group.
LEMMA AddChanges ==
  ASSUME TypeOK, NEW g \in Groups \cup {NoGroup}, NEW u \in Ids, NEW r \in Roles,
         g_group_members' = add_group_member(g, u, r)
  PROVE  /\ g_group_members' \in Seq(Member) /\ Len(g_group_members') <= MaxMembers
         /\ \/ g_group_members' = g_group_members
            \/ \E n : Added(n, g, u, r)
<1> DEFINE n == Len(g_group_members) + 1
           m == [group |-> g, user |-> u, role |-> r]
<1>1. g_group_members \in Seq(Member) /\ Len(g_group_members) <= MaxMembers
  BY DEF TypeOK
<1>2. CASE g_group_members' = g_group_members
  BY <1>1, <1>2
<1>3. CASE g_group_members' = Append(g_group_members, m) /\ ~TableFull /\ RecordsOf(g, u) = {}
  <2>1. m \in Member
    BY DEF Member
  <2>2. g_group_members' \in Seq(Member) /\ Len(g_group_members') = n
    BY <1>1, <1>3, <2>1
  <2>3. n <= MaxMembers
    BY <1>1, <1>3 DEF TableFull
  <2>4. /\ DOMAIN g_group_members = 1 .. Len(g_group_members) /\ DOMAIN g_group_members' = 1 .. n
        /\ Len(g_group_members) \in Nat
        /\ g_group_members'[n] = m
        /\ \A i \in DOMAIN g_group_members : g_group_members'[i] = g_group_members[i]
    BY <1>1, <1>3, <2>2
  <2>5. DOMAIN g_group_members' = DOMAIN g_group_members \cup {n} /\ n \notin DOMAIN g_group_members
    BY <2>4
  <2> HIDE DEF n
  <2> QED
    BY <1>3, <2>2, <2>3, <2>4, <2>5 DEF Added
<1> QED
  BY <1>2, <1>3 DEF add_group_member, is_group_member

\* remove_group_member and update_group_member_role change one field of the record
\* that the search finds.
LEMMA OverwriteChanges ==
  ASSUME TypeOK, NEW g, NEW u, is_group_member(g, u),
         NEW h \in Groups \cup {NoGroup}, NEW r \in Roles,
         \/ h = NoGroup /\ r = g_group_members[First(RecordsOf(g, u))].role
            /\ g_group_members' = remove_group_member(g, u)
         \/ h = g /\ g_group_members' = update_group_member_role(g, u, r)
  PROVE  \E k \in RecordsOf(g, u) :
           /\ k = First(RecordsOf(g, u))
           /\ g_group_members' \in Seq(Member) /\ Len(g_group_members') <= MaxMembers
           /\ DOMAIN g_group_members' = DOMAIN g_group_members
           /\ \A i \in DOMAIN g_group_members : i # k => g_group_members'[i] = g_group_members[i]
           /\ g_group_members'[k] = [group |-> h, user |-> u, role |-> r]
<1> DEFINE k == First(RecordsOf(g, u))
           m == [group |-> h, user |-> u, role |-> r]
<1>1. /\ g_group_members \in Seq(Member) /\ Len(g_group_members) <= MaxMembers
      /\ DOMAIN g_group_members = 1 .. Len(g_group_members)
      /\ \A i \in DOMAIN g_group_members : g_group_members[i] \in Member
  BY MembersAreRecords DEF TypeOK
<1>2. RecordsOf(g, u) \in SUBSET Nat /\ RecordsOf(g, u) # {}
  BY <1>1 DEF RecordsOf, is_group_member
<1>3. k \in RecordsOf(g, u)
  BY <1>2, FirstIsFound
<1>4. k \in DOMAIN g_group_members /\ g_group_members[k].group = g /\ g_group_members[k].user = u
  BY <1>3 DEF RecordsOf
<1> HIDE DEF k
<1>5. m \in Member
  BY <1>1, <1>4 DEF Member
<1>6. g_group_members' = [g_group_members EXCEPT ![k] = m]
  <2>1. [g_group_members[k] EXCEPT !.group = NoGroup]
          = [group |-> NoGroup, user |-> u, role |-> g_group_members[k].role]
    BY <1>1, <1>4 DEF Member
  <2>2. [g_group_members[k] EXCEPT !.role = r] = [group |-> g, user |-> u, role |-> r]
    BY <1>1, <1>4 DEF Member
  <2> QED
    BY <2>1, <2>2 DEF remove_group_member, update_group_member_role, k
<1>7. /\ g_group_members' \in Seq(Member) /\ Len(g_group_members') = Len(g_group_members)
      /\ DOMAIN g_group_members' = DOMAIN g_group_members
  BY <1>1, <1>4, <1>5, <1>6
<1>8. /\ g_group_members'[k] = m
      /\ \A i \in DOMAIN g_group_members : i # k => g_group_members'[i] = g_group_members[i]
  BY <1>4, <1>6
<1> QED
  BY <1>1, <1>3, <1>7, <1>8 DEF k

-----------------------------------------------------------------------------
(* The invariant.  Both properties are inductive with the types: every       *)
(* handler that adds a record searches for one first, and creating a group is *)
(* the only way to write "admin".                                            *)

GroupInv == TypeOK /\ OneMembership /\ AdminIsCreator

LEMMA InitGroupInv == Init => GroupInv
BY DEF Init, GroupInv, TypeOK, OneMembership, AdminIsCreator, RecordsOf, is_group_admin, Member

LEMMA AddKeepsOne ==
  ASSUME TypeOK, OneMembership, NEW g \in Groups \cup {NoGroup}, NEW u \in Ids, NEW r \in Roles,
         g_group_members' = add_group_member(g, u, r)
  PROVE  OneMembership'
<1>1. CASE g_group_members' = g_group_members
  BY <1>1 DEF OneMembership, RecordsOf
<1>2. ASSUME NEW n, Added(n, g, u, r) PROVE OneMembership'
  <2>1. ASSUME NEW h \in Groups, NEW v \in Ids
        PROVE  RecordsOf(h, v)' \subseteq IF h = g /\ v = u THEN {n} ELSE RecordsOf(h, v)
    BY <1>2 DEF Added, RecordsOf
  <2> QED
    BY <2>1 DEF OneMembership
<1> QED
  BY <1>1, <1>2, AddChanges

LEMMA OverwriteKeepsOne ==
  ASSUME OneMembership, NEW g, NEW u, NEW k \in RecordsOf(g, u), NEW h \in {g, NoGroup}, NEW r,
         DOMAIN g_group_members' = DOMAIN g_group_members,
         \A i \in DOMAIN g_group_members : i # k => g_group_members'[i] = g_group_members[i],
         g_group_members'[k] = [group |-> h, user |-> u, role |-> r]
  PROVE  OneMembership'
<1>1. NoGroup \notin Groups
  BY DEF NoGroup, Groups
<1>2. \A f \in Groups, v \in Ids : RecordsOf(f, v)' \subseteq RecordsOf(f, v)
  BY <1>1 DEF RecordsOf
<1> QED
  BY <1>2 DEF OneMembership

\* A table whose admins were admins before keeps them creators.
LEMMA NoNewAdmin ==
  ASSUME AdminIsCreator, created_by' = created_by,
         \A g \in Groups, u \in Ids : is_group_admin(g, u)' => is_group_admin(g, u)
  PROVE  AdminIsCreator'
BY DEF AdminIsCreator, Exists

LEMMA AddOrdinary ==
  ASSUME TypeOK, NEW g \in Groups \cup {NoGroup}, NEW u \in Ids, NEW r \in {"member", "invited"},
         g_group_members' = add_group_member(g, u, r)
  PROVE  \A h \in Groups, v \in Ids : is_group_admin(h, v)' => is_group_admin(h, v)
<1>0. r \in Roles
  BY DEF Roles
<1>1. CASE g_group_members' = g_group_members
  BY <1>1 DEF is_group_admin, RecordsOf
<1>2. ASSUME NEW n, Added(n, g, u, r)
      PROVE  \A h \in Groups, v \in Ids : is_group_admin(h, v)' => is_group_admin(h, v)
  BY <1>2 DEF Added, is_group_admin, RecordsOf
<1>3. g_group_members' = g_group_members \/ \E n : Added(n, g, u, r)
  BY <1>0, AddChanges
<1> QED
  BY <1>1, <1>2, <1>3

LEMMA CreateGroupInv ==
  ASSUME GroupInv, NEW u \in Users \cup {0}, handle_group_create(u)
  PROVE  GroupInv'
<1>0. TypeOK /\ OneMembership /\ AdminIsCreator
  BY DEF GroupInv
<1>1. /\ created_by \in Seq(Users) /\ Len(created_by) \in Nat
      /\ DOMAIN created_by = 1 .. Len(created_by)
  BY <1>0 DEF TypeOK
<1>2. PICK c \in Groups : c = Len(created_by) + 1
  BY <1>1 DEF handle_group_create, Groups
<1>3. /\ u \in Users /\ u \in Ids /\ up' = up /\ online' = online /\ actor' = u
      /\ created_by' = Append(created_by, u) /\ "admin" \in Roles
      /\ g_group_members' = add_group_member(c, u, "admin")
  BY <1>2 DEF handle_group_create, Serve, NewGroupId, Ids, Roles
<1>4. /\ created_by' \in Seq(Users) /\ Len(created_by') = c /\ c <= MaxGroups
      /\ DOMAIN created_by' = 1 .. c /\ created_by'[c] = u
      /\ \A g \in DOMAIN created_by : created_by'[g] = created_by[g]
  BY <1>3, <1>1, <1>2 DEF Groups
<1>5. \A g \in Groups : Exists(g) => Exists(g)' /\ created_by'[g] = created_by[g]
  BY <1>1, <1>2, <1>4 DEF Exists
<1>6. Exists(c)'
  BY <1>1, <1>2, <1>4 DEF Exists
<1>7. TypeOK'
  BY <1>0, <1>3, <1>2, <1>4, AddChanges DEF TypeOK
<1>8. OneMembership'
  BY <1>0, <1>3, <1>2, AddKeepsOne
<1>9. AdminIsCreator'
  <2>1. ASSUME NEW g \in Groups, NEW v \in Ids, is_group_admin(g, v)'
        PROVE  is_group_admin(g, v) \/ (g = c /\ v = u)
    <3>1. CASE g_group_members' = g_group_members
      BY <2>1, <3>1 DEF is_group_admin, RecordsOf
    <3>2. ASSUME NEW n, Added(n, c, u, "admin")
          PROVE  is_group_admin(g, v) \/ (g = c /\ v = u)
      BY <2>1, <3>2 DEF Added, is_group_admin, RecordsOf
    <3>3. g_group_members' = g_group_members \/ \E n : Added(n, c, u, "admin")
      BY <1>0, <1>3, <1>2, AddChanges
    <3> QED
      BY <3>1, <3>2, <3>3
  <2>2. ASSUME NEW g \in Groups, NEW v \in Ids, is_group_admin(g, v)'
        PROVE  Exists(g)' /\ created_by'[g] = v
    BY <1>0, <1>4, <1>5, <1>6, <2>1, <2>2 DEF AdminIsCreator
  <2> QED
    BY <2>2 DEF AdminIsCreator
<1> QED
  BY <1>7, <1>8, <1>9 DEF GroupInv

LEMMA InviteGroupInv ==
  ASSUME GroupInv, NEW u \in Users \cup {0}, NEW g \in Keys, NEW v \in Ids,
         handle_group_invite(u, g, v)
  PROVE  GroupInv'
<1>0. TypeOK /\ OneMembership /\ AdminIsCreator
  BY DEF GroupInv
<1>1. /\ g \in Groups \cup {NoGroup} /\ InvitedRole \in Roles /\ InvitedRole \in {"member", "invited"}
      /\ up' \in BOOLEAN /\ online' = online /\ created_by' = created_by /\ actor' = u
  BY <1>0 DEF handle_group_invite, Serve, InvitedRole, Roles, TypeOK
<1>2. CASE g_group_members' = g_group_members
  BY <1>0, <1>1, <1>2
     DEF GroupInv, TypeOK, OneMembership, AdminIsCreator, RecordsOf, is_group_admin, Exists
<1>3. CASE g_group_members' = add_group_member(g, v, InvitedRole)
  <2>1. TypeOK'
    BY <1>0, <1>1, <1>3, AddChanges DEF TypeOK
  <2>2. OneMembership'
    BY <1>0, <1>1, <1>3, AddKeepsOne
  <2>3. AdminIsCreator'
    BY <1>0, <1>1, <1>3, AddOrdinary, NoNewAdmin
  <2> QED
    BY <2>1, <2>2, <2>3 DEF GroupInv
<1> QED
  BY <1>2, <1>3 DEF handle_group_invite

LEMMA JoinGroupInv ==
  ASSUME GroupInv, NEW u \in Users \cup {0}, NEW g \in Keys, handle_group_join(u, g)
  PROVE  GroupInv'
<1>0. TypeOK /\ OneMembership /\ AdminIsCreator
  BY DEF GroupInv
<1>1. /\ g \in Groups \cup {NoGroup} /\ JoinedRole \in Roles /\ JoinedRole = "member"
      /\ u \in Ids /\ up' = up /\ online' = online /\ created_by' = created_by /\ actor' = u
  BY DEF handle_group_join, Serve, JoinedRole, Roles, Ids
<1>2. CASE is_group_member(g, u) /\ g_group_members' = update_group_member_role(g, u, JoinedRole)
  <2>1. PICK k \in RecordsOf(g, u) :
          /\ g_group_members' \in Seq(Member) /\ Len(g_group_members') <= MaxMembers
          /\ DOMAIN g_group_members' = DOMAIN g_group_members
          /\ \A i \in DOMAIN g_group_members : i # k => g_group_members'[i] = g_group_members[i]
          /\ g_group_members'[k] = [group |-> g, user |-> u, role |-> JoinedRole]
    BY <1>0, <1>1, <1>2, OverwriteChanges
  <2>2. TypeOK'
    BY <1>0, <1>1, <2>1 DEF TypeOK
  <2>3. OneMembership'
    BY <1>0, <1>1, <2>1, OverwriteKeepsOne
  <2>4. \A h \in Groups, w \in Ids : is_group_admin(h, w)' => is_group_admin(h, w)
    BY <1>1, <2>1 DEF is_group_admin, RecordsOf
  <2> QED
    BY <1>0, <1>1, <2>2, <2>3, <2>4, NoNewAdmin DEF GroupInv
<1>3. CASE g_group_members' = add_group_member(g, u, JoinedRole)
  <2>1. TypeOK'
    BY <1>0, <1>1, <1>3, AddChanges DEF TypeOK
  <2>2. OneMembership'
    BY <1>0, <1>1, <1>3, AddKeepsOne
  <2>3. AdminIsCreator'
    BY <1>0, <1>1, <1>3, AddOrdinary, NoNewAdmin
  <2> QED
    BY <2>1, <2>2, <2>3 DEF GroupInv
<1> QED
  BY <1>2, <1>3 DEF handle_group_join

\* Leaving and removing take one record out of its group.
LEMMA RemovedGroupInv ==
  ASSUME GroupInv, NEW g \in Keys, NEW v \in Ids, is_group_member(g, v),
         g_group_members' = remove_group_member(g, v),
         up' \in BOOLEAN, UNCHANGED <<online, created_by>>, actor' \in Users \cup {0}
  PROVE  GroupInv'
<1> DEFINE r == g_group_members[First(RecordsOf(g, v))].role
<1>0. TypeOK /\ OneMembership /\ AdminIsCreator
  BY DEF GroupInv
<1>1. First(RecordsOf(g, v)) \in RecordsOf(g, v)
  BY <1>0, MembersAreRecords, FirstIsFound DEF is_group_member, RecordsOf
<1>2. r \in Roles
  BY <1>0, <1>1, MembersAreRecords DEF RecordsOf, Member
<1>3. PICK k \in RecordsOf(g, v) :
        /\ g_group_members' \in Seq(Member) /\ Len(g_group_members') <= MaxMembers
        /\ DOMAIN g_group_members' = DOMAIN g_group_members
        /\ \A i \in DOMAIN g_group_members : i # k => g_group_members'[i] = g_group_members[i]
        /\ g_group_members'[k] = [group |-> NoGroup, user |-> v, role |-> r]
  BY <1>0, <1>2, OverwriteChanges
<1> HIDE DEF r
<1>4. TypeOK'
  BY <1>0, <1>3 DEF TypeOK
<1>5. OneMembership'
  BY <1>0, <1>3, OverwriteKeepsOne
<1>6. \A h \in Groups, w \in Ids : is_group_admin(h, w)' => is_group_admin(h, w)
  BY <1>3 DEF is_group_admin, RecordsOf, NoGroup, Groups
<1> QED
  BY <1>0, <1>4, <1>5, <1>6, NoNewAdmin DEF GroupInv

LEMMA NextGroupInv == GroupInv /\ [Next]_vars => GroupInv'
<1> SUFFICES ASSUME GroupInv, [Next]_vars PROVE GroupInv'
  OBVIOUS
<1>0. TypeOK /\ OneMembership /\ AdminIsCreator
  BY DEF GroupInv
<1>1. ASSUME UNCHANGED <<created_by, g_group_members>>, up' \in BOOLEAN,
             online' \subseteq Ids \cup {0}, actor' \in Users \cup {0}
      PROVE  GroupInv'
  BY <1>0, <1>1
     DEF GroupInv, TypeOK, OneMembership, AdminIsCreator, RecordsOf, is_group_admin, Exists
<1>2. CASE UNCHANGED vars
  BY <1>0, <1>1, <1>2 DEF vars, TypeOK
<1>3. ASSUME NEW u \in Users \cup {0}, Come(u) \/ Go(u) PROVE GroupInv'
  BY <1>0, <1>1, <1>3 DEF Come, Go, TypeOK, Ids
<1>4. ASSUME NEW u \in Users \cup {0}, NEW g \in Keys, handle_group_message(u, g) PROVE GroupInv'
  BY <1>0, <1>1, <1>4 DEF handle_group_message, Serve, TypeOK
<1>5. ASSUME NEW u \in Users \cup {0}, NEW g \in Keys, handle_group_leave(u, g) PROVE GroupInv'
  BY <1>0, <1>5, RemovedGroupInv DEF handle_group_leave, Serve, TypeOK, Ids
<1>6. ASSUME NEW u \in Users \cup {0}, NEW g \in Keys, NEW v \in Ids,
             handle_group_remove_user(u, g, v)
      PROVE  GroupInv'
  BY <1>0, <1>6, RemovedGroupInv DEF handle_group_remove_user, Serve, TypeOK
<1> QED
  BY <1>2, <1>3, <1>4, <1>5, <1>6, CreateGroupInv, InviteGroupInv, JoinGroupInv DEF Next

LEMMA GroupInvAlways == Spec => []GroupInv
BY InitGroupInv, NextGroupInv, PTL DEF Spec

\* The group and membership tables keep their types and sizes.
THEOREM GroupTypes == Spec => []TypeOK
BY GroupInvAlways, PTL DEF GroupInv

\* A user has at most one record in a group, for any number of users, groups and
\* records: joining, accepting and inviting all look for one before they add one.
THEOREM MembershipsCorrect == Spec => []OneMembership
BY GroupInvAlways, PTL DEF GroupInv

\* The only admin a group ever has is its creator: no handler raises a member.
THEOREM OnlyCreatorIsAdmin == Spec => []AdminIsCreator
BY GroupInvAlways, PTL DEF GroupInv

-----------------------------------------------------------------------------
(* Who may change what *)

\* A step that leaves a user's records alone leaves its roles alone.
LEMMA SameRecords ==
  ASSUME NEW h, NEW w, RecordsOf(h, w)' = RecordsOf(h, w),
         \A i \in RecordsOf(h, w) : g_group_members'[i] = g_group_members[i]
  PROVE  RoleOf(h, w)' = RoleOf(h, w)
BY DEF RoleOf

\* add_group_member takes no role away, and gives its role to its user only.
LEMMA AddGives ==
  ASSUME GroupInv, NEW g \in Groups \cup {NoGroup}, NEW u \in Ids, NEW r \in Roles,
         g_group_members' = add_group_member(g, u, r), NEW h \in Groups, NEW w \in Ids
  PROVE  /\ RoleOf(h, w) \subseteq RoleOf(h, w)'
         /\ RoleOf(h, w)' \subseteq RoleOf(h, w) \cup (IF h = g /\ w = u THEN {r} ELSE {})
<1>1. CASE g_group_members' = g_group_members
  BY <1>1, SameRecords DEF RecordsOf
<1>2. ASSUME NEW n, Added(n, g, u, r)
      PROVE  /\ RoleOf(h, w) \subseteq RoleOf(h, w)'
             /\ RoleOf(h, w)' \subseteq RoleOf(h, w) \cup (IF h = g /\ w = u THEN {r} ELSE {})
  <2>1. \A i \in RecordsOf(h, w) : i \in RecordsOf(h, w)' /\ g_group_members'[i] = g_group_members[i]
    BY <1>2 DEF Added, RecordsOf
  <2>2. \A i \in RecordsOf(h, w)' : i \in RecordsOf(h, w) \/ (i = n /\ h = g /\ w = u)
    BY <1>2 DEF Added, RecordsOf
  <2>3. g_group_members'[n].role = r
    BY <1>2 DEF Added
  <2> QED
    BY <2>1, <2>2, <2>3 DEF RoleOf
<1> QED
  BY <1>1, <1>2, AddChanges DEF GroupInv

\* remove_group_member takes its user's role and no other.
LEMMA RemoveTakes ==
  ASSUME GroupInv, NEW g, NEW u, is_group_member(g, u),
         g_group_members' = remove_group_member(g, u), NEW h \in Groups, NEW w \in Ids
  PROVE  /\ RoleOf(h, w)' \subseteq RoleOf(h, w)
         /\ h # g \/ w # u => RoleOf(h, w)' = RoleOf(h, w)
<1> DEFINE r == g_group_members[First(RecordsOf(g, u))].role
<1>0. TypeOK
  BY DEF GroupInv
<1>1. First(RecordsOf(g, u)) \in RecordsOf(g, u)
  BY <1>0, MembersAreRecords, FirstIsFound DEF is_group_member, RecordsOf
<1>2. r \in Roles
  BY <1>0, <1>1, MembersAreRecords DEF RecordsOf, Member
<1>3. PICK k \in RecordsOf(g, u) :
        /\ DOMAIN g_group_members' = DOMAIN g_group_members
        /\ \A i \in DOMAIN g_group_members : i # k => g_group_members'[i] = g_group_members[i]
        /\ g_group_members'[k] = [group |-> NoGroup, user |-> u, role |-> r]
  BY <1>0, <1>2, OverwriteChanges
<1> HIDE DEF r
<1>4. NoGroup \notin Groups
  BY DEF NoGroup, Groups
<1>5. /\ RecordsOf(h, w)' = RecordsOf(h, w) \ {k}
      /\ \A i \in RecordsOf(h, w)' : g_group_members'[i] = g_group_members[i]
  BY <1>3, <1>4 DEF RecordsOf
<1>6. h # g \/ w # u => k \notin RecordsOf(h, w)
  BY <1>3 DEF RecordsOf
<1> QED
  BY <1>5, <1>6 DEF RoleOf

\* update_group_member_role changes its user's role and no other.
LEMMA UpdateGives ==
  ASSUME GroupInv, NEW g \in Groups \cup {NoGroup}, NEW u, is_group_member(g, u), NEW r \in Roles,
         g_group_members' = update_group_member_role(g, u, r), NEW h \in Groups, NEW w \in Ids
  PROVE  /\ RoleOf(h, w) # {} => RoleOf(h, w)' # {}
         /\ h # g \/ w # u => RoleOf(h, w)' = RoleOf(h, w)
<1>1. PICK k \in RecordsOf(g, u) :
        /\ DOMAIN g_group_members' = DOMAIN g_group_members
        /\ \A i \in DOMAIN g_group_members : i # k => g_group_members'[i] = g_group_members[i]
        /\ g_group_members'[k] = [group |-> g, user |-> u, role |-> r]
  BY OverwriteChanges DEF GroupInv
<1>2. RecordsOf(h, w)' = RecordsOf(h, w)
  BY <1>1 DEF RecordsOf
<1>3. h # g \/ w # u => k \notin RecordsOf(h, w)
  BY <1>1 DEF RecordsOf
<1>4. \A i \in RecordsOf(h, w) : i # k => g_group_members'[i] = g_group_members[i]
  BY <1>1 DEF RecordsOf
<1> QED
  BY <1>2, <1>3, <1>4 DEF RoleOf

\* What one step may do to the role of w in group h.
RightfulRemoval(h, w) ==
  RoleOf(h, w) # {} /\ RoleOf(h, w)' = {} => actor' = w \/ "admin" \in RoleOf(h, actor')

RightfulJoin(h, w) ==
  (RoleOf(h, w)' \ RoleOf(h, w)) \ {"invited"} # {} => actor' = w

LEMMA NextRightful ==
  ASSUME GroupInv, Next, NEW h \in Groups, NEW w \in Ids
  PROVE  RightfulRemoval(h, w) /\ RightfulJoin(h, w)
<1> USE DEF RightfulRemoval, RightfulJoin
<1>0. TypeOK
  BY DEF GroupInv
<1>1. CASE g_group_members' = g_group_members
  <2>1. RoleOf(h, w)' = RoleOf(h, w)
    BY <1>1, SameRecords DEF RecordsOf
  <2> QED
    BY <2>1
<1>2. ASSUME NEW u \in Users \cup {0}, handle_group_create(u)
      PROVE  RightfulRemoval(h, w) /\ RightfulJoin(h, w)
  <2>1. /\ NewGroupId \in Groups \cup {NoGroup} /\ u \in Ids /\ "admin" \in Roles /\ actor' = u
        /\ g_group_members' = add_group_member(NewGroupId, u, "admin")
    BY <1>0, <1>2 DEF handle_group_create, Serve, NewGroupId, Groups, Ids, Roles, TypeOK
  <2>2. /\ RoleOf(h, w) \subseteq RoleOf(h, w)'
        /\ RoleOf(h, w)' \subseteq RoleOf(h, w) \cup (IF h = NewGroupId /\ w = u THEN {"admin"} ELSE {})
    BY <2>1, AddGives
  <2> QED
    BY <2>1, <2>2
<1>3. ASSUME NEW u \in Users \cup {0}, NEW g \in Keys, NEW v \in Ids, handle_group_invite(u, g, v)
      PROVE  RightfulRemoval(h, w) /\ RightfulJoin(h, w)
  <2>1. CASE g_group_members' = add_group_member(g, v, InvitedRole)
    <3>1. /\ RoleOf(h, w) \subseteq RoleOf(h, w)'
          /\ RoleOf(h, w)' \subseteq RoleOf(h, w) \cup {"invited"}
      BY <2>1, AddGives DEF InvitedRole, Roles
    <3> QED
      BY <3>1
  <2> QED
    BY <1>1, <1>3, <2>1 DEF handle_group_invite
<1>4. ASSUME NEW u \in Users \cup {0}, NEW g \in Keys, handle_group_join(u, g)
      PROVE  RightfulRemoval(h, w) /\ RightfulJoin(h, w)
  <2>1. /\ g \in Groups \cup {NoGroup} /\ u \in Ids /\ JoinedRole \in Roles /\ actor' = u
    BY <1>4 DEF handle_group_join, Serve, Ids, JoinedRole, Roles
  <2>2. CASE is_group_member(g, u) /\ g_group_members' = update_group_member_role(g, u, JoinedRole)
    <3>1. /\ RoleOf(h, w) # {} => RoleOf(h, w)' # {}
          /\ w # u => RoleOf(h, w)' = RoleOf(h, w)
      BY <2>1, <2>2, UpdateGives
    <3> QED
      BY <2>1, <3>1
  <2>3. CASE g_group_members' = add_group_member(g, u, JoinedRole)
    <3>1. /\ RoleOf(h, w) \subseteq RoleOf(h, w)'
          /\ RoleOf(h, w)' \subseteq RoleOf(h, w) \cup (IF h = g /\ w = u THEN {JoinedRole} ELSE {})
      BY <2>1, <2>3, AddGives
    <3> QED
      BY <2>1, <3>1
  <2> QED
    BY <1>4, <2>2, <2>3 DEF handle_group_join
<1>5. ASSUME NEW u \in Users \cup {0}, NEW g \in Keys, handle_group_leave(u, g)
      PROVE  RightfulRemoval(h, w) /\ RightfulJoin(h, w)
  <2>1. /\ actor' = u /\ is_group_member(g, u) /\ g_group_members' = remove_group_member(g, u)
    BY <1>5 DEF handle_group_leave, Serve
  <2>2. /\ RoleOf(h, w)' \subseteq RoleOf(h, w)
        /\ h # g \/ w # u => RoleOf(h, w)' = RoleOf(h, w)
    BY <2>1, RemoveTakes
  <2> QED
    BY <2>1, <2>2
<1>6. ASSUME NEW u \in Users \cup {0}, NEW g \in Keys, NEW v \in Ids,
             handle_group_remove_user(u, g, v)
      PROVE  RightfulRemoval(h, w) /\ RightfulJoin(h, w)
  <2>1. /\ actor' = u /\ is_group_member(g, v) /\ g_group_members' = remove_group_member(g, v)
        /\ is_group_admin(g, u)
    BY <1>6 DEF handle_group_remove_user, Serve
  <2>2. /\ RoleOf(h, w)' \subseteq RoleOf(h, w)
        /\ h # g \/ w # v => RoleOf(h, w)' = RoleOf(h, w)
    BY <2>1, RemoveTakes
  <2>3. "admin" \in RoleOf(g, u)
    BY <2>1 DEF is_group_admin, RoleOf
  <2> QED
    BY <2>1, <2>2, <2>3
<1> QED
  BY <1>1, <1>2, <1>3, <1>4, <1>5, <1>6 DEF Next, Come, Go, handle_group_message

\* A user stops being in a group only by leaving or by an admin's hand.
THEOREM OnlyRightfulRemoval == Spec => RemovedByRight
<1>1. GroupInv /\ [Next]_vars
        => [\A g \in Groups, u \in Ids :
              RoleOf(g, u) # {} /\ RoleOf(g, u)' = {}
                => actor' = u \/ "admin" \in RoleOf(g, actor')]_vars
  BY NextRightful DEF RightfulRemoval
<1> QED
  BY <1>1, GroupInvAlways, PTL DEF Spec, RemovedByRight

\* Any role but "invited" is taken by the user itself.
THEOREM OnlyOwnJoin == Spec => JoinsByOwnHand
<1>1. GroupInv /\ [Next]_vars
        => [\A g \in Groups, u \in Ids :
              (RoleOf(g, u)' \ RoleOf(g, u)) \ {"invited"} # {} => actor' = u]_vars
  BY NextRightful DEF RightfulJoin
<1> QED
  BY <1>1, GroupInvAlways, PTL DEF Spec, JoinsByOwnHand

-----------------------------------------------------------------------------
(* What the server can die of *)

\* A record is of a group that exists, or deleted.
GroupsExist == \A i \in DOMAIN g_group_members :
  g_group_members[i].group = NoGroup \/ Exists(g_group_members[i].group)

DeathInv == GroupInv /\ GroupsExist /\ DiesOfStaleRecordsOnly

Stale(i) == g_group_members[i].group = NoGroup \/ g_group_members[i].user \notin Users

\* Members of a group that does not exist have deleted records.
LEMMA NoSuchGroup ==
  ASSUME DeathInv, NEW g, NEW u, is_group_member(g, u), ~Exists(g)
  PROVE  g = NoGroup
BY DEF DeathInv, GroupsExist, is_group_member, RecordsOf

\* A new record is of a group that exists; the others stay.
LEMMA AddGroupsExist ==
  ASSUME DeathInv, NEW g \in Groups \cup {NoGroup}, NEW u \in Ids, NEW r \in Roles,
         g_group_members' = add_group_member(g, u, r), g = NoGroup \/ Exists(g)',
         \A h \in Groups : Exists(h) => Exists(h)'
  PROVE  GroupsExist'
<1>0. TypeOK /\ GroupsExist
  BY DEF DeathInv, GroupInv
<1>1. \A i \in DOMAIN g_group_members : g_group_members[i].group \in Groups \cup {NoGroup}
  BY <1>0, MembersAreRecords DEF Member
<1>2. CASE g_group_members' = g_group_members
  BY <1>0, <1>1, <1>2 DEF GroupsExist
<1>3. ASSUME NEW n, Added(n, g, u, r) PROVE GroupsExist'
  <2>1. g_group_members'[n].group = g
    BY <1>3 DEF Added
  <2> QED
    BY <1>0, <1>1, <1>3, <2>1 DEF GroupsExist, Added
<1> QED
  BY <1>0, <1>2, <1>3, AddChanges

\* Removing a member leaves a deleted record behind.
LEMMA RemoveGroupsExist ==
  ASSUME DeathInv, NEW g, NEW u, is_group_member(g, u),
         g_group_members' = remove_group_member(g, u), created_by' = created_by
  PROVE  GroupsExist' /\ \E i \in DOMAIN g_group_members' : Stale(i)'
<1> DEFINE r == g_group_members[First(RecordsOf(g, u))].role
<1>0. TypeOK /\ GroupsExist
  BY DEF DeathInv, GroupInv
<1>1. First(RecordsOf(g, u)) \in RecordsOf(g, u)
  BY <1>0, MembersAreRecords, FirstIsFound DEF is_group_member, RecordsOf
<1>2. r \in Roles
  BY <1>0, <1>1, MembersAreRecords DEF RecordsOf, Member
<1>3. PICK k \in RecordsOf(g, u) :
        /\ DOMAIN g_group_members' = DOMAIN g_group_members
        /\ \A i \in DOMAIN g_group_members : i # k => g_group_members'[i] = g_group_members[i]
        /\ g_group_members'[k] = [group |-> NoGroup, user |-> u, role |-> r]
  BY <1>0, <1>2, OverwriteChanges
<1> HIDE DEF r
<1>4. k \in DOMAIN g_group_members' /\ g_group_members'[k].group = NoGroup
  BY <1>3 DEF RecordsOf
<1> QED
  BY <1>0, <1>3, <1>4 DEF GroupsExist, Exists, Stale

\* A new role is one in the same group.
LEMMA UpdateGroupsExist ==
  ASSUME DeathInv, NEW g \in Groups \cup {NoGroup}, NEW u, is_group_member(g, u), NEW r \in Roles,
         g_group_members' = update_group_member_role(g, u, r), created_by' = created_by
  PROVE  GroupsExist'
<1>0. GroupsExist
  BY DEF DeathInv
<1>1. PICK k \in RecordsOf(g, u) :
        /\ DOMAIN g_group_members' = DOMAIN g_group_members
        /\ \A i \in DOMAIN g_group_members : i # k => g_group_members'[i] = g_group_members[i]
        /\ g_group_members'[k] = [group |-> g, user |-> u, role |-> r]
  BY OverwriteChanges DEF DeathInv, GroupInv
<1>2. g_group_members[k].group = g /\ g_group_members'[k].group = g
  BY <1>1 DEF RecordsOf
<1> QED
  BY <1>0, <1>1, <1>2 DEF GroupsExist, Exists, RecordsOf

\* The lookup that fails is of the group of a deleted record, or of the name of
\* an inviter who is no user.
LEMMA NextDeathInv == DeathInv /\ [Next]_vars => DeathInv'
<1> SUFFICES ASSUME DeathInv, [Next]_vars PROVE DeathInv'
  OBVIOUS
<1>0. TypeOK /\ GroupsExist /\ DiesOfStaleRecordsOnly /\ GroupInv'
  BY NextGroupInv DEF DeathInv, GroupInv
<1>1. CASE UNCHANGED <<g_group_members, created_by>> /\ (up' = up \/ \E i \in DOMAIN g_group_members : Stale(i))
  BY <1>0, <1>1 DEF DeathInv, GroupsExist, Exists, DiesOfStaleRecordsOnly, Stale
<1>2. ASSUME GroupsExist', up' PROVE DeathInv'
  BY <1>0, <1>2 DEF DeathInv, DiesOfStaleRecordsOnly
<1>3. ASSUME NEW u \in Users \cup {0}, handle_group_create(u) PROVE DeathInv'
  <2>1. PICK n : n = NewGroupId
    OBVIOUS
  <2>2. /\ n \in Groups \cup {NoGroup} /\ u \in Ids /\ "admin" \in Roles /\ up'
        /\ g_group_members' = add_group_member(n, u, "admin")
    BY <1>0, <1>3, <2>1 DEF handle_group_create, Serve, NewGroupId, Groups, Ids, Roles, TypeOK
  <2>3. created_by \in Seq(Users) /\ created_by' = Append(created_by, u) /\ u \in Users
    BY <1>0, <1>3 DEF handle_group_create, TypeOK
  <2>4. DOMAIN created_by' = DOMAIN created_by \cup {n}
    BY <2>1, <2>3 DEF NewGroupId
  <2>5. Exists(n)' /\ \A h \in Groups : Exists(h) => Exists(h)'
    BY <2>4 DEF Exists
  <2> QED
    BY <1>2, <2>2, <2>5, AddGroupsExist
<1>4. ASSUME NEW u \in Users \cup {0}, NEW g \in Keys, NEW v \in Ids, handle_group_invite(u, g, v)
      PROVE  DeathInv'
  <2>1. CASE up' = FALSE /\ UNCHANGED <<g_group_members, created_by>> /\ (~Exists(g) \/ u \notin Users)
    <3>1. PICK i \in RecordsOf(g, u) : TRUE
      BY <1>4 DEF handle_group_invite, is_group_member
    <3>2. i \in DOMAIN g_group_members /\ g_group_members[i].group = g /\ g_group_members[i].user = u
      BY <3>1 DEF RecordsOf
    <3>3. Stale(i)
      BY <1>4, <2>1, <3>2, NoSuchGroup DEF Stale, handle_group_invite
    <3> QED
      BY <1>1, <2>1, <3>2, <3>3
  <2>2. CASE up' = up /\ g_group_members' = add_group_member(g, v, InvitedRole)
    <3>1. g \in Groups \cup {NoGroup} /\ InvitedRole \in Roles /\ created_by' = created_by /\ up
      BY <1>4 DEF handle_group_invite, Serve, InvitedRole, Roles
    <3>2. g = NoGroup \/ Exists(g)'
      BY <1>4, <3>1, NoSuchGroup DEF handle_group_invite, Exists
    <3>3. \A h \in Groups : Exists(h) => Exists(h)'
      BY <3>1 DEF Exists
    <3> QED
      BY <1>2, <2>2, <3>1, <3>2, <3>3, AddGroupsExist
  <2> QED
    BY <1>4, <2>1, <2>2 DEF handle_group_invite
<1>5. ASSUME NEW u \in Users \cup {0}, NEW g \in Keys, handle_group_join(u, g) PROVE DeathInv'
  <2>1. /\ g \in Groups \cup {NoGroup} /\ u \in Ids /\ JoinedRole \in Roles
        /\ Exists(g) /\ created_by' = created_by /\ up'
    BY <1>5 DEF handle_group_join, Serve, Ids, JoinedRole, Roles
  <2>2. Exists(g)' /\ \A h \in Groups : Exists(h) => Exists(h)'
    BY <2>1 DEF Exists
  <2>3. CASE is_group_member(g, u) /\ g_group_members' = update_group_member_role(g, u, JoinedRole)
    BY <1>2, <2>1, <2>3, UpdateGroupsExist
  <2>4. CASE g_group_members' = add_group_member(g, u, JoinedRole)
    BY <1>2, <2>1, <2>2, <2>4, AddGroupsExist
  <2> QED
    BY <1>5, <2>3, <2>4 DEF handle_group_join
<1>6. ASSUME NEW u \in Users \cup {0}, NEW g \in Keys, NEW v \in Ids,
             \/ v = u /\ handle_group_leave(u, g)
             \/ handle_group_remove_user(u, g, v)
      PROVE  DeathInv'
  <2>1. is_group_member(g, v) /\ g_group_members' = remove_group_member(g, v) /\ created_by' = created_by
    BY <1>6 DEF handle_group_leave, handle_group_remove_user
  <2>2. GroupsExist' /\ \E i \in DOMAIN g_group_members' : Stale(i)'
    BY <2>1, RemoveGroupsExist
  <2> QED
    BY <1>0, <2>2 DEF DeathInv, DiesOfStaleRecordsOnly, Stale
<1>7. ASSUME NEW u \in Users \cup {0}, NEW g \in Keys, handle_group_message(u, g) PROVE DeathInv'
  <2>1. PICK i \in RecordsOf(g, u) : TRUE
    BY <1>7 DEF handle_group_message, is_group_member
  <2>2. i \in DOMAIN g_group_members /\ g_group_members[i].group = g
    BY <2>1 DEF RecordsOf
  <2>3. CASE Exists(g)
    BY <1>1, <1>7, <2>3 DEF handle_group_message, Serve
  <2>4. CASE ~Exists(g)
    BY <1>1, <1>7, <2>2, <2>4, NoSuchGroup DEF handle_group_message, Stale
  <2> QED
    BY <2>3, <2>4
<1>8. ASSUME NEW u \in Users \cup {0}, Come(u) \/ Go(u) PROVE DeathInv'
  BY <1>1, <1>8 DEF Come, Go
<1>9. CASE UNCHANGED vars
  BY <1>1, <1>9 DEF vars
<1>10. ASSUME NEW u \in Users \cup {0}, NEW g \in Keys, handle_group_leave(u, g) PROVE DeathInv'
  BY <1>6, <1>10 DEF handle_group_leave, Ids
<1> QED
  BY <1>3, <1>4, <1>5, <1>6, <1>7, <1>8, <1>9, <1>10 DEF Next

\* The server dies of a failed lookup only where a deleted record or a record of
\* an id that is no user is left in the table, for any number of them.
THEOREM DeathNeedsStaleRecord == Spec => []DiesOfStaleRecordsOnly
<1>1. Init => DeathInv
  BY InitGroupInv DEF DeathInv, GroupsExist, DiesOfStaleRecordsOnly, Init
<1>2. DeathInv => DiesOfStaleRecordsOnly
  BY DEF DeathInv
<1> QED
  BY <1>1, <1>2, NextDeathInv, PTL DEF Spec

=============================================================================
