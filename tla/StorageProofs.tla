--------------------------- MODULE StorageProofs ---------------------------
(***************************************************************************)
(* Theorems about Storage, for any persons and any size of the tables: a    *)
(* restart brings back what was saved, and of what was not the oldest      *)
(* records in their places; and as long as no restart meets a users.dat    *)
(* that lost its last save, ids in friendships mean the persons they meant. *)
(***************************************************************************)
EXTENDS Storage, TLAPS

USE StorageAssumption

-----------------------------------------------------------------------------
(* The invariant: each table with its file.  The file holds the oldest      *)
(* records of the table, and all of them unless its last save went wrong.   *)

\* What t begins with.
Begins(s, t) == DOMAIN s \subseteq DOMAIN t /\ \A k \in DOMAIN s : s[k] = t[k]

UsersKept ==
  /\ g_users \in Seq(Persons) /\ Len(g_users) <= MaxUsers
  /\ disk.users \in Seq(Persons) /\ Begins(disk.users, g_users)
  /\ "users" \notin stale => disk.users = g_users

\* The status of a friendship may be out of date, the two persons may not.
SamePeople(s, t) == DOMAIN s \subseteq DOMAIN t /\ \A k \in DOMAIN s : s[k].people = t[k].people

FriendsKept ==
  /\ g_friendships \in Seq(Friendship) /\ Len(g_friendships) <= MaxFriendships
  /\ disk.friends \in Seq(Friendship) /\ SamePeople(disk.friends, g_friendships)
  /\ "friends" \notin stale => disk.friends = g_friendships

\* A message may be on the disk as not delivered that is.
NoMoreDelivered(s, t) == DOMAIN s \subseteq DOMAIN t /\ \A m \in DOMAIN s : s[m] => t[m]

MessagesKept ==
  /\ g_messages \in Seq(BOOLEAN) /\ Len(g_messages) <= MaxMessages
  /\ g_offline_queue \subseteq DOMAIN g_messages
  /\ disk.messages \in Seq(BOOLEAN) /\ NoMoreDelivered(disk.messages, g_messages)
  /\ "messages" \notin stale => Len(disk.messages) = Len(g_messages)

\* What load_groups_from_file makes of the file begins with the groups there are;
\* a record is a group in the file only where it is one in the table, or where
\* the table is shorter.
Marks(s, t) == \A i \in DOMAIN s \cap DOMAIN t : s[i] = "group" => t[i] = "group"

GroupsKept ==
  /\ g_groups \in Seq(Group) /\ Len(g_groups) <= MaxGroups
  /\ g_group_member_count \in 0 .. MaxGroupMembers
  /\ disk.groups.groups \in Seq(Group) /\ disk.groups.bytes \in Nat
  /\ Marks(disk.groups.groups, g_groups)
  /\ "groups" \notin stale => Begins(g_groups, LoadedGroups(disk.groups))

FourFiles == DOMAIN disk = Files /\ disk = [f \in Files |-> disk[f]]

FilesInv ==
  /\ up \in BOOLEAN /\ stale \subseteq Files /\ lost \in BOOLEAN /\ FourFiles
  /\ UsersKept /\ FriendsKept /\ MessagesKept /\ GroupsKept

-----------------------------------------------------------------------------
(* Saving *)

\* A save changes its own file only.
SavedOne(f, new) ==
  /\ FourFiles' /\ up' \in BOOLEAN /\ stale' \subseteq Files
  /\ \A e \in Files : e # f => disk'[e] = disk[e] /\ (e \in stale' <=> e \in stale)
  /\ \/ disk'[f] = new
     \/ disk'[f] = disk[f] /\ f \in stale'
     \/ disk'[f] \in Cut(f, new) /\ f \in stale'

LEMMA SavesItsFile ==
  ASSUME FilesInv, NEW f \in Files, NEW new, Save(f, new)
  PROVE  SavedOne(f, new)
<1>1. FourFiles /\ stale \subseteq Files /\ up \in BOOLEAN
  BY DEF FilesInv
<1>2. ASSUME NEW c, disk' = [disk EXCEPT ![f] = c]
      PROVE  FourFiles' /\ disk'[f] = c /\ \A e \in Files : e # f => disk'[e] = disk[e]
  BY <1>1, <1>2 DEF FourFiles
<1>3. CASE disk' = [disk EXCEPT ![f] = new] /\ up' = TRUE /\ stale' = stale \ {f}
  BY <1>1, <1>2, <1>3 DEF SavedOne
<1>4. CASE UNCHANGED <<disk, up>> /\ stale' = stale \cup {f}
  <2>1. FourFiles'
    BY <1>1, <1>4 DEF FourFiles
  <2> QED
    BY <1>1, <1>4, <2>1 DEF SavedOne
<1>5. CASE (\E c \in Cut(f, new) : disk' = [disk EXCEPT ![f] = c]) /\ up' \in BOOLEAN /\ stale' = stale \cup {f}
  <2>1. PICK c \in Cut(f, new) : disk' = [disk EXCEPT ![f] = c]
    BY <1>5
  <2> QED
    BY <1>1, <1>2, <1>5, <2>1 DEF SavedOne
<1> QED
  BY <1>3, <1>4, <1>5 DEF Save

\* A file cut short holds the oldest records.
LEMMA CutBegins ==
  ASSUME NEW f \in Files \ {"groups"}, NEW T, NEW new \in Seq(T), NEW c \in Cut(f, new)
  PROVE  c \in Seq(T) /\ Begins(c, new)
<1>1. PICK n \in 0 .. Len(new) : c = SubSeq(new, 1, n)
  BY DEF Cut
<1>2. /\ c \in Seq(T) /\ Len(c) = n
      /\ DOMAIN c = 1 .. n /\ DOMAIN new = 1 .. Len(new)
  BY <1>1
<1>3. \A k \in 1 .. n : c[k] = new[k]
  BY <1>1
<1> QED
  BY <1>2, <1>3 DEF Begins

\* groups.dat is cut anywhere; the records it began with are still groups.
LEMMA CutGroups ==
  ASSUME NEW groups, NEW members \in Nat, Len(groups) \in Nat,
         NEW c \in Cut("groups", GroupsImage(groups, members))
  PROVE  c.groups = groups /\ c.bytes \in Nat
<1> DEFINE size == GroupSize * Len(groups) + MemberSize * members
<1>1. PICK n \in 0 .. size : c = [GroupsImage(groups, members) EXCEPT !.bytes = n]
  BY DEF Cut, GroupsImage
<1>2. c = [groups |-> groups, bytes |-> n]
  BY <1>1 DEF GroupsImage
<1>3. GroupSize * Len(groups) \in Nat /\ MemberSize * members \in Nat
  BY StorageAssumption
<1>4. n \in Nat
  BY <1>3
<1> QED
  BY <1>2, <1>4

\* What is not saved or changed stays as it was.
LEMMA UsersUntouched ==
  ASSUME UsersKept, UNCHANGED <<g_users, disk.users>>, "users" \in stale' <=> "users" \in stale
  PROVE  UsersKept'
BY DEF UsersKept

LEMMA FriendsUntouched ==
  ASSUME FriendsKept, UNCHANGED <<g_friendships, disk.friends>>, "friends" \in stale' <=> "friends" \in stale
  PROVE  FriendsKept'
BY DEF FriendsKept

LEMMA MessagesUntouched ==
  ASSUME MessagesKept, UNCHANGED <<g_messages, g_offline_queue, disk.messages>>,
         "messages" \in stale' <=> "messages" \in stale
  PROVE  MessagesKept'
BY DEF MessagesKept

LEMMA GroupsUntouched ==
  ASSUME GroupsKept, UNCHANGED <<g_groups, g_group_member_count, disk.groups>>,
         "groups" \in stale' <=> "groups" \in stale
  PROVE  GroupsKept'
BY DEF GroupsKept

-----------------------------------------------------------------------------
(* Handlers that save one file *)

\* users.dat, after creating the last user, or none.
LEMMA UsersSaved ==
  ASSUME FilesInv, Save("users", g_users'), UNCHANGED <<g_friendships, g_groups, g_group_member_count, lost>>,
         g_users' \in Seq(Persons), Len(g_users') <= MaxUsers, Begins(g_users, g_users'),
         \* what a login delivers
         g_offline_queue' \subseteq g_offline_queue,
         g_messages' \in Seq(BOOLEAN), Len(g_messages') = Len(g_messages),
         NoMoreDelivered(g_messages, g_messages')
  PROVE  FilesInv'
<1>0. UsersKept /\ FriendsKept /\ MessagesKept /\ GroupsKept /\ lost \in BOOLEAN
  BY DEF FilesInv
<1>1. SavedOne("users", g_users')
  BY SavesItsFile DEF Files
<1>2. /\ disk'.friends = disk.friends /\ disk'.messages = disk.messages /\ disk'.groups = disk.groups
      /\ \A e \in Files : e # "users" => (e \in stale' <=> e \in stale)
  BY <1>1 DEF SavedOne, Files
<1>3. \/ disk'.users = g_users'
      \/ disk'.users = disk.users /\ "users" \in stale'
      \/ disk'.users \in Cut("users", g_users') /\ "users" \in stale'
  BY <1>1 DEF SavedOne
<1>4. disk'.users \in Seq(Persons) /\ Begins(disk'.users, g_users')
  <2>1. CASE disk'.users = g_users'
    BY <2>1 DEF Begins
  <2>2. CASE disk'.users = disk.users
    BY <1>0, <2>2 DEF UsersKept, Begins
  <2>3. CASE disk'.users \in Cut("users", g_users')
    BY <2>3, CutBegins DEF Files
  <2> QED
    BY <1>3, <2>1, <2>2, <2>3
<1>5. UsersKept'
  BY <1>3, <1>4 DEF UsersKept
<1>6. MessagesKept'
  <2>1. "messages" \in stale' <=> "messages" \in stale
    BY <1>2 DEF Files
  <2>2. NoMoreDelivered(disk.messages, g_messages') /\ g_offline_queue' \subseteq DOMAIN g_messages'
    BY <1>0 DEF MessagesKept, NoMoreDelivered
  <2> QED
    BY <1>0, <1>2, <2>1, <2>2 DEF MessagesKept
<1>7. FriendsKept' /\ GroupsKept'
  BY <1>0, <1>2, FriendsUntouched, GroupsUntouched DEF Files
<1> QED
  BY <1>0, <1>1, <1>5, <1>6, <1>7 DEF FilesInv, SavedOne

\* friends.dat, after a change that leaves the persons in the records alone.
LEMMA FriendsSaved ==
  ASSUME FilesInv, Save("friends", g_friendships'),
         UNCHANGED <<g_users, g_groups, g_group_member_count, g_messages, g_offline_queue, lost>>,
         g_friendships' \in Seq(Friendship), Len(g_friendships') <= MaxFriendships,
         SamePeople(g_friendships, g_friendships')
  PROVE  FilesInv'
<1>0. UsersKept /\ FriendsKept /\ MessagesKept /\ GroupsKept /\ lost \in BOOLEAN
  BY DEF FilesInv
<1>1. SavedOne("friends", g_friendships')
  BY SavesItsFile DEF Files
<1>2. /\ disk'.users = disk.users /\ disk'.messages = disk.messages /\ disk'.groups = disk.groups
      /\ \A e \in Files : e # "friends" => (e \in stale' <=> e \in stale)
  BY <1>1 DEF SavedOne, Files
<1>3. \/ disk'.friends = g_friendships'
      \/ disk'.friends = disk.friends /\ "friends" \in stale'
      \/ disk'.friends \in Cut("friends", g_friendships') /\ "friends" \in stale'
  BY <1>1 DEF SavedOne
<1>4. disk'.friends \in Seq(Friendship) /\ SamePeople(disk'.friends, g_friendships')
  <2>1. CASE disk'.friends = g_friendships'
    BY <2>1 DEF SamePeople
  <2>2. CASE disk'.friends = disk.friends
    BY <1>0, <2>2 DEF FriendsKept, SamePeople
  <2>3. CASE disk'.friends \in Cut("friends", g_friendships')
    <3>1. disk'.friends \in Seq(Friendship) /\ Begins(disk'.friends, g_friendships')
      BY <2>3, CutBegins DEF Files
    <3> QED
      BY <3>1 DEF Begins, SamePeople
  <2> QED
    BY <1>3, <2>1, <2>2, <2>3
<1>5. FriendsKept'
  BY <1>3, <1>4 DEF FriendsKept
<1>6. UsersKept' /\ MessagesKept' /\ GroupsKept'
  BY <1>0, <1>2, UsersUntouched, MessagesUntouched, GroupsUntouched DEF Files
<1> QED
  BY <1>0, <1>1, <1>5, <1>6 DEF FilesInv, SavedOne

\* messages.dat, with a message that is delivered only afterwards.
LEMMA MessageSaved ==
  ASSUME FilesInv, NEW delivered \in BOOLEAN, Len(g_messages) < MaxMessages,
         Save("messages", Append(g_messages, FALSE)), g_messages' = Append(g_messages, delivered),
         g_offline_queue' \subseteq g_offline_queue \cup {Len(g_messages')},
         UNCHANGED <<g_users, g_friendships, g_groups, g_group_member_count, lost>>
  PROVE  FilesInv'
<1>0. UsersKept /\ FriendsKept /\ MessagesKept /\ GroupsKept /\ lost \in BOOLEAN
  BY DEF FilesInv
<1> DEFINE new == Append(g_messages, FALSE)
<1>1. SavedOne("messages", new)
  BY SavesItsFile DEF Files
<1>2. /\ disk'.users = disk.users /\ disk'.friends = disk.friends /\ disk'.groups = disk.groups
      /\ \A e \in Files : e # "messages" => (e \in stale' <=> e \in stale)
  BY <1>1 DEF SavedOne, Files
<1>3. \/ disk'.messages = new
      \/ disk'.messages = disk.messages /\ "messages" \in stale'
      \/ disk'.messages \in Cut("messages", new) /\ "messages" \in stale'
  BY <1>1 DEF SavedOne
<1>4. PICK n \in Nat : n = Len(g_messages) /\ n < MaxMessages
  BY <1>0 DEF MessagesKept
<1>5. /\ new \in Seq(BOOLEAN) /\ Len(new) = n + 1 /\ DOMAIN new = 1 .. n + 1
      /\ g_messages' \in Seq(BOOLEAN) /\ Len(g_messages') = n + 1 /\ DOMAIN g_messages' = 1 .. n + 1
      /\ DOMAIN g_messages = 1 .. n
      /\ new[n + 1] = FALSE
      /\ \A m \in 1 .. n : new[m] = g_messages[m] /\ g_messages'[m] = g_messages[m]
  BY <1>0, <1>4 DEF MessagesKept
<1>6. NoMoreDelivered(new, g_messages') /\ NoMoreDelivered(g_messages, g_messages')
  BY <1>5 DEF NoMoreDelivered
<1>7. disk'.messages \in Seq(BOOLEAN) /\ NoMoreDelivered(disk'.messages, g_messages')
  <2>1. CASE disk'.messages = new
    BY <1>5, <1>6, <2>1
  <2>2. CASE disk'.messages = disk.messages
    BY <1>0, <1>6, <2>2 DEF MessagesKept, NoMoreDelivered
  <2>3. CASE disk'.messages \in Cut("messages", new)
    <3>1. disk'.messages \in Seq(BOOLEAN) /\ Begins(disk'.messages, new)
      BY <1>5, <2>3, CutBegins DEF Files
    <3> QED
      BY <1>6, <3>1 DEF Begins, NoMoreDelivered
  <2> QED
    BY <1>3, <2>1, <2>2, <2>3
<1>8. g_offline_queue' \subseteq DOMAIN g_messages'
  BY <1>0, <1>4, <1>5 DEF MessagesKept
<1>9. MessagesKept'
  <2>1. "messages" \notin stale' => Len(disk'.messages) = Len(g_messages')
    BY <1>3, <1>5
  <2> QED
    BY <1>4, <1>5, <1>7, <1>8, <2>1 DEF MessagesKept
<1>10. UsersKept' /\ FriendsKept' /\ GroupsKept'
  BY <1>0, <1>2, UsersUntouched, FriendsUntouched, GroupsUntouched DEF Files
<1> QED
  BY <1>0, <1>1, <1>9, <1>10 DEF FilesInv, SavedOne

-----------------------------------------------------------------------------
(* groups.dat *)

\* b bytes that hold l records and more are read as l records and more.
LEMMA WholeRecords ==
  ASSUME NEW s \in Nat \ {0}, NEW l \in Nat, NEW b \in Nat, s * l <= b
  PROVE  b \div s \in Nat /\ l <= b \div s
<1>2. PICK q, r \in Int : q = b \div s /\ r = b % s
  OBVIOUS
<1>3. b = s * q + r /\ 0 <= r /\ r < s
  BY <1>2, Z3
<1>4. s * l < s * (q + 1)
  BY <1>2, <1>3
<1>5. l < q + 1
  BY <1>2, <1>4
<1> QED
  BY <1>2, <1>5

LEMMA MinOfTwo ==
  ASSUME NEW a \in Nat, NEW b \in Nat
  PROVE  Min({a, b}) = IF a <= b THEN a ELSE b
<1>1. PICK m \in {a, b} : \A y \in {a, b} : m <= y
  OBVIOUS
<1>2. Min({a, b}) \in {a, b} /\ \A y \in {a, b} : Min({a, b}) <= y
  BY <1>1 DEF Min
<1> QED
  BY <1>2

LEMMA FunctionIsSeq ==
  ASSUME NEW T, NEW n \in Nat, NEW z \in [1 .. n -> T]
  PROVE  z \in Seq(T) /\ Len(z) = n /\ DOMAIN z = 1 .. n
OBVIOUS

\* What is read back is within the limits; a record that was a group is one again.
LEMMA ReadBack ==
  ASSUME NEW file, file.groups \in Seq(Group), file.bytes \in Nat
  PROVE  /\ LoadedGroups(file) \in Seq(Group) /\ Len(LoadedGroups(file)) <= MaxGroups
         /\ \A i \in DOMAIN LoadedGroups(file) \cap DOMAIN file.groups :
              LoadedGroups(file)[i] = file.groups[i]
         /\ \A l \in Nat : l <= MaxGroups /\ GroupSize * l <= file.bytes
                             => l <= Len(LoadedGroups(file))
<1>1. PICK q \in Nat : q = file.bytes \div GroupSize
                       /\ \A l \in Nat : GroupSize * l <= file.bytes => l <= q
  <2>1. PICK b \in Nat, s \in Nat \ {0} : b = file.bytes /\ s = GroupSize
    BY StorageAssumption
  <2>2. s * 0 <= b
    OBVIOUS
  <2>3. b \div s \in Nat
    BY <2>2, WholeRecords
  <2>4. \A l \in Nat : s * l <= b => l <= b \div s
    BY WholeRecords
  <2> QED
    BY <2>1, <2>3, <2>4
<1>2. PICK n \in Nat : n = Min({MaxGroups, q}) /\ n <= MaxGroups /\ n = IF MaxGroups <= q THEN MaxGroups ELSE q
  BY MinOfTwo, StorageAssumption
<1>3. LoadedGroups(file) =
        [i \in 1 .. n |-> IF i \in DOMAIN file.groups THEN file.groups[i] ELSE "members"]
  BY <1>1, <1>2 DEF LoadedGroups
<1>4. \A i \in DOMAIN file.groups : file.groups[i] \in Group
  OBVIOUS
<1>5. "members" \in Group
  BY DEF Group
<1>6. PICK z : z = LoadedGroups(file) /\ z \in [1 .. n -> Group]
  BY <1>3, <1>4, <1>5
<1>7. LoadedGroups(file) \in Seq(Group) /\ Len(LoadedGroups(file)) = n /\ DOMAIN LoadedGroups(file) = 1 .. n
  BY <1>2, <1>6, FunctionIsSeq
<1>8. \A i \in DOMAIN LoadedGroups(file) \cap DOMAIN file.groups : LoadedGroups(file)[i] = file.groups[i]
  BY <1>3, <1>7
<1>9. \A l \in Nat : l <= MaxGroups /\ GroupSize * l <= file.bytes => l <= n
  BY <1>1, <1>2, StorageAssumption
<1> QED
  BY <1>2, <1>7, <1>8, <1>9

\* What is read back as a group was one in the file.
LEMMA OnlyGroupsAreGroups ==
  ASSUME NEW file, NEW i \in DOMAIN LoadedGroups(file), LoadedGroups(file)[i] = "group"
  PROVE  i \in DOMAIN file.groups /\ file.groups[i] = "group"
BY DEF LoadedGroups

\* What save_groups_to_file writes is read back with every group in its place.
LEMMA ImageReadBack ==
  ASSUME NEW groups \in Seq(Group), Len(groups) <= MaxGroups, NEW members \in 0 .. MaxGroupMembers
  PROVE  /\ GroupsImage(groups, members).groups = groups
         /\ GroupsImage(groups, members).bytes \in Nat
         /\ Begins(groups, LoadedGroups(GroupsImage(groups, members)))
<1>1. PICK l, m \in Nat : l = Len(groups) /\ m = members /\ l <= MaxGroups
  BY StorageAssumption
<1>2. PICK file : file = GroupsImage(groups, members)
  OBVIOUS
<1>3. file.groups = groups /\ file.bytes = GroupSize * l + MemberSize * m
  BY <1>1, <1>2 DEF GroupsImage
<1>4. GroupSize * l \in Nat /\ MemberSize * m \in Nat
  BY StorageAssumption
<1>5. file.bytes \in Nat /\ GroupSize * l <= file.bytes
  BY <1>3, <1>4
<1>6. /\ LoadedGroups(file) \in Seq(Group) /\ l <= Len(LoadedGroups(file))
      /\ \A i \in DOMAIN LoadedGroups(file) \cap DOMAIN groups : LoadedGroups(file)[i] = groups[i]
  BY <1>1, <1>3, <1>5, ReadBack
<1>7. DOMAIN groups \subseteq DOMAIN LoadedGroups(file)
  BY <1>1, <1>6
<1> QED
  BY <1>2, <1>3, <1>5, <1>6, <1>7 DEF Begins

LEMMA MembersReadBack ==
  ASSUME NEW file, file.bytes \in Nat
  PROVE  LoadedMembers(file) \in 0 .. MaxGroupMembers
<1>1. PICK b, g \in Nat : b = file.bytes /\ g = MaxGroups
  BY StorageAssumption
<1>2. PICK s, t \in Nat \ {0} : s = GroupSize /\ t = MemberSize
  BY StorageAssumption
<1>3. PICK q \in Nat : q = b \div s
  <2>1. s * 0 <= b
    BY <1>1, <1>2
  <2> QED
    BY <1>1, <1>2, <2>1, WholeRecords
<1> DEFINE rest == IF q < g THEN 0 ELSE (b - g * s) \div t
<1>4. rest \in Nat
  <2>1. CASE q < g
    BY <2>1
  <2>2. CASE ~(q < g)
    <3>1. PICK e \in Int : e = b % s /\ b = s * q + e /\ 0 <= e
      BY <1>1, <1>2, <1>3, Z3
    <3>2. s * g <= s * q
      BY <1>1, <1>2, <1>3, <2>2
    <3>3. PICK d \in Nat : d = b - g * s
      <4>1. g * s = s * g /\ s * g \in Nat /\ s * q \in Nat
        BY <1>1, <1>2, <1>3
      <4> QED
        BY <1>1, <3>1, <3>2, <4>1
    <3>4. t * 0 <= d
      BY <1>2, <3>3
    <3>5. d \div t \in Nat
      BY <1>2, <3>3, <3>4, WholeRecords
    <3> QED
      BY <2>2, <3>3, <3>5
  <2> QED
    BY <2>1, <2>2
<1>5. LoadedMembers(file) = Min({MaxGroupMembers, rest})
  BY <1>1, <1>2, <1>3 DEF LoadedMembers
<1> HIDE DEF rest
<1> QED
  BY <1>4, <1>5, MinOfTwo, StorageAssumption

\* The handlers that save groups.dat; create_group also adds the last group.
LEMMA GroupsSaved ==
  ASSUME FilesInv, Save("groups", GroupsImage(g_groups', g_group_member_count')),
         UNCHANGED <<g_users, g_friendships, g_messages, g_offline_queue, lost>>,
         g_groups' \in Seq(Group), Len(g_groups') <= MaxGroups,
         \A i \in DOMAIN g_groups' : g_groups'[i] = "group" \/ (i \in DOMAIN g_groups /\ g_groups'[i] = g_groups[i]),
         g_group_member_count' \in 0 .. MaxGroupMembers
  PROVE  FilesInv'
<1>0. UsersKept /\ FriendsKept /\ MessagesKept /\ GroupsKept /\ lost \in BOOLEAN
  BY DEF FilesInv
<1> DEFINE new == GroupsImage(g_groups', g_group_member_count')
<1>1. SavedOne("groups", new)
  BY SavesItsFile DEF Files
<1>2. /\ disk'.users = disk.users /\ disk'.friends = disk.friends /\ disk'.messages = disk.messages
      /\ \A e \in Files : e # "groups" => (e \in stale' <=> e \in stale)
  BY <1>1 DEF SavedOne, Files
<1>3. \/ disk'.groups = new
      \/ disk'.groups = disk.groups /\ "groups" \in stale'
      \/ disk'.groups \in Cut("groups", new) /\ "groups" \in stale'
  BY <1>1 DEF SavedOne
<1>4. new.groups = g_groups' /\ new.bytes \in Nat /\ Begins(g_groups', LoadedGroups(new))
  BY ImageReadBack
<1>5. Len(g_groups') \in Nat /\ g_group_member_count' \in Nat
  BY StorageAssumption
<1>6. /\ disk'.groups.groups \in Seq(Group) /\ disk'.groups.bytes \in Nat
      /\ disk'.groups.groups = g_groups' \/ disk'.groups = disk.groups
  <2>1. CASE disk'.groups = new
    BY <1>4, <2>1
  <2>2. CASE disk'.groups = disk.groups
    BY <1>0, <2>2 DEF GroupsKept
  <2>3. CASE disk'.groups \in Cut("groups", new)
    BY <1>5, <2>3, CutGroups
  <2> QED
    BY <1>3, <2>1, <2>2, <2>3
<1>7. Marks(disk'.groups.groups, g_groups')
  BY <1>0, <1>6 DEF GroupsKept, Marks
<1>8. "groups" \notin stale' => Begins(g_groups', LoadedGroups(disk'.groups))
  BY <1>3, <1>4
<1>9. GroupsKept'
  BY <1>6, <1>7, <1>8 DEF GroupsKept
<1>10. UsersKept' /\ FriendsKept' /\ MessagesKept'
  BY <1>0, <1>2, UsersUntouched, FriendsUntouched, MessagesUntouched DEF Files
<1> QED
  BY <1>0, <1>1, <1>9, <1>10 DEF FilesInv, SavedOne

-----------------------------------------------------------------------------
(* The handlers *)

LEMMA InitFilesInv == Init => FilesInv
<1> SUFFICES ASSUME Init PROVE FilesInv
  OBVIOUS
<1>1. /\ disk.users = <<>> /\ disk.friends = <<>> /\ disk.messages = <<>>
      /\ disk.groups = GroupsImage(<<>>, 0)
      /\ up = TRUE /\ stale = {} /\ lost = FALSE /\ FourFiles
  BY DEF Init, Files, FourFiles
<1>2. UsersKept /\ FriendsKept /\ MessagesKept
  BY <1>1 DEF Init, UsersKept, FriendsKept, MessagesKept, Begins, SamePeople, NoMoreDelivered
<1>3. disk.groups.groups = <<>> /\ disk.groups.bytes \in Nat
  BY <1>1 DEF GroupsImage
<1>4. GroupsKept
  <2>1. /\ g_groups = <<>> /\ Len(g_groups) <= MaxGroups
        /\ g_groups \in Seq(Group) /\ DOMAIN g_groups = {}
    BY StorageAssumption DEF Init
  <2>2. g_group_member_count \in 0 .. MaxGroupMembers
    BY StorageAssumption DEF Init
  <2>3. disk.groups.groups \in Seq(Group)
    BY <1>3
  <2>4. Marks(disk.groups.groups, g_groups) /\ Begins(g_groups, LoadedGroups(disk.groups))
    BY <2>1, Zenon DEF Marks, Begins
  <2> QED
    BY <1>3, <2>1, <2>2, <2>3, <2>4 DEF GroupsKept
<1> QED
  BY <1>1, <1>2, <1>4 DEF FilesInv

LEMMA CreateUserFiles ==
  ASSUME FilesInv, NEW p \in Persons, create_user(p)
  PROVE  FilesInv'
<1>1. /\ g_users \in Seq(Persons) /\ Len(g_users) <= MaxUsers /\ ~UsersFull
      /\ g_users' = Append(g_users, p)
  BY DEF FilesInv, UsersKept, create_user
<1>2. /\ g_users' \in Seq(Persons) /\ Len(g_users') <= MaxUsers
      /\ Begins(g_users, g_users')
  BY <1>1 DEF UsersFull, Begins
<1>3. g_messages \in Seq(BOOLEAN) /\ NoMoreDelivered(g_messages, g_messages)
  BY DEF FilesInv, MessagesKept, NoMoreDelivered
<1> QED
  BY <1>2, <1>3, UsersSaved DEF create_user

LEMMA LoginFiles ==
  ASSUME FilesInv, NEW S \in SUBSET g_offline_queue, handle_login(S)
  PROVE  FilesInv'
<1>1. g_messages \in Seq(BOOLEAN) /\ DOMAIN g_messages = 1 .. Len(g_messages) /\ Len(g_messages) \in Nat
  BY DEF FilesInv, MessagesKept
<1>2. \A m \in DOMAIN g_messages :
        (g_messages[m] \/ (up' /\ m \in S)) \in BOOLEAN /\ (g_messages[m] => g_messages[m] \/ (up' /\ m \in S))
  BY Zenon
<1>3. g_messages' = [m \in 1 .. Len(g_messages) |-> g_messages[m] \/ (up' /\ m \in S)]
  BY <1>1 DEF handle_login
<1>4. g_messages' \in [1 .. Len(g_messages) -> BOOLEAN]
  BY <1>1, <1>2, <1>3, Zenon
<1>5. g_messages' \in Seq(BOOLEAN) /\ Len(g_messages') = Len(g_messages)
  BY <1>1, <1>4, FunctionIsSeq
<1>6. NoMoreDelivered(g_messages, g_messages')
  BY <1>1, <1>2, <1>3, Zenon DEF NoMoreDelivered
<1>7. g_offline_queue' \subseteq g_offline_queue
  BY DEF handle_login
<1>8. g_users \in Seq(Persons) /\ Len(g_users) <= MaxUsers /\ Begins(g_users, g_users)
  BY DEF FilesInv, UsersKept, Begins
<1> QED
  BY <1>5, <1>6, <1>7, <1>8, UsersSaved DEF handle_login

LEMMA DisconnectFiles == FilesInv /\ disconnect_client => FilesInv'
<1> SUFFICES ASSUME FilesInv, disconnect_client PROVE FilesInv'
  OBVIOUS
<1>1. g_users \in Seq(Persons) /\ Len(g_users) <= MaxUsers /\ Begins(g_users, g_users)
  BY DEF FilesInv, UsersKept, Begins
<1>2. g_messages \in Seq(BOOLEAN) /\ NoMoreDelivered(g_messages, g_messages)
  BY DEF FilesInv, MessagesKept, NoMoreDelivered
<1> QED
  BY <1>1, <1>2, UsersSaved DEF disconnect_client, tables

\* The record that create_friendship adds.
Asked(u, v) ==
  [user |-> u, friend |-> v, people |-> <<g_users[u], g_users[v]>>, status |-> "pending"]

LEMMA FriendshipAdded ==
  ASSUME FilesInv, NEW u \in DOMAIN g_users, NEW v \in DOMAIN g_users, create_friendship(u, v)
  PROVE  /\ g_friendships' \in Seq(Friendship) /\ Len(g_friendships') <= MaxFriendships
         /\ SamePeople(g_friendships, g_friendships')
         /\ \A k \in DOMAIN g_friendships' :
              \/ g_friendships'[k] = Asked(u, v)
              \/ k \in DOMAIN g_friendships /\ g_friendships'[k] = g_friendships[k]
<1>0. UsersKept /\ FriendsKept
  BY DEF FilesInv
<1>1. g_friendships \in Seq(Friendship) /\ g_friendships' = Append(g_friendships, Asked(u, v))
      /\ Len(g_friendships) < MaxFriendships
  BY <1>0 DEF FriendsKept, create_friendship, Asked
<1>2. u \in Ids /\ v \in Ids /\ g_users[u] \in Persons /\ g_users[v] \in Persons
  BY <1>0 DEF UsersKept, Ids
<1>3. Asked(u, v) \in Friendship
  BY <1>2 DEF Friendship, Asked
<1> QED
  BY <1>1, <1>3 DEF SamePeople

Statuses == {"pending", "accepted", "rejected", ""}

LEMMA FriendshipHasStatus ==
  Friendship = [user : Ids, friend : Ids, people : Persons \X Persons, status : Statuses]
BY Zenon DEF Friendship, Statuses

\* A new status changes nobody.
LEMMA StatusUpdated ==
  ASSUME FilesInv, NEW k \in DOMAIN g_friendships, NEW s \in Statuses,
         update_friendship_status(k, s)
  PROVE  /\ g_friendships' \in Seq(Friendship) /\ Len(g_friendships') = Len(g_friendships)
         /\ DOMAIN g_friendships' = DOMAIN g_friendships
         /\ \A i \in DOMAIN g_friendships :
              /\ g_friendships'[i].user = g_friendships[i].user
              /\ g_friendships'[i].friend = g_friendships[i].friend
              /\ g_friendships'[i].people = g_friendships[i].people
<1>1. g_friendships \in Seq(Friendship) /\ DOMAIN g_friendships = 1 .. Len(g_friendships)
  BY DEF FilesInv, FriendsKept
<1>2. PICK r \in Friendship : r = g_friendships[k]
  BY <1>1
<1>3. PICK q \in Friendship :
        q = [r EXCEPT !.status = s] /\ q.user = r.user /\ q.friend = r.friend /\ q.people = r.people
  <2>1. [r EXCEPT !.status = s]
          = [user |-> r.user, friend |-> r.friend, people |-> r.people, status |-> s]
    BY FriendshipHasStatus
  <2>2. [user |-> r.user, friend |-> r.friend, people |-> r.people, status |-> s] \in Friendship
    BY FriendshipHasStatus
  <2> QED
    BY <2>1, <2>2
<1>4. g_friendships' = [g_friendships EXCEPT ![k] = q]
  BY <1>2, <1>3 DEF update_friendship_status
<1>5. /\ g_friendships' \in Seq(Friendship) /\ DOMAIN g_friendships' = DOMAIN g_friendships
      /\ Len(g_friendships') = Len(g_friendships)
  BY <1>1, <1>4
<1>6. \A i \in DOMAIN g_friendships :
        /\ g_friendships'[i].user = g_friendships[i].user
        /\ g_friendships'[i].friend = g_friendships[i].friend
        /\ g_friendships'[i].people = g_friendships[i].people
  BY <1>2, <1>3, <1>4
<1> QED
  BY <1>5, <1>6

LEMMA GroupsFiles ==
  FilesInv /\ (create_group \/ add_group_member \/ remove_group_member) => FilesInv'
<1> SUFFICES ASSUME FilesInv, create_group \/ add_group_member \/ remove_group_member PROVE FilesInv'
  OBVIOUS
<1>1. /\ g_groups \in Seq(Group) /\ Len(g_groups) <= MaxGroups /\ Len(g_groups) \in Nat
      /\ g_group_member_count \in 0 .. MaxGroupMembers
  BY DEF FilesInv, GroupsKept
<1>2. CASE create_group
  <2>1. "group" \in Group
    BY DEF Group
  <2>2. g_groups' = Append(g_groups, "group") /\ Len(g_groups) < MaxGroups
    BY <1>2 DEF create_group
  <2>3. /\ g_groups' \in Seq(Group) /\ Len(g_groups') <= MaxGroups
        /\ \A i \in DOMAIN g_groups' :
             g_groups'[i] = "group" \/ (i \in DOMAIN g_groups /\ g_groups'[i] = g_groups[i])
    BY <1>1, <2>1, <2>2
  <2>4. g_group_member_count' \in 0 .. MaxGroupMembers
    <3>1. PICK c \in Nat : c = g_group_member_count + 1
      BY <1>1, StorageAssumption
    <3>2. g_group_member_count' = Min({c, MaxGroupMembers})
      BY <1>2, <3>1 DEF create_group
    <3> QED
      BY <3>1, <3>2, MinOfTwo, StorageAssumption
  <2> QED
    BY <1>2, <2>3, <2>4, GroupsSaved DEF create_group
<1>3. CASE add_group_member
  <2>1. /\ g_groups' = g_groups /\ g_group_member_count' \in 0 .. MaxGroupMembers
        /\ Save("groups", GroupsImage(g_groups', g_group_member_count'))
    BY <1>1, <1>3, StorageAssumption DEF add_group_member
  <2> QED
    BY <1>1, <1>3, <2>1, GroupsSaved DEF add_group_member
<1>4. CASE remove_group_member
  <2>1. /\ g_groups' = g_groups /\ g_group_member_count' = g_group_member_count
        /\ Save("groups", GroupsImage(g_groups', g_group_member_count'))
    BY <1>4 DEF remove_group_member, tables
  <2> QED
    BY <1>1, <1>4, <2>1, GroupsSaved DEF remove_group_member, tables
<1> QED
  BY <1>2, <1>3, <1>4

LEMMA SendFiles ==
  ASSUME FilesInv, NEW away \in BOOLEAN, handle_chat_send(away)
  PROVE  FilesInv'
<1>1. PICK d : d = (up' /\ ~away) /\ d \in BOOLEAN
  BY Zenon
<1>2. g_messages' = Append(g_messages, d)
  BY <1>1 DEF handle_chat_send
<1>3. g_offline_queue' \subseteq g_offline_queue \cup {Len(g_messages')}
  BY DEF handle_chat_send
<1> QED
  BY <1>1, <1>2, <1>3, MessageSaved DEF handle_chat_send

\* The files a shutdown writes hold what is in memory; the others are as they were.
LEMMA SignalFiles == FilesInv /\ signal_handler => FilesInv'
<1> SUFFICES ASSUME FilesInv, signal_handler PROVE FilesInv'
  OBVIOUS
<1>0. UsersKept /\ FriendsKept /\ MessagesKept /\ GroupsKept /\ lost \in BOOLEAN /\ stale \subseteq Files
  BY DEF FilesInv
<1>1. PICK F \in SUBSET Files :
        /\ disk' = [f \in Files |-> IF f \in F THEN disk[f] ELSE Image[f]]
        /\ stale' = stale \cap F
  BY DEF signal_handler
<1>2. UNCHANGED <<g_users, g_friendships, g_groups, g_group_member_count, g_messages, g_offline_queue, lost>>
      /\ up' = FALSE
  BY DEF signal_handler, tables
<1>3. FourFiles'
  BY <1>1 DEF FourFiles
<1>4. /\ disk'.users = IF "users" \in F THEN disk.users ELSE g_users
      /\ disk'.friends = IF "friends" \in F THEN disk.friends ELSE g_friendships
      /\ disk'.messages = IF "messages" \in F THEN disk.messages ELSE g_messages
      /\ disk'.groups = IF "groups" \in F THEN disk.groups ELSE GroupsImage(g_groups, g_group_member_count)
  BY <1>1 DEF Files, Image
<1>5. UsersKept'
  BY <1>0, <1>1, <1>2, <1>4 DEF UsersKept, Begins
<1>6. FriendsKept'
  BY <1>0, <1>1, <1>2, <1>4 DEF FriendsKept, SamePeople
<1>7. MessagesKept'
  BY <1>0, <1>1, <1>2, <1>4 DEF MessagesKept, NoMoreDelivered
<1>8. GroupsKept'
  <2>1. CASE "groups" \in F
    BY <1>0, <1>1, <1>2, <1>4, <2>1, GroupsUntouched
  <2>2. CASE "groups" \notin F
    <3>1. disk'.groups = GroupsImage(g_groups, g_group_member_count)
      BY <1>4, <2>2
    <3>2. /\ disk'.groups.groups = g_groups /\ disk'.groups.bytes \in Nat
          /\ Begins(g_groups, LoadedGroups(disk'.groups))
      <4>1. /\ g_groups \in Seq(Group) /\ Len(g_groups) <= MaxGroups
            /\ g_group_member_count \in 0 .. MaxGroupMembers
        BY <1>0 DEF GroupsKept
      <4> QED
        BY <3>1, <4>1, ImageReadBack
    <3> QED
      BY <1>0, <1>2, <3>2 DEF GroupsKept, Marks
  <2> QED
    BY <2>1, <2>2
<1> QED
  BY <1>0, <1>1, <1>2, <1>3, <1>5, <1>6, <1>7, <1>8 DEF FilesInv

\* A restart takes the tables from the files.
LEMMA RestartFiles == FilesInv /\ server_init => FilesInv'
<1> SUFFICES ASSUME FilesInv, server_init PROVE FilesInv'
  OBVIOUS
<1>0. UsersKept /\ FriendsKept /\ MessagesKept /\ GroupsKept /\ lost \in BOOLEAN /\ FourFiles
  BY DEF FilesInv
<1>1. /\ g_users' = disk.users /\ g_friendships' = disk.friends /\ g_messages' = disk.messages
      /\ g_offline_queue' = {} /\ disk' = disk /\ up' = TRUE /\ stale' = {}
  BY DEF server_init, LoadedUsers
<1>2. lost' = (lost \/ "users" \in stale) /\ lost' \in BOOLEAN
  BY <1>0, Zenon DEF server_init
<1>3. UsersKept'
  <2>1. Len(disk.users) <= MaxUsers
    BY <1>0 DEF UsersKept, Begins
  <2> QED
    BY <1>0, <1>1, <2>1 DEF UsersKept, Begins
<1>4. FriendsKept'
  <2>1. Len(disk.friends) <= MaxFriendships
    BY <1>0 DEF FriendsKept, SamePeople
  <2> QED
    BY <1>0, <1>1, <2>1 DEF FriendsKept, SamePeople
<1>5. MessagesKept'
  <2>1. Len(disk.messages) <= MaxMessages
    BY <1>0 DEF MessagesKept, NoMoreDelivered
  <2> QED
    BY <1>0, <1>1, <2>1 DEF MessagesKept, NoMoreDelivered
<1>6. GroupsKept'
  <2>1. g_groups' = LoadedGroups(disk.groups) /\ g_group_member_count' = LoadedMembers(disk.groups)
    BY DEF server_init
  <2>2. PICK file : file = disk.groups /\ file.groups \in Seq(Group) /\ file.bytes \in Nat
    BY <1>0 DEF GroupsKept
  <2>3. g_groups' \in Seq(Group) /\ Len(g_groups') <= MaxGroups
    BY <2>1, <2>2, ReadBack
  <2>4. g_group_member_count' \in 0 .. MaxGroupMembers
    BY <2>1, <2>2, MembersReadBack
  <2>5. Marks(file.groups, g_groups')
    BY <2>1, <2>2, ReadBack DEF Marks
  <2>6. Begins(g_groups', LoadedGroups(file))
    BY <2>1, <2>2 DEF Begins
  <2> QED
    BY <1>1, <2>2, <2>3, <2>4, <2>5, <2>6 DEF GroupsKept
<1> QED
  BY <1>0, <1>1, <1>2, <1>3, <1>4, <1>5, <1>6 DEF FilesInv, FourFiles

LEMMA NextFilesInv == FilesInv /\ [Next]_vars => FilesInv'
<1> SUFFICES ASSUME FilesInv, [Next]_vars PROVE FilesInv'
  OBVIOUS
<1>1. CASE UNCHANGED <<tables, disk, stale, lost>> /\ up' \in BOOLEAN
  <2>1. UsersKept' /\ FriendsKept' /\ MessagesKept' /\ GroupsKept'
    BY <1>1, UsersUntouched, FriendsUntouched, MessagesUntouched, GroupsUntouched DEF FilesInv, tables
  <2> QED
    BY <1>1, <2>1 DEF FilesInv, FourFiles
<1>2. CASE UNCHANGED vars \/ Crash
  <2>1. UNCHANGED <<tables, disk, stale, lost>> /\ up' \in BOOLEAN
    BY <1>2 DEF vars, Crash, FilesInv
  <2> QED
    BY <1>1, <2>1
<1>3. ASSUME NEW u \in DOMAIN g_users, NEW v \in DOMAIN g_users, create_friendship(u, v) PROVE FilesInv'
  BY <1>3, FriendshipAdded, FriendsSaved DEF create_friendship
<1>4. ASSUME NEW k \in DOMAIN g_friendships, NEW s \in {"accepted", "rejected", ""},
             update_friendship_status(k, s)
      PROVE  FilesInv'
  <2>1. s \in Statuses
    BY Zenon DEF Statuses
  <2>2. /\ g_friendships' \in Seq(Friendship) /\ Len(g_friendships') = Len(g_friendships)
        /\ SamePeople(g_friendships, g_friendships')
    BY <1>4, <2>1, StatusUpdated, Zenon DEF SamePeople
  <2>3. Len(g_friendships) <= MaxFriendships
    BY DEF FilesInv, FriendsKept
  <2> QED
    BY <1>4, <2>2, <2>3, FriendsSaved DEF update_friendship_status
<1> QED
  BY <1>2, <1>3, <1>4, CreateUserFiles, LoginFiles, DisconnectFiles, GroupsFiles, SendFiles,
     SignalFiles, RestartFiles
     DEF Next

LEMMA FilesInvAlways == Spec => []FilesInv
BY InitFilesInv, NextFilesInv, PTL DEF Spec

-----------------------------------------------------------------------------
(* What a restart brings back *)

\* The tables hold records of their types, no more than there is room for, at
\* any time and after any loss, so that the ids that the handlers hand out next
\* are within the tables.
THEOREM StorageTypes == Spec => []TypeOK
<1>1. FilesInv => TypeOK
  BY DEF FilesInv, UsersKept, FriendsKept, MessagesKept, GroupsKept, TypeOK
<1> QED
  BY <1>1, FilesInvAlways, PTL

LEMMA BeginsIsPrefix ==
  ASSUME NEW T, NEW s \in Seq(T), NEW t \in Seq(T), Begins(s, t)
  PROVE  IsPrefix(s, t)
<1>1. Len(s) \in Nat /\ Len(t) \in Nat /\ DOMAIN s = 1 .. Len(s) /\ DOMAIN t = 1 .. Len(t)
  OBVIOUS
<1>2. Len(s) <= Len(t) /\ \A k \in 1 .. Len(s) : s[k] = t[k]
  BY <1>1 DEF Begins
<1>3. SubSeq(s, 1, Len(s)) = SubSeq(t, 1, Len(s))
  BY <1>1, <1>2
<1> QED
  BY <1>2, <1>3 DEF IsPrefix

\* Only server_init starts the server.
LEMMA RestartIsInit == [Next]_vars /\ Restart => server_init
BY DEF Next, vars, Restart, create_user, handle_login, disconnect_client, create_friendship,
       update_friendship_status, create_group, add_group_member, remove_group_member,
       handle_chat_send, signal_handler, Crash

\* A restart brings back every user, friendship, message and group unless the
\* last save of its file went wrong (README.md:350-360).
THEOREM RestartBringsBack == Spec => RestartKeeps
<1> DEFINE Keeps ==
      Restart =>
       /\ "users" \notin stale => g_users' = g_users
       /\ "friends" \notin stale => g_friendships' = g_friendships
       /\ "messages" \notin stale => Len(g_messages') = Len(g_messages)
       /\ "groups" \notin stale => IsPrefix(g_groups, g_groups')
<1>1. ASSUME FilesInv, FilesInv', server_init PROVE Keeps
  <2>1. /\ g_users' = disk.users /\ g_friendships' = disk.friends /\ g_messages' = disk.messages
        /\ g_groups' = LoadedGroups(disk.groups)
    BY <1>1 DEF server_init, LoadedUsers
  <2>2. UsersKept /\ FriendsKept /\ MessagesKept /\ GroupsKept /\ g_groups' \in Seq(Group)
    BY <1>1 DEF FilesInv, GroupsKept
  <2>3. "groups" \notin stale => IsPrefix(g_groups, g_groups')
    BY <2>1, <2>2, BeginsIsPrefix DEF GroupsKept
  <2> QED
    BY <2>1, <2>2, <2>3 DEF UsersKept, FriendsKept, MessagesKept
<1>2. FilesInv /\ FilesInv' /\ [Next]_vars => [Keeps]_vars
  BY <1>1, RestartIsInit
<1> QED
  BY <1>2, FilesInvAlways, PTL DEF Spec, RestartKeeps

\* Whatever happens to the saves, a restart brings back the oldest records of
\* each table in their places: ids are positions (create_user, user.c).
THEOREM IdsKeepTheirMeaning == Spec => TailOnlyIsLost
<1> DEFINE Tails ==
      Restart =>
       /\ IsPrefix(g_users', g_users)
       /\ \A k \in DOMAIN g_friendships' :
            k \in DOMAIN g_friendships /\ g_friendships'[k].people = g_friendships[k].people
       /\ \A m \in DOMAIN g_messages' :
            m \in DOMAIN g_messages /\ (g_messages'[m] => g_messages[m])
       /\ \A i \in DOMAIN g_groups \cap DOMAIN g_groups' : g_groups'[i] = "group" => g_groups[i] = "group"
<1>1. ASSUME FilesInv, server_init PROVE Tails
  <2>1. /\ g_users' = disk.users /\ g_friendships' = disk.friends /\ g_messages' = disk.messages
        /\ g_groups' = LoadedGroups(disk.groups)
    BY <1>1 DEF server_init, LoadedUsers
  <2>2. UsersKept /\ FriendsKept /\ MessagesKept /\ GroupsKept
    BY <1>1 DEF FilesInv
  <2>3. IsPrefix(g_users', g_users)
    BY <2>1, <2>2, BeginsIsPrefix DEF UsersKept
  <2>4. /\ SamePeople(g_friendships', g_friendships)
        /\ NoMoreDelivered(g_messages', g_messages)
    BY <2>1, <2>2 DEF FriendsKept, MessagesKept
  <2>5. Marks(g_groups', g_groups)
    BY <2>1, <2>2, OnlyGroupsAreGroups DEF GroupsKept, Marks
  <2> QED
    BY <2>3, <2>4, <2>5, Zenon DEF SamePeople, NoMoreDelivered, Marks
<1>2. FilesInv /\ [Next]_vars => [Tails]_vars
  BY <1>1, RestartIsInit
<1> QED
  BY <1>2, FilesInvAlways, PTL DEF Spec, TailOnlyIsLost

-----------------------------------------------------------------------------
(* Persons *)

\* The ids in a table of friendships are those of the persons who were meant.
Named(friendships, users) ==
  \A k \in DOMAIN friendships :
    LET r == friendships[k] IN
    /\ {r.user, r.friend} \subseteq DOMAIN users
    /\ <<users[r.user], users[r.friend]>> = r.people

\* Friendships on the disk, however old, are about users the server knows: users
\* are never renumbered or removed while it runs, and only a loss of users.dat
\* takes known ones away.
PeopleKept == ~lost => Named(g_friendships, g_users) /\ Named(disk.friends, g_users)

\* Handlers that do not change the friendships.
LEMMA PeopleUntouched ==
  ASSUME PeopleKept, Begins(g_users, g_users'), UNCHANGED <<g_friendships, disk.friends, lost>>
  PROVE  PeopleKept'
BY DEF PeopleKept, Named, Begins

\* Handlers that save friends.dat after a change of the table that is in order.
LEMMA PeopleSaved ==
  ASSUME FilesInv, PeopleKept, Save("friends", g_friendships'), UNCHANGED <<g_users, lost>>,
         g_friendships' \in Seq(Friendship), ~lost => Named(g_friendships', g_users)
  PROVE  PeopleKept'
<1>1. \/ disk'.friends = g_friendships'
      \/ disk'.friends = disk.friends
      \/ disk'.friends \in Cut("friends", g_friendships')
  BY SavesItsFile DEF Files, SavedOne
<1>2. CASE disk'.friends \in Cut("friends", g_friendships')
  <2>1. Begins(disk'.friends, g_friendships')
    BY <1>2, CutBegins DEF Files
  <2> QED
    BY <2>1 DEF PeopleKept, Named, Begins
<1>3. CASE disk'.friends \in {g_friendships', disk.friends}
  BY <1>3 DEF PeopleKept
<1> QED
  BY <1>1, <1>2, <1>3

\* Every other save leaves friends.dat alone.
LEMMA FriendsFileAlone ==
  ASSUME FilesInv, NEW f \in Files \ {"friends"}, NEW new, Save(f, new)
  PROVE  disk'.friends = disk.friends
BY SavesItsFile DEF Files, SavedOne

LEMMA NextPeopleKept == FilesInv /\ PeopleKept /\ [Next]_vars => PeopleKept'
<1> SUFFICES ASSUME FilesInv, PeopleKept, [Next]_vars PROVE PeopleKept'
  OBVIOUS
<1>0. UsersKept /\ FriendsKept
  BY DEF FilesInv
<1>1. Begins(g_users, g_users)
  BY DEF Begins
<1>2. CASE UNCHANGED vars \/ Crash
  BY <1>1, <1>2, PeopleUntouched DEF vars, Crash, tables
<1>3. ASSUME NEW p \in Persons, create_user(p) PROVE PeopleKept'
  <2>1. Begins(g_users, g_users')
    BY <1>0, <1>3 DEF UsersKept, create_user, Begins
  <2> QED
    BY <1>3, <2>1, FriendsFileAlone, PeopleUntouched DEF create_user, Files
<1>4. ASSUME NEW S \in SUBSET g_offline_queue, handle_login(S) PROVE PeopleKept'
  BY <1>1, <1>4, FriendsFileAlone, PeopleUntouched DEF handle_login, Files
<1>5. CASE disconnect_client
  BY <1>1, <1>5, FriendsFileAlone, PeopleUntouched DEF disconnect_client, tables, Files
<1>6. ASSUME NEW u \in DOMAIN g_users, NEW v \in DOMAIN g_users, create_friendship(u, v) PROVE PeopleKept'
  <2>1. ~lost => Named(g_friendships', g_users)
    BY <1>6, FriendshipAdded DEF PeopleKept, Named, Asked
  <2> QED
    BY <1>6, <2>1, FriendshipAdded, PeopleSaved DEF create_friendship
<1>7. ASSUME NEW k \in DOMAIN g_friendships, NEW s \in {"accepted", "rejected", ""},
             update_friendship_status(k, s)
      PROVE  PeopleKept'
  <2>1. s \in Statuses
    BY Zenon DEF Statuses
  <2>2. /\ DOMAIN g_friendships' = DOMAIN g_friendships
        /\ \A i \in DOMAIN g_friendships :
             /\ g_friendships'[i].user = g_friendships[i].user
             /\ g_friendships'[i].friend = g_friendships[i].friend
             /\ g_friendships'[i].people = g_friendships[i].people
    BY <1>7, <2>1, StatusUpdated, Zenon
  <2>3. ~lost => Named(g_friendships', g_users)
    <3> SUFFICES ASSUME ~lost, NEW i \in DOMAIN g_friendships
                 PROVE  /\ {g_friendships'[i].user, g_friendships'[i].friend} \subseteq DOMAIN g_users
                        /\ <<g_users[g_friendships'[i].user], g_users[g_friendships'[i].friend]>>
                             = g_friendships'[i].people
      BY <2>2, Zenon DEF Named
    <3> QED
      BY <2>2 DEF PeopleKept, Named
  <2>4. g_friendships' \in Seq(Friendship)
    BY <1>7, <2>1, StatusUpdated
  <2> QED
    BY <1>7, <2>4, <2>3, PeopleSaved DEF update_friendship_status
<1>8. CASE create_group \/ add_group_member \/ remove_group_member
  BY <1>1, <1>8, FriendsFileAlone, PeopleUntouched
     DEF create_group, add_group_member, remove_group_member, tables, Files
<1>9. ASSUME NEW away \in BOOLEAN, handle_chat_send(away) PROVE PeopleKept'
  BY <1>1, <1>9, FriendsFileAlone, PeopleUntouched DEF handle_chat_send, Files
<1>10. CASE signal_handler
  <2>1. UNCHANGED <<g_users, g_friendships, lost>>
    BY <1>10 DEF signal_handler, tables
  <2>2. disk'.friends \in {disk.friends, g_friendships}
    BY <1>10 DEF signal_handler, Files, Image
  <2> QED
    BY <2>1, <2>2 DEF PeopleKept
<1>11. CASE server_init
  <2>1. /\ g_users' = disk.users /\ g_friendships' = disk.friends /\ disk' = disk
        /\ lost' = (lost \/ "users" \in stale)
    BY <1>11 DEF server_init, LoadedUsers
  <2>2. ~lost' => ~lost /\ "users" \notin stale
    BY <2>1, Zenon
  <2> QED
    BY <1>0, <2>1, <2>2 DEF PeopleKept, UsersKept
<1> QED
  BY <1>2, <1>3, <1>4, <1>5, <1>6, <1>7, <1>8, <1>9, <1>10, <1>11 DEF Next

\* A friendship stays between the persons it was made by.
THEOREM PersonsKept == Spec => []FriendshipsKeepPersons
<1>1. Init => PeopleKept
  BY DEF Init, PeopleKept, Named
<1>2. PeopleKept => FriendshipsKeepPersons
  BY DEF PeopleKept, Named, FriendshipsKeepPersons
<1> QED
  BY <1>1, <1>2, NextPeopleKept, FilesInvAlways, PTL DEF Spec

=============================================================================
