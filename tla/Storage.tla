------------------------------ MODULE Storage ------------------------------
(***************************************************************************)
(* The data files: what of the tables in memory a restart brings back.     *)
(*                                                                         *)
(* Every handler that changes a table saves that table's file in full      *)
(* (save_*_to_file: truncate, write, close); the results are ignored.  A   *)
(* save may fail to open the file, in which case the server goes on with   *)
(* the old file, or be cut short by the death of the process.  server_init *)
(* loads what is there.                                                    *)
(*                                                                         *)
(* While the server is down, the variables for its tables keep what it     *)
(* last knew; only the properties look at them.                            *)
(***************************************************************************)
EXTENDS Integers, Sequences, SequencesExt

CONSTANTS
  Persons,          \* people who register; one name each
  MaxUsers, MaxFriendships, MaxGroups, MaxGroupMembers, MaxMessages,  \* MAX_...
  GroupSize, MemberSize  \* sizeof(Group), sizeof(GroupMember): 376 and 40

ASSUME StorageAssumption ==
  /\ MaxUsers \in Nat /\ MaxFriendships \in Nat /\ MaxMessages \in Nat
  /\ MaxGroups \in Nat /\ MaxGroupMembers \in Nat
  /\ GroupSize \in Nat \ {0} /\ MemberSize \in Nat \ {0}

VARIABLES
  up,
  g_users,          \* the person behind each user id
  g_friendships,    \* records, with the two persons who were meant
  g_groups,         \* for each group: was it created, or read out of members?
  g_group_member_count,
  g_messages,       \* the delivered flag of each message
  g_offline_queue,  \* messages that wait for a recipient; in memory only
  disk,             \* file -> what it holds
  stale,            \* files whose last save failed or was cut short
  lost              \* users.dat was one of them at a restart

tables == <<g_users, g_friendships, g_groups, g_group_member_count, g_messages, g_offline_queue>>
vars == <<up, tables, disk, stale, lost>>

Files == {"users", "friends", "groups", "messages"}
Ids == 1 .. MaxUsers
Friendship == [user : Ids, friend : Ids, people : Persons \X Persons,
               status : {"pending", "accepted", "rejected", ""}]
Group == {"group", "members"}

TypeOK ==
  /\ up \in BOOLEAN
  /\ g_users \in Seq(Persons) /\ Len(g_users) <= MaxUsers
  /\ g_friendships \in Seq(Friendship) /\ Len(g_friendships) <= MaxFriendships
  /\ g_groups \in Seq(Group) /\ Len(g_groups) <= MaxGroups
  /\ g_group_member_count \in 0 .. MaxGroupMembers
  /\ g_messages \in Seq(BOOLEAN) /\ Len(g_messages) <= MaxMessages
  /\ g_offline_queue \subseteq DOMAIN g_messages
  /\ disk.users \in Seq(Persons) /\ disk.friends \in Seq(Friendship)
  /\ disk.messages \in Seq(BOOLEAN)
  /\ disk.groups.groups \in Seq(Group) /\ disk.groups.bytes \in Nat
  /\ stale \subseteq Files /\ lost \in BOOLEAN

-----------------------------------------------------------------------------
(* Saving and loading.  M_... is a plausible slip in what follows it. *)

\* What save_groups_to_file writes: the groups, then the members, no counts.
GroupsImage(groups, members) ==
  [groups |-> groups, bytes |-> GroupSize * Len(groups) + MemberSize * members]

\* A file cut short: fread later returns the records that are complete.
M_Cut(f, new) ==
  IF f = "groups" THEN {[new EXCEPT !.bytes = n] : n \in 0 .. new.bytes}
  ELSE {SubSeq(new, n, Len(new)) : n \in DOMAIN new}
Cut(f, new) ==
  IF f = "groups" THEN {[new EXCEPT !.bytes = n] : n \in 0 .. new.bytes}
  ELSE {SubSeq(new, 1, n) : n \in 0 .. Len(new)}

\* save_*_to_file at the end of a handler, whose result nobody looks at: done; the
\* file not opened; or cut short, by a full disk, after which the handler goes on,
\* or by the death of the process.
Save(f, new) ==
  \/ /\ disk' = [disk EXCEPT ![f] = new]
     /\ up' = TRUE /\ stale' = stale \ {f}
  \/ /\ UNCHANGED <<disk, up>>
     /\ stale' = stale \cup {f}
  \/ /\ \E c \in Cut(f, new) : disk' = [disk EXCEPT ![f] = c]
     /\ up' \in BOOLEAN /\ stale' = stale \cup {f}

\* load_groups_from_file: as many groups as fit the array are read, whatever
\* the bytes are; members only from what that leaves.
M_LoadedGroups(file) ==
  [i \in 1 .. file.bytes \div GroupSize |->
     IF i \in DOMAIN file.groups THEN file.groups[i] ELSE "members"]
LoadedGroups(file) ==
  [i \in 1 .. Min({MaxGroups, file.bytes \div GroupSize}) |->
     IF i \in DOMAIN file.groups THEN file.groups[i] ELSE "members"]

LoadedMembers(file) ==
  Min({MaxGroupMembers,
       IF file.bytes \div GroupSize < MaxGroups THEN 0
       ELSE (file.bytes - MaxGroups * GroupSize) \div MemberSize})

M_LoadedUsers == SubSeq(disk.users, 1, Len(disk.users) - 1)
LoadedUsers == disk.users

-----------------------------------------------------------------------------
(* Handlers; persons act under the ids they registered. *)

Init ==
  /\ up = TRUE
  /\ g_users = <<>> /\ g_friendships = <<>> /\ g_messages = <<>>
  /\ g_groups = <<>> /\ g_group_member_count = 0
  /\ g_offline_queue = {}
  /\ disk = [users |-> <<>>, friends |-> <<>>, groups |-> GroupsImage(<<>>, 0), messages |-> <<>>]
  /\ stale = {} /\ lost = FALSE

\* create_user
UsersFull == Len(g_users) >= MaxUsers

create_user(p) ==
  /\ up /\ ~UsersFull /\ \A i \in DOMAIN g_users : g_users[i] # p
  /\ g_users' = Append(g_users, p)
  /\ Save("users", g_users')
  /\ UNCHANGED <<g_friendships, g_groups, g_group_member_count, g_messages, g_offline_queue, lost>>

\* handle_login and disconnect_client save the user records with their statuses
\* (module Presence).  Then a login delivers what waits for its user, and saves
\* no message.
handle_login(S) ==
  /\ up /\ g_users # <<>> /\ Save("users", g_users)
  /\ g_offline_queue' = IF up' THEN g_offline_queue \ S ELSE g_offline_queue
  /\ g_messages' = [m \in DOMAIN g_messages |-> g_messages[m] \/ (up' /\ m \in S)]
  /\ UNCHANGED <<g_users, g_friendships, g_groups, g_group_member_count, lost>>

disconnect_client ==
  /\ up /\ g_users # <<>> /\ Save("users", g_users)
  /\ UNCHANGED <<tables, lost>>

\* create_friendship
create_friendship(u, v) ==
  /\ up /\ {u, v} \subseteq DOMAIN g_users /\ u # v
  /\ Len(g_friendships) < MaxFriendships
  /\ \A k \in DOMAIN g_friendships :
       g_friendships[k].status # "" => {g_friendships[k].user, g_friendships[k].friend} # {u, v}
  /\ g_friendships' = Append(g_friendships,
       [user |-> u, friend |-> v, people |-> <<g_users[u], g_users[v]>>, status |-> "pending"])
  /\ Save("friends", g_friendships')
  /\ UNCHANGED <<g_users, g_groups, g_group_member_count, g_messages, g_offline_queue, lost>>

\* update_friendship_status, and remove_friendship, which empties the status.
M_update_friendship_status(k, s) ==
  /\ up /\ k \in DOMAIN g_friendships /\ g_friendships[k].status # ""
  /\ g_friendships' = [g_friendships EXCEPT ![k].status = s]
  /\ UNCHANGED <<up, disk, stale>>
  /\ UNCHANGED <<g_users, g_groups, g_group_member_count, g_messages, g_offline_queue, lost>>
update_friendship_status(k, s) ==
  /\ up /\ k \in DOMAIN g_friendships /\ g_friendships[k].status # ""
  /\ g_friendships' = [g_friendships EXCEPT ![k].status = s]
  /\ Save("friends", g_friendships')
  /\ UNCHANGED <<g_users, g_groups, g_group_member_count, g_messages, g_offline_queue, lost>>

\* create_group adds the creator as a member if there is room; both calls save,
\* and the second save writes what the first one did.
create_group ==
  /\ up /\ g_users # <<>> /\ Len(g_groups) < MaxGroups
  /\ g_groups' = Append(g_groups, "group")
  /\ g_group_member_count' = Min({g_group_member_count + 1, MaxGroupMembers})
  /\ Save("groups", GroupsImage(g_groups', g_group_member_count'))
  /\ UNCHANGED <<g_users, g_friendships, g_messages, g_offline_queue, lost>>

add_group_member ==
  /\ up /\ g_users # <<>> /\ g_groups # <<>> /\ g_group_member_count < MaxGroupMembers
  /\ g_group_member_count' = g_group_member_count + 1
  /\ Save("groups", GroupsImage(g_groups, g_group_member_count'))
  /\ UNCHANGED <<g_users, g_friendships, g_groups, g_messages, g_offline_queue, lost>>

\* remove_group_member and update_group_member_role overwrite a record in place.
remove_group_member ==
  /\ up /\ g_users # <<>> /\ g_group_member_count > 0
  /\ Save("groups", GroupsImage(g_groups, g_group_member_count))
  /\ UNCHANGED <<tables, lost>>

\* handle_chat_send to a friend (a group message is kept in the same way):
\* create_message saves the message as not delivered; then it is
\* delivered and marked, or queued.
handle_chat_send(away) ==
  /\ up /\ \E k \in DOMAIN g_friendships : g_friendships[k].status = "accepted"
  /\ Len(g_messages) < MaxMessages
  /\ Save("messages", Append(g_messages, FALSE))
  /\ g_messages' = Append(g_messages, up' /\ ~away)
  /\ g_offline_queue' = IF up' /\ away THEN g_offline_queue \cup {Len(g_messages')} ELSE g_offline_queue
  /\ UNCHANGED <<g_users, g_friendships, g_groups, g_group_member_count, lost>>

Image == [users |-> g_users, friends |-> g_friendships, messages |-> g_messages,
          groups |-> GroupsImage(g_groups, g_group_member_count)]

\* signal_handler saves the four files; those in F cannot be opened.  It may come
\* in the middle of another handler, before or after that one's update of its
\* table: then the files are those of this action before or after the handler's
\* (and between create_group's two updates, a cut of its image).
signal_handler ==
  /\ up /\ up' = FALSE
  /\ \E F \in SUBSET Files :
       /\ disk' = [f \in Files |-> IF f \in F THEN disk[f] ELSE Image[f]]
       /\ stale' = stale \cap F
  /\ UNCHANGED <<tables, lost>>

\* The process dies between two handlers.
Crash == up /\ up' = FALSE /\ UNCHANGED <<tables, disk, stale, lost>>

\* server_init
server_init ==
  /\ ~up /\ up' = TRUE
  /\ g_users' = LoadedUsers
  /\ g_friendships' = disk.friends /\ g_messages' = disk.messages
  /\ g_groups' = LoadedGroups(disk.groups)
  /\ g_group_member_count' = LoadedMembers(disk.groups)
  /\ g_offline_queue' = {}
  /\ lost' = (lost \/ "users" \in stale) /\ stale' = {}
  /\ UNCHANGED disk

Next ==
  \/ \E p \in Persons : create_user(p)
  \/ \E S \in SUBSET g_offline_queue : handle_login(S)
  \/ disconnect_client
  \/ \E u, v \in DOMAIN g_users : create_friendship(u, v)
  \/ \E k \in DOMAIN g_friendships, s \in {"accepted", "rejected", ""} :
       update_friendship_status(k, s)
  \/ create_group \/ add_group_member \/ remove_group_member
  \/ \E away \in BOOLEAN : handle_chat_send(away)
  \/ signal_handler \/ Crash \/ server_init

Spec == Init /\ [][Next]_vars

-----------------------------------------------------------------------------
(* Properties *)

Restart == ~up /\ up'

\* A restart brings back every user, friendship, message and group unless the
\* last save of its file failed or was cut short: no handler leaves a change of
\* these tables to be saved by a later one, and a shutdown does not undo what
\* the handlers saved.
RestartKeeps ==
  [][Restart =>
       /\ "users" \notin stale => g_users' = g_users
       /\ "friends" \notin stale => g_friendships' = g_friendships
       /\ "messages" \notin stale => Len(g_messages') = Len(g_messages)
       /\ "groups" \notin stale => IsPrefix(g_groups, g_groups')]_vars

\* Whatever happens to the saves, a restart brings back the oldest records of
\* each table in their places, so that ids keep their meaning, and no message
\* as delivered that was not.
TailOnlyIsLost ==
  [][Restart =>
       /\ IsPrefix(g_users', g_users)
       /\ \A k \in DOMAIN g_friendships' :
            k \in DOMAIN g_friendships /\ g_friendships'[k].people = g_friendships[k].people
       /\ \A m \in DOMAIN g_messages' :
            m \in DOMAIN g_messages /\ (g_messages'[m] => g_messages[m])
       /\ \A i \in DOMAIN g_groups \cap DOMAIN g_groups' : g_groups'[i] = "group" => g_groups[i] = "group"]_vars

\* A friendship is one of the two persons it was made by, although the two
\* files are saved apart and ids are numbered by position: only a restart with a
\* users.dat that lost its last save can give an id to another person, or leave
\* a friendship with nobody.
FriendshipsKeepPersons ==
  up /\ ~lost =>
    \A k \in DOMAIN g_friendships :
      LET r == g_friendships[k] IN
      /\ {r.user, r.friend} \subseteq DOMAIN g_users
      /\ <<g_users[r.user], g_users[r.friend]>> = r.people

-----------------------------------------------------------------------------
(* What the documents say, and the code does not do. *)

\* README.md:360 lists "groups.dat - Groups and members" under Data Persistence:
\* a restart with every save done brings the members back.
MembersSurvive ==
  [][Restart /\ stale = {} => g_group_member_count' = g_group_member_count]_vars

=============================================================================
