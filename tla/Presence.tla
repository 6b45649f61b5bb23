------------------------------ MODULE Presence ------------------------------
(***************************************************************************)
(* Who is connected, who is logged in, and what is believed about it.      *)
(*                                                                         *)
(* The server keeps the same fact in three places: the client slots        *)
(* (ChatServer.clients, server.h), the status of every user record         *)
(* (g_users, user.c) and the session table (g_sessions, user.c).  Every    *)
(* connected client keeps a fourth copy: the friends it was last told are  *)
(* online, from MSG_FRIEND_LIST_RSP at login and MSG_STATUS_NOTIFY later.  *)
(*                                                                         *)
(* The server is one thread; a handler is one step.  Clients are           *)
(* independent, so any handler may run next on any connection.  A request  *)
(* that is refused and changes nothing (wrong password, name taken, ...)   *)
(* is a stuttering step and has no action here.  User names are            *)
(* identified with user ids: create_user refuses a name it has seen.       *)
(***************************************************************************)
EXTENDS Integers, Sequences, FiniteSets

CONSTANTS
  MaxClients,   \* MAX_CLIENTS: slots
  MaxUsers,     \* MAX_USERS: user records
  MaxSessions,  \* MAX_SESSIONS: session records
  Friends       \* accepted friendships, as a symmetric set of pairs

Slots == 0 .. MaxClients - 1
Users == 1 .. MaxUsers
Closed == -1                 \* a slot with fd = -1

ASSUME PresenceAssumption ==
  /\ MaxClients \in Nat \ {0}
  /\ MaxUsers \in Nat \ {0}
  /\ MaxSessions \in Nat
  /\ Friends \subseteq Users \X Users
  /\ \A p \in Friends : p[1] # p[2] /\ <<p[2], p[1]>> \in Friends

VARIABLES
  running,       \* the server process is up
  clients,       \* slot -> Closed, 0 (connected, not logged in) or the user id
  g_user_count,  \* users 1 .. g_user_count are registered
  status,        \* user -> status; users.dat holds the same after every handler
  g_sessions,    \* the session table; records are never taken out
  view,          \* slot -> friends its client was last told are online
  muddled        \* users whose login met another one, on the same slot or of the
                 \* same user, or a crash, until they log in afresh (no code state)

vars == <<running, clients, g_user_count, status, g_sessions, view, muddled>>

Session == [user : Users, valid : BOOLEAN]

TypeOK ==
  /\ running \in BOOLEAN
  /\ clients \in [Slots -> {Closed} \cup 0 .. MaxUsers]
  /\ g_user_count \in 0 .. MaxUsers
  /\ status \in [Users -> {"offline", "online"}]
  /\ g_sessions \in Seq(Session) /\ Len(g_sessions) <= MaxSessions
  /\ view \in [Slots -> SUBSET Users]
  /\ muddled \subseteq Users

-----------------------------------------------------------------------------
(* Helpers of user.c and server.c.  A definition named M_... is a plausible  *)
(* slip in the definition after it that some property excludes.              *)

Holders(cl, u) == {s \in Slots : cl[s] = u}

\* find_client_by_user_id: slot s is the first one that holds user u.
IsClientOf(cl, s, u) == s \in Holders(cl, u) /\ \A t \in Holders(cl, u) : s <= t

\* What send_online_friends_list lists for user u, given the statuses st.
OnlineFriends(st, u) == {f \in Users : <<u, f>> \in Friends /\ st[f] = "online"}

ValidSessions(u) == {i \in DOMAIN g_sessions : g_sessions[i].user = u /\ g_sessions[i].valid}

\* find_session_by_user_id, then invalidate_session: the first valid session
\* of u, if there is one.
M_KickOldSession(u) == g_sessions
KickOldSession(u) ==
  [i \in DOMAIN g_sessions |->
     IF i \in ValidSessions(u) /\ \A j \in ValidSessions(u) : i <= j
     THEN [g_sessions[i] EXCEPT !.valid = FALSE]
     ELSE g_sessions[i]]

\* invalidate_session_by_user: every session of u.
M_InvalidateByUser(u) == g_sessions
InvalidateByUser(u) ==
  [i \in DOMAIN g_sessions |->
     IF g_sessions[i].user = u THEN [g_sessions[i] EXCEPT !.valid = FALSE]
                               ELSE g_sessions[i]]

\* broadcast_status_change: one MSG_STATUS_NOTIFY per friend, to the first
\* slot that holds the friend.  vw is what the clients knew before.
M_Broadcast(cl, vw, u, st) == vw
Broadcast(cl, vw, u, st) ==
  [s \in Slots |->
     IF \E f \in Users : <<u, f>> \in Friends /\ IsClientOf(cl, s, f)
     THEN IF st = "online" THEN vw[s] \cup {u} ELSE vw[s] \ {u}
     ELSE vw[s]]

-----------------------------------------------------------------------------
(* Handlers *)

Init ==
  /\ running = TRUE
  /\ clients = [s \in Slots |-> Closed]
  /\ g_user_count = 0
  /\ status = [u \in Users |-> "offline"]
  /\ g_sessions = <<>>
  /\ view = [s \in Slots |-> {}]
  /\ muddled = {}

\* handle_new_connection: the first free slot.  With no free slot the socket
\* is closed again and nothing changes.
handle_new_connection ==
  /\ running
  /\ \E s \in Slots : /\ IsClientOf(clients, s, Closed)
                      /\ clients' = [clients EXCEPT ![s] = 0]
  /\ UNCHANGED <<running, g_user_count, status, g_sessions, view, muddled>>

handle_register(s) ==
  /\ running /\ clients[s] # Closed
  /\ g_user_count < MaxUsers
  /\ g_user_count' = g_user_count + 1
  /\ status' = [status EXCEPT ![g_user_count + 1] = "offline"]
  /\ UNCHANGED <<running, clients, g_sessions, view, muddled>>

Fresh(s, u) == clients[s] = 0 /\ Holders(clients, u) = {}

\* handle_login with the right password, whoever is logged in here or elsewhere.
\* The old session is kicked first; if the session table is full the login fails
\* after that and nothing else changes.  Otherwise the slot, the status, the
\* client's list of online friends and the friends' views follow, in this order.
M_SessionTableFull == FALSE
SessionTableFull == Len(g_sessions) >= MaxSessions

handle_login(s, u) ==
  /\ running /\ clients[s] # Closed
  /\ u <= g_user_count
  /\ IF SessionTableFull
     THEN /\ g_sessions' = KickOldSession(u)
          /\ UNCHANGED <<clients, status, view>>
          /\ muddled' = IF Fresh(s, u) THEN muddled ELSE muddled \cup {u}
     ELSE /\ g_sessions' = Append(KickOldSession(u), [user |-> u, valid |-> TRUE])
          /\ clients' = [clients EXCEPT ![s] = u]
          /\ status' = [status EXCEPT ![u] = "online"]
          /\ view' = Broadcast(clients', [view EXCEPT ![s] = OnlineFriends(status', u)],
                               u, "online")
          /\ muddled' = IF Fresh(s, u) THEN muddled \ {u}
                        ELSE muddled \cup ({u, clients[s]} \ {0})
  /\ UNCHANGED <<running, g_user_count>>

\* disconnect_client: called when recv_message fails (the client went away or
\* sent a bad frame), by check_client_timeouts and by the two handlers below.
\* The record is found with get_user_by_id, not with the id as an index.  The
\* slot is freed after the broadcast.
M_SetOffline(u) == IF u + 1 \in Users THEN [status EXCEPT ![u + 1] = "offline"] ELSE status
SetOffline(u) == IF u > 0 THEN [status EXCEPT ![u] = "offline"] ELSE status

disconnect_client(s) ==
  LET u == clients[s] IN
  /\ running /\ u # Closed
  /\ status' = SetOffline(u)
  /\ view' = [ (IF u > 0 THEN Broadcast(clients, view, u, "offline") ELSE view)
               EXCEPT ![s] = {} ]
  /\ g_sessions' = IF u > 0 THEN InvalidateByUser(u) ELSE g_sessions
  /\ clients' = [clients EXCEPT ![s] = Closed]
  /\ UNCHANGED <<running, g_user_count, muddled>>

\* handle_logout sets the status, invalidates the sessions and broadcasts, and
\* then calls disconnect_client, which does the three again and frees the
\* slot: the second round finds everything done, so the two rounds are one.
handle_logout(s) == disconnect_client(s)

\* signal_handler between two handlers: every open slot is disconnected, the
\* files are saved, the process exits and its memory is gone.
signal_handler ==
  /\ running
  /\ running' = FALSE
  /\ status' = [u \in Users |-> IF Holders(clients, u) # {} THEN "offline" ELSE status[u]]
  /\ clients' = [s \in Slots |-> Closed]
  /\ g_sessions' = <<>>
  /\ view' = [s \in Slots |-> {}]
  /\ UNCHANGED <<g_user_count, muddled>>

\* The process dies between two handlers; users.dat is what the last one saved.
Crash ==
  /\ running
  /\ running' = FALSE
  /\ clients' = [s \in Slots |-> Closed]
  /\ g_sessions' = <<>>
  /\ view' = [s \in Slots |-> {}]
  /\ muddled' = {u \in Users : status[u] = "online"}
  /\ UNCHANGED <<g_user_count, status>>

\* server_init: the user records come back from users.dat as they were saved.
server_init ==
  /\ ~running
  /\ running' = TRUE
  /\ UNCHANGED <<clients, g_user_count, status, g_sessions, view, muddled>>

Next ==
  \/ handle_new_connection
  \/ \E s \in Slots : \/ handle_register(s)
                      \/ handle_logout(s)
                      \/ disconnect_client(s)
                      \/ \E u \in Users : handle_login(s, u)
  \/ signal_handler
  \/ Crash
  \/ server_init

Spec == Init /\ [][Next]_vars

-----------------------------------------------------------------------------
(* Properties *)

\* A user never has two valid sessions, however often it logs in and wherever:
\* handle_login kicks only the first valid session it finds.
OneValidSession ==
  \A u \in Users : \A i, j \in ValidSessions(u) : i = j

\* A valid session belongs to a user whose record says "online".  Two tables
\* written by four handlers, one of which can fail half way (handle_login with
\* a full session table).
ValidSessionIsOnline ==
  \A u \in Users : ValidSessions(u) # {} => status[u] = "online"

\* For a user who logs in once at a time the slots, the status and the sessions
\* agree at every step, across logins that fail, dropped connections, slot reuse,
\* restarts and whatever happens to others; after a double login or a crash they
\* agree again with the next fresh login.
PresenceExact ==
  \A u \in Users \ muddled :
    /\ \A s, t \in Holders(clients, u) : s = t
    /\ status[u] = "online" <=> Holders(clients, u) # {}
    /\ status[u] = "online" <=> ValidSessions(u) # {}

\* Such a user's client has an exact picture of the statuses of the user's
\* friends, put together from the list at login and the notifications since.
ViewExact ==
  \A u \in Users \ muddled : \A s \in Holders(clients, u) :
    view[s] = OnlineFriends(status, u)

\* A user's record goes offline only when a connection it is logged in on ends;
\* nothing another user does takes it offline.
OfflineByOwnDisconnect ==
  [][\A u \in Users : status[u] = "online" /\ status'[u] = "offline"
        => \E s \in Holders(clients, u) : clients'[s] = Closed]_vars

\* A user who is logged in somewhere is shown as online.  handle_login says of
\* a second login that it kicks the old session (handlers.c:70); README.md:16
\* promises friends a status.  The old connection in fact stays logged in, and
\* the status falls as soon as either of the two connections ends.
LoggedInIsOnline ==
  \A s \in Slots : clients[s] > 0 => status[clients[s]] = "online"

=============================================================================
