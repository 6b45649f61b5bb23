--------------------------- MODULE PresenceProofs ---------------------------
(***************************************************************************)
(* Theorems about Presence, for every number of slots, users and sessions  *)
(* and every friend graph: sessions first; then, for users whose logins do *)
(* not meet, that slots, statuses, sessions and the clients' pictures of   *)
(* their friends agree.                                                    *)
(***************************************************************************)
EXTENDS Presence, TLAPS

USE PresenceAssumption DEF Slots, Users, Closed

-----------------------------------------------------------------------------
(* Sessions: the handlers that write the session table. *)

\* handle_login's lookup of one old session removes every valid session of the
\* user, because there is at most one.
LEMMA KickRemovesAll ==
  ASSUME TypeOK, OneValidSession, NEW u \in Users
  PROVE  /\ KickOldSession(u) \in Seq(Session)
         /\ Len(KickOldSession(u)) = Len(g_sessions)
         /\ \A i \in 1 .. Len(g_sessions) :
              /\ KickOldSession(u)[i].user = g_sessions[i].user
              /\ KickOldSession(u)[i].valid = (g_sessions[i].valid /\ g_sessions[i].user # u)
<1> DEFINE K == KickOldSession(u)
<1>1. g_sessions \in Seq(Session) /\ DOMAIN g_sessions = 1 .. Len(g_sessions)
  BY DEF TypeOK
<1>2. \A i \in 1 .. Len(g_sessions) : g_sessions[i] \in Session
  BY <1>1
<1>3. ASSUME NEW i \in 1 .. Len(g_sessions)
      PROVE  /\ K[i] \in Session
             /\ K[i].user = g_sessions[i].user
             /\ K[i].valid = (g_sessions[i].valid /\ g_sessions[i].user # u)
  <2>1. CASE i \in ValidSessions(u)
    <3>1. \A j \in ValidSessions(u) : i <= j
      BY <2>1 DEF OneValidSession
    <3>2. K[i] = [g_sessions[i] EXCEPT !.valid = FALSE]
      BY <1>1, <2>1, <3>1 DEF KickOldSession
    <3> QED
      BY <1>1, <1>2, <2>1, <3>2 DEF Session, ValidSessions
  <2>2. CASE i \notin ValidSessions(u)
    <3>1. K[i] = g_sessions[i]
      BY <1>1, <2>2 DEF KickOldSession
    <3> QED
      BY <1>1, <1>2, <2>2, <3>1 DEF Session, ValidSessions
  <2> QED
    BY <2>1, <2>2
<1>4. K = [i \in 1 .. Len(g_sessions) |-> K[i]]
  BY <1>1 DEF KickOldSession
<1>5. Len(g_sessions) \in Nat
  BY <1>1
<1>6. K \in [1 .. Len(g_sessions) -> Session]
  BY <1>3, <1>4
<1>7. K \in Seq(Session) /\ Len(K) = Len(g_sessions)
  BY <1>5, <1>6
<1> QED
  BY <1>3, <1>7

\* invalidate_session_by_user leaves the user without a valid session and
\* every other record alone.
LEMMA InvalidateRemovesAll ==
  ASSUME TypeOK, NEW u \in Users
  PROVE  /\ InvalidateByUser(u) \in Seq(Session)
         /\ Len(InvalidateByUser(u)) = Len(g_sessions)
         /\ \A i \in 1 .. Len(g_sessions) :
              /\ InvalidateByUser(u)[i].user = g_sessions[i].user
              /\ InvalidateByUser(u)[i].valid = (g_sessions[i].valid /\ g_sessions[i].user # u)
<1> DEFINE K == InvalidateByUser(u)
<1>1. g_sessions \in Seq(Session) /\ DOMAIN g_sessions = 1 .. Len(g_sessions)
  BY DEF TypeOK
<1>2. \A i \in 1 .. Len(g_sessions) : g_sessions[i] \in Session
  BY <1>1
<1>3. ASSUME NEW i \in 1 .. Len(g_sessions)
      PROVE  /\ K[i] \in Session
             /\ K[i].user = g_sessions[i].user
             /\ K[i].valid = (g_sessions[i].valid /\ g_sessions[i].user # u)
  BY <1>1, <1>2 DEF InvalidateByUser, Session
<1>4. K = [i \in 1 .. Len(g_sessions) |-> K[i]]
  BY <1>1 DEF InvalidateByUser
<1>5. Len(g_sessions) \in Nat
  BY <1>1
<1>6. K \in [1 .. Len(g_sessions) -> Session]
  BY <1>3, <1>4
<1>7. K \in Seq(Session) /\ Len(K) = Len(g_sessions)
  BY <1>5, <1>6
<1> QED
  BY <1>3, <1>7

-----------------------------------------------------------------------------
(* The invariant of the session table, for any clients and any crashes. *)

\* The two properties are not inductive without this: handle_register resets a
\* status, and a user it creates must not have a session yet.
SessionRegistered ==
  \A u \in Users : ValidSessions(u) # {} => u <= g_user_count

SessionInv == TypeOK /\ OneValidSession /\ ValidSessionIsOnline /\ SessionRegistered

\* Broadcasting keeps the clients' pictures sets of users.
LEMMA BroadcastType ==
  ASSUME NEW cl, NEW vw \in [Slots -> SUBSET Users], NEW u \in Users, NEW st
  PROVE  Broadcast(cl, vw, u, st) \in [Slots -> SUBSET Users]
BY DEF Broadcast

\* No session exists at the start.
LEMMA InitSessionInv == Init => SessionInv
BY DEF Init, SessionInv, TypeOK, OneValidSession, ValidSessionIsOnline, SessionRegistered,
       ValidSessions

\* A step that only loses valid sessions, and takes offline only users left
\* without one, keeps the session properties.
LEMMA FewerSessions ==
  ASSUME SessionInv, TypeOK',
         g_user_count <= g_user_count',
         Len(g_sessions') = Len(g_sessions),
         \A i \in 1 .. Len(g_sessions) :
           /\ g_sessions'[i].user = g_sessions[i].user
           /\ g_sessions'[i].valid => g_sessions[i].valid
                /\ status'[g_sessions[i].user] = status[g_sessions[i].user]
  PROVE  SessionInv'
<1>1. /\ g_sessions \in Seq(Session) /\ DOMAIN g_sessions = 1 .. Len(g_sessions)
      /\ g_sessions' \in Seq(Session) /\ DOMAIN g_sessions' = 1 .. Len(g_sessions)
  BY DEF TypeOK, SessionInv
<1>2. ASSUME NEW u \in Users, NEW i \in ValidSessions(u)'
      PROVE  i \in ValidSessions(u) /\ status'[u] = status[u]
  BY <1>1, <1>2 DEF ValidSessions
<1>3. OneValidSession'
  BY <1>2 DEF SessionInv, OneValidSession
<1>4. ValidSessionIsOnline'
  BY <1>2 DEF SessionInv, ValidSessionIsOnline
<1>5. SessionRegistered'
  <2>1. g_user_count \in Int /\ g_user_count' \in Int
    BY DEF SessionInv, TypeOK
  <2> QED
    BY <1>2, <2>1 DEF SessionInv, SessionRegistered
<1> QED
  BY <1>3, <1>4, <1>5 DEF SessionInv

\* handle_login leaves its user with the new session only, or, when the table
\* is full, with none.
LEMMA LoginSessionInv ==
  ASSUME SessionInv, NEW s \in Slots, NEW u \in Users, handle_login(s, u)
  PROVE  SessionInv'
<1> DEFINE K == KickOldSession(u)
<1>1. /\ K \in Seq(Session)
      /\ Len(K) = Len(g_sessions)
      /\ \A i \in 1 .. Len(g_sessions) :
           /\ K[i].user = g_sessions[i].user
           /\ K[i].valid = (g_sessions[i].valid /\ g_sessions[i].user # u)
  BY KickRemovesAll DEF SessionInv
<1>2. CASE SessionTableFull
  <2>1. /\ g_sessions' = K
        /\ UNCHANGED <<running, clients, g_user_count, status, view>>
        /\ muddled' \subseteq Users
    BY <1>2 DEF handle_login, SessionInv, TypeOK
  <2>2. TypeOK'
    BY <1>1, <2>1 DEF SessionInv, TypeOK
  <2>3. g_user_count <= g_user_count'
    BY <2>1 DEF SessionInv, TypeOK
  <2>4. /\ Len(g_sessions') = Len(g_sessions)
        /\ \A i \in 1 .. Len(g_sessions) :
             /\ g_sessions'[i].user = g_sessions[i].user
             /\ g_sessions'[i].valid => g_sessions[i].valid
                  /\ status'[g_sessions[i].user] = status[g_sessions[i].user]
    BY <1>1, <2>1
  <2> QED
    BY <2>2, <2>3, <2>4, FewerSessions
<1>3. CASE ~SessionTableFull
  <2>1. /\ g_sessions' = Append(K, [user |-> u, valid |-> TRUE])
        /\ clients' = [clients EXCEPT ![s] = u]
        /\ status' = [status EXCEPT ![u] = "online"]
        /\ view' = Broadcast(clients', [view EXCEPT ![s] = OnlineFriends(status', u)], u, "online")
        /\ UNCHANGED <<running, g_user_count>>
    BY <1>3 DEF handle_login
  <2> DEFINE n == Len(g_sessions)
  <2>2. n \in Nat /\ n < MaxSessions /\ DOMAIN g_sessions = 1 .. n
    BY <1>3 DEF SessionInv, TypeOK, SessionTableFull
  <2>3. [user |-> u, valid |-> TRUE] \in Session
    BY DEF Session
  <2>4. /\ g_sessions' \in Seq(Session) /\ Len(g_sessions') = n + 1
        /\ DOMAIN g_sessions' = 1 .. n + 1
        /\ g_sessions'[n + 1] = [user |-> u, valid |-> TRUE]
        /\ \A i \in 1 .. n : g_sessions'[i] = K[i]
    BY <1>1, <2>1, <2>2, <2>3
  <2>5. TypeOK'
    <3>1. [view EXCEPT ![s] = OnlineFriends(status', u)] \in [Slots -> SUBSET Users]
      BY DEF SessionInv, TypeOK, OnlineFriends
    <3>2. view' \in [Slots -> SUBSET Users]
      BY <2>1, <3>1, BroadcastType
    <3>3. clients' \in [Slots -> {Closed} \cup 0 .. MaxUsers]
      BY <2>1 DEF SessionInv, TypeOK
    <3>4. status' \in [Users -> {"offline", "online"}]
      BY <2>1 DEF SessionInv, TypeOK
    <3>5. g_sessions' \in Seq(Session) /\ Len(g_sessions') <= MaxSessions
      BY <2>2, <2>4
    <3>6. muddled' \subseteq Users
      <4>1. clients[s] \in 0 .. MaxUsers /\ muddled \subseteq Users
        BY DEF handle_login, SessionInv, TypeOK
      <4>2. \/ muddled' = muddled \ {u}
            \/ muddled' = muddled \cup ({u, clients[s]} \ {0})
        BY <1>3 DEF handle_login
      <4>3. {u, clients[s]} \ {0} \subseteq Users
        BY <4>1
      <4> HIDE DEF Users
      <4> QED
        BY <4>1, <4>2, <4>3
    <3> QED
      BY <2>1, <3>2, <3>3, <3>4, <3>5, <3>6 DEF SessionInv, TypeOK
  <2>6. ASSUME NEW v \in Users, NEW i \in ValidSessions(v)'
        PROVE  \/ v = u /\ i = n + 1
               \/ v # u /\ i \in ValidSessions(v)
    <3>1. i \in 1 .. n + 1 /\ g_sessions'[i].user = v /\ g_sessions'[i].valid
      BY <2>4, <2>6 DEF ValidSessions
    <3>2. CASE i = n + 1
      BY <2>4, <3>1, <3>2
    <3>3. CASE i \in 1 .. n
      BY <1>1, <2>2, <2>4, <3>1, <3>3 DEF ValidSessions
    <3> QED
      BY <2>2, <3>1, <3>2, <3>3
  <2>7. OneValidSession'
    BY <2>6 DEF SessionInv, OneValidSession
  <2>8. ValidSessionIsOnline'
    BY <2>1, <2>6 DEF SessionInv, ValidSessionIsOnline, TypeOK
  <2>9. SessionRegistered'
    BY <2>1, <2>6 DEF SessionInv, SessionRegistered, TypeOK, handle_login
  <2> QED
    BY <2>5, <2>7, <2>8, <2>9 DEF SessionInv
<1> QED
  BY <1>2, <1>3

\* disconnect_client sets the status of one user to offline and ends all of
\* that user's sessions.
LEMMA DisconnectSessionInv ==
  ASSUME SessionInv, NEW s \in Slots, disconnect_client(s)
  PROVE  SessionInv'
<1> DEFINE u == clients[s]
<1>1. u \in 0 .. MaxUsers
  BY DEF SessionInv, TypeOK, disconnect_client
<1>2. CASE u = 0
  <2>1. /\ UNCHANGED <<running, g_user_count, g_sessions, status, muddled>>
        /\ clients' = [clients EXCEPT ![s] = Closed]
        /\ view' = [view EXCEPT ![s] = {}]
    BY <1>2 DEF disconnect_client, SetOffline
  <2> QED
    <3>1. TypeOK'
      BY <2>1 DEF SessionInv, TypeOK
    <3> QED
      BY <2>1, <3>1, FewerSessions DEF SessionInv, TypeOK
<1>3. CASE u \in Users
  <2>1. /\ UNCHANGED <<running, g_user_count, muddled>>
        /\ g_sessions' = InvalidateByUser(u)
        /\ status' = [status EXCEPT ![u] = "offline"]
        /\ clients' = [clients EXCEPT ![s] = Closed]
        /\ view' = [Broadcast(clients, view, u, "offline") EXCEPT ![s] = {}]
    <3>1. u > 0
      BY <1>3
    <3> QED
      BY <3>1 DEF disconnect_client, SetOffline
  <2>2. /\ InvalidateByUser(u) \in Seq(Session)
        /\ Len(InvalidateByUser(u)) = Len(g_sessions)
        /\ \A i \in 1 .. Len(g_sessions) :
             /\ InvalidateByUser(u)[i].user = g_sessions[i].user
             /\ InvalidateByUser(u)[i].valid = (g_sessions[i].valid /\ g_sessions[i].user # u)
    BY <1>3, InvalidateRemovesAll DEF SessionInv
  <2>3. TypeOK'
    <3>1. Broadcast(clients, view, u, "offline") \in [Slots -> SUBSET Users]
      BY <1>3, BroadcastType DEF SessionInv, TypeOK
    <3> QED
      BY <2>1, <2>2, <3>1 DEF SessionInv, TypeOK
  <2>4. \A i \in 1 .. Len(g_sessions) : g_sessions[i] \in Session
    BY DEF SessionInv, TypeOK
  <2>5. \A i \in 1 .. Len(g_sessions) : g_sessions[i].user \in Users
    BY <2>4 DEF Session
  <2>6. g_user_count <= g_user_count'
    BY <2>1 DEF SessionInv, TypeOK
  <2>7. \A v \in Users : v # u => status'[v] = status[v]
    BY <2>1 DEF SessionInv, TypeOK
  <2>8. /\ Len(g_sessions') = Len(g_sessions)
        /\ \A i \in 1 .. Len(g_sessions) :
             /\ g_sessions'[i].user = g_sessions[i].user
             /\ g_sessions'[i].valid => g_sessions[i].valid
                  /\ status'[g_sessions[i].user] = status[g_sessions[i].user]
    BY <2>1, <2>2, <2>5, <2>7
  <2> QED
    BY <2>3, <2>6, <2>8, FewerSessions
<1> QED
  BY <1>1, <1>2, <1>3

\* The steps that end the process leave no session; the rest write neither the
\* session table nor a status other than a fresh "offline".
LEMMA OtherSessionInv ==
  ASSUME SessionInv,
         \/ handle_new_connection
         \/ \E s \in Slots : handle_register(s)
         \/ signal_handler
         \/ Crash
         \/ server_init
         \/ UNCHANGED vars
  PROVE  SessionInv'
<1>1. ASSUME \/ handle_new_connection
             \/ server_init
             \/ UNCHANGED vars
      PROVE  SessionInv'
  <2>1. /\ UNCHANGED <<g_user_count, status, g_sessions, view, muddled>>
        /\ running' \in BOOLEAN
    BY <1>1 DEF handle_new_connection, server_init, vars, SessionInv, TypeOK
  <2>2. clients' \in [Slots -> {Closed} \cup 0 .. MaxUsers]
    <3>1. CASE handle_new_connection
      BY <3>1 DEF handle_new_connection, SessionInv, TypeOK
    <3>2. CASE server_init \/ UNCHANGED vars
      BY <3>2 DEF server_init, vars, SessionInv, TypeOK
    <3> QED
      BY <1>1, <3>1, <3>2
  <2>3. TypeOK'
    BY <2>1, <2>2 DEF SessionInv, TypeOK
  <2> QED
    BY <2>1, <2>3, FewerSessions DEF SessionInv, TypeOK
<1>2. ASSUME NEW s \in Slots, handle_register(s) PROVE SessionInv'
  <2>1. /\ g_user_count < MaxUsers
        /\ g_user_count' = g_user_count + 1
        /\ status' = [status EXCEPT ![g_user_count + 1] = "offline"]
        /\ UNCHANGED <<running, clients, g_sessions, view, muddled>>
    BY <1>2 DEF handle_register
  <2>2. TypeOK'
    BY <2>1 DEF SessionInv, TypeOK
  <2>3. \A i \in 1 .. Len(g_sessions) : g_sessions[i] \in Session
    BY DEF SessionInv, TypeOK
  <2>4. ASSUME NEW i \in 1 .. Len(g_sessions), g_sessions[i].valid
        PROVE  status'[g_sessions[i].user] = status[g_sessions[i].user]
    <3>1. g_sessions[i].user \in Users
      BY <2>3 DEF Session
    <3>2. i \in ValidSessions(g_sessions[i].user)
      BY <2>4 DEF ValidSessions, SessionInv, TypeOK
    <3>3. g_sessions[i].user <= g_user_count
      BY <3>1, <3>2 DEF SessionInv, SessionRegistered
    <3> QED
      BY <2>1, <3>1, <3>3 DEF SessionInv, TypeOK
  <2> QED
    BY <2>1, <2>2, <2>4, FewerSessions DEF SessionInv, TypeOK
<1>3. ASSUME signal_handler \/ Crash PROVE SessionInv'
  <2>1. /\ g_sessions' = <<>>
        /\ running' = FALSE
        /\ clients' = [t \in Slots |-> Closed]
        /\ view' = [t \in Slots |-> {}]
        /\ UNCHANGED g_user_count
        /\ muddled' \subseteq Users
    BY <1>3 DEF signal_handler, Crash, SessionInv, TypeOK
  <2>2. status' \in [Users -> {"offline", "online"}]
    BY <1>3 DEF signal_handler, Crash, SessionInv, TypeOK
  <2>3. \A u \in Users : ValidSessions(u)' = {}
    BY <2>1 DEF ValidSessions
  <2>4. TypeOK'
    <3>1. <<>> \in Seq(Session) /\ Len(<<>>) <= MaxSessions
      OBVIOUS
    <3> QED
      BY <2>1, <2>2, <3>1 DEF SessionInv, TypeOK
  <2> QED
    BY <2>3, <2>4 DEF SessionInv, OneValidSession, ValidSessionIsOnline, SessionRegistered
<1> QED
  BY <1>1, <1>2, <1>3

\* SessionInv is inductive.
LEMMA NextSessionInv == SessionInv /\ [Next]_vars => SessionInv'
BY LoginSessionInv, DisconnectSessionInv, OtherSessionInv DEF Next, handle_logout

LEMMA SessionInvAlways == Spec => []SessionInv
BY InitSessionInv, NextSessionInv, PTL DEF Spec

\* The slots, the user records and the sessions keep their types and sizes,
\* whatever clients do and whenever the server dies.
THEOREM PresenceTypes == Spec => []TypeOK
BY SessionInvAlways, PTL DEF SessionInv

\* A user has at most one valid session: a login ends the older one (user.c),
\* also where the new one finds the table full.
THEOREM SessionsCorrect == Spec => []OneValidSession
BY SessionInvAlways, PTL DEF SessionInv

\* A valid session belongs to a user recorded as online: disconnect_client and
\* the shutdown never leave one behind.
THEOREM ValidMeansOnline == Spec => []ValidSessionIsOnline
BY SessionInvAlways, PTL DEF SessionInv

-----------------------------------------------------------------------------
(* Users whose logins do not meet (PresenceExact, ViewExact). *)

\* handle_register resets a status, so that an id nobody has yet must not be on
\* a slot or online.
Unregistered ==
  /\ \A s \in Slots : clients[s] <= g_user_count
  /\ \A u \in Users : status[u] = "online" => u <= g_user_count

ExactInv == SessionInv /\ Unregistered /\ PresenceExact /\ ViewExact

-----------------------------------------------------------------------------
(* How the three tables of one user follow from a step. *)

\* A user whose slots, status and sessions a step leaves alone stays exact.
LEMMA SameUser ==
  ASSUME PresenceExact, NEW v \in Users, v \notin muddled,
         \A t \in Slots : clients'[t] = v <=> clients[t] = v,
         status'[v] = status[v],
         ValidSessions(v)' = ValidSessions(v)
  PROVE  /\ \A s, t \in Holders(clients', v) : s = t
         /\ status'[v] = "online" <=> Holders(clients', v) # {}
         /\ status'[v] = "online" <=> ValidSessions(v)' # {}
BY DEF PresenceExact, Holders

-----------------------------------------------------------------------------
(* One lemma for each action that moves a user. *)

\* Nothing is known and nobody is there at the start.
LEMMA InitExactInv == Init => ExactInv
<1> SUFFICES ASSUME Init PROVE ExactInv
  OBVIOUS
<1>1. \A u \in Users : Holders(clients, u) = {} /\ ValidSessions(u) = {}
  BY DEF Init, Holders, ValidSessions
<1>2. Unregistered
  BY DEF Init, Unregistered
<1>3. PresenceExact /\ ViewExact
  BY <1>1 DEF Init, PresenceExact, ViewExact
<1> QED
  BY <1>2, <1>3, InitSessionInv DEF ExactInv

\* A login that finds the session table full changes the sessions of its user
\* only, and none if the user was out.
LEMMA RefusedLoginExact ==
  ASSUME ExactInv, SessionInv', NEW s \in Slots, NEW u \in Users, handle_login(s, u),
         SessionTableFull
  PROVE  ExactInv'
<1> DEFINE K == KickOldSession(u)
<1>1. /\ g_sessions' = K
      /\ UNCHANGED <<clients, status, view, g_user_count>>
      /\ muddled' = IF Fresh(s, u) THEN muddled ELSE muddled \cup {u}
  BY DEF handle_login
<1>2. /\ Len(K) = Len(g_sessions) /\ K \in Seq(Session)
      /\ \A i \in 1 .. Len(g_sessions) :
           /\ K[i].user = g_sessions[i].user
           /\ K[i].valid = (g_sessions[i].valid /\ g_sessions[i].user # u)
  BY KickRemovesAll DEF ExactInv, SessionInv
<1>3. DOMAIN g_sessions = 1 .. Len(g_sessions) /\ DOMAIN g_sessions' = 1 .. Len(g_sessions)
  BY <1>1, <1>2 DEF ExactInv, SessionInv, TypeOK
<1>4. ASSUME NEW v \in Users \ muddled'
      PROVE  v \notin muddled /\ ValidSessions(v)' = ValidSessions(v)
  <2>1. v \notin muddled /\ (v = u => Fresh(s, u))
    BY <1>1, <1>4
  <2>2. CASE v # u
    BY <1>1, <1>2, <1>3, <2>1, <2>2 DEF ValidSessions
  <2>3. CASE v = u
    <3>1. ValidSessions(v) = {}
      BY <1>4, <2>1, <2>3 DEF Fresh, ExactInv, PresenceExact
    <3> QED
      BY <1>1, <1>2, <1>3, <2>1, <3>1 DEF ValidSessions
  <2> QED
    BY <2>2, <2>3
<1>5. PresenceExact'
  BY <1>1, <1>4 DEF ExactInv, PresenceExact, Holders
<1>6. ViewExact'
  BY <1>1, <1>4 DEF ExactInv, ViewExact, Holders, OnlineFriends
<1> QED
  BY <1>1, <1>5, <1>6 DEF ExactInv, Unregistered

\* A login that succeeds moves its user to the slot; whoever shares the slot or
\* the user is muddled from then on, and everybody else keeps slot and sessions.
LEMMA LoginExact ==
  ASSUME ExactInv, SessionInv', NEW s \in Slots, NEW u \in Users, handle_login(s, u),
         ~SessionTableFull
  PROVE  ExactInv'
<1> DEFINE K == KickOldSession(u)
           n == Len(g_sessions)
           vw == [view EXCEPT ![s] = OnlineFriends(status', u)]
<1>1. /\ g_sessions' = Append(K, [user |-> u, valid |-> TRUE])
      /\ clients' = [clients EXCEPT ![s] = u]
      /\ status' = [status EXCEPT ![u] = "online"]
      /\ view' = Broadcast(clients', vw, u, "online")
      /\ muddled' = IF Fresh(s, u) THEN muddled \ {u} ELSE muddled \cup ({u, clients[s]} \ {0})
      /\ g_user_count' = g_user_count /\ u <= g_user_count
      /\ clients[s] # Closed
  BY DEF handle_login
<1>2. /\ Len(K) = n /\ K \in Seq(Session)
      /\ \A i \in 1 .. n :
           /\ K[i].user = g_sessions[i].user
           /\ K[i].valid = (g_sessions[i].valid /\ g_sessions[i].user # u)
  BY KickRemovesAll DEF ExactInv, SessionInv
<1>3. TypeOK /\ TypeOK'
  BY DEF ExactInv, SessionInv
<1>4. /\ n \in Nat /\ DOMAIN g_sessions = 1 .. n /\ DOMAIN g_sessions' = 1 .. n + 1
      /\ g_sessions'[n + 1] = [user |-> u, valid |-> TRUE]
      /\ \A i \in 1 .. n : g_sessions'[i] = K[i]
  BY <1>1, <1>2, <1>3 DEF TypeOK
<1>5. Unregistered'
  BY <1>1, <1>3 DEF ExactInv, Unregistered, TypeOK
<1>6. ASSUME NEW v \in Users \ muddled', v # u
      PROVE  /\ v \notin muddled
             /\ \A t \in Slots : clients'[t] = v <=> clients[t] = v
             /\ status'[v] = status[v]
             /\ ValidSessions(v)' = ValidSessions(v)
  <2>1. v \notin muddled /\ v # clients[s]
    BY <1>1, <1>6 DEF Fresh
  <2>2. \A t \in Slots : clients'[t] = v <=> clients[t] = v
    BY <1>1, <1>3, <1>6, <2>1 DEF TypeOK
  <2>3. status'[v] = status[v]
    BY <1>1, <1>3, <1>6 DEF TypeOK
  <2>4. ValidSessions(v)' = ValidSessions(v)
    <3>1. \A i \in 1 .. n : /\ g_sessions'[i].user = g_sessions[i].user
                            /\ g_sessions[i].user = v =>
                                 g_sessions'[i].valid = g_sessions[i].valid
      <4> HIDE DEF K
      <4>1. ASSUME NEW i \in 1 .. n
            PROVE  g_sessions'[i] = K[i]
        BY <1>4
      <4>2. \A i \in 1 .. n : g_sessions[i] \in Session
        BY <1>3 DEF TypeOK
      <4> QED
        BY <1>2, <1>6, <4>1, <4>2 DEF K, Session
    <3>2. g_sessions'[n + 1].user # v
      BY <1>4, <1>6
    <3> HIDE DEF n
    <3> QED
      BY <1>4, <3>1, <3>2 DEF ValidSessions
  <2> QED
    BY <2>1, <2>2, <2>3, <2>4
<1>7. ASSUME u \notin muddled'
      PROVE  /\ Holders(clients', u) = {s}
             /\ status'[u] = "online"
             /\ ValidSessions(u)' # {}
  <2>1. Fresh(s, u)
    BY <1>1, <1>7
  <2>2. Holders(clients', u) = {s}
    BY <1>1, <1>3, <2>1 DEF Fresh, Holders, TypeOK
  <2>3. status'[u] = "online"
    BY <1>1, <1>3 DEF TypeOK
  <2>4. n + 1 \in ValidSessions(u)'
    BY <1>4 DEF ValidSessions
  <2> QED
    BY <2>2, <2>3, <2>4
<1>8. PresenceExact'
  <2>1. ASSUME NEW v \in Users \ muddled'
        PROVE  /\ \A t, r \in Holders(clients', v) : t = r
               /\ status'[v] = "online" <=> Holders(clients', v) # {}
               /\ status'[v] = "online" <=> ValidSessions(v)' # {}
    <3>1. CASE v = u
      BY <1>7, <2>1, <3>1
    <3>2. CASE v # u
      BY <1>6, <2>1, <3>2, SameUser DEF ExactInv
    <3> QED
      BY <3>1, <3>2
  <2> QED
    BY <2>1 DEF PresenceExact, Holders
<1>9. ViewExact'
  <2>1. vw \in [Slots -> SUBSET Users]
    BY <1>3 DEF TypeOK, OnlineFriends
  <2>2. ASSUME NEW v \in Users \ muddled', NEW t \in Holders(clients', v)
        PROVE  view'[t] = OnlineFriends(status', v)
    <3>1. t \in Slots /\ Holders(clients', v) = {t}
      BY <1>8, <2>2 DEF PresenceExact, Holders
    <3>2. view'[t] = IF <<u, v>> \in Friends THEN vw[t] \cup {u} ELSE vw[t]
      <4>1. clients' \in [Slots -> {Closed} \cup 0 .. MaxUsers] /\ v \in Users
        BY <1>3, <2>2 DEF TypeOK
      <4>2. \A f \in Users : IsClientOf(clients', t, f) <=> f = v
        <5>1. \A r \in Slots : clients'[r] = v <=> r = t
          BY <3>1 DEF Holders
        <5>2. ASSUME NEW f \in Users, IsClientOf(clients', t, f) PROVE f = v
          BY <5>1, <5>2 DEF IsClientOf, Holders
        <5>3. IsClientOf(clients', t, v)
          BY <3>1, <5>1 DEF IsClientOf, Holders
        <5> QED
          BY <5>2, <5>3, <4>1
      <4>3. (\E f \in Users : <<u, f>> \in Friends /\ IsClientOf(clients', t, f))
              <=> <<u, v>> \in Friends
        BY <4>1, <4>2
      <4> HIDE DEF vw
      <4>4. view' = Broadcast(clients', vw, u, "online")
        BY <1>1
      <4>5. view'[t] = IF \E f \in Users : <<u, f>> \in Friends /\ IsClientOf(clients', t, f)
                       THEN vw[t] \cup {u} ELSE vw[t]
        BY <3>1, <4>4 DEF Broadcast
      <4> QED
        BY <4>3, <4>5
    <3>3. CASE v = u
      <4>1. t = s
        <5>1. Holders(clients', u) = {s}
          BY <1>7, <2>2, <3>3
        <5> QED
          BY <3>1, <3>3, <5>1
      <4>2. <<u, v>> \notin Friends
        BY <3>3
      <4>3. vw[s] = OnlineFriends(status', u)
        BY <1>3 DEF TypeOK
      <4> QED
        BY <3>2, <3>3, <4>1, <4>2, <4>3
    <3>4. CASE v # u
      <4>1. t # s /\ t \in Holders(clients, v) /\ v \notin muddled
        BY <1>1, <1>3, <1>6, <2>2, <3>1, <3>4 DEF Holders, TypeOK
      <4>2. vw[t] = view[t] /\ view[t] = OnlineFriends(status, v)
        BY <1>3, <2>2, <4>1 DEF ExactInv, ViewExact, TypeOK, Holders
      <4>3. OnlineFriends(status', v) =
              IF <<u, v>> \in Friends THEN OnlineFriends(status, v) \cup {u}
              ELSE OnlineFriends(status, v)
        <5>1. status \in [Users -> {"offline", "online"}] /\ v \in Users
          BY <1>3, <2>2 DEF TypeOK
        <5>2. OnlineFriends([status EXCEPT ![u] = "online"], v) =
                IF <<u, v>> \in Friends THEN OnlineFriends(status, v) \cup {u}
                ELSE OnlineFriends(status, v)
          BY <5>1 DEF OnlineFriends
        <5> QED
          BY <1>1, <5>2
      <4> QED
        BY <3>2, <4>2, <4>3
    <3> QED
      BY <3>3, <3>4
  <2> QED
    BY <2>2 DEF ViewExact, Holders, OnlineFriends
<1> QED
  BY <1>5, <1>8, <1>9 DEF ExactInv

\* The end of a connection takes its user's slot, status and sessions away
\* together, tells the friends, and leaves everybody else alone.
LEMMA DisconnectExact ==
  ASSUME ExactInv, SessionInv', NEW s \in Slots, disconnect_client(s)
  PROVE  ExactInv'
<1> DEFINE u == clients[s]
<1>1. /\ TypeOK /\ TypeOK'
      /\ u \in 0 .. MaxUsers
      /\ clients' = [clients EXCEPT ![s] = Closed]
      /\ UNCHANGED <<g_user_count, muddled>>
  BY DEF ExactInv, SessionInv, TypeOK, disconnect_client
<1>2. /\ \A v \in Users : status'[v] = IF v = u THEN "offline" ELSE status[v]
      /\ \A v \in Users : ValidSessions(v)' = IF v = u THEN {} ELSE ValidSessions(v)
  <2>1. CASE u = 0
    <3>1. status' = status /\ g_sessions' = g_sessions
      BY <2>1 DEF disconnect_client, SetOffline
    <3> QED
      BY <2>1, <3>1 DEF ValidSessions
  <2>2. CASE u \in Users
    <3>1. status' = [status EXCEPT ![u] = "offline"] /\ g_sessions' = InvalidateByUser(u)
      <4>1. u > 0
        BY <2>2
      <4> QED
        BY <4>1 DEF disconnect_client, SetOffline
    <3>2. \A v \in Users : status'[v] = IF v = u THEN "offline" ELSE status[v]
      BY <1>1, <3>1 DEF TypeOK
    <3>3. /\ InvalidateByUser(u) \in Seq(Session)
          /\ Len(InvalidateByUser(u)) = Len(g_sessions)
          /\ \A i \in 1 .. Len(g_sessions) :
               /\ InvalidateByUser(u)[i].user = g_sessions[i].user
               /\ InvalidateByUser(u)[i].valid = (g_sessions[i].valid /\ g_sessions[i].user # u)
      BY <1>1, <2>2, InvalidateRemovesAll
    <3>4. DOMAIN g_sessions = 1 .. Len(g_sessions) /\ DOMAIN g_sessions' = 1 .. Len(g_sessions)
      BY <1>1, <3>1, <3>3 DEF TypeOK
    <3>5. ASSUME NEW v \in Users
          PROVE  ValidSessions(v)' = IF v = u THEN {} ELSE ValidSessions(v)
      BY <3>1, <3>3, <3>4 DEF ValidSessions
    <3> QED
      BY <3>2, <3>5
  <2> QED
    BY <1>1, <2>1, <2>2
<1>3. \A v \in Users, t \in Slots : clients'[t] = v <=> clients[t] = v /\ t # s
  BY <1>1 DEF TypeOK
<1>4. Unregistered'
  BY <1>1, <1>2 DEF ExactInv, Unregistered, TypeOK
<1>5. PresenceExact'
  <2>1. ASSUME NEW v \in Users, v \notin muddled
        PROVE  /\ \A t, r \in Holders(clients', v) : t = r
               /\ status'[v] = "online" <=> Holders(clients', v) # {}
               /\ status'[v] = "online" <=> ValidSessions(v)' # {}
    <3>1. /\ \A t, r \in Holders(clients, v) : t = r
          /\ status[v] = "online" <=> Holders(clients, v) # {}
          /\ status[v] = "online" <=> ValidSessions(v) # {}
      BY <2>1 DEF ExactInv, PresenceExact
    <3>2. CASE v = u
      <4>1. Holders(clients', v) = {}
        BY <1>3, <3>1, <3>2 DEF Holders
      <4> QED
        BY <1>2, <3>2, <4>1
    <3>3. CASE v # u
      <4>1. Holders(clients', v) = Holders(clients, v)
        BY <1>3, <3>3 DEF Holders
      <4> QED
        BY <1>2, <3>1, <3>3, <4>1
    <3> QED
      BY <3>2, <3>3
  <2> QED
    BY <1>1, <2>1 DEF PresenceExact, Holders
<1>6. ViewExact'
  <2>1. ASSUME NEW v \in Users, v \notin muddled, NEW t \in Slots, clients'[t] = v
        PROVE  view'[t] = OnlineFriends(status', v)
    <3>1. clients[t] = v /\ t # s
      BY <1>3, <2>1
    <3>2. \A r \in Slots : clients[r] = v <=> r = t
      BY <2>1, <3>1 DEF ExactInv, PresenceExact, Holders
    <3>3. v # u
      BY <3>1, <3>2
    <3>4. view[t] = OnlineFriends(status, v)
      BY <2>1, <3>1 DEF ExactInv, ViewExact, Holders
    <3>5. CASE u = 0
      <4>1. view' = [view EXCEPT ![s] = {}]
        BY <3>5 DEF disconnect_client
      <4>2. view'[t] = view[t]
        BY <1>1, <3>1, <4>1 DEF TypeOK
      <4>3. OnlineFriends(status', v) = OnlineFriends(status, v)
        BY <1>2, <3>5 DEF OnlineFriends
      <4> QED
        BY <3>4, <4>2, <4>3
    <3>6. CASE u \in Users
      <4>1. view' = [Broadcast(clients, view, u, "offline") EXCEPT ![s] = {}]
        <5>1. u > 0
          BY <3>6
        <5> QED
          BY <5>1 DEF disconnect_client
      <4>2. \A f \in Users : IsClientOf(clients, t, f) <=> f = v
        BY <3>1, <3>2 DEF IsClientOf, Holders
      <4>3. (\E f \in Users : <<u, f>> \in Friends /\ IsClientOf(clients, t, f))
              <=> <<u, v>> \in Friends
        BY <2>1, <4>2
      <4>4. view'[t] = IF \E f \in Users : <<u, f>> \in Friends /\ IsClientOf(clients, t, f)
                       THEN view[t] \ {u} ELSE view[t]
        BY <3>1, <4>1 DEF Broadcast
      <4>5. <<u, v>> \in Friends <=> <<v, u>> \in Friends
        OBVIOUS
      <4>6. OnlineFriends(status', v) =
              IF <<u, v>> \in Friends THEN OnlineFriends(status, v) \ {u}
              ELSE OnlineFriends(status, v)
        BY <1>2, <4>5 DEF OnlineFriends
      <4> QED
        BY <3>4, <4>3, <4>4, <4>6
    <3> QED
      BY <1>1, <3>5, <3>6
  <2> QED
    BY <1>1, <2>1 DEF ViewExact, Holders, OnlineFriends
<1> QED
  BY <1>4, <1>5, <1>6 DEF ExactInv

\* The steps that move nobody: a new connection, a new user, a restart.
LEMMA QuietExact ==
  ASSUME ExactInv, SessionInv',
         \/ handle_new_connection
         \/ \E s \in Slots : handle_register(s)
         \/ server_init
         \/ UNCHANGED vars
  PROVE  ExactInv'
<1>1. TypeOK /\ TypeOK'
  BY DEF ExactInv, SessionInv
<1>2. /\ UNCHANGED <<g_sessions, view, muddled>>
      /\ g_user_count <= g_user_count'
  BY <1>1 DEF handle_new_connection, handle_register, server_init, vars, TypeOK
<1>3. \A v \in Users, t \in Slots : clients'[t] = v <=> clients[t] = v
  <2>1. CASE handle_new_connection
    <3>1. PICK s \in Slots : clients[s] = Closed /\ clients' = [clients EXCEPT ![s] = 0]
      BY <2>1 DEF handle_new_connection, IsClientOf, Holders
    <3> QED
      BY <1>1, <3>1 DEF TypeOK
  <2>2. CASE clients' = clients
    BY <2>2
  <2> QED
    BY <2>1, <2>2 DEF handle_register, server_init, vars
<1>4. \A v \in Users : status'[v] = status[v]
  <2>1. ASSUME NEW s \in Slots, handle_register(s)
        PROVE  status' = status
    <3>1. /\ g_user_count + 1 \in Users
          /\ status' = [status EXCEPT ![g_user_count + 1] = "offline"]
      BY <1>1, <2>1 DEF handle_register, TypeOK
    <3>2. status[g_user_count + 1] = "offline"
      BY <1>1, <3>1 DEF ExactInv, Unregistered, TypeOK
    <3> QED
      BY <1>1, <3>1, <3>2 DEF TypeOK
  <2> QED
    BY <2>1 DEF handle_new_connection, server_init, vars
<1>5. \A v \in Users : ValidSessions(v)' = ValidSessions(v)
  BY <1>2 DEF ValidSessions
<1>6. Unregistered'
  <2>1. \A t \in Slots : clients'[t] = clients[t] \/ clients'[t] = 0
    BY <1>1 DEF handle_new_connection, handle_register, server_init, vars, IsClientOf,
                Holders, TypeOK
  <2>2. g_user_count \in Nat /\ g_user_count' \in Nat
    BY <1>1 DEF TypeOK
  <2>3. \A t \in Slots : clients'[t] <= g_user_count'
    <3>1. \A t \in Slots : clients[t] \in Int /\ clients[t] <= g_user_count
      BY <1>1 DEF ExactInv, Unregistered, TypeOK
    <3> QED
      BY <1>2, <2>1, <2>2, <3>1
  <2>4. ASSUME NEW v \in Users, status'[v] = "online" PROVE v <= g_user_count'
    <3>1. v <= g_user_count
      BY <1>4, <2>4 DEF ExactInv, Unregistered
    <3> QED
      BY <1>2, <2>2, <3>1
  <2> QED
    BY <2>3, <2>4 DEF Unregistered
<1>7. PresenceExact'
  <2>1. ASSUME NEW v \in Users, v \notin muddled
        PROVE  /\ \A t, r \in Holders(clients', v) : t = r
               /\ status'[v] = "online" <=> Holders(clients', v) # {}
               /\ status'[v] = "online" <=> ValidSessions(v)' # {}
    BY <1>3, <1>4, <1>5, <2>1, SameUser DEF ExactInv
  <2> QED
    BY <1>2, <2>1 DEF PresenceExact, Holders
<1>8. ViewExact'
  <2>1. ASSUME NEW v \in Users, v \notin muddled, NEW t \in Slots, clients'[t] = v
        PROVE  view'[t] = OnlineFriends(status', v)
    <3>1. view[t] = OnlineFriends(status, v)
      BY <1>3, <2>1 DEF ExactInv, ViewExact, Holders
    <3>2. OnlineFriends(status', v) = OnlineFriends(status, v)
      BY <1>4 DEF OnlineFriends
    <3> QED
      BY <1>2, <3>1, <3>2
  <2> QED
    BY <1>2, <2>1 DEF ViewExact, Holders, OnlineFriends
<1> QED
  BY <1>6, <1>7, <1>8 DEF ExactInv

\* The steps that end the process empty every slot and the session table; only
\* a crash leaves users behind who look online, and these are muddled.
LEMMA StopExact ==
  ASSUME ExactInv, SessionInv', signal_handler \/ Crash
  PROVE  ExactInv'
<1>1. TypeOK /\ TypeOK'
  BY DEF ExactInv, SessionInv
<1>2. /\ clients' = [t \in Slots |-> Closed]
      /\ g_sessions' = <<>>
      /\ g_user_count' = g_user_count
  BY DEF signal_handler, Crash
<1>3. \A v \in Users : ValidSessions(v)' = {} /\ Holders(clients', v) = {}
  BY <1>2 DEF ValidSessions, Holders
<1>4. ASSUME NEW v \in Users, v \notin muddled'
      PROVE  status'[v] = "offline"
  <2>1. CASE signal_handler
    <3>1. v \notin muddled /\ (status[v] = "online" <=> Holders(clients, v) # {})
      BY <1>4, <2>1 DEF signal_handler, ExactInv, PresenceExact
    <3>2. status'[v] = IF Holders(clients, v) # {} THEN "offline" ELSE status[v]
      BY <2>1 DEF signal_handler
    <3>3. status[v] \in {"offline", "online"}
      BY <1>1 DEF TypeOK
    <3> QED
      BY <3>1, <3>2, <3>3
  <2>2. CASE Crash
    BY <1>1, <1>4, <2>2 DEF Crash, TypeOK
  <2> QED
    BY <2>1, <2>2
<1>5. Unregistered'
  <2>1. \A v \in Users : status'[v] = "online" => status[v] = "online"
    BY DEF signal_handler, Crash
  <2> QED
    BY <1>1, <1>2, <2>1 DEF ExactInv, Unregistered, TypeOK
<1>6. PresenceExact' /\ ViewExact'
  BY <1>3, <1>4 DEF PresenceExact, ViewExact, Holders
<1> QED
  BY <1>5, <1>6 DEF ExactInv

-----------------------------------------------------------------------------
(* The theorems. *)

\* ExactInv is inductive.
LEMMA NextExactInv == ExactInv /\ [Next]_vars => ExactInv'
<1> SUFFICES ASSUME ExactInv, [Next]_vars PROVE ExactInv'
  OBVIOUS
<1>1. SessionInv'
  BY NextSessionInv DEF ExactInv
<1>2. ASSUME NEW s \in Slots, NEW u \in Users, handle_login(s, u) PROVE ExactInv'
  BY <1>1, <1>2, RefusedLoginExact, LoginExact
<1>3. ASSUME NEW s \in Slots, disconnect_client(s) \/ handle_logout(s) PROVE ExactInv'
  BY <1>1, <1>3, DisconnectExact DEF handle_logout
<1> QED
  BY <1>1, <1>2, <1>3, QuietExact, StopExact DEF Next

LEMMA ExactInvAlways == Spec => []ExactInv
BY InitExactInv, NextExactInv, PTL DEF Spec

\* For a user who logs in once at a time, slots, status and sessions agree,
\* however many clients, users and sessions there are and across failed logins,
\* lost connections, reused slots, shutdowns and crashes.
THEOREM PresenceCorrect == Spec => []PresenceExact
BY ExactInvAlways, PTL DEF ExactInv

\* The client of such a user sees its friends as they are: no notification of a
\* login, a logout or a lost connection is missing or too many, whoever is whose
\* friend.
THEOREM FriendsSeenRight == Spec => []ViewExact
BY ExactInvAlways, PTL DEF ExactInv

\* Nothing but the end of one of its own connections takes a user offline: not
\* another user's logout, not a refused login, not the registration of a user.
THEOREM OnlyOwnDisconnect == Spec => OfflineByOwnDisconnect
<1> DEFINE A == \A u \in Users : status[u] = "online" /\ status'[u] = "offline"
                  => \E s \in Holders(clients, u) : clients'[s] = Closed
<1>1. ASSUME ExactInv, [Next]_vars PROVE A
  <2> SUFFICES ASSUME NEW u \in Users, status[u] = "online", status'[u] = "offline"
               PROVE  \E s \in Holders(clients, u) : clients'[s] = Closed
    OBVIOUS
  <2>1. TypeOK /\ u <= g_user_count
    BY <1>1 DEF ExactInv, SessionInv, Unregistered
  <2>2. ASSUME NEW s \in Slots, disconnect_client(s)
        PROVE  s \in Holders(clients, u) /\ clients'[s] = Closed
    BY <2>1, <2>2 DEF disconnect_client, SetOffline, Holders, TypeOK
  <2>3. CASE signal_handler
    BY <2>1, <2>3 DEF signal_handler, Holders
  <2>4. ASSUME NEW s \in Slots, NEW v \in Users, handle_login(s, v) PROVE FALSE
    BY <2>1, <2>4 DEF handle_login, TypeOK
  <2>5. ASSUME NEW s \in Slots, handle_register(s) PROVE FALSE
    BY <2>1, <2>5 DEF handle_register, TypeOK
  <2>6. ASSUME UNCHANGED status PROVE FALSE
    BY <2>6
  <2> QED
    BY <1>1, <2>2, <2>3, <2>4, <2>5, <2>6
       DEF Next, handle_logout, handle_new_connection, Crash, server_init, vars
<1>2. ExactInv /\ [Next]_vars => [A]_vars
  BY <1>1
<1> QED
  BY <1>2, InitExactInv, NextExactInv, PTL DEF Spec, OfflineByOwnDisconnect

=============================================================================
