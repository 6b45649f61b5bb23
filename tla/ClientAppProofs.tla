-------------------------- MODULE ClientAppProofs --------------------------
(***************************************************************************)
(* Theorems about ClientApp, for any accounts and any size of the sockets: *)
(* a logout is the last thing a client says, whatever its threads and its  *)
(* signal handler interrupt, and both ends agree on who is logged in.      *)
(***************************************************************************)
EXTENDS ClientApp, NaturalsInduction, SequenceTheorems, WellFoundedInduction, TLAPS

USE ClientAppAssumption

\* A client that leaves has taken its running flag down first, and nothing puts
\* it up again; so a signal that comes later only ends the program.
Leaving == ui \in {"flagged", "logout", "join"} => ~running

\* The first signal is the only one that can tear a message.
TornOnce == running => Len(up) <= UpCap

ClientInv == TypeOK /\ Leaving /\ TornOnce /\ LogoutIsLast

LEMMA InitClientInv == Init => ClientInv
BY DEF Init, ClientInv, TypeOK, Leaving, TornOnce, LogoutIsLast, Requests, Item, Closed

\* What the client sends at the end of what is under way.
LEMMA Appended ==
  ASSUME ClientInv, NEW m \in Upward, up' = Append(up, m)
  PROVE  /\ up' \in Seq(Upward) /\ Len(up') = Len(up) + 1 /\ Len(up) \in Nat
         /\ DOMAIN up' = 1 .. Len(up) + 1 /\ DOMAIN up = 1 .. Len(up)
         /\ up'[Len(up) + 1] = m /\ \A k \in DOMAIN up : up'[k] = up[k]
<1>1. up \in Seq(Upward)
  BY DEF ClientInv, TypeOK
<1> QED
  BY <1>1

\* A step of the main thread that sends nothing.
LEMMA SilentClientInv ==
  ASSUME ClientInv, UNCHANGED <<up, down, slot, reply, user_id>>,
         ui' \in {"loop", "fgets", "send", "disconnect", "flagged", "logout", "join", "exit"},
         then' \in {"loop", "exit"}, request' \in Requests, receive' \in {"test", "recv", "done"},
         running' \in BOOLEAN, running' => running, fd_open' \in BOOLEAN,
         ui' \in {"flagged", "logout", "join"} => ~running',
         ui' \in {"join", "loop", "exit"} \/ \A k \in DOMAIN up : up[k].type # "LOGOUT"
  PROVE  ClientInv'
BY DEF ClientInv, TypeOK, Leaving, TornOnce, LogoutIsLast

LEMMA NoLogoutYet ==
  ASSUME ClientInv, ui \in {"fgets", "send", "disconnect", "flagged", "logout"} \/ running
  PROVE  \A k \in DOMAIN up : up[k].type # "LOGOUT"
BY DEF ClientInv, LogoutIsLast

LEMMA ExitClientInv == ClientInv /\ Exit => ClientInv'
<1> SUFFICES ASSUME ClientInv, Exit PROVE ClientInv'
  OBVIOUS
<1>1. TypeOK
  BY DEF ClientInv
<1> QED
  BY <1>1, SilentClientInv DEF Exit, TypeOK

LEMMA MainClientInv == ClientInv /\ (run_ui \/ process_command \/ disconnect \/ flagged \/ join) => ClientInv'
<1> SUFFICES ASSUME ClientInv, run_ui \/ process_command \/ disconnect \/ flagged \/ join
             PROVE  ClientInv'
  OBVIOUS
<1>0. TypeOK /\ Leaving
  BY DEF ClientInv
<1>1. CASE run_ui
  BY <1>0, <1>1, ExitClientInv, SilentClientInv, NoLogoutYet DEF run_ui, TypeOK
<1>2. CASE process_command
  BY <1>0, <1>2, SilentClientInv, NoLogoutYet DEF process_command, TypeOK
<1>3. CASE disconnect
  BY <1>0, <1>3, ExitClientInv, SilentClientInv, NoLogoutYet DEF disconnect, TypeOK
<1>4. CASE flagged
  BY <1>0, <1>4, SilentClientInv, NoLogoutYet DEF flagged, TypeOK, Leaving
<1>5. CASE join
  BY <1>0, <1>5, ExitClientInv, SilentClientInv, NoLogoutYet DEF join, TypeOK, Leaving
<1> QED
  BY <1>1, <1>2, <1>3, <1>4, <1>5

LEMMA LeaveClientInv ==
  ASSUME ClientInv, NEW r \in {"loop", "exit"}, leave(r)
  PROVE  ClientInv'
BY SilentClientInv, NoLogoutYet DEF leave, ClientInv, TypeOK

LEMMA SendClientInv == ClientInv /\ send => ClientInv'
<1> SUFFICES ASSUME ClientInv, send PROVE ClientInv'
  OBVIOUS
<1>0. TypeOK /\ TornOnce
  BY DEF ClientInv
<1>1. \A k \in DOMAIN up : up[k].type # "LOGOUT"
  BY NoLogoutYet DEF send
<1>2. CASE UNCHANGED up
  BY <1>0, <1>1, <1>2, SilentClientInv DEF send, TypeOK
<1>3. CASE Len(up) < UpCap /\ up' = Append(up, request)
  <2>1. request \in Upward /\ request.type # "LOGOUT"
    BY <1>0 DEF TypeOK, Upward, Requests, Item
  <2>2. /\ up' \in Seq(Upward) /\ Len(up') = Len(up) + 1 /\ Len(up) \in Nat
        /\ DOMAIN up' = 1 .. Len(up) + 1 /\ DOMAIN up = 1 .. Len(up)
        /\ up'[Len(up) + 1] = request /\ \A k \in DOMAIN up : up'[k] = up[k]
    BY <1>3, <2>1, Appended
  <2>3. Len(up') <= UpCap
    BY <1>3, <2>2
  <2>4. TypeOK'
    BY <1>0, <2>2, <2>3 DEF TypeOK, send
  <2>5. \A k \in DOMAIN up' : up'[k].type # "LOGOUT"
    BY <1>1, <2>1, <2>2
  <2> QED
    BY <2>3, <2>4, <2>5 DEF ClientInv, Leaving, TornOnce, LogoutIsLast, send
<1> QED
  BY <1>2, <1>3 DEF send, Sent

LEMMA LogoutClientInv == ClientInv /\ logout => ClientInv'
<1> SUFFICES ASSUME ClientInv, logout PROVE ClientInv'
  OBVIOUS
<1>0. TypeOK /\ Leaving
  BY DEF ClientInv
<1>1. /\ \A k \in DOMAIN up : up[k].type # "LOGOUT"
      /\ ~running /\ ~running' /\ ui' = "join"
  BY <1>0, NoLogoutYet DEF logout, Leaving
<1>2. CASE UNCHANGED up
  BY <1>0, <1>1, <1>2, SilentClientInv DEF logout, TypeOK
<1>3. CASE Len(up) < UpCap /\ up' = Append(up, Item("LOGOUT", 0))
  <2>1. /\ up' \in Seq(Upward) /\ Len(up') = Len(up) + 1 /\ Len(up) \in Nat
        /\ DOMAIN up' = 1 .. Len(up) + 1 /\ DOMAIN up = 1 .. Len(up)
        /\ \A k \in DOMAIN up : up'[k] = up[k]
    BY <1>3, Appended DEF Upward
  <2>2. TypeOK'
    BY <1>0, <1>3, <2>1 DEF TypeOK, logout
  <2>3. \A k \in DOMAIN up' : up'[k].type = "LOGOUT" => k = Len(up')
    BY <1>1, <2>1
  <2> QED
    BY <1>1, <2>2, <2>3 DEF ClientInv, Leaving, TornOnce, LogoutIsLast
<1> QED
  BY <1>2, <1>3 DEF logout, Sent

\* A signal finds running up, and no logout on its way, or ends the program.
LEMMA SignalClientInv == ClientInv /\ signal_handler => ClientInv'
<1> SUFFICES ASSUME ClientInv, signal_handler PROVE ClientInv'
  OBVIOUS
<1>0. TypeOK /\ TornOnce
  BY DEF ClientInv
<1>1. CASE ~running
  BY <1>1, ExitClientInv DEF signal_handler
<1>2. CASE running /\ UNCHANGED up
  BY <1>0, <1>2, SilentClientInv, NoLogoutYet DEF signal_handler, TypeOK
<1>3. CASE running /\ up' = Append(up, Item("TORN", 0))
  <2>1. Item("TORN", 0) \in Upward /\ Item("TORN", 0).type # "LOGOUT"
    BY DEF Upward, Item
  <2>2. /\ up' \in Seq(Upward) /\ Len(up') = Len(up) + 1 /\ Len(up) \in Nat
        /\ DOMAIN up' = 1 .. Len(up) + 1 /\ DOMAIN up = 1 .. Len(up)
        /\ up'[Len(up) + 1] = Item("TORN", 0) /\ \A k \in DOMAIN up : up'[k] = up[k]
    BY <1>3, <2>1, Appended
  <2>3. Len(up') <= UpCap + 1
    BY <1>0, <1>3, <2>2 DEF TornOnce
  <2>4. ui' = "flagged" /\ ~running' /\ then' = "exit"
    BY <1>3 DEF signal_handler
  <2>5. TypeOK'
    BY <1>0, <1>3, <2>2, <2>3, <2>4 DEF TypeOK, signal_handler
  <2>6. \A k \in DOMAIN up' : up'[k].type # "LOGOUT"
    BY <1>3, <2>1, <2>2, NoLogoutYet
  <2> QED
    BY <2>4, <2>5, <2>6 DEF ClientInv, Leaving, TornOnce, LogoutIsLast
<1> QED
  BY <1>1, <1>2, <1>3 DEF signal_handler

LEMMA ReceiveClientInv == ClientInv /\ ReceiveStep => ClientInv'
<1> SUFFICES ASSUME ClientInv, ReceiveStep PROVE ClientInv'
  OBVIOUS
<1>0. TypeOK
  BY DEF ClientInv
<1>1. /\ UNCHANGED <<main, fd_open, up, slot, reply>>
      /\ receive' \in {"test", "recv", "done"}
      /\ running' \in BOOLEAN /\ (running' => running)
  <2>1. CASE test
    BY <1>0, <2>1 DEF test, TypeOK
  <2>2. CASE recv
    <3>1. running' = (running /\ Head(down).type # "LOGOUT_ACK")
      BY <2>2 DEF recv
    <3>2. running' \in BOOLEAN /\ (running' => running)
      BY <3>1, Zenon
    <3>3. UNCHANGED <<main, fd_open, up, slot, reply>> /\ receive' = "test"
      BY <2>2 DEF recv
    <3> QED
      BY <3>2, <3>3
  <2>3. CASE lost
    BY <2>3 DEF lost
  <2> QED
    BY <2>1, <2>2, <2>3 DEF ReceiveStep
<1>2. user_id' \in Users \cup {0} /\ down' \in Seq(Downward) /\ Len(down') <= DownCap
  <2>1. CASE recv
    <3>1. down \in Seq(Downward) /\ down # <<>> /\ down' = Tail(down) /\ user_id' = UserId(Head(down))
      BY <1>0, <2>1 DEF recv, TypeOK
    <3>2. Head(down) \in Downward /\ Tail(down) \in Seq(Downward) /\ Len(Tail(down)) = Len(down) - 1
      BY <3>1
    <3>3. Head(down).type = "LOGIN_ACK" => Head(down).user \in Users \cup {0}
      BY <3>2 DEF Downward, Notices, Answers, LoginAcks, Item
    <3>4. user_id' \in Users \cup {0}
      BY <1>0, <3>1, <3>3 DEF UserId, TypeOK
    <3>5. Len(down) \in Nat /\ Len(down) <= DownCap
      BY <1>0, <3>1 DEF TypeOK
    <3> QED
      BY <3>1, <3>2, <3>4, <3>5
  <2>2. CASE UNCHANGED <<user_id, down>>
    BY <1>0, <2>2 DEF TypeOK
  <2> QED
    BY <2>1, <2>2 DEF ReceiveStep, test, lost
<1>3. TypeOK'
  BY <1>0, <1>1, <1>2 DEF TypeOK, main
<1> QED
  BY <1>1, <1>3 DEF ClientInv, Leaving, TornOnce, LogoutIsLast, main

-----------------------------------------------------------------------------
(* The server's side *)

\* What the server does takes from the front of up only.
LEMMA ServerClientInv ==
  ASSUME ClientInv, UNCHANGED <<main, receive, running, user_id, fd_open>>, TypeOK',
         UNCHANGED up \/ (up # <<>> /\ up' = Tail(up))
  PROVE  ClientInv'
<1>0. TypeOK /\ TornOnce /\ LogoutIsLast /\ Leaving
  BY DEF ClientInv
<1>1. CASE UNCHANGED up
  BY <1>0, <1>1 DEF ClientInv, Leaving, TornOnce, LogoutIsLast, main
<1>2. CASE up # <<>> /\ up' = Tail(up)
  <2>1. up \in Seq(Upward) /\ up # <<>>
    BY <1>0, <1>2 DEF TypeOK
  <2>2. /\ Len(up') = Len(up) - 1 /\ Len(up) \in Nat
        /\ DOMAIN up' = 1 .. Len(up) - 1 /\ DOMAIN up = 1 .. Len(up)
        /\ \A k \in DOMAIN up' : up'[k] = up[k + 1]
    BY <1>2, <2>1
  <2>3. \A k \in DOMAIN up' : k + 1 \in DOMAIN up /\ (k + 1 = Len(up) => k = Len(up'))
    BY <2>2
  <2>4. LogoutIsLast'
    BY <1>0, <2>2, <2>3 DEF LogoutIsLast, main
  <2>5. TornOnce'
    BY <1>0, <2>2 DEF TornOnce
  <2> QED
    BY <1>0, <2>4, <2>5 DEF ClientInv, Leaving, main
<1> QED
  BY <1>1, <1>2

LEMMA ServeClientInv == ClientInv /\ serve => ClientInv'
<1> SUFFICES ASSUME ClientInv, serve PROVE ClientInv'
  OBVIOUS
<1>0. TypeOK
  BY DEF ClientInv
<1>1. /\ up \in Seq(Upward) /\ up # <<>> /\ up' = Tail(up) /\ reply' \in Replies(Head(up))
      /\ UNCHANGED <<main, receive, running, user_id, fd_open, down>>
  BY <1>0 DEF serve, TypeOK
<1>2. Head(up) \in Upward /\ Tail(up) \in Seq(Upward) /\ Len(Tail(up)) = Len(up) - 1
  BY <1>1
<1>3. \A u \in Users \cup {0} : Item("LOGIN_ACK", u) \in Work
  BY DEF Work, Downward, LoginAcks
<1>4. {Item("ANSWER", 0), Item("LOGOUT_ACK", 0), Item("close", 0), Item("read", 0)} \subseteq Work
  BY DEF Work, Downward, Answers
<1>5. \E a \in Work, b \in Work : reply' = <<a>> \/ reply' = <<a, b>>
  <2>1. CASE Head(up).type = "LOGIN"
    <3>1. Head(up).user \in Users
      BY <1>2, <2>1 DEF Upward, Requests, Item
    <3> QED
      BY <1>1, <1>3, <1>4, <2>1, <3>1 DEF Replies
  <2>2. CASE Head(up).type \in {"LOGOUT", "REQUEST", "TORN"}
    BY <1>1, <1>4, <2>2 DEF Replies
  <2> QED
    BY <1>2, <2>1, <2>2 DEF Upward, Requests, Item
<1>6. reply' \in Seq(Work) /\ reply'[1] \in Work
  <2>1. PICK a \in Work, b \in Work : reply' = <<a>> \/ reply' = <<a, b>>
    BY <1>5
  <2>2. <<a>> \in Seq(Work) /\ <<a, b>> \in Seq(Work)
    OBVIOUS
  <2>3. <<a>>[1] = a /\ <<a, b>>[1] = a
    OBVIOUS
  <2> QED
    BY <2>1, <2>2, <2>3
<1>7. slot' \in Users \cup {0, Closed}
  <2>1. reply'[1].type = "LOGIN_ACK" => reply'[1].user \in Users \cup {0}
    BY <1>6 DEF Work, Downward, Notices, Answers, LoginAcks, Item
  <2> QED
    BY <1>0, <2>1 DEF serve, TypeOK
<1>8. TypeOK'
  BY <1>0, <1>1, <1>2, <1>6, <1>7 DEF TypeOK, main
<1> QED
  BY <1>1, <1>8, ServerClientInv

LEMMA AnswerClientInv == ClientInv /\ (notify \/ send_response \/ closed \/ drop) => ClientInv'
<1> SUFFICES ASSUME ClientInv, notify \/ send_response \/ closed \/ drop PROVE ClientInv'
  OBVIOUS
<1>0. TypeOK
  BY DEF ClientInv
<1>1. UNCHANGED <<main, receive, running, user_id, fd_open, up>>
  BY DEF notify, send_response, closed, drop
<1>2. CASE notify
  <2>1. Item("NOTICE", 0) \in Work
    BY DEF Work, Downward, Notices
  <2>2. reply' \in Seq(Work)
    BY <1>2, <2>1 DEF notify
  <2>3. TypeOK'
    BY <1>0, <1>1, <1>2, <2>2 DEF TypeOK, notify, main
  <2> QED
    BY <1>1, <2>3, ServerClientInv
<1>3. CASE send_response
  <2>1. reply \in Seq(Work) /\ reply # <<>> /\ reply' = Tail(reply) /\ Head(reply).type # "read"
    BY <1>0, <1>3 DEF TypeOK, send_response
  <2>2. Head(reply) \in Work /\ reply' \in Seq(Work)
    BY <2>1
  <2>3. CASE Head(reply).type = "close" \/ down' = down
    <3>1. slot' \in Users \cup {0, Closed} /\ down' = down
      BY <1>0, <1>3, <2>3 DEF TypeOK, send_response
    <3>2. TypeOK'
      BY <1>0, <1>1, <2>2, <3>1 DEF TypeOK, main
    <3> QED
      BY <1>1, <3>2, ServerClientInv
  <2>4. CASE Head(reply).type # "close" /\ Len(down) < DownCap /\ down' = Append(down, Head(reply))
    <3>1. Head(reply) \in Downward
      BY <2>1, <2>2, <2>4 DEF Work, Item
    <3>2. down \in Seq(Downward) /\ Len(down) \in Nat
      BY <1>0 DEF TypeOK
    <3>3. down' \in Seq(Downward) /\ Len(down') <= DownCap
      BY <2>4, <3>1, <3>2
    <3>4. TypeOK'
      BY <1>0, <1>1, <1>3, <2>2, <2>4, <3>3 DEF TypeOK, send_response, main
    <3> QED
      BY <1>1, <3>4, ServerClientInv
  <2> QED
    BY <1>3, <2>3, <2>4 DEF send_response
<1>4. CASE closed \/ drop
  <2>1. reply' \in Seq(Work) /\ slot' = Closed /\ down' = down
    <3>1. <<>> \in Seq(Work)
      OBVIOUS
    <3> QED
      BY <1>4, <3>1 DEF closed, drop
  <2>2. TypeOK'
    BY <1>0, <1>1, <2>1 DEF TypeOK, main
  <2> QED
    BY <1>1, <2>2, ServerClientInv
<1> QED
  BY <1>2, <1>3, <1>4

LEMMA NextClientInv == ClientInv /\ [Next]_vars => ClientInv'
<1> SUFFICES ASSUME ClientInv, [Next]_vars PROVE ClientInv'
  OBVIOUS
<1>1. CASE UNCHANGED vars
  BY <1>1 DEF vars, main, ClientInv, TypeOK, Leaving, TornOnce, LogoutIsLast
<1> QED
  BY <1>1, MainClientInv, LeaveClientInv, SendClientInv, LogoutClientInv, SignalClientInv,
     ReceiveClientInv, ServeClientInv, AnswerClientInv
     DEF Next, MainStep, Serve

LEMMA ClientInvAlways == Spec => []ClientInv
BY InitClientInv, NextClientInv, PTL DEF Spec

\* The two threads, the sockets and the server's side keep their types.
THEOREM ClientTypes == Spec => []TypeOK
BY ClientInvAlways, PTL DEF ClientInv

\* A logout is the last thing a client says, whichever thread or signal ends it.
THEOREM GoodbyeIsLast == Spec => []LogoutIsLast
BY ClientInvAlways, PTL DEF ClientInv

-----------------------------------------------------------------------------
(* Who the client takes itself for *)

\* A login that was not refused.
Ack(m) == m.type = "LOGIN_ACK" /\ m.user # 0

NoAck(s) == \A i \in 1 .. Len(s) : ~Ack(s[i])
LastAck(s, k) == k \in 1 .. Len(s) /\ Ack(s[k]) /\ \A i \in 1 .. Len(s) : i > k => ~Ack(s[i])

\* Eventually, for a client that takes itself for u.
Outcome(s, u) ==
  LET k == SelectLastInSeq(s, LAMBDA m : m.type = "LOGIN_ACK" /\ m.user # 0) IN
  IF k = 0 THEN u ELSE s[k].user

\* The receive thread never starts again, and the socket is closed after its end.
ClosedAfterThread == ~fd_open => receive = "done"

\* Among positions, if there are any, one is the last.
LEMMA LastIsFound ==
  ASSUME NEW n \in Nat, NEW I \in SUBSET (1 .. n), I # {}
  PROVE  \E k \in I : \A i \in I : i <= k
<1> DEFINE Far == {d \in Nat : n - d \in I}
<1>1. Far # {} /\ Far \subseteq Nat
  <2>1. PICK i \in I : TRUE
    OBVIOUS
  <2>2. n - i \in Nat /\ n - (n - i) = i
    BY <2>1
  <2> QED
    BY <2>1, <2>2
<1>2. IsWellFoundedOn(OpToRel(<, Nat), Nat)
  BY NatLessThanWellFounded
<1>3. PICK d \in Far : \A x \in Far : ~(<<x, d>> \in OpToRel(<, Nat))
  BY <1>1, <1>2, WFMin
<1>4. \A x \in Far : ~(x < d)
  BY <1>3 DEF OpToRel
<1>5. n - d \in I
  BY <1>3
<1>6. \A i \in I : i <= n - d
  <2> SUFFICES ASSUME NEW i \in I PROVE i <= n - d
    OBVIOUS
  <2>1. n - i \in Far
    <3>1. n - i \in Nat /\ n - (n - i) = i
      OBVIOUS
    <3> QED
      BY <3>1
  <2>2. ~(n - i < d) /\ d \in Nat
    BY <1>4, <2>1, <1>3
  <2> QED
    BY <2>2
<1> QED
  BY <1>5, <1>6

LEMMA SomeLastAck ==
  ASSUME NEW T, NEW s \in Seq(T)
  PROVE  NoAck(s) \/ \E k \in 1 .. Len(s) : LastAck(s, k)
<1> DEFINE I == {i \in 1 .. Len(s) : Ack(s[i])}
<1>1. CASE I = {}
  BY <1>1 DEF NoAck
<1>2. CASE I # {}
  <2>0. Len(s) \in Nat /\ I \in SUBSET (1 .. Len(s))
    OBVIOUS
  <2>1. PICK k \in I : \A i \in I : i <= k
    <3> HIDE DEF I
    <3> QED
      BY <1>2, <2>0, LastIsFound
  <2>2. \A i \in 1 .. Len(s) : i > k => ~Ack(s[i])
    BY <2>1
  <2> QED
    BY <2>1, <2>2 DEF LastAck
<1> QED
  BY <1>1, <1>2

\* What the outcome is without logins, and with a last login.
LEMMA OutcomeNoAck ==
  ASSUME NEW T, NEW s \in Seq(T), NEW u, NoAck(s)
  PROVE  Outcome(s, u) = u
<1>1. {i \in 1 .. Len(s) : s[i].type = "LOGIN_ACK" /\ s[i].user # 0} = {}
  BY DEF NoAck, Ack
<1> QED
  BY <1>1 DEF Outcome, SelectLastInSeq

LEMMA OutcomeLastAck ==
  ASSUME NEW T, NEW s \in Seq(T), NEW u, NEW k, LastAck(s, k)
  PROVE  Outcome(s, u) = s[k].user
<1> DEFINE I == {i \in 1 .. Len(s) : s[i].type = "LOGIN_ACK" /\ s[i].user # 0}
<1>1. k \in I /\ \A i \in I : k >= i
  BY DEF LastAck, Ack
<1>2. \A x \in I : (\A i \in I : x >= i) => x = k
  BY <1>1
<1>3. Max(I) = k
  BY <1>1, <1>2 DEF Max
<1>4. k # 0 /\ I # {}
  BY <1>1
<1> HIDE DEF I
<1>5. SelectLastInSeq(s, LAMBDA m : m.type = "LOGIN_ACK" /\ m.user # 0) = k
  BY <1>3, <1>4 DEF SelectLastInSeq, I
<1> QED
  BY <1>4, <1>5 DEF Outcome

\* A login at the end is the last one; anything else there changes nothing.
LEMMA OutcomeAppended ==
  ASSUME NEW T, NEW s \in Seq(T), NEW m \in T, NEW u
  PROVE  Outcome(Append(s, m), u) = IF Ack(m) THEN m.user ELSE Outcome(s, u)
<1>0. Append(s, m) \in Seq(T)
  OBVIOUS
<1>1. PICK t \in Seq(T) : t = Append(s, m)
  BY <1>0, Zenon
<1>2. /\ Len(t) = Len(s) + 1 /\ Len(s) \in Nat
      /\ t[Len(s) + 1] = m /\ \A i \in 1 .. Len(s) : t[i] = s[i]
  BY <1>1
<1>3. ASSUME Ack(m) PROVE Outcome(t, u) = m.user
  <2>1. LastAck(t, Len(s) + 1)
    BY <1>2, <1>3 DEF LastAck
  <2>2. Outcome(t, u) = t[Len(s) + 1].user
    BY <2>1, OutcomeLastAck
  <2> QED
    BY <1>2, <2>2
<1>4. ASSUME ~Ack(m), NoAck(s) PROVE Outcome(t, u) = Outcome(s, u)
  <2>1. NoAck(t)
    BY <1>2, <1>4 DEF NoAck
  <2>2. Outcome(t, u) = u /\ Outcome(s, u) = u
    BY <1>4, <2>1, OutcomeNoAck
  <2> QED
    BY <2>2
<1>5. ASSUME ~Ack(m), NEW k \in 1 .. Len(s), LastAck(s, k) PROVE Outcome(t, u) = Outcome(s, u)
  <2>1. LastAck(t, k) /\ t[k] = s[k]
    BY <1>2, <1>5 DEF LastAck
  <2>2. Outcome(t, u) = t[k].user /\ Outcome(s, u) = s[k].user
    BY <1>5, <2>1, OutcomeLastAck
  <2> QED
    BY <2>1, <2>2
<1>6. Outcome(t, u) = IF Ack(m) THEN m.user ELSE Outcome(s, u)
  BY <1>3, <1>4, <1>5, SomeLastAck
<1> QED
  BY <1>1, <1>6

\* Reading the first message leaves the outcome as it was.
LEMMA OutcomeRead ==
  ASSUME NEW T, NEW m \in T, NEW s \in Seq(T), NEW u, NEW v, v = IF Ack(m) THEN m.user ELSE u
  PROVE  Outcome(<<m>> \o s, u) = Outcome(s, v)
<1>0. <<m>> \o s \in Seq(T)
  OBVIOUS
<1>1. PICK t \in Seq(T) : t = <<m>> \o s
  BY <1>0, Zenon
<1>2. /\ Len(t) = Len(s) + 1 /\ Len(s) \in Nat
      /\ t[1] = m /\ \A i \in 1 .. Len(s) : t[i + 1] = s[i]
  BY <1>1
<1>3. \A i \in 1 .. Len(t) : i > 1 => i - 1 \in 1 .. Len(s) /\ t[i] = s[i - 1]
  <2> SUFFICES ASSUME NEW i \in 1 .. Len(t), i > 1
               PROVE  i - 1 \in 1 .. Len(s) /\ t[i] = s[i - 1]
    OBVIOUS
  <2>1. i - 1 \in 1 .. Len(s) /\ (i - 1) + 1 = i
    BY <1>2
  <2> QED
    BY <1>2, <2>1
<1>4. ASSUME NEW k \in 1 .. Len(s), LastAck(s, k) PROVE Outcome(t, u) = Outcome(s, v)
  <2>1. k + 1 \in 1 .. Len(t) /\ t[k + 1] = s[k] /\ Ack(s[k])
    BY <1>2, <1>4 DEF LastAck
  <2>2. \A i \in 1 .. Len(t) : i > k + 1 => ~Ack(t[i])
    <3> SUFFICES ASSUME NEW i \in 1 .. Len(t), i > k + 1 PROVE ~Ack(t[i])
      OBVIOUS
    <3>1. i - 1 \in 1 .. Len(s) /\ i - 1 > k /\ t[i] = s[i - 1]
      BY <1>2, <1>3
    <3> QED
      BY <1>4, <3>1 DEF LastAck
  <2>3. LastAck(t, k + 1)
    BY <2>1, <2>2 DEF LastAck
  <2>4. Outcome(t, u) = t[k + 1].user /\ Outcome(s, v) = s[k].user
    BY <1>4, <2>3, OutcomeLastAck
  <2> QED
    BY <2>1, <2>4
<1>5. ASSUME NoAck(s), Ack(m) PROVE Outcome(t, u) = Outcome(s, v)
  <2>1. \A i \in 1 .. Len(t) : i > 1 => ~Ack(t[i])
    BY <1>3, <1>5 DEF NoAck
  <2>2. LastAck(t, 1)
    BY <1>2, <1>5, <2>1 DEF LastAck
  <2>3. Outcome(t, u) = t[1].user /\ Outcome(s, v) = v
    BY <1>5, <2>2, OutcomeLastAck, OutcomeNoAck
  <2> QED
    BY <1>2, <1>5, <2>3
<1>6. ASSUME NoAck(s), ~Ack(m) PROVE Outcome(t, u) = Outcome(s, v)
  <2>1. \A i \in 1 .. Len(t) : i > 1 => ~Ack(t[i])
    BY <1>3, <1>6 DEF NoAck
  <2>2. NoAck(t)
    BY <1>2, <1>6, <2>1 DEF NoAck
  <2>3. Outcome(t, u) = u /\ Outcome(s, v) = v
    BY <1>6, <2>2, OutcomeNoAck
  <2> QED
    BY <1>6, <2>3
<1>7. Outcome(t, u) = Outcome(s, v)
  BY <1>4, <1>5, <1>6, SomeLastAck
<1> QED
  BY <1>1, <1>7

\* What the server sends while the client reads ends where it should.
Agrees ==
  /\ slot # Closed /\ receive # "done" => Outcome(down \o reply, user_id) = slot
  /\ ClosedAfterThread

\* A message moved from the front of one sequence to the end of the one before.
LEMMA MoveOne ==
  ASSUME NEW T, NEW s \in Seq(T), NEW r \in Seq(T), r # <<>>
  PROVE  Append(s, Head(r)) \o Tail(r) = s \o r
<1>1. Head(r) \in T /\ Tail(r) \in Seq(T) /\ r = <<Head(r)>> \o Tail(r)
  OBVIOUS
<1>2. <<Head(r)>> \in Seq(T) /\ Append(s, Head(r)) = s \o <<Head(r)>>
  BY <1>1
<1> QED
  BY <1>1, <1>2, ConcatAssociative

LEMMA InitAgrees == Init => Agrees
<1> SUFFICES ASSUME Init PROVE Agrees
  OBVIOUS
<1>1. down \o reply = <<>> /\ <<>> \in Seq(Work) /\ NoAck(<<>>)
  BY DEF Init, NoAck
<1>2. Outcome(down \o reply, user_id) = user_id
  BY <1>1, OutcomeNoAck
<1> QED
  BY <1>2 DEF Init, Agrees, ClosedAfterThread

\* A step that moves nothing under way, or ends the agreement.
LEMMA QuietAgrees ==
  ASSUME Agrees, fd_open' \/ receive' = "done",
         \/ slot' = Closed \/ receive' = "done"
         \/ /\ receive # "done"
            /\ UNCHANGED <<slot, user_id>> /\ down' \o reply' = down \o reply
  PROVE  Agrees'
BY DEF Agrees, ClosedAfterThread

LEMMA MainAgrees ==
  ASSUME TypeOK, Agrees,
         MainStep \/ process_command \/ (\E r \in {"loop", "exit"} : leave(r)) \/ signal_handler
  PROVE  Agrees'
<1>1. CASE Exit
  BY <1>1, QuietAgrees DEF Exit
<1>2. CASE /\ UNCHANGED <<slot, user_id, receive, down, reply>>
           /\ fd_open' = fd_open \/ receive = "done"
  BY <1>2 DEF Agrees, ClosedAfterThread
<1> QED
  BY <1>1, <1>2 DEF MainStep, run_ui, process_command, leave, send, disconnect, flagged, logout,
                    join, signal_handler

LEMMA ReceiveAgrees == ASSUME TypeOK, Agrees, ReceiveStep PROVE Agrees'
<1>1. CASE test
  BY <1>1 DEF test, main, Agrees, ClosedAfterThread
<1>2. CASE lost
  BY <1>2 DEF lost, Agrees, ClosedAfterThread
<1>3. CASE recv
  <2>1. PICK m : m = Head(down)
    OBVIOUS
  <2>2. down \in Seq(Downward) /\ down # <<>> /\ reply \in Seq(Work) /\ Downward \subseteq Work
    BY <1>3 DEF recv, TypeOK, Work
  <2>3. m \in Work /\ down' = Tail(down) /\ down' \in Seq(Work) /\ down = <<m>> \o down'
    <3>1. Head(down) \in Downward /\ Tail(down) \in Seq(Downward) /\ down = <<Head(down)>> \o Tail(down)
      BY <2>2
    <3>2. Tail(down) \in Seq(Work)
      BY <2>2, <3>1
    <3> QED
      BY <1>3, <2>1, <2>2, <3>1, <3>2 DEF recv
  <2>4. down \o reply = <<m>> \o (down' \o reply) /\ down' \o reply \in Seq(Work)
    <3>1. <<m>> \in Seq(Work)
      BY <2>3
    <3> QED
      BY <2>2, <2>3, <3>1, ConcatAssociative, ConcatProperties
  <2>5. user_id' = IF Ack(m) THEN m.user ELSE user_id
    BY <1>3, <2>1 DEF recv, UserId, Ack
  <2>6. Outcome(down \o reply, user_id) = Outcome(down' \o reply, user_id')
    <3>1. PICK s \in Seq(Work) : s = down' \o reply
      BY <2>4, Zenon
    <3>2. PICK v : v = user_id'
      OBVIOUS
    <3>3. v = IF Ack(m) THEN m.user ELSE user_id
      BY <2>5, <3>2
    <3>4. Outcome(<<m>> \o s, user_id) = Outcome(s, v)
      BY <2>3, <3>3, OutcomeRead
    <3> QED
      BY <2>4, <3>1, <3>2, <3>4, Zenon
  <2>7. UNCHANGED <<slot, reply, fd_open>> /\ receive = "recv" /\ receive' = "test"
    BY <1>3 DEF recv
  <2> QED
    BY <2>6, <2>7 DEF Agrees, ClosedAfterThread
<1> QED
  BY <1>1, <1>2, <1>3 DEF ReceiveStep

\* A handler's answer that is not a login does not count; a login sets the slot.
LEMMA AnsweredAgrees ==
  ASSUME TypeOK, Agrees, reply = <<>>, UNCHANGED <<down, user_id, receive, fd_open>>,
         NEW a \in Work, NEW b \in Work, ~Ack(b), reply' = <<a>> \/ reply' = <<a, b>>,
         slot # Closed, slot' = IF Ack(a) THEN a.user ELSE slot
  PROVE  Agrees'
<1>1. down \in Seq(Work)
  <2>1. down \in Seq(Downward) /\ Downward \subseteq Work
    BY DEF TypeOK, Work
  <2> QED
    BY <2>1
<1>2. down \o reply = down
  BY <1>1
<1>3. Append(down, a) \in Seq(Work)
  BY <1>1
<1>4. down' \o reply' = Append(down, a) \/ down' \o reply' = Append(Append(down, a), b)
  <2>1. down \o <<a>> = Append(down, a)
    BY <1>1
  <2>2. down \o <<a, b>> = Append(Append(down, a), b)
    BY <1>1
  <2> QED
    BY <2>1, <2>2
<1>5. Outcome(down' \o reply', user_id) = IF Ack(a) THEN a.user ELSE Outcome(down, user_id)
  <2>1. Outcome(Append(down, a), user_id) = IF Ack(a) THEN a.user ELSE Outcome(down, user_id)
    BY <1>1, OutcomeAppended, Zenon
  <2>2. Outcome(Append(Append(down, a), b), user_id) = Outcome(Append(down, a), user_id)
    BY <1>3, OutcomeAppended
  <2> QED
    BY <1>4, <2>1, <2>2, Zenon
<1> QED
  BY <1>2, <1>5 DEF Agrees, ClosedAfterThread

LEMMA ServeAgrees == ASSUME TypeOK, Agrees, serve PROVE Agrees'
<1>1. /\ up \in Seq(Upward) /\ up # <<>> /\ reply' \in Replies(Head(up)) /\ reply = <<>> /\ slot # Closed
      /\ UNCHANGED <<down, user_id, receive, fd_open>>
      /\ slot' = IF Ack(reply'[1]) THEN reply'[1].user ELSE slot
  BY DEF serve, TypeOK, Ack
<1>2. Head(up) \in Upward
  BY <1>1
<1>3. \A u \in Users \cup {0} : Item("LOGIN_ACK", u) \in Work
  BY DEF Work, Downward, LoginAcks
<1>4. /\ {Item("ANSWER", 0), Item("LOGOUT_ACK", 0), Item("close", 0), Item("read", 0)} \subseteq Work
      /\ ~Ack(Item("ANSWER", 0)) /\ ~Ack(Item("close", 0)) /\ ~Ack(Item("read", 0))
  BY DEF Work, Downward, Answers, Ack, Item
<1>5. \E a \in Work, b \in Work : (reply' = <<a>> \/ reply' = <<a, b>>) /\ ~Ack(b)
  <2>1. CASE Head(up).type = "LOGIN"
    <3>1. Head(up).user \in Users
      BY <1>2, <2>1 DEF Upward, Requests, Item
    <3> QED
      BY <1>1, <1>3, <1>4, <2>1, <3>1 DEF Replies
  <2>2. CASE Head(up).type \in {"LOGOUT", "REQUEST", "TORN"}
    BY <1>1, <1>4, <2>2 DEF Replies
  <2> QED
    BY <1>2, <2>1, <2>2 DEF Upward, Requests, Item
<1>6. PICK a \in Work, b \in Work : (reply' = <<a>> \/ reply' = <<a, b>>) /\ ~Ack(b)
  BY <1>5
<1>7. reply'[1] = a
  <2>1. <<a>>[1] = a /\ <<a, b>>[1] = a
    OBVIOUS
  <2> QED
    BY <1>6, <2>1
<1> QED
  BY <1>1, <1>6, <1>7, AnsweredAgrees

\* Sending moves a message from the handler to the socket.
LEMMA SendAgrees == ASSUME TypeOK, Agrees, send_response PROVE Agrees'
<1>1. UNCHANGED <<user_id, receive, fd_open>> /\ slot # Closed /\ reply # <<>> /\ reply' = Tail(reply)
  BY DEF send_response
<1>2. CASE Head(reply).type = "close" \/ ~fd_open
  BY <1>1, <1>2, QuietAgrees DEF send_response, Agrees, ClosedAfterThread
<1>3. CASE slot' = slot /\ fd_open /\ down' = Append(down, Head(reply))
  <2>1. down \in Seq(Work) /\ reply \in Seq(Work)
    <3>1. down \in Seq(Downward) /\ Downward \subseteq Work
      BY DEF TypeOK, Work
    <3> QED
      BY <3>1 DEF TypeOK
  <2>2. down' \o reply' = down \o reply
    BY <1>1, <1>3, <2>1, MoveOne
  <2> QED
    BY <1>1, <1>3, <2>2, QuietAgrees DEF Agrees, ClosedAfterThread
<1> QED
  BY <1>2, <1>3 DEF send_response

LEMMA NextAgrees == TypeOK /\ Agrees /\ [Next]_vars => Agrees'
<1> SUFFICES ASSUME TypeOK, Agrees, [Next]_vars PROVE Agrees'
  OBVIOUS
<1>1. CASE UNCHANGED vars
  BY <1>1 DEF vars, main, Agrees, ClosedAfterThread
<1>2. CASE notify
  <2>1. Item("NOTICE", 0) \in Work /\ ~Ack(Item("NOTICE", 0))
    BY DEF Work, Downward, Notices, Ack, Item
  <2> QED
    BY <1>2, <2>1, AnsweredAgrees DEF notify, Closed
<1>3. CASE closed \/ drop
  BY <1>3 DEF closed, drop, Agrees, ClosedAfterThread
<1> QED
  BY <1>1, <1>2, <1>3, MainAgrees, ReceiveAgrees, ServeAgrees, SendAgrees DEF Next, Serve

\* The client and the server agree on who is logged in, up to what is under way,
\* through refused logins and logins as somebody else (client.c:140).
THEOREM SamePerson == Spec => []UserIdAgrees
<1>1. Agrees => UserIdAgrees
  BY DEF Agrees, UserIdAgrees, Eventually, Outcome
<1> QED
  BY <1>1, InitAgrees, NextAgrees, ClientTypes, PTL DEF Spec

=============================================================================
