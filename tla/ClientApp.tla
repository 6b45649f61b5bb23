----------------------------- MODULE ClientApp -----------------------------
(***************************************************************************)
(* The chat client (src/client): a thread that reads commands and sends    *)
(* requests, a thread that receives and prints, and a signal handler, which *)
(* share running and user_id without a lock; with the server's side of     *)
(* this one connection, whose single thread sends with a send() that       *)
(* blocks when nobody reads.                                               *)
(*                                                                         *)
(* A message is one item of a socket (module Framing).  A send() that is   *)
(* interrupted leaves "TORN" in it: part of a message whose rest never     *)
(* comes.                                                                  *)
(***************************************************************************)
EXTENDS Integers, Sequences, SequencesExt

CONSTANTS
  Users,            \* the accounts the person at the keyboard has
  UpCap, DownCap    \* messages a socket holds in each direction

ASSUME ClientAppAssumption ==
  /\ Users \subseteq Nat \ {0}
  /\ UpCap \in Nat \ {0} /\ DownCap \in Nat \ {0}

VARIABLES
  ui,        \* where the main thread is
  then,      \* where client_disconnect returns to: "loop" or "exit"
  request,   \* what send_message is sending
  receive,   \* where the receive thread is
  running, user_id,    \* g_client
  fd_open,   \* the client has not closed its socket
  up, down,  \* messages under way to the server and to the client
  slot,      \* clients[s].user_id, or Closed
  reply      \* what the server's handler has still to send here

main == <<ui, then, request>>
vars == <<main, receive, running, user_id, fd_open, up, down, slot, reply>>

Closed == -1
Item(t, u) == [type |-> t, user |-> u]
\* The requests that commands send.
Requests == {Item("LOGIN", u) : u \in Users} \cup {Item("REQUEST", 0)}
Upward == Requests \cup {Item("LOGOUT", 0), Item("TORN", 0)}

\* What receive_thread only prints: what others do, and the other answers.
Notices == {Item("NOTICE", 0)}
Answers == {Item("ANSWER", 0)}
\* A LOGIN_ACK without a user is a refusal.
LoginAcks == {Item("LOGIN_ACK", u) : u \in Users \cup {0}}
Downward == Notices \cup Answers \cup LoginAcks \cup {Item("LOGOUT_ACK", 0)}
\* What else a handler may have to do: close the slot, or read on.
Work == Downward \cup {Item("close", 0), Item("read", 0)}

TypeOK ==
  /\ ui \in {"loop", "fgets", "send", "disconnect", "flagged", "logout", "join", "exit"}
  /\ then \in {"loop", "exit"} /\ request \in Requests
  /\ receive \in {"test", "recv", "done"}
  /\ running \in BOOLEAN /\ user_id \in Users \cup {0} /\ fd_open \in BOOLEAN
  /\ up \in Seq(Upward) /\ Len(up) <= UpCap + 1    \* a torn message on top
  /\ down \in Seq(Downward) /\ Len(down) <= DownCap
  /\ slot \in Users \cup {0, Closed}
  /\ reply \in Seq(Work)

\* client_connect
Init ==
  /\ ui = "loop" /\ then = "loop" /\ request = Item("REQUEST", 0)
  /\ receive = "test" /\ running = TRUE /\ user_id = 0 /\ fd_open = TRUE
  /\ up = <<>> /\ down = <<>> /\ slot = 0 /\ reply = <<>>

-----------------------------------------------------------------------------
(* The main thread.  M_... is a plausible slip in the definition after it. *)

\* exit(), or main() returns: both threads end and the socket is closed.
Exit ==
  /\ ui' = "exit" /\ receive' = "done" /\ fd_open' = FALSE
  /\ UNCHANGED <<then, request, running, user_id, up, down, slot, reply>>

\* run_ui's loop.  When it ends because running is 0, main() calls
\* client_disconnect, which then does nothing, and returns.
M_run_ui ==
  /\ ui = "loop" /\ ui' = "fgets"
  /\ UNCHANGED <<then, request, receive, running, user_id, fd_open, up, down, slot, reply>>
run_ui ==
  /\ ui = "loop"
  /\ IF running
     THEN ui' = "fgets" /\ UNCHANGED <<then, request, receive, fd_open, running, user_id, up, down, slot, reply>>
     ELSE Exit

\* A command that sends one request; help, a mistyped command and an empty line
\* send none.
process_command ==
  /\ ui = "fgets"
  /\ \/ request' \in Requests /\ ui' = "send"
     \/ ui' = "loop" /\ UNCHANGED request
  /\ UNCHANGED <<then, receive, running, user_id, fd_open, up, down, slot, reply>>

\* The commands logout and quit; the end of the input is like quit.
leave(r) ==
  /\ ui = "fgets" /\ ui' = "disconnect" /\ then' = r
  /\ UNCHANGED <<request, receive, running, user_id, fd_open, up, down, slot, reply>>

\* send_message to the server: it blocks while the socket is full, and its
\* failure is ignored.
Sent(item) ==
  \/ slot = Closed /\ UNCHANGED up
  \/ slot # Closed /\ Len(up) < UpCap /\ up' = Append(up, item)

send ==
  /\ ui = "send" /\ Sent(request) /\ ui' = "loop"
  /\ UNCHANGED <<then, request, receive, running, user_id, fd_open, down, slot, reply>>

\* client_disconnect: test and reset running; then look at user_id, which the
\* receive thread may be writing.
disconnect ==
  /\ ui = "disconnect"
  /\ IF running
     THEN /\ ui' = "flagged" /\ running' = FALSE
          /\ UNCHANGED <<then, request, receive, user_id, fd_open, up, down, slot, reply>>
     ELSE IF then = "exit" THEN Exit
     ELSE ui' = "loop" /\ UNCHANGED <<then, request, receive, running, user_id, fd_open, up, down, slot, reply>>

SaysGoodbye == user_id > 0

flagged ==
  /\ ui = "flagged" /\ ui' = IF SaysGoodbye THEN "logout" ELSE "join"
  /\ UNCHANGED <<then, request, receive, running, user_id, fd_open, up, down, slot, reply>>

logout ==
  /\ ui = "logout" /\ Sent(Item("LOGOUT", 0)) /\ ui' = "join"
  /\ UNCHANGED <<then, request, receive, running, user_id, fd_open, down, slot, reply>>

\* pthread_join, close; the caller exits or goes on.
join ==
  /\ ui = "join" /\ receive = "done"
  /\ IF then = "exit" THEN Exit
     ELSE ui' = "loop" /\ fd_open' = FALSE
          /\ UNCHANGED <<then, request, receive, running, user_id, up, down, slot, reply>>

\* A signal.  The first one runs client_disconnect on top of whatever the main
\* thread is doing, which is not resumed; a send() that it interrupts may have
\* sent a part.  With running at 0 (a second signal, or one while the program is
\* leaving) the handler goes straight to exit().
signal_handler ==
  /\ ui # "exit"
  /\ IF running
     THEN /\ ui' = "flagged" /\ then' = "exit" /\ running' = FALSE
          /\ \/ UNCHANGED up
             \/ ui = "send" /\ slot # Closed /\ up' = Append(up, Item("TORN", 0))
          /\ UNCHANGED <<request, receive, user_id, fd_open, down, slot, reply>>
     ELSE Exit

-----------------------------------------------------------------------------
(* The receive thread *)

test ==
  /\ receive = "test" /\ receive' = IF running THEN "recv" ELSE "done"
  /\ UNCHANGED <<main, running, user_id, fd_open, up, down, slot, reply>>

\* LOGIN_ACK; of the other messages only LOGOUT_ACK changes anything.
\* The first slip does not test what sscanf found: user_id is then not initialized.
M_UserIdUnread(m) ==
  IF m.type = "LOGIN_ACK" THEN IF m.user = 0 THEN -1 ELSE m.user ELSE user_id
M_UserId(m) == IF m.type = "LOGIN_ACK" THEN m.user ELSE user_id
UserId(m) == IF m.type = "LOGIN_ACK" /\ m.user # 0 THEN m.user ELSE user_id

M_recv ==
  /\ receive = "recv" /\ down # <<>>
  /\ user_id' = UserId(Head(down))
  /\ running' = (running /\ Head(down).type # "LOGOUT_ACK")
  /\ down' = Tail(down) /\ receive' = IF Head(down) = Item("LOGIN_ACK", 0) THEN "done" ELSE "test"
  /\ UNCHANGED <<main, fd_open, up, slot, reply>>
recv ==
  /\ receive = "recv" /\ down # <<>>
  /\ user_id' = UserId(Head(down))
  /\ running' = (running /\ Head(down).type # "LOGOUT_ACK")
  /\ down' = Tail(down) /\ receive' = "test"
  /\ UNCHANGED <<main, fd_open, up, slot, reply>>

\* recv() returns 0 or fails: "Connection lost".
lost ==
  /\ receive = "recv" /\ down = <<>> /\ slot = Closed
  /\ running' = FALSE /\ receive' = "done"
  /\ UNCHANGED <<main, user_id, fd_open, up, down, slot, reply>>

-----------------------------------------------------------------------------
(* The server's side of the connection *)

\* What the handlers send to the client that asked, in order (module Presence
\* has what they do).  A login may be refused; after one that is not, there is
\* at least the list of friends.
Replies(r) ==
  CASE r.type = "LOGIN" -> {<<Item("LOGIN_ACK", 0)>>,
                            <<Item("LOGIN_ACK", r.user), Item("ANSWER", 0)>>}
    [] r.type = "LOGOUT" -> {<<Item("LOGOUT_ACK", 0), Item("close", 0)>>}
    [] r.type = "REQUEST" -> {<<Item("ANSWER", 0)>>}
    [] r.type = "TORN" -> {<<Item("read", 0)>>, <<Item("ANSWER", 0), Item("read", 0)>>,
                           <<Item("close", 0)>>}

serve ==
  /\ slot # Closed /\ reply = <<>> /\ up # <<>>
  /\ up' = Tail(up)
  /\ reply' \in Replies(Head(up))
  /\ slot' = IF reply'[1].type = "LOGIN_ACK" /\ reply'[1].user # 0 THEN reply'[1].user ELSE slot
  /\ UNCHANGED <<main, receive, running, user_id, fd_open, down>>

\* A handler for another client notifies this one; one that looks for the id 0
\* finds a connection that has not logged in.
notify ==
  /\ slot # Closed /\ reply = <<>> /\ reply' = <<Item("NOTICE", 0)>>
  /\ UNCHANGED <<main, receive, running, user_id, fd_open, up, down, slot>>

\* send_response: to a client that has closed it fails, which is ignored; to one
\* that does not read it waits.
send_response ==
  /\ slot # Closed /\ reply # <<>> /\ Head(reply).type # "read"
  /\ reply' = Tail(reply)
  /\ IF Head(reply).type = "close"
     THEN slot' = Closed /\ UNCHANGED down
     ELSE /\ UNCHANGED slot
          /\ IF fd_open THEN Len(down) < DownCap /\ down' = Append(down, Head(reply))
                        ELSE UNCHANGED down
  /\ UNCHANGED <<main, receive, running, user_id, fd_open, up>>

\* handle_client_data: the client has closed, in the middle of a message or not.
closed ==
  /\ slot # Closed /\ ~fd_open
  /\ \/ reply = <<>> /\ up = <<>>
     \/ reply # <<>> /\ Head(reply).type = "read"
  /\ slot' = Closed /\ reply' = <<>>
  /\ UNCHANGED <<main, receive, running, user_id, fd_open, up, down>>

\* check_client_timeouts, or the server ends.
drop ==
  /\ slot # Closed /\ slot' = Closed /\ reply' = <<>>
  /\ UNCHANGED <<main, receive, running, user_id, fd_open, up, down>>

-----------------------------------------------------------------------------
MainStep == run_ui \/ send \/ disconnect \/ flagged \/ logout \/ join
ReceiveStep == test \/ recv \/ lost
Serve == serve \/ closed

Next ==
  \/ MainStep \/ process_command \/ \E r \in {"loop", "exit"} : leave(r)
  \/ signal_handler
  \/ ReceiveStep
  \/ Serve \/ send_response \/ notify \/ drop

Spec == Init /\ [][Next]_vars

\* The threads run when they can; the server finishes what a handler does, and
\* comes round to every connection, between the notifications that its handlers
\* for others send here, if other clients do not hold it up for ever (module
\* EventLoop).  Nobody has to type, to notify or to drop a connection.
FairSpec == Spec /\ WF_vars(MainStep) /\ WF_vars(ReceiveStep)
                 /\ WF_vars(send_response) /\ SF_vars(Serve)

-----------------------------------------------------------------------------
(* Properties *)

Torn == Item("read", 0) \in Range(reply) \/ Item("TORN", 0) \in Range(up)

\* What user_id will be when the receive thread has read everything under way.
Eventually(s) ==
  LET k == SelectLastInSeq(s, LAMBDA m : m.type = "LOGIN_ACK" /\ m.user # 0) IN
  IF k = 0 THEN user_id ELSE s[k].user

\* The two ends agree on who is logged in, through failed logins and logins as
\* somebody else, up to what is under way: user_id is what decides whether the
\* program says goodbye to the server.
UserIdAgrees ==
  slot # Closed /\ receive # "done" => Eventually(down \o reply) = slot

\* A logout is the last thing a client says: no request of a client that is
\* leaving is left for the server to find after it.
LogoutIsLast ==
  \A k \in DOMAIN up : up[k].type = "LOGOUT" =>
    /\ k = Len(up)
    /\ ui \in {"join", "loop", "exit"} /\ ~running

\* A client that got its logout out ends, and the server closes its side: the
\* answer, a notification or the end of the connection wakes the receive thread
\* that client_disconnect waits for.
LogoutEnds ==
  ((\E k \in DOMAIN up : up[k].type = "LOGOUT") /\ ~Torn) ~> (ui = "exit" /\ slot = Closed)

\* The server is not held up by this client, in sending to it or in reading a
\* message of it, because its receive thread always reads; but for two deadlocks.
\* A client that leaves while both sockets are full waits for room to send its
\* logout, with its receive thread gone; and one whose send() was torn by a signal
\* waits for an answer from a server that waits for the rest.
ServerGoesOn ==
  (reply # <<>>) ~>
    \/ reply = <<>>
    \/ slot = Closed
    \/ ui = "logout" /\ receive = "done" /\ Len(up) >= UpCap
    \/ ui = "join" /\ receive # "done" /\ Torn

-----------------------------------------------------------------------------
(* What the documents say, and the code does not do. *)

\* The help text (ui.c:50): "quit - Exit application".
QuitEnds == (ui = "disconnect" /\ then = "exit") ~> (ui = "exit")

=============================================================================
