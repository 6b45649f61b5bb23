----------------------------- MODULE EventLoop -----------------------------
(***************************************************************************)
(* The server's only thread (server_loop, server.c): select() over every   *)
(* socket, then one accept(), then one message from every slot whose       *)
(* socket was ready, read with a recv() that blocks until the message is   *)
(* complete.  What handlers do is in other modules, but for two things: a  *)
(* handler sends, with a send() that blocks while the socket is full, and  *)
(* it may close connections, after it has told the friends of their users. *)
(*                                                                         *)
(* A socket holds what its client has sent: requests, an end (a logout, a  *)
(* bad length, or the closing of the connection: the slot is freed) and,   *)
(* last, a part of a message whose rest has not arrived.                   *)
(*                                                                         *)
(* Time runs in steps of the 30 s that select() waits.  It passes while    *)
(* the server has nothing to do, waits in recv() or send() or spins because*)
(* accept() fails; all else takes none.                                    *)
(***************************************************************************)
EXTENDS Integers, Sequences, FiniteSets

CONSTANTS
  MaxClients,  \* MAX_CLIENTS
  NumFds,      \* descriptors the process may have for clients; at most what
               \* an fd_set holds
  IdleLimit,   \* timeout in time steps: 300 s / 30 s
  MaxIdle,     \* bound: silence is counted up to here
  MaxSent,     \* bound: what a socket may hold
  MaxAnswers,  \* bound: messages a handler sends, before it closes a connection
  MaxBacklog   \* listen(listen_fd, 10): connections waiting for accept()

ASSUME EventLoopAssumption ==
  /\ MaxClients \in Nat \ {0}
  /\ NumFds \in Nat \ {0}
  /\ MaxSent \in Nat \ {0} /\ MaxAnswers \in Nat /\ MaxBacklog \in Nat \ {0}
  /\ IdleLimit \in Nat /\ MaxIdle \in Nat /\ MaxIdle > IdleLimit

Slots == 0 .. MaxClients - 1
listen_fd == 0
Fds == 1 .. NumFds
Free == -1

VARIABLES
  pc,          \* "select", "accept", "scan" or "handle"
  i,           \* "scan": the slots before i are done
  read_fds,    \* what select() found ready
  master_set, max_fd, client_count,
  fd,          \* slot -> its descriptor or Free
  idle,        \* slot -> time since last_activity
  quiet,       \* select() has been waiting since the last time step
  answers,     \* "handle": whom the handler has still to send to, in this order
  leaving,     \* "handle": slots it will close
  sent,        \* descriptor -> what it holds
  full,        \* descriptors whose client has not read: send() blocks
  backlog,     \* connections waiting for accept()
  served       \* descriptor read in the last step, or Free

books == <<master_set, max_fd, client_count, fd>>
task == <<answers, leaving>>
server == <<pc, i, read_fds, books, idle, quiet, task>>
vars == <<server, sent, full, backlog, served>>

Data == {"request", "end", "part"}
Open == {s \in Slots : fd[s] # Free}
OpenFds == {fd[s] : s \in Open}

TypeOK ==
  /\ pc \in {"select", "accept", "scan", "handle"} /\ i \in 0 .. MaxClients
  /\ read_fds \subseteq {listen_fd} \cup Fds /\ master_set \subseteq {listen_fd} \cup Fds
  /\ max_fd \in 0 .. NumFds /\ client_count \in 0 .. MaxClients
  /\ fd \in [Slots -> Fds \cup {Free}] /\ idle \in [Slots -> 0 .. MaxIdle]
  /\ quiet \in BOOLEAN
  /\ answers \in Seq(Fds) /\ Len(answers) <= MaxAnswers /\ leaving \subseteq Slots
  /\ sent \in [Fds -> Seq(Data)] /\ full \subseteq Fds
  /\ backlog \in 0 .. MaxBacklog /\ served \in Fds \cup {Free}

Least(S) == CHOOSE x \in S : \A y \in S : x <= y

Init ==
  /\ pc = "select" /\ i = 0 /\ read_fds = {}
  /\ master_set = {listen_fd} /\ max_fd = listen_fd /\ client_count = 0
  /\ fd = [s \in Slots |-> Free] /\ idle = [s \in Slots |-> 0] /\ quiet = TRUE
  /\ answers = <<>> /\ leaving = {}
  /\ sent = [f \in Fds |-> <<>>] /\ full = {} /\ backlog = 0 /\ served = Free

-----------------------------------------------------------------------------
(* The server.  M_... is a plausible slip in the definition after it. *)

Readable(f) == IF f = listen_fd THEN backlog > 0 ELSE sent[f] # <<>>
M_Ready == {f \in master_set : f <= max_fd}
Ready == {f \in master_set : f <= max_fd /\ Readable(f)}

\* select() returns with something to read; read_fds is a snapshot.
select ==
  /\ pc = "select" /\ Ready # {}
  /\ read_fds' = Ready /\ pc' = "accept" /\ quiet' = FALSE
  /\ served' = Free
  /\ UNCHANGED <<i, books, idle, task, sent, full, backlog>>

\* max_fd after FD_SET; it is not lowered when a connection closes.
M_MaxFd(f) == f
MaxFd(f) == IF f > max_fd THEN f ELSE max_fd

\* accept() takes the least free descriptor.  The first free slot gets it;
\* without one it is closed again, after a "Server is full" that fits the empty
\* socket.  Without a descriptor accept() fails and the connection stays in the
\* backlog.
NoFd == OpenFds = Fds

handle_new_connection ==
  LET f == Least(Fds \ OpenFds)
      s == Least(Slots \ Open) IN
  /\ backlog' = IF NoFd THEN backlog ELSE backlog - 1
  /\ IF NoFd \/ Open = Slots
     THEN UNCHANGED <<books, idle>>
     ELSE /\ fd' = [fd EXCEPT ![s] = f]
          /\ idle' = [idle EXCEPT ![s] = 0]
          /\ master_set' = master_set \cup {f}
          /\ max_fd' = MaxFd(f)
          /\ client_count' = client_count + 1

accept ==
  /\ pc = "accept" /\ pc' = "scan" /\ i' = 0 /\ served' = Free
  /\ IF listen_fd \in read_fds
     THEN handle_new_connection
     ELSE UNCHANGED <<books, idle, backlog>>
  /\ UNCHANGED <<read_fds, quiet, task, sent, full>>

\* The slots the loop will still serve, tested against the snapshot.
ToServe == {s \in Open : s >= i /\ fd[s] \in read_fds}

\* The messages of a handler go to the client it serves, to friends or to members.
AnswersTo(F) == UNION {[1 .. n -> F] : n \in 0 .. MaxAnswers}

\* handle_client_data for the next of them; recv_message does not return while the
\* message is incomplete.
handle_client_data ==
  /\ pc = "scan" /\ ToServe # {} /\ pc' = "handle"
  /\ LET s == Least(ToServe)
         f == fd[s] IN
     /\ sent[f] # <<>> /\ Head(sent[f]) # "part"
     /\ sent' = [sent EXCEPT ![f] = Tail(@)]
     /\ answers' \in AnswersTo(OpenFds)
     /\ IF Head(sent[f]) = "request"
        THEN idle' = [idle EXCEPT ![s] = 0] /\ UNCHANGED leaving
        ELSE leaving' = {s} /\ UNCHANGED idle
     /\ i' = s + 1 /\ served' = f
  /\ UNCHANGED <<read_fds, books, quiet, full, backlog>>

\* A send_message of a handler ends.  There may be no room for another.
send_response ==
  /\ pc = "handle" /\ answers # <<>> /\ Head(answers) \notin full
  /\ answers' = Tail(answers) /\ full' \in {full, full \cup {Head(answers)}}
  /\ served' = Free
  /\ UNCHANGED <<pc, i, read_fds, books, idle, quiet, leaving, sent, backlog>>

\* disconnect_client, after broadcast_status_change.  The next slot that is closed
\* has friends to be told as well.
M_Cleared(s) == master_set
Cleared(s) == master_set \ {fd[s]}
M_Count == client_count
Count == client_count - 1

disconnect_client ==
  /\ pc = "handle" /\ answers = <<>> /\ leaving # {}
  /\ LET s == Least(leaving) IN
     /\ master_set' = Cleared(s) /\ client_count' = Count
     /\ fd' = [fd EXCEPT ![s] = Free] /\ idle' = [idle EXCEPT ![s] = 0]
     /\ sent' = [sent EXCEPT ![fd[s]] = <<>>] /\ full' = full \ {fd[s]}
     /\ leaving' = leaving \ {s}
     /\ answers' \in AnswersTo(IF leaving = {s} THEN {} ELSE OpenFds \ {fd[s]})
  /\ served' = Free
  /\ UNCHANGED <<pc, i, read_fds, max_fd, quiet, backlog>>

\* The handler returns to the scan, check_client_timeouts to select().
handled ==
  /\ pc = "handle" /\ answers = <<>> /\ leaving = {}
  /\ pc' = IF read_fds = {} THEN "select" ELSE "scan"
  /\ served' = Free
  /\ UNCHANGED <<i, read_fds, books, idle, quiet, task, sent, full, backlog>>

scan_done ==
  /\ pc = "scan" /\ ToServe = {}
  /\ pc' = "select" /\ i' = 0 /\ read_fds' = {} /\ served' = Free
  /\ UNCHANGED <<books, idle, quiet, task, sent, full, backlog>>

\* The server sits in recv() for slot s.
Waiting(s) ==
  pc = "scan" /\ ToServe # {} /\ s = Least(ToServe)
  /\ (sent[fd[s]] = <<>> \/ Head(sent[fd[s]]) = "part")

\* The server sits in send() to f.
Blocked(f) == pc = "handle" /\ answers # <<>> /\ f = Head(answers) /\ f \in full

\* It can do nothing until the client of f does something.
Stopped(f) == Blocked(f) \/ \E s \in Slots : Waiting(s) /\ fd[s] = f

\* A time step.  If nothing happened since the last one, select() returns 0 and
\* check_client_timeouts runs, for a time that it reads once.
M_Expired(s) == idle[s] = IdleLimit
Expired(s) == idle[s] + 1 > IdleLimit

Idling == pc = "select" /\ Ready = {}
Spinning == pc = "select" /\ Ready = {listen_fd} /\ NoFd

Tick ==
  LET timedOut == {s \in Open : quiet /\ Idling /\ Expired(s)} IN
  /\ Idling \/ Spinning \/ \E f \in Fds : Stopped(f)
  /\ IF timedOut = {}
     THEN UNCHANGED <<pc, task>>
     ELSE pc' = "handle" /\ answers' \in AnswersTo(OpenFds) /\ leaving' = timedOut
  /\ idle' = [s \in Slots |-> IF s \notin Open THEN 0
                              ELSE IF idle[s] < MaxIdle THEN idle[s] + 1 ELSE MaxIdle]
  /\ quiet' = Idling
  /\ served' = Free
  /\ UNCHANGED <<i, read_fds, books, sent, full, backlog>>

-----------------------------------------------------------------------------
(* The clients, from whom the code expects nothing. *)

Last(f) == IF sent[f] = <<>> THEN "request" ELSE sent[f][Len(sent[f])]

connect ==
  /\ backlog < MaxBacklog /\ backlog' = backlog + 1 /\ served' = Free
  /\ UNCHANGED <<server, sent, full>>

\* A request, part of one, or an end.
send(f) ==
  /\ f \in OpenFds /\ Len(sent[f]) < MaxSent /\ Last(f) = "request"
  /\ \E d \in Data : sent' = [sent EXCEPT ![f] = Append(@, d)]
  /\ served' = Free /\ UNCHANGED <<server, full, backlog>>

\* The rest of the message arrives, or its client goes away.
finish(f) ==
  /\ f \in OpenFds /\ Last(f) = "part"
  /\ \E d \in {"request", "end"} : sent' = [sent EXCEPT ![f][Len(sent[f])] = d]
  /\ served' = Free /\ UNCHANGED <<server, full, backlog>>

\* The client reads what it was sent, or goes away.
receive(f) ==
  /\ f \in full /\ full' = full \ {f}
  /\ served' = Free /\ UNCHANGED <<server, sent, backlog>>

ServerStep ==
  \/ select \/ accept
  \/ handle_client_data \/ send_response \/ disconnect_client \/ handled
  \/ scan_done

Next ==
  \/ ServerStep \/ Tick \/ connect
  \/ \E f \in Fds : send(f) \/ finish(f) \/ receive(f)

Spec == Init /\ [][Next]_vars

\* The thread runs when it can and time passes.  Clients may stop at any point.
FairSpec == Spec /\ WF_vars(ServerStep) /\ SF_vars(Tick)

-----------------------------------------------------------------------------
\* The descriptors select() watches are those of the slots in use, each one's
\* own and none above max_fd, and client_count counts the slots: every accept,
\* disconnect and timeout keeps the four records of a connection in step.
BookKeeping ==
  /\ master_set = {listen_fd} \cup OpenFds
  /\ Cardinality(OpenFds) = Cardinality(Open)
  /\ \A f \in OpenFds : f <= max_fd
  /\ client_count = Cardinality(Open)

\* read_fds is a snapshot that slots are closed and opened under, but the loop
\* never starts a recv() on a socket that holds nothing: what stops the server in
\* recv() is a client in the middle of a message.
BlocksOnPartOnly == \A s \in Slots : Waiting(s) => sent[fd[s]] # <<>>

\* Every client goes on when the server waits for it: it ends a message it has
\* begun and reads what it is sent, if only by going away.
ClientsGoOn == \A f \in Fds : []<>~Stopped(f)

\* If the server stays for ever neither in recv() nor in send() for any client,
\* none is starved: the loop reads what a socket holds (one message per pass and
\* socket), or check_client_timeouts, which had found it silent, closes it.
EveryClientServed ==
  ClientsGoOn => \A f \in Fds : (sent[f] # <<>>) ~> (served = f \/ f \notin OpenFds)

\* Once the clients fall silent for good, check_client_timeouts closes every
\* connection, however long it had been overlooked while others were busy
\* ("Session timeout: 5 minutes of inactivity"), with three exceptions.  A client
\* that is silent in the middle of a message, or that does not read what it is
\* sent, stops the server with all its timeouts.  And there must be a descriptor
\* for every connection: a pending one that accept() has no descriptor for keeps
\* select() from ever timing out, and the silent ones keep theirs for ever.
SilentAreDropped ==
  /\ ClientsGoOn
  /\ <>[][~ (connect \/ \E f \in Fds : send(f))]_vars
  => <>[](Open = {})

=============================================================================
