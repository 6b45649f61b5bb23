-------------------------- MODULE EventLoopProofs --------------------------
(***************************************************************************)
(* Theorems about EventLoop, for every number of slots and descriptors and *)
(* every bound: the records of a connection stay in step, and the thread    *)
(* never starts to read where there is nothing.                            *)
(***************************************************************************)
EXTENDS EventLoop, FiniteSetTheorems, WellFoundedInduction, TLAPS

USE EventLoopAssumption DEF Free, listen_fd

\* No two slots have the same descriptor.
OwnFd == \A s, t \in Open : fd[s] = fd[t] => s = t

\* select() watches the listening socket and the descriptors of the slots.
Watched ==
  /\ master_set = {listen_fd} \cup OpenFds
  /\ \A f \in OpenFds : f <= max_fd

Counted == client_count = Cardinality(Open)

\* Before accept() nothing has happened to what select() found but that more
\* has arrived.
Snapshot ==
  pc = "accept" =>
    \A f \in read_fds : IF f = listen_fd THEN backlog > 0
                                         ELSE f \in OpenFds /\ sent[f] # <<>>

\* While the loop goes over the slots, a slot that it will still serve has
\* something to be read: the descriptor accept() gave to a new one was in use
\* by none, so it is not in the snapshot.
Scanning == pc \in {"scan", "handle"}
Filled == Scanning => \A s \in ToServe : sent[fd[s]] # <<>>

\* The snapshot is gone when select() is called, and only slots in use are closed.
Prepared == /\ pc = "select" => read_fds = {}
            /\ leaving \subseteq Open

LoopInv == TypeOK /\ OwnFd /\ Watched /\ Counted /\ Snapshot /\ Filled /\ Prepared

-----------------------------------------------------------------------------
(* Slots and descriptors *)

LEMMA LeastIsFound ==
  ASSUME NEW S \in SUBSET Nat, S # {}
  PROVE  Least(S) \in S /\ \A y \in S : Least(S) <= y
<1> DEFINE R == {ss \in Nat \X Nat : ss[1] < ss[2]}
<1>1. R = OpToRel(<, Nat)
  BY DEF OpToRel
<1>2. IsWellFoundedOn(R, Nat)
  BY <1>1, NatLessThanWellFounded
<1>3. \E x \in S : \A y \in S : ~ (<<y, x>> \in R)
  BY <1>2, WFMin
<1>4. \A x, y \in S : ~ (<<y, x>> \in R) => x <= y
  OBVIOUS
<1>5. \E x \in S : \A y \in S : x <= y
  BY <1>3, <1>4
<1> QED
  BY <1>5 DEF Least

LEMMA OpenIsFinite ==
  /\ IsFiniteSet(Slots) /\ Cardinality(Slots) = MaxClients
  /\ Open \subseteq Slots /\ IsFiniteSet(Open)
  /\ Cardinality(Open) \in 0 .. MaxClients
<1>1. IsFiniteSet(Slots) /\ Cardinality(Slots) = MaxClients
  BY FS_Interval DEF Slots
<1>2. Open \subseteq Slots
  BY DEF Open
<1>3. IsFiniteSet(Open) /\ Cardinality(Open) <= MaxClients
  BY <1>1, <1>2, FS_Subset
<1>4. Cardinality(Open) \in Nat
  BY <1>3, FS_CardinalityType
<1> QED
  BY <1>1, <1>2, <1>3, <1>4

LEMMA OpenFdsAreFds == TypeOK => OpenFds \subseteq Fds
BY DEF TypeOK, OpenFds, Open

\* A descriptor for each slot: as many descriptors as slots.
LEMMA AsManyFds ==
  ASSUME OwnFd
  PROVE  Cardinality(OpenFds) = Cardinality(Open)
<1> DEFINE h == [s \in Open |-> fd[s]]
<1>1. h \in Injection(Open, OpenFds)
  BY DEF OwnFd, OpenFds, Injection, IsInjective
<1>2. h \in Surjection(Open, OpenFds)
  BY DEF OpenFds, Surjection
<1> QED
  BY <1>1, <1>2, OpenIsFinite, FS_Surjection

\* disconnect_client takes the four records of a connection away together.
LEMMA Disconnected ==
  ASSUME LoopInv, NEW e \in Open, max_fd' = max_fd, fd' = [fd EXCEPT ![e] = Free],
         master_set' = Cleared(e), client_count' = Count
  PROVE  /\ Open' = Open \ {e}
         /\ \A s \in Open' : fd'[s] = fd[s]
         /\ fd' \in [Slots -> Fds \cup {Free}] /\ client_count' \in 0 .. MaxClients
         /\ master_set' \subseteq {listen_fd} \cup Fds
         /\ OwnFd' /\ Watched' /\ Counted'
<1>0. TypeOK /\ OwnFd /\ Watched /\ Counted
  BY DEF LoopInv
<1>1. fd \in [Slots -> Fds \cup {Free}] /\ e \in Slots /\ fd[e] \in Fds
  BY <1>0 DEF TypeOK, Open
<1>2. Open' = Open \ {e} /\ \A s \in Open' : fd'[s] = fd[s]
  BY <1>1 DEF Open
<1>3. fd' \in [Slots -> Fds \cup {Free}]
  BY <1>1
<1>4. OwnFd'
  BY <1>0, <1>2 DEF OwnFd
<1>5. OpenFds' = OpenFds \ {fd[e]}
  BY <1>0, <1>2 DEF OpenFds, OwnFd
<1>6. master_set' = {listen_fd} \cup OpenFds'
  <2>1. listen_fd # fd[e]
    BY <1>1 DEF Fds
  <2> QED
    BY <1>0, <1>5, <2>1 DEF Watched, Cleared
<1>7. Watched'
  BY <1>0, <1>5, <1>6 DEF Watched
<1>8. Cardinality(Open \ {e}) = Cardinality(Open) - 1
  BY OpenIsFinite, FS_RemoveElement
<1>9. Counted'
  BY <1>0, <1>2, <1>8 DEF Counted, Count
<1>10. Cardinality(Open \ {e}) \in 0 .. MaxClients
  <2>1. IsFiniteSet(Open \ {e}) /\ Cardinality(Open \ {e}) <= Cardinality(Open)
    BY OpenIsFinite, FS_Subset
  <2> QED
    BY <2>1, OpenIsFinite, FS_CardinalityType
<1>11. client_count' \in 0 .. MaxClients
  BY <1>2, <1>9, <1>10 DEF Counted
<1>12. master_set' \subseteq {listen_fd} \cup Fds
  BY <1>0 DEF TypeOK, Cleared
<1> QED
  BY <1>2, <1>3, <1>4, <1>7, <1>9, <1>11, <1>12

\* accept() takes a descriptor and a slot that are both unused.
LEMMA Accepted ==
  ASSUME LoopInv, handle_new_connection, ~NoFd, Open # Slots
  PROVE  \E s \in Slots \ Open, f \in Fds \ OpenFds :
           /\ fd' = [fd EXCEPT ![s] = f] /\ idle' = [idle EXCEPT ![s] = 0]
           /\ master_set' = master_set \cup {f} /\ max_fd' = MaxFd(f)
           /\ client_count' = client_count + 1
<1>0. OpenFds \subseteq Fds /\ Open \subseteq Slots
  BY OpenFdsAreFds, OpenIsFinite DEF LoopInv
<1>1. Fds \ OpenFds # {} /\ Slots \ Open # {}
  BY <1>0 DEF NoFd
<1>2. Fds \ OpenFds \subseteq Nat /\ Slots \ Open \subseteq Nat
  BY DEF Fds, Slots
<1>3. Least(Fds \ OpenFds) \in Fds \ OpenFds /\ Least(Slots \ Open) \in Slots \ Open
  BY <1>1, <1>2, LeastIsFound
<1> QED
  BY <1>3 DEF handle_new_connection

LEMMA NewConnection ==
  ASSUME LoopInv, handle_new_connection
  PROVE  /\ fd' \in [Slots -> Fds \cup {Free}] /\ idle' \in [Slots -> 0 .. MaxIdle]
         /\ client_count' \in 0 .. MaxClients /\ max_fd' \in 0 .. NumFds
         /\ master_set' \subseteq {listen_fd} \cup Fds
         /\ OwnFd' /\ Watched' /\ Counted'
         /\ \A t \in Open' : \/ t \in Open /\ fd'[t] = fd[t]
                             \/ fd'[t] \notin OpenFds /\ fd'[t] # listen_fd
         /\ Open \subseteq Open'
<1>0. TypeOK /\ OwnFd /\ Watched /\ Counted
  BY DEF LoopInv
<1>1. CASE UNCHANGED <<books, idle>>
  BY <1>0, <1>1 DEF books, TypeOK, OwnFd, Watched, Counted, OpenFds, Open
<1>2. CASE ~NoFd /\ Open # Slots
  <2>1. PICK s \in Slots \ Open, f \in Fds \ OpenFds :
          /\ fd' = [fd EXCEPT ![s] = f] /\ idle' = [idle EXCEPT ![s] = 0]
          /\ master_set' = master_set \cup {f} /\ max_fd' = MaxFd(f)
          /\ client_count' = client_count + 1
    BY <1>2, Accepted
  <2>2. f # Free /\ f # listen_fd /\ f \in 1 .. NumFds
    BY DEF Fds
  <2>3. fd' \in [Slots -> Fds \cup {Free}] /\ idle' \in [Slots -> 0 .. MaxIdle]
    BY <1>0, <2>1 DEF TypeOK
  <2>4. /\ fd'[s] = f /\ \A t \in Slots : t # s => fd'[t] = fd[t]
        /\ Open' = Open \cup {s}
    BY <1>0, <2>1, <2>2 DEF TypeOK, Open
  <2>5. \A t \in Open : t # s /\ fd'[t] = fd[t]
    BY <2>4 DEF Open
  <2>6. OwnFd'
    BY <1>0, <2>1, <2>4, <2>5 DEF OwnFd, OpenFds
  <2>7. OpenFds' = OpenFds \cup {f}
    BY <2>4, <2>5 DEF OpenFds
  <2>8. max_fd' \in 0 .. NumFds /\ max_fd <= max_fd' /\ f <= max_fd'
    BY <1>0, <2>1, <2>2 DEF MaxFd, TypeOK
  <2>9. Watched'
    <3>1. \A e \in OpenFds : e \in Fds /\ e <= max_fd
      BY <1>0, OpenFdsAreFds DEF Watched
    <3>2. \A e \in OpenFds : e <= max_fd'
      BY <1>0, <2>8, <3>1 DEF TypeOK, Fds
    <3> QED
      BY <1>0, <2>1, <2>7, <2>8, <3>2 DEF Watched
  <2>10. Cardinality(Open \cup {s}) = Cardinality(Open) + 1
    BY <2>1, OpenIsFinite, FS_AddElement
  <2>11. Open \cup {s} \subseteq Slots
    BY OpenIsFinite
  <2>12. Cardinality(Open \cup {s}) <= MaxClients
    BY <2>11, OpenIsFinite, FS_Subset
  <2>13. Counted' /\ client_count' \in 0 .. MaxClients
    BY <1>0, <2>1, <2>4, <2>10, <2>12, OpenIsFinite DEF Counted
  <2>14. master_set' \subseteq {listen_fd} \cup Fds
    BY <1>0, <2>1 DEF TypeOK
  <2> QED
    BY <2>2, <2>3, <2>4, <2>5, <2>6, <2>8, <2>9, <2>13, <2>14
<1> QED
  BY <1>1, <1>2 DEF handle_new_connection

\* What a handler sends, and to whom.
LEMMA AnswersAreSent ==
  ASSUME NEW F \in SUBSET Fds, NEW a \in AnswersTo(F)
  PROVE  a \in Seq(Fds) /\ Len(a) <= MaxAnswers
<1>1. PICK n \in 0 .. MaxAnswers : a \in [1 .. n -> F]
  BY DEF AnswersTo
<1>2. n \in Nat /\ n <= MaxAnswers
  BY <1>1
<1>3. a \in Seq(Fds) /\ Len(a) = n
  BY <1>1, <1>2
<1> QED
  BY <1>2, <1>3

-----------------------------------------------------------------------------
(* The invariant *)

LEMMA InitLoopInv == Init => LoopInv
<1> SUFFICES ASSUME Init PROVE LoopInv
  OBVIOUS
<1>1. Open = {} /\ OpenFds = {}
  BY DEF Init, Open, OpenFds
<1>2. TypeOK
  BY DEF Init, TypeOK, Fds
<1>3. Counted
  BY <1>1, FS_EmptySet DEF Init, Counted
<1> QED
  BY <1>1, <1>2, <1>3 DEF Init, LoopInv, OwnFd, Watched, Snapshot, Filled, Scanning, Prepared

\* OwnFd, Watched and Counted are about four variables.
LEMMA SameConnections ==
  ASSUME LoopInv, UNCHANGED books
  PROVE  Open' = Open /\ OpenFds' = OpenFds /\ OwnFd' /\ Watched' /\ Counted'
<1>1. Open' = Open
  BY DEF Open, books
<1>2. OpenFds' = OpenFds
  BY <1>1 DEF OpenFds, books
<1> QED
  BY <1>1, <1>2 DEF books, LoopInv, OwnFd, Watched, Counted

LEMMA SelectLoopInv == LoopInv /\ select => LoopInv'
<1> SUFFICES ASSUME LoopInv, select PROVE LoopInv'
  OBVIOUS
<1>0. TypeOK /\ Watched
  BY DEF LoopInv
<1>1. OwnFd' /\ Watched' /\ Counted' /\ Open' = Open /\ OpenFds' = OpenFds
  BY SameConnections DEF select
<1>2. TypeOK'
  BY <1>0 DEF select, TypeOK, Ready, books, task
<1>3. Snapshot'
  BY <1>0, <1>1 DEF select, Snapshot, Ready, Readable, Watched
<1>4. Filled' /\ Prepared'
  BY <1>1 DEF select, Filled, Scanning, Prepared, LoopInv, task
<1> QED
  BY <1>1, <1>2, <1>3, <1>4 DEF LoopInv

\* The slot accept() opens has a descriptor that select() did not watch.
LEMMA AcceptLoopInv == LoopInv /\ accept => LoopInv'
<1> SUFFICES ASSUME LoopInv, accept PROVE LoopInv'
  OBVIOUS
<1>0. TypeOK /\ Snapshot /\ Prepared
  BY DEF LoopInv
<1>1. /\ pc = "accept" /\ pc' = "scan" /\ i' = 0
      /\ UNCHANGED <<read_fds, quiet, task, sent, full>>
  BY DEF accept
<1>2. /\ fd' \in [Slots -> Fds \cup {Free}] /\ idle' \in [Slots -> 0 .. MaxIdle]
      /\ client_count' \in 0 .. MaxClients /\ max_fd' \in 0 .. NumFds
      /\ master_set' \subseteq {listen_fd} \cup Fds
      /\ OwnFd' /\ Watched' /\ Counted'
      /\ \A t \in Open' : \/ t \in Open /\ fd'[t] = fd[t]
                          \/ fd'[t] \notin OpenFds /\ fd'[t] # listen_fd
      /\ Open \subseteq Open'
  <2>1. CASE listen_fd \in read_fds
    BY <2>1, NewConnection DEF accept
  <2>2. CASE UNCHANGED <<books, idle>>
    BY <1>0, <2>2, SameConnections DEF TypeOK, Open, books
  <2> QED
    BY <2>1, <2>2 DEF accept
<1>3. backlog' \in 0 .. MaxBacklog
  BY <1>0, <1>1 DEF accept, handle_new_connection, Snapshot, TypeOK
<1>4. TypeOK'
  BY <1>0, <1>1, <1>2, <1>3 DEF accept, TypeOK, task
<1>5. Filled'
  <2>1. SUFFICES ASSUME NEW t \in ToServe' PROVE sent'[fd'[t]] # <<>>
    BY DEF Filled
  <2>2. t \in Open' /\ fd'[t] \in read_fds
    BY <1>1 DEF ToServe
  <2>3. fd'[t] # listen_fd
    BY <1>2, <2>2 DEF Open, Fds
  <2>4. sent[fd'[t]] # <<>>
    BY <1>0, <1>1, <2>2, <2>3 DEF Snapshot
  <2> QED
    BY <1>1, <2>4
<1>6. Snapshot' /\ Prepared'
  BY <1>0, <1>1, <1>2 DEF Snapshot, Prepared, task
<1> QED
  BY <1>2, <1>4, <1>5, <1>6 DEF LoopInv

LEMMA HandleLoopInv == LoopInv /\ handle_client_data => LoopInv'
<1> SUFFICES ASSUME LoopInv, handle_client_data PROVE LoopInv'
  OBVIOUS
<1>0. TypeOK /\ OwnFd /\ Filled /\ Prepared
  BY DEF LoopInv
<1> DEFINE s == Least(ToServe)
           f == fd[s]
<1>1. s \in ToServe /\ \A t \in ToServe : s <= t
  <2>1. ToServe # {}
    BY DEF handle_client_data
  <2>2. ToServe \subseteq Nat
    BY DEF ToServe, Open, Slots
  <2> QED
    BY <2>1, <2>2, LeastIsFound
<1>2. s \in Open /\ s \in Slots /\ s \in 0 .. MaxClients - 1 /\ s >= i /\ f \in Fds
  BY <1>0, <1>1 DEF ToServe, Open, Slots, TypeOK
<1>3. /\ pc = "scan" /\ pc' = "handle" /\ sent[f] # <<>> /\ sent[f] \in Seq(Data)
      /\ sent' = [sent EXCEPT ![f] = Tail(sent[f])] /\ answers' \in AnswersTo(OpenFds)
      /\ i' = s + 1 /\ served' = f
      /\ UNCHANGED <<read_fds, books, quiet, full, backlog>>
  BY <1>0, <1>2 DEF handle_client_data, TypeOK
<1>4. \/ idle' = [idle EXCEPT ![s] = 0] /\ leaving' = leaving
      \/ idle' = idle /\ leaving' = {s}
  BY DEF handle_client_data
<1> HIDE DEF s, f
<1>5. Open' = Open /\ fd' = fd /\ OwnFd' /\ Watched' /\ Counted'
  BY <1>3, SameConnections DEF books
<1>6. sent' \in [Fds -> Seq(Data)]
  <2>1. Tail(sent[f]) \in Seq(Data)
    BY <1>3
  <2>2. sent \in [Fds -> Seq(Data)]
    BY <1>0 DEF TypeOK
  <2> QED
    BY <1>3, <2>1, <2>2
<1>7. idle' \in [Slots -> 0 .. MaxIdle] /\ leaving' \subseteq Slots
  <2>1. idle \in [Slots -> 0 .. MaxIdle] /\ leaving \subseteq Slots /\ 0 \in 0 .. MaxIdle
    BY <1>0 DEF TypeOK
  <2> QED
    BY <1>2, <1>4, <2>1
<1>8. answers' \in Seq(Fds) /\ Len(answers') <= MaxAnswers
  <2>1. OpenFds \subseteq Fds
    BY <1>0, OpenFdsAreFds
  <2> QED
    BY <1>3, <2>1, AnswersAreSent
<1>9. i' \in 0 .. MaxClients /\ served' \in Fds \cup {Free}
  BY <1>2, <1>3
<1>10. TypeOK'
  BY <1>0, <1>3, <1>6, <1>7, <1>8, <1>9 DEF TypeOK, books
<1>11. Filled'
  <2>1. SUFFICES ASSUME NEW t \in ToServe' PROVE sent'[fd'[t]] # <<>>
    BY DEF Filled
  <2>2. t \in ToServe /\ t # s /\ t \in Open
    BY <1>0, <1>1, <1>2, <1>3, <1>5, <2>1 DEF ToServe, Slots, Open, TypeOK
  <2>3. fd[t] # f /\ fd[t] \in Fds
    BY <1>0, <1>2, <2>2 DEF OwnFd, f, TypeOK, Open
  <2>4. sent'[fd[t]] = sent[fd[t]]
    BY <1>0, <1>3, <2>3 DEF TypeOK
  <2> QED
    BY <1>0, <1>3, <1>5, <2>2, <2>4 DEF Filled, Scanning
<1>12. Snapshot' /\ Prepared'
  BY <1>0, <1>2, <1>3, <1>4, <1>5 DEF Snapshot, Prepared
<1> QED
  BY <1>5, <1>10, <1>11, <1>12 DEF LoopInv

\* Steps that change neither slots nor sockets and leave the scan where it is.
LEMMA ScanGoesOn ==
  ASSUME LoopInv, TypeOK', UNCHANGED <<books, i, read_fds, sent>>, leaving' \subseteq Open,
         pc' # "accept", Scanning' => Scanning \/ read_fds = {},
         pc' = "select" => read_fds = {}
  PROVE  LoopInv'
<1>1. Open' = Open /\ OpenFds' = OpenFds /\ OwnFd' /\ Watched' /\ Counted'
  BY SameConnections
<1>2. ToServe' = ToServe
  BY <1>1 DEF ToServe, books
<1>3. read_fds = {} => ToServe = {}
  BY DEF ToServe
<1>4. Filled'
  BY <1>2, <1>3 DEF LoopInv, Filled, books
<1>5. Snapshot' /\ Prepared'
  BY <1>1 DEF Snapshot, Prepared
<1> QED
  BY <1>1, <1>4, <1>5 DEF LoopInv

LEMMA SendLoopInv == LoopInv /\ send_response => LoopInv'
<1> SUFFICES ASSUME LoopInv, send_response PROVE LoopInv'
  OBVIOUS
<1>0. TypeOK /\ Prepared
  BY DEF LoopInv
<1>1. answers \in Seq(Fds) /\ answers # <<>> /\ Len(answers) <= MaxAnswers
  BY <1>0 DEF send_response, TypeOK
<1>2. Head(answers) \in Fds /\ Tail(answers) \in Seq(Fds) /\ Len(Tail(answers)) = Len(answers) - 1
  BY <1>1
<1>3. Len(answers) \in Nat
  BY <1>1
<1>4. answers' \in Seq(Fds) /\ Len(answers') <= MaxAnswers
  BY <1>1, <1>2, <1>3 DEF send_response
<1>5. full' \subseteq Fds
  BY <1>0, <1>2 DEF send_response, TypeOK
<1>6. TypeOK'
  BY <1>0, <1>4, <1>5 DEF send_response, TypeOK, books
<1> QED
  BY <1>0, <1>6, ScanGoesOn DEF send_response, Prepared, Scanning

\* A connection goes: its slot is not among those still to be served, or it takes
\* what its socket holds along.
LEMMA DisconnectLoopInv == LoopInv /\ disconnect_client => LoopInv'
<1> SUFFICES ASSUME LoopInv, disconnect_client PROVE LoopInv'
  OBVIOUS
<1>0. TypeOK /\ OwnFd /\ Filled /\ Prepared
  BY DEF LoopInv
<1> DEFINE s == Least(leaving)
<1>1. s \in leaving
  <2>1. leaving # {} /\ leaving \subseteq Nat
    BY <1>0 DEF disconnect_client, TypeOK, Slots
  <2> QED
    BY <2>1, LeastIsFound
<1>2. s \in Open /\ s \in Slots /\ fd[s] \in Fds
  BY <1>0, <1>1 DEF Prepared, Open, TypeOK
<1>3. /\ master_set' = Cleared(s) /\ client_count' = Count
      /\ fd' = [fd EXCEPT ![s] = Free] /\ idle' = [idle EXCEPT ![s] = 0]
      /\ sent' = [sent EXCEPT ![fd[s]] = <<>>] /\ full' = full \ {fd[s]}
      /\ leaving' = leaving \ {s}
      /\ answers' \in AnswersTo(IF leaving = {s} THEN {} ELSE OpenFds \ {fd[s]})
      /\ pc = "handle" /\ served' = Free
      /\ UNCHANGED <<pc, i, read_fds, max_fd, quiet, backlog>>
  BY DEF disconnect_client
<1> HIDE DEF s
<1>4. /\ Open' = Open \ {s} /\ \A t \in Open' : fd'[t] = fd[t]
      /\ fd' \in [Slots -> Fds \cup {Free}] /\ client_count' \in 0 .. MaxClients
      /\ master_set' \subseteq {listen_fd} \cup Fds
      /\ OwnFd' /\ Watched' /\ Counted'
  BY <1>2, <1>3, Disconnected
<1>5. answers' \in Seq(Fds) /\ Len(answers') <= MaxAnswers
  <2>1. OpenFds \subseteq Fds
    BY <1>0, OpenFdsAreFds
  <2>2. PICK F \in SUBSET Fds : answers' \in AnswersTo(F)
    BY <1>3, <2>1
  <2> QED
    BY <2>2, AnswersAreSent
<1>6. sent' \in [Fds -> Seq(Data)] /\ full' \subseteq Fds
  <2>1. <<>> \in Seq(Data)
    OBVIOUS
  <2>2. sent \in [Fds -> Seq(Data)] /\ full \subseteq Fds
    BY <1>0 DEF TypeOK
  <2> QED
    BY <1>3, <2>1, <2>2
<1>7. idle' \in [Slots -> 0 .. MaxIdle] /\ leaving' \subseteq Slots
  <2>1. idle \in [Slots -> 0 .. MaxIdle] /\ leaving \subseteq Slots /\ 0 \in 0 .. MaxIdle
    BY <1>0 DEF TypeOK
  <2> QED
    BY <1>2, <1>3, <2>1
<1>8. TypeOK'
  BY <1>0, <1>3, <1>4, <1>5, <1>6, <1>7 DEF TypeOK
<1>9. Filled'
  <2>1. SUFFICES ASSUME NEW t \in ToServe' PROVE sent'[fd'[t]] # <<>>
    BY DEF Filled
  <2>2. t \in ToServe /\ fd'[t] = fd[t] /\ t # s /\ t \in Open
    BY <1>3, <1>4, <2>1 DEF ToServe
  <2>3. fd[t] # fd[s] /\ fd[t] \in Fds
    BY <1>0, <1>2, <2>2 DEF OwnFd, TypeOK, Open
  <2>4. sent'[fd[t]] = sent[fd[t]]
    BY <1>0, <1>3, <2>3 DEF TypeOK
  <2> QED
    BY <1>0, <1>3, <2>2, <2>4 DEF Filled, Scanning
<1>10. Snapshot' /\ Prepared'
  BY <1>0, <1>3, <1>4 DEF Snapshot, Prepared
<1> QED
  BY <1>4, <1>8, <1>9, <1>10 DEF LoopInv

LEMMA HandledLoopInv == LoopInv /\ handled => LoopInv'
<1> SUFFICES ASSUME LoopInv, handled PROVE LoopInv'
  OBVIOUS
<1>1. TypeOK'
  BY DEF LoopInv, handled, TypeOK, books, task
<1> QED
  BY <1>1, ScanGoesOn DEF LoopInv, handled, Prepared, Scanning, task

LEMMA ScanDoneLoopInv == LoopInv /\ scan_done => LoopInv'
<1> SUFFICES ASSUME LoopInv, scan_done PROVE LoopInv'
  OBVIOUS
<1>1. Open' = Open /\ OwnFd' /\ Watched' /\ Counted'
  BY SameConnections DEF scan_done
<1>2. TypeOK'
  BY DEF LoopInv, scan_done, TypeOK, books, task
<1>3. Prepared'
  BY <1>1 DEF LoopInv, scan_done, Prepared, task
<1> QED
  BY <1>1, <1>2, <1>3 DEF LoopInv, scan_done, Snapshot, Filled, Scanning

\* Time passes for the timers only, and the timeout pass begins when there is no
\* snapshot.
LEMMA TickLoopInv == LoopInv /\ Tick => LoopInv'
<1> SUFFICES ASSUME LoopInv, Tick PROVE LoopInv'
  OBVIOUS
<1>0. TypeOK /\ Prepared
  BY DEF LoopInv
<1> DEFINE S == {s \in Open : quiet /\ Idling /\ Expired(s)}
<1>1. /\ quiet' = Idling /\ served' = Free
      /\ idle' = [s \in Slots |-> IF s \notin Open THEN 0
                                  ELSE IF idle[s] < MaxIdle THEN idle[s] + 1 ELSE MaxIdle]
      /\ UNCHANGED <<i, read_fds, books, sent, full, backlog>>
      /\ pc \in {"select", "scan", "handle"}
  BY DEF Tick, Idling, Spinning, Stopped, Blocked, Waiting
<1>2. \/ UNCHANGED <<pc, task>>
      \/ /\ pc = "select" /\ pc' = "handle" /\ answers' \in AnswersTo(OpenFds)
         /\ leaving' \subseteq Open
  <2>1. CASE S = {}
    BY <2>1 DEF Tick
  <2>2. CASE S # {}
    <3>1. pc = "select"
      BY <2>2 DEF Idling
    <3> QED
      BY <2>2, <3>1 DEF Tick
  <2> QED
    BY <2>1, <2>2
<1> HIDE DEF S
<1>3. idle' \in [Slots -> 0 .. MaxIdle]
  BY <1>0, <1>1 DEF TypeOK
<1>4. quiet' \in BOOLEAN
  BY <1>1 DEF Idling
<1>5. answers' \in Seq(Fds) /\ Len(answers') <= MaxAnswers
  <2>1. OpenFds \subseteq Fds
    BY <1>0, OpenFdsAreFds
  <2> QED
    BY <1>0, <1>2, <2>1, AnswersAreSent DEF TypeOK, task
<1>6. leaving' \subseteq Open /\ Open \subseteq Slots
  BY <1>0, <1>2, OpenIsFinite DEF Prepared, task
<1>7. TypeOK'
  BY <1>0, <1>1, <1>2, <1>3, <1>4, <1>5, <1>6 DEF TypeOK, books, task
<1> QED
  BY <1>0, <1>1, <1>2, <1>6, <1>7, ScanGoesOn DEF Prepared, Scanning, task

\* What clients do adds to what there is to be read, and takes nothing away.
LEMMA ClientLoopInv ==
  ASSUME LoopInv, UNCHANGED server, served' = Free,
         backlog' \in 0 .. MaxBacklog, backlog' >= backlog,
         sent' \in [Fds -> Seq(Data)], \A f \in Fds : sent[f] # <<>> => sent'[f] # <<>>,
         full' \subseteq Fds
  PROVE  LoopInv'
<1>0. TypeOK /\ Snapshot /\ Filled /\ Prepared
  BY DEF LoopInv
<1>1. Open' = Open /\ OpenFds' = OpenFds /\ OwnFd' /\ Watched' /\ Counted'
  BY SameConnections DEF server
<1>2. TypeOK'
  BY <1>0 DEF TypeOK, server, books, task
<1>3. Snapshot' /\ Prepared'
  BY <1>0, <1>1, OpenFdsAreFds DEF Snapshot, Prepared, server, books, task, TypeOK
<1>4. Filled'
  BY <1>0, <1>1 DEF Filled, Scanning, ToServe, server, books, TypeOK, Open
<1> QED
  BY <1>1, <1>2, <1>3, <1>4 DEF LoopInv

LEMMA NextLoopInv == LoopInv /\ [Next]_vars => LoopInv'
<1> SUFFICES ASSUME LoopInv, [Next]_vars PROVE LoopInv'
  OBVIOUS
<1>0. TypeOK
  BY DEF LoopInv
<1>1. CASE UNCHANGED vars
  BY <1>1
     DEF vars, server, books, task, LoopInv, TypeOK, OwnFd, Watched, Counted, Snapshot, Filled,
         Scanning, Prepared, ToServe, OpenFds, Open
<1>2. CASE connect
  BY <1>0, <1>2, ClientLoopInv DEF connect, TypeOK
<1>3. ASSUME NEW f \in Fds, send(f) PROVE LoopInv'
  <2>1. PICK d \in Data : sent' = [sent EXCEPT ![f] = Append(sent[f], d)]
    BY <1>3 DEF send
  <2>2. Append(sent[f], d) \in Seq(Data) /\ Append(sent[f], d) # <<>>
    <3>1. sent[f] \in Seq(Data)
      BY <1>0 DEF TypeOK
    <3>2. Append(sent[f], d) \in Seq(Data) /\ Len(Append(sent[f], d)) = Len(sent[f]) + 1
      BY <3>1
    <3>3. Len(sent[f]) + 1 # 0
      BY <3>1
    <3> QED
      BY <3>2, <3>3
  <2>3. sent' \in [Fds -> Seq(Data)] /\ \A e \in Fds : sent[e] # <<>> => sent'[e] # <<>>
    BY <1>0, <2>1, <2>2 DEF TypeOK
  <2> QED
    BY <1>0, <1>3, <2>3, ClientLoopInv DEF send, TypeOK
<1>4. ASSUME NEW f \in Fds, finish(f) PROVE LoopInv'
  <2>1. PICK d \in Data : sent' = [sent EXCEPT ![f] = [sent[f] EXCEPT ![Len(sent[f])] = d]]
    BY <1>4 DEF finish, Data
  <2>2. sent[f] \in Seq(Data) /\ sent[f] # <<>>
    BY <1>0, <1>4 DEF finish, Last, TypeOK
  <2>3. [sent[f] EXCEPT ![Len(sent[f])] = d] \in Seq(Data)
        /\ Len([sent[f] EXCEPT ![Len(sent[f])] = d]) = Len(sent[f])
    BY <2>2
  <2>4. [sent[f] EXCEPT ![Len(sent[f])] = d] # <<>>
    BY <2>2, <2>3
  <2>5. sent' \in [Fds -> Seq(Data)] /\ \A e \in Fds : sent[e] # <<>> => sent'[e] # <<>>
    BY <1>0, <2>1, <2>3, <2>4 DEF TypeOK
  <2> QED
    BY <1>0, <1>4, <2>5, ClientLoopInv DEF finish, TypeOK
<1>5. ASSUME NEW f \in Fds, receive(f) PROVE LoopInv'
  BY <1>0, <1>5, ClientLoopInv DEF receive, TypeOK
<1> QED
  BY <1>1, <1>2, <1>3, <1>4, <1>5, SelectLoopInv, AcceptLoopInv, HandleLoopInv, SendLoopInv,
     DisconnectLoopInv, HandledLoopInv, ScanDoneLoopInv, TickLoopInv
     DEF Next, ServerStep

LEMMA LoopInvAlways == Spec => []LoopInv
BY InitLoopInv, NextLoopInv, PTL DEF Spec

-----------------------------------------------------------------------------
LEMMA LoopInvImplies == LoopInv => TypeOK /\ BookKeeping /\ BlocksOnPartOnly
<1> SUFFICES ASSUME LoopInv PROVE TypeOK /\ BookKeeping /\ BlocksOnPartOnly
  OBVIOUS
<1>1. BookKeeping
  BY AsManyFds DEF LoopInv, BookKeeping, Watched, Counted
<1>2. BlocksOnPartOnly
  <2>1. SUFFICES ASSUME NEW s \in Slots, Waiting(s) PROVE sent[fd[s]] # <<>>
    BY DEF BlocksOnPartOnly
  <2>2. ToServe \subseteq Nat /\ ToServe # {} /\ s = Least(ToServe) /\ pc = "scan"
    BY <2>1 DEF Waiting, ToServe, Open, Slots
  <2>3. s \in ToServe
    BY <2>2, LeastIsFound
  <2> QED
    BY <2>2, <2>3 DEF LoopInv, Filled, Scanning
<1> QED
  BY <1>1, <1>2 DEF LoopInv

\* The slots, descriptors, sockets and timers keep their types.
THEOREM LoopTypes == Spec => []TypeOK
BY LoopInvAlways, LoopInvImplies, PTL

\* The four records of a connection are in step: descriptor set, slot, counter
\* and the kernel's table, through accepts, rejections, disconnects and timeouts.
THEOREM BooksKept == Spec => []BookKeeping
BY LoopInvAlways, LoopInvImplies, PTL

\* The thread stops to wait in recv() only for a client in the middle of a
\* message: handle_client_data never starts on a socket that holds nothing.
THEOREM LoopCorrect == Spec => []BlocksOnPartOnly
BY LoopInvAlways, LoopInvImplies, PTL

=============================================================================
