------------------------------ MODULE Mailbox ------------------------------
(***************************************************************************)
(* What the server promises about messages, for a single kind of message   *)
(* and without tables: a message is handed to those who are there, once,   *)
(* and kept for those who are away, who receive it in the order the        *)
(* messages were sent and as often as it was kept, as soon as they come    *)
(* back, unless the server is restarted before.                            *)
(* Messaging implements this.                                              *)
(***************************************************************************)
EXTENDS Naturals, Sequences

CONSTANTS
  Users,
  MaxMessages,
  MaxCopies    \* of a message that are kept for one user

VARIABLES
  next,   \* number of the next message
  here,   \* users who are logged in
  box,    \* user -> numbers of the messages kept for it
  got     \* user -> numbers of the messages it has received

vars == <<next, here, box, got>>

Init ==
  /\ next = 1
  /\ here = {}
  /\ box = [u \in Users |-> <<>>]
  /\ got = [u \in Users |-> <<>>]

\* Somebody sends a message, of which copies[u] are for u.
Post(copies) ==
  /\ next <= MaxMessages /\ next' = next + 1 /\ UNCHANGED here
  /\ got' = [u \in Users |->
       IF u \in here /\ copies[u] > 0 THEN Append(got[u], next) ELSE got[u]]
  /\ box' = [u \in Users |->
       IF u \in here THEN box[u] ELSE box[u] \o [k \in 1 .. copies[u] |-> next]]

Arrive(u) ==
  /\ UNCHANGED next /\ here' = here \cup {u}
  /\ got' = [got EXCEPT ![u] = @ \o box[u]]
  /\ box' = [box EXCEPT ![u] = <<>>]

Depart(u) == UNCHANGED next /\ here' = here \ {u} /\ UNCHANGED <<box, got>>

\* Messages are kept for as long as the server runs; it may stop over one that is
\* being sent.
Restart ==
  /\ next' \in {next, next + 1} /\ here' = {}
  /\ box' = [u \in Users |-> <<>>] /\ UNCHANGED got

Next ==
  \/ \E u \in Users : Depart(u) \/ Arrive(u)
  \/ \E copies \in [Users -> 0 .. MaxCopies] : Post(copies)
  \/ Restart

Spec == Init /\ [][Next]_vars

=============================================================================
