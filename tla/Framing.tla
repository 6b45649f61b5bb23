------------------------------ MODULE Framing ------------------------------
(***************************************************************************)
(* Messages over a byte stream (protocol.c), in one direction of one       *)
(* connection.  send_message writes a header with the total length and the *)
(* type, and the payload, with as many send() calls as it takes; TCP moves *)
(* any number of bytes; recv_message collects the header, then the payload *)
(* its length announces, with as many recv() calls as it takes.            *)
(*                                                                         *)
(* The sender may die or be interrupted in the middle of a message by its  *)
(* signal handler, which sends a logout on the same socket (client_        *)
(* disconnect called by signal_handler, src/client/main.c:23) and never    *)
(* returns to the message.                                                 *)
(*                                                                         *)
(* A cell stands for a byte; the header has one cell for the four of the   *)
(* length and one for the two of the type.  (A length torn by the signal   *)
(* handler reads as less than a header or as 256 and more, which is more   *)
(* than what the handler sends: like the cases here, it is refused or      *)
(* never complete.)                                                        *)
(***************************************************************************)
EXTENDS Integers, Sequences, SequencesExt

CONSTANTS
  Payload,      \* values of a payload's cells
  MAX_PAYLOAD,
  Capacity,     \* cells the socket holds between the two ends
  MaxMessages   \* bound: messages sent

ASSUME FramingAssumption ==
  /\ Payload \subseteq Nat
  /\ MAX_PAYLOAD \in Nat /\ Capacity \in Nat \ {0} /\ MaxMessages \in Nat

HEADER_SIZE == 2
MSG_LOGOUT == 1
Types == {MSG_LOGOUT, 2}
Message == [type : Types, data : BoundedSeq(Payload, MAX_PAYLOAD)]
Offered == [type : Types, data : BoundedSeq(Payload, MAX_PAYLOAD + 1)]
Logout == [type |-> MSG_LOGOUT, data |-> <<>>]

VARIABLES
  sent,       \* messages that send_message took
  left,       \* cells of the last one that send() has still to take
  sender,     \* "open", or "gone" once it has closed or died
  cut,        \* the message the signal handler interrupted, or 0
  wire,       \* cells under way
  header,     \* recv_message: what it has of the header
  buffer,     \* ... and of the payload
  receiver,   \* "open", "failed" once recv_message returned -1, or "closed"
  received    \* messages that recv_message returned

vars == <<sent, left, sender, cut, wire, header, buffer, receiver, received>>

Min2(a, b) == IF a < b THEN a ELSE b

TypeOK ==
  /\ sent \in Seq(Message) /\ Len(sent) <= MaxMessages + 1
  /\ left \in Seq(Nat) /\ wire \in Seq(Nat) /\ Len(wire) <= Capacity
  /\ sender \in {"open", "gone"} /\ cut \in 0 .. MaxMessages
  /\ header \in Seq(Nat) /\ Len(header) <= HEADER_SIZE
  /\ buffer \in Seq(Nat) /\ Len(buffer) <= MAX_PAYLOAD
  /\ receiver \in {"open", "failed", "closed"}
  /\ received \in Seq([type : Nat, data : Seq(Nat)])

Init ==
  /\ sent = <<>> /\ left = <<>> /\ sender = "open" /\ cut = 0
  /\ wire = <<>> /\ header = <<>> /\ buffer = <<>>
  /\ receiver = "open" /\ received = <<>>

-----------------------------------------------------------------------------
(* send_message.  M_... is a plausible slip in the definition after it. *)

Frame(m) == <<HEADER_SIZE + Len(m.data), m.type>> \o m.data

M_TooLarge(m) == Len(m.data) > MAX_PAYLOAD + HEADER_SIZE
TooLarge(m) == Len(m.data) > MAX_PAYLOAD

send_message(m) ==
  /\ sender = "open" /\ cut = 0 /\ left = <<>> /\ Len(sent) < MaxMessages
  /\ ~TooLarge(m)
  /\ sent' = Append(sent, m) /\ left' = Frame(m)
  /\ UNCHANGED <<sender, cut, wire, header, buffer, receiver, received>>

\* One send(): some of the cells, or an error once the receiver has closed.
Room == Capacity - Len(wire)

send ==
  /\ sender = "open" /\ left # <<>> /\ receiver = "open"
  /\ \E n \in 1 .. Min2(Len(left), Room) :
       /\ wire' = wire \o SubSeq(left, 1, n)
       /\ left' = SubSeq(left, n + 1, Len(left))
  /\ UNCHANGED <<sent, sender, cut, header, buffer, receiver, received>>

send_fails ==
  /\ sender = "open" /\ left # <<>> /\ receiver # "open"
  /\ left' = <<>>
  /\ UNCHANGED <<sent, sender, cut, wire, header, buffer, receiver, received>>

\* The signal handler comes between two send() calls of one message.  (Before
\* the first of them, the message has simply not been sent.)
signal_handler ==
  /\ sender = "open" /\ cut = 0
  /\ left # <<>> /\ left # Frame(sent[Len(sent)])
  /\ cut' = Len(sent) /\ sent' = Append(sent, Logout) /\ left' = Frame(Logout)
  /\ UNCHANGED <<sender, wire, header, buffer, receiver, received>>

\* The sender closes the connection, or its process dies.
close ==
  /\ sender = "open" /\ sender' = "gone" /\ left' = <<>>
  /\ UNCHANGED <<sent, cut, wire, header, buffer, receiver, received>>

-----------------------------------------------------------------------------
(* recv_message *)

\* The payload is what is left of the total length.
M_PayloadLen(h) == h[1]
PayloadLen(h) == h[1] - HEADER_SIZE

BadLength(h) == h[1] < HEADER_SIZE \/ h[1] > MAX_PAYLOAD + HEADER_SIZE

\* What becomes of header h and payload b, as far as they have been read: wait
\* for more, give up, or return the message and begin anew.
Collect(h, b) ==
  LET inHeader == Len(h) < HEADER_SIZE
      complete == ~inHeader /\ ~BadLength(h) /\ Len(b) = PayloadLen(h) IN
  /\ receiver' = IF ~inHeader /\ BadLength(h) THEN "failed" ELSE "open"
  /\ received' = IF complete THEN Append(received, [type |-> h[2], data |-> b]) ELSE received
  /\ header' = IF complete THEN <<>> ELSE h
  /\ buffer' = IF complete THEN <<>> ELSE b

\* How many cells the next recv() asks for.
M_WantedOfHeader == IF Len(header) < HEADER_SIZE THEN HEADER_SIZE
                    ELSE PayloadLen(header) - Len(buffer)
M_Wanted == IF Len(header) < HEADER_SIZE THEN HEADER_SIZE - Len(header)
            ELSE PayloadLen(header)
Wanted == IF Len(header) < HEADER_SIZE THEN HEADER_SIZE - Len(header)
          ELSE PayloadLen(header) - Len(buffer)

\* One recv() that returns data.
recv ==
  /\ receiver = "open" /\ wire # <<>>
  /\ \E n \in 1 .. Min2(Wanted, Len(wire)) :
       LET got == SubSeq(wire, 1, n) IN
       /\ IF Len(header) < HEADER_SIZE THEN Collect(header \o got, buffer)
                                       ELSE Collect(header, buffer \o got)
       /\ wire' = SubSeq(wire, n + 1, Len(wire))
  /\ UNCHANGED <<sent, left, sender, cut>>

\* recv() returns 0: the sender has closed and everything was read.
recv_end ==
  /\ receiver = "open" /\ wire = <<>> /\ sender = "gone"
  /\ receiver' = "failed"
  /\ UNCHANGED <<sent, left, sender, cut, wire, header, buffer, received>>

\* The receiver closes for reasons of its own: a timeout, a shutdown.
hang_up ==
  /\ receiver = "open" /\ receiver' = "closed"
  /\ UNCHANGED <<sent, left, sender, cut, wire, header, buffer, received>>

Next ==
  \/ \E m \in Offered : send_message(m)
  \/ send \/ send_fails \/ signal_handler \/ close
  \/ recv \/ recv_end \/ hang_up

Spec == Init /\ [][Next]_vars

\* Both ends go on with a message they have begun; TCP delivers what it took.
FairSpec == Spec /\ WF_vars(send) /\ WF_vars(recv)

-----------------------------------------------------------------------------
(* Properties *)

\* Whatever the sizes of the pieces, the receiver gets the messages that were
\* sent, whole and in order, up to one that is interrupted by the signal
\* handler.  Of that one it gets at most one message of its length; what
\* the handler sends after it is never taken for a message.
ReceivedAsSent ==
  LET whole == IF cut = 0 THEN Len(sent) ELSE cut - 1 IN
  /\ \A k \in DOMAIN received : k <= whole => received[k] = sent[k]
  /\ cut = 0 => Len(received) <= Len(sent)
  /\ cut # 0 =>
       /\ Len(received) <= cut
       /\ Len(received) = cut => Len(received[cut].data) = Len(sent[cut].data)

\* recv_message gives up ("Invalid message length", a closed connection) only on
\* a sender that is gone or was interrupted: what send_message accepts, the other
\* side accepts, and payload is never read as a header.
GivesUpForAReason == receiver = "failed" => sender = "gone" \/ cut # 0

\* A message that send_message took arrives, although each side may get on by a
\* byte at a time, unless an end closes or the signal handler cuts in.
Arrives ==
  \A k \in 1 .. MaxMessages :
    (Len(sent) >= k) ~>
      (Len(received) >= k \/ sender = "gone" \/ receiver # "open" \/ cut # 0)

=============================================================================
