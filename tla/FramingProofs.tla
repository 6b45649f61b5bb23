--------------------------- MODULE FramingProofs ---------------------------
(***************************************************************************)
(* Theorems about Framing, for any payloads, limits and sizes of the       *)
(* pieces: what recv_message returns are the messages send_message was     *)
(* given, and it gives up for a reason.                                    *)
(***************************************************************************)
EXTENDS Framing, SequenceTheorems, TLAPS

USE FramingAssumption DEF HEADER_SIZE

-----------------------------------------------------------------------------
(* The invariant.  All the cells that were ever sent make up one sequence T; *)
(* b[i] is the number of cells before the frame of the i-th message.         *)

Cells == Seq(Nat)
Offsets == [Nat -> Nat]
Messages == Seq(Message)

FrameLen(m) == HEADER_SIZE + Len(m.data)

\* The first n messages of msgs lie in T one after the other, whole as far as T
\* goes; of the one that was interrupted, the length is there.
Frames(T, b, msgs, n, interrupted) ==
  /\ \A i \in 1 .. n : b[i + 1] = b[i] + FrameLen(msgs[i])
  /\ \A i, k \in 1 .. n + 1 : i <= k => b[i] <= b[k]
  /\ \A i \in 1 .. n : \A j \in 1 .. FrameLen(msgs[i]) :
       b[i] + j <= Len(T) /\ (i = interrupted => j = 1) => T[b[i] + j] = Frame(msgs[i])[j]

\* S is what T holds after o cells.
After(T, o, S) == Len(T) = o + Len(S) /\ \A x \in 1 .. Len(S) : S[x] = T[o + x]

\* What is between the last message returned and the end of the last one sent.
Stream == header \o buffer \o wire \o left

\* The messages up to the one that was interrupted.
Begun == IF cut = 0 THEN Len(sent) ELSE cut

Layout(T, b) ==
  /\ T \in Cells /\ b \in Offsets
  /\ Frames(T, b, sent, Begun, cut)
  /\ After(T, b[Len(received) + 1], Stream)
  /\ cut = 0 => Len(T) <= b[Begun + 1]
  /\ cut = 0 /\ sender = "open" => Len(T) = b[Begun + 1]
  /\ cut # 0 => Len(T) <= b[Begun + 1] + 1   \* the logout made it whole, but for less than a header

InStep == receiver = "open" => \E T, b : Layout(T, b)

\* recv_message waits for more of the header, or for more of a payload of a
\* length it has accepted.
Waiting ==
  receiver = "open" =>
    \/ Len(header) < HEADER_SIZE /\ buffer = <<>>
    \/ Len(header) = HEADER_SIZE /\ ~BadLength(header) /\ Len(buffer) < PayloadLen(header)

\* What is left to send is the end of the last message's frame.
Remains ==
  cut = 0 /\ left # <<>> =>
    /\ sent # <<>>
    /\ LET frame == Frame(sent[Len(sent)]) IN
       /\ Len(left) <= Len(frame)
       /\ \A x \in 1 .. Len(left) : left[x] = frame[Len(frame) - Len(left) + x]

\* Counts: one message at most is interrupted, and the logout is the last.
Counts ==
  /\ cut = 0 => Len(sent) <= MaxMessages
  /\ cut # 0 => Len(sent) = cut + 1
  /\ Len(received) <= Begun
  /\ sender = "gone" => left = <<>>

FramingInv ==
  TypeOK /\ Counts /\ Remains /\ Waiting /\ ReceivedAsSent /\ GivesUpForAReason /\ InStep

-----------------------------------------------------------------------------
(* Messages and frames *)

LEMMA BoundedIsSeq ==
  ASSUME NEW S, NEW n \in Nat, NEW s
  PROVE  s \in BoundedSeq(S, n) <=> s \in Seq(S) /\ Len(s) <= n
<1>1. ASSUME s \in BoundedSeq(S, n) PROVE s \in Seq(S) /\ Len(s) <= n
  <2>1. PICK m \in 0 .. n : s \in [1 .. m -> S]
    BY <1>1, Zenon DEF BoundedSeq, SeqOf
  <2> QED
    BY <2>1
<1>2. ASSUME s \in Seq(S), Len(s) <= n PROVE s \in BoundedSeq(S, n)
  <2>1. Len(s) \in 0 .. n /\ s \in [1 .. Len(s) -> S]
    BY <1>2
  <2> QED
    BY <2>1, Zenon DEF BoundedSeq, SeqOf
<1> QED
  BY <1>1, <1>2

LEMMA NatSeq == ASSUME NEW s \in Seq(Payload) PROVE s \in Seq(Nat)
BY SeqMonotonic DEF FramingAssumption

LEMMA MessageShape ==
  ASSUME NEW m \in Message
  PROVE  /\ m.type \in Nat /\ m.data \in Seq(Nat) /\ Len(m.data) \in Nat /\ Len(m.data) <= MAX_PAYLOAD
         /\ m = [type |-> m.type, data |-> m.data]
<1>1. m.type \in Types /\ m.data \in BoundedSeq(Payload, MAX_PAYLOAD) /\ m = [type |-> m.type, data |-> m.data]
  BY DEF Message
<1>2. m.data \in Seq(Payload) /\ Len(m.data) <= MAX_PAYLOAD
  BY <1>1, BoundedIsSeq
<1>3. m.data \in Seq(Nat)
  BY <1>2, NatSeq
<1> QED
  BY <1>1, <1>2, <1>3 DEF Types, MSG_LOGOUT

LEMMA FrameShape ==
  ASSUME NEW m, m.type \in Nat, m.data \in Seq(Nat)
  PROVE  /\ Frame(m) \in Seq(Nat) /\ Len(Frame(m)) = FrameLen(m) /\ FrameLen(m) \in Nat /\ FrameLen(m) >= 2
         /\ Frame(m)[1] = FrameLen(m) /\ Frame(m)[2] = m.type
         /\ \A x \in 1 .. Len(m.data) : Frame(m)[2 + x] = m.data[x]
<1>1. PICK d, h : d = m.data /\ h = <<HEADER_SIZE + Len(m.data), m.type>>
  OBVIOUS
<1>2. d \in Seq(Nat) /\ Len(d) \in Nat /\ h \in Seq(Nat) /\ Len(h) = 2 /\ h[1] = 2 + Len(d) /\ h[2] = m.type
  BY <1>1
<1>3. /\ h \o d \in Seq(Nat) /\ Len(h \o d) = 2 + Len(d)
      /\ \A i \in 1 .. 2 + Len(d) : (h \o d)[i] = IF i <= 2 THEN h[i] ELSE d[i - 2]
  <2>1. /\ h \o d \in Seq(Nat) /\ Len(h \o d) = Len(h) + Len(d)
        /\ \A i \in 1 .. Len(h) + Len(d) : (h \o d)[i] = IF i <= Len(h) THEN h[i] ELSE d[i - Len(h)]
    BY <1>2, ConcatProperties, Zenon
  <2> QED
    BY <1>2, <2>1
<1>4. Frame(m) = h \o d /\ FrameLen(m) = 2 + Len(d)
  BY <1>1 DEF Frame, FrameLen
<1>5. (h \o d)[1] = h[1] /\ (h \o d)[2] = h[2] /\ \A x \in 1 .. Len(d) : (h \o d)[2 + x] = d[x]
  BY <1>2, <1>3
<1> QED
  BY <1>1, <1>2, <1>3, <1>4, <1>5

\* send_message refuses what is too large, and only that.
LEMMA AcceptedIsMessage == ASSUME NEW m \in Offered, ~TooLarge(m) PROVE m \in Message
<1>1. /\ m.type \in Types /\ m.data \in BoundedSeq(Payload, MAX_PAYLOAD + 1)
      /\ m = [type |-> m.type, data |-> m.data]
  BY DEF Offered
<1>2. m.data \in Seq(Payload) /\ Len(m.data) <= MAX_PAYLOAD
  BY <1>1, BoundedIsSeq DEF TooLarge
<1>3. m.data \in BoundedSeq(Payload, MAX_PAYLOAD)
  BY <1>2, BoundedIsSeq
<1> QED
  BY <1>1, <1>3 DEF Message

LEMMA LogoutIsMessage == Logout \in Message /\ FrameLen(Logout) = 2
<1>1. <<>> \in Seq(Payload) /\ Len(<<>>) = 0
  OBVIOUS
<1>2. <<>> \in BoundedSeq(Payload, MAX_PAYLOAD)
  <2>1. MAX_PAYLOAD \in Nat /\ Len(<<>>) <= MAX_PAYLOAD
    BY <1>1
  <2> QED
    BY <1>1, <2>1, BoundedIsSeq, Zenon
<1> QED
  BY <1>1, <1>2 DEF Logout, Message, Types, FrameLen

-----------------------------------------------------------------------------
(* What T holds after some cells *)

LEMMA Joined ==
  ASSUME NEW T, NEW s \in Seq(T), NEW t \in Seq(T)
  PROVE  /\ s \o t \in Seq(T) /\ Len(s \o t) = Len(s) + Len(t)
         /\ \A i \in 1 .. Len(s) : (s \o t)[i] = s[i]
         /\ \A i \in 1 .. Len(t) : (s \o t)[Len(s) + i] = t[i]
<1>1. PICK l, k \in Nat : l = Len(s) /\ k = Len(t)
  OBVIOUS
<1>2. /\ s \o t \in Seq(T) /\ Len(s \o t) = l + k
      /\ \A i \in 1 .. l + k : (s \o t)[i] = IF i <= l THEN s[i] ELSE t[i - l]
  BY <1>1, ConcatProperties
<1>3. \A i \in 1 .. l : (s \o t)[i] = s[i]
  BY <1>1, <1>2
<1>4. \A i \in 1 .. k : (s \o t)[l + i] = t[i]
  BY <1>1, <1>2
<1> QED
  BY <1>1, <1>2, <1>3, <1>4

\* More is sent.
LEMMA AfterJoined ==
  ASSUME NEW T \in Seq(Nat), NEW S \in Seq(Nat), NEW F \in Seq(Nat), NEW o \in Nat, After(T, o, S)
  PROVE  After(T \o F, o, S \o F)
<1>1. PICK t, s, f \in Nat : t = Len(T) /\ s = Len(S) /\ f = Len(F)
  OBVIOUS
<1>2. t = o + s /\ \A x \in 1 .. s : S[x] = T[o + x]
  BY <1>1 DEF After
<1>3. PICK Z, Y : Z = T \o F /\ Y = S \o F
  OBVIOUS
<1>4. /\ Len(Z) = t + f /\ \A i \in 1 .. t : Z[i] = T[i]
      /\ \A i \in 1 .. f : Z[t + i] = F[i]
  BY <1>1, <1>3, Joined
<1>5. /\ Len(Y) = s + f /\ \A i \in 1 .. s : Y[i] = S[i]
      /\ \A i \in 1 .. f : Y[s + i] = F[i]
  BY <1>1, <1>3, Joined
<1>6. ASSUME NEW x \in 1 .. s + f PROVE Y[x] = Z[o + x]
  <2>1. CASE x <= s
    BY <1>2, <1>4, <1>5, <2>1
  <2>2. CASE x > s
    <3>1. PICK y \in 1 .. f : x = s + y
      BY <2>2
    <3>2. Y[x] = F[y] /\ Z[t + y] = F[y] /\ o + x = t + y
      BY <1>2, <1>4, <1>5, <3>1
    <3> QED
      BY <3>2
  <2> QED
    BY <2>1, <2>2
<1>7. Len(Z) = o + Len(Y)
  BY <1>2, <1>4, <1>5
<1> QED
  BY <1>3, <1>5, <1>6, <1>7 DEF After

\* Some of it is read.
LEMMA AfterRead ==
  ASSUME NEW T \in Seq(Nat), NEW A \in Seq(Nat), NEW S \in Seq(Nat), NEW o \in Nat, After(T, o, A \o S)
  PROVE  /\ After(T, o + Len(A), S) /\ Len(T) = o + Len(A) + Len(S)
         /\ \A x \in 1 .. Len(A) : A[x] = T[o + x]
<1>1. PICK a, s \in Nat : a = Len(A) /\ s = Len(S)
  OBVIOUS
<1>2. PICK Z : Z = A \o S
  OBVIOUS
<1>3. /\ Len(Z) = a + s /\ \A i \in 1 .. a : Z[i] = A[i]
      /\ \A i \in 1 .. s : Z[a + i] = S[i]
  BY <1>1, <1>2, Joined
<1>4. Len(T) = o + (a + s) /\ \A x \in 1 .. a + s : Z[x] = T[o + x]
  BY <1>2, <1>3 DEF After
<1>5. ASSUME NEW x \in 1 .. a PROVE A[x] = T[o + x]
  <2>1. x \in 1 .. a + s
    BY <1>1
  <2> QED
    BY <1>3, <1>4, <2>1
<1>6. ASSUME NEW x \in 1 .. s PROVE S[x] = T[(o + a) + x]
  <2>1. a + x \in 1 .. a + s /\ o + (a + x) = (o + a) + x
    BY <1>1
  <2> QED
    BY <1>3, <1>4, <2>1
<1>7. Len(T) = (o + a) + s
  BY <1>1, <1>4
<1>8. After(T, o + a, S)
  BY <1>1, <1>6, <1>7 DEF After
<1> QED
  BY <1>1, <1>5, <1>7, <1>8

\* The end of it is lost.
LEMMA AfterCut ==
  ASSUME NEW T \in Seq(Nat), NEW P \in Seq(Nat), NEW L \in Seq(Nat), NEW o \in Nat, After(T, o, P \o L)
  PROVE  /\ After(SubSeq(T, 1, Len(T) - Len(L)), o, P)
         /\ SubSeq(T, 1, Len(T) - Len(L)) \in Seq(Nat)
         /\ Len(SubSeq(T, 1, Len(T) - Len(L))) = Len(T) - Len(L)
         /\ \A x \in 1 .. Len(T) - Len(L) : SubSeq(T, 1, Len(T) - Len(L))[x] = T[x]
<1>1. PICK p, l \in Nat : p = Len(P) /\ l = Len(L)
  OBVIOUS
<1>2. Len(T) = o + p + l /\ \A x \in 1 .. p : P[x] = T[o + x]
  BY <1>1, AfterRead
<1>3. PICK U : U = SubSeq(T, 1, o + p)
  OBVIOUS
<1>4. \A i \in 1 .. o + p : T[i] \in Nat
  BY <1>1, <1>2
<1>5. U \in Seq(Nat) /\ Len(U) = o + p /\ \A x \in 1 .. o + p : U[x] = T[x]
  BY <1>1, <1>3, <1>4, SubSeqProperties
<1>6. Len(T) - Len(L) = o + p
  BY <1>1, <1>2
<1>7. ASSUME NEW x \in 1 .. p PROVE P[x] = U[o + x]
  <2>1. o + x \in 1 .. o + p
    BY <1>1
  <2> QED
    BY <1>1, <1>2, <1>5, <2>1
<1> QED
  BY <1>1, <1>3, <1>5, <1>6, <1>7 DEF After

-----------------------------------------------------------------------------
(* How frames lie in T *)

LEMMA Shapes ==
  /\ \A s \in Cells : Len(s) \in Nat
  /\ \A b \in Offsets : \A i \in Nat : b[i] \in Nat
  /\ \A s \in Messages : Len(s) \in Nat /\ \A i \in 1 .. Len(s) : FrameLen(s[i]) \in Nat
<1>1. \A s \in Cells : Len(s) \in Nat
  BY DEF Cells
<1>2. \A b \in Offsets : \A i \in Nat : b[i] \in Nat
  BY DEF Offsets
<1>3. ASSUME NEW s \in Messages PROVE Len(s) \in Nat /\ \A i \in 1 .. Len(s) : s[i] \in Message
  BY DEF Messages
<1>4. \A m \in Message : FrameLen(m) \in Nat
  BY MessageShape, FrameShape
<1> QED
  BY <1>1, <1>2, <1>3, <1>4

\* T and U are the same up to p.
SameUpTo(T, U, p) == \A x \in 1 .. p : U[x] = T[x]

\* Z is T and then m.
Adds(T, Z, m) ==
  /\ Len(Z) = Len(T) + FrameLen(m) /\ SameUpTo(T, Z, Len(T))
  /\ \A j \in 1 .. FrameLen(m) : Z[Len(T) + j] = Frame(m)[j]

\* more is msgs and then one more.
OneMore(msgs, more, n) ==
  Len(msgs) = n /\ Len(more) = n + 1 /\ \A i \in 1 .. n : more[i] = msgs[i]

LEMMA NewOffset ==
  ASSUME NEW b \in Offsets, NEW n \in Nat, NEW e \in Nat
  PROVE  \E c \in Offsets : c[n + 2] = e /\ \A i \in 1 .. n + 1 : c[i] = b[i]
<1>1. [b EXCEPT ![n + 2] = e] \in Offsets
  BY DEF Offsets
<1>2. [b EXCEPT ![n + 2] = e][n + 2] = e /\ \A i \in 1 .. n + 1 : [b EXCEPT ![n + 2] = e][i] = b[i]
  BY DEF Offsets
<1> QED
  BY <1>1, <1>2

LEMMA FramesExtended ==
  ASSUME NEW T \in Cells, NEW Z \in Cells, NEW b \in Offsets, NEW msgs \in Messages, NEW more \in Messages,
         NEW n \in Nat, OneMore(msgs, more, n), Frames(T, b, msgs, n, 0), Len(T) = b[n + 1],
         Adds(T, Z, more[n + 1])
  PROVE  \E c \in Offsets :
           /\ Frames(Z, c, more, n + 1, 0)
           /\ \A i \in 1 .. n + 1 : c[i] = b[i]
           /\ Len(Z) = c[n + 2]
<1>1. PICK t, f, z \in Nat : t = Len(T) /\ t = b[n + 1] /\ f = FrameLen(more[n + 1]) /\ z = Len(Z)
  <2>1. n + 1 \in 1 .. n + 1 /\ n + 1 \in Nat
    OBVIOUS
  <2>2. FrameLen(more[n + 1]) \in Nat
    BY <2>1, Shapes, Zenon DEF OneMore
  <2> QED
    BY <2>2, Shapes
<1>2. /\ z = t + f /\ \A x \in 1 .. t : Z[x] = T[x]
      /\ \A j \in 1 .. f : Z[t + j] = Frame(more[n + 1])[j]
      /\ \A i \in 1 .. n : more[i] = msgs[i]
  BY <1>1, Zenon DEF Adds, OneMore, SameUpTo
<1>3. PICK c \in Offsets : c[n + 2] = z /\ \A i \in 1 .. n + 1 : c[i] = b[i]
  BY <1>1, NewOffset
<1>4. /\ \A i \in 1 .. n : b[i + 1] = b[i] + FrameLen(msgs[i])
      /\ \A i, k \in 1 .. n + 1 : i <= k => b[i] <= b[k]
      /\ \A i \in 1 .. n : \A j \in 1 .. FrameLen(msgs[i]) :
           b[i] + j <= Len(T) => T[b[i] + j] = Frame(msgs[i])[j]
  <2>1. \A i \in 1 .. n : i # 0
    OBVIOUS
  <2> QED
    BY <2>1, Zenon DEF Frames
<1>5. ASSUME NEW i \in 1 .. n + 1 PROVE c[i + 1] = c[i] + FrameLen(more[i])
  <2>1. CASE i \in 1 .. n
    <3>1. i + 1 \in 1 .. n + 1
      BY <2>1
    <3>2. c[i + 1] = b[i + 1] /\ c[i] = b[i] /\ more[i] = msgs[i] /\ b[i + 1] = b[i] + FrameLen(msgs[i])
      BY <1>2, <1>3, <1>4, <2>1, <3>1, Zenon
    <3> QED
      BY <3>2, Zenon
  <2>2. CASE i = n + 1
    <3>1. i + 1 = n + 2
      BY <2>2
    <3>2. c[i + 1] = z /\ c[i] = t /\ FrameLen(more[i]) = f
      BY <1>1, <1>3, <2>2, <3>1, Zenon
    <3> QED
      BY <1>2, <3>2, Zenon
  <2> QED
    <3>1. i \in 1 .. n \/ i = n + 1
      OBVIOUS
    <3> QED
      BY <2>1, <2>2, <3>1, Zenon
<1>6. ASSUME NEW i \in 1 .. n + 2, NEW k \in 1 .. n + 2, i <= k PROVE c[i] <= c[k]
  <2>1. CASE k \in 1 .. n + 1
    <3>1. i \in 1 .. n + 1
      BY <1>6, <2>1
    <3> QED
      BY <1>3, <1>4, <1>6, <2>1, <3>1, Zenon
  <2>2. CASE k = n + 2 /\ i \in 1 .. n + 1
    <3>1. n + 1 \in 1 .. n + 1 /\ i <= n + 1
      BY <2>2
    <3>2. b[i] <= b[n + 1] /\ c[i] = b[i] /\ c[k] = z
      BY <1>3, <1>4, <2>2, <3>1, Zenon
    <3>3. PICK o \in Nat : o = b[i]
      <4>1. i \in Nat
        OBVIOUS
      <4> QED
        BY <4>1, Shapes
    <3>4. o <= t /\ c[i] = o
      BY <1>1, <3>2, <3>3, Zenon
    <3>5. o <= z
      BY <1>2, <3>4
    <3> QED
      BY <3>2, <3>4, <3>5, Zenon
  <2>3. CASE k = n + 2 /\ i = n + 2
    <3>1. z <= z
      OBVIOUS
    <3> QED
      BY <1>3, <2>3, <3>1, Zenon
  <2> QED
    <3>1. k \in 1 .. n + 1 \/ (k = n + 2 /\ i \in 1 .. n + 1) \/ (k = n + 2 /\ i = n + 2)
      OBVIOUS
    <3> QED
      BY <2>1, <2>2, <2>3, <3>1, Zenon
<1>7. ASSUME NEW i \in 1 .. n + 1, NEW j \in 1 .. FrameLen(more[i]), c[i] + j <= Len(Z)
      PROVE  Z[c[i] + j] = Frame(more[i])[j]
  <2>1. CASE i \in 1 .. n
    <3>1. more[i] = msgs[i] /\ c[i] = b[i] /\ j \in 1 .. FrameLen(msgs[i])
      <4>1. i \in 1 .. n + 1
        OBVIOUS
      <4> QED
        BY <1>2, <1>3, <2>1, <4>1, Zenon
    <3>2. i \in 1 .. n + 1 /\ i + 1 \in 1 .. n + 1 /\ n + 1 \in 1 .. n + 1 /\ i + 1 <= n + 1
      BY <2>1
    <3>3. b[i + 1] <= b[n + 1] /\ b[i + 1] = b[i] + FrameLen(msgs[i])
      BY <1>4, <2>1, <3>2, Zenon
    <3>4. PICK o, k, g \in Nat : o = b[i] /\ k = j /\ g = FrameLen(msgs[i])
      <4>1. i \in Nat /\ j \in Nat
        OBVIOUS
      <4>2. FrameLen(msgs[i]) \in Nat
        BY <2>1, Shapes, Zenon DEF OneMore
      <4> QED
        BY <4>1, <4>2, Shapes
    <3>5. k \in 1 .. g /\ o + g <= t
      BY <1>1, <3>1, <3>3, <3>4, Zenon
    <3>6. o + k \in 1 .. t /\ o + k <= t
      BY <3>5
    <3>7. T[o + k] = Frame(msgs[i])[j] /\ Z[o + k] = T[o + k]
      BY <1>1, <1>2, <1>4, <2>1, <3>1, <3>4, <3>6, Zenon
    <3> QED
      BY <3>1, <3>4, <3>7, Zenon
  <2>2. CASE i = n + 1
    <3>1. c[i] = t /\ j \in 1 .. f
      BY <1>1, <1>3, <2>2, Zenon
    <3> QED
      BY <1>2, <2>2, <3>1, Zenon
  <2> QED
    <3>1. i \in 1 .. n \/ i = n + 1
      OBVIOUS
    <3> QED
      BY <2>1, <2>2, <3>1, Zenon
<1>8. Frames(Z, c, more, n + 1, 0)
  <2>1. n + 1 + 1 = n + 2
    OBVIOUS
  <2> QED
    BY <1>5, <1>6, <1>7, <2>1, Zenon DEF Frames
<1> QED
  BY <1>1, <1>3, <1>8, Zenon

\* Less of T holds less of the frames.
LEMMA FramesCut ==
  ASSUME NEW T \in Cells, NEW b \in Offsets, NEW msgs, NEW n \in Nat, NEW interrupted,
         Frames(T, b, msgs, n, interrupted),
         NEW U \in Cells, Len(U) <= Len(T), SameUpTo(T, U, Len(U))
  PROVE  Frames(U, b, msgs, n, interrupted)
<1>1. ASSUME NEW i \in 1 .. n, NEW j \in 1 .. FrameLen(msgs[i]), b[i] + j <= Len(U), i = interrupted => j = 1
      PROVE  U[b[i] + j] = Frame(msgs[i])[j]
  <2>1. PICK o, k, u, t \in Nat : o = b[i] /\ k = j /\ u = Len(U) /\ t = Len(T)
    <3>1. i \in Nat /\ j \in Nat
      OBVIOUS
    <3> QED
      BY <3>1, Shapes
  <2>2. k >= 1 /\ u <= t /\ o + k <= u
    BY <1>1, <2>1
  <2>3. o + k <= t /\ o + k \in 1 .. u
    BY <2>1, <2>2
  <2>4. T[b[i] + j] = Frame(msgs[i])[j]
    <3>1. b[i] + j <= Len(T) /\ (i = interrupted => j = 1)
      BY <1>1, <2>1, <2>3
    <3> QED
      BY <3>1, Zenon DEF Frames
  <2>5. U[o + k] = T[o + k]
    BY <2>1, <2>3, Zenon DEF SameUpTo
  <2> QED
    BY <2>1, <2>4, <2>5, Zenon
<1> QED
  BY <1>1, Zenon DEF Frames

\* The logout takes the place of the end of the last frame, of which something
\* has been sent.
LEMMA FramesInterrupted ==
  ASSUME NEW T \in Cells, NEW b \in Offsets, NEW msgs \in Messages, NEW n \in Nat \ {0},
         n = Len(msgs), Frames(T, b, msgs, n, 0), NEW U \in Cells, NEW p \in Nat,
         b[n] + 1 <= p, p <= Len(T), p <= Len(U), SameUpTo(T, U, p)
  PROVE  Frames(U, b, msgs, n, n)
<1>3. /\ \A i \in 1 .. n : b[i + 1] = b[i] + FrameLen(msgs[i])
      /\ \A i, k \in 1 .. n + 1 : i <= k => b[i] <= b[k]
      /\ \A i \in 1 .. n : \A j \in 1 .. FrameLen(msgs[i]) :
           b[i] + j <= Len(T) => T[b[i] + j] = Frame(msgs[i])[j]
  <2>1. \A i \in 1 .. n : i # 0
    OBVIOUS
  <2> QED
    BY <2>1, Zenon DEF Frames
<1>4. ASSUME NEW i \in 1 .. n PROVE FrameLen(msgs[i]) \in Nat
  BY Shapes
<1>5. ASSUME NEW i \in 1 .. n, NEW j \in 1 .. FrameLen(msgs[i]), i = n => j = 1
      PROVE  U[b[i] + j] = Frame(msgs[i])[j]
  <2>1. PICK o, e, f, t, k, q \in Nat :
          o = b[i] /\ e = b[n] /\ f = FrameLen(msgs[i]) /\ t = Len(T) /\ k = j /\ q = i
    <3>1. i \in Nat /\ j \in Nat /\ n \in Nat
      OBVIOUS
    <3> QED
      BY <1>4, <3>1, Shapes
  <2>2. 1 <= k /\ k <= f /\ e + 1 <= p /\ p <= t /\ 1 <= q /\ q <= n
    BY <2>1
  <2>4. o + k <= p
    <3>1. CASE q = n
      BY <1>5, <2>1, <2>2, <3>1
    <3>2. CASE q # n
      <4>1. q \in 1 .. n /\ q + 1 \in 1 .. n + 1 /\ n \in 1 .. n + 1 /\ q + 1 <= n
        BY <2>1, <2>2, <3>2
      <4>2. b[q + 1] <= b[n] /\ b[q + 1] = b[q] + FrameLen(msgs[q])
        BY <1>3, <4>1, Zenon
      <4>3. o + f <= e
        BY <2>1, <4>2
      <4> QED
        BY <2>1, <2>2, <4>3
    <3> QED
      BY <3>1, <3>2
  <2>5. o + k \in 1 .. p /\ o + k <= t
    BY <2>2, <2>4
  <2>6. T[b[i] + j] = Frame(msgs[i])[j]
    <3>1. b[i] + j <= Len(T)
      BY <2>1, <2>5
    <3> QED
      BY <1>3, <3>1, Zenon
  <2>7. U[o + k] = T[o + k]
    BY <2>5, Zenon DEF SameUpTo
  <2> QED
    BY <2>1, <2>6, <2>7, Zenon
<1> QED
  BY <1>3, <1>5, Zenon DEF Frames

-----------------------------------------------------------------------------
(* Cells under way *)

LEMMA Regrouped == \A T : \A s, t, u \in Seq(T) : (s \o t) \o u = s \o (t \o u)
<1> TAKE T
<1> TAKE s, t, u \in Seq(T)
<1> QED
  BY ConcatAssociative

LEMMA CellFacts ==
  /\ <<>> \in Cells /\ Len(<<>>) = 0
  /\ \A s \in Cells : s \o <<>> = s /\ <<>> \o s = s
  /\ \A s, t \in Cells : s \o t \in Cells /\ Len(s \o t) = Len(s) + Len(t)
  /\ \A s, t, u \in Cells : (s \o t) \o u = s \o (t \o u)
<1>1. <<>> \in Cells /\ Len(<<>>) = 0
  BY DEF Cells
<1>2. ASSUME NEW s \in Cells PROVE s \o <<>> = s /\ <<>> \o s = s
  BY <1>2, ConcatEmptySeq, Zenon DEF Cells
<1>3. ASSUME NEW s \in Cells, NEW t \in Cells PROVE s \o t \in Cells /\ Len(s \o t) = Len(s) + Len(t)
  BY <1>3, Joined, Zenon DEF Cells
<1>4. \A s, t, u \in Cells : (s \o t) \o u = s \o (t \o u)
  <2>1. PICK T : T = Nat
    OBVIOUS
  <2>2. Cells = Seq(T)
    BY <2>1 DEF Cells
  <2> HIDE <2>1
  <2>3. \A s, t, u \in Seq(T) : (s \o t) \o u = s \o (t \o u)
    BY Regrouped
  <2> QED
    BY <2>2, <2>3, Zenon
<1> QED
  BY <1>1, <1>2, <1>3, <1>4, Zenon

\* The first n cells and the rest.
LEMMA SplitCells ==
  ASSUME NEW s \in Cells, NEW n \in 0 .. Len(s)
  PROVE  /\ SubSeq(s, 1, n) \in Cells /\ SubSeq(s, n + 1, Len(s)) \in Cells
         /\ Len(SubSeq(s, 1, n)) = n /\ Len(SubSeq(s, n + 1, Len(s))) = Len(s) - n
         /\ \A x \in 1 .. Len(s) - n : SubSeq(s, n + 1, Len(s))[x] = s[n + x]
         /\ s = SubSeq(s, 1, n) \o SubSeq(s, n + 1, Len(s))
<1>1. PICK l \in Nat : l = Len(s) /\ n \in 0 .. l /\ s \in Seq(Nat) /\ \A i \in 1 .. l : s[i] \in Nat
  BY DEF Cells
<1>2. \A i \in 1 .. n : s[i] \in Nat
  BY <1>1
<1>3. \A i \in n + 1 .. l : s[i] \in Nat
  BY <1>1
<1>4. n \in Int /\ n + 1 \in Int /\ l \in Int /\ 1 \in Int
  BY <1>1
<1>5. /\ SubSeq(s, 1, n) \in Seq(Nat)
      /\ Len(SubSeq(s, 1, n)) = IF 1 <= n THEN n - 1 + 1 ELSE 0
  BY <1>2, <1>4, SubSeqProperties
<1>6. /\ SubSeq(s, n + 1, l) \in Seq(Nat)
      /\ Len(SubSeq(s, n + 1, l)) = IF n + 1 <= l THEN l - (n + 1) + 1 ELSE 0
      /\ \A x \in 1 .. l - (n + 1) + 1 : SubSeq(s, n + 1, l)[x] = s[n + 1 + x - 1]
  BY <1>3, <1>4, SubSeqProperties
<1>7. SubSeq(s, 1, n) \o SubSeq(s, n + 1, l) = SubSeq(s, 1, l)
  <2>1. 1 \in 1 .. l + 1 /\ n \in 1 - 1 .. l /\ l \in n .. l
    BY <1>1
  <2> QED
    BY <1>1, <2>1, ConcatAdjacentSubSeq
<1>8. SubSeq(s, 1, l) = s
  BY <1>1, SubSeqFull
<1>9. (IF 1 <= n THEN n - 1 + 1 ELSE 0) = n /\ (IF n + 1 <= l THEN l - (n + 1) + 1 ELSE 0) = l - n
      /\ l - (n + 1) + 1 = l - n /\ \A x \in 1 .. l - n : n + 1 + x - 1 = n + x
  BY <1>1
<1>10. \A x \in 1 .. l - n : SubSeq(s, n + 1, l)[x] = s[n + x]
  BY <1>6, <1>9
<1> QED
  BY <1>1, <1>5, <1>6, <1>7, <1>8, <1>9, <1>10, Zenon DEF Cells

\* What TypeOK says of the cells and the messages.
LEMMA Typed ==
  ASSUME TypeOK
  PROVE  /\ header \in Cells /\ buffer \in Cells /\ wire \in Cells /\ left \in Cells
         /\ sent \in Messages /\ Len(sent) \in Nat /\ Stream \in Cells
         /\ header \o buffer \in Cells /\ header \o buffer \o wire \in Cells
         /\ Len(received) \in Nat /\ Begun \in Nat
<1>1. /\ header \in Cells /\ buffer \in Cells /\ wire \in Cells /\ left \in Cells
      /\ sent \in Messages
  BY DEF TypeOK, Cells, Messages
<1>2. Len(sent) \in Nat /\ Len(received) \in Nat /\ cut \in Nat
  BY DEF TypeOK, FramingAssumption
<1> QED
  BY <1>1, <1>2, CellFacts DEF Stream, Begun

-----------------------------------------------------------------------------
(* The sender *)

LEMMA FramesSame ==
  ASSUME NEW T, NEW b, NEW msgs, NEW more, NEW n, NEW i, Frames(T, b, msgs, n, i),
         \A k \in 1 .. n : more[k] = msgs[k]
  PROVE  Frames(T, b, more, n, i)
<1>1. \A k \in 1 .. n : b[k + 1] = b[k] + FrameLen(more[k])
  BY Zenon DEF Frames
<1>2. \A k, l \in 1 .. n + 1 : k <= l => b[k] <= b[l]
  BY Zenon DEF Frames
<1>3. \A k \in 1 .. n : \A j \in 1 .. FrameLen(more[k]) :
        b[k] + j <= Len(T) /\ (k = i => j = 1) => T[b[k] + j] = Frame(more[k])[j]
  <2>1. \A k \in 1 .. n : \A j \in 1 .. FrameLen(msgs[k]) :
          b[k] + j <= Len(T) /\ (k = i => j = 1) => T[b[k] + j] = Frame(msgs[k])[j]
    BY Zenon DEF Frames
  <2> QED
    BY <2>1, Zenon
<1> QED
  BY <1>1, <1>2, <1>3, Zenon DEF Frames


LEMMA NewLayout ==
  ASSUME NEW T \in Cells, NEW b \in Offsets,
         Frames(T, b, sent', Begun', cut'), After(T, b[Len(received') + 1], Stream'),
         cut' = 0 => Len(T) <= b[Begun' + 1],
         cut' = 0 /\ sender' = "open" => Len(T) = b[Begun' + 1],
         cut' # 0 => Len(T) <= b[Begun' + 1] + 1
  PROVE  InStep'
<1>1. Layout(T, b)'
  BY Zenon DEF Layout
<1> QED
  BY <1>1, Zenon DEF InStep

\* The cells of f are on the wire, or still to be sent.
OnWire(y, a, w, f, g) == y = (a \o (w \o f)) \o g
ToSend(y, a, w, f, g) == y = (a \o w) \o (f \o g)

LEMMA SendRegroups ==
  ASSUME NEW a \in Cells, NEW w \in Cells, NEW f \in Cells, NEW g \in Cells,
         NEW y, NEW z, OnWire(y, a, w, f, g), ToSend(z, a, w, f, g)
  PROVE  y = z
<1>1. a \o (w \o f) = (a \o w) \o f
  BY CellFacts
<1>2. PICK x \in Cells : x = a \o w
  BY CellFacts
<1>3. (x \o f) \o g = x \o (f \o g)
  BY CellFacts
<1> QED
  BY <1>1, <1>2, <1>3, Zenon DEF OnWire, ToSend

\* One send() only moves cells.
LEMMA SendInStep == ASSUME FramingInv, send PROVE InStep'
<1>1. PICK T, b : Layout(T, b)
  BY Zenon DEF FramingInv, InStep, send
<1>2. PICK h \in Cells, p \in Cells, w \in Cells, l \in Cells :
        h = header /\ p = buffer /\ w = wire /\ l = left
  BY Typed, Zenon DEF FramingInv
<1>4. PICK n \in 0 .. Len(l) : wire' = w \o SubSeq(l, 1, n) /\ left' = SubSeq(l, n + 1, Len(l))
  <2>1. Len(l) \in Nat /\ Room \in Int
    BY <1>2, Typed, Shapes DEF Room, FramingInv, FramingAssumption
  <2>2. \A n \in 1 .. Min2(Len(l), Room) : n \in 0 .. Len(l)
    BY <2>1 DEF Min2
  <2> QED
    BY <1>2, <2>2, Zenon DEF send
<1>5. PICK f \in Cells, g \in Cells : f = SubSeq(l, 1, n) /\ g = SubSeq(l, n + 1, Len(l)) /\ l = f \o g
  <2>1. /\ SubSeq(l, 1, n) \in Cells /\ SubSeq(l, n + 1, Len(l)) \in Cells
        /\ l = SubSeq(l, 1, n) \o SubSeq(l, n + 1, Len(l))
    BY SplitCells
  <2> QED
    BY <2>1
<1>6. Stream' = Stream
  <2>1. Stream = ((h \o p) \o w) \o (f \o g)
    BY <1>2, <1>5, Zenon DEF Stream
  <2>2. Stream' = ((h \o p) \o (w \o f)) \o g
    BY <1>2, <1>4, <1>5, Zenon DEF Stream, send
  <2>3. PICK a \in Cells : a = h \o p
    BY CellFacts, Zenon
  <2>4. OnWire(Stream', a, w, f, g) /\ ToSend(Stream, a, w, f, g)
    BY <2>1, <2>2, <2>3, Zenon DEF OnWire, ToSend
  <2> QED
    BY <2>4, SendRegroups, Zenon
<1>7. sent' = sent /\ cut' = cut /\ received' = received /\ sender' = sender /\ Begun' = Begun
  BY Zenon DEF send, Begun
<1> QED
  BY <1>1, <1>6, <1>7, NewLayout, Zenon DEF Layout

LEMMA FrameAdds ==
  ASSUME NEW T \in Cells, NEW m, Frame(m) \in Cells, Len(Frame(m)) = FrameLen(m)
  PROVE  Adds(T, T \o Frame(m), m)
<1>1. PICK F \in Seq(Nat) : F = Frame(m)
  BY DEF Cells
<1>2. /\ Len(T \o F) = Len(T) + Len(F) /\ \A i \in 1 .. Len(T) : (T \o F)[i] = T[i]
      /\ \A i \in 1 .. Len(F) : (T \o F)[Len(T) + i] = F[i]
  BY Joined DEF Cells
<1> QED
  BY <1>1, <1>2, Zenon DEF Adds, SameUpTo

\* A message is sent: its frame follows those before it.
LEMMA SendMessageInStep ==
  ASSUME FramingInv, NEW m \in Offered, send_message(m)
  PROVE  InStep'
<1>1. CASE receiver # "open"
  BY <1>1, Zenon DEF send_message, InStep
<1>2. CASE receiver = "open"
  <2>1. PICK T, b : Layout(T, b)
    BY <1>2, Zenon DEF FramingInv, InStep
  <2>2. m \in Message /\ Frame(m) \in Cells /\ Len(Frame(m)) = FrameLen(m) /\ FrameLen(m) \in Nat
    BY AcceptedIsMessage, MessageShape, FrameShape DEF send_message, Cells
  <2>3. PICK n \in Nat, more \in Messages :
          n = Len(sent) /\ more = sent' /\ Len(more) = n + 1
          /\ more[n + 1] = m /\ \A i \in 1 .. n : more[i] = sent[i]
    <3>1. sent \in Seq(Message) /\ sent' = Append(sent, m)
      BY DEF send_message, FramingInv, TypeOK
    <3>2. Append(sent, m) \in Seq(Message) /\ Len(Append(sent, m)) = Len(sent) + 1 /\ Append(sent, m)[Len(sent) + 1] = m
          /\ \A i \in 1 .. Len(sent) : Append(sent, m)[i] = sent[i]
      BY <2>2, <3>1
    <3>3. sent' \in Messages
      BY <3>1, <3>2, Zenon DEF Messages
    <3>4. Len(sent) \in Nat
      BY Typed, Zenon DEF FramingInv
    <3> QED
      BY <3>1, <3>2, <3>3, <3>4
  <2> PICK S \in Cells, F \in Cells : S = Stream /\ F = Frame(m)
    BY <2>2, Typed, Zenon DEF FramingInv
  <2>4. /\ cut = 0 /\ cut' = 0 /\ sender = "open" /\ received' = received /\ Begun = n
        /\ left = <<>> /\ left' = F
    BY <2>3, Zenon DEF send_message, Begun
  <2>5. /\ T \in Cells /\ b \in Offsets /\ Frames(T, b, sent, n, 0) /\ After(T, b[Len(received) + 1], S)
        /\ Len(T) = b[n + 1]
    BY <2>1, <2>3, <2>4, Zenon DEF Layout
  <2>6. Begun' = n + 1
    BY <2>3, <2>4, Zenon DEF Begun
  <2>7. Stream' = S \o F
    <3>1. Stream' = ((header \o buffer) \o wire) \o F
      BY <2>4, Zenon DEF send_message, Stream
    <3>2. S = ((header \o buffer) \o wire) \o <<>>
      BY <2>3, <2>4, Zenon DEF Stream
    <3>3. S = (header \o buffer) \o wire
      BY <3>2, Typed, CellFacts, Zenon DEF FramingInv
    <3> QED
      BY <3>1, <3>3, Zenon
  <2>8. PICK Z \in Cells : Z = T \o F
    BY <2>5, CellFacts, Zenon
  <2>9. Adds(T, Z, m)
    BY <2>2, <2>5, <2>8, FrameAdds, Zenon
  <2>10. PICK c \in Offsets :
           Frames(Z, c, more, n + 1, 0) /\ (\A i \in 1 .. n + 1 : c[i] = b[i]) /\ Len(Z) = c[n + 2]
    <3>1. OneMore(sent, more, n) /\ sent \in Messages
      BY <2>3, Typed, Zenon DEF OneMore, FramingInv
    <3>2. Adds(T, Z, more[n + 1])
      BY <2>3, <2>9, Zenon
    <3> QED
      BY <2>5, <3>1, <3>2, FramesExtended
  <2>11. PICK r \in Nat : r = Len(received) /\ r + 1 \in 1 .. n + 1
    <3>1. Len(received) \in Nat /\ Len(received) <= n
      BY <2>4, Typed, Zenon DEF FramingInv, Counts
    <3> QED
      BY <3>1
  <2>12. After(Z, c[r + 1], S \o F)
    <3>1. b[r + 1] \in Nat
      BY <2>5, <2>11, Shapes
    <3> QED
      BY <2>3, <2>5, <2>8, <2>10, <2>11, <3>1, AfterJoined, Zenon DEF Cells
  <2>13. Len(Z) <= c[n + 2] /\ n + 1 + 1 = n + 2
    BY <2>10, Shapes
  <2> QED
    BY <2>3, <2>4, <2>6, <2>7, <2>10, <2>11, <2>12, <2>13, NewLayout, Zenon
<1> QED
  BY <1>1, <1>2

\* What is still to be sent is dropped.
LEMMA Dropped ==
  ASSUME FramingInv, NEW T, NEW b, Layout(T, b)
  PROVE  \E U \in Cells :
           /\ Len(U) + Len(left) = Len(T) /\ SameUpTo(T, U, Len(U))
           /\ After(U, b[Len(received) + 1], header \o buffer \o wire)
<1>1. PICK P \in Cells, l \in Cells, o \in Nat, r \in Nat :
        P = header \o buffer \o wire /\ l = left /\ r = Len(received) /\ o = b[r + 1]
  <2>1. Len(received) \in Nat /\ b \in Offsets /\ header \o buffer \o wire \in Cells /\ left \in Cells
    BY Typed, Zenon DEF FramingInv, Layout
  <2>2. Len(received) + 1 \in Nat
    BY <2>1
  <2>3. b[Len(received) + 1] \in Nat
    BY <2>1, <2>2, Shapes, Zenon
  <2> QED
    BY <2>1, <2>3, Zenon
<1>2. T \in Cells /\ After(T, o, P \o l)
  BY <1>1, Zenon DEF Layout, Stream
<1>3. PICK U : U = SubSeq(T, 1, Len(T) - Len(l))
  OBVIOUS
<1>4. /\ After(U, o, P) /\ U \in Cells /\ Len(U) = Len(T) - Len(l)
      /\ \A x \in 1 .. Len(T) - Len(l) : U[x] = T[x]
  BY <1>2, <1>3, AfterCut, Zenon DEF Cells
<1>5. Len(U) + Len(l) = Len(T)
  BY <1>2, <1>4, Shapes
<1>6. SameUpTo(T, U, Len(U))
  BY <1>4, Zenon DEF SameUpTo
<1> QED
  BY <1>1, <1>4, <1>5, <1>6, Zenon

LEMMA CloseInStep == ASSUME FramingInv, close PROVE InStep'
<1>1. CASE receiver # "open"
  BY <1>1, Zenon DEF close, InStep
<1>2. CASE receiver = "open"
  <2>1. PICK T, b : Layout(T, b)
    BY <1>2, Zenon DEF FramingInv, InStep
  <2>2. PICK U \in Cells :
          /\ Len(U) + Len(left) = Len(T) /\ SameUpTo(T, U, Len(U))
          /\ After(U, b[Len(received) + 1], header \o buffer \o wire)
    BY <2>1, Dropped
  <2>3. /\ T \in Cells /\ b \in Offsets /\ Frames(T, b, sent, Begun, cut)
        /\ cut = 0 => Len(T) <= b[Begun + 1]
        /\ cut # 0 => Len(T) <= b[Begun + 1] + 1
    BY <2>1, Zenon DEF Layout
  <2>4. /\ sent' = sent /\ cut' = cut /\ received' = received /\ Begun' = Begun
        /\ sender' # "open"
    BY DEF close, Begun
  <2>5. Stream' = header \o buffer \o wire
    <3>1. Stream' = ((header \o buffer) \o wire) \o <<>>
      BY Zenon DEF close, Stream
    <3> QED
      BY <3>1, Typed, CellFacts, Zenon DEF FramingInv
  <2>6. PICK u, t, e, l \in Nat : u = Len(U) /\ t = Len(T) /\ e = b[Begun + 1] /\ l = Len(left)
    <3>1. Begun \in Nat /\ left \in Cells
      BY Typed, Zenon DEF FramingInv
    <3>2. Begun + 1 \in Nat
      BY <3>1
    <3> QED
      BY <2>3, <3>1, <3>2, Shapes
  <2>7. u <= t /\ (t <= e => u <= e) /\ (t <= e + 1 => u <= e + 1)
    <3>1. u + l = t
      BY <2>2, <2>6
    <3> QED
      BY <3>1
  <2>8. Frames(U, b, sent, Begun, cut)
    <3>1. Begun \in Nat /\ Len(U) <= Len(T)
      BY <2>6, <2>7, Typed, Zenon DEF FramingInv
    <3> QED
      BY <2>2, <2>3, <3>1, FramesCut, Zenon
  <2>9. (cut = 0 => Len(U) <= b[Begun + 1]) /\ (cut # 0 => Len(U) <= b[Begun + 1] + 1)
    BY <2>3, <2>6, <2>7, Zenon
  <2> QED
    BY <2>2, <2>3, <2>4, <2>5, <2>8, <2>9, NewLayout, Zenon
<1> QED
  BY <1>1, <1>2

\* The handler comes in the middle of a message: some of it was sent, not all.
LEMMA Interrupted ==
  ASSUME FramingInv, signal_handler
  PROVE  /\ cut = 0 /\ sender = "open" /\ Len(sent) \in Nat \ {0} /\ Len(left) >= 1
         /\ sent[Len(sent)] \in Message
         /\ Len(left) < FrameLen(sent[Len(sent)])
<1>1. /\ cut = 0 /\ sender = "open" /\ left # <<>> /\ sent # <<>> /\ left \in Seq(Nat) /\ sent \in Seq(Message)
  BY DEF signal_handler, FramingInv, Remains, TypeOK
<1>2. Len(sent) \in Nat \ {0} /\ sent[Len(sent)] \in Message /\ Len(left) \in Nat /\ Len(left) >= 1
  BY <1>1
<1>3. PICK F, f, l : F = Frame(sent[Len(sent)]) /\ f = FrameLen(sent[Len(sent)]) /\ l = Len(left)
  OBVIOUS
<1>4. F \in Seq(Nat) /\ f \in Nat /\ Len(F) = f /\ l \in Nat
  BY <1>2, <1>3, MessageShape, FrameShape
<1>5. l <= f /\ \A x \in 1 .. l : left[x] = F[f - l + x]
  BY <1>1, <1>3, <1>4, Zenon DEF FramingInv, Remains
<1>6. l # f
  <2>1. SUFFICES ASSUME l = f PROVE FALSE
    OBVIOUS
  <2>2. \A x \in 1 .. l : left[x] = F[x]
    BY <1>4, <1>5, <2>1
  <2>3. left = F
    BY <1>1, <1>3, <1>4, <2>1, <2>2, SeqEqual
  <2> QED
    BY <1>3, <2>3, Zenon DEF signal_handler
<1> QED
  BY <1>1, <1>2, <1>3, <1>4, <1>5, <1>6

LEMMA SignalInStep == ASSUME FramingInv, signal_handler PROVE InStep'
<1>1. CASE receiver # "open"
  BY <1>1, Zenon DEF signal_handler, InStep
<1>2. CASE receiver = "open"
  <2>1. PICK T, b : Layout(T, b)
    BY <1>2, Zenon DEF FramingInv, InStep
  <2>2. PICK V \in Cells :
          /\ Len(V) + Len(left) = Len(T) /\ SameUpTo(T, V, Len(V))
          /\ After(V, b[Len(received) + 1], header \o buffer \o wire)
    BY <2>1, Dropped
  <2>3. PICK n \in Nat \ {0}, F \in Cells : n = Len(sent) /\ F = Frame(Logout) /\ Len(F) = 2
    <3>1. Frame(Logout) \in Cells /\ Len(Frame(Logout)) = 2
      BY LogoutIsMessage, MessageShape, FrameShape DEF Cells
    <3> QED
      BY <3>1, Interrupted, Zenon
  <2>4. /\ cut = 0 /\ cut' = n /\ Begun = n /\ Begun' = n /\ n # 0 /\ received' = received
        /\ \A i \in 1 .. n : sent'[i] = sent[i]
    <3>1. sent' = Append(sent, Logout) /\ sent \in Seq(Message)
      BY DEF signal_handler, FramingInv, TypeOK
    <3>2. \A i \in 1 .. n : sent'[i] = sent[i]
      BY <2>3, <3>1, LogoutIsMessage
    <3> QED
      BY <2>3, <3>2, Zenon DEF signal_handler, Begun
  <2>5. /\ T \in Cells /\ b \in Offsets /\ Frames(T, b, sent, n, 0) /\ Len(T) = b[n + 1]
    BY <2>1, <2>4, Interrupted, Zenon DEF Layout
  <2>6. PICK U \in Cells : U = V \o F
    BY CellFacts, Zenon
  <2>7. After(U, b[Len(received) + 1], Stream')
    <3>1. PICK P \in Cells, o \in Nat, r \in Nat :
            P = header \o buffer \o wire /\ r = Len(received) /\ o = b[r + 1]
      <4>1. Len(received) \in Nat /\ header \o buffer \o wire \in Cells
        BY Typed, Zenon DEF FramingInv
      <4>2. Len(received) + 1 \in Nat
        BY <4>1
      <4>3. b[Len(received) + 1] \in Nat
        BY <2>5, <4>2, Shapes, Zenon
      <4> QED
        BY <4>1, <4>3, Zenon
    <3>2. After(U, o, P \o F)
      BY <2>2, <2>6, <3>1, AfterJoined, Zenon DEF Cells
    <3>3. Stream' = P \o F
      BY <2>3, <3>1, Zenon DEF Stream, signal_handler
    <3> QED
      BY <3>1, <3>2, <3>3, Zenon
  <2>8. PICK p, u, t, e, d, f, l \in Nat :
          p = Len(V) /\ u = Len(U) /\ t = Len(T) /\ e = b[n + 1] /\ d = b[n] /\ f = FrameLen(sent[n]) /\ l = Len(left)
    <3>1. n \in Nat /\ n + 1 \in Nat /\ left \in Cells
      BY Typed DEF FramingInv
    <3>2. FrameLen(sent[n]) \in Nat
      <4>1. n \in 1 .. Len(sent)
        BY <2>3
      <4> QED
        BY <4>1, Typed, Shapes, Zenon DEF FramingInv
    <3> QED
      BY <2>5, <3>1, <3>2, Shapes
  <2>9. p + l = t /\ t = e /\ e = d + f /\ u = p + 2 /\ l >= 1 /\ l < f
    <3>1. n \in 1 .. n
      OBVIOUS
    <3>2. b[n + 1] = b[n] + FrameLen(sent[n])
      BY <2>5, <3>1, Zenon DEF Frames
    <3>3. Len(U) = Len(V) + Len(F)
      BY <2>6, CellFacts, Zenon
    <3> QED
      BY <2>2, <2>3, <2>5, <2>8, <3>2, <3>3, Interrupted, Zenon
  <2>10. d + 1 <= p /\ p <= t /\ p <= u /\ u <= e + 1
    BY <2>9
  <2>11. SameUpTo(T, U, p)
    <3>1. \A x \in 1 .. Len(V) : U[x] = V[x]
      BY <2>6, Joined DEF Cells
    <3> QED
      BY <2>2, <2>8, <3>1, Zenon DEF SameUpTo
  <2>12. Frames(U, b, sent, n, n)
    <3>1. sent \in Messages
      BY Typed, Zenon DEF FramingInv
    <3> QED
      BY <2>3, <2>5, <2>8, <2>10, <2>11, <3>1, FramesInterrupted, Zenon
  <2>13. Frames(U, b, sent', n, n)
    BY <2>4, <2>12, FramesSame, Zenon
  <2> QED
    BY <2>4, <2>5, <2>7, <2>8, <2>10, <2>13, NewLayout, Zenon
<1> QED
  BY <1>1, <1>2

-----------------------------------------------------------------------------
(* The receiver *)

FromLeft(y, s, t, u) == y = (s \o t) \o u
FromRight(y, s, t, u) == y = s \o (t \o u)

LEMMA Joins ==
  ASSUME NEW s \in Cells, NEW t \in Cells, NEW u \in Cells,
         NEW y, NEW z, FromLeft(y, s, t, u), FromRight(z, s, t, u)
  PROVE  y = z
<1>1. (s \o t) \o u = s \o (t \o u)
  BY CellFacts
<1> QED
  BY <1>1, Zenon DEF FromLeft, FromRight

\* The cells of g have been read after those of a.
InHand(y, a, g, w, l) == y = ((a \o g) \o w) \o l

LEMMA ReadRegroups ==
  ASSUME NEW a \in Cells, NEW g \in Cells, NEW w \in Cells, NEW l \in Cells,
         NEW y, NEW z, OnWire(y, a, g, w, l), InHand(z, a, g, w, l)
  PROVE  y = z
<1>1. (a \o g) \o w = a \o (g \o w)
  BY CellFacts
<1> QED
  BY <1>1, Zenon DEF OnWire, InHand

\* recv() leaves H of the header, P of the payload and w under way.
Taken(H, P, w) ==
  /\ H \in Cells /\ P \in Cells /\ w \in Cells
  /\ Stream = H \o P \o w \o left
  /\ \/ Len(H) < HEADER_SIZE /\ P = <<>>
     \/ Len(H) = HEADER_SIZE /\ (P = <<>> \/ (~BadLength(H) /\ Len(P) <= PayloadLen(H)))

LEMMA HeaderCells == \A s \in Cells : Len(s) = 2 => s[1] \in Nat /\ s[2] \in Nat
<1> SUFFICES ASSUME NEW s \in Cells, Len(s) = 2 PROVE s[1] \in Nat /\ s[2] \in Nat
  OBVIOUS
<1>1. \A i \in 1 .. Len(s) : s[i] \in Nat
  BY ElementOfSeq DEF Cells
<1> QED
  BY <1>1

LEMMA RecvTakes ==
  ASSUME FramingInv, recv
  PROVE  \E H, P, w : Taken(H, P, w) /\ Collect(H, P) /\ wire' = w
<1>1. PICK h \in Cells, p \in Cells, v \in Cells, l \in Cells :
        h = header /\ p = buffer /\ v = wire /\ l = left
  BY Typed, Zenon DEF FramingInv
<1>2. \/ Len(h) < 2 /\ p = <<>>
      \/ Len(h) = 2 /\ ~BadLength(h) /\ Len(p) < PayloadLen(h)
  BY <1>1 DEF FramingInv, Waiting, recv
<1>3. PICK n \in 1 .. Min2(Wanted, Len(v)) :
        /\ IF Len(h) < 2 THEN Collect(h \o SubSeq(v, 1, n), p) ELSE Collect(h, p \o SubSeq(v, 1, n))
        /\ wire' = SubSeq(v, n + 1, Len(v))
  BY <1>1, Zenon DEF recv, HEADER_SIZE
<1>4. PICK a, q, z \in Nat : a = Len(h) /\ q = Len(p) /\ z = Len(v)
  BY Shapes
<1>5. /\ a < 2 => n \in 0 .. z /\ n <= 2 - a
      /\ a >= 2 => n \in 0 .. z /\ n <= PayloadLen(h) - q
  <2>1. Wanted = IF a < 2 THEN 2 - a ELSE PayloadLen(h) - q
    BY <1>1, <1>4 DEF Wanted
  <2>2. CASE a < 2
    BY <1>4, <2>1, <2>2 DEF Min2
  <2>3. CASE a >= 2
    <3>1. PayloadLen(h) \in Int
      <4>1. Len(h) = 2
        BY <1>2, <1>4, <2>3
      <4>2. h[1] \in Nat
        BY <4>1, HeaderCells, Zenon
      <4> QED
        BY <4>2 DEF PayloadLen
    <3>2. PICK k \in Int : k = PayloadLen(h) - q /\ Wanted = k
      BY <1>4, <2>1, <2>3, <3>1
    <3>3. n \in 1 .. Min2(k, z)
      BY <1>4, <3>2
    <3>4. n \in 0 .. z /\ n <= k
      BY <3>3 DEF Min2
    <3> QED
      BY <2>3, <3>2, <3>4
  <2> QED
    BY <1>4, <2>2, <2>3
<1>6. PICK g \in Cells, w \in Cells :
        g = SubSeq(v, 1, n) /\ w = SubSeq(v, n + 1, Len(v)) /\ Len(g) = n /\ v = g \o w
  <2>1. n \in 0 .. Len(v)
    BY <1>4, <1>5
  <2>2. /\ SubSeq(v, 1, n) \in Cells /\ SubSeq(v, n + 1, Len(v)) \in Cells
        /\ Len(SubSeq(v, 1, n)) = n
        /\ v = SubSeq(v, 1, n) \o SubSeq(v, n + 1, Len(v))
    BY <2>1, SplitCells
  <2> QED
    BY <2>2
<1>7. wire' = w
  BY <1>3, <1>6
<1>8. CASE a < 2
  <2>1. p = <<>>
    <3>1. Len(h) # 2
      BY <1>4, <1>8
    <3> QED
      BY <1>2, <3>1, Zenon
  <2>2. PICK H \in Cells : H = h \o g
    BY CellFacts, Zenon
  <2>3. Len(H) = a + n
    <3>1. Len(h \o g) = Len(h) + Len(g)
      BY CellFacts
    <3> QED
      BY <1>4, <1>6, <2>2, <3>1, Zenon
  <2>4. Stream = H \o p \o w \o left
    <3>1. Stream = ((h \o p) \o (g \o w)) \o l
      BY <1>1, <1>6, Zenon DEF Stream
    <3>2. h \o p = h /\ H \o p = H
      BY <2>1, <2>2, CellFacts, Zenon
    <3>3. OnWire(Stream, h, g, w, l)
      BY <3>1, <3>2, Zenon DEF OnWire
    <3>4. InHand(H \o p \o w \o left, h, g, w, l)
      BY <1>1, <2>2, <3>2, Zenon DEF InHand
    <3> QED
      BY <3>3, <3>4, ReadRegroups, Zenon
  <2>5. Len(H) < 2 \/ Len(H) = 2
    BY <1>5, <1>8, <2>3
  <2>6. Collect(H, p)
    BY <1>3, <1>4, <1>6, <1>8, <2>2, Zenon
  <2>7. Taken(H, p, w)
    BY <2>1, <2>4, <2>5, Zenon DEF Taken, HEADER_SIZE
  <2> QED
    BY <1>7, <2>6, <2>7, Zenon
<1>9. CASE a >= 2
  <2>1. a = 2 /\ Len(h) = 2 /\ ~(Len(h) < 2) /\ ~BadLength(h)
    BY <1>2, <1>4, <1>9
  <2>2. PICK P \in Cells : P = p \o g
    BY CellFacts, Zenon
  <2>3. Len(P) = q + n
    <3>1. Len(p \o g) = Len(p) + Len(g)
      BY CellFacts
    <3> QED
      BY <1>4, <1>6, <2>2, <3>1, Zenon
  <2>4. Stream = h \o P \o w \o left
    <3>1. Stream = ((h \o p) \o (g \o w)) \o l
      BY <1>1, <1>6, Zenon DEF Stream
    <3>2. PICK y \in Cells : y = h \o p
      BY CellFacts, Zenon
    <3>3. h \o P = y \o g
      <4>1. PICK x : x = h \o P
        OBVIOUS
      <4>2. FromLeft(y \o g, h, p, g) /\ FromRight(x, h, p, g)
        BY <2>2, <3>2, <4>1, Zenon DEF FromLeft, FromRight
      <4> QED
        BY <4>1, <4>2, Joins, Zenon
    <3>4. OnWire(Stream, y, g, w, l)
      BY <3>1, <3>2, Zenon DEF OnWire
    <3>5. InHand(h \o P \o w \o left, y, g, w, l)
      BY <1>1, <3>3, Zenon DEF InHand
    <3> QED
      BY <3>4, <3>5, ReadRegroups, Zenon
  <2>5. Len(P) <= PayloadLen(h)
    <3>1. h[1] \in Nat
      BY <2>1, HeaderCells, Zenon
    <3>2. PICK k \in Int : k = PayloadLen(h)
      BY <3>1 DEF PayloadLen
    <3> QED
      BY <1>5, <1>9, <2>3, <3>2
  <2>6. Collect(h, P)
    BY <1>3, <1>6, <2>1, <2>2, Zenon
  <2>7. Taken(h, P, w)
    BY <2>1, <2>4, <2>5, Zenon DEF Taken, HEADER_SIZE
  <2> QED
    BY <1>7, <2>6, <2>7, Zenon
<1> QED
  BY <1>4, <1>8, <1>9

\* After o cells, H and P have been read of T, and the rest has not.
ReadUpTo(T, o, H, P, w) ==
  /\ After(T, o + (Len(H) + Len(P)), w \o left)
  /\ Len(T) = o + (Len(H) + Len(P)) + Len(w \o left)
  /\ \A x \in 1 .. Len(H) : H[x] = T[o + x]
  /\ \A x \in 1 .. Len(P) : P[x] = T[o + (Len(H) + x)]

LEMMA ReadSoFar ==
  ASSUME FramingInv, NEW T \in Cells, NEW o \in Nat, After(T, o, Stream),
         NEW H, NEW P, NEW w, Taken(H, P, w)
  PROVE  ReadUpTo(T, o, H, P, w)
<1>1. H \in Cells /\ P \in Cells /\ w \in Cells /\ left \in Cells
  BY Typed, Zenon DEF FramingInv, Taken
<1>2. PICK A \in Cells, S \in Cells : A = H \o P /\ S = w \o left
  BY <1>1, CellFacts, Zenon
<1>3. Stream = A \o S
  <2>1. FromLeft(Stream, A, w, left) /\ FromRight(A \o S, A, w, left)
    BY <1>2, Zenon DEF Taken, FromLeft, FromRight
  <2> QED
    BY <1>1, <2>1, Joins, Zenon
<1>4. After(T, o, A \o S)
  BY <1>3, Zenon
<1>5. /\ After(T, o + Len(A), S) /\ Len(T) = o + Len(A) + Len(S)
      /\ \A x \in 1 .. Len(A) : A[x] = T[o + x]
  BY <1>4, AfterRead DEF Cells
<1>6. /\ Len(A) = Len(H) + Len(P) /\ \A i \in 1 .. Len(H) : A[i] = H[i]
      /\ \A i \in 1 .. Len(P) : A[Len(H) + i] = P[i]
  BY <1>1, <1>2, Joined DEF Cells
<1>7. PICK h, p \in Nat : h = Len(H) /\ p = Len(P)
  BY <1>1, Shapes
<1>8. (\A x \in 1 .. h : x \in 1 .. h + p) /\ (\A x \in 1 .. p : h + x \in 1 .. h + p)
  BY <1>7
<1>9. ASSUME NEW x \in 1 .. h PROVE H[x] = T[o + x]
  BY <1>5, <1>6, <1>7, <1>8, Zenon
<1>10. ASSUME NEW x \in 1 .. p PROVE P[x] = T[o + (h + x)]
  BY <1>5, <1>6, <1>7, <1>8, Zenon
<1> QED
  BY <1>2, <1>5, <1>6, <1>7, <1>9, <1>10, Zenon DEF ReadUpTo

\* H and P are message r + 1, unless it was interrupted, and w follows.
NextRead(T, b, H, P, w, r) ==
  /\ After(T, b[r + 2], w \o left)
  /\ r + 1 # cut => [type |-> H[2], data |-> P] = sent[r + 1]

\* The header that was read is that of the next message, and the payload too
\* unless this is the one that was interrupted.
LEMMA HeaderTells ==
  ASSUME FramingInv, NEW T, NEW b, Layout(T, b), NEW H, NEW P, NEW w, Taken(H, P, w), Len(H) = 2,
         NEW r \in Nat, r = Len(received)
  PROVE  /\ r + 1 \in 1 .. Begun /\ r + 1 \in 1 .. Len(sent)
         /\ ~BadLength(H) /\ PayloadLen(H) = Len(sent[r + 1].data) /\ Len(P) <= PayloadLen(H)
         /\ Len(P) = PayloadLen(H) => NextRead(T, b, H, P, w, r)
<1>1. /\ T \in Cells /\ b \in Offsets /\ Frames(T, b, sent, Begun, cut)
      /\ After(T, b[r + 1], Stream)
      /\ cut = 0 => Len(T) <= b[Begun + 1]
      /\ cut # 0 => Len(T) <= b[Begun + 1] + 1
  BY Zenon DEF Layout
<1>2. PICK n \in Nat : n = Begun /\ r <= n /\ n <= Len(sent)
  <2>1. Begun \in Nat /\ Len(sent) \in Nat /\ r <= Begun
    BY Typed, Zenon DEF FramingInv, Counts
  <2>2. Begun <= Len(sent)
    BY <2>1 DEF Begun, FramingInv, Counts
  <2> QED
    BY <2>1, <2>2
<1>3. P \in Cells /\ H \in Cells /\ w \o left \in Cells
  BY Typed, CellFacts, Zenon DEF Taken, FramingInv
<1>4. PICK o, t, p, q, e \in Nat :
        o = b[r + 1] /\ t = Len(T) /\ p = Len(P) /\ q = Len(w \o left) /\ e = b[n + 1]
  <2>1. r + 1 \in Nat /\ n + 1 \in Nat
    BY <1>2
  <2> QED
    BY <1>1, <1>3, <2>1, Shapes
<1>5. /\ After(T, o + (2 + p), w \o left) /\ t = o + (2 + p) + q
      /\ \A x \in 1 .. 2 : H[x] = T[o + x]
      /\ \A x \in 1 .. p : P[x] = T[o + (2 + x)]
  <2>1. T \in Cells /\ After(T, o, Stream)
    BY <1>1, <1>4, Zenon
  <2>2. ReadUpTo(T, o, H, P, w)
    BY <2>1, ReadSoFar, Zenon
  <2> QED
    BY <1>4, <2>2, Zenon DEF ReadUpTo
<1>6. r # n
  <2>1. SUFFICES ASSUME r = n PROVE FALSE
    OBVIOUS
  <2>2. o = e /\ (cut = 0 => t <= e) /\ (cut # 0 => t <= e + 1)
    BY <1>1, <1>2, <1>4, <2>1, Zenon
  <2> QED
    BY <1>5, <2>2
<1>7. PICK i \in 1 .. n : i = r + 1 /\ i \in 1 .. Len(sent) /\ i + 1 = r + 2
  <2>1. Len(sent) \in Nat
    BY Typed, Zenon DEF FramingInv
  <2> QED
    BY <1>2, <1>6, <2>1
<1>8. PICK m \in Message : m = sent[i]
  BY <1>7, Typed, ElementOfSeq DEF FramingInv, Messages
<1>9. PICK F, f, d : F = Frame(m) /\ f = FrameLen(m) /\ d = m.data
  OBVIOUS
<1>10. /\ d \in Seq(Nat) /\ Len(d) <= MAX_PAYLOAD /\ F[1] = f /\ F[2] = m.type
       /\ \A x \in 1 .. Len(d) : F[2 + x] = d[x]
       /\ m = [type |-> m.type, data |-> d]
       /\ f = 2 + Len(d) /\ Len(d) \in Nat
  <2>1. /\ m.type \in Nat /\ d \in Seq(Nat) /\ Len(d) \in Nat /\ Len(d) <= MAX_PAYLOAD
        /\ m = [type |-> m.type, data |-> d]
    BY <1>9, MessageShape
  <2>2. F[1] = f /\ F[2] = m.type /\ \A x \in 1 .. Len(d) : F[2 + x] = d[x]
    BY <1>9, <2>1, FrameShape
  <2>3. f = 2 + Len(d)
    BY <1>9 DEF FrameLen
  <2> QED
    BY <2>1, <2>2, <2>3, Zenon
<1>11. /\ b[i + 1] = o + f
       /\ \A j \in 1 .. f : o + j <= t /\ (i = cut => j = 1) => T[o + j] = F[j]
  BY <1>1, <1>2, <1>4, <1>7, <1>8, <1>9, Zenon DEF Frames
<1>12. PICK k \in Nat : k = Len(d) /\ f = 2 + k /\ k <= MAX_PAYLOAD
  BY <1>10
<1>13. H[1] = f
  <2>1. 1 \in 1 .. f /\ o + 1 <= t /\ 1 \in 1 .. 2
    BY <1>5, <1>12
  <2>2. T[o + 1] = F[1] /\ H[1] = T[o + 1]
    BY <1>5, <1>11, <2>1, Zenon
  <2> QED
    BY <1>10, <2>2, Zenon
<1>14. ~BadLength(H) /\ PayloadLen(H) = k /\ p <= k
  <2>1. ~BadLength(H) /\ PayloadLen(H) = k
    BY <1>12, <1>13 DEF BadLength, PayloadLen, FramingAssumption
  <2>2. P = <<>> \/ p <= k
    BY <1>4, <2>1 DEF Taken
  <2>3. P = <<>> => p = 0
    BY <1>4
  <2> QED
    BY <2>1, <2>2, <2>3
<1>15. ASSUME p = k
       PROVE  After(T, b[i + 1], w \o left) /\ (i # cut => [type |-> H[2], data |-> P] = m)
  <2>1. o + (2 + p) = o + f
    BY <1>12, <1>15
  <2>2. After(T, b[i + 1], w \o left)
    BY <1>5, <1>11, <2>1, Zenon
  <2>3. ASSUME i # cut PROVE [type |-> H[2], data |-> P] = m
    <3>1. \A j \in 1 .. f : j \in 1 .. f /\ o + j <= t
      BY <1>5, <1>12, <1>15
    <3>2. \A j \in 1 .. f : T[o + j] = F[j]
      BY <1>11, <2>3, <3>1, Zenon
    <3>3. 2 \in 1 .. f /\ 2 \in 1 .. 2 /\ \A x \in 1 .. p : 2 + x \in 1 .. f
      BY <1>12, <1>15
    <3>4. H[2] = m.type
      BY <1>5, <1>10, <3>2, <3>3, Zenon
    <3>5. \A x \in 1 .. p : P[x] = d[x]
      <4> SUFFICES ASSUME NEW x \in 1 .. p PROVE P[x] = d[x]
        OBVIOUS
      <4>1. P[x] = T[o + (2 + x)] /\ T[o + (2 + x)] = F[2 + x]
        BY <1>5, <3>2, <3>3, Zenon
      <4>2. F[2 + x] = d[x]
        BY <1>10, <1>12, <1>15, Zenon
      <4> QED
        BY <4>1, <4>2, Zenon
    <3>6. P = d
      <4>1. P \in Seq(Nat)
        BY <1>3 DEF Cells
      <4> QED
        BY <1>4, <1>10, <1>12, <1>15, <3>5, <4>1, SeqEqual, Zenon
    <3> QED
      BY <1>10, <3>4, <3>6, Zenon
  <2> QED
    BY <2>2, <2>3, Zenon
<1>16. Len(sent[r + 1].data) = k /\ m = sent[r + 1]
  BY <1>7, <1>8, <1>9, <1>12, Zenon
<1> QED
  BY <1>2, <1>4, <1>7, <1>14, <1>15, <1>16, Zenon DEF NextRead

\* recv_message waits for more, or returns a message.
GoesOn(H, P) ==
  /\ header' = H /\ buffer' = P /\ received' = received
  /\ \/ Len(H) < HEADER_SIZE /\ P = <<>>
     \/ Len(H) = HEADER_SIZE /\ ~BadLength(H) /\ Len(P) < PayloadLen(H)

Returns(H, P) ==
  /\ Len(H) = HEADER_SIZE /\ Len(P) = PayloadLen(H)
  /\ header' = <<>> /\ buffer' = <<>>
  /\ received' = Append(received, [type |-> H[2], data |-> P])

LEMMA RecvOutcome ==
  ASSUME FramingInv, recv
  PROVE  /\ receiver = "open" /\ receiver' = "open" /\ UNCHANGED <<sent, left, sender, cut>>
         /\ \E H, P, w : Taken(H, P, w) /\ wire' = w /\ (GoesOn(H, P) \/ Returns(H, P))
<1>1. receiver = "open" /\ UNCHANGED <<sent, left, sender, cut>>
  BY Zenon DEF recv
<1>2. PICK H, P, w : Taken(H, P, w) /\ Collect(H, P) /\ wire' = w
  BY RecvTakes
<1>3. PICK T, b : Layout(T, b)
  BY <1>1, Zenon DEF FramingInv, InStep
<1>4. PICK r \in Nat : r = Len(received)
  BY Typed, Zenon DEF FramingInv
<1>5. Len(H) = 2 => ~BadLength(H) /\ Len(P) <= PayloadLen(H) /\ PayloadLen(H) \in Int
  <2>1. SUFFICES ASSUME Len(H) = 2 PROVE ~BadLength(H) /\ Len(P) <= PayloadLen(H) /\ PayloadLen(H) \in Int
    OBVIOUS
  <2>2. ~BadLength(H) /\ Len(P) <= PayloadLen(H)
    BY <1>2, <1>3, <1>4, <2>1, HeaderTells, Zenon
  <2>3. H[1] \in Nat
    BY <1>2, <2>1, HeaderCells, Zenon DEF Taken
  <2>4. PayloadLen(H) \in Int
    BY <2>3 DEF PayloadLen
  <2> QED
    BY <2>2, <2>4, Zenon
<1>6. Len(P) \in Nat /\ Len(H) \in Nat /\ ((Len(H) < 2 /\ P = <<>>) \/ Len(H) = 2)
  BY <1>2, Shapes, Zenon DEF Taken, HEADER_SIZE
<1>7. CASE Len(H) < 2
  <2>1. receiver' = "open" /\ received' = received /\ header' = H /\ buffer' = P /\ P = <<>>
    <3>1. Len(H) # 2
      BY <1>6, <1>7
    <3> QED
      BY <1>2, <1>6, <1>7, <3>1, Zenon DEF Collect, HEADER_SIZE
  <2> QED
    BY <1>1, <1>2, <1>7, <2>1, Zenon DEF GoesOn, HEADER_SIZE
<1>8. CASE Len(H) = 2 /\ Len(P) = PayloadLen(H)
  <2>1. ~(Len(H) < 2)
    BY <1>8
  <2>2. /\ receiver' = "open" /\ header' = <<>> /\ buffer' = <<>>
        /\ received' = Append(received, [type |-> H[2], data |-> P])
    BY <1>2, <1>5, <1>8, <2>1, Zenon DEF Collect, HEADER_SIZE
  <2> QED
    BY <1>1, <1>2, <1>8, <2>2, Zenon DEF Returns, HEADER_SIZE
<1>9. CASE Len(H) = 2 /\ Len(P) # PayloadLen(H)
  <2>1. ~(Len(H) < 2) /\ Len(P) < PayloadLen(H)
    <3>1. PICK p, k \in Int : p = Len(P) /\ k = PayloadLen(H)
      BY <1>5, <1>6, <1>9
    <3>2. p <= k /\ p # k
      BY <1>5, <1>9, <3>1
    <3> QED
      BY <1>9, <3>1, <3>2
  <2>2. receiver' = "open" /\ header' = H /\ buffer' = P /\ received' = received
    BY <1>2, <1>5, <1>9, <2>1, Zenon DEF Collect, HEADER_SIZE
  <2> QED
    BY <1>1, <1>2, <1>5, <1>9, <2>1, <2>2, Zenon DEF GoesOn, HEADER_SIZE
<1> QED
  BY <1>6, <1>7, <1>8, <1>9, Zenon

LEMMA RecvInStep == ASSUME FramingInv, recv PROVE InStep'
<1>1. receiver = "open" /\ sent' = sent /\ left' = left /\ sender' = sender /\ cut' = cut /\ Begun' = Begun
  BY RecvOutcome, Zenon DEF Begun
<1>2. PICK T, b : Layout(T, b)
  BY <1>1, Zenon DEF FramingInv, InStep
<1>3. /\ T \in Cells /\ b \in Offsets /\ Frames(T, b, sent, Begun, cut)
      /\ After(T, b[Len(received) + 1], Stream)
      /\ cut = 0 => Len(T) <= b[Begun + 1]
      /\ cut = 0 /\ sender = "open" => Len(T) = b[Begun + 1]
      /\ cut # 0 => Len(T) <= b[Begun + 1] + 1
  BY <1>2, Zenon DEF Layout
<1>4. PICK H, P, w : Taken(H, P, w) /\ wire' = w /\ (GoesOn(H, P) \/ Returns(H, P))
  BY RecvOutcome
<1>5. CASE GoesOn(H, P)
  <2>1. Stream' = Stream /\ received' = received
    BY <1>1, <1>4, <1>5, Zenon DEF GoesOn, Taken, Stream
  <2> QED
    BY <1>1, <1>3, <2>1, NewLayout, Zenon
<1>6. CASE Returns(H, P)
  <2>1. PICK r \in Nat : r = Len(received) /\ Len(received') = r + 1 /\ r + 1 + 1 = r + 2
    <3>1. received \in Seq([type : Nat, data : Seq(Nat)]) /\ Len(received) \in Nat
      BY Typed DEF FramingInv, TypeOK
    <3>2. Len(received') = Len(received) + 1
      BY <1>6, <3>1 DEF Returns
    <3> QED
      BY <3>1, <3>2
  <2>2. After(T, b[r + 2], w \o left)
    <3>1. Len(H) = 2 /\ Len(P) = PayloadLen(H)
      BY <1>6, Zenon DEF Returns, HEADER_SIZE
    <3>2. Taken(H, P, w) /\ r = Len(received)
      BY <1>4, <2>1, Zenon
    <3>3. NextRead(T, b, H, P, w, r)
      BY <1>2, <3>1, <3>2, HeaderTells
    <3> QED
      BY <3>3, Zenon DEF NextRead
  <2>3. Stream' = w \o left
    <3>1. Stream' = ((<<>> \o <<>>) \o w) \o left
      BY <1>1, <1>4, <1>6, Zenon DEF Returns, Stream
    <3>2. w \in Cells /\ <<>> \o <<>> = <<>> /\ <<>> \o w = w
      BY <1>4, CellFacts, Zenon DEF Taken
    <3> QED
      BY <3>1, <3>2, Zenon
  <2>4. After(T, b[Len(received') + 1], Stream')
    BY <2>1, <2>2, <2>3, Zenon
  <2> QED
    BY <1>1, <1>3, <2>4, NewLayout, Zenon
<1> QED
  BY <1>4, <1>5, <1>6

-----------------------------------------------------------------------------
(* Each action keeps the invariant *)

LEMMA InitFramingInv == Init => FramingInv
<1> SUFFICES ASSUME Init PROVE FramingInv
  OBVIOUS
<1>1. /\ sent = <<>> /\ left = <<>> /\ sender = "open" /\ cut = 0 /\ wire = <<>>
      /\ header = <<>> /\ buffer = <<>> /\ receiver = "open" /\ received = <<>>
  BY DEF Init
<1>2. TypeOK
  BY <1>1 DEF TypeOK, FramingAssumption
<1>3. Counts /\ Remains /\ Waiting /\ GivesUpForAReason
  BY <1>1 DEF Counts, Remains, Waiting, GivesUpForAReason, Begun, FramingAssumption
<1>4. ReceivedAsSent
  BY <1>1 DEF ReceivedAsSent
<1>5. InStep
  <2>1. PICK T \in Cells, b \in Offsets : T = <<>> /\ \A i \in Nat : b[i] = 0
    <3>1. [j \in Nat |-> 0] \in Offsets /\ <<>> \in Cells /\ \A i \in Nat : [j \in Nat |-> 0][i] = 0
      BY DEF Offsets, Cells
    <3> QED
      BY <3>1
  <2>2. Frames(T, b, sent, 0, 0)
    <3>1. \A i, k \in 1 .. 0 + 1 : b[i] <= b[k]
      BY <2>1
    <3>2. 1 .. 0 = {}
      OBVIOUS
    <3> QED
      BY <3>1, <3>2, Zenon DEF Frames
  <2>3. Stream = <<>> /\ Len(Stream) = 0
    <3>1. ((<<>> \o <<>>) \o <<>>) \o <<>> = <<>>
      BY CellFacts, Zenon
    <3> QED
      BY <1>1, <3>1, CellFacts, Zenon DEF Stream
  <2>4. Len(T) = 0 /\ b[0 + 1] = 0 /\ Begun = 0
    BY <1>1, <2>1 DEF Begun
  <2>5. After(T, b[Len(received) + 1], Stream)
    BY <1>1, <2>3, <2>4 DEF After
  <2>6. Layout(T, b)
    BY <1>1, <2>2, <2>4, <2>5 DEF Layout
  <2> QED
    BY <2>6, Zenon DEF InStep
<1> QED
  BY <1>2, <1>3, <1>4, <1>5 DEF FramingInv

LEMMA SendMessageKeeps ==
  ASSUME FramingInv, NEW m \in Offered, send_message(m)
  PROVE  FramingInv'
<1>1. m \in Message /\ Frame(m) \in Seq(Nat) /\ Len(Frame(m)) \in Nat
  BY AcceptedIsMessage, MessageShape, FrameShape DEF send_message
<1>2. PICK n \in Nat : n = Len(sent) /\ n < MaxMessages
  BY Typed DEF FramingInv, send_message
<1>3. /\ sent \in Seq(Message) /\ sent' = Append(sent, m)
      /\ sent' \in Seq(Message) /\ Len(sent') = n + 1 /\ sent'[n + 1] = m
      /\ \A i \in 1 .. n : sent'[i] = sent[i]
  <2>1. sent \in Seq(Message) /\ sent' = Append(sent, m)
    BY DEF FramingInv, TypeOK, send_message
  <2> QED
    BY <1>1, <1>2, <2>1
<1>4. /\ cut = 0 /\ cut' = 0 /\ sender = "open" /\ sender' = "open" /\ left' = Frame(m)
      /\ received' = received /\ Len(received) <= n /\ Len(received) \in Nat
  <2>1. cut = 0 /\ Begun = n
    BY <1>2, Zenon DEF send_message, Begun
  <2> QED
    BY <2>1, Typed, Zenon DEF send_message, FramingInv, Counts
<1>5. TypeOK'
  <2>1. Len(sent') <= MaxMessages + 1
    BY <1>2, <1>3 DEF FramingAssumption
  <2> QED
    BY <1>1, <1>3, <1>4, <2>1 DEF TypeOK, FramingInv, send_message
<1>6. Counts'
  BY <1>2, <1>3, <1>4 DEF Counts, Begun, FramingAssumption
<1>7. Remains'
  <2>1. PICK F : F = Frame(m)
    OBVIOUS
  <2>2. \A x \in 1 .. Len(F) : Len(F) - Len(F) + x = x
    BY <1>1, <2>1
  <2>3. sent' # <<>> /\ sent'[Len(sent')] = m /\ left' = F /\ Len(F) <= Len(F)
    BY <1>1, <1>3, <1>4, <2>1
  <2>4. Frame(sent'[Len(sent')]) = F
    BY <2>1, <2>3, Zenon
  <2> QED
    BY <2>2, <2>3, <2>4, Zenon DEF Remains
<1>8. Waiting' /\ GivesUpForAReason'
  BY Zenon DEF send_message, Waiting, GivesUpForAReason, FramingInv
<1>9. ReceivedAsSent'
  <2>1. /\ \A k \in DOMAIN received : k <= n => received[k] = sent[k]
        /\ DOMAIN received = 1 .. Len(received)
    BY <1>2, <1>4 DEF FramingInv, TypeOK, ReceivedAsSent
  <2>2. \A k \in DOMAIN received : k <= n + 1 => received[k] = sent'[k]
    <3>1. \A k \in DOMAIN received : k \in 1 .. n /\ k <= n
      BY <1>4, <2>1
    <3> QED
      BY <1>3, <2>1, <3>1, Zenon
  <2>3. Len(received) <= n + 1
    BY <1>4
  <2> QED
    BY <1>3, <1>4, <2>2, <2>3, Zenon DEF ReceivedAsSent
<1>10. InStep'
  BY SendMessageInStep
<1> QED
  BY <1>5, <1>6, <1>7, <1>8, <1>9, <1>10 DEF FramingInv

LEMMA SendKeeps == ASSUME FramingInv, send PROVE FramingInv'
<1>1. /\ sent' = sent /\ cut' = cut /\ received' = received /\ sender = "open" /\ sender' = sender
      /\ receiver' = receiver /\ header' = header /\ buffer' = buffer /\ Begun' = Begun
  BY Zenon DEF send, Begun
<1>2. PICK v \in Cells, l \in Cells : v = wire /\ l = left
  BY Typed, Zenon DEF FramingInv
<1>3. PICK a, z \in Nat : a = Len(l) /\ z = Len(v) /\ z <= Capacity
  BY <1>2, Shapes DEF FramingInv, TypeOK
<1>4. PICK n \in 1 .. Min2(a, Capacity - z) : wire' = v \o SubSeq(l, 1, n) /\ left' = SubSeq(l, n + 1, Len(l))
  BY <1>2, <1>3, Zenon DEF send, Room
<1>5. n \in 0 .. a /\ z + n <= Capacity /\ n \in Nat
  BY <1>3, <1>4 DEF Min2, FramingAssumption
<1>6. /\ SubSeq(l, 1, n) \in Cells /\ SubSeq(l, n + 1, Len(l)) \in Cells
      /\ Len(SubSeq(l, 1, n)) = n /\ Len(SubSeq(l, n + 1, Len(l))) = Len(l) - n
      /\ \A x \in 1 .. Len(l) - n : SubSeq(l, n + 1, Len(l))[x] = l[n + x]
  BY <1>3, <1>5, SplitCells
<1>7. left' \in Cells /\ Len(left') = a - n /\ \A x \in 1 .. a - n : left'[x] = l[n + x]
  BY <1>3, <1>4, <1>6, Zenon
<1>8. wire' \in Cells /\ Len(wire') = z + n
  <2>1. PICK f \in Cells : f = SubSeq(l, 1, n) /\ Len(f) = n
    BY <1>6
  <2>2. v \o f \in Cells /\ Len(v \o f) = Len(v) + Len(f)
    BY CellFacts
  <2> QED
    BY <1>3, <1>4, <2>1, <2>2, Zenon
<1>9. TypeOK'
  <2>1. left' \in Seq(Nat) /\ wire' \in Seq(Nat) /\ Len(wire') <= Capacity
    BY <1>5, <1>7, <1>8 DEF Cells
  <2> QED
    BY <1>1, <2>1, Zenon DEF TypeOK, FramingInv
<1>10. Counts'
  <2>1. sender' # "gone"
    BY <1>1
  <2> QED
    BY <1>1, <2>1, Zenon DEF Counts, FramingInv
<1>11. Remains'
  <2>1. SUFFICES ASSUME cut = 0 PROVE Remains'
    BY <1>1, Zenon DEF Remains
  <2>2. left # <<>>
    BY Zenon DEF send
  <2>3. PICK F : F = Frame(sent[Len(sent)])
    OBVIOUS
  <2>4. sent # <<>> /\ Len(l) <= Len(F) /\ \A x \in 1 .. Len(l) : l[x] = F[Len(F) - Len(l) + x]
    BY <1>2, <2>1, <2>2, <2>3, Zenon DEF Remains, FramingInv
  <2>5. Len(F) \in Nat
    <3>1. sent \in Seq(Message)
      BY DEF FramingInv, TypeOK
    <3>2. sent[Len(sent)] \in Message
      BY <2>4, <3>1
    <3> QED
      BY <2>3, <3>2, MessageShape, FrameShape
  <2>6. PICK f, c \in Nat : f = Len(F) /\ c = a - n /\ a <= f /\ c <= f
    <3>1. PICK f \in Nat : f = Len(F) /\ a <= f
      BY <1>3, <2>4, <2>5, Zenon
    <3>2. PICK c \in Nat : c = a - n /\ c <= f
      BY <1>5, <3>1
    <3> QED
      BY <3>1, <3>2, Zenon
  <2>7. \A x \in 1 .. c : n + x \in 1 .. a /\ f - a + (n + x) = f - c + x
    BY <1>5, <2>6
  <2>8. \A x \in 1 .. c : left'[x] = F[f - c + x]
    <3> SUFFICES ASSUME NEW x \in 1 .. c PROVE left'[x] = F[f - c + x]
      OBVIOUS
    <3>1. left'[x] = l[n + x] /\ l[n + x] = F[f - a + (n + x)]
      BY <1>3, <1>7, <2>4, <2>6, <2>7, Zenon
    <3> QED
      BY <2>7, <3>1, Zenon
  <2>9. Frame(sent'[Len(sent')]) = F /\ Len(left') = c /\ sent' # <<>>
    BY <1>1, <1>7, <2>3, <2>4, <2>6, Zenon
  <2> QED
    BY <2>6, <2>8, <2>9, Zenon DEF Remains
<1>12. Waiting' /\ GivesUpForAReason' /\ ReceivedAsSent'
  BY <1>1, Zenon DEF Waiting, GivesUpForAReason, ReceivedAsSent, FramingInv
<1>13. InStep'
  BY SendInStep
<1> QED
  BY <1>9, <1>10, <1>11, <1>12, <1>13 DEF FramingInv

LEMMA SendFailsKeeps == ASSUME FramingInv, send_fails PROVE FramingInv'
<1>1. /\ receiver # "open" /\ left' = <<>>
      /\ UNCHANGED <<sent, sender, cut, wire, header, buffer, receiver, received>> /\ Begun' = Begun
  BY Zenon DEF send_fails, Begun
<1>2. TypeOK'
  BY <1>1 DEF TypeOK, FramingInv
<1>3. Counts' /\ Remains'
  BY <1>1, Zenon DEF Counts, Remains, FramingInv
<1>4. Waiting' /\ InStep'
  BY <1>1, Zenon DEF Waiting, InStep
<1>5. GivesUpForAReason' /\ ReceivedAsSent'
  BY <1>1, Zenon DEF GivesUpForAReason, ReceivedAsSent, FramingInv
<1> QED
  BY <1>2, <1>3, <1>4, <1>5 DEF FramingInv

LEMMA SignalKeeps == ASSUME FramingInv, signal_handler PROVE FramingInv'
<1>1. PICK n \in Nat \ {0} : n = Len(sent)
  BY Interrupted
<1>2. /\ sent \in Seq(Message) /\ sent' \in Seq(Message) /\ Len(sent') = n + 1
      /\ \A i \in 1 .. n : sent'[i] = sent[i]
  <2>1. sent \in Seq(Message) /\ sent' = Append(sent, Logout)
    BY DEF FramingInv, TypeOK, signal_handler
  <2> QED
    BY <1>1, <2>1, LogoutIsMessage
<1>3. /\ cut = 0 /\ cut' = n /\ n # 0 /\ sender' = "open" /\ received' = received /\ Begun = n /\ Begun' = n
      /\ n <= MaxMessages
  BY <1>1, Interrupted, Zenon DEF signal_handler, Begun, FramingInv, Counts
<1>4. Frame(Logout) \in Seq(Nat)
  BY LogoutIsMessage, MessageShape, FrameShape
<1>5. TypeOK'
  <2>1. cut' \in 0 .. MaxMessages /\ Len(sent') <= MaxMessages + 1
    BY <1>2, <1>3 DEF FramingAssumption
  <2> QED
    BY <1>2, <1>4, <2>1 DEF TypeOK, FramingInv, signal_handler
<1>6. Counts'
  <2>1. Len(received) <= n /\ sender' # "gone"
    BY <1>3 DEF Counts, FramingInv
  <2> QED
    BY <1>2, <1>3, <2>1, Zenon DEF Counts
<1>7. Remains'
  BY <1>3, Zenon DEF Remains
<1>8. Waiting'
  BY Zenon DEF Waiting, FramingInv, signal_handler
<1>9. GivesUpForAReason'
  BY <1>3, Zenon DEF GivesUpForAReason
<1>10. ReceivedAsSent'
  <2>1. /\ \A k \in DOMAIN received : k <= n => received[k] = sent[k]
        /\ Len(received) <= n /\ DOMAIN received = 1 .. Len(received) /\ Len(received) \in Nat
    BY <1>1, <1>3 DEF FramingInv, TypeOK, ReceivedAsSent
  <2>2. \A k \in DOMAIN received : k \in 1 .. n /\ k <= n
    BY <2>1
  <2>3. \A k \in DOMAIN received : received[k] = sent'[k]
    BY <1>2, <2>1, <2>2, Zenon
  <2>4. Len(received) = n => Len(received[n].data) = Len(sent'[n].data)
    <3>1. Len(received) = n => n \in DOMAIN received
      BY <2>1
    <3> QED
      BY <2>3, <3>1, Zenon
  <2> QED
    BY <1>3, <2>1, <2>3, <2>4, Zenon DEF ReceivedAsSent
<1>11. InStep'
  BY SignalInStep
<1> QED
  BY <1>5, <1>6, <1>7, <1>8, <1>9, <1>10, <1>11 DEF FramingInv

LEMMA CloseKeeps == ASSUME FramingInv, close PROVE FramingInv'
<1>1. /\ sender' = "gone" /\ left' = <<>>
      /\ UNCHANGED <<sent, cut, wire, header, buffer, receiver, received>> /\ Begun' = Begun
  BY Zenon DEF close, Begun
<1>2. TypeOK'
  BY <1>1 DEF TypeOK, FramingInv
<1>3. Counts' /\ Remains'
  BY <1>1, Zenon DEF Counts, Remains, FramingInv
<1>4. Waiting' /\ GivesUpForAReason' /\ ReceivedAsSent'
  BY <1>1, Zenon DEF Waiting, GivesUpForAReason, ReceivedAsSent, FramingInv
<1>5. InStep'
  BY CloseInStep
<1> QED
  BY <1>2, <1>3, <1>4, <1>5 DEF FramingInv

LEMMA EndsKeep == ASSUME FramingInv, recv_end \/ hang_up PROVE FramingInv'
<1>1. /\ receiver' # "open" /\ receiver' \in {"failed", "closed"} /\ (receiver' = "failed" => sender = "gone")
      /\ UNCHANGED <<sent, left, sender, cut, wire, header, buffer, received>> /\ Begun' = Begun
  BY DEF recv_end, hang_up, Begun
<1>2. TypeOK'
  BY <1>1 DEF TypeOK, FramingInv
<1>3. Counts' /\ Remains' /\ ReceivedAsSent'
  BY <1>1, Zenon DEF Counts, Remains, ReceivedAsSent, FramingInv
<1>4. Waiting' /\ GivesUpForAReason' /\ InStep'
  BY <1>1, Zenon DEF Waiting, GivesUpForAReason, InStep
<1> QED
  BY <1>2, <1>3, <1>4 DEF FramingInv

LEMMA RecvKeeps == ASSUME FramingInv, recv PROVE FramingInv'
<1>1. /\ receiver = "open" /\ receiver' = "open" /\ UNCHANGED <<sent, left, sender, cut>> /\ Begun' = Begun
  BY RecvOutcome, Zenon DEF Begun
<1>2. PICK H, P, w : Taken(H, P, w) /\ wire' = w /\ (GoesOn(H, P) \/ Returns(H, P))
  BY RecvOutcome
<1>3. PICK r \in Nat : r = Len(received) /\ received \in Seq([type : Nat, data : Seq(Nat)]) /\ r <= Begun
  BY Typed DEF FramingInv, TypeOK, Counts
<1>4. H \in Seq(Nat) /\ P \in Seq(Nat) /\ w \in Seq(Nat)
  BY <1>2 DEF Taken, Cells
<1>5. PICK T, b : Layout(T, b)
  BY <1>1, Zenon DEF FramingInv, InStep
<1>6. Len(w) <= Capacity
  <2>1. PICK n \in 1 .. Min2(Wanted, Len(wire)) : wire' = SubSeq(wire, n + 1, Len(wire))
    BY Zenon DEF recv
  <2>2. wire \in Cells /\ Len(wire) \in Nat /\ Len(wire) <= Capacity
    BY Typed, Shapes DEF FramingInv, TypeOK
  <2>3. n \in 0 .. Len(wire)
    <3>1. Wanted \in Int
      <4>1. header \in Cells /\ buffer \in Cells /\ Len(header) \in Nat /\ Len(buffer) \in Nat
        BY Typed, Shapes DEF FramingInv
      <4>2. Len(header) < 2 \/ Len(header) = 2
        BY <1>1 DEF FramingInv, Waiting
      <4>3. CASE Len(header) < 2
        BY <4>1, <4>3 DEF Wanted
      <4>4. CASE Len(header) = 2
        <5>1. header[1] \in Nat
          BY <4>1, <4>4, HeaderCells, Zenon
        <5> QED
          BY <4>1, <4>4, <5>1 DEF Wanted, PayloadLen
      <4> QED
        BY <4>2, <4>3, <4>4
    <3> QED
      BY <2>2, <3>1 DEF Min2
  <2>4. Len(wire') = Len(wire) - n
    BY <2>1, <2>2, <2>3, SplitCells, Zenon
  <2> QED
    BY <1>2, <2>2, <2>3, <2>4 DEF FramingAssumption
<1>7. CASE GoesOn(H, P)
  <2>1. header' = H /\ buffer' = P /\ received' = received
    BY <1>7 DEF GoesOn
  <2>2. Len(H) <= 2 /\ Len(P) <= MAX_PAYLOAD
    <3>1. CASE Len(H) < 2 /\ P = <<>>
      BY <1>4, <3>1 DEF FramingAssumption
    <3>2. CASE Len(H) = 2 /\ ~BadLength(H) /\ Len(P) < PayloadLen(H)
      <4>1. H[1] \in Nat
        BY <1>2, <3>2, HeaderCells, Zenon DEF Taken
      <4>2. PICK h, p \in Nat : h = H[1] /\ p = Len(P)
        BY <1>4, <4>1
      <4>3. h <= MAX_PAYLOAD + 2 /\ p < h - 2
        BY <3>2, <4>2 DEF BadLength, PayloadLen, FramingAssumption
      <4> QED
        BY <3>2, <4>2, <4>3 DEF FramingAssumption
    <3> QED
      BY <1>7, <3>1, <3>2 DEF GoesOn
  <2>3. TypeOK'
    BY <1>1, <1>2, <1>4, <1>6, <2>1, <2>2 DEF TypeOK, FramingInv
  <2>4. Counts' /\ Remains' /\ ReceivedAsSent'
    BY <1>1, <2>1, Zenon DEF Counts, Remains, ReceivedAsSent, FramingInv
  <2>5. Waiting'
    BY <1>7, Zenon DEF GoesOn, Waiting
  <2>6. GivesUpForAReason'
    BY <1>1 DEF GivesUpForAReason
  <2> QED
    BY <2>3, <2>4, <2>5, <2>6, RecvInStep DEF FramingInv
<1>8. CASE Returns(H, P)
  <2>1. PICK m : m = [type |-> H[2], data |-> P]
    OBVIOUS
  <2>2. Len(H) = 2 /\ Len(P) = PayloadLen(H) /\ header' = <<>> /\ buffer' = <<>> /\ received' = Append(received, m)
    BY <1>8, <2>1 DEF Returns
  <2>3. /\ r + 1 \in 1 .. Begun /\ Len(P) = Len(sent[r + 1].data)
        /\ r + 1 # cut => m = sent[r + 1]
    <3>1. Taken(H, P, w)
      BY <1>2
    <3>2. r + 1 \in 1 .. Begun /\ PayloadLen(H) = Len(sent[r + 1].data) /\ NextRead(T, b, H, P, w, r)
      BY <1>3, <1>5, <2>2, <3>1, HeaderTells, Zenon
    <3> QED
      BY <2>1, <2>2, <3>2, Zenon DEF NextRead
  <2>4. m \in [type : Nat, data : Seq(Nat)] /\ m.data = P
    <3>1. H[2] \in Nat
      BY <1>2, <2>2, HeaderCells, Zenon DEF Taken
    <3> QED
      BY <1>4, <2>1, <3>1
  <2>5. /\ received' \in Seq([type : Nat, data : Seq(Nat)]) /\ Len(received') = r + 1
        /\ received'[r + 1] = m /\ \A k \in 1 .. r : received'[k] = received[k]
        /\ DOMAIN received' = 1 .. r + 1
    <3>1. PICK R : R = [type : Nat, data : Seq(Nat)]
      OBVIOUS
    <3>2. received \in Seq(R) /\ m \in R
      BY <1>3, <2>4, <3>1
    <3>3. /\ Append(received, m) \in Seq(R) /\ Len(Append(received, m)) = r + 1
          /\ Append(received, m)[r + 1] = m /\ \A k \in 1 .. r : Append(received, m)[k] = received[k]
          /\ DOMAIN Append(received, m) = 1 .. r + 1
      BY <1>3, <3>2
    <3> QED
      BY <2>2, <3>1, <3>3
  <2>6. TypeOK'
    BY <1>1, <1>2, <1>4, <1>6, <2>2, <2>5 DEF TypeOK, FramingInv, FramingAssumption
  <2>7. Begun \in Nat /\ r + 1 <= Begun
    BY <2>3, Typed DEF FramingInv
  <2>8. Counts'
    BY <1>1, <2>5, <2>7, Zenon DEF Counts, FramingInv
  <2>9. Remains' /\ GivesUpForAReason'
    BY <1>1, Zenon DEF Remains, GivesUpForAReason, FramingInv
  <2>10. Waiting'
    <3>1. Len(header') < 2 /\ buffer' = <<>>
      BY <2>2
    <3> QED
      BY <3>1, Zenon DEF Waiting, HEADER_SIZE
  <2>11. ReceivedAsSent'
    <3>1. /\ \A k \in 1 .. r : k <= (IF cut = 0 THEN Len(sent) ELSE cut - 1) => received[k] = sent[k]
          /\ cut = 0 => Begun = Len(sent)
          /\ cut # 0 => Begun = cut
      <4>1. DOMAIN received = 1 .. r
        BY <1>3
      <4> QED
        BY <4>1, Zenon DEF FramingInv, ReceivedAsSent, Begun
    <3>2. cut \in Nat /\ r + 1 \in 1 .. r + 1 /\ \A k \in 1 .. r + 1 : k \in 1 .. r \/ k = r + 1
      BY DEF FramingInv, TypeOK, FramingAssumption
    <3>3. ASSUME NEW k \in 1 .. r + 1, k <= (IF cut = 0 THEN Len(sent) ELSE cut - 1) PROVE received'[k] = sent[k]
      <4>1. CASE k \in 1 .. r
        BY <2>5, <3>1, <3>3, <4>1, Zenon
      <4>2. CASE k = r + 1
        <5>1. k # cut
          BY <3>2, <3>3, <4>2
        <5> QED
          BY <2>3, <2>5, <4>2, <5>1, Zenon
      <4> QED
        BY <3>2, <4>1, <4>2
    <3>4. ASSUME cut # 0
          PROVE  r + 1 <= cut /\ (r + 1 = cut => Len(received'[cut].data) = Len(sent[cut].data))
      BY <2>3, <2>4, <2>5, <2>7, <3>1, <3>4, Zenon
    <3>5. cut = 0 => r + 1 <= Len(sent)
      BY <2>7, <3>1, Zenon
    <3> QED
      BY <1>1, <2>5, <3>3, <3>4, <3>5, Zenon DEF ReceivedAsSent
  <2> QED
    BY <2>6, <2>8, <2>9, <2>10, <2>11, RecvInStep DEF FramingInv
<1> QED
  BY <1>2, <1>7, <1>8

-----------------------------------------------------------------------------

LEMMA StutterKeeps == ASSUME FramingInv, UNCHANGED vars PROVE FramingInv'
<1>1. /\ sent' = sent /\ left' = left /\ sender' = sender /\ cut' = cut /\ wire' = wire
      /\ header' = header /\ buffer' = buffer /\ receiver' = receiver /\ received' = received
  BY DEF vars
<1>2. Begun' = Begun /\ Stream' = Stream
  BY <1>1, Zenon DEF Begun, Stream
<1>3. TypeOK' /\ Counts' /\ Remains' /\ Waiting' /\ ReceivedAsSent' /\ GivesUpForAReason'
  BY <1>1, <1>2, Zenon DEF FramingInv, TypeOK, Counts, Remains, Waiting, ReceivedAsSent, GivesUpForAReason
<1>4. InStep'
  BY <1>1, <1>2, Zenon DEF FramingInv, InStep, Layout
<1> QED
  BY <1>3, <1>4 DEF FramingInv

LEMMA NextKeeps == FramingInv /\ [Next]_vars => FramingInv'
<1> SUFFICES ASSUME FramingInv, [Next]_vars PROVE FramingInv'
  OBVIOUS
<1>1. CASE \E m \in Offered : send_message(m)
  BY <1>1, SendMessageKeeps
<1>2. CASE send
  BY <1>2, SendKeeps
<1>3. CASE send_fails
  BY <1>3, SendFailsKeeps
<1>4. CASE signal_handler
  BY <1>4, SignalKeeps
<1>5. CASE close
  BY <1>5, CloseKeeps
<1>6. CASE recv
  BY <1>6, RecvKeeps
<1>7. CASE recv_end \/ hang_up
  BY <1>7, EndsKeep
<1>8. CASE UNCHANGED vars
  BY <1>8, StutterKeeps
<1> QED
  BY <1>1, <1>2, <1>3, <1>4, <1>5, <1>6, <1>7, <1>8, Zenon DEF Next

LEMMA FramingAlways == Spec => []FramingInv
BY InitFramingInv, NextKeeps, PTL DEF Spec

\* What the variables hold, of any length.
THEOREM FramingTypes == Spec => []TypeOK
<1>1. FramingInv => TypeOK
  BY DEF FramingInv
<1> QED
  BY <1>1, FramingAlways, PTL

\* What recv_message returns is what send_message was given, in whatever pieces
\* send() took it and recv() brought it, up to a message that the signal handler
\* interrupted.
THEOREM MessagesAsSent == Spec => []ReceivedAsSent
<1>1. FramingInv => ReceivedAsSent
  BY DEF FramingInv
<1> QED
  BY <1>1, FramingAlways, PTL

\* recv_message gives up only on a sender that is gone or was interrupted.
THEOREM RefusedForAReason == Spec => []GivesUpForAReason
<1>1. FramingInv => GivesUpForAReason
  BY DEF FramingInv
<1> QED
  BY <1>1, FramingAlways, PTL
=============================================================================
