----------------------------- MODULE MCFraming -----------------------------
(* Instances of Framing for TLC: the payload's cells look like lengths, one of *)
(* an empty message and one that no message has.                             *)
EXTENDS Framing

MCPayload == {2, 5}

=============================================================================
