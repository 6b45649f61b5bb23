---------------------------- MODULE MCMessaging ----------------------------
(* Instances of Messaging for TLC. *)
EXTENDS Messaging

MCPair == {<<1, 2>>, <<2, 1>>}

=============================================================================
