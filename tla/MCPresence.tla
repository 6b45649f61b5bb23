----------------------------- MODULE MCPresence -----------------------------
(* Instances of Presence for TLC. *)
EXTENDS Presence

\* Users 1 and 2 are friends, 3 is a friend of 1 only.
MCFriends == {<<1, 2>>, <<2, 1>>, <<1, 3>>, <<3, 1>>}
MCPair == {<<1, 2>>, <<2, 1>>}

=============================================================================
