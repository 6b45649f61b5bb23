----------------------------- MODULE MCFriends -----------------------------
(* Instances of Friends for TLC.  Users are model values: nothing orders   *)
(* them, so they are interchangeable.                                      *)
EXTENDS Friends, TLC

CONSTANTS a, b, c
MCUsers == {a, b, c}
UserSymmetry == Permutations(MCUsers)

=============================================================================
