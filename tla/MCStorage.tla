----------------------------- MODULE MCStorage -----------------------------
(* Instances of Storage for TLC. *)
EXTENDS Storage, TLC

CONSTANTS p, q
MCPersons == {p, q}
PersonSymmetry == Permutations(MCPersons)

=============================================================================
