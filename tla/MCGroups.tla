------------------------------ MODULE MCGroups ------------------------------
(* Instances of Groups for TLC.  A cfg cannot hold a negative number. *)
EXTENDS Groups

OneGroup == {1}
GroupsAndDeleted == {1, 2, NoGroup}

=============================================================================
