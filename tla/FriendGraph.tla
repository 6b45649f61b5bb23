---------------------------- MODULE FriendGraph ----------------------------
(***************************************************************************)
(* What the friendship commands promise, without the table behind them:    *)
(* between two users there is nothing, or one request in one direction     *)
(* that is pending, accepted or rejected.  Friends implements this.        *)
(***************************************************************************)
CONSTANT Users

VARIABLE rel   \* <<u, v>> -> state of the request u has made to v

Answers == {"accepted", "rejected"}

Init == rel = [p \in Users \X Users |-> "none"]

\* u asks v, who are not related in either direction.
Ask(u, v) ==
  /\ u # v /\ rel[<<u, v>>] = "none" /\ rel[<<v, u>>] = "none"
  /\ rel' = [rel EXCEPT ![<<u, v>>] = "pending"]

\* v answers, or changes its answer to, the request of u.
Answer(u, v, a) ==
  /\ rel[<<u, v>>] # "none"
  /\ rel' = [rel EXCEPT ![<<u, v>>] = a]

\* Either side withdraws whatever is between u and v.
Forget(u, v) ==
  /\ rel[<<u, v>>] # "none" \/ rel[<<v, u>>] # "none"
  /\ rel' = [rel EXCEPT ![<<u, v>>] = "none", ![<<v, u>>] = "none"]

Next ==
  \E u, v \in Users :
    Ask(u, v) \/ Forget(u, v) \/ \E a \in Answers : Answer(u, v, a)

Spec == Init /\ [][Next]_rel

=============================================================================
