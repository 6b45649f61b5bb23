---------------------------- MODULE MCEventLoop ----------------------------
(* Small instances of EventLoop for TLC; the cfg files give the bounds. *)
EXTENDS EventLoop
=============================================================================
