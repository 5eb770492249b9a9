------------------------------ MODULE MCActionLock ------------------------------
(* Small instances of ActionLock for TLC. *)
EXTENDS ActionLock
=============================================================================
