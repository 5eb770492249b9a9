----------------------------- MODULE MCDaemonStart -----------------------------
(* Small instances of DaemonStart for TLC. *)
EXTENDS DaemonStart, TLC

AnyOrder == Permutations(Daemons)
=============================================================================
