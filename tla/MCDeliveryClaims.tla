--------------------------- MODULE MCDeliveryClaims ---------------------------
(* Small instances of DeliveryClaims for TLC. *)
EXTENDS DeliveryClaims
=============================================================================
