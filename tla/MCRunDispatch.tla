---------------------------- MODULE MCRunDispatch ----------------------------
(* RunDispatch for TLC: dispatchers are interchangeable.                     *)
EXTENDS RunDispatch, TLC
Symmetry == Permutations(Dispatchers)
=============================================================================
