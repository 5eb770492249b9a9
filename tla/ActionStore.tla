------------------------------ MODULE ActionStore ------------------------------
(***************************************************************************)
(* What the action identity store of messaging/src/cli promises its users:  *)
(* an update is one atomic step on the whole store, whichever processes     *)
(* update it at the same time and wherever any of them dies.                *)
(***************************************************************************)
CONSTANT Updates    \* the calls of mutateActionStore
VARIABLE store      \* the updates the store holds

Init == store = {}

(* mutateActionStore, once it returned. *)
Update(u) == u \notin store /\ store' = store \cup {u}

Next == \E u \in Updates : Update(u)

Spec == Init /\ [][Next]_store
=============================================================================
