---------------------------- MODULE DeliveryLease ----------------------------
(***************************************************************************)
(* What claims on deliveries promise whoever takes one: a lease is exclusive *)
(* while it lasts and never comes back once it is over, only the one in      *)
(* force delivers, and what a lease completed stays on record.  A step may    *)
(* touch many deliveries, each in one of these ways.                         *)
(***************************************************************************)
EXTENDS Naturals

CONSTANT Deliveries

VARIABLES
    granted,    \* how many leases on the delivery there have been
    holder,     \* the number of the one in force, 0 for none
    completed,  \* the numbers of those that completed it
    delivered   \* whether it counts as delivered

vars == <<granted, holder, completed, delivered>>

Init ==
    /\ granted = [d \in Deliveries |-> 0]
    /\ holder = [d \in Deliveries |-> 0]
    /\ completed = [d \in Deliveries |-> {}]
    /\ delivered = [d \in Deliveries |-> FALSE]

(* A lease is granted when none is in force, with a number of its own; what   *)
(* was delivered before is to be delivered again.                            *)
Grant(d) ==
    /\ holder[d] = 0
    /\ granted'[d] = granted[d] + 1
    /\ holder'[d] = granted[d] + 1
    /\ completed'[d] = completed[d]
    /\ ~delivered'[d]

(* The lease in force delivers, and is over with that.                       *)
Complete(d) ==
    /\ holder[d] # 0
    /\ granted'[d] = granted[d]
    /\ holder'[d] = 0
    /\ completed'[d] = completed[d] \cup {holder[d]}
    /\ delivered'[d]

(* The lease in force runs out, is given back, fails or is taken away.        *)
Lose(d) ==
    /\ holder[d] # 0
    /\ granted'[d] = granted[d]
    /\ holder'[d] = 0
    /\ completed'[d] = completed[d]
    /\ delivered'[d] => delivered[d]

(* Nothing happens to its leases; it may be routed, or fail.                 *)
Rest(d) ==
    /\ granted'[d] = granted[d]
    /\ holder'[d] = holder[d]
    /\ completed'[d] = completed[d]
    /\ delivered'[d] => delivered[d]

Next == \A d \in Deliveries : Grant(d) \/ Complete(d) \/ Lose(d) \/ Rest(d)

Spec == Init /\ [][Next]_vars
=============================================================================
