------------------------- MODULE MCObligationGraph -------------------------
(* Small instances of ObligationGraph for TLC. *)
EXTENDS ObligationGraph, TLC

CONSTANTS worker, helper, spare, pWorker, pHelper

\* `spare` is on the worker's principal: the replacement a resume may mint.
MCPrincipalOf == [e \in Endpoints |-> IF e = helper THEN pHelper ELSE pWorker]

\* Ids are interchangeable: it is enough to hand them out in order, the root
\* of an opening before its attempt.
IdsInOrder ==
    \A n \in Nodes : Unused(n) /\ role'[n] # "none" =>
        /\ \A m \in Nodes : m < n => role'[m] # "none"
        /\ role'[n] = "attempt" /\ Unused(parent'[n]) => parent'[n] < n

\* Bounds of the recovery run: roots and attempts only, at most two roots; and
\* of the states with a report in flight, those in which the inheritance of a
\* recovery could touch the staged root: both roots open and unmarked, one
\* report, room for an attempt of each.
TwoRoots ==
    /\ \A n \in Nodes : role[n] # "delegation"
    /\ Cardinality({n \in Nodes : role[n] = "root"}) <= 2
    /\ report # {} =>
          /\ Cardinality(report) = 1
          /\ Cardinality({n \in Nodes : Unused(n)}) >= 2
          /\ \A n \in Nodes : role[n] = "root" => Open(n) /\ n \notin attention

\* Bound of the reports run: the replacement of an endpoint and a staged
\* report are looked at apart.
ReplacedOrStaged == report # {} => \A e \in Endpoints \ Initial : epState[e] = "absent"
=============================================================================
