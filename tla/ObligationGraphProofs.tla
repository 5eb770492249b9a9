------------------------- MODULE ObligationGraphProofs -------------------------
(***************************************************************************)
(* What holds of the work graph for any number of rows, endpoints, reports  *)
(* and generations.  First the shape every transaction keeps (Sound), then  *)
(* each property of ObligationGraph with the lemmas on the two steps that   *)
(* rewrite many rows at once, a close (CloseRows) and a recovery            *)
(* (RecoverRows), and last the theorems of the specification.               *)
(***************************************************************************)
EXTENDS ObligationGraph, TLAPS

(* A replacement chain ends, and only endpoints that exist have a process.   *)
LineageEnds ==
    /\ \A e \in Endpoints : succ[e] # {} => \E x \in succ[e] : succ[x] = {}
    /\ \A e \in joined : epState[e] # "absent"

(* The rows: an unused one is blank, a root is nobody's child and held by    *)
(* nobody, an attempt hangs under its root, a delegation under a row that    *)
(* somebody holds, and exactly the delegations are watched.                  *)
ShapeOf(n) ==
    /\ role[n] = "none" => status[n] = "none" /\ holder[n] = Null /\ anc[n] = {}
    /\ status[n] = "none" => role[n] = "none"
    /\ role[n] = "root" => anc[n] = {} /\ holder[n] = Null
    /\ role[n] = "attempt" =>
          parent[n] \in Nodes /\ role[parent[n]] = "root" /\ anc[n] = {parent[n]}
    /\ role[n] = "delegation" =>
          parent[n] \in Nodes /\ holder[parent[n]] \in Endpoints
    /\ watch[n] = "none" <=> role[n] # "delegation"
    /\ \A m \in anc[n] : role[m] # "none"
Shape == \A n \in Nodes : ShapeOf(n)

ReportsAreOfRoots == \A d \in report : role[d.root] = "root"

Sound == TypeOK /\ LineageEnds /\ Shape /\ ReportsAreOfRoots

-----------------------------------------------------------------------------
(* The newest replacement of an endpoint exists and has no replacement itself. *)
LEMMA NewestEnds ==
    ASSUME TypeOK, LineageEnds, NEW e \in Endpoints
    PROVE  Newest(e) \in Endpoints /\ succ[Newest(e)] = {}
<1>1. CASE succ[e] = {}
  BY <1>1 DEF Newest
<1>2. CASE succ[e] # {}
  <2>1. PICK x \in succ[e] : succ[x] = {}
    BY <1>2 DEF LineageEnds
  <2>2. succ[e] \subseteq Endpoints
    BY DEF TypeOK
  <2> QED
    BY <1>2, <2>1, <2>2 DEF Newest
<1> QED
  BY <1>1, <1>2

(* Only the endpoint commands touch endpoints and their lineage.              *)
LEMMA LineageSame ==
    ASSUME TypeOK, [Next]_vars
    PROVE  UNCHANGED lineage \/ EndpointStep
<1>1. ASSUME NEW r \in Nodes, NEW a \in Nodes, NEW e \in Endpoints \cup {Null},
             NEW t \in Endpoints, NEW m \in Modes,
             OpenWork(r, a, e, t, m)
      PROVE  UNCHANGED lineage \/ EndpointStep
  BY <1>1 DEF OpenWork
<1>2. ASSUME NEW d \in Nodes, NEW p \in Nodes, NEW e \in Endpoints,
             NEW to \in Endpoints \cup Principals,
             OfferHandoff(d, p, e, to)
      PROVE  UNCHANGED lineage \/ EndpointStep
  BY <1>2 DEF OfferHandoff
<1>3. ASSUME NEW d \in Nodes, NEW e \in Endpoints,
             AcceptHandoff(d, e)
      PROVE  UNCHANGED lineage \/ EndpointStep
  BY <1>3 DEF AcceptHandoff
<1>4. ASSUME NEW d \in Nodes, NEW e \in Endpoints,
             DeclineHandoff(d, e)
      PROVE  UNCHANGED lineage \/ EndpointStep
  BY <1>4 DEF DeclineHandoff
<1>5. ASSUME NEW n \in Nodes, NEW e \in Endpoints,
             CloseFulfilled(n, e)
      PROVE  UNCHANGED lineage \/ EndpointStep
  BY <1>5 DEF CloseFulfilled
<1>6. ASSUME NEW n \in Nodes, NEW e \in Endpoints,
             CloseCancelled(n, e)
      PROVE  UNCHANGED lineage \/ EndpointStep
  BY <1>6 DEF CloseCancelled
<1>7. ASSUME NEW r \in Nodes, NEW e \in Endpoints, NEW kind \in {"fulfilled", "cancelled"},
             NEW fan \in {"endpoint", "route"}, NEW copies \in SUBSET Copies,
             NEW m \in 1..MaxReports,
             StageTerminal(r, e, kind, fan, copies, m)
      PROVE  UNCHANGED lineage \/ EndpointStep
  BY <1>7 DEF StageTerminal
<1>8. ASSUME NEW d \in report,
             CompleteDelivered(d)
      PROVE  UNCHANGED lineage \/ EndpointStep
  BY <1>8 DEF CompleteDelivered
<1>9. ASSUME NEW d \in report,
             CompleteFailed(d)
      PROVE  UNCHANGED lineage \/ EndpointStep
  BY <1>9 DEF CompleteFailed
<1>10. ASSUME NEW d \in report,
             ClaimAgain(d)
      PROVE  UNCHANGED lineage \/ EndpointStep
  BY <1>10 DEF ClaimAgain
<1>11. ASSUME NEW d \in Nodes,
             ExpireOffer(d)
      PROVE  UNCHANGED lineage \/ EndpointStep
  BY <1>11 DEF ExpireOffer
<1>12. ASSUME NEW e \in Endpoints, NEW lost \in SUBSET Nodes,
             CustodyLost(e, lost)
      PROVE  UNCHANGED lineage \/ EndpointStep
  BY <1>12 DEF CustodyLost
<1>13. ASSUME NEW r \in Nodes, NEW e \in Endpoints, NEW switch \in BOOLEAN,
             NEW at \in [{r} \cup Stranded(r, e) -> {n \in Nodes : Unused(n)}],
             Recover(r, e, at, switch)
      PROVE  UNCHANGED lineage \/ EndpointStep
  BY <1>13 DEF Recover
<1>14. ASSUME NEW e \in Endpoints,
             Register(e)
      PROVE  UNCHANGED lineage \/ EndpointStep
  BY <1>14 DEF EndpointStep
<1>15. ASSUME NEW e \in Endpoints,
             CloseEndpoint(e)
      PROVE  UNCHANGED lineage \/ EndpointStep
  BY <1>15 DEF EndpointStep
<1>16. ASSUME NEW e \in Endpoints, NEW x \in Endpoints,
             Replace(e, x)
      PROVE  UNCHANGED lineage \/ EndpointStep
  BY <1>16 DEF EndpointStep
<1>17. ASSUME NEW r \in Nodes,
             LaunchFailed(r)
      PROVE  UNCHANGED lineage \/ EndpointStep
  BY <1>17 DEF LaunchFailed
<1>18. ASSUME UNCHANGED vars PROVE UNCHANGED lineage \/ EndpointStep
  BY <1>18 DEF vars, lineage
<1> QED
  BY <1>1, <1>2, <1>3, <1>4, <1>5, <1>6, <1>7, <1>8, <1>9, <1>10,
     <1>11, <1>12, <1>13, <1>14, <1>15, <1>16, <1>17, <1>18
  DEF Next, Commit, Deliver, Reconcile, Recovery, RecoveryRetry, RecoverySwitch,
      RecoverAny, EndpointStep

(* Every step keeps the ends of the replacement chains.                       *)
LEMMA LineageStep ==
    ASSUME TypeOK, LineageEnds, [Next]_vars
    PROVE  LineageEnds'
<1>1. CASE UNCHANGED lineage
  BY <1>1 DEF lineage, LineageEnds
<1>2. ASSUME NEW e \in Endpoints, Register(e) PROVE LineageEnds'
  BY <1>2 DEF Register, TypeOK, LineageEnds
<1>3. ASSUME NEW e \in Endpoints, CloseEndpoint(e) PROVE LineageEnds'
  BY <1>3 DEF CloseEndpoint, TypeOK, LineageEnds
<1>4. ASSUME NEW e \in Endpoints, NEW x \in Endpoints, Replace(e, x) PROVE LineageEnds'
  <2>1. e # x /\ succ[x] = {} /\ succ[e] = {}
    BY <1>4 DEF Replace, Acts, LineageEnds
  <2>2. \A p \in Endpoints : succ'[p] = IF p = e \/ e \in succ[p] THEN succ[p] \cup {x} ELSE succ[p]
    BY <1>4 DEF Replace
  <2>3. succ'[x] = {}
    BY <2>1, <2>2
  <2>4. ASSUME NEW p \in Endpoints, succ'[p] # {} PROVE \E y \in succ'[p] : succ'[y] = {}
    <3>1. CASE p = e \/ e \in succ[p]
      BY <2>2, <2>3, <3>1
    <3>2. CASE ~(p = e \/ e \in succ[p])
      <4>1. PICK y \in succ[p] : succ[y] = {}
        BY <2>2, <2>4, <3>2 DEF LineageEnds
      <4>2. y \in Endpoints /\ y # e
        BY <3>2, <4>1 DEF TypeOK
      <4> QED
        BY <2>2, <3>2, <4>1, <4>2
    <3> QED
      BY <3>1, <3>2
  <2>5. \A d \in joined' : epState'[d] # "absent"
    BY <1>4 DEF Replace, TypeOK, LineageEnds
  <2> QED
    BY <2>4, <2>5 DEF LineageEnds
<1> QED
  BY <1>1, <1>2, <1>3, <1>4, LineageSame DEF EndpointStep, LaunchFailed

-----------------------------------------------------------------------------
(* The roots a recovery of r gives to e a new attempt of.                     *)
RootsOfRecovery(r, e) == {r} \cup Stranded(r, e)

(* A recovery row by row: every recovered or inherited root s is open, gets  *)
(* the unused row at[s] as its only open attempt, of a generation of its     *)
(* own; the other rows keep everything but, if they were open and are no     *)
(* roots, their status.                                                      *)
LEMMA RecoverRows ==
    ASSUME TypeOK, Shape, NEW r \in Nodes, NEW e \in Endpoints, NEW switch \in BOOLEAN,
           NEW at \in [{r} \cup Stranded(r, e) -> {n \in Nodes : Unused(n)}],
           Recover(r, e, at, switch)
    PROVE  /\ \A s \in RootsOfRecovery(r, e) :
                 /\ s \in Nodes /\ role[s] = "root" /\ Open(s)
                 /\ at[s] \in Nodes /\ Unused(at[s])
                 /\ role'[at[s]] = "attempt" /\ status'[at[s]] = "open"
                 /\ parent'[at[s]] = s /\ anc'[at[s]] = {s} /\ holder'[at[s]] = e
                 /\ gen'[at[s]] \in Nat
                 /\ \A b \in Attempts(s) : gen[b] < gen'[at[s]]
                 /\ \A b \in OpenAttempts(s) : status'[b] = "superseded"
           /\ \A n \in Nodes : (\A s \in RootsOfRecovery(r, e) : at[s] # n) =>
                 /\ role'[n] = role[n] /\ parent'[n] = parent[n] /\ anc'[n] = anc[n]
                 /\ gen'[n] = gen[n] /\ holder'[n] = holder[n]
                 /\ \/ status'[n] = status[n]
                    \/ /\ status'[n] = "superseded" /\ Open(n)
                       /\ role[n] \in {"attempt", "delegation"}
                       /\ (role[n] = "attempt" \/ (switch /\ n \in Descendants(r)))
                       /\ role[n] = "attempt" => parent[n] \in RootsOfRecovery(r, e)
                 /\ switch /\ Open(n) /\ n \in Descendants(r) => status'[n] = "superseded"
           /\ role' \in [Nodes -> {"none", "root", "attempt", "delegation"}]
           /\ parent' \in [Nodes -> Nodes \cup {Null}]
           /\ anc' \in [Nodes -> SUBSET Nodes]
           /\ gen' \in [Nodes -> Nat]
           /\ holder' \in [Nodes -> Endpoints \cup {Null}]
           /\ status' \in [Nodes -> {"none", "open"} \cup Resolutions]
<1> DEFINE roots == RootsOfRecovery(r, e)
           new == {at[s] : s \in roots}
           rootOf(n) == CHOOSE s \in roots : at[s] = n
           sup == SupersededBy(r, Stranded(r, e), switch)
<1>1. /\ role[r] = "root" /\ Open(r)
      /\ \A s, t \in roots : at[s] = at[t] => s = t
      /\ \A s \in roots : \E g \in 1..MaxGen : IsNextGen(s, g)
      /\ Admit(roots, at, e, sup)
  BY DEF Recover, RootsOfRecovery
<1>2. ASSUME NEW s \in roots
      PROVE  s \in Nodes /\ role[s] = "root" /\ Open(s) /\ at[s] \in Nodes /\ Unused(at[s])
  BY <1>1 DEF RootsOfRecovery, Stranded
<1>3. ASSUME NEW s \in roots PROVE rootOf(at[s]) = s
  BY <1>1
<1>4. ASSUME NEW s \in roots
      PROVE  /\ NextGen(s) \in Nat
             /\ \A b \in Attempts(s) : gen[b] < NextGen(s)
  <2>1. NextGen(s) \in 1..MaxGen /\ IsNextGen(s, NextGen(s))
    BY <1>1 DEF NextGen
  <2> QED
    BY <2>1, ConstantsAssumption DEF IsNextGen
<1>5. ASSUME NEW s \in roots, NEW b \in OpenAttempts(s) PROVE b \in sup /\ Open(b) /\ b \in Nodes
  <2>1. b \in Descendants(s)
    BY <1>2 DEF OpenAttempts, Attempts, Descendants, Shape, ShapeOf
  <2> QED
    BY <2>1 DEF RootsOfRecovery, SupersededBy, OpenAttempts, Attempts
<1>6. ASSUME NEW n \in sup
      PROVE  /\ n \in Nodes /\ Open(n) /\ role[n] \in {"attempt", "delegation"}
             /\ role[n] = "attempt" \/ (switch /\ n \in Descendants(r))
             /\ role[n] = "attempt" => parent[n] \in roots
  BY DEF SupersededBy, Descendants, OpenAttempts, Attempts, TypeOK, Shape, ShapeOf, Open,
         RootsOfRecovery
<1>7. ASSUME NEW n \in Nodes, switch, Open(n), n \in Descendants(r) PROVE n \in sup
  BY <1>7 DEF SupersededBy
<1>8. /\ role' = [n \in Nodes |-> IF n \in new THEN "attempt" ELSE role[n]]
      /\ parent' = [n \in Nodes |-> IF n \in new THEN rootOf(n) ELSE parent[n]]
      /\ anc' = [n \in Nodes |-> IF n \in new THEN {rootOf(n)} ELSE anc[n]]
      /\ gen' = [n \in Nodes |-> IF n \in new THEN NextGen(rootOf(n)) ELSE gen[n]]
      /\ holder' = [n \in Nodes |-> IF n \in new THEN e ELSE holder[n]]
      /\ status' = [n \in Nodes |-> CASE n \in new -> "open"
                                      [] n \in sup -> "superseded"
                                      [] OTHER -> status[n]]
  BY <1>1 DEF Admit
<1>9. ASSUME NEW b \in Nodes, Open(b) PROVE b \notin new
  BY <1>2, <1>9 DEF Unused, Open, Shape, ShapeOf
<1>10. ASSUME NEW n \in new PROVE rootOf(n) \in roots
  OBVIOUS
<1> HIDE DEF roots, rootOf, sup
<1>11. /\ role' \in [Nodes -> {"none", "root", "attempt", "delegation"}]
       /\ parent' \in [Nodes -> Nodes \cup {Null}]
       /\ anc' \in [Nodes -> SUBSET Nodes]
       /\ gen' \in [Nodes -> Nat]
       /\ holder' \in [Nodes -> Endpoints \cup {Null}]
       /\ status' \in [Nodes -> {"none", "open"} \cup Resolutions]
  BY <1>2, <1>4, <1>8, <1>10 DEF TypeOK, Resolutions
<1>12. ASSUME NEW s \in roots
       PROVE  /\ role'[at[s]] = "attempt" /\ status'[at[s]] = "open"
              /\ parent'[at[s]] = s /\ anc'[at[s]] = {s} /\ holder'[at[s]] = e
              /\ gen'[at[s]] = NextGen(s)
              /\ \A b \in OpenAttempts(s) : status'[b] = "superseded"
  <2>1. at[s] \in new /\ at[s] \in Nodes /\ rootOf(at[s]) = s
    BY <1>2, <1>3
  <2>2. ASSUME NEW b \in OpenAttempts(s) PROVE status'[b] = "superseded"
    <3>1. b \in sup /\ b \notin new /\ b \in Nodes
      BY <1>5, <1>9
    <3> QED
      BY <1>8, <3>1
  <2> HIDE DEF new
  <2>3. gen'[at[s]] = NextGen(rootOf(at[s]))
    BY <1>8, <2>1
  <2>4. parent'[at[s]] = rootOf(at[s]) /\ anc'[at[s]] = {rootOf(at[s])}
    BY <1>8, <2>1
  <2>5. role'[at[s]] = "attempt"
    BY <1>8, <2>1
  <2>6. status'[at[s]] = "open"
    <3>1. at[s] \notin sup
      BY <1>6, <1>9, <2>1
    <3> QED
      BY <1>8, <2>1, <3>1
  <2>7. holder'[at[s]] = e
    BY <1>8, <2>1
  <2> QED
    BY <2>1, <2>2, <2>3, <2>4, <2>5, <2>6, <2>7
<1>13. ASSUME NEW n \in Nodes, \A s \in roots : at[s] # n
       PROVE  /\ role'[n] = role[n] /\ parent'[n] = parent[n] /\ anc'[n] = anc[n]
              /\ gen'[n] = gen[n] /\ holder'[n] = holder[n]
              /\ \/ status'[n] = status[n]
                 \/ /\ status'[n] = "superseded" /\ Open(n)
                    /\ role[n] \in {"attempt", "delegation"}
                    /\ (role[n] = "attempt" \/ (switch /\ n \in Descendants(r)))
                    /\ role[n] = "attempt" => parent[n] \in roots
              /\ switch /\ Open(n) /\ n \in Descendants(r) => status'[n] = "superseded"
  <2>1. n \notin new
    BY <1>13
  <2> QED
    BY <1>6, <1>7, <1>8, <2>1
<1> USE DEF roots
<1> QED
  BY <1>2, <1>4, <1>11, <1>12, <1>13

(* A delegation tells an endpoint, of itself, and only if that is not closed. *)
LEMMA WakeTold ==
    ASSUME TypeOK, LineageEnds, Shape, NEW d \in Nodes, role[d] = "delegation",
           NEW why \in {"result", "declined", "expired", "custody_lost"}, NEW sender
    PROVE  Wake(d, sender, why) \subseteq Told
<1>1. holder[parent[d]] \in Endpoints
  BY DEF Shape, ShapeOf
<1>2. ParentOf(d) \in Endpoints
  BY <1>1, NewestEnds DEF ParentOf
<1> QED
  BY <1>2 DEF Wake, Told

(* A close keeps the types of the two columns it writes.                      *)
LEMMA CloseTypes ==
    ASSUME TypeOK, NEW n \in Nodes, NEW resolution \in Resolutions,
           NEW outcome \in WatchOutcomes, CloseWith(n, resolution, outcome)
    PROVE  /\ status' \in [Nodes -> {"none", "open"} \cup Resolutions]
           /\ watch' \in [Nodes -> {"none", "awaiting_acceptance", "awaiting_result"}
                                    \cup WatchOutcomes]
  BY DEF CloseWith, StatusAfter, WatchAfter, Armed, TypeOK, Resolutions, WatchOutcomes

(* Every step keeps the types.                                                *)
LEMMA TypeStep ==
    ASSUME TypeOK, LineageEnds, Shape, [Next]_vars
    PROVE  TypeOK'
<1>1. ASSUME NEW r \in Nodes, NEW e \in Endpoints, NEW switch \in BOOLEAN,
             NEW at \in [{r} \cup Stranded(r, e) -> {n \in Nodes : Unused(n)}],
             Recover(r, e, at, switch)
      PROVE  TypeOK'
  <2>1. watch' \in [Nodes -> {"none", "awaiting_acceptance", "awaiting_result"} \cup WatchOutcomes]
    BY <1>1 DEF Recover, WatchAfter, Armed, WatchOutcomes, TypeOK
  <2>2. attention' \subseteq Nodes
    BY <1>1 DEF Recover, Admit, TypeOK
  <2>3. /\ role' \in [Nodes -> {"none", "root", "attempt", "delegation"}]
        /\ parent' \in [Nodes -> Nodes \cup {Null}]
        /\ anc' \in [Nodes -> SUBSET Nodes]
        /\ gen' \in [Nodes -> Nat]
        /\ holder' \in [Nodes -> Endpoints \cup {Null}]
        /\ status' \in [Nodes -> {"none", "open"} \cup Resolutions]
    BY <1>1, RecoverRows
  <2> QED
    BY <1>1, <2>1, <2>2, <2>3 DEF Recover, TypeOK, lineage
<1> USE DEF TypeOK, Open, work, lineage
<1>2. ASSUME NEW r \in Nodes, NEW a \in Nodes, NEW e \in Endpoints \cup {Null},
             NEW t \in Endpoints, NEW m \in Modes,
             OpenWork(r, a, e, t, m)
      PROVE  TypeOK'
  BY <1>2, NewestEnds, ConstantsAssumption DEF OpenWork
<1>3. ASSUME NEW d \in Nodes, NEW p \in Nodes, NEW e \in Endpoints,
             NEW to \in Endpoints \cup Principals,
             OfferHandoff(d, p, e, to)
      PROVE  TypeOK'
  BY <1>3, NewestEnds DEF OfferHandoff
<1>4. ASSUME NEW d \in Nodes, NEW e \in Endpoints,
             AcceptHandoff(d, e)
      PROVE  TypeOK'
  BY <1>4 DEF AcceptHandoff
<1>5. ASSUME NEW d \in Nodes, NEW e \in Endpoints,
             DeclineHandoff(d, e)
      PROVE  TypeOK'
  BY <1>5, WakeTold DEF DeclineHandoff, MayDecide, WatchOutcomes, Resolutions
<1>6. ASSUME NEW n \in Nodes, NEW e \in Endpoints,
             CloseFulfilled(n, e)
      PROVE  TypeOK'
  BY <1>6, CloseTypes, WakeTold DEF CloseFulfilled, WatchOutcomes, Resolutions
<1>7. ASSUME NEW n \in Nodes, NEW e \in Endpoints,
             CloseCancelled(n, e)
      PROVE  TypeOK'
  BY <1>7, CloseTypes DEF CloseCancelled, WatchOutcomes, Resolutions
<1>8. ASSUME NEW r \in Nodes, NEW e \in Endpoints, NEW kind \in {"fulfilled", "cancelled"},
             NEW fan \in {"endpoint", "route"}, NEW copies \in SUBSET Copies,
             NEW m \in 1..MaxReports,
             StageTerminal(r, e, kind, fan, copies, m)
      PROVE  TypeOK'
  BY <1>8 DEF StageTerminal, Report
<1>9. ASSUME NEW d \in report,
             CompleteDelivered(d)
      PROVE  TypeOK'
  BY <1>9, CloseTypes DEF CompleteDelivered, Settle, Report, WatchOutcomes, Resolutions
<1>10. ASSUME NEW d \in report,
             CompleteFailed(d)
      PROVE  TypeOK'
  BY <1>10 DEF CompleteFailed, Settle, Report
<1>11. ASSUME NEW d \in report,
             ClaimAgain(d)
      PROVE  TypeOK'
  BY <1>11 DEF ClaimAgain, Settle, Report
<1>12. ASSUME NEW d \in Nodes,
             ExpireOffer(d)
      PROVE  TypeOK'
  BY <1>12, WakeTold DEF ExpireOffer, Shape, ShapeOf, WatchOutcomes, Resolutions
<1>13. ASSUME NEW e \in Endpoints, NEW lost \in SUBSET Nodes,
             CustodyLost(e, lost)
      PROVE  TypeOK'
  BY <1>13, WakeTold DEF CustodyLost, WatchAfter, Armed, WatchOutcomes,
      Resolutions, RootsLeft, RootsOf
<1>14. ASSUME NEW e \in Endpoints,
             Register(e)
      PROVE  TypeOK'
  BY <1>14 DEF Register
<1>15. ASSUME NEW e \in Endpoints,
             CloseEndpoint(e)
      PROVE  TypeOK'
  BY <1>15 DEF CloseEndpoint
<1>16. ASSUME NEW e \in Endpoints, NEW x \in Endpoints,
             Replace(e, x)
      PROVE  TypeOK'
  BY <1>16 DEF Replace
<1>17. ASSUME NEW r \in Nodes,
             LaunchFailed(r)
      PROVE  TypeOK'
  BY <1>17 DEF LaunchFailed
<1>18. ASSUME UNCHANGED vars PROVE TypeOK'
  BY <1>18 DEF vars
<1> HIDE DEF TypeOK, Open, work, lineage
<1> QED
  BY <1>1, <1>2, <1>3, <1>4, <1>5, <1>6, <1>7, <1>8, <1>9, <1>10,
     <1>11, <1>12, <1>13, <1>14, <1>15, <1>16, <1>17, <1>18
  DEF Next, Commit, Deliver, Reconcile, Recovery, RecoveryRetry, RecoverySwitch,
      RecoverAny, EndpointStep

(* Closing n closes what is open below it and decides what is armed there.   *)
LEMMA CloseRows ==
    ASSUME TypeOK, NEW n \in Nodes, Open(n), NEW resolution \in Resolutions,
           NEW outcome \in WatchOutcomes, CloseWith(n, resolution, outcome)
    PROVE  /\ status'[n] = resolution
           /\ watch'[n] = IF Armed(n) THEN outcome ELSE watch[n]
           /\ \A x \in Nodes \ {n} :
                 /\ status'[x] = IF n \in anc[x] /\ Open(x) THEN "superseded" ELSE status[x]
                 /\ watch'[x] = IF n \in anc[x] /\ Armed(x) THEN "child_failed" ELSE watch[x]
  BY DEF CloseWith, StatusAfter, WatchAfter, Descendants, TypeOK

Blank(n) == status[n] = "none"

(* A close makes no row blank and no row watched.                             *)
LEMMA CloseBlank ==
    ASSUME TypeOK, NEW n \in Nodes, Open(n), Shape, NEW resolution \in Resolutions,
           NEW outcome \in WatchOutcomes, CloseWith(n, resolution, outcome)
    PROVE  \A x \in Nodes : Blank(x)' = Blank(x) /\ (watch'[x] = "none" <=> watch[x] = "none")
<1>1. resolution # "none" /\ outcome # "none"
  BY DEF Resolutions, WatchOutcomes
<1>2. /\ status'[n] = resolution
      /\ watch'[n] = IF Armed(n) THEN outcome ELSE watch[n]
      /\ \A x \in Nodes \ {n} :
            /\ status'[x] = IF n \in anc[x] /\ Open(x) THEN "superseded" ELSE status[x]
            /\ watch'[x] = IF n \in anc[x] /\ Armed(x) THEN "child_failed" ELSE watch[x]
  BY CloseRows
<1> QED
  BY <1>1, <1>2 DEF Blank, Open, Armed

(* A recovery keeps the shape of the rows.                                    *)
LEMMA RecoverShape ==
    ASSUME TypeOK, Shape, NEW r \in Nodes, NEW e \in Endpoints, NEW switch \in BOOLEAN,
           NEW at \in [{r} \cup Stranded(r, e) -> {n \in Nodes : Unused(n)}],
           Recover(r, e, at, switch)
    PROVE  Shape'
<1>1. \A n \in Nodes : watch'[n] = "none" <=> watch[n] = "none"
  BY DEF Recover, WatchAfter, Armed, TypeOK
<1>2. ASSUME NEW n \in Nodes, \A s \in RootsOfRecovery(r, e) : at[s] # n
      PROVE  /\ role'[n] = role[n] /\ parent'[n] = parent[n] /\ anc'[n] = anc[n]
             /\ holder'[n] = holder[n] /\ Blank(n)' = Blank(n)
  BY <1>2, RecoverRows DEF Blank, Open
<1>3. ASSUME NEW s \in RootsOfRecovery(r, e)
      PROVE  /\ at[s] \in Nodes /\ s \in Nodes /\ Unused(at[s]) /\ role[s] = "root"
             /\ role'[at[s]] = "attempt" /\ parent'[at[s]] = s /\ anc'[at[s]] = {s}
             /\ holder'[at[s]] = e /\ status'[at[s]] = "open"
  BY RecoverRows
<1>4. ASSUME NEW n \in Nodes, role[n] # "none"
      PROVE  /\ role'[n] = role[n] /\ parent'[n] = parent[n] /\ anc'[n] = anc[n]
             /\ holder'[n] = holder[n] /\ Blank(n)' = Blank(n)
  BY <1>2, <1>3, <1>4 DEF Unused
<1>5. \A n \in Nodes : holder[n] \in Endpoints => role[n] # "none"
  BY ConstantsAssumption DEF Shape, ShapeOf
<1>6. \A n \in Nodes : anc[n] \subseteq Nodes
  BY DEF TypeOK
<1>7. ASSUME NEW n \in Nodes, \A s \in RootsOfRecovery(r, e) : at[s] # n
      PROVE  ShapeOf(n)'
  <2>1. ShapeOf(n)
    BY DEF Shape
  <2> QED
    BY <1>1, <1>2, <1>4, <1>5, <1>6, <1>7, <2>1 DEF ShapeOf, Blank
<1>8. ASSUME NEW s \in RootsOfRecovery(r, e) PROVE ShapeOf(at[s])'
  <2>1. ShapeOf(at[s])
    BY <1>3 DEF Shape
  <2> QED
    BY <1>1, <1>3, <1>4, <2>1 DEF ShapeOf, Unused
<1> QED
  BY <1>7, <1>8 DEF Shape

(* Every step keeps the shape of the rows.                                    *)
LEMMA ShapeStep ==
    ASSUME TypeOK, Shape, [Next]_vars
    PROVE  Shape'
<1>1. ASSUME NEW r \in Nodes, NEW e \in Endpoints, NEW switch \in BOOLEAN,
             NEW at \in [{r} \cup Stranded(r, e) -> {n \in Nodes : Unused(n)}],
             Recover(r, e, at, switch)
      PROVE  Shape'
  BY <1>1, RecoverShape
<1> USE DEF TypeOK, Shape, ShapeOf, Open, work, lineage
<1>2. ASSUME NEW r \in Nodes, NEW a \in Nodes, NEW e \in Endpoints \cup {Null},
             NEW t \in Endpoints, NEW m \in Modes,
             OpenWork(r, a, e, t, m)
      PROVE  Shape'
  BY <1>2, ConstantsAssumption DEF OpenWork, Unused
<1>3. ASSUME NEW d \in Nodes, NEW p \in Nodes, NEW e \in Endpoints,
             NEW to \in Endpoints \cup Principals,
             OfferHandoff(d, p, e, to)
      PROVE  Shape'
  BY <1>3 DEF OfferHandoff, Unused
<1>4. ASSUME NEW d \in Nodes, NEW e \in Endpoints,
             AcceptHandoff(d, e)
      PROVE  Shape'
  BY <1>4, ConstantsAssumption DEF AcceptHandoff, MayDecide
<1>5. ASSUME NEW d \in Nodes, NEW e \in Endpoints,
             DeclineHandoff(d, e)
      PROVE  Shape'
  BY <1>5 DEF DeclineHandoff, MayDecide
<1>6. ASSUME NEW n \in Nodes, NEW e \in Endpoints,
             CloseFulfilled(n, e)
      PROVE  Shape'
  <2>1. \A x \in Nodes : Blank(x)' = Blank(x) /\ (watch'[x] = "none" <=> watch[x] = "none")
    BY <1>6, CloseBlank DEF CloseFulfilled, Resolutions, WatchOutcomes
  <2> QED
    BY <1>6, <2>1 DEF CloseFulfilled, Blank
<1>7. ASSUME NEW n \in Nodes, NEW e \in Endpoints,
             CloseCancelled(n, e)
      PROVE  Shape'
  <2>1. \A x \in Nodes : Blank(x)' = Blank(x) /\ (watch'[x] = "none" <=> watch[x] = "none")
    BY <1>7, CloseBlank DEF CloseCancelled, Resolutions, WatchOutcomes
  <2> QED
    BY <1>7, <2>1 DEF CloseCancelled, Blank
<1>8. ASSUME NEW r \in Nodes, NEW e \in Endpoints, NEW kind \in {"fulfilled", "cancelled"},
             NEW fan \in {"endpoint", "route"}, NEW copies \in SUBSET Copies,
             NEW m \in 1..MaxReports,
             StageTerminal(r, e, kind, fan, copies, m)
      PROVE  Shape'
  BY <1>8 DEF StageTerminal
<1>9. ASSUME NEW d \in report,
             CompleteDelivered(d)
      PROVE  Shape'
  <2>1. CASE Confirms(d)
    <3>1. d.root \in Nodes /\ d.kind \in Resolutions /\ Open(d.root)
      BY <2>1 DEF Confirms, Report, Resolutions
    <3>2. \A x \in Nodes : Blank(x)' = Blank(x) /\ (watch'[x] = "none" <=> watch[x] = "none")
      BY <1>9, <2>1, <3>1, CloseBlank DEF CompleteDelivered, WatchOutcomes
    <3> QED
      BY <1>9, <3>2 DEF CompleteDelivered, Blank
  <2>2. CASE ~Confirms(d)
    BY <1>9, <2>2 DEF CompleteDelivered
  <2> QED
    BY <2>1, <2>2
<1>10. ASSUME NEW d \in report,
             CompleteFailed(d)
      PROVE  Shape'
  BY <1>10 DEF CompleteFailed
<1>11. ASSUME NEW d \in report,
             ClaimAgain(d)
      PROVE  Shape'
  BY <1>11 DEF ClaimAgain
<1>12. ASSUME NEW d \in Nodes,
             ExpireOffer(d)
      PROVE  Shape'
  BY <1>12 DEF ExpireOffer
<1>13. ASSUME NEW e \in Endpoints, NEW lost \in SUBSET Nodes,
             CustodyLost(e, lost)
      PROVE  Shape'
  BY <1>13 DEF CustodyLost, WatchAfter, Armed
<1>14. ASSUME NEW e \in Endpoints,
             Register(e)
      PROVE  Shape'
  BY <1>14 DEF Register
<1>15. ASSUME NEW e \in Endpoints,
             CloseEndpoint(e)
      PROVE  Shape'
  BY <1>15 DEF CloseEndpoint
<1>16. ASSUME NEW e \in Endpoints, NEW x \in Endpoints,
             Replace(e, x)
      PROVE  Shape'
  BY <1>16 DEF Replace
<1>17. ASSUME NEW r \in Nodes,
             LaunchFailed(r)
      PROVE  Shape'
  BY <1>17 DEF LaunchFailed
<1>18. ASSUME UNCHANGED vars PROVE Shape'
  BY <1>18 DEF vars
<1> HIDE DEF TypeOK, Shape, ShapeOf, Open, work, lineage
<1> QED
  BY <1>1, <1>2, <1>3, <1>4, <1>5, <1>6, <1>7, <1>8, <1>9, <1>10,
     <1>11, <1>12, <1>13, <1>14, <1>15, <1>16, <1>17, <1>18
  DEF Next, Commit, Deliver, Reconcile, Recovery, RecoveryRetry, RecoverySwitch,
      RecoverAny, EndpointStep

(* A used row keeps its place in the graph, and its custodian once it has one. *)
RowsKept ==
    \A n \in Nodes : ~Unused(n) =>
        /\ role'[n] = role[n] /\ parent'[n] = parent[n] /\ anc'[n] = anc[n]
        /\ gen'[n] = gen[n] /\ offer'[n] = offer[n]
        /\ holder[n] # Null => holder'[n] = holder[n]

(* No step moves a row or takes its custodian away.                           *)
LEMMA RowsStay ==
    ASSUME TypeOK, Shape, [Next]_vars
    PROVE  RowsKept
<1>1. ASSUME NEW r \in Nodes, NEW e \in Endpoints, NEW switch \in BOOLEAN,
             NEW at \in [{r} \cup Stranded(r, e) -> {n \in Nodes : Unused(n)}],
             Recover(r, e, at, switch)
      PROVE  RowsKept
  <2>1. offer' = offer
    BY <1>1 DEF Recover
  <2>2. ASSUME NEW n \in Nodes, ~Unused(n)
        PROVE  /\ role'[n] = role[n] /\ parent'[n] = parent[n] /\ anc'[n] = anc[n]
               /\ gen'[n] = gen[n] /\ holder'[n] = holder[n]
    <3>1. \A s \in RootsOfRecovery(r, e) : Unused(at[s])
      BY <1>1, RecoverRows
    <3>2. \A s \in RootsOfRecovery(r, e) : at[s] # n
      BY <2>2, <3>1
    <3>3. \A x \in Nodes : (\A s \in RootsOfRecovery(r, e) : at[s] # x) =>
             /\ role'[x] = role[x] /\ parent'[x] = parent[x] /\ anc'[x] = anc[x]
             /\ gen'[x] = gen[x] /\ holder'[x] = holder[x]
      BY <1>1, RecoverRows
    <3> QED
      BY <3>2, <3>3
  <2> QED
    BY <2>1, <2>2 DEF RowsKept
<1> USE DEF TypeOK, RowsKept, Unused, work
<1>2. ASSUME NEW r \in Nodes, NEW a \in Nodes, NEW e \in Endpoints \cup {Null},
             NEW t \in Endpoints, NEW m \in Modes,
             OpenWork(r, a, e, t, m)
      PROVE  RowsKept
  BY <1>2 DEF OpenWork
<1>3. ASSUME NEW d \in Nodes, NEW p \in Nodes, NEW e \in Endpoints,
             NEW to \in Endpoints \cup Principals,
             OfferHandoff(d, p, e, to)
      PROVE  RowsKept
  BY <1>3 DEF OfferHandoff
<1>4. ASSUME NEW d \in Nodes, NEW e \in Endpoints,
             AcceptHandoff(d, e)
      PROVE  RowsKept
  BY <1>4 DEF AcceptHandoff, MayDecide
<1>5. ASSUME NEW d \in Nodes, NEW e \in Endpoints,
             DeclineHandoff(d, e)
      PROVE  RowsKept
  BY <1>5 DEF DeclineHandoff
<1>6. ASSUME NEW n \in Nodes, NEW e \in Endpoints,
             CloseFulfilled(n, e)
      PROVE  RowsKept
  BY <1>6 DEF CloseFulfilled
<1>7. ASSUME NEW n \in Nodes, NEW e \in Endpoints,
             CloseCancelled(n, e)
      PROVE  RowsKept
  BY <1>7 DEF CloseCancelled
<1>8. ASSUME NEW r \in Nodes, NEW e \in Endpoints, NEW kind \in {"fulfilled", "cancelled"},
             NEW fan \in {"endpoint", "route"}, NEW copies \in SUBSET Copies,
             NEW m \in 1..MaxReports,
             StageTerminal(r, e, kind, fan, copies, m)
      PROVE  RowsKept
  BY <1>8 DEF StageTerminal
<1>9. ASSUME NEW d \in report,
             CompleteDelivered(d)
      PROVE  RowsKept
  BY <1>9 DEF CompleteDelivered
<1>10. ASSUME NEW d \in report,
             CompleteFailed(d)
      PROVE  RowsKept
  BY <1>10 DEF CompleteFailed
<1>11. ASSUME NEW d \in report,
             ClaimAgain(d)
      PROVE  RowsKept
  BY <1>11 DEF ClaimAgain
<1>12. ASSUME NEW d \in Nodes,
             ExpireOffer(d)
      PROVE  RowsKept
  BY <1>12 DEF ExpireOffer
<1>13. ASSUME NEW e \in Endpoints, NEW lost \in SUBSET Nodes,
             CustodyLost(e, lost)
      PROVE  RowsKept
  BY <1>13 DEF CustodyLost
<1>14. ASSUME NEW e \in Endpoints,
             Register(e)
      PROVE  RowsKept
  BY <1>14 DEF Register
<1>15. ASSUME NEW e \in Endpoints,
             CloseEndpoint(e)
      PROVE  RowsKept
  BY <1>15 DEF CloseEndpoint
<1>16. ASSUME NEW e \in Endpoints, NEW x \in Endpoints,
             Replace(e, x)
      PROVE  RowsKept
  BY <1>16 DEF Replace
<1>17. ASSUME NEW r \in Nodes,
             LaunchFailed(r)
      PROVE  RowsKept
  BY <1>17 DEF LaunchFailed
<1>18. ASSUME UNCHANGED vars PROVE RowsKept
  BY <1>18 DEF vars
<1> HIDE DEF TypeOK, RowsKept, Unused, work
<1> QED
  BY <1>1, <1>2, <1>3, <1>4, <1>5, <1>6, <1>7, <1>8, <1>9, <1>10,
     <1>11, <1>12, <1>13, <1>14, <1>15, <1>16, <1>17, <1>18
  DEF Next, Commit, Deliver, Reconcile, Recovery, RecoveryRetry, RecoverySwitch,
      RecoverAny, EndpointStep

(* Every step keeps the reports on roots.                                     *)
LEMMA ReportsStep ==
    ASSUME TypeOK, Shape, ReportsAreOfRoots, [Next]_vars
    PROVE  ReportsAreOfRoots'
<1>1. \A n \in Nodes : role[n] = "root" => role'[n] = "root"
  BY RowsStay DEF RowsKept, Unused
<1>2. \A d \in report : d.root \in Nodes
  BY DEF TypeOK, Report
<1>3. CASE report' = report
  BY <1>1, <1>2, <1>3 DEF ReportsAreOfRoots
<1>4. ASSUME NEW r \in Nodes, NEW e \in Endpoints, NEW kind \in {"fulfilled", "cancelled"},
             NEW fan \in {"endpoint", "route"}, NEW copies \in SUBSET Copies,
             NEW m \in 1..MaxReports, StageTerminal(r, e, kind, fan, copies, m)
      PROVE  ReportsAreOfRoots'
  <2>1. \A d \in report' \ report : d.root = r
    BY <1>4 DEF StageTerminal
  <2>2. role[r] = "root"
    BY <1>4 DEF StageTerminal
  <2> QED
    BY <1>1, <1>2, <2>1, <2>2 DEF ReportsAreOfRoots
<1>5. ASSUME NEW d \in report, NEW s \in {"active", "delivered", "failed"}, Settle(d, s)
      PROVE  ReportsAreOfRoots'
  <2>1. \A x \in report' : x \in report \/ x.root = d.root
    BY <1>5 DEF Settle, TypeOK, Report
  <2> QED
    BY <1>1, <1>2, <2>1 DEF ReportsAreOfRoots
<1>6. ASSUME NEW d \in report, CompleteDelivered(d) \/ CompleteFailed(d) \/ ClaimAgain(d)
      PROVE  ReportsAreOfRoots'
  BY <1>5, <1>6 DEF CompleteDelivered, CompleteFailed, ClaimAgain
<1>7. ASSUME NEW r \in Nodes, NEW a \in Nodes, NEW e \in Endpoints \cup {Null},
             NEW t \in Endpoints, NEW m \in Modes, OpenWork(r, a, e, t, m)
      PROVE  report' = report
  BY <1>7 DEF OpenWork
<1>8. ASSUME NEW d \in Nodes, NEW p \in Nodes, NEW e \in Endpoints,
             NEW to \in Endpoints \cup Principals, OfferHandoff(d, p, e, to)
      PROVE  report' = report
  BY <1>8 DEF OfferHandoff
<1>9. ASSUME NEW n \in Nodes, NEW e \in Endpoints,
             \/ AcceptHandoff(n, e) \/ DeclineHandoff(n, e)
             \/ CloseFulfilled(n, e) \/ CloseCancelled(n, e)
      PROVE  report' = report
  BY <1>9 DEF AcceptHandoff, DeclineHandoff, CloseFulfilled, CloseCancelled
<1>10. ASSUME Reconcile PROVE report' = report
  BY <1>10 DEF Reconcile, ExpireOffer, CustodyLost
<1>11. ASSUME Recovery PROVE report' = report
  <2>1. ASSUME NEW r \in Nodes, NEW e \in Endpoints, NEW switch \in BOOLEAN,
               RecoverAny(r, e, switch)
        PROVE  report' = report
    BY <2>1 DEF RecoverAny, Recover
  <2> QED
    BY <1>11, <2>1 DEF Recovery, RecoveryRetry, RecoverySwitch
<1>12. ASSUME EndpointStep PROVE report' = report
  BY <1>12 DEF EndpointStep, Register, CloseEndpoint, Replace, LaunchFailed
<1>13. ASSUME UNCHANGED vars PROVE report' = report
  BY <1>13 DEF vars
<1> QED
  BY <1>3, <1>4, <1>6, <1>7, <1>8, <1>9, <1>10, <1>11, <1>12, <1>13
  DEF Next, Commit, Deliver

(* A close leaves every watch in step with its custody.                       *)
LEMMA CloseWatches ==
    ASSUME TypeOK, Shape, WatchTracksCustody, NEW n \in Nodes, Open(n),
           NEW resolution \in Resolutions, NEW outcome \in WatchOutcomes,
           CloseWith(n, resolution, outcome), UNCHANGED <<role, holder>>,
           role[n] = "delegation" => /\ resolution = "fulfilled" <=> outcome = "result"
                                     /\ outcome \in {"result", "child_failed"}
    PROVE  WatchTracksCustody'
<1>1. /\ status'[n] = resolution
      /\ watch'[n] = IF Armed(n) THEN outcome ELSE watch[n]
      /\ \A x \in Nodes \ {n} :
            /\ status'[x] = IF n \in anc[x] /\ Open(x) THEN "superseded" ELSE status[x]
            /\ watch'[x] = IF n \in anc[x] /\ Armed(x) THEN "child_failed" ELSE watch[x]
  BY CloseRows
<1>2. ASSUME NEW d \in Nodes, role[d] = "delegation"
      PROVE  /\ Open(d) /\ holder[d] = Null <=> watch[d] = "awaiting_acceptance"
             /\ Open(d) /\ holder[d] # Null <=> watch[d] = "awaiting_result"
             /\ watch[d] = "result" <=> status[d] = "fulfilled"
             /\ watch[d] \in {"declined", "acceptance_expired"} =>
                     status[d] = "failed" /\ holder[d] = Null
  BY <1>2 DEF WatchTracksCustody
<1>3. ASSUME NEW d \in Nodes, role[d] = "delegation"
      PROVE  /\ Open(d)' /\ holder[d] = Null <=> watch'[d] = "awaiting_acceptance"
             /\ Open(d)' /\ holder[d] # Null <=> watch'[d] = "awaiting_result"
             /\ watch'[d] = "result" <=> status'[d] = "fulfilled"
             /\ watch'[d] \in {"declined", "acceptance_expired"} =>
                     status'[d] = "failed" /\ holder[d] = Null
  <2>1. CASE d = n
    BY <1>1, <1>2, <1>3, <2>1 DEF Open, Armed, Resolutions
  <2>2. CASE d # n
    BY <1>1, <1>2, <1>3, <2>2 DEF Open, Armed
  <2> QED
    BY <2>1, <2>2
<1> QED
  BY <1>3 DEF WatchTracksCustody

(* So does a recovery.                                                        *)
LEMMA RecoverWatches ==
    ASSUME TypeOK, Shape, WatchTracksCustody, NEW r \in Nodes, NEW e \in Endpoints,
           NEW switch \in BOOLEAN,
           NEW at \in [{r} \cup Stranded(r, e) -> {n \in Nodes : Unused(n)}],
           Recover(r, e, at, switch)
    PROVE  WatchTracksCustody'
<1>1. \A n \in Nodes :
        watch'[n] = IF switch /\ Armed(n) /\ n \in Descendants(r) THEN "child_failed" ELSE watch[n]
  BY DEF Recover, WatchAfter, TypeOK
<1>2. ASSUME NEW d \in Nodes, role'[d] = "delegation"
      PROVE  /\ role[d] = "delegation" /\ holder'[d] = holder[d]
             /\ status'[d] = IF switch /\ Open(d) /\ d \in Descendants(r)
                              THEN "superseded" ELSE status[d]
  <2>1. \A s \in RootsOfRecovery(r, e) : at[s] # d
    BY <1>2, RecoverRows
  <2> QED
    BY <1>2, <2>1, RecoverRows
<1> QED
  BY <1>1, <1>2 DEF WatchTracksCustody, Open, Armed

(* Every step keeps the watches in step with custody.                         *)
LEMMA WatchStep ==
    ASSUME TypeOK, Shape, ReportsAreOfRoots, WatchTracksCustody, [Next]_vars
    PROVE  WatchTracksCustody'
<1>1. ASSUME NEW n \in Nodes, NEW e \in Endpoints,
             CloseFulfilled(n, e)
      PROVE  WatchTracksCustody'
  <2>1. Open(n) /\ CloseWith(n, "fulfilled", "result") /\ UNCHANGED <<role, holder>>
    BY <1>1 DEF CloseFulfilled, work
  <2>2. "fulfilled" \in Resolutions /\ "result" \in WatchOutcomes
    BY DEF Resolutions, WatchOutcomes
  <2> QED
    BY <2>1, <2>2, CloseWatches
<1>2. ASSUME NEW n \in Nodes, NEW e \in Endpoints,
             CloseCancelled(n, e)
      PROVE  WatchTracksCustody'
  <2>1. Open(n) /\ CloseWith(n, "cancelled", "child_failed") /\ UNCHANGED <<role, holder>>
    BY <1>2 DEF CloseCancelled, work
  <2>2. "cancelled" \in Resolutions /\ "child_failed" \in WatchOutcomes
    BY DEF Resolutions, WatchOutcomes
  <2> QED
    BY <2>1, <2>2, CloseWatches
<1>3. ASSUME NEW d \in report,
             CompleteDelivered(d)
      PROVE  WatchTracksCustody'
  <2>1. UNCHANGED <<role, holder>>
    BY <1>3 DEF CompleteDelivered, work
  <2>2. CASE Confirms(d)
    <3>1. /\ d.root \in Nodes /\ d.kind \in Resolutions /\ Open(d.root)
          /\ role[d.root] # "delegation" /\ "child_failed" \in WatchOutcomes
      BY <2>2 DEF Confirms, Report, Resolutions, WatchOutcomes, TypeOK, ReportsAreOfRoots
    <3>2. CloseWith(d.root, d.kind, "child_failed")
      BY <1>3, <2>2 DEF CompleteDelivered
    <3> QED
      BY <2>1, <3>1, <3>2, CloseWatches
  <2>3. CASE ~Confirms(d)
    BY <1>3, <2>1, <2>3 DEF CompleteDelivered, WatchTracksCustody, Open
  <2> QED
    BY <2>2, <2>3
<1>4. ASSUME NEW r \in Nodes, NEW e \in Endpoints, NEW switch \in BOOLEAN,
             NEW at \in [{r} \cup Stranded(r, e) -> {n \in Nodes : Unused(n)}],
             Recover(r, e, at, switch)
      PROVE  WatchTracksCustody'
  BY <1>4, RecoverWatches
<1> USE DEF TypeOK, Shape, ShapeOf, WatchTracksCustody, Open, work
<1>5. ASSUME NEW r \in Nodes, NEW a \in Nodes, NEW e \in Endpoints \cup {Null},
             NEW t \in Endpoints, NEW m \in Modes,
             OpenWork(r, a, e, t, m)
      PROVE  WatchTracksCustody'
  BY <1>5 DEF OpenWork, Unused
<1>6. ASSUME NEW d \in Nodes, NEW p \in Nodes, NEW e \in Endpoints,
             NEW to \in Endpoints \cup Principals,
             OfferHandoff(d, p, e, to)
      PROVE  WatchTracksCustody'
  BY <1>6 DEF OfferHandoff, Unused
<1>7. ASSUME NEW d \in Nodes, NEW e \in Endpoints,
             AcceptHandoff(d, e)
      PROVE  WatchTracksCustody'
  BY <1>7, ConstantsAssumption DEF AcceptHandoff, MayDecide
<1>8. ASSUME NEW d \in Nodes, NEW e \in Endpoints,
             DeclineHandoff(d, e)
      PROVE  WatchTracksCustody'
  BY <1>8 DEF DeclineHandoff, MayDecide
<1>9. ASSUME NEW r \in Nodes, NEW e \in Endpoints, NEW kind \in {"fulfilled", "cancelled"},
             NEW fan \in {"endpoint", "route"}, NEW copies \in SUBSET Copies,
             NEW m \in 1..MaxReports,
             StageTerminal(r, e, kind, fan, copies, m)
      PROVE  WatchTracksCustody'
  BY <1>9 DEF StageTerminal
<1>10. ASSUME NEW d \in report,
             CompleteFailed(d)
      PROVE  WatchTracksCustody'
  BY <1>10 DEF CompleteFailed
<1>11. ASSUME NEW d \in report,
             ClaimAgain(d)
      PROVE  WatchTracksCustody'
  BY <1>11 DEF ClaimAgain
<1>12. ASSUME NEW d \in Nodes,
             ExpireOffer(d)
      PROVE  WatchTracksCustody'
  BY <1>12 DEF ExpireOffer
<1>13. ASSUME NEW e \in Endpoints, NEW lost \in SUBSET Nodes,
             CustodyLost(e, lost)
      PROVE  WatchTracksCustody'
  BY <1>13, ConstantsAssumption DEF CustodyLost, WatchAfter, Armed
<1>14. ASSUME NEW e \in Endpoints,
             Register(e)
      PROVE  WatchTracksCustody'
  BY <1>14 DEF Register
<1>15. ASSUME NEW e \in Endpoints,
             CloseEndpoint(e)
      PROVE  WatchTracksCustody'
  BY <1>15 DEF CloseEndpoint
<1>16. ASSUME NEW e \in Endpoints, NEW x \in Endpoints,
             Replace(e, x)
      PROVE  WatchTracksCustody'
  BY <1>16 DEF Replace
<1>17. ASSUME NEW r \in Nodes,
             LaunchFailed(r)
      PROVE  WatchTracksCustody'
  BY <1>17 DEF LaunchFailed
<1>18. ASSUME UNCHANGED vars PROVE WatchTracksCustody'
  BY <1>18 DEF vars
<1> HIDE DEF TypeOK, Shape, ShapeOf, WatchTracksCustody, Open, work
<1> QED
  BY <1>1, <1>2, <1>3, <1>4, <1>5, <1>6, <1>7, <1>8, <1>9, <1>10,
     <1>11, <1>12, <1>13, <1>14, <1>15, <1>16, <1>17, <1>18
  DEF Next, Commit, Deliver, Reconcile, Recovery, RecoveryRetry, RecoverySwitch,
      RecoverAny, EndpointStep

(* A close leaves nothing open below what it decides.                         *)
LEMMA CloseDecided ==
    ASSUME TypeOK, Shape, NothingOpenBelowDecided, NEW n \in Nodes, Open(n),
           NEW resolution \in Resolutions, NEW outcome \in WatchOutcomes,
           CloseWith(n, resolution, outcome), UNCHANGED <<role, anc>>
    PROVE  NothingOpenBelowDecided'
<1>1. /\ status'[n] = resolution
      /\ \A x \in Nodes \ {n} :
            status'[x] = IF n \in anc[x] /\ Open(x) THEN "superseded" ELSE status[x]
  BY CloseRows
<1>2. ASSUME NEW x \in Nodes, status'[x] = "open", NEW m \in anc[x]
      PROVE  /\ status'[m] \notin {"fulfilled", "cancelled"}
             /\ role[m] = "root" => status'[m] = "open"
  <2>1. x # n /\ n \notin anc[x] /\ Open(x)
    BY <1>1, <1>2 DEF Resolutions, Open
  <2>2. m \in Nodes /\ m # n
    BY <2>1 DEF TypeOK
  <2>3. /\ status[m] \notin {"fulfilled", "cancelled"}
        /\ role[m] = "root" => Open(m) /\ anc[m] = {}
    BY <2>1, <2>2 DEF NothingOpenBelowDecided, Shape, ShapeOf
  <2> QED
    BY <1>1, <2>2, <2>3 DEF Open
<1> QED
  BY <1>2 DEF NothingOpenBelowDecided, Open

(* A recovery opens nothing below a decided row.                              *)
LEMMA RecoverDecided ==
    ASSUME TypeOK, Shape, NothingOpenBelowDecided, NEW r \in Nodes, NEW e \in Endpoints,
           NEW switch \in BOOLEAN,
           NEW at \in [{r} \cup Stranded(r, e) -> {n \in Nodes : Unused(n)}],
           Recover(r, e, at, switch)
    PROVE  NothingOpenBelowDecided'
<1>1. ASSUME NEW n \in Nodes, role[n] # "none"
      PROVE  /\ role'[n] = role[n] /\ anc'[n] = anc[n]
             /\ status'[n] = status[n] \/ (status'[n] = "superseded" /\ role[n] # "root")
  <2>1. \A s \in RootsOfRecovery(r, e) : at[s] # n
    <3>1. \A s \in RootsOfRecovery(r, e) : Unused(at[s])
      BY RecoverRows
    <3> QED
      BY <1>1, <3>1 DEF Unused
  <2> QED
    BY <2>1, RecoverRows
<1>2. ASSUME NEW s \in RootsOfRecovery(r, e), NEW m \in anc'[at[s]]
      PROVE  m = s /\ m \in Nodes /\ role[m] = "root" /\ Open(m)
  BY <1>2, RecoverRows
<1>3. ASSUME NEW x \in Nodes, status'[x] = "open", NEW m \in anc'[x]
      PROVE  /\ status'[m] \notin {"fulfilled", "cancelled"}
             /\ role'[m] = "root" => status'[m] = "open"
  <2>1. CASE \E s \in RootsOfRecovery(r, e) : at[s] = x
    BY <1>1, <1>2, <1>3, <2>1 DEF Open
  <2>2. CASE \A s \in RootsOfRecovery(r, e) : at[s] # x
    <3>1. anc'[x] = anc[x] /\ Open(x)
      BY <1>3, <2>2, RecoverRows DEF Open
    <3>2. m \in Nodes /\ m \in anc[x] /\ role[m] # "none"
      BY <1>3, <3>1 DEF TypeOK, Shape, ShapeOf
    <3>3. /\ status[m] \notin {"fulfilled", "cancelled"}
          /\ role[m] = "root" => Open(m)
      BY <3>1, <3>2 DEF NothingOpenBelowDecided
    <3> QED
      BY <1>1, <3>2, <3>3 DEF Open
  <2> QED
    BY <2>1, <2>2
<1> QED
  BY <1>3 DEF NothingOpenBelowDecided, Open

(* Every step leaves nothing open below a decided row.                        *)
LEMMA DecidedStep ==
    ASSUME TypeOK, Shape, NothingOpenBelowDecided, [Next]_vars
    PROVE  NothingOpenBelowDecided'
<1>1. ASSUME NEW n \in Nodes, NEW e \in Endpoints,
             CloseFulfilled(n, e)
      PROVE  NothingOpenBelowDecided'
  <2>1. Open(n) /\ CloseWith(n, "fulfilled", "result") /\ UNCHANGED <<role, anc>>
    BY <1>1 DEF CloseFulfilled, work
  <2>2. "fulfilled" \in Resolutions /\ "result" \in WatchOutcomes
    BY DEF Resolutions, WatchOutcomes
  <2> QED
    BY <2>1, <2>2, CloseDecided
<1>2. ASSUME NEW n \in Nodes, NEW e \in Endpoints,
             CloseCancelled(n, e)
      PROVE  NothingOpenBelowDecided'
  <2>1. Open(n) /\ CloseWith(n, "cancelled", "child_failed") /\ UNCHANGED <<role, anc>>
    BY <1>2 DEF CloseCancelled, work
  <2>2. "cancelled" \in Resolutions /\ "child_failed" \in WatchOutcomes
    BY DEF Resolutions, WatchOutcomes
  <2> QED
    BY <2>1, <2>2, CloseDecided
<1>3. ASSUME NEW d \in report,
             CompleteDelivered(d)
      PROVE  NothingOpenBelowDecided'
  <2>1. UNCHANGED <<role, anc>>
    BY <1>3 DEF CompleteDelivered, work
  <2>2. CASE Confirms(d)
    <3>1. /\ d.root \in Nodes /\ d.kind \in Resolutions /\ Open(d.root)
          /\ "child_failed" \in WatchOutcomes
      BY <2>2 DEF Confirms, Report, Resolutions, WatchOutcomes, TypeOK
    <3>2. CloseWith(d.root, d.kind, "child_failed")
      BY <1>3, <2>2 DEF CompleteDelivered
    <3> QED
      BY <2>1, <3>1, <3>2, CloseDecided
  <2>3. CASE ~Confirms(d)
    BY <1>3, <2>1, <2>3 DEF CompleteDelivered, NothingOpenBelowDecided, Open
  <2> QED
    BY <2>2, <2>3
<1>4. ASSUME NEW r \in Nodes, NEW e \in Endpoints, NEW switch \in BOOLEAN,
             NEW at \in [{r} \cup Stranded(r, e) -> {n \in Nodes : Unused(n)}],
             Recover(r, e, at, switch)
      PROVE  NothingOpenBelowDecided'
  BY <1>4, RecoverDecided
<1> USE DEF TypeOK, Shape, ShapeOf, NothingOpenBelowDecided, Open, work
<1>5. ASSUME NEW r \in Nodes, NEW a \in Nodes, NEW e \in Endpoints \cup {Null},
             NEW t \in Endpoints, NEW m \in Modes,
             OpenWork(r, a, e, t, m)
      PROVE  NothingOpenBelowDecided'
  BY <1>5 DEF OpenWork, Unused
<1>6. ASSUME NEW d \in Nodes, NEW p \in Nodes, NEW e \in Endpoints,
             NEW to \in Endpoints \cup Principals,
             OfferHandoff(d, p, e, to)
      PROVE  NothingOpenBelowDecided'
  BY <1>6 DEF OfferHandoff, Unused
<1>7. ASSUME NEW d \in Nodes, NEW e \in Endpoints,
             AcceptHandoff(d, e)
      PROVE  NothingOpenBelowDecided'
  BY <1>7 DEF AcceptHandoff
<1>8. ASSUME NEW d \in Nodes, NEW e \in Endpoints,
             DeclineHandoff(d, e)
      PROVE  NothingOpenBelowDecided'
  BY <1>8 DEF DeclineHandoff, MayDecide
<1>9. ASSUME NEW r \in Nodes, NEW e \in Endpoints, NEW kind \in {"fulfilled", "cancelled"},
             NEW fan \in {"endpoint", "route"}, NEW copies \in SUBSET Copies,
             NEW m \in 1..MaxReports,
             StageTerminal(r, e, kind, fan, copies, m)
      PROVE  NothingOpenBelowDecided'
  BY <1>9 DEF StageTerminal
<1>10. ASSUME NEW d \in report,
             CompleteFailed(d)
      PROVE  NothingOpenBelowDecided'
  BY <1>10 DEF CompleteFailed
<1>11. ASSUME NEW d \in report,
             ClaimAgain(d)
      PROVE  NothingOpenBelowDecided'
  BY <1>11 DEF ClaimAgain
<1>12. ASSUME NEW d \in Nodes,
             ExpireOffer(d)
      PROVE  NothingOpenBelowDecided'
  BY <1>12 DEF ExpireOffer
<1>13. ASSUME NEW e \in Endpoints, NEW lost \in SUBSET Nodes,
             CustodyLost(e, lost)
      PROVE  NothingOpenBelowDecided'
  BY <1>13, ConstantsAssumption DEF CustodyLost
<1>14. ASSUME NEW e \in Endpoints,
             Register(e)
      PROVE  NothingOpenBelowDecided'
  BY <1>14 DEF Register
<1>15. ASSUME NEW e \in Endpoints,
             CloseEndpoint(e)
      PROVE  NothingOpenBelowDecided'
  BY <1>15 DEF CloseEndpoint
<1>16. ASSUME NEW e \in Endpoints, NEW x \in Endpoints,
             Replace(e, x)
      PROVE  NothingOpenBelowDecided'
  BY <1>16 DEF Replace
<1>17. ASSUME NEW r \in Nodes,
             LaunchFailed(r)
      PROVE  NothingOpenBelowDecided'
  BY <1>17 DEF LaunchFailed
<1>18. ASSUME UNCHANGED vars PROVE NothingOpenBelowDecided'
  BY <1>18 DEF vars
<1> HIDE DEF TypeOK, Shape, ShapeOf, NothingOpenBelowDecided, Open, work
<1> QED
  BY <1>1, <1>2, <1>3, <1>4, <1>5, <1>6, <1>7, <1>8, <1>9, <1>10,
     <1>11, <1>12, <1>13, <1>14, <1>15, <1>16, <1>17, <1>18
  DEF Next, Commit, Deliver, Reconcile, Recovery, RecoveryRetry, RecoverySwitch,
      RecoverAny, EndpointStep

(* Nothing but an opening and a recovery makes an attempt, and nothing at all *)
(* opens a closed one.                                                       *)
NoNewAttempt ==
    \A a \in Nodes : role'[a] = "attempt" =>
        /\ role[a] = "attempt" /\ parent'[a] = parent[a] /\ gen'[a] = gen[a]
        /\ Open(a)' => Open(a)

(* Without a new attempt the open ones stay alone and newest.                 *)
LEMMA AttemptsStay ==
    ASSUME OneOpenAttempt, OpenAttemptIsNewest, NoNewAttempt
    PROVE  OneOpenAttempt' /\ OpenAttemptIsNewest'
  BY DEF OneOpenAttempt, OpenAttemptIsNewest, NoNewAttempt

(* An opening makes the one attempt of a new root.                            *)
LEMMA OpeningAttempts ==
    ASSUME TypeOK, Shape, OneOpenAttempt, OpenAttemptIsNewest,
           NEW r \in Nodes, NEW n \in Nodes, NEW e \in Endpoints \cup {Null},
           NEW t \in Endpoints, NEW m \in Modes, OpenWork(r, n, e, t, m)
    PROVE  OneOpenAttempt' /\ OpenAttemptIsNewest'
<1>1. \A a \in Nodes : role'[a] = "attempt" /\ a # n =>
        /\ role[a] = "attempt" /\ parent'[a] = parent[a] /\ parent[a] # r
        /\ gen'[a] = gen[a] /\ status'[a] = status[a]
  BY DEF OpenWork, TypeOK, Shape, ShapeOf, Unused
<1>2. parent'[n] = r
  BY DEF OpenWork, TypeOK
<1> QED
  BY <1>1, <1>2 DEF OneOpenAttempt, OpenAttemptIsNewest, Open

(* A recovery closes what was open and makes one newer attempt.               *)
LEMMA RecoverAttempts ==
    ASSUME TypeOK, Shape, OneOpenAttempt, OpenAttemptIsNewest,
           NEW r \in Nodes, NEW e \in Endpoints, NEW switch \in BOOLEAN,
           NEW at \in [{r} \cup Stranded(r, e) -> {n \in Nodes : Unused(n)}],
           Recover(r, e, at, switch)
    PROVE  OneOpenAttempt' /\ OpenAttemptIsNewest'
<1> DEFINE New(a) == \E s \in RootsOfRecovery(r, e) : at[s] = a
<1>1. ASSUME NEW a \in Nodes, role'[a] = "attempt", ~New(a)
      PROVE  /\ role[a] = "attempt" /\ parent'[a] = parent[a] /\ gen'[a] = gen[a]
             /\ Open(a)' => Open(a)
  BY <1>1, RecoverRows DEF Open
<1>2. ASSUME NEW a \in Nodes, NEW b \in Nodes, role'[b] = "attempt",
             parent'[a] = parent'[b], New(a), ~New(b)
      PROVE  gen'[b] < gen'[a] /\ ~Open(b)'
  <2>1. PICK s \in RootsOfRecovery(r, e) : at[s] = a
    BY <1>2
  <2>2. parent'[a] = s
    BY <2>1, RecoverRows
  <2>3. b \in Attempts(s) /\ gen'[b] = gen[b]
    BY <1>1, <1>2, <2>2 DEF Attempts
  <2>4. gen'[b] < gen'[a]
    BY <2>1, <2>3, RecoverRows
  <2>5. b \in OpenAttempts(s) => status'[b] = "superseded"
    BY RecoverRows
  <2>6. Open(b)' => b \in OpenAttempts(s)
    BY <1>1, <1>2, <2>3 DEF OpenAttempts
  <2> QED
    BY <2>4, <2>5, <2>6 DEF Open
<1>3. ASSUME NEW a \in Nodes, NEW b \in Nodes, New(a), New(b), parent'[a] = parent'[b]
      PROVE  a = b
  <2>1. \A s \in RootsOfRecovery(r, e) : parent'[at[s]] = s
    BY RecoverRows
  <2> QED
    BY <1>3, <2>1
<1>4. \A a \in Nodes : gen'[a] \in Nat
  BY RecoverRows
<1> HIDE DEF New
<1>5. OneOpenAttempt'
  BY <1>1, <1>2, <1>3 DEF OneOpenAttempt
<1>6. ASSUME NEW a \in Nodes, NEW b \in Nodes, role'[a] = "attempt", role'[b] = "attempt",
             parent'[a] = parent'[b], a # b
      PROVE  gen'[a] # gen'[b] /\ (Open(a)' => gen'[b] < gen'[a])
  <2>1. CASE New(a)
    BY <1>2, <1>3, <1>4, <1>6, <2>1
  <2>2. CASE ~New(a) /\ New(b)
    BY <1>2, <1>4, <1>6, <2>2
  <2>3. CASE ~New(a) /\ ~New(b)
    BY <1>1, <1>6, <2>3 DEF OpenAttemptIsNewest
  <2> QED
    BY <2>1, <2>2, <2>3
<1> QED
  BY <1>5, <1>6 DEF OpenAttemptIsNewest

(* A close makes no attempt and opens none.                                   *)
LEMMA CloseAttempts ==
    ASSUME TypeOK, NEW n \in Nodes, Open(n), NEW resolution \in Resolutions,
           NEW outcome \in WatchOutcomes, CloseWith(n, resolution, outcome), UNCHANGED work
    PROVE  NoNewAttempt
  BY CloseRows DEF NoNewAttempt, Open, Resolutions, work

(* Every step keeps the open attempt of a root alone and newest.              *)
LEMMA AttemptStep ==
    ASSUME TypeOK, Shape, OneOpenAttempt, OpenAttemptIsNewest, [Next]_vars
    PROVE  OneOpenAttempt' /\ OpenAttemptIsNewest'
<1>1. ASSUME NEW r \in Nodes, NEW a \in Nodes, NEW e \in Endpoints \cup {Null},
             NEW t \in Endpoints, NEW m \in Modes,
             OpenWork(r, a, e, t, m)
      PROVE  OneOpenAttempt' /\ OpenAttemptIsNewest'
  BY <1>1, OpeningAttempts
<1>2. ASSUME NEW d \in Nodes, NEW p \in Nodes, NEW e \in Endpoints,
             NEW to \in Endpoints \cup Principals,
             OfferHandoff(d, p, e, to)
      PROVE  OneOpenAttempt' /\ OpenAttemptIsNewest'
  <2>1. NoNewAttempt
    BY <1>2 DEF OfferHandoff, Unused, NoNewAttempt, Open, work, TypeOK
  <2> QED
    BY <2>1, AttemptsStay
<1>3. ASSUME NEW d \in Nodes, NEW e \in Endpoints,
             AcceptHandoff(d, e)
      PROVE  OneOpenAttempt' /\ OpenAttemptIsNewest'
  <2>1. NoNewAttempt
    BY <1>3 DEF AcceptHandoff, NoNewAttempt, Open, work, TypeOK
  <2> QED
    BY <2>1, AttemptsStay
<1>4. ASSUME NEW d \in Nodes, NEW e \in Endpoints,
             DeclineHandoff(d, e)
      PROVE  OneOpenAttempt' /\ OpenAttemptIsNewest'
  <2>1. NoNewAttempt
    BY <1>4 DEF DeclineHandoff, NoNewAttempt, Open, work, TypeOK
  <2> QED
    BY <2>1, AttemptsStay
<1>5. ASSUME NEW n \in Nodes, NEW e \in Endpoints,
             CloseFulfilled(n, e)
      PROVE  OneOpenAttempt' /\ OpenAttemptIsNewest'
  <2>1. Open(n) /\ CloseWith(n, "fulfilled", "result") /\ UNCHANGED work
    BY <1>5 DEF CloseFulfilled
  <2>2. "fulfilled" \in Resolutions /\ "result" \in WatchOutcomes
    BY DEF Resolutions, WatchOutcomes
  <2> QED
    BY <2>1, <2>2, CloseAttempts, AttemptsStay
<1>6. ASSUME NEW n \in Nodes, NEW e \in Endpoints,
             CloseCancelled(n, e)
      PROVE  OneOpenAttempt' /\ OpenAttemptIsNewest'
  <2>1. Open(n) /\ CloseWith(n, "cancelled", "child_failed") /\ UNCHANGED work
    BY <1>6 DEF CloseCancelled
  <2>2. "cancelled" \in Resolutions /\ "child_failed" \in WatchOutcomes
    BY DEF Resolutions, WatchOutcomes
  <2> QED
    BY <2>1, <2>2, CloseAttempts, AttemptsStay
<1>7. ASSUME NEW r \in Nodes, NEW e \in Endpoints, NEW kind \in {"fulfilled", "cancelled"},
             NEW fan \in {"endpoint", "route"}, NEW copies \in SUBSET Copies,
             NEW m \in 1..MaxReports,
             StageTerminal(r, e, kind, fan, copies, m)
      PROVE  OneOpenAttempt' /\ OpenAttemptIsNewest'
  <2>1. NoNewAttempt
    BY <1>7 DEF StageTerminal, NoNewAttempt, Open, work, TypeOK
  <2> QED
    BY <2>1, AttemptsStay
<1>8. ASSUME NEW d \in report,
             CompleteDelivered(d)
      PROVE  OneOpenAttempt' /\ OpenAttemptIsNewest'
  <2>1. CASE Confirms(d)
    <3>1. /\ d.root \in Nodes /\ d.kind \in Resolutions /\ Open(d.root)
          /\ "child_failed" \in WatchOutcomes
      BY <2>1 DEF Confirms, Report, Resolutions, WatchOutcomes, TypeOK
    <3>2. CloseWith(d.root, d.kind, "child_failed") /\ UNCHANGED work
      BY <1>8, <2>1 DEF CompleteDelivered
    <3> QED
      BY <3>1, <3>2, CloseAttempts, AttemptsStay
  <2>2. CASE ~Confirms(d)
    <3>1. NoNewAttempt
      BY <1>8, <2>2 DEF CompleteDelivered, NoNewAttempt, Open, work
    <3> QED
      BY <3>1, AttemptsStay
  <2> QED
    BY <2>1, <2>2
<1>9. ASSUME NEW d \in report,
             CompleteFailed(d)
      PROVE  OneOpenAttempt' /\ OpenAttemptIsNewest'
  <2>1. NoNewAttempt
    BY <1>9 DEF CompleteFailed, NoNewAttempt, Open, work, TypeOK
  <2> QED
    BY <2>1, AttemptsStay
<1>10. ASSUME NEW d \in report,
             ClaimAgain(d)
      PROVE  OneOpenAttempt' /\ OpenAttemptIsNewest'
  <2>1. NoNewAttempt
    BY <1>10 DEF ClaimAgain, NoNewAttempt, Open, work, TypeOK
  <2> QED
    BY <2>1, AttemptsStay
<1>11. ASSUME NEW d \in Nodes,
             ExpireOffer(d)
      PROVE  OneOpenAttempt' /\ OpenAttemptIsNewest'
  <2>1. NoNewAttempt
    BY <1>11 DEF ExpireOffer, NoNewAttempt, Open, work, TypeOK
  <2> QED
    BY <2>1, AttemptsStay
<1>12. ASSUME NEW e \in Endpoints, NEW lost \in SUBSET Nodes,
             CustodyLost(e, lost)
      PROVE  OneOpenAttempt' /\ OpenAttemptIsNewest'
  <2>1. NoNewAttempt
    BY <1>12 DEF CustodyLost, NoNewAttempt, Open, work, TypeOK
  <2> QED
    BY <2>1, AttemptsStay
<1>13. ASSUME NEW r \in Nodes, NEW e \in Endpoints, NEW switch \in BOOLEAN,
             NEW at \in [{r} \cup Stranded(r, e) -> {n \in Nodes : Unused(n)}],
             Recover(r, e, at, switch)
      PROVE  OneOpenAttempt' /\ OpenAttemptIsNewest'
  BY <1>13, RecoverAttempts
<1>14. ASSUME NEW e \in Endpoints,
             Register(e)
      PROVE  OneOpenAttempt' /\ OpenAttemptIsNewest'
  <2>1. NoNewAttempt
    BY <1>14 DEF Register, NoNewAttempt, Open, work, TypeOK
  <2> QED
    BY <2>1, AttemptsStay
<1>15. ASSUME NEW e \in Endpoints,
             CloseEndpoint(e)
      PROVE  OneOpenAttempt' /\ OpenAttemptIsNewest'
  <2>1. NoNewAttempt
    BY <1>15 DEF CloseEndpoint, NoNewAttempt, Open, work, TypeOK
  <2> QED
    BY <2>1, AttemptsStay
<1>16. ASSUME NEW e \in Endpoints, NEW x \in Endpoints,
             Replace(e, x)
      PROVE  OneOpenAttempt' /\ OpenAttemptIsNewest'
  <2>1. NoNewAttempt
    BY <1>16 DEF Replace, NoNewAttempt, Open, work, TypeOK
  <2> QED
    BY <2>1, AttemptsStay
<1>17. ASSUME NEW r \in Nodes,
             LaunchFailed(r)
      PROVE  OneOpenAttempt' /\ OpenAttemptIsNewest'
  <2>1. NoNewAttempt
    BY <1>17 DEF LaunchFailed, NoNewAttempt, Open, work, TypeOK
  <2> QED
    BY <2>1, AttemptsStay
<1>18. ASSUME UNCHANGED vars PROVE OneOpenAttempt' /\ OpenAttemptIsNewest'
  <2>1. NoNewAttempt
    BY <1>18 DEF vars, NoNewAttempt, Open, work, TypeOK
  <2> QED
    BY <2>1, AttemptsStay
<1> QED
  BY <1>1, <1>2, <1>3, <1>4, <1>5, <1>6, <1>7, <1>8, <1>9, <1>10,
     <1>11, <1>12, <1>13, <1>14, <1>15, <1>16, <1>17, <1>18
  DEF Next, Commit, Deliver, Reconcile, Recovery, RecoveryRetry, RecoverySwitch,
      RecoverAny, EndpointStep

(* A decision stands: no step touches a closed status or an ended watch.      *)
DecisionsKept ==
    \A n \in Nodes : /\ Closed(status[n]) => status'[n] = status[n]
                     /\ Ended(watch[n]) => watch'[n] = watch[n]

(* A close decides only what was undecided.                                   *)
LEMMA CloseKeeps ==
    ASSUME TypeOK, NEW n \in Nodes, Open(n), NEW resolution \in Resolutions,
           NEW outcome \in WatchOutcomes, CloseWith(n, resolution, outcome)
    PROVE  DecisionsKept
<1>1. /\ watch'[n] = IF Armed(n) THEN outcome ELSE watch[n]
      /\ \A x \in Nodes \ {n} :
            /\ status'[x] = IF n \in anc[x] /\ Open(x) THEN "superseded" ELSE status[x]
            /\ watch'[x] = IF n \in anc[x] /\ Armed(x) THEN "child_failed" ELSE watch[x]
  BY CloseRows
<1>2. \A x \in Nodes : Closed(status[x]) => ~Open(x)
  BY DEF Closed, Open, Resolutions
<1>3. \A x \in Nodes : Ended(watch[x]) => ~Armed(x)
  BY DEF Ended, Armed, WatchOutcomes
<1> QED
  BY <1>1, <1>2, <1>3 DEF DecisionsKept

(* No step revises a decision.                                                *)
LEMMA DecisionsStay ==
    ASSUME TypeOK, Shape, [Next]_vars
    PROVE  DecisionsKept
<1>1. ASSUME NEW n \in Nodes, NEW e \in Endpoints,
             CloseFulfilled(n, e)
      PROVE  DecisionsKept
  <2>1. Open(n) /\ CloseWith(n, "fulfilled", "result")
    BY <1>1 DEF CloseFulfilled
  <2>2. "fulfilled" \in Resolutions /\ "result" \in WatchOutcomes
    BY DEF Resolutions, WatchOutcomes
  <2> QED
    BY <2>1, <2>2, CloseKeeps
<1>2. ASSUME NEW n \in Nodes, NEW e \in Endpoints,
             CloseCancelled(n, e)
      PROVE  DecisionsKept
  <2>1. Open(n) /\ CloseWith(n, "cancelled", "child_failed")
    BY <1>2 DEF CloseCancelled
  <2>2. "cancelled" \in Resolutions /\ "child_failed" \in WatchOutcomes
    BY DEF Resolutions, WatchOutcomes
  <2> QED
    BY <2>1, <2>2, CloseKeeps
<1>3. ASSUME NEW d \in report,
             CompleteDelivered(d)
      PROVE  DecisionsKept
  <2>1. CASE Confirms(d)
    <3>1. /\ d.root \in Nodes /\ d.kind \in Resolutions /\ Open(d.root)
          /\ "child_failed" \in WatchOutcomes
      BY <2>1 DEF Confirms, Report, Resolutions, WatchOutcomes, TypeOK
    <3>2. CloseWith(d.root, d.kind, "child_failed")
      BY <1>3, <2>1 DEF CompleteDelivered
    <3> QED
      BY <3>1, <3>2, CloseKeeps
  <2>2. CASE ~Confirms(d)
    BY <1>3, <2>2 DEF CompleteDelivered, DecisionsKept
  <2> QED
    BY <2>1, <2>2
<1>4. ASSUME NEW r \in Nodes, NEW e \in Endpoints, NEW switch \in BOOLEAN,
             NEW at \in [{r} \cup Stranded(r, e) -> {n \in Nodes : Unused(n)}],
             Recover(r, e, at, switch)
      PROVE  DecisionsKept
  <2>1. ASSUME NEW n \in Nodes, Closed(status[n]) PROVE status'[n] = status[n]
    <3>1. \A s \in RootsOfRecovery(r, e) : Unused(at[s])
      BY <1>4, RecoverRows
    <3>2. role[n] # "none"
      BY <2>1 DEF Shape, ShapeOf, Closed, Resolutions
    <3>3. \A s \in RootsOfRecovery(r, e) : at[s] # n
      BY <3>1, <3>2 DEF Unused
    <3>4. status'[n] = status[n] \/ Open(n)
      BY <1>4, <3>3, RecoverRows
    <3> QED
      BY <2>1, <3>4 DEF Closed, Open, Resolutions
  <2>2. ASSUME NEW n \in Nodes, Ended(watch[n]) PROVE watch'[n] = watch[n]
    BY <1>4, <2>2 DEF Recover, WatchAfter, Armed, Ended, WatchOutcomes, TypeOK
  <2> QED
    BY <2>1, <2>2 DEF DecisionsKept
<1> USE DEF TypeOK, DecisionsKept, Closed, Ended, Resolutions, WatchOutcomes, work
<1>5. ASSUME NEW r \in Nodes, NEW a \in Nodes, NEW e \in Endpoints \cup {Null},
             NEW t \in Endpoints, NEW m \in Modes,
             OpenWork(r, a, e, t, m)
      PROVE  DecisionsKept
  BY <1>5 DEF OpenWork, Unused, Shape, ShapeOf
<1>6. ASSUME NEW d \in Nodes, NEW p \in Nodes, NEW e \in Endpoints,
             NEW to \in Endpoints \cup Principals,
             OfferHandoff(d, p, e, to)
      PROVE  DecisionsKept
  BY <1>6 DEF OfferHandoff, Unused, Shape, ShapeOf
<1>7. ASSUME NEW d \in Nodes, NEW e \in Endpoints,
             AcceptHandoff(d, e)
      PROVE  DecisionsKept
  BY <1>7 DEF AcceptHandoff, MayDecide, Open
<1>8. ASSUME NEW d \in Nodes, NEW e \in Endpoints,
             DeclineHandoff(d, e)
      PROVE  DecisionsKept
  BY <1>8 DEF DeclineHandoff, MayDecide, Open
<1>9. ASSUME NEW r \in Nodes, NEW e \in Endpoints, NEW kind \in {"fulfilled", "cancelled"},
             NEW fan \in {"endpoint", "route"}, NEW copies \in SUBSET Copies,
             NEW m \in 1..MaxReports,
             StageTerminal(r, e, kind, fan, copies, m)
      PROVE  DecisionsKept
  BY <1>9 DEF StageTerminal
<1>10. ASSUME NEW d \in report,
             CompleteFailed(d)
      PROVE  DecisionsKept
  BY <1>10 DEF CompleteFailed
<1>11. ASSUME NEW d \in report,
             ClaimAgain(d)
      PROVE  DecisionsKept
  BY <1>11 DEF ClaimAgain
<1>12. ASSUME NEW d \in Nodes,
             ExpireOffer(d)
      PROVE  DecisionsKept
  BY <1>12 DEF ExpireOffer, Open
<1>13. ASSUME NEW e \in Endpoints, NEW lost \in SUBSET Nodes,
             CustodyLost(e, lost)
      PROVE  DecisionsKept
  BY <1>13 DEF CustodyLost, WatchAfter, Armed, Open
<1>14. ASSUME NEW e \in Endpoints,
             Register(e)
      PROVE  DecisionsKept
  BY <1>14 DEF Register
<1>15. ASSUME NEW e \in Endpoints,
             CloseEndpoint(e)
      PROVE  DecisionsKept
  BY <1>15 DEF CloseEndpoint
<1>16. ASSUME NEW e \in Endpoints, NEW x \in Endpoints,
             Replace(e, x)
      PROVE  DecisionsKept
  BY <1>16 DEF Replace
<1>17. ASSUME NEW r \in Nodes,
             LaunchFailed(r)
      PROVE  DecisionsKept
  BY <1>17 DEF LaunchFailed
<1>18. ASSUME UNCHANGED vars PROVE DecisionsKept
  BY <1>18 DEF vars
<1> HIDE DEF TypeOK, DecisionsKept, Closed, Ended, Resolutions, WatchOutcomes, work
<1> QED
  BY <1>1, <1>2, <1>3, <1>4, <1>5, <1>6, <1>7, <1>8, <1>9, <1>10,
     <1>11, <1>12, <1>13, <1>14, <1>15, <1>16, <1>17, <1>18
  DEF Next, Commit, Deliver, Reconcile, Recovery, RecoveryRetry, RecoverySwitch,
      RecoverAny, EndpointStep

(* What a step tells: of delegations it decides itself, of each once, to the *)
(* live end of the parent's lineage; and a result never goes untold.         *)
TellsOnce ==
    /\ told \subseteq told'
    /\ \A w \in told' \ told : /\ ~Ended(watch[w.child]) /\ Ended(watch'[w.child])
                             /\ succ[w.to] = {} /\ epState[w.to] # "closed"
    /\ \A v, w \in told' \ told : v.child = w.child => v = w
    /\ \A d \in Nodes : watch'[d] = "result" /\ watch[d] # "result" =>
            \E w \in told' : w.child = d /\ w.why = "result"

(* What a delegation sends its parent goes to an endpoint that can start.     *)
LEMMA WakeLiving ==
    ASSUME TypeOK, LineageEnds, Shape, NEW d \in Nodes, role[d] = "delegation",
           NEW sender, NEW reason, NEW w \in Wake(d, sender, reason)
    PROVE  /\ w.child = d /\ w.why = reason /\ w.to = ParentOf(d)
           /\ succ[w.to] = {} /\ epState[w.to] # "closed"
<1>1. holder[parent[d]] \in Endpoints
  BY DEF Shape, ShapeOf
<1>2. succ[ParentOf(d)] = {}
  BY <1>1, NewestEnds DEF ParentOf
<1>3. Routable(d, sender) /\ w = [child |-> d, to |-> ParentOf(d), why |-> reason]
  BY DEF Wake
<1> QED
  BY <1>2, <1>3 DEF Routable, Reachable

(* A step that decides one armed delegation and wakes its parent for it.      *)
LEMMA TellsOfOne ==
    ASSUME TypeOK, LineageEnds, Shape, NEW d \in Nodes, role[d] = "delegation",
           NEW sender, NEW reason,
           told' = told \cup Wake(d, sender, reason),
           ~Ended(watch[d]), Ended(watch'[d]),
           \A x \in Nodes : watch'[x] = "result" /\ watch[x] # "result" =>
                x = d /\ reason = "result" /\ Routable(d, sender)
    PROVE  TellsOnce
<1>1. \A w \in told' \ told : w \in Wake(d, sender, reason)
  OBVIOUS
<1>2. \A w \in told' \ told : w.child = d /\ succ[w.to] = {} /\ epState[w.to] # "closed"
  BY <1>1, WakeLiving
<1>3. \A v, w \in told' \ told : v = w
  BY <1>1 DEF Wake
<1>4. ASSUME NEW x \in Nodes, watch'[x] = "result", watch[x] # "result"
      PROVE  \E w \in told' : w.child = x /\ w.why = "result"
  <2>1. [child |-> d, to |-> ParentOf(d), why |-> reason] \in told'
    BY <1>4 DEF Wake
  <2> QED
    BY <1>4, <2>1
<1> QED
  BY <1>2, <1>3, <1>4 DEF TellsOnce

(* A step that tells nothing and fulfils no delegation.                       *)
LEMMA TellsNothing ==
    ASSUME told' = told, \A x \in Nodes : watch'[x] = "result" => watch[x] = "result"
    PROVE  TellsOnce
  BY DEF TellsOnce

(* A close with no result tells nobody.                                       *)
LEMMA CloseTellsNothing ==
    ASSUME TypeOK, NEW n \in Nodes, Open(n), NEW resolution \in Resolutions,
           CloseWith(n, resolution, "child_failed"), told' = told
    PROVE  TellsOnce
<1>1. /\ watch'[n] = IF Armed(n) THEN "child_failed" ELSE watch[n]
      /\ \A x \in Nodes \ {n} :
            watch'[x] = IF n \in anc[x] /\ Armed(x) THEN "child_failed" ELSE watch[x]
  BY CloseRows DEF WatchOutcomes
<1> QED
  BY <1>1, TellsNothing

(* A fulfilled delegation tells its parent, a fulfilled attempt nobody.       *)
LEMMA FulfilledTells ==
    ASSUME TypeOK, LineageEnds, Shape, WatchTracksCustody,
           NEW n \in Nodes, NEW e \in Endpoints, CloseFulfilled(n, e)
    PROVE  TellsOnce
<1>1. /\ Open(n) /\ CloseWith(n, "fulfilled", "result")
      /\ "fulfilled" \in Resolutions /\ "result" \in WatchOutcomes
  BY DEF CloseFulfilled, Resolutions, WatchOutcomes
<1>2. /\ watch'[n] = IF Armed(n) THEN "result" ELSE watch[n]
      /\ \A x \in Nodes \ {n} :
            watch'[x] = IF n \in anc[x] /\ Armed(x) THEN "child_failed" ELSE watch[x]
  BY <1>1, CloseRows
<1>3. CASE role[n] = "delegation"
  <2>1. told' = told \cup Wake(n, e, "result") /\ Routable(n, e)
    BY <1>3 DEF CloseFulfilled
  <2>2. watch[n] \in {"awaiting_acceptance", "awaiting_result"}
    BY <1>1, <1>3 DEF WatchTracksCustody
  <2>3. ~Ended(watch[n]) /\ Ended(watch'[n])
    BY <1>2, <2>2 DEF Ended, Armed, WatchOutcomes
  <2>4. \A x \in Nodes : watch'[x] = "result" /\ watch[x] # "result" => x = n
    BY <1>2
  <2> QED
    BY <1>3, <2>1, <2>3, <2>4, TellsOfOne
<1>4. CASE role[n] # "delegation"
  <2>1. told' = told
    BY <1>4 DEF CloseFulfilled
  <2>2. watch'[n] = watch[n]
    BY <1>2, <1>4 DEF Armed, Shape, ShapeOf
  <2> QED
    BY <1>2, <2>1, <2>2, TellsNothing
<1> QED
  BY <1>3, <1>4

(* A lost custody tells the parent of each delegation it fails, once.         *)
LEMMA LossTells ==
    ASSUME TypeOK, LineageEnds, Shape, WatchTracksCustody,
           NEW e \in Endpoints, NEW lost \in SUBSET Nodes, CustodyLost(e, lost)
    PROVE  TellsOnce
<1> DEFINE children == {d \in lost : role[d] = "delegation"}
           wakes == UNION {Wake(d, Null, "custody_lost") : d \in children}
<1>1. told' = told \cup wakes /\ watch' = WatchAfter(lost, {}, "child_failed")
  BY DEF CustodyLost
<1>2. \A x \in Nodes : watch'[x] = IF Armed(x) /\ x \in lost THEN "child_failed" ELSE watch[x]
  BY <1>1 DEF WatchAfter, TypeOK
<1>3. ASSUME NEW d \in children PROVE ~Ended(watch[d]) /\ Ended(watch'[d]) /\ d \in Nodes
  <2>1. d \in Nodes /\ d \in lost /\ role[d] = "delegation" /\ Open(d) /\ holder[d] = e
    BY DEF CustodyLost
  <2>2. watch[d] = "awaiting_result"
    BY <2>1, ConstantsAssumption DEF WatchTracksCustody
  <2> QED
    BY <1>2, <2>1, <2>2 DEF Armed, Ended, WatchOutcomes
<1>4. ASSUME NEW w \in wakes
      PROVE  /\ w.child \in children /\ w.why = "custody_lost" /\ w.to = ParentOf(w.child)
             /\ w \in Wake(w.child, Null, "custody_lost")
             /\ succ[w.to] = {} /\ epState[w.to] # "closed"
  <2>1. PICK d \in children : w \in Wake(d, Null, "custody_lost")
    OBVIOUS
  <2>2. d \in Nodes /\ role[d] = "delegation"
    BY <1>3
  <2> QED
    BY <2>1, <2>2, WakeLiving
<1>5. \A v, w \in wakes : v.child = w.child => v = w
  BY <1>4 DEF Wake
<1> HIDE DEF wakes, children
<1>6. \A w \in told' \ told : w \in wakes
  BY <1>1
<1> QED
  BY <1>1, <1>2, <1>3, <1>4, <1>5, <1>6 DEF TellsOnce

(* Every step tells of a delegation only what it decides, to the living.      *)
LEMMA TellingStep ==
    ASSUME TypeOK, LineageEnds, Shape, WatchTracksCustody, [Next]_vars
    PROVE  TellsOnce
<1>1. ASSUME NEW n \in Nodes, NEW e \in Endpoints,
             CloseFulfilled(n, e)
      PROVE  TellsOnce
  BY <1>1, FulfilledTells
<1>2. ASSUME NEW r \in Nodes, NEW a \in Nodes, NEW e \in Endpoints \cup {Null},
             NEW t \in Endpoints, NEW m \in Modes,
             OpenWork(r, a, e, t, m)
      PROVE  TellsOnce
  BY <1>2, TellsNothing DEF OpenWork, TypeOK
<1>3. ASSUME NEW d \in Nodes, NEW p \in Nodes, NEW e \in Endpoints,
             NEW to \in Endpoints \cup Principals,
             OfferHandoff(d, p, e, to)
      PROVE  TellsOnce
  BY <1>3, TellsNothing DEF OfferHandoff, TypeOK
<1>4. ASSUME NEW d \in Nodes, NEW e \in Endpoints,
             AcceptHandoff(d, e)
      PROVE  TellsOnce
  BY <1>4, TellsNothing DEF AcceptHandoff, TypeOK
<1>5. ASSUME NEW d \in Nodes, NEW e \in Endpoints,
             DeclineHandoff(d, e)
      PROVE  TellsOnce
  <2>1. /\ role[d] = "delegation" /\ watch[d] = "awaiting_acceptance"
        /\ watch' = [watch EXCEPT ![d] = "declined"] /\ told' = told \cup Wake(d, e, "declined")
    BY <1>5 DEF DeclineHandoff, MayDecide
  <2>2. \A x \in Nodes : watch'[x] = IF x = d THEN "declined" ELSE watch[x]
    BY <2>1 DEF TypeOK
  <2> QED
    BY <2>1, <2>2, TellsOfOne DEF Ended, WatchOutcomes
<1>6. ASSUME NEW n \in Nodes, NEW e \in Endpoints,
             CloseCancelled(n, e)
      PROVE  TellsOnce
  <2>1. "cancelled" \in Resolutions
    BY DEF Resolutions
  <2> QED
    BY <1>6, <2>1, CloseTellsNothing DEF CloseCancelled
<1>7. ASSUME NEW r \in Nodes, NEW e \in Endpoints, NEW kind \in {"fulfilled", "cancelled"},
             NEW fan \in {"endpoint", "route"}, NEW copies \in SUBSET Copies,
             NEW m \in 1..MaxReports,
             StageTerminal(r, e, kind, fan, copies, m)
      PROVE  TellsOnce
  BY <1>7, TellsNothing DEF StageTerminal, TypeOK
<1>8. ASSUME NEW d \in report,
             CompleteDelivered(d)
      PROVE  TellsOnce
  <2>1. CASE Confirms(d)
    <3>1. d.root \in Nodes /\ d.kind \in Resolutions /\ Open(d.root)
      BY <2>1 DEF Confirms, Report, Resolutions, TypeOK
    <3>2. CloseWith(d.root, d.kind, "child_failed") /\ told' = told
      BY <1>8, <2>1 DEF CompleteDelivered
    <3> QED
      BY <3>1, <3>2, CloseTellsNothing
  <2>2. CASE ~Confirms(d)
    BY <1>8, <2>2, TellsNothing DEF CompleteDelivered
  <2> QED
    BY <2>1, <2>2
<1>9. ASSUME NEW d \in report,
             CompleteFailed(d)
      PROVE  TellsOnce
  BY <1>9, TellsNothing DEF CompleteFailed, TypeOK
<1>10. ASSUME NEW d \in report,
             ClaimAgain(d)
      PROVE  TellsOnce
  BY <1>10, TellsNothing DEF ClaimAgain, TypeOK
<1>11. ASSUME NEW d \in Nodes,
             ExpireOffer(d)
      PROVE  TellsOnce
  <2>1. /\ watch[d] = "awaiting_acceptance" /\ told' = told \cup Wake(d, Null, "expired")
        /\ watch' = [watch EXCEPT ![d] = "acceptance_expired"]
    BY <1>11 DEF ExpireOffer
  <2>2. role[d] = "delegation"
    BY <2>1 DEF Shape, ShapeOf
  <2>3. \A x \in Nodes : watch'[x] = IF x = d THEN "acceptance_expired" ELSE watch[x]
    BY <2>1 DEF TypeOK
  <2> QED
    BY <2>1, <2>2, <2>3, TellsOfOne DEF Ended, WatchOutcomes
<1>12. ASSUME NEW e \in Endpoints, NEW lost \in SUBSET Nodes,
             CustodyLost(e, lost)
      PROVE  TellsOnce
  BY <1>12, LossTells
<1>13. ASSUME NEW r \in Nodes, NEW e \in Endpoints, NEW switch \in BOOLEAN,
             NEW at \in [{r} \cup Stranded(r, e) -> {n \in Nodes : Unused(n)}],
             Recover(r, e, at, switch)
      PROVE  TellsOnce
  <2>1. told' = told /\ \A x \in Nodes : watch'[x] = "result" => watch[x] = "result"
    BY <1>13 DEF Recover, WatchAfter, TypeOK
  <2> QED
    BY <2>1, TellsNothing
<1>14. ASSUME NEW e \in Endpoints,
             Register(e)
      PROVE  TellsOnce
  BY <1>14, TellsNothing DEF Register, TypeOK
<1>15. ASSUME NEW e \in Endpoints,
             CloseEndpoint(e)
      PROVE  TellsOnce
  BY <1>15, TellsNothing DEF CloseEndpoint, TypeOK
<1>16. ASSUME NEW e \in Endpoints, NEW x \in Endpoints,
             Replace(e, x)
      PROVE  TellsOnce
  BY <1>16, TellsNothing DEF Replace, TypeOK
<1>17. ASSUME NEW r \in Nodes,
             LaunchFailed(r)
      PROVE  TellsOnce
  BY <1>17, TellsNothing DEF LaunchFailed, TypeOK
<1>18. ASSUME UNCHANGED vars PROVE TellsOnce
  BY <1>18, TellsNothing DEF vars
<1> QED
  BY <1>1, <1>2, <1>3, <1>4, <1>5, <1>6, <1>7, <1>8, <1>9, <1>10,
     <1>11, <1>12, <1>13, <1>14, <1>15, <1>16, <1>17, <1>18
  DEF Next, Commit, Deliver, Reconcile, Recovery, RecoveryRetry, RecoverySwitch,
      RecoverAny, EndpointStep

(* Every step keeps each end reported once and each result reported.          *)
LEMMA ReportedStep ==
    ASSUME TypeOK, LineageEnds, Shape, WatchTracksCustody, ReportedOnce, [Next]_vars
    PROVE  ReportedOnce'
<1>1. TellsOnce
  BY TellingStep
<1>2. DecisionsKept
  BY DecisionsStay
<1>3. \A w \in told : w.child \in Nodes /\ Ended(watch[w.child])
  BY DEF ReportedOnce, TypeOK, Told
<1>4. \A w \in told' : Ended(watch'[w.child])
  BY <1>1, <1>2, <1>3 DEF TellsOnce, DecisionsKept
<1>5. ASSUME NEW v \in told', NEW w \in told', v.child = w.child PROVE v = w
  BY <1>1, <1>3, <1>5 DEF TellsOnce, ReportedOnce
<1>6. ASSUME NEW d \in Nodes, watch'[d] = "result"
      PROVE  \E w \in told' : w.child = d /\ w.why = "result"
  BY <1>1, <1>6 DEF TellsOnce, ReportedOnce
<1> QED
  BY <1>4, <1>5, <1>6 DEF ReportedOnce

(* In a step that fulfils a delivery-confirmed root.                          *)
Receipt ==
    \A r \in Nodes :
        Open(r) /\ role[r] = "root" /\ mode[r] # "message_committed"
            /\ status'[r] = "fulfilled" =>
        \E d \in report' :
            /\ d.root = r /\ d.kind = "fulfilled" /\ d.state = "delivered"
            /\ d.fan = "route" => \A x \in report' :
                  x.root = r /\ x.msg = d.msg => x.state = "delivered"

(* A close fulfils no row but its own.                                        *)
LEMMA CloseFulfils ==
    ASSUME TypeOK, NEW n \in Nodes, Open(n), NEW resolution \in Resolutions,
           NEW outcome \in WatchOutcomes, CloseWith(n, resolution, outcome),
           NEW r \in Nodes, Open(r), status'[r] = "fulfilled"
    PROVE  r = n /\ resolution = "fulfilled"
<1>1. /\ status'[n] = resolution
      /\ \A x \in Nodes \ {n} :
            status'[x] = IF n \in anc[x] /\ Open(x) THEN "superseded" ELSE status[x]
  BY CloseRows
<1> QED
  BY <1>1 DEF Open

(* Every step that fulfils a delivery-confirmed root has its receipt.         *)
LEMMA ReceiptStep ==
    ASSUME TypeOK, Shape, [Next]_vars
    PROVE  Receipt
<1>1. ASSUME NEW n \in Nodes, NEW e \in Endpoints,
             CloseFulfilled(n, e)
      PROVE  Receipt
  <2>1. /\ Open(n) /\ CloseWith(n, "fulfilled", "result")
        /\ role[n] = "root" => mode[n] = "message_committed"
        /\ "fulfilled" \in Resolutions /\ "result" \in WatchOutcomes
    BY <1>1 DEF CloseFulfilled, Resolutions, WatchOutcomes
  <2> QED
    BY <2>1, CloseFulfils DEF Receipt
<1>2. ASSUME NEW n \in Nodes, NEW e \in Endpoints,
             CloseCancelled(n, e)
      PROVE  Receipt
  <2>1. /\ Open(n) /\ CloseWith(n, "cancelled", "child_failed")
        /\ "cancelled" \in Resolutions /\ "child_failed" \in WatchOutcomes
    BY <1>2 DEF CloseCancelled, Resolutions, WatchOutcomes
  <2> QED
    BY <2>1, CloseFulfils DEF Receipt
<1>3. ASSUME NEW d \in report,
             CompleteDelivered(d)
      PROVE  Receipt
  <2>1. CASE Confirms(d)
    <3>1. /\ d.root \in Nodes /\ d.kind \in Resolutions /\ Open(d.root)
          /\ "child_failed" \in WatchOutcomes /\ CloseWith(d.root, d.kind, "child_failed")
      BY <1>3, <2>1 DEF CompleteDelivered, Confirms, Report, Resolutions, WatchOutcomes, TypeOK
    <3>2. ASSUME NEW r \in Nodes, Open(r), status'[r] = "fulfilled"
          PROVE  r = d.root /\ d.kind = "fulfilled"
      BY <3>1, <3>2, CloseFulfils
    <3> DEFINE c == [d EXCEPT !.state = "delivered"]
    <3>3. /\ report' = (report \ {d}) \cup {c}
          /\ c.root = d.root /\ c.msg = d.msg /\ c.kind = d.kind /\ c.fan = d.fan
          /\ c.state = "delivered"
      BY <1>3 DEF CompleteDelivered, Settle, TypeOK, Report
    <3> HIDE DEF c
    <3>4. c.fan = "route" => \A x \in report' :
             x.root = d.root /\ x.msg = d.msg => x.state = "delivered"
      BY <2>1, <3>3 DEF Confirms
    <3> QED
      BY <3>2, <3>3, <3>4 DEF Receipt
  <2>2. CASE ~Confirms(d)
    BY <1>3, <2>2 DEF CompleteDelivered, Receipt, Open
  <2> QED
    BY <2>1, <2>2
<1>4. ASSUME NEW r \in Nodes, NEW e \in Endpoints, NEW switch \in BOOLEAN,
             NEW at \in [{r} \cup Stranded(r, e) -> {n \in Nodes : Unused(n)}],
             Recover(r, e, at, switch)
      PROVE  Receipt
  <2>1. ASSUME NEW x \in Nodes, Open(x) PROVE status'[x] # "fulfilled"
    BY <1>4, <2>1, RecoverRows DEF Open
  <2> QED
    BY <2>1 DEF Receipt
<1> USE DEF TypeOK, Receipt, Open, Unused, work
<1>5. ASSUME NEW r \in Nodes, NEW a \in Nodes, NEW e \in Endpoints \cup {Null},
             NEW t \in Endpoints, NEW m \in Modes,
             OpenWork(r, a, e, t, m)
      PROVE  Receipt
  BY <1>5 DEF OpenWork, MayDecide
<1>6. ASSUME NEW d \in Nodes, NEW p \in Nodes, NEW e \in Endpoints,
             NEW to \in Endpoints \cup Principals,
             OfferHandoff(d, p, e, to)
      PROVE  Receipt
  BY <1>6 DEF OfferHandoff, MayDecide
<1>7. ASSUME NEW d \in Nodes, NEW e \in Endpoints,
             AcceptHandoff(d, e)
      PROVE  Receipt
  BY <1>7 DEF AcceptHandoff
<1>8. ASSUME NEW d \in Nodes, NEW e \in Endpoints,
             DeclineHandoff(d, e)
      PROVE  Receipt
  BY <1>8 DEF DeclineHandoff, MayDecide
<1>9. ASSUME NEW r \in Nodes, NEW e \in Endpoints, NEW kind \in {"fulfilled", "cancelled"},
             NEW fan \in {"endpoint", "route"}, NEW copies \in SUBSET Copies,
             NEW m \in 1..MaxReports,
             StageTerminal(r, e, kind, fan, copies, m)
      PROVE  Receipt
  BY <1>9 DEF StageTerminal
<1>10. ASSUME NEW d \in report,
             CompleteFailed(d)
      PROVE  Receipt
  BY <1>10 DEF CompleteFailed
<1>11. ASSUME NEW d \in report,
             ClaimAgain(d)
      PROVE  Receipt
  BY <1>11 DEF ClaimAgain
<1>12. ASSUME NEW d \in Nodes,
             ExpireOffer(d)
      PROVE  Receipt
  BY <1>12 DEF ExpireOffer
<1>13. ASSUME NEW e \in Endpoints, NEW lost \in SUBSET Nodes,
             CustodyLost(e, lost)
      PROVE  Receipt
  BY <1>13 DEF CustodyLost
<1>14. ASSUME NEW e \in Endpoints,
             Register(e)
      PROVE  Receipt
  BY <1>14 DEF Register
<1>15. ASSUME NEW e \in Endpoints,
             CloseEndpoint(e)
      PROVE  Receipt
  BY <1>15 DEF CloseEndpoint
<1>16. ASSUME NEW e \in Endpoints, NEW x \in Endpoints,
             Replace(e, x)
      PROVE  Receipt
  BY <1>16 DEF Replace
<1>17. ASSUME NEW r \in Nodes,
             LaunchFailed(r)
      PROVE  Receipt
  BY <1>17 DEF LaunchFailed
<1>18. ASSUME UNCHANGED vars PROVE Receipt
  BY <1>18 DEF vars
<1> HIDE DEF TypeOK, Receipt, Open, Unused, work
<1> QED
  BY <1>1, <1>2, <1>3, <1>4, <1>5, <1>6, <1>7, <1>8, <1>9, <1>10,
     <1>11, <1>12, <1>13, <1>14, <1>15, <1>16, <1>17, <1>18
  DEF Next, Commit, Deliver, Reconcile, Recovery, RecoveryRetry, RecoverySwitch,
      RecoverAny, EndpointStep

(* A step makes no attempt of a root that has a report in flight.             *)
StagedKept ==
    \A r \in Nodes : role[r] = "root" /\ Staged(r) =>
        \A a \in Nodes : role'[a] = "attempt" /\ parent'[a] = r => ~Unused(a)

(* No step makes an attempt of a staged root.                                 *)
LEMMA StagedStep ==
    ASSUME TypeOK, Shape, [Next]_vars
    PROVE  StagedKept
<1>1. ASSUME NEW r \in Nodes, NEW e \in Endpoints, NEW switch \in BOOLEAN,
             NEW at \in [{r} \cup Stranded(r, e) -> {n \in Nodes : Unused(n)}],
             Recover(r, e, at, switch)
      PROVE  StagedKept
  <2>1. ASSUME NEW s \in RootsOfRecovery(r, e) PROVE ~Staged(s)
    BY <1>1, <2>1 DEF RootsOfRecovery, Stranded, Recover
  <2>2. ASSUME NEW a \in Nodes, Unused(a), role'[a] = "attempt"
        PROVE  \E s \in RootsOfRecovery(r, e) : a = at[s] /\ parent'[a] = s
    BY <1>1, <2>2, RecoverRows DEF Unused
  <2> QED
    BY <2>1, <2>2 DEF StagedKept
<1> USE DEF TypeOK, StagedKept, Unused, work
<1>2. ASSUME NEW r \in Nodes, NEW a \in Nodes, NEW e \in Endpoints \cup {Null},
             NEW t \in Endpoints, NEW m \in Modes,
             OpenWork(r, a, e, t, m)
      PROVE  StagedKept
  BY <1>2 DEF OpenWork
<1>3. ASSUME NEW d \in Nodes, NEW p \in Nodes, NEW e \in Endpoints,
             NEW to \in Endpoints \cup Principals,
             OfferHandoff(d, p, e, to)
      PROVE  StagedKept
  BY <1>3 DEF OfferHandoff
<1>4. ASSUME NEW d \in Nodes, NEW e \in Endpoints,
             AcceptHandoff(d, e)
      PROVE  StagedKept
  BY <1>4 DEF AcceptHandoff
<1>5. ASSUME NEW d \in Nodes, NEW e \in Endpoints,
             DeclineHandoff(d, e)
      PROVE  StagedKept
  BY <1>5 DEF DeclineHandoff
<1>6. ASSUME NEW n \in Nodes, NEW e \in Endpoints,
             CloseFulfilled(n, e)
      PROVE  StagedKept
  BY <1>6 DEF CloseFulfilled
<1>7. ASSUME NEW n \in Nodes, NEW e \in Endpoints,
             CloseCancelled(n, e)
      PROVE  StagedKept
  BY <1>7 DEF CloseCancelled
<1>8. ASSUME NEW r \in Nodes, NEW e \in Endpoints, NEW kind \in {"fulfilled", "cancelled"},
             NEW fan \in {"endpoint", "route"}, NEW copies \in SUBSET Copies,
             NEW m \in 1..MaxReports,
             StageTerminal(r, e, kind, fan, copies, m)
      PROVE  StagedKept
  BY <1>8 DEF StageTerminal
<1>9. ASSUME NEW d \in report,
             CompleteDelivered(d)
      PROVE  StagedKept
  BY <1>9 DEF CompleteDelivered
<1>10. ASSUME NEW d \in report,
             CompleteFailed(d)
      PROVE  StagedKept
  BY <1>10 DEF CompleteFailed
<1>11. ASSUME NEW d \in report,
             ClaimAgain(d)
      PROVE  StagedKept
  BY <1>11 DEF ClaimAgain
<1>12. ASSUME NEW d \in Nodes,
             ExpireOffer(d)
      PROVE  StagedKept
  BY <1>12 DEF ExpireOffer
<1>13. ASSUME NEW e \in Endpoints, NEW lost \in SUBSET Nodes,
             CustodyLost(e, lost)
      PROVE  StagedKept
  BY <1>13 DEF CustodyLost
<1>14. ASSUME NEW e \in Endpoints,
             Register(e)
      PROVE  StagedKept
  BY <1>14 DEF Register
<1>15. ASSUME NEW e \in Endpoints,
             CloseEndpoint(e)
      PROVE  StagedKept
  BY <1>15 DEF CloseEndpoint
<1>16. ASSUME NEW e \in Endpoints, NEW x \in Endpoints,
             Replace(e, x)
      PROVE  StagedKept
  BY <1>16 DEF Replace
<1>17. ASSUME NEW r \in Nodes,
             LaunchFailed(r)
      PROVE  StagedKept
  BY <1>17 DEF LaunchFailed
<1>18. ASSUME UNCHANGED vars PROVE StagedKept
  BY <1>18 DEF vars
<1> HIDE DEF TypeOK, StagedKept, Unused, work
<1> QED
  BY <1>1, <1>2, <1>3, <1>4, <1>5, <1>6, <1>7, <1>8, <1>9, <1>10,
     <1>11, <1>12, <1>13, <1>14, <1>15, <1>16, <1>17, <1>18
  DEF Next, Commit, Deliver, Reconcile, Recovery, RecoveryRetry, RecoverySwitch,
      RecoverAny, EndpointStep

(* How the attempts of an open root r may go on: it has an open one after the *)
(* step, or it had the same attempts before, any of which the step closed     *)
(* only by a result, a cancellation or a marked failure.                      *)
GoesOn(r) ==
    \/ \E a \in Nodes : role'[a] = "attempt" /\ parent'[a] = r /\ status'[a] = "open"
    \/ /\ role[r] = "root" /\ Open(r)
       /\ r \in attention => r \in attention'
       /\ \A a \in Nodes : (role'[a] = "attempt" /\ parent'[a] = r) <=> a \in Attempts(r)
       /\ \A a \in Attempts(r) :
            /\ gen'[a] = gen[a]
            /\ \/ status'[a] = status[a]
               \/ /\ Open(a) /\ status'[a] \in {"fulfilled", "cancelled", "failed"}
                  /\ status'[a] = "failed" => r \in attention'
RootsGoOn == \A r \in Nodes : role'[r] = "root" /\ status'[r] = "open" => GoesOn(r)

(* If the roots go on, an open one left without an attempt is marked.         *)
LEMMA LostFollows ==
    ASSUME TypeOK, OpenAttemptIsNewest, LostRootIsMarked, RootsGoOn
    PROVE  LostRootIsMarked'
<1>1. ASSUME NEW r \in Nodes, role'[r] = "root", status'[r] = "open",
             \A a \in Nodes : role'[a] = "attempt" /\ parent'[a] = r => status'[a] # "open"
      PROVE  \E a \in Nodes :
                /\ role'[a] = "attempt" /\ parent'[a] = r
                /\ \A b \in Nodes : role'[b] = "attempt" /\ parent'[b] = r => gen'[b] <= gen'[a]
                /\ status'[a] \in {"fulfilled", "cancelled", "failed"}
                /\ status'[a] = "failed" => r \in attention'
  <2>1. /\ role[r] = "root" /\ Open(r)
        /\ r \in attention => r \in attention'
        /\ \A a \in Nodes : (role'[a] = "attempt" /\ parent'[a] = r) <=> a \in Attempts(r)
        /\ \A a \in Attempts(r) :
             /\ gen'[a] = gen[a]
             /\ \/ status'[a] = status[a]
                \/ /\ Open(a) /\ status'[a] \in {"fulfilled", "cancelled", "failed"}
                   /\ status'[a] = "failed" => r \in attention'
    BY <1>1 DEF RootsGoOn, GoesOn
  <2>2. CASE OpenAttempts(r) = {}
    <3>1. PICK a \in Attempts(r) :
             /\ \A b \in Attempts(r) : gen[b] <= gen[a]
             /\ status[a] \in {"fulfilled", "cancelled", "failed"}
             /\ status[a] = "failed" => r \in attention
      BY <2>1, <2>2 DEF LostRootIsMarked
    <3>2. a \in Nodes /\ status'[a] = status[a] /\ gen'[a] = gen[a]
      BY <2>1, <3>1 DEF Attempts, Open
    <3> QED
      BY <2>1, <3>1, <3>2
  <2>3. CASE OpenAttempts(r) # {}
    <3>1. PICK a \in Attempts(r) : Open(a)
      BY <2>3 DEF OpenAttempts
    <3>2. a \in Nodes /\ status'[a] # "open"
      BY <1>1, <2>1, <3>1 DEF Attempts
    <3>3. /\ status'[a] \in {"fulfilled", "cancelled", "failed"}
          /\ status'[a] = "failed" => r \in attention'
      BY <2>1, <3>1, <3>2 DEF Open
    <3>4. \A b \in Attempts(r) : gen[b] <= gen[a]
      BY <3>1 DEF OpenAttemptIsNewest, Attempts, TypeOK
    <3> QED
      BY <2>1, <3>1, <3>2, <3>3, <3>4
  <2> QED
    BY <2>2, <2>3
<1> QED
  BY <1>1 DEF LostRootIsMarked, OpenAttempts, Attempts, Open

(* A step that leaves the attempts alone lets every root go on.               *)
LEMMA SameAttempts ==
    ASSUME UNCHANGED <<role, parent, gen>>, attention \subseteq attention',
           \A n \in Nodes : role[n] \in {"root", "attempt"} => status'[n] = status[n]
    PROVE  RootsGoOn
  BY DEF RootsGoOn, GoesOn, Attempts, Open

(* So does a close, which leaves the attempts of other roots alone.           *)
LEMMA CloseGoesOn ==
    ASSUME TypeOK, Shape, NEW n \in Nodes, Open(n),
           NEW resolution \in {"fulfilled", "cancelled"}, NEW outcome \in WatchOutcomes,
           CloseWith(n, resolution, outcome), UNCHANGED <<role, parent, gen, attention>>
    PROVE  RootsGoOn
<1>1. /\ status'[n] = resolution
      /\ \A x \in Nodes \ {n} :
            status'[x] = IF n \in anc[x] /\ Open(x) THEN "superseded" ELSE status[x]
  BY CloseRows DEF Resolutions
<1>2. ASSUME NEW r \in Nodes, role[r] = "root", status'[r] = "open"
      PROVE  GoesOn(r)
  <2>1. r # n /\ Open(r)
    BY <1>1, <1>2 DEF Open
  <2>2. ASSUME NEW a \in Attempts(r)
        PROVE  status'[a] = status[a] \/ (Open(a) /\ status'[a] \in {"fulfilled", "cancelled"})
    <3>1. a \in Nodes /\ anc[a] = {r}
      BY DEF Attempts, Shape, ShapeOf
    <3>2. CASE a = n
      BY <1>1, <3>2
    <3>3. CASE a # n
      BY <1>1, <2>1, <3>1, <3>3
    <3> QED
      BY <3>2, <3>3
  <2>3. \A a \in Attempts(r) : ~(status'[a] = "failed" /\ status'[a] # status[a])
    BY <2>2
  <2>4. \A a \in Nodes : (role'[a] = "attempt" /\ parent'[a] = r) <=> a \in Attempts(r)
    BY DEF Attempts
  <2>5. \A a \in Attempts(r) : gen'[a] = gen[a]
    OBVIOUS
  <2> QED
    BY <1>2, <2>1, <2>2, <2>3, <2>4, <2>5 DEF GoesOn
<1> QED
  BY <1>2 DEF RootsGoOn

(* So does a lost custody, which marks the roots of the attempts it fails.    *)
LEMMA LossGoesOn ==
    ASSUME TypeOK, LineageEnds, Shape, NEW e \in Endpoints, NEW lost \in SUBSET Nodes,
           CustodyLost(e, lost)
    PROVE  RootsGoOn
<1> DEFINE children == {d \in lost : role[d] = "delegation"}
           wakes == UNION {Wake(d, Null, "custody_lost") : d \in children}
           wakened == {w.child : w \in wakes}
<1>1. attention' = attention \cup RootsLeft(lost, wakened)
  BY DEF CustodyLost
<1>2. UNCHANGED <<role, parent, gen>>
  BY DEF CustodyLost, work
<1>3. /\ \A n \in Nodes : status'[n] = IF n \in lost THEN "failed" ELSE status[n]
      /\ \A n \in lost : Open(n) /\ holder[n] = e
  BY DEF CustodyLost
<1>4. wakened \subseteq children
  <2>1. ASSUME NEW d \in children, NEW w \in Wake(d, Null, "custody_lost") PROVE w.child = d
    BY DEF Wake
  <2> QED
    BY <2>1
<1> HIDE DEF wakened, wakes
<1>5. ASSUME NEW r \in Nodes, role[r] = "root", NEW a \in Attempts(r), a \in lost
      PROVE  r \in attention'
  <2>1. a \notin wakened /\ r \in anc[a]
    BY <1>4 DEF Attempts, Shape, ShapeOf
  <2> QED
    BY <1>1, <1>5, <2>1 DEF RootsLeft, RootsOf
<1>6. ASSUME NEW r \in Nodes, role[r] = "root", status'[r] = "open" PROVE GoesOn(r)
  <2>1. Open(r)
    BY <1>3, <1>6 DEF Open
  <2>2. ASSUME NEW a \in Attempts(r)
        PROVE  \/ status'[a] = status[a]
               \/ /\ Open(a) /\ status'[a] \in {"fulfilled", "cancelled", "failed"}
                  /\ status'[a] = "failed" => r \in attention'
    BY <1>3, <1>5, <1>6 DEF Attempts
  <2>3. \A a \in Nodes : (role'[a] = "attempt" /\ parent'[a] = r) <=> a \in Attempts(r)
    BY <1>2 DEF Attempts
  <2> QED
    BY <1>1, <1>2, <1>6, <2>1, <2>2, <2>3 DEF GoesOn
<1> QED
  BY <1>2, <1>6 DEF RootsGoOn

(* So does a recovery, which gives each root it closes attempts of a new one. *)
LEMMA RecoverGoesOn ==
    ASSUME TypeOK, Shape, NEW r \in Nodes, NEW e \in Endpoints, NEW switch \in BOOLEAN,
           NEW at \in [{r} \cup Stranded(r, e) -> {n \in Nodes : Unused(n)}],
           Recover(r, e, at, switch)
    PROVE  RootsGoOn
<1> DEFINE New(n) == \E s \in RootsOfRecovery(r, e) : at[s] = n
<1>1. attention' = attention \ RootsOfRecovery(r, e)
  BY DEF Recover, Admit, RootsOfRecovery
<1>2. ASSUME NEW s \in RootsOfRecovery(r, e)
      PROVE  /\ at[s] \in Nodes /\ role'[at[s]] = "attempt"
             /\ parent'[at[s]] = s /\ status'[at[s]] = "open"
  BY RecoverRows
<1>3. ASSUME NEW n \in Nodes, ~New(n)
      PROVE  /\ role'[n] = role[n] /\ parent'[n] = parent[n] /\ gen'[n] = gen[n]
             /\ \/ status'[n] = status[n]
                \/ /\ status'[n] = "superseded"
                   /\ role[n] = "attempt" => parent[n] \in RootsOfRecovery(r, e)
  BY <1>3, RecoverRows
<1>4. ASSUME NEW n \in Nodes, New(n) PROVE role[n] = "none" /\ role'[n] = "attempt"
                                          /\ parent'[n] \in RootsOfRecovery(r, e)
  BY <1>4, RecoverRows DEF Unused
<1> HIDE DEF New
<1>5. ASSUME NEW q \in Nodes, role'[q] = "root", status'[q] = "open" PROVE GoesOn(q)
  <2>1. CASE q \in RootsOfRecovery(r, e)
    BY <1>2, <2>1 DEF GoesOn
  <2>2. CASE q \notin RootsOfRecovery(r, e)
    <3>1. role[q] = "root" /\ Open(q)
      BY <1>3, <1>4, <1>5 DEF Open
    <3>2. q \in attention => q \in attention'
      BY <1>1, <2>2
    <3>3. \A a \in Nodes : (role'[a] = "attempt" /\ parent'[a] = q) <=> a \in Attempts(q)
      BY <1>3, <1>4, <2>2 DEF Attempts
    <3>4. \A a \in Attempts(q) : gen'[a] = gen[a] /\ status'[a] = status[a]
      BY <1>3, <1>4, <2>2 DEF Attempts
    <3> QED
      BY <3>1, <3>2, <3>3, <3>4 DEF GoesOn
  <2> QED
    BY <2>1, <2>2
<1> QED
  BY <1>5 DEF RootsGoOn

(* Every step lets every open root go on.                                     *)
LEMMA RootsStep ==
    ASSUME TypeOK, LineageEnds, Shape, [Next]_vars
    PROVE  RootsGoOn
<1>1. ASSUME NEW r \in Nodes, NEW a \in Nodes, NEW e \in Endpoints \cup {Null},
             NEW t \in Endpoints, NEW m \in Modes,
             OpenWork(r, a, e, t, m)
      PROVE  RootsGoOn
  <2>1. /\ role'[a] = "attempt" /\ parent'[a] = r /\ status'[a] = "open" /\ Unused(r)
        /\ role'[r] = "root" /\ Unused(a) /\ attention' = attention
    BY <1>1 DEF OpenWork, TypeOK
  <2>2. \A n \in Nodes \ {r, a} : /\ role'[n] = role[n] /\ parent'[n] = parent[n]
                                  /\ gen'[n] = gen[n] /\ status'[n] = status[n]
    BY <1>1 DEF OpenWork, TypeOK
  <2>3. \A q \in Nodes \ {r} : role'[q] = "root" /\ status'[q] = "open" => GoesOn(q)
    BY <2>1, <2>2 DEF GoesOn, Attempts, Unused, Open
  <2>4. GoesOn(r)
    BY <2>1 DEF GoesOn
  <2> QED
    BY <2>3, <2>4 DEF RootsGoOn
<1>2. ASSUME NEW d \in Nodes, NEW p \in Nodes, NEW e \in Endpoints,
             NEW to \in Endpoints \cup Principals,
             OfferHandoff(d, p, e, to)
      PROVE  RootsGoOn
  <2>1. /\ role'[d] = "delegation" /\ Unused(d) /\ attention' = attention
        /\ \A n \in Nodes \ {d} : /\ role'[n] = role[n] /\ parent'[n] = parent[n]
                                  /\ gen'[n] = gen[n] /\ status'[n] = status[n]
    BY <1>2 DEF OfferHandoff, TypeOK
  <2> QED
    BY <2>1 DEF RootsGoOn, GoesOn, Attempts, Unused, Open
<1>3. ASSUME NEW d \in Nodes, NEW e \in Endpoints,
             AcceptHandoff(d, e)
      PROVE  RootsGoOn
  BY <1>3, SameAttempts DEF AcceptHandoff, work
<1>4. ASSUME NEW d \in Nodes, NEW e \in Endpoints,
             DeclineHandoff(d, e)
      PROVE  RootsGoOn
  <2>1. \A n \in Nodes : role[n] \in {"root", "attempt"} => status'[n] = status[n]
    BY <1>4 DEF DeclineHandoff, MayDecide, TypeOK
  <2> QED
    BY <1>4, <2>1, SameAttempts DEF DeclineHandoff, work
<1>5. ASSUME NEW n \in Nodes, NEW e \in Endpoints,
             CloseFulfilled(n, e)
      PROVE  RootsGoOn
  BY <1>5, CloseGoesOn DEF CloseFulfilled, work, WatchOutcomes
<1>6. ASSUME NEW n \in Nodes, NEW e \in Endpoints,
             CloseCancelled(n, e)
      PROVE  RootsGoOn
  BY <1>6, CloseGoesOn DEF CloseCancelled, work, WatchOutcomes
<1>7. ASSUME NEW r \in Nodes, NEW e \in Endpoints, NEW kind \in {"fulfilled", "cancelled"},
             NEW fan \in {"endpoint", "route"}, NEW copies \in SUBSET Copies,
             NEW m \in 1..MaxReports,
             StageTerminal(r, e, kind, fan, copies, m)
      PROVE  RootsGoOn
  BY <1>7, SameAttempts DEF StageTerminal, work
<1>8. ASSUME NEW d \in report,
             CompleteDelivered(d)
      PROVE  RootsGoOn
  <2>1. CASE Confirms(d)
    <3>1. /\ d.root \in Nodes /\ d.kind \in {"fulfilled", "cancelled"} /\ Open(d.root)
          /\ "child_failed" \in WatchOutcomes
      BY <2>1 DEF Confirms, Report, WatchOutcomes, TypeOK
    <3>2. CloseWith(d.root, d.kind, "child_failed") /\ UNCHANGED <<role, parent, gen, attention>>
      BY <1>8, <2>1 DEF CompleteDelivered, work
    <3> QED
      BY <3>1, <3>2, CloseGoesOn
  <2>2. CASE ~Confirms(d)
    BY <1>8, <2>2, SameAttempts DEF CompleteDelivered, work
  <2> QED
    BY <2>1, <2>2
<1>9. ASSUME NEW d \in report,
             CompleteFailed(d)
      PROVE  RootsGoOn
  BY <1>9, SameAttempts DEF CompleteFailed, work
<1>10. ASSUME NEW d \in report,
             ClaimAgain(d)
      PROVE  RootsGoOn
  BY <1>10, SameAttempts DEF ClaimAgain, work
<1>11. ASSUME NEW d \in Nodes,
             ExpireOffer(d)
      PROVE  RootsGoOn
  <2>1. role[d] = "delegation"
    BY <1>11 DEF ExpireOffer, Shape, ShapeOf
  <2>2. \A n \in Nodes : role[n] \in {"root", "attempt"} => status'[n] = status[n]
    BY <1>11, <2>1 DEF ExpireOffer, TypeOK
  <2> QED
    BY <1>11, <2>2, SameAttempts DEF ExpireOffer, work
<1>12. ASSUME NEW e \in Endpoints, NEW lost \in SUBSET Nodes,
             CustodyLost(e, lost)
      PROVE  RootsGoOn
  BY <1>12, LossGoesOn
<1>13. ASSUME NEW r \in Nodes, NEW e \in Endpoints, NEW switch \in BOOLEAN,
             NEW at \in [{r} \cup Stranded(r, e) -> {n \in Nodes : Unused(n)}],
             Recover(r, e, at, switch)
      PROVE  RootsGoOn
  BY <1>13, RecoverGoesOn
<1>14. ASSUME NEW e \in Endpoints,
             Register(e)
      PROVE  RootsGoOn
  BY <1>14, SameAttempts DEF Register, work
<1>15. ASSUME NEW e \in Endpoints,
             CloseEndpoint(e)
      PROVE  RootsGoOn
  BY <1>15, SameAttempts DEF CloseEndpoint, work
<1>16. ASSUME NEW e \in Endpoints, NEW x \in Endpoints,
             Replace(e, x)
      PROVE  RootsGoOn
  BY <1>16, SameAttempts DEF Replace, work
<1>17. ASSUME NEW r \in Nodes,
             LaunchFailed(r)
      PROVE  RootsGoOn
  BY <1>17, SameAttempts DEF LaunchFailed, work
<1>18. ASSUME UNCHANGED vars PROVE RootsGoOn
  BY <1>18, SameAttempts DEF vars
<1> QED
  BY <1>1, <1>2, <1>3, <1>4, <1>5, <1>6, <1>7, <1>8, <1>9, <1>10,
     <1>11, <1>12, <1>13, <1>14, <1>15, <1>16, <1>17, <1>18
  DEF Next, Commit, Deliver, Reconcile, Recovery, RecoveryRetry, RecoverySwitch,
      RecoverAny, EndpointStep

(* Every step marks the roots it leaves without an attempt.                   *)
LEMMA LostStep ==
    ASSUME TypeOK, LineageEnds, Shape, OpenAttemptIsNewest, LostRootIsMarked, [Next]_vars
    PROVE  LostRootIsMarked'
  BY RootsStep, LostFollows

-----------------------------------------------------------------------------
(* Each theorem below needs only part of it, but no part is preserved        *)
(* without the shape of the rows and the end of the lineages.                *)
IInv ==
    /\ Sound
    /\ WatchTracksCustody
    /\ NothingOpenBelowDecided
    /\ OneOpenAttempt
    /\ OpenAttemptIsNewest
    /\ ReportedOnce
    /\ LostRootIsMarked

(* The invariant holds of an empty graph.                                     *)
LEMMA InitInvariant == Init => IInv
<1> SUFFICES ASSUME Init PROVE IInv
  OBVIOUS
<1>1. TypeOK
  BY ConstantsAssumption DEF Init, TypeOK
<1>2. LineageEnds
  BY ConstantsAssumption DEF Init, LineageEnds
<1>3. Shape /\ ReportsAreOfRoots
  BY DEF Init, Shape, ShapeOf, ReportsAreOfRoots
<1>4. WatchTracksCustody /\ OneOpenAttempt /\ OpenAttemptIsNewest
  BY DEF Init, WatchTracksCustody, OneOpenAttempt, OpenAttemptIsNewest
<1>5. NothingOpenBelowDecided
  BY DEF Init, NothingOpenBelowDecided, Open
<1>6. ReportedOnce
  BY DEF Init, ReportedOnce
<1>7. LostRootIsMarked
  BY DEF Init, LostRootIsMarked
<1> QED
  BY <1>1, <1>2, <1>3, <1>4, <1>5, <1>6, <1>7 DEF IInv, Sound

(* Every step preserves the invariant.                                        *)
LEMMA InvariantStep == IInv /\ [Next]_vars => IInv'
<1> SUFFICES ASSUME IInv, [Next]_vars PROVE IInv'
  OBVIOUS
<1>1. /\ TypeOK /\ LineageEnds /\ Shape /\ ReportsAreOfRoots
      /\ WatchTracksCustody /\ NothingOpenBelowDecided
      /\ OneOpenAttempt /\ OpenAttemptIsNewest /\ ReportedOnce
      /\ LostRootIsMarked
  BY DEF IInv, Sound
<1>2. TypeOK' /\ LineageEnds'
  BY <1>1, TypeStep, LineageStep
<1>3. Shape'
  BY <1>1, ShapeStep
<1>4. ReportsAreOfRoots'
  BY <1>1, ReportsStep
<1>5. WatchTracksCustody'
  BY <1>1, WatchStep
<1>6. NothingOpenBelowDecided'
  BY <1>1, DecidedStep
<1>7. OneOpenAttempt' /\ OpenAttemptIsNewest'
  BY <1>1, AttemptStep
<1>8. ReportedOnce'
  BY <1>1, ReportedStep
<1>9. LostRootIsMarked'
  BY <1>1, LostStep
<1> QED
  BY <1>2, <1>3, <1>4, <1>5, <1>6, <1>7, <1>8, <1>9 DEF IInv, Sound

(* Always IInv, the inductive invariant of every theorem below: each          *)
(* transaction of the daemon keeps the shape of the work graph.               *)
THEOREM Invariant == Spec => []IInv
  BY InitInvariant, InvariantStep, PTL DEF Spec

(* Every column keeps its type, whatever the sequence of transactions.        *)
THEOREM TypeCorrect == Spec => []TypeOK
<1>1. IInv => TypeOK
  BY DEF IInv, Sound
<1> QED
  BY <1>1, Invariant, PTL

(* A delegation's watch always tells where its custody is, so no open offer   *)
(* is ever without the armed watch the reconciler expires it by.              *)
THEOREM WatchesTrack == Spec => []WatchTracksCustody
<1>1. IInv => WatchTracksCustody
  BY DEF IInv
<1> QED
  BY <1>1, Invariant, PTL

(* No row is ever open below a fulfilled or cancelled one, or below a decided *)
(* root: the cascade of a close misses nothing, at any depth.                 *)
THEOREM NothingLeftOpen == Spec => []NothingOpenBelowDecided
<1>1. IInv => NothingOpenBelowDecided
  BY DEF IInv
<1> QED
  BY <1>1, Invariant, PTL

(* No root ever has two open attempts: recovery and its inheritance of        *)
(* stranded roots close what they replace.                                    *)
THEOREM AttemptsExclude == Spec => []OneOpenAttempt
<1>1. IInv => OneOpenAttempt
  BY DEF IInv
<1> QED
  BY <1>1, Invariant, PTL

(* The open attempt of a root always has the greatest generation, and no two  *)
(* attempts share one: a generation names one custody.                        *)
THEOREM GenerationsFence == Spec => []OpenAttemptIsNewest
<1>1. IInv => OpenAttemptIsNewest
  BY DEF IInv
<1> QED
  BY <1>1, Invariant, PTL

(* A delegation is reported to its parent at most once, and a fulfilled one   *)
(* always is, whichever transaction decides it.                               *)
THEOREM ToldOnce == Spec => []ReportedOnce
<1>1. IInv => ReportedOnce
  BY DEF IInv
<1> QED
  BY <1>1, Invariant, PTL

(* What a step may not change of the rows it finds.                           *)
Final ==
    \A n \in Nodes :
        /\ Closed(status[n]) => status'[n] = status[n]
        /\ Ended(watch[n]) => watch'[n] = watch[n]
        /\ ~Unused(n) => /\ role'[n] = role[n] /\ parent'[n] = parent[n]
                         /\ gen'[n] = gen[n] /\ offer'[n] = offer[n]
        /\ holder[n] # Null => holder'[n] = holder[n]

(* Every step leaves the rows it finds as the daemon promises.                *)
LEMMA FinalStep ==
    ASSUME IInv, [Next]_vars
    PROVE  Final
<1>1. RowsKept /\ DecisionsKept /\ Shape
  BY RowsStay, DecisionsStay DEF IInv, Sound
<1>2. ASSUME NEW n \in Nodes, holder[n] # Null PROVE ~Unused(n)
  BY <1>1, <1>2 DEF Shape, ShapeOf, Unused
<1>3. \A n \in Nodes : /\ Closed(status[n]) => status'[n] = status[n]
                       /\ Ended(watch[n]) => watch'[n] = watch[n]
  BY <1>1 DEF DecisionsKept
<1>4. \A n \in Nodes : ~Unused(n) =>
        /\ role'[n] = role[n] /\ parent'[n] = parent[n]
        /\ gen'[n] = gen[n] /\ offer'[n] = offer[n]
        /\ holder[n] # Null => holder'[n] = holder[n]
  BY <1>1 DEF RowsKept
<1> QED
  BY <1>2, <1>3, <1>4 DEF Final

(* An open root that nobody works on is one whose newest attempt was decided, *)
(* and is marked for attention if that attempt died: no root is ever lost.    *)
THEOREM NoRootIsLost == Spec => []LostRootIsMarked
<1>1. IInv => LostRootIsMarked
  BY DEF IInv
<1> QED
  BY <1>1, Invariant, PTL

(* No step changes a decided row, the place of a row in the graph, or a bound *)
(* custodian.                                                                 *)
THEOREM DecisionsStand == Spec => DecidedIsFinal
<1>1. IInv /\ [Next]_vars => Final
  BY FinalStep
<1> QED
  BY <1>1, Invariant, PTL DEF Spec, DecidedIsFinal, Final

(* Every parent report goes to the end of the parent custodian's lineage, and *)
(* that endpoint is not closed when it is sent.                               *)
THEOREM ReportsAreHeard == Spec => ReportsReachTheLiving
<1>1. IInv /\ [Next]_vars =>
        \A w \in told' \ told : succ[w.to] = {} /\ epState[w.to] # "closed"
  BY TellingStep DEF IInv, Sound, TellsOnce
<1> QED
  BY <1>1, Invariant, PTL DEF Spec, ReportsReachTheLiving

(* A delivery-confirmed root is fulfilled only in a step that completes the   *)
(* receipt of one of its fulfilled reports, on every route it went out on.    *)
THEOREM ReceiptsFulfil == Spec => FulfilledOnReceipt
<1>1. IInv /\ [Next]_vars => Receipt
  BY ReceiptStep DEF IInv, Sound
<1> QED
  BY <1>1, Invariant, PTL DEF Spec, FulfilledOnReceipt, Receipt

(* No step, and no recovery in particular, makes an attempt of a root whose   *)
(* report is in flight.                                                       *)
THEOREM StagedRootsKept == Spec => RecoveryLeavesStaged
<1>1. IInv /\ [Next]_vars => StagedKept
  BY StagedStep DEF IInv, Sound
<1> QED
  BY <1>1, Invariant, PTL DEF Spec, RecoveryLeavesStaged, StagedKept

(* After a step that makes an attempt of a later generation, the endpoint it   *)
(* is given to has replaced the holder of no open attempt.                    *)
Adopted ==
    \A a \in Nodes :
        Unused(a) /\ role'[a] = "attempt" /\ gen'[a] > 1 =>
            \A b \in Nodes : role'[b] = "attempt" /\ status'[b] = "open"
                                /\ ~Staged(parent'[b]) =>
                holder'[b] \notin Predecessors(holder'[a])

(* What a recovery does not close of the predecessors' attempts is staged: the  *)
(* root of an open attempt is open, so it is stranded and inherited, and its   *)
(* attempt superseded.                                                       *)
LEMMA RecoverAdopts ==
    ASSUME TypeOK, Shape, NothingOpenBelowDecided,
           NEW r \in Nodes, NEW e \in Endpoints, NEW switch \in BOOLEAN,
           NEW at \in [{r} \cup Stranded(r, e) -> {n \in Nodes : Unused(n)}],
           Recover(r, e, at, switch)
    PROVE  Adopted
<1> SUFFICES ASSUME NEW a \in Nodes, Unused(a), role'[a] = "attempt", NEW b \in Nodes,
                    role'[b] = "attempt", status'[b] = "open", ~Staged(parent'[b]),
                    holder'[b] \in Predecessors(holder'[a])
             PROVE  FALSE
  BY DEF Adopted
<1>1. \A n \in Nodes : (\A s \in RootsOfRecovery(r, e) : at[s] # n) =>
        /\ role'[n] = role[n] /\ parent'[n] = parent[n] /\ holder'[n] = holder[n]
        /\ status'[n] \in {status[n], "superseded"}
  BY RecoverRows
<1>2. \A s \in RootsOfRecovery(r, e) :
        /\ holder'[at[s]] = e /\ \A n \in OpenAttempts(s) : status'[n] = "superseded"
  BY RecoverRows
<1>3. holder'[a] = e
  BY <1>1, <1>2 DEF Unused
<1>4. holder'[b] # e
  BY <1>3 DEF Recover, Predecessors
<1>5. /\ role[b] = "attempt" /\ parent'[b] = parent[b] /\ holder[b] \in Predecessors(e) /\ Open(b)
  BY <1>1, <1>2, <1>3, <1>4 DEF Open
<1>6. PICK s \in Nodes : s = parent[b] /\ role[s] = "root" /\ s \in anc[b] /\ b \in OpenAttempts(s)
  BY <1>5 DEF Shape, ShapeOf, OpenAttempts, Attempts
<1>7. Open(s) /\ ~Staged(s)
  BY <1>5, <1>6 DEF NothingOpenBelowDecided
<1>8. s \in RootsOfRecovery(r, e)
  BY <1>5, <1>6, <1>7 DEF RootsOfRecovery, Stranded, OpenAttempts
<1> QED
  BY <1>2, <1>6, <1>8

(* The other steps open work, whose attempt is of the first generation, offer  *)
(* it, or make no row.                                                       *)
LEMMA AdoptStep ==
    ASSUME TypeOK, Shape, NothingOpenBelowDecided, [Next]_vars
    PROVE  Adopted
<1>1. ASSUME NEW r \in Nodes, NEW e \in Endpoints, NEW switch \in BOOLEAN,
             NEW at \in [{r} \cup Stranded(r, e) -> {n \in Nodes : Unused(n)}],
             Recover(r, e, at, switch)
      PROVE  Adopted
  BY <1>1, RecoverAdopts
<1>2. ASSUME NEW r \in Nodes, NEW a \in Nodes, NEW e \in Endpoints \cup {Null},
             NEW t \in Endpoints, NEW m \in Modes,
             OpenWork(r, a, e, t, m)
      PROVE  Adopted
  <2>1. \A n \in Nodes : Unused(n) /\ role'[n] = "attempt" => gen'[n] = 1
    BY <1>2 DEF OpenWork, TypeOK, Unused
  <2> QED
    BY <2>1 DEF Adopted
<1>3. ASSUME NEW d \in Nodes, NEW p \in Nodes, NEW e \in Endpoints,
             NEW to \in Endpoints \cup Principals,
             OfferHandoff(d, p, e, to)
      PROVE  Adopted
  <2>1. \A n \in Nodes : Unused(n) => role'[n] # "attempt"
    BY <1>3 DEF OfferHandoff, TypeOK, Unused
  <2> QED
    BY <2>1 DEF Adopted
<1>4. ASSUME UNCHANGED role PROVE Adopted
  BY <1>4 DEF Adopted, Unused
<1>5. ASSUME NEW n \in Nodes, NEW e \in Endpoints,
             \/ AcceptHandoff(n, e) \/ DeclineHandoff(n, e)
             \/ CloseFulfilled(n, e) \/ CloseCancelled(n, e)
      PROVE  UNCHANGED role
  BY <1>5 DEF AcceptHandoff, DeclineHandoff, CloseFulfilled, CloseCancelled, work
<1>6. ASSUME NEW r \in Nodes, NEW e \in Endpoints, NEW kind \in {"fulfilled", "cancelled"},
             NEW fan \in {"endpoint", "route"}, NEW copies \in SUBSET Copies,
             NEW m \in 1..MaxReports,
             StageTerminal(r, e, kind, fan, copies, m)
      PROVE  UNCHANGED role
  BY <1>6 DEF StageTerminal, work
<1>7. ASSUME Deliver PROVE UNCHANGED role
  BY <1>7 DEF Deliver, CompleteDelivered, CompleteFailed, ClaimAgain, work
<1>8. ASSUME Reconcile PROVE UNCHANGED role
  BY <1>8 DEF Reconcile, ExpireOffer, CustodyLost, work
<1>9. ASSUME EndpointStep PROVE UNCHANGED role
  BY <1>9 DEF EndpointStep, Register, CloseEndpoint, Replace, LaunchFailed, work
<1>10. ASSUME UNCHANGED vars PROVE UNCHANGED role
  BY <1>10 DEF vars
<1>11. CASE Recovery
  BY <1>1, <1>11 DEF Recovery, RecoveryRetry, RecoverySwitch, RecoverAny
<1>12. CASE Commit
  BY <1>2, <1>3, <1>4, <1>5, <1>6, <1>12 DEF Commit
<1> QED
  BY <1>4, <1>7, <1>8, <1>9, <1>10, <1>11, <1>12 DEF Next

(* A replacement that recovery gives work to adopts every root of its          *)
(* predecessors but those whose report is in flight.                          *)
THEOREM PredecessorsKeepNothing == Spec => ReplacementAdoptsAll
<1>1. IInv /\ [Next]_vars => Adopted
  BY AdoptStep DEF IInv, Sound
<1> QED
  BY <1>1, Invariant, PTL DEF Spec, ReplacementAdoptsAll, Adopted
=============================================================================
