--------------------------- MODULE ObligationGraph ---------------------------
(***************************************************************************)
(* The canonical work graph of the Tightbeam daemon: every transaction of  *)
(* messaging/src/daemon/lifecycle_transition.mjs, custody_reconciler.mjs,  *)
(* watch_reconciler.mjs and the parts of delivery.*, endpoint.* and        *)
(* resumer.mjs that touch it.  A transaction is BEGIN IMMEDIATE on the one *)
(* database of a single synchronous process, so it is one atomic step; a   *)
(* request the code refuses rolls back whole and is no step at all.        *)
(*                                                                         *)
(* Rows of `obligations` are members of Nodes, one variable per column.    *)
(* `status` merges the columns status and resolution (the table's CHECK    *)
(* makes a row open exactly when it has no resolution), `watch` merges the *)
(* state and outcome columns of handoff_watches the same way.              *)
(***************************************************************************)
EXTENDS Integers, FiniteSets

CONSTANTS
    Nodes,          \* obligation ids
    Endpoints,      \* endpoint ids
    Principals,     \* principal ids
    PrincipalOf,    \* endpoints.principal_id, immutable
    Initial,        \* the endpoints registered at the start
    Modes,          \* how the roots of this instance complete
    Copies,         \* the typed deliveries one staged report may fan out to
    MaxReports,     \* bound: terminal reports staged per root
    MaxGen,         \* bound: attempt generations per root
    Null

Resolutions == {"fulfilled", "cancelled", "failed", "superseded"}
WatchOutcomes == {"result", "declined", "acceptance_expired", "child_failed"}
AllModes == {"message_committed", "delivery_confirmed", "origin_route"}

ASSUME ConstantsAssumption ==
    /\ PrincipalOf \in [Endpoints -> Principals]
    /\ Initial \subseteq Endpoints
    /\ Modes \subseteq AllModes
    /\ MaxReports \in Nat
    /\ MaxGen \in Nat
    /\ Null \notin Nodes \cup Endpoints \cup Principals
    /\ Endpoints \cap Principals = {}

VARIABLES
    role,       \* none (no such row) | root | attempt | delegation
    parent,     \* parent_id
    anc,        \* the ids a walk up parent_id meets (parent_id is never updated)
    status,     \* none | open | a resolution
    gen,        \* generation
    holder,     \* custodian_endpoint_id
    offer,      \* the exact endpoint or the principal an offer was routed to
    watch,      \* none | awaiting_acceptance | awaiting_result | an outcome
    told,       \* parent deliveries made for decided delegations
    attention,  \* root_attention rows
    mode,       \* how a root completes (open effect audit and origin route)
    opener,     \* the endpoint that sent the root's opening message
    report,     \* typed close.delivery_confirmed deliveries
    epState,    \* endpoints.state: absent | open (busy, idle, dead) | closed
    joined,     \* endpoints whose process_generation is not NULL
    succ        \* resume lineage: every later replacement of an endpoint

work == <<role, parent, anc, gen, offer, mode, opener>>
lineage == <<epState, joined, succ>>
vars == <<role, parent, anc, status, gen, holder, offer, watch, told,
          attention, mode, opener, report, epState, joined, succ>>

Report == [root: Nodes, msg: 1..MaxReports, kind: {"fulfilled", "cancelled"},
           fan: {"endpoint", "route"}, copy: Copies,
           state: {"active", "delivered", "failed"}]
Told == [child: Nodes, to: Endpoints,
         why: {"result", "declined", "expired", "custody_lost"}]

TypeOK ==
    /\ role \in [Nodes -> {"none", "root", "attempt", "delegation"}]
    /\ parent \in [Nodes -> Nodes \cup {Null}]
    /\ anc \in [Nodes -> SUBSET Nodes]
    /\ status \in [Nodes -> {"none", "open"} \cup Resolutions]
    /\ gen \in [Nodes -> Nat]
    /\ holder \in [Nodes -> Endpoints \cup {Null}]
    /\ offer \in [Nodes -> Endpoints \cup Principals \cup {Null}]
    /\ watch \in [Nodes -> {"none", "awaiting_acceptance", "awaiting_result"}
                            \cup WatchOutcomes]
    /\ told \subseteq Told
    /\ attention \subseteq Nodes
    /\ mode \in [Nodes -> AllModes \cup {Null}]
    /\ opener \in [Nodes -> Endpoints \cup {Null}]
    /\ report \subseteq Report
    /\ epState \in [Endpoints -> {"absent", "open", "closed"}]
    /\ joined \subseteq Endpoints
    /\ succ \in [Endpoints -> SUBSET Endpoints]

Init ==
    /\ role = [n \in Nodes |-> "none"]
    /\ parent = [n \in Nodes |-> Null]
    /\ anc = [n \in Nodes |-> {}]
    /\ status = [n \in Nodes |-> "none"]
    /\ gen = [n \in Nodes |-> 0]
    /\ holder = [n \in Nodes |-> Null]
    /\ offer = [n \in Nodes |-> Null]
    /\ watch = [n \in Nodes |-> "none"]
    /\ told = {}
    /\ attention = {}
    /\ mode = [n \in Nodes |-> Null]
    /\ opener = [n \in Nodes |-> Null]
    /\ report = {}
    /\ epState = [e \in Endpoints |-> IF e \in Initial THEN "open" ELSE "absent"]
    /\ joined = Initial
    /\ succ = [e \in Endpoints |-> {}]

-----------------------------------------------------------------------------
(* Reading the graph. *)

Unused(n) == role[n] = "none"
Open(n) == status[n] = "open"
ChildrenOnly(n) == {m \in Nodes : parent[m] = n}    \* mutant of Descendants
Descendants(n) == {m \in Nodes : n \in anc[m]}
RootsOf(S) == {r \in Nodes : role[r] = "root" /\ \E n \in S : r \in anc[n] \cup {n}}
Attempts(r) == {a \in Nodes : role[a] = "attempt" /\ parent[a] = r}
OpenAttempts(r) == {a \in Attempts(r) : Open(a)}
Closed(s) == s \in Resolutions
Ended(w) == w \in WatchOutcomes
Armed(n) == watch[n] \in {"awaiting_acceptance", "awaiting_result"}

(* newestLineageEndpointId: the end of the replacement chain. *)
Newest(e) == IF succ[e] = {} THEN e ELSE CHOOSE x \in succ[e] : succ[x] = {}
Predecessors(e) == {p \in Endpoints : e \in succ[p]}

(* requireActingEndpoint: a process at the endpoint's recorded generation. A *)
(* stale process is refused, and the endpoint's state is not consulted.      *)
Acts(e) == e \in joined
Reachable(e) == epState[e] = "open"

(* requireCustody: the custodian, or for a root the holder of its attempt. *)
InCustody(n, e) ==
    IF role[n] = "root" THEN \E a \in OpenAttempts(n) : holder[a] = e
                        ELSE holder[n] = e
(* requesterCancelRule: the opening endpoint or a lineage replacement of it. *)
Requests(e, r) ==
    /\ role[r] = "root"
    /\ opener[r] # Null
    /\ e = opener[r] \/ e \in succ[opener[r]]

(* hasActiveStagedResolution. *)
Staged(r) == \E d \in report : d.root = r /\ d.state = "active"

(* offerRecipientEndpointIds with the recipient-principal check. *)
MayAnswer(d, e) ==
    IF offer[d] \in Principals THEN PrincipalOf[e] = offer[d]
                               ELSE e = offer[d] \/ e \in succ[offer[d]]

(* createParentResultDelivery: one delivery to the newest replacement of the *)
(* parent's custodian, unless that endpoint is closed or is the sender.      *)
(* The mutant reports to the recorded custodian.                             *)
RecordedParentOf(d) == holder[parent[d]]
ParentOf(d) == Newest(holder[parent[d]])
Routable(d, sender) == Reachable(ParentOf(d)) /\ ParentOf(d) # sender
Wake(d, sender, reason) ==
    IF Routable(d, sender) THEN {[child |-> d, to |-> ParentOf(d), why |-> reason]}
                           ELSE {}

(* supersedeOpenDescendants, below a node closed by the same transaction.   *)
StatusAfter(closing, below, resolution) ==
    [n \in Nodes |-> CASE n \in closing -> resolution
                       [] n \in below \ closing /\ Open(n) -> "superseded"
                       [] OTHER -> status[n]]
(* And the watches it closes with them; the mutant leaves those below armed. *)
WatchAfterOwn(delegations, below, outcome) ==
    [n \in Nodes |-> IF Armed(n) /\ n \in delegations THEN outcome ELSE watch[n]]
WatchAfter(delegations, below, outcome) ==
    [n \in Nodes |-> CASE Armed(n) /\ n \in delegations -> outcome
                       [] Armed(n) /\ n \in below \ delegations -> "child_failed"
                       [] OTHER -> watch[n]]

-----------------------------------------------------------------------------
(* message.commit with an effect: one action per effect writer.             *)

(* applyOpen: a root and its first attempt, in the custody of the target's  *)
(* newest replacement. An inbound opening has no requester endpoint, and    *)
(* only an inbound opening can carry an origin route.                       *)
OpenWork(r, a, e, t, m) ==
    /\ r # a /\ Unused(r) /\ Unused(a)
    /\ \/ Acts(e) /\ m # "origin_route"
       \/ e = Null
    /\ epState[t] # "absent" /\ Reachable(Newest(t))
    /\ role' = [role EXCEPT ![r] = "root", ![a] = "attempt"]
    /\ parent' = [parent EXCEPT ![a] = r]
    /\ anc' = [anc EXCEPT ![a] = {r}]
    /\ status' = [status EXCEPT ![r] = "open", ![a] = "open"]
    /\ gen' = [gen EXCEPT ![r] = 1, ![a] = 1]
    /\ holder' = [holder EXCEPT ![a] = Newest(t)]
    /\ mode' = [mode EXCEPT ![r] = m]
    /\ opener' = [opener EXCEPT ![r] = e]
    /\ UNCHANGED <<offer, watch, told, attention, report, lineage>>

(* applyHandoffOffer: an endpointless delegation and its watch. `to` is the *)
(* recipient principal, or the newest replacement of an exact recipient.    *)
OfferHandoff(d, p, e, to) ==
    /\ Unused(d)
    /\ Acts(e) /\ role[p] \in {"attempt", "delegation"} /\ Open(p) /\ holder[p] = e
    /\ \/ to \in Principals
       \/ \E x \in Endpoints \ {e} : Reachable(x) /\ to = Newest(x) /\ Reachable(to)
    /\ role' = [role EXCEPT ![d] = "delegation"]
    /\ parent' = [parent EXCEPT ![d] = p]
    /\ anc' = [anc EXCEPT ![d] = anc[p] \cup {p}]
    /\ status' = [status EXCEPT ![d] = "open"]
    /\ gen' = [gen EXCEPT ![d] = 1]
    /\ offer' = [offer EXCEPT ![d] = to]
    /\ watch' = [watch EXCEPT ![d] = "awaiting_acceptance"]
    /\ UNCHANGED <<holder, told, attention, mode, opener, report, lineage>>

(* loadDelegationForRecipientAction: what accept and decline both require.  *)
(* The mutants lack the watch check, and the open check with it.            *)
MayDecideOpen(d, e) ==
    /\ Acts(e) /\ role[d] = "delegation" /\ MayAnswer(d, e) /\ Open(d)
MayDecideAny(d, e) ==
    /\ Acts(e) /\ role[d] = "delegation" /\ MayAnswer(d, e)
MayDecide(d, e) ==
    /\ Acts(e) /\ role[d] = "delegation" /\ MayAnswer(d, e)
    /\ Open(d) /\ watch[d] = "awaiting_acceptance"

(* applyHandoffAccept: the deadline is not consulted, only the watch state. *)
AcceptHandoff(d, e) ==
    /\ MayDecide(d, e) /\ holder[d] = Null
    /\ watch' = [watch EXCEPT ![d] = "awaiting_result"]
    /\ holder' = [holder EXCEPT ![d] = e]
    /\ UNCHANGED <<work, status, told, attention, report, lineage>>

(* applyHandoffDecline: best effort towards the parent, never refused for it. *)
DeclineHandoff(d, e) ==
    /\ MayDecide(d, e)
    /\ status' = [status EXCEPT ![d] = "failed"]
    /\ watch' = [watch EXCEPT ![d] = "declined"]
    /\ told' = told \cup Wake(d, e, "declined")
    /\ UNCHANGED <<work, holder, attention, report, lineage>>

(* Closing a node: the cascade below it, in the same transaction.           *)
CloseWith(n, resolution, outcome) ==
    /\ status' = StatusAfter({n}, Descendants(n), resolution)
    /\ watch' = WatchAfter({n}, Descendants(n), outcome)

(* applyCloseFulfilled, when nothing is staged. A delegation must have an    *)
(* armed watch and a parent that can be told, or the commit is refused.      *)
CloseFulfilled(n, e) ==
    /\ Acts(e) /\ Open(n) /\ InCustody(n, e)
    /\ role[n] = "root" => mode[n] = "message_committed"
    /\ role[n] = "delegation" => ~Ended(watch[n]) /\ Routable(n, e)
    /\ CloseWith(n, "fulfilled", "result")
    /\ told' = told \cup IF role[n] = "delegation" THEN Wake(n, e, "result") ELSE {}
    /\ UNCHANGED <<work, holder, attention, report, lineage>>

(* applyCloseCancelled, when nothing is staged: the holder, or the requester *)
(* of a root. A cancelled delegation wakes nobody.                           *)
CloseCancelled(n, e) ==
    /\ Acts(e) /\ Open(n)
    /\ InCustody(n, e) \/ Requests(e, n)
    /\ role[n] = "root" => mode[n] # "origin_route"
    /\ CloseWith(n, "cancelled", "child_failed")
    /\ UNCHANGED <<work, holder, told, attention, report, lineage>>

(* stageDeliveryConfirmedTerminal with the fan-out of the same commit: the   *)
(* whole chain stays open. An origin root reports on its one origin route;   *)
(* otherwise the report goes to selected routes, or to endpoints of the      *)
(* requester's principal other than the sender, at least one of them open.   *)
StageTerminal(r, e, kind, fan, copies, m) ==
    /\ Acts(e) /\ role[r] = "root" /\ Open(r)
    /\ \/ kind = "fulfilled" /\ mode[r] # "message_committed" /\ InCustody(r, e)
       \/ kind = "cancelled" /\ mode[r] = "origin_route"
                             /\ (InCustody(r, e) \/ Requests(e, r))
    /\ ~Staged(r)
    /\ m = 1 + Cardinality({d.msg : d \in {x \in report : x.root = r}})
    /\ copies # {}
    /\ mode[r] = "origin_route" => fan = "route" /\ Cardinality(copies) = 1
    /\ fan = "endpoint" =>
          /\ opener[r] # Null
          /\ \E x \in Endpoints \ {e} : /\ PrincipalOf[x] = PrincipalOf[opener[r]]
                                        /\ Reachable(x)
    /\ report' = report \cup {[root |-> r, msg |-> m, kind |-> kind, fan |-> fan,
                               copy |-> c, state |-> "active"] : c \in copies}
    /\ UNCHANGED <<work, status, holder, watch, told, attention, lineage>>

-----------------------------------------------------------------------------
(* delivery.claim and delivery.complete on a typed report delivery.         *)

Settle(d, state) == report' = (report \ {d}) \cup {[d EXCEPT !.state = state]}

(* closeStagedDeliveryConfirmedChain's condition on the fan-out: any one     *)
(* requester endpoint, or every selected route. The mutant lacks the count.  *)
ConfirmsAny(d) == Open(d.root)
Confirms(d) ==
    /\ Open(d.root)
    /\ d.fan = "route" => \A x \in report \ {d} :
            x.root = d.root /\ x.msg = d.msg => x.state = "delivered"

CompleteDelivered(d) ==
    /\ d.state = "active"
    /\ Settle(d, "delivered")
    /\ IF Confirms(d) THEN CloseWith(d.root, d.kind, "child_failed")
                      ELSE UNCHANGED <<status, watch>>
    /\ UNCHANGED <<work, holder, told, attention, lineage>>

(* delivery.complete failed, and the exhausted delivery of the auto-claim.   *)
CompleteFailed(d) ==
    /\ d.state = "active"
    /\ Settle(d, "failed")
    /\ attention' = attention \cup IF Open(d.root) THEN {d.root} ELSE {}
    /\ UNCHANGED <<work, status, holder, watch, told, lineage>>

(* delivery.claim naming the delivery's id: no guard on the delivery's state. *)
ClaimAgain(d) ==
    /\ d.state # "active"
    /\ Settle(d, "active")
    /\ UNCHANGED <<work, status, holder, watch, told, attention, lineage>>

-----------------------------------------------------------------------------
(* The reconcilers.                                                         *)

(* decideExpiredWatch on a row of the scan of runWatchReconciliation. The    *)
(* deadline is an absolute time, so it passes at a moment the model leaves   *)
(* open; until the reconciler's next tick an overdue offer can be accepted.  *)
ExpireOffer(d) ==
    /\ watch[d] = "awaiting_acceptance"
    /\ Open(d) /\ holder[d] = Null
    /\ status' = [status EXCEPT ![d] = "failed"]
    /\ watch' = [watch EXCEPT ![d] = "acceptance_expired"]
    /\ told' = told \cup Wake(d, Null, "expired")
    /\ UNCHANGED <<work, holder, attention, report, lineage>>

(* The roots a lost custody is marked on: of attempts, and of delegations    *)
(* whose parent could not be told. The mutant forgets the attempts.          *)
DelegationRootsLeft(lost, wakened) ==
    RootsOf({n \in lost \ wakened : role[n] = "delegation"})
RootsLeft(lost, wakened) == RootsOf(lost \ wakened)

(* reconcileCustodyLoss past its fences: `lost` is what the evidence         *)
(* captured and the endpoint still holds.                                    *)
CustodyLost(e, lost) ==
    /\ Reachable(e)
    /\ lost # {} /\ lost \subseteq {n \in Nodes : Open(n) /\ holder[n] = e}
    /\ status' = [n \in Nodes |-> IF n \in lost THEN "failed" ELSE status[n]]
    /\ watch' = WatchAfter(lost, {}, "child_failed")
    /\ LET children == {d \in lost : role[d] = "delegation"}
           wakes == UNION {Wake(d, Null, "custody_lost") : d \in children}
       IN  /\ told' = told \cup wakes
           /\ attention' = attention \cup
                RootsLeft(lost, {w.child : w \in wakes})
    /\ UNCHANGED <<work, holder, report, lineage>>

-----------------------------------------------------------------------------
(* recovery.retry and recovery.switch.                                      *)

(* MAX(generation) + 1 over a root's attempts; the mutant counts open ones.  *)
IsNextGenOfOpen(r, g) ==
    /\ \A a \in OpenAttempts(r) : gen[a] < g
    /\ g = 1 \/ \E a \in OpenAttempts(r) : gen[a] = g - 1
IsNextGen(r, g) ==
    /\ \A a \in Attempts(r) : gen[a] < g
    /\ g = 1 \/ \E a \in Attempts(r) : gen[a] = g - 1
NextGen(r) == CHOOSE g \in 1..MaxGen : IsNextGen(r, g)

(* strandedRootsOf, less the roots inheritStrandedRoots skips. The mutant    *)
(* inherits nothing.                                                         *)
StrandedNone(r, e) == {}
Stranded(r, e) ==
    {s \in Nodes \ {r} :
        /\ role[s] = "root" /\ Open(s) /\ ~Staged(s)
        /\ \E a \in Attempts(s) :
              /\ holder[a] \in Predecessors(e)
              /\ \/ Open(a)
                 \/ /\ status[a] = "failed"
                    /\ \A b \in Attempts(s) : gen[b] <= gen[a]
                    /\ OpenAttempts(s) = {}}

(* admitRecoveryAttempt for every root in `roots`: root s gets the unused    *)
(* row at[s]; `superseded` are the rows this command closes.                 *)
Admit(roots, at, e, superseded) ==
    LET new == {at[s] : s \in roots}
        rootOf(n) == CHOOSE s \in roots : at[s] = n
    IN  /\ role' = [n \in Nodes |-> IF n \in new THEN "attempt" ELSE role[n]]
        /\ parent' = [n \in Nodes |-> IF n \in new THEN rootOf(n) ELSE parent[n]]
        /\ anc' = [n \in Nodes |-> IF n \in new THEN {rootOf(n)} ELSE anc[n]]
        /\ gen' = [n \in Nodes |-> IF n \in new THEN NextGen(rootOf(n)) ELSE gen[n]]
        /\ holder' = [n \in Nodes |-> IF n \in new THEN e ELSE holder[n]]
        /\ status' = [n \in Nodes |-> CASE n \in new -> "open"
                                        [] n \in superseded -> "superseded"
                                        [] OTHER -> status[n]]
        /\ attention' = attention \ roots

(* What the command closes: the subtree, or a replaced predecessor's attempt,*)
(* and the attempts of the inherited roots.                                  *)
SupersededBy(r, inherited, switch) ==
    (UNION {OpenAttempts(s) : s \in inherited})
        \cup (IF switch THEN {n \in Descendants(r) : Open(n)} ELSE OpenAttempts(r))

Recover(r, e, at, switch) ==
    /\ role[r] = "root" /\ Open(r) /\ ~Staged(r)
    /\ Reachable(e) /\ succ[e] = {} /\ Acts(e)
    /\ switch \/ \A a \in OpenAttempts(r) : holder[a] \in Predecessors(e)
    /\ LET inherited == Stranded(r, e)
           roots == {r} \cup inherited
       IN  /\ DOMAIN at = roots
           /\ \A s \in roots : Unused(at[s])
           /\ \A s, t \in roots : at[s] = at[t] => s = t
           /\ \A s \in roots : \E g \in 1..MaxGen : IsNextGen(s, g)
           /\ Admit(roots, at, e, SupersededBy(r, inherited, switch))
           /\ watch' = IF switch THEN WatchAfter({}, Descendants(r), "child_failed")
                                 ELSE watch
    /\ UNCHANGED <<offer, told, mode, opener, report, lineage>>

RecoverAny(r, e, switch) ==
    \E at \in [{r} \cup Stranded(r, e) -> {n \in Nodes : Unused(n)}] :
        Recover(r, e, at, switch)
RecoveryRetry(r, e) == RecoverAny(r, e, FALSE)
RecoverySwitch(r, e) == RecoverAny(r, e, TRUE)

-----------------------------------------------------------------------------
(* The endpoints under the graph.                                           *)

(* endpoint.register: a new row, or the adoption of a placeholder. The       *)
(* revival of a dead endpoint changes nothing the graph reads.               *)
Register(e) ==
    /\ epState[e] # "closed" /\ e \notin joined /\ succ[e] = {}
    /\ epState' = [epState EXCEPT ![e] = "open"]
    /\ joined' = joined \cup {e}
    /\ UNCHANGED <<work, status, holder, watch, told, attention, report, succ>>

(* endpoint.close: the work the endpoint holds stays open in its custody.    *)
CloseEndpoint(e) ==
    /\ Acts(e) /\ Reachable(e)
    /\ epState' = [epState EXCEPT ![e] = "closed"]
    /\ UNCHANGED <<work, status, holder, watch, told, attention, report,
                   joined, succ>>

(* validateRecoveryContextState: the root a replacement is admitted for.     *)
Recoverable(r) ==
    /\ role[r] = "root" /\ Open(r)
    /\ r \in attention \/ OpenAttempts(r) # {}
    /\ \A d \in Descendants(r) :
          role[d] = "delegation" /\ Open(d) => Armed(d)

(* admitReplacement: a sessionless placeholder on the predecessor's          *)
(* principal. The graph itself is left alone.                                *)
Replace(e, x) ==
    /\ Acts(e) /\ succ[e] = {} /\ epState[x] = "absent" /\ succ[x] = {}
    /\ Predecessors(x) = {} /\ PrincipalOf[x] = PrincipalOf[e]
    /\ \E r \in Nodes : Recoverable(r)
    /\ epState' = [epState EXCEPT ![x] = "open"]
    /\ succ' = [p \in Endpoints |-> IF p = e \/ e \in succ[p] THEN succ[p] \cup {x}
                                                              ELSE succ[p]]
    /\ UNCHANGED <<work, status, holder, watch, told, attention, report, joined>>

(* A launch that ends without a session (surfaceLaunchFailure, a refusal,    *)
(* incomplete recovery context) marks the open root it was for.              *)
LaunchFailed(r) ==
    /\ role[r] = "root" /\ Open(r) /\ r \notin attention
    /\ attention' = attention \cup {r}
    /\ UNCHANGED <<work, status, holder, watch, told, report, lineage>>

-----------------------------------------------------------------------------
Commit ==
    \/ \E r, a \in Nodes, e \in Endpoints \cup {Null}, t \in Endpoints, m \in Modes :
          OpenWork(r, a, e, t, m)
    \/ \E d, p \in Nodes, e \in Endpoints, to \in Endpoints \cup Principals :
          OfferHandoff(d, p, e, to)
    \/ \E d \in Nodes, e \in Endpoints : AcceptHandoff(d, e) \/ DeclineHandoff(d, e)
    \/ \E n \in Nodes, e \in Endpoints : CloseFulfilled(n, e) \/ CloseCancelled(n, e)
    \/ \E r \in Nodes, e \in Endpoints, kind \in {"fulfilled", "cancelled"},
          fan \in {"endpoint", "route"}, copies \in SUBSET Copies, m \in 1..MaxReports :
          StageTerminal(r, e, kind, fan, copies, m)

Deliver ==
    \E d \in report : CompleteDelivered(d) \/ CompleteFailed(d) \/ ClaimAgain(d)

Reconcile ==
    \/ \E d \in Nodes : ExpireOffer(d)
    \/ \E e \in Endpoints, lost \in SUBSET Nodes : CustodyLost(e, lost)

Recovery ==
    \E r \in Nodes, e \in Endpoints : RecoveryRetry(r, e) \/ RecoverySwitch(r, e)

EndpointStep ==
    \/ \E e \in Endpoints : Register(e) \/ CloseEndpoint(e)
    \/ \E e, x \in Endpoints : Replace(e, x)
    \/ \E r \in Nodes : LaunchFailed(r)

Next == Commit \/ Deliver \/ Reconcile \/ Recovery \/ EndpointStep

Spec == Init /\ [][Next]_vars

(* The daemon runs the watch reconciler on every resumer tick, and its scan   *)
(* re-selects a row until it is decided.                                      *)
Fairness == \A d \in Nodes : WF_vars(ExpireOffer(d))
FairSpec == Spec /\ Fairness

-----------------------------------------------------------------------------
(* Correctness.                                                             *)

(* A root has at most one open attempt: what the unique index on open       *)
(* attempts enforces by aborting, no transaction here ever runs into.       *)
OneOpenAttempt ==
    \A a, b \in Nodes :
        role[a] = "attempt" /\ role[b] = "attempt" /\ parent[a] = parent[b]
            /\ Open(a) /\ Open(b) => a = b

(* Attempt generations tell the attempts of a root apart, and the open one   *)
(* is the newest: a generation names one custody for ever (INV-06 fencing).  *)
OpenAttemptIsNewest ==
    \A a, b \in Nodes :
        role[a] = "attempt" /\ role[b] = "attempt" /\ parent[a] = parent[b] /\ a # b =>
            /\ gen[a] # gen[b]
            /\ Open(a) => gen[b] < gen[a]

(* A deliberate close leaves nothing open below it, at any depth, and        *)
(* nothing is ever opened below a decided root (supersedeOpenDescendants).   *)
NothingOpenBelowDecided ==
    \A n \in Nodes : Open(n) =>
        \A m \in anc[n] : /\ status[m] \notin {"fulfilled", "cancelled"}
                          /\ role[m] = "root" => Open(m)

(* The watch of a delegation says exactly where its custody is: armed until  *)
(* somebody is bound, awaiting a result while bound, decided when closed.    *)
(* Hence no offer is ever open without the record the reconciler decides it  *)
(* by (the LC-S05 gap session.stop blocks on).                               *)
WatchTracksCustody ==
    \A d \in Nodes : role[d] = "delegation" =>
        /\ Open(d) /\ holder[d] = Null <=> watch[d] = "awaiting_acceptance"
        /\ Open(d) /\ holder[d] # Null <=> watch[d] = "awaiting_result"
        /\ watch[d] = "result" <=> status[d] = "fulfilled"
        /\ watch[d] \in {"declined", "acceptance_expired"} =>
                status[d] = "failed" /\ holder[d] = Null

(* The end of a delegation is reported to its parent at most once, whichever *)
(* of result, decline, expiry and death decided it, and a fulfilled          *)
(* delegation's result always was (INV-11).                                  *)
ReportedOnce ==
    /\ \A w \in told : Ended(watch[w.child])
    /\ \A v, w \in told : v.child = w.child => v = w
    /\ \A d \in Nodes : watch[d] = "result" =>
            \E w \in told : w.child = d /\ w.why = "result"

(* An open root whose newest attempt died, with nobody holding another, is   *)
(* marked for attention until recovery admits an attempt. And an attempt is  *)
(* superseded only by a newer one, so no open root loses its attempt to a    *)
(* supersession alone.                                                       *)
LostRootIsMarked ==
    \A r \in Nodes : role[r] = "root" /\ Open(r) /\ OpenAttempts(r) = {} =>
        \E a \in Attempts(r) :
            /\ \A b \in Attempts(r) : gen[b] <= gen[a]
            /\ status[a] \in {"fulfilled", "cancelled", "failed"}
            /\ status[a] = "failed" => r \in attention

(* A decided resolution, a row's place in the graph, and a bound custodian   *)
(* never change (trg_obligations_closed_immutable).                          *)
DecidedIsFinal ==
    [][\A n \in Nodes :
        /\ Closed(status[n]) => status'[n] = status[n]
        /\ Ended(watch[n]) => watch'[n] = watch[n]
        /\ ~Unused(n) => /\ role'[n] = role[n] /\ parent'[n] = parent[n]
                         /\ gen'[n] = gen[n] /\ offer'[n] = offer[n]
        /\ holder[n] # Null => holder'[n] = holder[n]]_vars

(* A delivery-confirmed root is fulfilled only with a receipt: in the step   *)
(* that closes it some staged fulfilled report reached the requester, and    *)
(* when it went out on routes, reached every one of them (INV-07).           *)
FulfilledOnReceipt ==
    [][\A r \in Nodes :
        Open(r) /\ role[r] = "root" /\ mode[r] # "message_committed"
            /\ status'[r] = "fulfilled" =>
        \E d \in report' :
            /\ d.root = r /\ d.kind = "fulfilled" /\ d.state = "delivered"
            /\ d.fan = "route" => \A x \in report' :
                  x.root = r /\ x.msg = d.msg => x.state = "delivered"]_vars

(* While a report of a root is in flight, the root is decided by nothing but  *)
(* that report's own delivery ("it closes only through that exact delivery", *)
(* stageDeliveryConfirmedTerminal).                                          *)
ClosesThroughExactDelivery ==
    [][\A d \in report : Open(d.root) /\ d.state = "active"
            /\ (\A x \in report : x.root = d.root => x.msg <= d.msg)
            /\ status'[d.root] = "fulfilled" =>
        \E x \in report' : /\ x.root = d.root /\ x.msg = d.msg
                            /\ x.state = "delivered"]_vars

(* A recovery, its inheritance included, never touches a root whose report   *)
(* is in flight: its attempts stay as they are.                              *)
RecoveryLeavesStaged ==
    [][\A r \in Nodes : role[r] = "root" /\ Staged(r) =>
        \A a \in Nodes : role'[a] = "attempt" /\ parent'[a] = r => ~Unused(a)]_vars

(* Once an endpoint is given an attempt by recovery, no endpoint it replaced *)
(* still holds an open attempt of any root whose report is not in flight:    *)
(* the replacement adopted all of its predecessors' roots.                   *)
ReplacementAdoptsAll ==
    [][\A a \in Nodes :
        Unused(a) /\ role'[a] = "attempt" /\ gen'[a] > 1 =>
            \A b \in Nodes : role'[b] = "attempt" /\ status'[b] = "open"
                                /\ ~Staged(parent'[b]) =>
                holder'[b] \notin Predecessors(holder'[a])]_vars

(* A parent report goes to a session that can still be started: the newest   *)
(* of the parent custodian's lineage at that moment, never a superseded one. *)
ReportsReachTheLiving ==
    [][\A w \in told' \ told : succ[w.to] = {} /\ epState[w.to] # "closed"]_vars

(* Every offer is decided: accepted, declined, cancelled, superseded, or      *)
(* expired by the reconciler; no armed watch is left behind by any cascade.  *)
OffersAreDecided ==
    \A d \in Nodes : watch[d] = "awaiting_acceptance" ~> watch[d] # "awaiting_acceptance"
=============================================================================
