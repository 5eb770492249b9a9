---------------------------- MODULE DeliveryClaims ----------------------------
(***************************************************************************)
(* Bounded-lease claims on deliveries: delivery.claim, .complete, .release,  *)
(* the reaping of inbox.list, and the two places of resumer.mjs that settle  *)
(* a delivery under its claimant.  Every operation is one transaction.       *)
(*                                                                         *)
(* claims[d] holds the rows of `claims` for d, oldest first; a token is the  *)
(* index of its row. Time is relative: `left` is what remains of a lease,    *)
(* `wait` what remains of the backoff that starts when the claim ends, so a  *)
(* lease has expired exactly when left = 0. Whether a recipient has read a   *)
(* delivery (read_at) is left open: the operations that spare read rows may  *)
(* spare any.                                                                *)
(***************************************************************************)
EXTENDS Integers, Sequences

CONSTANTS
    Deliveries,     \* delivery ids, ordered by (created_at, id)
    Leases,         \* the lease lengths claimants ask for
    MaxAttempts,    \* MAX_DELIVERY_CLAIM_ATTEMPTS
    RetryBase,      \* DELIVERY_RETRY_BASE_MS
    RetryMax,       \* DELIVERY_RETRY_MAX_MS
    MaxClaims       \* bound: claims naming the delivery's id stop here

ASSUME ClaimConstants ==
    /\ Deliveries \subseteq Nat
    /\ Leases \subseteq Nat \ {0}
    /\ MaxAttempts \in Nat \ {0}
    /\ RetryBase \in Nat /\ RetryMax \in Nat
    /\ MaxClaims \in Nat

VARIABLES
    dstate,     \* deliveries.state, "absent" before the row exists
    claims      \* the claim rows of each delivery

vars == <<dstate, claims>>

RetryDelay(attempts) ==
    LET doubled == RetryBase * 2^(attempts - 1)
    IN  IF doubled \in 0..RetryMax THEN doubled ELSE RetryMax

Claim == [state: {"claimed", "released"},
          outcome: {"none", "expired", "completed", "failed"},
          left: Nat, wait: Nat, attempt: Nat \ {0}]

TypeOK ==
    /\ dstate \in [Deliveries -> {"absent", "pending", "claimed", "delivered", "failed"}]
    /\ claims \in [Deliveries -> Seq(Claim)]

Init ==
    /\ dstate = [d \in Deliveries |-> "absent"]
    /\ claims = [d \in Deliveries |-> <<>>]

-----------------------------------------------------------------------------
Last(d) == claims[d][Len(claims[d])]
Attempts(d) == IF claims[d] = <<>> THEN 0 ELSE Last(d).attempt
HasActive(d) == claims[d] # <<>> /\ Last(d).state = "claimed"
Held(d) == HasActive(d) /\ Last(d).left > 0

Released(c, outcome) == [c EXCEPT !.state = "released", !.outcome = outcome, !.left = 0]

(* The claim rows of d once its active one, if any, is released.            *)
WithoutActive(d, outcome) ==
    IF HasActive(d) THEN [claims[d] EXCEPT ![Len(claims[d])] = Released(@, outcome)]
                    ELSE claims[d]

(* acquireClaim: an expired claim is reaped first; the mutant forgets it.    *)
AcquiredUnreaped(d, lease) ==
    Append(claims[d],
           [state |-> "claimed", outcome |-> "none", left |-> lease,
            wait |-> RetryDelay(Attempts(d) + 1), attempt |-> Attempts(d) + 1])
Acquired(d, lease) ==
    Append(WithoutActive(d, "expired"),
           [state |-> "claimed", outcome |-> "none", left |-> lease,
            wait |-> RetryDelay(Attempts(d) + 1), attempt |-> Attempts(d) + 1])

-----------------------------------------------------------------------------
(* selectAutoClaimDelivery: the scan in creation order.                     *)

Live(d) == dstate[d] \in {"pending", "claimed"}
Candidates == {d \in Deliveries : Live(d) /\ ~Held(d)}
Fresh == {d \in Candidates : Attempts(d) = 0}
Oldest(S) == CHOOSE d \in S : \A x \in S : d <= x
\* The mutant only stops offering what has been claimed often enough.
NeverExhausted == {}
Exhausted ==
    {d \in Candidates : /\ Attempts(d) >= MaxAttempts
                        /\ Fresh # {} => d < Oldest(Fresh)}
Retries == {d \in Candidates : Attempts(d) \in 1..(MaxAttempts - 1) /\ Last(d).wait = 0}
Choice == IF Fresh # {} THEN {Oldest(Fresh)}
          ELSE IF Retries # {} THEN {Oldest(Retries)} ELSE {}

(* delivery.claim without an id: the exhausted deliveries the scan meets     *)
(* fail, and stay failed when nothing else is claimable.                     *)
AutoClaim(lease) ==
    /\ Choice \cup Exhausted # {}
    /\ dstate' = [d \in Deliveries |-> CASE d \in Exhausted \ Choice -> "failed"
                                         [] d \in Choice -> "claimed"
                                         [] OTHER -> dstate[d]]
    /\ claims' = [d \in Deliveries |-> CASE d \in Exhausted \ Choice -> WithoutActive(d, "expired")
                                         [] d \in Choice -> Acquired(d, lease)
                                         [] OTHER -> claims[d]]

(* delivery.claim naming a delivery: whatever its state, its backoff and its *)
(* attempts are.                                                             *)
ClaimById(d, lease) ==
    /\ dstate[d] # "absent" /\ ~Held(d)
    /\ Len(claims[d]) < MaxClaims
    /\ claims' = [claims EXCEPT ![d] = Acquired(d, lease)]
    /\ dstate' = [dstate EXCEPT ![d] = "claimed"]

(* verifyClaimToken: the row of the token is the active, unexpired claim.    *)
(* The mutant looks at the row alone and not at the clock.                   *)
VerifiesClaimed(d, token) ==
    token \in 1..Len(claims[d]) /\ claims[d][token].state = "claimed"
Verifies(d, token) ==
    /\ token \in 1..Len(claims[d])
    /\ claims[d][token].state = "claimed" /\ claims[d][token].left > 0

(* delivery.complete. A replay of a completion writes nothing and is no step. *)
Complete(d, token, outcome) ==
    /\ Verifies(d, token)
    /\ claims' = [claims EXCEPT ![d][token] = Released(@, outcome)]
    /\ dstate' = [dstate EXCEPT ![d] = IF outcome = "completed" THEN "delivered"
                                                                ELSE "failed"]

(* delivery.release: back to pending at once, the backoff starting now.      *)
Release(d, token) ==
    /\ Verifies(d, token)
    /\ claims' = [claims EXCEPT ![d][token] = Released(@, "none")]
    /\ dstate' = [dstate EXCEPT ![d] = "pending"]

(* reapExpired, on every inbox.list.                                          *)
Reaped == {d \in Deliveries : HasActive(d) /\ ~Held(d)}
ReapExpired ==
    /\ Reaped # {}
    /\ claims' = [d \in Deliveries |-> IF d \in Reaped THEN WithoutActive(d, "expired")
                                                       ELSE claims[d]]
    /\ dstate' = [d \in Deliveries |-> IF d \in Reaped /\ dstate[d] = "claimed"
                                       THEN "pending" ELSE dstate[d]]

(* supersedePredecessorWork: the unread deliveries of a replaced endpoint     *)
(* lose their claimants and move, or fail where the replacement already holds *)
(* the message.                                                              *)
Supersede(moved, duplicates) ==
    /\ moved \cup duplicates # {} /\ moved \cap duplicates = {}
    /\ \A d \in moved \cup duplicates : Live(d)
    /\ claims' = [d \in Deliveries |-> IF d \in moved \cup duplicates /\ dstate[d] = "claimed"
                                       THEN WithoutActive(d, "failed") ELSE claims[d]]
    /\ dstate' = [d \in Deliveries |-> CASE d \in duplicates -> "failed"
                                         [] d \in moved -> "pending"
                                         [] OTHER -> dstate[d]]

(* surfaceLaunchFailure of an untracked message: a claim on it is left alone. *)
FailUnread(d) ==
    /\ dstate[d] \notin {"absent", "failed"}
    /\ dstate' = [dstate EXCEPT ![d] = "failed"]
    /\ UNCHANGED claims

(* routeDelivery: a new delivery is younger than every other.                *)
Route(d) ==
    /\ dstate[d] = "absent"
    /\ \A x \in Deliveries : x < d => dstate[x] # "absent"
    /\ dstate' = [dstate EXCEPT ![d] = "pending"]
    /\ UNCHANGED claims

(* Time passes: leases run out, then backoffs.                               *)
Later(c) ==
    CASE c.left > 0 -> [c EXCEPT !.left = @ - 1]
      [] c.left = 0 /\ c.wait > 0 -> [c EXCEPT !.wait = @ - 1]
      [] OTHER -> c
Tick ==
    /\ claims' = [d \in Deliveries |->
                    IF claims[d] = <<>> THEN <<>>
                    ELSE [claims[d] EXCEPT ![Len(claims[d])] = Later(@)]]
    /\ claims' # claims
    /\ UNCHANGED dstate

Poll == \E lease \in Leases : AutoClaim(lease)
Claimant ==
    \E d \in Deliveries :
        \/ \E lease \in Leases : ClaimById(d, lease)
        \/ \E token \in 1..Len(claims[d]) :
              \/ \E outcome \in {"completed", "failed"} : Complete(d, token, outcome)
              \/ Release(d, token)
Daemon ==
    \/ ReapExpired
    \/ \E moved, duplicates \in SUBSET Deliveries : Supersede(moved, duplicates)
    \/ \E d \in Deliveries : FailUnread(d) \/ Route(d)

Next == Poll \/ Claimant \/ Daemon \/ Tick

Spec == Init /\ [][Next]_vars

(* Consumers poll delivery.claim for ever, and time passes.                  *)
FairSpec == Spec /\ WF_vars(Poll) /\ WF_vars(Tick)

-----------------------------------------------------------------------------
(* Deliveries and claim rows agree. At most one row of a delivery is active,  *)
(* the newest: the partial index uniq claims(resource) WHERE state =          *)
(* 'claimed' never aborts an operation. And a delivery is never left          *)
(* 'claimed' with nobody to complete, release or lose it.                     *)
ClaimsAreConsistent ==
    /\ TypeOK
    /\ \A d \in Deliveries : \A k \in 1..Len(claims[d]) :
          claims[d][k].state = "claimed" => k = Len(claims[d])
    /\ \A d \in Deliveries : dstate[d] = "claimed" => HasActive(d)

(* A claim is a lease: nobody gets one while another's is unexpired, one that *)
(* expired, was reaped, released or superseded never comes back, a delivery is *)
(* delivered by the newest claimant within its lease and by nobody else, and   *)
(* the rows of those who completed it are never rewritten.                    *)
CompletedBy(d) ==
    {k \in 1..Len(claims[d]) : claims[d][k].state = "released" /\ claims[d][k].outcome = "completed"}

Lease == INSTANCE DeliveryLease WITH
    granted <- [d \in Deliveries |-> Len(claims[d])],
    holder <- [d \in Deliveries |-> IF Held(d) THEN Len(claims[d]) ELSE 0],
    completed <- [d \in Deliveries |-> CompletedBy(d)],
    delivered <- [d \in Deliveries |-> dstate[d] = "delivered"]
ClaimsAreLeases == Lease!Spec

(* No delivery blocks another: every routed delivery is settled, however      *)
(* often the claimants of the older ones fail it or never come back.          *)
EveryDeliverySettles ==
    \A d \in Deliveries : Live(d) ~> ~Live(d)
=============================================================================
