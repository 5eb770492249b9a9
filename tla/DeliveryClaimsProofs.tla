------------------------ MODULE DeliveryClaimsProofs ------------------------
(***************************************************************************)
(* For any deliveries, leases, budgets and backoffs: deliveries and claim   *)
(* rows agree, and only the holder of an unexpired lease delivers.          *)
(***************************************************************************)
EXTENDS DeliveryClaims, WellFoundedInduction, TLAPS

(* What a step may make of the claim rows of a delivery: rows s, of which    *)
(* at most the newest is active.                                             *)
Rows(s) ==
  /\ s \in Seq(Claim)
  /\ \A k \in 1..Len(s) : s[k].state = "claimed" => k = Len(s)

Active(s) == s # <<>> /\ s[Len(s)].state = "claimed"

(* ClaimsAreConsistent is inductive as it stands; this is how it is used.    *)
IInv ==
  /\ TypeOK
  /\ \A d \in Deliveries : Rows(claims[d])
  /\ \A d \in Deliveries : dstate[d] = "claimed" => Active(claims[d])

LEMMA InvariantIsConsistent == IInv <=> ClaimsAreConsistent
BY DEF IInv, ClaimsAreConsistent, TypeOK, Rows, Active, HasActive, Last

-----------------------------------------------------------------------------
(* What the operations do to the rows of one delivery.                      *)

LEMMA ReleasedClaim ==
  ASSUME NEW c \in Claim, NEW outcome \in {"none", "expired", "completed", "failed"}
  PROVE  Released(c, outcome) \in Claim /\ Released(c, outcome).state = "released"
BY DEF Claim, Released

(* Releasing the active row, which is the newest, leaves none active.        *)
LEMMA ReleasedRow ==
  ASSUME NEW s, Rows(s), NEW k \in 1..Len(s), s[k].state = "claimed",
         NEW outcome \in {"none", "expired", "completed", "failed"},
         NEW r, r = [s EXCEPT ![k] = Released(@, outcome)]
  PROVE  Rows(r) /\ Len(r) = Len(s) /\ ~Active(r)
<1>1. s \in Seq(Claim) /\ k = Len(s) /\ s[k] \in Claim  BY DEF Rows
<1>2. Released(s[k], outcome) \in Claim /\ Released(s[k], outcome).state = "released"
  BY <1>1, ReleasedClaim
<1>3. r \in Seq(Claim) /\ Len(r) = Len(s)  BY <1>1, <1>2
<1>4. \A j \in 1..Len(r) : r[j] = IF j = k THEN Released(s[k], outcome) ELSE s[j]
  BY <1>1, <1>3
<1>5. \A j \in 1..Len(r) : r[j].state # "claimed"
  BY <1>1, <1>2, <1>3, <1>4 DEF Rows
<1> QED  BY <1>3, <1>5 DEF Rows, Active

LEMMA WithoutActiveRows ==
  ASSUME NEW d \in Deliveries, Rows(claims[d]),
         NEW outcome \in {"none", "expired", "completed", "failed"}
  PROVE  Rows(WithoutActive(d, outcome)) /\ ~Active(WithoutActive(d, outcome))
<1>1. CASE HasActive(d)
  <2>1. claims[d] \in Seq(Claim) /\ Len(claims[d]) \in 1..Len(claims[d])
    BY <1>1 DEF HasActive, Rows
  <2> QED  BY <1>1, <2>1, ReleasedRow DEF HasActive, WithoutActive, Last
<1>2. CASE ~HasActive(d)
  BY <1>2 DEF HasActive, WithoutActive, Active, Last
<1> QED  BY <1>1, <1>2

(* The number of attempts of a delivery grows by one with every claim.       *)
LEMMA AttemptsNat ==
  ASSUME NEW d \in Deliveries, Rows(claims[d])
  PROVE  Attempts(d) \in Nat
<1>1. CASE claims[d] = <<>>  BY <1>1 DEF Attempts
<1>2. CASE claims[d] # <<>>
  <2>1. Last(d) \in Claim  BY <1>2 DEF Rows, Last
  <2> QED  BY <1>2, <2>1 DEF Attempts, Claim
<1> QED  BY <1>1, <1>2

LEMMA RetryDelayNat == ASSUME NEW n PROVE RetryDelay(n) \in Nat
BY ClaimConstants DEF RetryDelay

(* Claiming reaps what has expired, and the new row is the only active one.  *)
LEMMA AcquiredRows ==
  ASSUME NEW d \in Deliveries, Rows(claims[d]), NEW lease \in Leases
  PROVE  Rows(Acquired(d, lease)) /\ Active(Acquired(d, lease))
<1> DEFINE s == WithoutActive(d, "expired")
           wait == RetryDelay(Attempts(d) + 1)
           c == [state |-> "claimed", outcome |-> "none", left |-> lease,
                 wait |-> wait, attempt |-> Attempts(d) + 1]
<1>1. Rows(s) /\ ~Active(s)  BY WithoutActiveRows
<1>2. wait \in Nat /\ Attempts(d) + 1 \in Nat \ {0}  BY RetryDelayNat, AttemptsNat
<1>3. Acquired(d, lease) = Append(s, c)  BY DEF Acquired
<1> HIDE DEF s, wait
<1>4. c \in Claim /\ c.state = "claimed"  BY <1>2, ClaimConstants DEF Claim
<1> HIDE DEF c
<1>5. \A k \in 1..Len(s) : s[k].state # "claimed"  BY <1>1 DEF Rows, Active
<1>6. /\ Append(s, c) \in Seq(Claim) /\ Len(Append(s, c)) = Len(s) + 1
      /\ \A k \in 1..Len(s) : Append(s, c)[k] = s[k]
      /\ Append(s, c)[Len(s) + 1] = c
  BY <1>1, <1>4 DEF Rows
<1> QED  BY <1>1, <1>3, <1>4, <1>5, <1>6 DEF Rows, Active

(* Time moves no row between active and released.                            *)
LEMMA LaterClaim ==
  ASSUME NEW c \in Claim PROVE Later(c) \in Claim /\ Later(c).state = c.state
<1>1. CASE c.left > 0  BY <1>1 DEF Later, Claim
<1>2. CASE c.left = 0 /\ c.wait > 0  BY <1>2 DEF Later, Claim
<1>3. CASE ~(c.left > 0) /\ ~(c.left = 0 /\ c.wait > 0)  BY <1>3 DEF Later
<1> QED  BY <1>1, <1>2, <1>3

-----------------------------------------------------------------------------
(* The steps, each by what it makes of the rows of every delivery.           *)

Settled == {"absent", "pending", "delivered", "failed"}

LEMMA RowsInv ==
  ASSUME \A d \in Deliveries : /\ Rows(claims'[d])
                               /\ \/ dstate'[d] \in Settled
                                  \/ dstate'[d] = "claimed" /\ Active(claims'[d]),
         claims' = [d \in Deliveries |-> claims'[d]],
         dstate' = [d \in Deliveries |-> dstate'[d]]
  PROVE  IInv'
<1>1. claims' \in [Deliveries -> Seq(Claim)]  BY DEF Rows
<1>2. dstate' \in [Deliveries -> Settled \cup {"claimed"}]  BY DEF Settled
<1> QED  BY <1>1, <1>2 DEF IInv, TypeOK, Settled

LEMMA OldRows ==
  ASSUME IInv
  PROVE  \A d \in Deliveries : /\ Rows(claims[d])
                               /\ \/ dstate[d] \in Settled
                                  \/ dstate[d] = "claimed" /\ Active(claims[d])
BY DEF IInv, TypeOK, Settled

(* A step that rewrites the rows and the state of one delivery.              *)
LEMMA OneDelivery ==
  ASSUME IInv, NEW d \in Deliveries, NEW s, Rows(s), NEW x,
         x \in Settled \/ (x = "claimed" /\ Active(s)),
         claims' = [claims EXCEPT ![d] = s], dstate' = [dstate EXCEPT ![d] = x]
  PROVE  IInv'
<1>1. claims \in [Deliveries -> Seq(Claim)] /\ DOMAIN dstate = Deliveries
  BY DEF IInv, TypeOK
<1> QED  BY <1>1, OldRows, RowsInv

LEMMA PollInv == ASSUME IInv, NEW lease \in Leases, AutoClaim(lease) PROVE IInv'
<1>1. ASSUME NEW d \in Deliveries
      PROVE  /\ Rows(claims'[d])
             /\ \/ dstate'[d] \in Settled
                \/ dstate'[d] = "claimed" /\ Active(claims'[d])
  <2>1. Rows(claims[d])  BY OldRows
  <2>2. CASE d \in Exhausted \ Choice
    <3>1. claims'[d] = WithoutActive(d, "expired") /\ dstate'[d] = "failed"
      BY <2>2 DEF AutoClaim
    <3> QED  BY <2>1, <3>1, WithoutActiveRows DEF Settled
  <2>3. CASE d \in Choice
    BY <2>1, <2>3, AcquiredRows DEF AutoClaim
  <2>4. CASE d \notin Exhausted /\ d \notin Choice
    BY <2>4, OldRows DEF AutoClaim
  <2> QED  BY <2>2, <2>3, <2>4
<1> QED  BY <1>1, RowsInv DEF AutoClaim

LEMMA ClaimByIdInv ==
  ASSUME IInv, NEW d \in Deliveries, NEW lease \in Leases, ClaimById(d, lease)
  PROVE  IInv'
<1>1. Rows(Acquired(d, lease)) /\ Active(Acquired(d, lease))  BY OldRows, AcquiredRows
<1> QED  BY <1>1, OneDelivery DEF ClaimById

(* Whoever completes or releases names the active row.                       *)
LEMMA TokenInv ==
  ASSUME IInv, NEW d \in Deliveries, NEW token \in 1..Len(claims[d]),
         NEW outcome \in {"completed", "failed"},
         Complete(d, token, outcome) \/ Release(d, token)
  PROVE  IInv'
<1>1. Rows(claims[d]) /\ claims[d][token].state = "claimed"
  BY OldRows DEF Complete, Release, Verifies
<1>2. ASSUME NEW o \in {"none", "completed", "failed"}
      PROVE  Rows([claims[d] EXCEPT ![token] = Released(@, o)])
  BY <1>1, ReleasedRow
<1>3. CASE Complete(d, token, outcome)
  <2> DEFINE s == [claims[d] EXCEPT ![token] = Released(@, outcome)]
             x == IF outcome = "completed" THEN "delivered" ELSE "failed"
  <2>1. Rows(s) /\ x \in Settled  BY <1>2 DEF Settled
  <2>2. claims' = [claims EXCEPT ![d] = s] /\ dstate' = [dstate EXCEPT ![d] = x]
    BY <1>3 DEF Complete
  <2> HIDE DEF s, x
  <2> QED  BY <2>1, <2>2, OneDelivery
<1>4. CASE Release(d, token)
  <2> DEFINE s == [claims[d] EXCEPT ![token] = Released(@, "none")]
  <2>1. Rows(s)  BY <1>2
  <2>2. claims' = [claims EXCEPT ![d] = s] /\ dstate' = [dstate EXCEPT ![d] = "pending"]
    BY <1>4 DEF Release
  <2> HIDE DEF s
  <2> QED  BY <2>1, <2>2, OneDelivery DEF Settled
<1> QED  BY <1>3, <1>4

(* An expired claim is reaped together with the state that goes with it.     *)
LEMMA ReapInv == ASSUME IInv, ReapExpired PROVE IInv'
<1>1. ASSUME NEW d \in Deliveries
      PROVE  /\ Rows(claims'[d])
             /\ \/ dstate'[d] \in Settled
                \/ dstate'[d] = "claimed" /\ Active(claims'[d])
  <2>1. Rows(claims[d])  BY OldRows
  <2>2. CASE d \in Reaped
    <3>1. claims'[d] = WithoutActive(d, "expired") /\ dstate'[d] # "claimed"
      BY <2>2, OldRows DEF ReapExpired
    <3>2. dstate'[d] \in {dstate[d], "pending"}  BY <2>2 DEF ReapExpired
    <3> QED  BY <2>1, <3>1, <3>2, OldRows, WithoutActiveRows DEF Settled
  <2>3. CASE d \notin Reaped
    BY <2>3, OldRows DEF ReapExpired
  <2> QED  BY <2>2, <2>3
<1> QED  BY <1>1, RowsInv DEF ReapExpired

LEMMA SupersedeInv ==
  ASSUME IInv, NEW moved \in SUBSET Deliveries, NEW duplicates \in SUBSET Deliveries,
         Supersede(moved, duplicates)
  PROVE  IInv'
<1>1. ASSUME NEW d \in Deliveries
      PROVE  /\ Rows(claims'[d])
             /\ \/ dstate'[d] \in Settled
                \/ dstate'[d] = "claimed" /\ Active(claims'[d])
  <2>1. Rows(claims[d]) /\ Rows(WithoutActive(d, "failed"))
    BY OldRows, WithoutActiveRows
  <2>2. Rows(claims'[d])  BY <2>1 DEF Supersede
  <2>3. CASE d \in moved \cup duplicates
    BY <2>2, <2>3 DEF Supersede, Settled
  <2>4. CASE d \notin moved \cup duplicates
    BY <2>2, <2>4, OldRows DEF Supersede
  <2> QED  BY <2>3, <2>4
<1> QED  BY <1>1, RowsInv DEF Supersede

LEMMA RoutedInv ==
  ASSUME IInv, NEW d \in Deliveries, FailUnread(d) \/ Route(d)
  PROVE  IInv'
<1>1. claims' = [claims EXCEPT ![d] = claims[d]] /\ Rows(claims[d])
  BY OldRows DEF FailUnread, Route, IInv, TypeOK
<1>2. PICK x \in {"failed", "pending"} : dstate' = [dstate EXCEPT ![d] = x]
  BY DEF FailUnread, Route
<1> QED  BY <1>1, <1>2, OneDelivery DEF Settled

LEMMA TickInv == ASSUME IInv, Tick PROVE IInv'
<1>1. ASSUME NEW d \in Deliveries
      PROVE  Rows(claims'[d]) /\ (Active(claims[d]) => Active(claims'[d]))
  <2>1. Rows(claims[d])  BY OldRows
  <2>2. CASE claims[d] = <<>>
    BY <2>2 DEF Tick, Rows, Active
  <2>3. CASE claims[d] # <<>>
    <3> DEFINE n == Len(claims[d])
               c == Later(claims[d][n])
    <3>1. n \in 1..Len(claims[d]) /\ claims[d][n] \in Claim  BY <2>1, <2>3 DEF Rows
    <3>2. c \in Claim /\ c.state = claims[d][n].state  BY <3>1, LaterClaim
    <3>3. claims'[d] = [claims[d] EXCEPT ![n] = c]  BY <2>3 DEF Tick
    <3> HIDE DEF c
    <3>4. claims'[d] \in Seq(Claim) /\ Len(claims'[d]) = Len(claims[d])
      BY <2>1, <3>1, <3>2, <3>3 DEF Rows
    <3>5. \A k \in 1..Len(claims'[d]) : claims'[d][k].state = claims[d][k].state
      BY <2>1, <3>1, <3>2, <3>3, <3>4 DEF Rows
    <3> QED  BY <2>1, <2>3, <3>1, <3>4, <3>5 DEF Rows, Active
  <2> QED  BY <2>2, <2>3
<1> QED  BY <1>1, OldRows, RowsInv DEF Tick, IInv, TypeOK

LEMMA NextInv == ASSUME IInv, [Next]_vars PROVE IInv'
<1>1. CASE Poll  BY <1>1, PollInv DEF Poll
<1>2. CASE Claimant  BY <1>2, ClaimByIdInv, TokenInv DEF Claimant
<1>3. CASE Daemon  BY <1>3, ReapInv, SupersedeInv, RoutedInv DEF Daemon
<1>4. CASE Tick  BY <1>4, TickInv
<1>5. CASE UNCHANGED vars
  BY <1>5 DEF vars, IInv, TypeOK
<1> QED  BY <1>1, <1>2, <1>3, <1>4, <1>5 DEF Next

LEMMA InitInv == ASSUME Init PROVE IInv
BY DEF Init, IInv, TypeOK, Rows, Active

(* Deliveries and claim rows agree: at most one row of a delivery is active,  *)
(* the newest, and no delivery stays claimed by nobody. acquireClaim and the  *)
(* partial index of `claims`.                                                *)
THEOREM Consistent == Spec => []ClaimsAreConsistent
<1>1. Init => IInv  BY InitInv
<1>2. IInv /\ [Next]_vars => IInv'  BY NextInv
<1>3. IInv <=> ClaimsAreConsistent  BY InvariantIsConsistent
<1> QED  BY <1>1, <1>2, <1>3, PTL DEF Spec

-----------------------------------------------------------------------------
(* The refinement: what each step makes of the leases of every delivery.      *)

(* The newest of the rows s is an unexpired claim, and the completed of s.    *)
InForce(s) == Active(s) /\ s[Len(s)].left > 0
Done(s) == {k \in 1..Len(s) : s[k].state = "released" /\ s[k].outcome = "completed"}

(* The rows r are those of s, as many completed, and no lease in force that    *)
(* was not.                                                                  *)
NoMore(s, r) == Len(r) = Len(s) /\ Done(r) = Done(s) /\ (InForce(r) => InForce(s))

ReleasedAt(s, k, outcome) == [s EXCEPT ![k] = Released(@, outcome)]

LEMMA ReleasedLease ==
  ASSUME NEW s, Rows(s), NEW k \in 1..Len(s), s[k].state = "claimed",
         NEW outcome \in {"none", "expired", "completed", "failed"}
  PROVE  /\ Len(ReleasedAt(s, k, outcome)) = Len(s)
         /\ ~InForce(ReleasedAt(s, k, outcome))
         /\ outcome = "completed" => Done(ReleasedAt(s, k, outcome)) = Done(s) \cup {k}
         /\ outcome # "completed" => Done(ReleasedAt(s, k, outcome)) = Done(s)
<1> DEFINE r == ReleasedAt(s, k, outcome)
           c == Released(s[k], outcome)
<1>1. s \in Seq(Claim) /\ s[k] \in Claim  BY DEF Rows
<1>2. c \in Claim /\ c.state = "released" /\ c.outcome = outcome
  BY <1>1 DEF Released, Claim
<1>3. Rows(r) /\ Len(r) = Len(s) /\ ~Active(r)
  <2>1. \A q : q = [s EXCEPT ![k] = Released(@, outcome)]
                 => Rows(q) /\ Len(q) = Len(s) /\ ~Active(q)
    BY ReleasedRow
  <2> QED  BY <2>1 DEF ReleasedAt
<1>4. \A j \in 1..Len(s) : r[j] = IF j = k THEN c ELSE s[j]
  BY <1>1 DEF ReleasedAt
<1> HIDE DEF r, c
<1>5. Done(r) = {j \in 1..Len(s) : /\ j # k => j \in Done(s)
                                   /\ j = k => outcome = "completed"}
  BY <1>2, <1>3, <1>4 DEF Done
<1>6. k \notin Done(s) /\ Done(s) \subseteq 1..Len(s)  BY DEF Done
<1>7. outcome = "completed" => Done(r) = Done(s) \cup {k}  BY <1>5, <1>6
<1>8. outcome # "completed" => Done(r) = Done(s)  BY <1>5, <1>6
<1>9. Len(r) = Len(s) /\ ~InForce(r)  BY <1>3 DEF InForce
<1> QED  BY <1>7, <1>8, <1>9 DEF r

LEMMA WithoutActiveLease ==
  ASSUME NEW d \in Deliveries, Rows(claims[d]), NEW outcome \in {"none", "expired", "failed"}
  PROVE  NoMore(claims[d], WithoutActive(d, outcome)) /\ ~InForce(WithoutActive(d, outcome))
<1>1. CASE HasActive(d)
  <2>1. Len(claims[d]) \in 1..Len(claims[d])  BY <1>1 DEF HasActive, Rows
  <2>2. WithoutActive(d, outcome) = ReleasedAt(claims[d], Len(claims[d]), outcome)
    BY <1>1 DEF WithoutActive, ReleasedAt
  <2> QED  BY <1>1, <2>1, <2>2, ReleasedLease DEF HasActive, Last, NoMore
<1>2. CASE ~HasActive(d)
  BY <1>2 DEF HasActive, WithoutActive, Active, Last, NoMore, InForce
<1> QED  BY <1>1, <1>2

LEMMA AcquiredLease ==
  ASSUME NEW d \in Deliveries, Rows(claims[d]), NEW lease \in Leases
  PROVE  /\ Len(Acquired(d, lease)) = Len(claims[d]) + 1
         /\ Done(Acquired(d, lease)) = Done(claims[d])
         /\ InForce(Acquired(d, lease))
<1> DEFINE s == WithoutActive(d, "expired")
           wait == RetryDelay(Attempts(d) + 1)
           c == [state |-> "claimed", outcome |-> "none", left |-> lease,
                 wait |-> wait, attempt |-> Attempts(d) + 1]
<1>1. Rows(s) /\ NoMore(claims[d], s)  BY WithoutActiveRows, WithoutActiveLease
<1>2. wait \in Nat /\ Attempts(d) + 1 \in Nat \ {0}  BY RetryDelayNat, AttemptsNat
<1>3. Acquired(d, lease) = Append(s, c)  BY DEF Acquired
<1> HIDE DEF s, wait
<1>4. c \in Claim /\ c.state = "claimed" /\ c.left > 0  BY <1>2, ClaimConstants DEF Claim
<1> HIDE DEF c
<1>5. /\ Append(s, c) \in Seq(Claim) /\ Len(Append(s, c)) = Len(s) + 1
      /\ \A k \in 1..Len(s) : Append(s, c)[k] = s[k]
      /\ Append(s, c)[Len(s) + 1] = c
  BY <1>1, <1>4 DEF Rows
<1>6. Len(s) \in Nat  BY <1>1 DEF Rows
<1>7. Done(Append(s, c)) = Done(s)  BY <1>4, <1>5, <1>6 DEF Done
<1>8. InForce(Append(s, c))  BY <1>4, <1>5, <1>6 DEF InForce, Active
<1> QED  BY <1>1, <1>3, <1>5, <1>7, <1>8 DEF NoMore

LEMMA LaterLease ==
  ASSUME NEW c \in Claim
  PROVE  /\ Later(c) \in Claim
         /\ Later(c).state = c.state /\ Later(c).outcome = c.outcome
         /\ Later(c).left > 0 => c.left > 0
<1>1. CASE c.left > 0  BY <1>1 DEF Later, Claim
<1>2. CASE c.left = 0 /\ c.wait > 0  BY <1>2 DEF Later, Claim
<1>3. CASE ~(c.left > 0) /\ ~(c.left = 0 /\ c.wait > 0)  BY <1>3 DEF Later
<1> QED  BY <1>1, <1>2, <1>3

(* The ways of the abstract specification, as ways of the rows.              *)
Way(d) == Lease!Grant(d) \/ Lease!Complete(d) \/ Lease!Lose(d) \/ Lease!Rest(d)

LEMMA HeldIsInForce == \A d : (Held(d) <=> InForce(claims[d])) /\ CompletedBy(d) = Done(claims[d])
BY DEF Held, HasActive, Last, InForce, Active, CompletedBy, Done

LEMMA HeldIsInForceNext ==
  \A d : (Held(d)' <=> InForce(claims'[d])) /\ CompletedBy(d)' = Done(claims'[d])
BY DEF Held, HasActive, Last, InForce, Active, CompletedBy, Done

LEMMA SomeRow == ASSUME NEW s, Rows(s), InForce(s) PROVE Len(s) \in Nat \ {0}
BY DEF Rows, InForce, Active

LEMMA NoMoreWay ==
  ASSUME IInv, NEW d \in Deliveries, NoMore(claims[d], claims'[d]),
         dstate'[d] = "delivered" => dstate[d] = "delivered"
  PROVE  Way(d)
<1>1. InForce(claims[d]) => Len(claims[d]) # 0  BY OldRows, SomeRow
<1>2. CASE InForce(claims[d]) /\ ~InForce(claims'[d])
  <2>1. Lease!Lose(d)
    BY <1>1, <1>2, HeldIsInForce, HeldIsInForceNext DEF NoMore, Lease!Lose
  <2> QED  BY <2>1 DEF Way
<1>3. CASE InForce(claims[d]) <=> InForce(claims'[d])
  <2>1. Lease!Rest(d)
    BY <1>3, HeldIsInForce, HeldIsInForceNext DEF NoMore, Lease!Rest
  <2> QED  BY <2>1 DEF Way
<1> QED  BY <1>2, <1>3 DEF NoMore

LEMMA SameWay ==
  ASSUME IInv, NEW d \in Deliveries, claims'[d] = claims[d],
         dstate'[d] = "delivered" => dstate[d] = "delivered"
  PROVE  Way(d)
BY NoMoreWay DEF NoMore

LEMMA AcquiredWay ==
  ASSUME IInv, NEW d \in Deliveries, NEW lease \in Leases, ~Held(d),
         claims'[d] = Acquired(d, lease), dstate'[d] = "claimed"
  PROVE  Way(d)
<1>1. /\ Len(claims'[d]) = Len(claims[d]) + 1 /\ Done(claims'[d]) = Done(claims[d])
      /\ InForce(claims'[d])
  BY OldRows, AcquiredLease
<1>2. Lease!Grant(d)
  BY <1>1, HeldIsInForce, HeldIsInForceNext DEF Lease!Grant
<1> QED  BY <1>2 DEF Way

(* The scan offers only what nobody holds.                                  *)
Less == {p \in Nat \X Nat : p[1] < p[2]}

LEMMA OldestMember ==
  ASSUME NEW S \in SUBSET Deliveries, S # {}
  PROVE  Oldest(S) \in S
<1>1. IsWellFoundedOn(Less, Nat)  BY NatLessThanWellFounded DEF OpToRel, Less
<1>2. S \in SUBSET Nat  BY ClaimConstants
<1>3. \E x \in S : \A y \in S : ~ (<<y, x>> \in Less)
  BY <1>1, <1>2, WFMin
<1>4. PICK x \in S : \A y \in S : ~ (<<y, x>> \in Less)  BY <1>3
<1>5. \A y \in S : x <= y
  <2> SUFFICES ASSUME NEW y \in S, y < x PROVE FALSE  BY <1>2
  <2>1. <<y, x>> \in Nat \X Nat /\ <<y, x>>[1] < <<y, x>>[2]  BY <1>2
  <2>2. <<y, x>> \in Less  BY <2>1 DEF Less
  <2> QED  BY <1>4, <2>2
<1> QED  BY <1>4, <1>5 DEF Oldest

LEMMA ChoiceIsFree == \A d \in Choice : d \in Deliveries /\ ~Held(d)
<1>1. Fresh \in SUBSET Deliveries /\ Retries \in SUBSET Deliveries
  BY DEF Fresh, Retries, Candidates
<1>2. \A d \in Fresh \cup Retries : ~Held(d)  BY DEF Fresh, Retries, Candidates
<1>3. CASE Fresh # {}  BY <1>1, <1>2, <1>3, OldestMember DEF Choice
<1>4. CASE Fresh = {} /\ Retries # {}  BY <1>1, <1>2, <1>4, OldestMember DEF Choice
<1>5. CASE Fresh = {} /\ Retries = {}  BY <1>5 DEF Choice
<1> QED  BY <1>3, <1>4, <1>5

LEMMA PollWay ==
  ASSUME IInv, NEW lease \in Leases, AutoClaim(lease), NEW d \in Deliveries
  PROVE  Way(d)
<1>1. CASE d \in Exhausted \ Choice
  <2>1. claims'[d] = WithoutActive(d, "expired") /\ dstate'[d] = "failed"
    BY <1>1 DEF AutoClaim
  <2> QED  BY <2>1, OldRows, WithoutActiveLease, NoMoreWay
<1>2. CASE d \in Choice
  <2>1. claims'[d] = Acquired(d, lease) /\ dstate'[d] = "claimed"
    BY <1>2 DEF AutoClaim
  <2> QED  BY <1>2, <2>1, ChoiceIsFree, AcquiredWay
<1>3. CASE d \notin Exhausted /\ d \notin Choice
  BY <1>3, SameWay DEF AutoClaim
<1> QED  BY <1>1, <1>2, <1>3

LEMMA ClaimByIdWay ==
  ASSUME IInv, NEW x \in Deliveries, NEW lease \in Leases, ClaimById(x, lease),
         NEW d \in Deliveries
  PROVE  Way(d)
<1>1. DOMAIN claims = Deliveries /\ DOMAIN dstate = Deliveries  BY DEF IInv, TypeOK
<1>2. CASE d = x  BY <1>1, <1>2, AcquiredWay DEF ClaimById
<1>3. CASE d # x  BY <1>1, <1>3, SameWay DEF ClaimById
<1> QED  BY <1>2, <1>3

(* Whoever completes names the lease in force.                               *)
LEMMA CompleteWay ==
  ASSUME IInv, NEW x \in Deliveries, NEW token \in 1..Len(claims[x]),
         NEW outcome \in {"completed", "failed"}, Complete(x, token, outcome),
         NEW d \in Deliveries
  PROVE  Way(d)
<1>1. DOMAIN claims = Deliveries /\ DOMAIN dstate = Deliveries  BY DEF IInv, TypeOK
<1>2. CASE d # x  BY <1>1, <1>2, SameWay DEF Complete
<1>3. CASE d = x
  <2>1. Rows(claims[d]) /\ claims[d][token].state = "claimed" /\ claims[d][token].left > 0
    BY <1>3, OldRows DEF Complete, Verifies
  <2>2. claims'[d] = [claims[d] EXCEPT ![token] = Released(@, outcome)]
    BY <1>1, <1>3 DEF Complete
  <2>3. dstate'[d] = IF outcome = "completed" THEN "delivered" ELSE "failed"
    BY <1>1, <1>3 DEF Complete
  <2>4. token = Len(claims[d]) /\ token # 0 /\ InForce(claims[d])
    BY <1>3, <2>1 DEF Rows, InForce, Active
  <2>5. /\ Len(claims'[d]) = Len(claims[d]) /\ ~InForce(claims'[d])
        /\ outcome = "completed" => Done(claims'[d]) = Done(claims[d]) \cup {token}
        /\ outcome # "completed" => Done(claims'[d]) = Done(claims[d])
    <3>1. token \in 1..Len(claims[d]) /\ outcome \in {"none", "expired", "completed", "failed"}
      BY <1>3
    <3>2. claims'[d] = ReleasedAt(claims[d], token, outcome)  BY <2>2 DEF ReleasedAt
    <3> QED  BY <2>1, <3>1, <3>2, ReleasedLease
  <2>6. CASE outcome = "completed"
    <3>1. Lease!Complete(d)
      BY <2>3, <2>4, <2>5, <2>6, HeldIsInForce, HeldIsInForceNext DEF Lease!Complete
    <3> QED  BY <3>1 DEF Way
  <2>7. CASE outcome = "failed"
    BY <2>3, <2>5, <2>7, NoMoreWay DEF NoMore
  <2> QED  BY <2>6, <2>7
<1> QED  BY <1>2, <1>3

LEMMA ReleaseWay ==
  ASSUME IInv, NEW x \in Deliveries, NEW token \in 1..Len(claims[x]), Release(x, token),
         NEW d \in Deliveries
  PROVE  Way(d)
<1>1. DOMAIN claims = Deliveries /\ DOMAIN dstate = Deliveries  BY DEF IInv, TypeOK
<1>2. CASE d # x  BY <1>1, <1>2, SameWay DEF Release
<1>3. CASE d = x
  <2>1. Rows(claims[d]) /\ claims[d][token].state = "claimed"
    BY <1>3, OldRows DEF Release, Verifies
  <2>2. claims'[d] = [claims[d] EXCEPT ![token] = Released(@, "none")]
    BY <1>1, <1>3 DEF Release
  <2>3. claims'[d] = ReleasedAt(claims[d], token, "none")  BY <2>2 DEF ReleasedAt
  <2>4. NoMore(claims[d], claims'[d])  BY <1>3, <2>1, <2>3, ReleasedLease DEF NoMore
  <2> QED  BY <1>1, <1>3, <2>4, NoMoreWay DEF Release
<1> QED  BY <1>2, <1>3

LEMMA DaemonWay ==
  ASSUME IInv, Daemon, NEW d \in Deliveries
  PROVE  Way(d)
<1>1. DOMAIN claims = Deliveries /\ DOMAIN dstate = Deliveries  BY DEF IInv, TypeOK
<1>2. ASSUME NEW o \in {"expired", "failed"}
      PROVE  NoMore(claims[d], WithoutActive(d, o)) /\ NoMore(claims[d], claims[d])
  BY OldRows, WithoutActiveLease DEF NoMore
<1>3. CASE ReapExpired
  BY <1>2, <1>3, NoMoreWay DEF ReapExpired
<1>4. ASSUME NEW moved \in SUBSET Deliveries, NEW duplicates \in SUBSET Deliveries,
             Supersede(moved, duplicates)
      PROVE  Way(d)
  BY <1>2, <1>4, NoMoreWay DEF Supersede
<1>5. ASSUME NEW x \in Deliveries, FailUnread(x) \/ Route(x) PROVE Way(d)
  BY <1>1, <1>5, SameWay DEF FailUnread, Route
<1> QED  BY <1>3, <1>4, <1>5 DEF Daemon

LEMMA TickWay ==
  ASSUME IInv, Tick, NEW d \in Deliveries
  PROVE  Way(d)
<1>1. Rows(claims[d]) /\ dstate'[d] = dstate[d]  BY OldRows DEF Tick
<1>2. CASE claims[d] = <<>>
  BY <1>1, <1>2, SameWay DEF Tick
<1>3. CASE claims[d] # <<>>
  <2> DEFINE n == Len(claims[d])
             c == Later(claims[d][n])
  <2>1. claims[d] \in Seq(Claim) /\ n \in 1..Len(claims[d]) /\ claims[d][n] \in Claim
    BY <1>1, <1>3 DEF Rows
  <2>2. /\ c \in Claim /\ c.state = claims[d][n].state /\ c.outcome = claims[d][n].outcome
        /\ c.left > 0 => claims[d][n].left > 0
    BY <2>1, LaterLease
  <2>3. claims'[d] = [claims[d] EXCEPT ![n] = c]  BY <1>3 DEF Tick
  <2> HIDE DEF c
  <2>4. Len(claims'[d]) = n /\ \A k \in 1..n : claims'[d][k] = IF k = n THEN c ELSE claims[d][k]
    BY <2>1, <2>2, <2>3
  <2>5. Done(claims'[d]) = Done(claims[d])  BY <2>1, <2>2, <2>4 DEF Done
  <2>6. InForce(claims'[d]) => InForce(claims[d])
    BY <1>3, <2>1, <2>2, <2>4 DEF InForce, Active
  <2> QED  BY <1>1, <2>4, <2>5, <2>6, NoMoreWay DEF NoMore
<1> QED  BY <1>2, <1>3

LEMMA EveryWay == ASSUME IInv, Next, NEW d \in Deliveries PROVE Way(d)
<1>1. CASE Poll  BY <1>1, PollWay DEF Poll
<1>2. CASE Claimant  BY <1>2, ClaimByIdWay, CompleteWay, ReleaseWay DEF Claimant
<1>3. CASE Daemon  BY <1>3, DaemonWay
<1>4. CASE Tick  BY <1>4, TickWay
<1> QED  BY <1>1, <1>2, <1>3, <1>4 DEF Next

(* Claims implement leases: acquireClaim grants one at a time, the completion  *)
(* that verifyClaimToken admits is its holder's, and nothing rewrites what was *)
(* completed, for any number of claims, retries and replacements.             *)
THEOREM LeasesHold == Spec => ClaimsAreLeases
<1>1. Init => IInv  BY InitInv
<1>2. IInv /\ [Next]_vars => IInv'  BY NextInv
<1>3. Init => Lease!Init
  <2> SUFFICES ASSUME Init PROVE Lease!Init  OBVIOUS
  <2>1. ASSUME NEW d \in Deliveries
        PROVE  /\ Len(claims[d]) = 0 /\ ~Held(d) /\ CompletedBy(d) = {}
               /\ (dstate[d] = "delivered") = FALSE
    <3>1. claims[d] = <<>> /\ dstate[d] = "absent"  BY DEF Init
    <3>2. 1..Len(claims[d]) = {}  BY <3>1
    <3> QED  BY <3>1, <3>2 DEF Held, HasActive, CompletedBy
  <2> QED  BY <2>1 DEF Lease!Init
<1>4. IInv /\ [Next]_vars => [Lease!Next]_(Lease!vars)
  <2>1. ASSUME IInv, Next PROVE Lease!Next
    BY <2>1, EveryWay DEF Way, Lease!Next
  <2>2. ASSUME UNCHANGED vars PROVE UNCHANGED Lease!vars
    BY <2>2 DEF vars, Lease!vars, Held, HasActive, Last, CompletedBy
  <2> QED  BY <2>1, <2>2
<1> QED  BY <1>1, <1>2, <1>3, <1>4, PTL DEF Spec, ClaimsAreLeases, Lease!Spec
=============================================================================
