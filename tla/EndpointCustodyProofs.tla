----------------------- MODULE EndpointCustodyProofs -----------------------
(***************************************************************************)
(* Proofs about EndpointCustody, for any sets of launches, panes and work  *)
(* and whatever the bounds: the owner the row names is the process that    *)
(* stamped it last, so neither retirement nor owner reconciliation ever    *)
(* finds a live one gone; a claim stays with the child that runs for it; a *)
(* receipt is final; and a superseded row stays down.                      *)
(***************************************************************************)
EXTENDS EndpointCustody, TLAPS

\* What TypeOK says of the rows, for a value on its way through a handler.
Claim(d) == IF d.req.state = "claimed" THEN d.req.by \in Launch /\ d.req.hold # "none"
                                       ELSE d.req.by = NoOne /\ d.req.hold = "none"
Sound(d) == d \in Rows /\ Claim(d)

\* The row names the process that stamped it last, or nobody.
OwnerStamped == ep.owner # NoOne => ep.owner = holder
\* That process has started; once the row records its exit it is gone.
HolderStarted == proc[holder] \in {"live", "current", "gone"}
ExitedIsGone == ep.exited => ~Live(holder)

IInv == TypeOK /\ OwnerStamped /\ HolderStarted /\ ExitedIsGone

-----------------------------------------------------------------------------
(* What each transaction changes of the rows. *)

LEMMA Fields ==
  ASSUME NEW d \in Rows
  PROVE  /\ d.ep \in EndpointRow /\ d.req \in RequestRow /\ d.work \in WorkRow
         /\ d.retirement \in RetirementRow
         /\ d.ep.state \in {"idle", "busy", "dead", "retiring", "closed"}
         /\ d.ep.owner \in Process \cup {NoOne} /\ d.ep.exited \in BOOLEAN
         /\ d.ep.gen \in Nat /\ d.ep.epoch \in Nat
         /\ d.req.state \in {"none", "pending", "claimed", "completed", "failed"}
  BY DEF Rows, EndpointRow, RequestRow

\* Writing one part of the rows leaves the others.
LEMMA EndpointWrite ==
  ASSUME NEW d \in Rows, NEW e \in EndpointRow
  PROVE  LET n == [d EXCEPT !.ep = e]
         IN n \in Rows /\ n.ep = e /\ n.req = d.req /\ n.retirement = d.retirement
  BY DEF Rows

LEMMA RequestWrite ==
  ASSUME NEW d \in Rows, NEW r \in RequestRow
  PROVE  LET n == [d EXCEPT !.req = r]
         IN n \in Rows /\ n.ep = d.ep /\ n.req = r /\ n.retirement = d.retirement
  BY DEF Rows

LEMMA UnclaimedRows ==
  ASSUME NEW d \in Rows, NEW s \in {"none", "pending", "completed", "failed"}
  PROVE  LET e == Unclaimed(d, s)
         IN Sound(e) /\ e.ep = d.ep /\ e.retirement = d.retirement /\ e.req.state = s
<1> DEFINE r == [state |-> s, by |-> NoOne, hold |-> "none", attempts |-> d.req.attempts]
<1>1. r \in RequestRow  BY Fields DEF RequestRow
<1>2. Unclaimed(d, s) = [d EXCEPT !.req = r]  BY DEF Unclaimed
<1>3. r.state = s /\ r.by = NoOne /\ r.hold = "none"  OBVIOUS
<1> HIDE DEF r
<1> QED  BY <1>1, <1>2, <1>3, RequestWrite DEF Sound, Claim

\* A lost custody changes only the endpoint's state and its work.
LEMMA LossRows ==
  ASSUME NEW d, Sound(d), NEW ev
  PROVE  LET e == ReconcileCustodyLoss(d, ev)
         IN /\ Sound(e) /\ e.req = d.req /\ e.retirement = d.retirement
            /\ e.ep \in {d.ep, [d.ep EXCEPT !.state = "dead"]}
<1> DEFINE lost == ev.work \cap OpenWork(d)
           w == [x \in Work |-> IF x \in lost THEN "failed" ELSE d.work[x]]
           e == [d EXCEPT !.ep.state = "dead", !.work = w]
<1>1. d \in Rows  BY DEF Sound
<1>2. w \in WorkRow  BY <1>1, Fields DEF WorkRow
<1>3. [d.ep EXCEPT !.state = "dead"] \in EndpointRow  BY <1>1, Fields DEF EndpointRow
<1>4. /\ e \in Rows /\ e.req = d.req /\ e.retirement = d.retirement
      /\ e.ep = [d.ep EXCEPT !.state = "dead"]
  <2> HIDE DEF w
  <2> QED  BY <1>1, <1>2, <1>3 DEF Rows
<1>5. ReconcileCustodyLoss(d, ev) \in {d, e}  BY DEF ReconcileCustodyLoss
<1> HIDE DEF e
<1> QED  BY <1>1, <1>4, <1>5 DEF Sound, Claim

\* Only the request; a decided one stays.
LEMMA FailRows ==
  ASSUME NEW d, Sound(d)
  PROVE  LET e == FailRequest(d)
         IN /\ Sound(e) /\ e.ep = d.ep /\ e.retirement = d.retirement
            /\ e.req.state # "pending"
            /\ d.req.state \in {"pending", "claimed"} \/ e = d
  BY UnclaimedRows, Fields DEF FailRequest, Sound

LEMMA ReapedRows ==
  ASSUME NEW d, Sound(d)
  PROVE  LET e == Reaped(d)
         IN /\ Sound(e) /\ e.ep = d.ep /\ e.retirement = d.retirement
            /\ d.req.state # "claimed" \/ d.req.hold # "lapsed" => e = d
  BY UnclaimedRows DEF Reaped, Sound

\* Setting the lease of a claimed request.
LEMMA HoldRows ==
  ASSUME NEW d, Sound(d), d.req.state = "claimed", NEW h \in {"held", "lapsed", "backoff"}
  PROVE  LET e == [d EXCEPT !.req.hold = h]
         IN /\ Sound(e) /\ e.ep = d.ep /\ e.retirement = d.retirement
            /\ e.req.state = "claimed" /\ e.req.by = d.req.by /\ e.req.hold = h
<1>1. d \in Rows /\ d.req \in RequestRow  BY Fields DEF Sound
<1>2. LET r == [d.req EXCEPT !.hold = h]
      IN r \in RequestRow /\ r.state = d.req.state /\ r.by = d.req.by /\ r.hold = h
  BY <1>1 DEF RequestRow
<1>3. [d EXCEPT !.req.hold = h] = [d EXCEPT !.req = [d.req EXCEPT !.hold = h]]  OBVIOUS
<1> QED  BY <1>1, <1>2, <1>3, RequestWrite DEF Sound, Claim

\* The pass leaves the endpoint, and a claim whose child it knows.
LEMMA SweptRows ==
  ASSUME TypeOK
  PROVE  /\ Sound(Swept) /\ Swept.ep = ep /\ Swept.retirement = db.retirement
         /\ req.state # "claimed" => Swept = db
         /\ req.state = "claimed" /\ child[req.by] # "none" => Swept.req.state = "claimed"
<1>1. Sound(db)  BY DEF TypeOK, Sound, Claim, ep, req
<1>2. LET h == HoldClaims(db)
      IN /\ Sound(h) /\ h.ep = ep /\ h.retirement = db.retirement
         /\ req.state # "claimed" => h = db
         /\ req.state = "claimed" /\ child[req.by] # "none" =>
              h.req.state = "claimed" /\ h.req.hold # "lapsed"
  BY <1>1, HoldRows DEF HoldClaims, ep, req
<1> DEFINE h == HoldClaims(db)
<1>3. Swept = Reaped(h)  BY DEF Swept
<1>4. /\ Sound(h) /\ h.ep = ep /\ h.retirement = db.retirement
      /\ req.state # "claimed" => h = db
      /\ req.state = "claimed" /\ child[req.by] # "none" =>
              h.req.state = "claimed" /\ h.req.hold # "lapsed"
  BY <1>2
<1> HIDE DEF h
<1> QED  BY <1>3, <1>4, ReapedRows DEF req

LEMMA ClaimedRows ==
  ASSUME NEW d, Sound(d), NEW l \in Launch
  PROVE  LET e == Claimed(d, l)
         IN Sound(e) /\ e.ep = d.ep /\ e.retirement = d.retirement
<1> DEFINE r == [state |-> "claimed", by |-> l, hold |-> "held",
                 attempts |-> d.req.attempts + 1]
<1>1. d \in Rows  BY DEF Sound
<1>2. r \in RequestRow  BY <1>1, Fields DEF RequestRow
<1>3. Claimed(d, l) = [d EXCEPT !.req = r]  BY DEF Claimed
<1>4. r.state = "claimed" /\ r.by = l /\ r.hold = "held"  OBVIOUS
<1> HIDE DEF r
<1> QED  BY <1>1, <1>2, <1>3, <1>4, RequestWrite DEF Sound, Claim

\* What every transaction of the daemon on a request leaves alone.
Keeps(d, e) ==
  /\ Sound(e) /\ e.retirement = d.retirement
  /\ e.ep.gen = d.ep.gen /\ e.ep.epoch = d.ep.epoch /\ e.ep.token = d.ep.token
  /\ e.ep.owner = d.ep.owner /\ e.ep.exited = d.ep.exited
  /\ d.ep.replaced => e.ep.replaced

LEMMA DeadKeeps ==
  ASSUME NEW d, Sound(d), NEW e, Sound(e), e.retirement = d.retirement,
         e.ep \in {d.ep, [d.ep EXCEPT !.state = "dead"]}
  PROVE  Keeps(d, e)
<1>1. d.ep \in EndpointRow  BY Fields DEF Sound
<1> QED  BY <1>1 DEF Keeps, EndpointRow

LEMMA LossKeeps ==
  ASSUME NEW d, Sound(d), NEW ev
  PROVE  LET e == ReconcileCustodyLoss(d, ev) IN Keeps(d, e) /\ e.req = d.req
BY LossRows, DeadKeeps

LEMMA SettleKeeps ==
  ASSUME NEW d, Sound(d), NEW l \in Launch
  PROVE  LET e == SettleSupervisedFailure(d, l) IN Keeps(d, e) /\ e.req = d.req
<1>1. d \in Rows /\ d.ep \in EndpointRow  BY Fields DEF Sound
<1>2. [d.ep EXCEPT !.state = "dead"] \in EndpointRow  BY <1>1 DEF EndpointRow
<1>3. [d EXCEPT !.ep.state = "dead"] = [d EXCEPT !.ep = [d.ep EXCEPT !.state = "dead"]]
  OBVIOUS
<1>4. LET e == SettleSupervisedFailure(d, l)
      IN /\ e \in Rows /\ e.req = d.req /\ e.retirement = d.retirement
         /\ e.ep \in {d.ep, [d.ep EXCEPT !.state = "dead"]}
  BY <1>1, <1>2, <1>3, EndpointWrite DEF SettleSupervisedFailure
<1> QED  BY <1>4, DeadKeeps DEF Sound, Claim

LEMMA AdmitKeeps ==
  ASSUME NEW d, Sound(d)
  PROVE  LET e == AdmitReplacement(d) IN Keeps(d, e) /\ e.req = d.req
<1> DEFINE n == [d.ep EXCEPT !.replaced = TRUE]
<1>1. d \in Rows /\ d.ep \in EndpointRow  BY Fields DEF Sound
<1>2. n \in EndpointRow /\ n.gen = d.ep.gen /\ n.owner = d.ep.owner
      /\ n.epoch = d.ep.epoch /\ n.token = d.ep.token /\ n.exited = d.ep.exited /\ n.replaced
  BY <1>1 DEF EndpointRow
<1>3. AdmitReplacement(d) = [d EXCEPT !.ep = n]  BY DEF AdmitReplacement
<1> HIDE DEF n
<1> QED  BY <1>1, <1>2, <1>3, EndpointWrite DEF Keeps, Sound, Claim

LEMMA KeepsTwice ==
  ASSUME NEW d, NEW e, NEW f, Keeps(d, e), Keeps(e, f)
  PROVE  Keeps(d, f)
BY DEF Keeps

\* A failed attempt touches the request only if this child claims it.
LEMMA AttemptKeeps ==
  ASSUME NEW d, Sound(d), NEW l \in Launch, NEW o \in Outcomes
  PROVE  LET e == FailedAttempt(d, l, o) IN Keeps(d, e) /\ (~ClaimOf(d, l) => e = d)
<1> DEFINE f == FailSupervisedAttempt(d, o)
<1>0. Keeps(d, d)  BY DEF Keeps, Sound
<1>1. ASSUME o # "clean", ClaimOf(d, l) PROVE Keeps(d, f)
  <2>1. d \in Rows /\ d.req.state = "claimed"  BY <1>1 DEF Sound, ClaimOf
  <2>2. Keeps(d, FailRequest(d))  BY FailRows DEF Keeps
  <2>3. Keeps(d, AdmitReplacement(FailRequest(d)))
    BY <2>2, AdmitKeeps, KeepsTwice DEF Keeps
  <2>4. Keeps(d, Unclaimed(d, "pending"))  BY <2>1, UnclaimedRows DEF Keeps
  <2>5. Keeps(d, [d EXCEPT !.req.hold = "backoff"])  BY <2>1, HoldRows DEF Keeps
  <2>6. o \in {"failed", "auth", "terminal", "unavailable"}  BY <1>1 DEF Outcomes
  <2> QED  BY <2>2, <2>3, <2>4, <2>5, <2>6 DEF FailSupervisedAttempt
<1>2. CASE o # "clean" /\ ClaimOf(d, l)
  <2>1. FailedAttempt(d, l, o) = SettleSupervisedFailure(f, l)
    BY <1>2 DEF FailedAttempt
  <2>2. Keeps(d, f)  BY <1>1, <1>2
  <2> HIDE DEF f
  <2> QED  BY <2>1, <2>2, <1>2, SettleKeeps, KeepsTwice DEF Keeps
<1>3. CASE ~(o # "clean" /\ ClaimOf(d, l))
  BY <1>0, <1>3 DEF FailedAttempt
<1> QED  BY <1>2, <1>3

-----------------------------------------------------------------------------
(* The daemon's steps. *)

\* What a tick and an observed child may do to everything but the request.
DaemonStep ==
  /\ Keeps(db, db') /\ holder' = holder
  /\ child' \in [Launch -> {"none", "tracked", "held"}]
  /\ \A p \in Process : \/ proc'[p] = proc[p]
                        \/ proc[p] = "new" \/ (proc[p] = "missing" /\ proc'[p] = "gone")
  /\ proc' \in [Process -> {"new", "missing", "live", "current", "gone"}]

LEMMA DaemonKeepsIInv ==
  ASSUME IInv, DaemonStep
  PROVE  IInv'
<1> USE DEF IInv
<1>1. TypeOK'  BY DEF DaemonStep, Keeps, Sound, Claim, TypeOK, ep, req
<1>2. holder \in Process /\ holder' = holder  BY DEF DaemonStep, TypeOK
<1>3. HolderStarted'  BY <1>2 DEF HolderStarted, DaemonStep
<1>4. OwnerStamped'  BY <1>2 DEF OwnerStamped, DaemonStep, Keeps, ep
<1>5. ExitedIsGone'
  BY <1>2 DEF ExitedIsGone, HolderStarted, DaemonStep, Keeps, ep, Live, Current
<1> QED  BY <1>1, <1>3, <1>4, <1>5

\* The three promises about one step, together.
StepSafe == HeldStep /\ SupersededStep /\ ReceiptStep

LEMMA RowsSound == ASSUME TypeOK PROVE Sound(db) /\ Keeps(db, db)
BY DEF TypeOK, Sound, Claim, Keeps, ep, req

LEMMA FreshNew ==
  ASSUME TypeOK, NEW l \in Launch, Fresh(l)
  PROVE  proc[l] = "new" /\ l \in Process
BY DEF Fresh, Process

LEMMA TickStep ==
  ASSUME TypeOK, Tick
  PROVE  DaemonStep /\ StepSafe
<1> DEFINE q == Swept
<1>1. /\ Sound(q) /\ q.ep = ep /\ q.retirement = db.retirement
      /\ req.state # "claimed" => q = db
      /\ req.state = "claimed" /\ child[req.by] # "none" => q.req.state = "claimed"
  BY SweptRows
<1>2. Keeps(db, q)  BY <1>1 DEF Keeps, ep
<1>3. Candidate(q) => /\ q.req.state = "pending" /\ ~ep.replaced /\ req.state # "completed"
                      /\ ~(req.state = "claimed" /\ child[req.by] # "none")
  BY <1>1 DEF Candidate, req
<1>4. /\ child \in [Launch -> {"none", "tracked", "held"}]
      /\ proc \in [Process -> {"new", "missing", "live", "current", "gone"}]
      /\ Launch \subseteq Process
  BY DEF TypeOK, Process
<1>5. CASE Sweep
  <2>1. db' = q /\ child' = Touched /\ UNCHANGED <<proc, holder>>  BY <1>5 DEF Sweep
  <2>2. Touched \in [Launch -> {"none", "tracked", "held"}]  BY <1>4 DEF Touched
  <2>3. DaemonStep  BY <2>1, <2>2, <1>2, <1>4 DEF DaemonStep
  <2>4. HeldStep /\ ReceiptStep  BY <2>1, <1>1 DEF HeldStep, ReceiptStep, req
  <2>5. \A l \in Launch : child[l] = "none" => child'[l] = "none"
    <3> SUFFICES ASSUME NEW l \in Launch, child[l] = "none", Touched[l] # "none"
                 PROVE  FALSE
      BY <2>1
    <3>1. HoldClaims(db) # db /\ l = req.by  BY DEF Touched
    <3> QED  BY <3>1 DEF HoldClaims, req
  <2> QED  BY <2>1, <2>3, <2>4, <2>5, <1>2 DEF StepSafe, SupersededStep, Keeps, ep
<1>6. CASE Exhaust
  <2> DEFINE f == FailRequest(q)
             e == ReconcileCustodyLoss(f, CurrentCustody(f))
  <2>1. db' = e /\ UNCHANGED <<proc, child, holder>> /\ Candidate(q)  BY <1>6 DEF Exhaust
  <2>2. Keeps(q, f) /\ f.req.state # "pending"  BY <1>1, FailRows DEF Keeps
  <2>3. Keeps(f, e) /\ e.req = f.req
    <3> HIDE DEF f
    <3> QED  BY <2>2, LossKeeps DEF Keeps
  <2>4. Keeps(db, e)
    <3> HIDE DEF f, e, q
    <3> QED  BY <1>2, <2>2, <2>3, KeepsTwice
  <2> HIDE DEF f, e, q
  <2> QED  BY <2>1, <2>2, <2>3, <2>4, <1>3, <1>4
           DEF DaemonStep, StepSafe, HeldStep, SupersededStep, ReceiptStep
<1>7. ASSUME NEW l \in Launch, LaunchChild(l) PROVE DaemonStep /\ StepSafe
  <2>1. /\ Candidate(q) /\ Fresh(l) /\ db' = Claimed(q, l) /\ holder' = holder
        /\ \E run \in {"live", "missing"} : proc' = [proc EXCEPT ![l] = run]
        /\ child' = [child EXCEPT ![l] = "tracked"]
    BY <1>7 DEF LaunchChild, Launches
  <2>2. Keeps(db, Claimed(q, l)) /\ Claimed(q, l).req.state = "claimed"
    <3>1. Claimed(q, l).req.state = "claimed"
      BY <1>1, Fields DEF Claimed, Sound, Rows
    <3> HIDE DEF q
    <3> QED  BY <3>1, <1>1, <1>2, ClaimedRows DEF Keeps
  <2>3. DaemonStep
    <3> HIDE DEF q
    <3> QED  BY <2>1, <2>2, <1>4, FreshNew DEF DaemonStep
  <2> HIDE DEF q
  <2> QED  BY <2>1, <2>2, <2>3, <1>3 DEF StepSafe, HeldStep, SupersededStep, ReceiptStep
<1>8. ASSUME NEW l \in Launch, LaunchThrows(l) PROVE DaemonStep /\ StepSafe
  <2> DEFINE k == Claimed(q, l)
             f == FailRequest(k)
             e == ReconcileCustodyLoss(f, SpawnErrorEvidence(l, CaptureOf(q)))
  <2>1. /\ Candidate(q) /\ Fresh(l) /\ db' \in {f, e} /\ holder' = holder
        /\ proc' = [proc EXCEPT ![l] = "gone"] /\ child' = child
    BY <1>8 DEF LaunchThrows, Launches
  <2>2. Keeps(q, k)
    <3> HIDE DEF q
    <3> QED  BY <1>1, ClaimedRows DEF Keeps
  <2>3. Keeps(k, f) /\ f.req.state # "pending"
    <3> HIDE DEF k
    <3> QED  BY <2>2, FailRows DEF Keeps
  <2>4. Keeps(f, e) /\ e.req = f.req
    <3> HIDE DEF f
    <3> QED  BY <2>3, LossKeeps DEF Keeps
  <2> HIDE DEF f, e, k, q
  <2>5. Keeps(db, f) /\ Keeps(db, e)  BY <1>2, <2>2, <2>3, <2>4, KeepsTwice
  <2>6. DaemonStep  BY <2>1, <2>5, <1>4, FreshNew DEF DaemonStep
  <2> QED  BY <2>1, <2>3, <2>4, <2>6, <1>3
           DEF StepSafe, HeldStep, SupersededStep, ReceiptStep, DaemonStep, Keeps
<1> QED  BY <1>5, <1>6, <1>7, <1>8 DEF Tick

\* The claim's lease ends early with the child that held it.
LEMMA EndedHold ==
  ASSUME TypeOK, NEW l \in Launch
  PROVE  LET e == EndClaimHold(db, l)
         IN /\ Keeps(db, e) /\ e.req.state = db.req.state
            /\ ~ClaimOf(db, l) => e = db
            /\ ClaimOf(e, l) <=> ClaimOf(db, l)
<1> DEFINE e == [db EXCEPT !.req.hold = "lapsed"]
<1>1. Sound(db) /\ Keeps(db, db)  BY RowsSound
<1>2. ASSUME ClaimOf(db, l)
      PROVE  Keeps(db, e) /\ e.req.state = db.req.state /\ ClaimOf(e, l)
  <2>1. db.req.state = "claimed"  BY <1>2 DEF ClaimOf
  <2>2. /\ Sound(e) /\ e.ep = db.ep /\ e.retirement = db.retirement
        /\ e.req.state = "claimed" /\ e.req.by = db.req.by
    BY <1>1, <2>1, HoldRows
  <2> QED  BY <1>2, <2>1, <2>2 DEF Keeps, ClaimOf
<1> HIDE DEF e
<1>3. CASE ClaimOf(db, l) /\ EndClaimHold(db, l) = e  BY <1>2, <1>3
<1>4. CASE EndClaimHold(db, l) = db  BY <1>1, <1>4
<1> QED  BY <1>3, <1>4 DEF EndClaimHold, e

LEMMA ObserveStep ==
  ASSUME TypeOK, NEW l \in Launch, Observe(l)
  PROVE  DaemonStep /\ StepSafe
<1>1. /\ child \in [Launch -> {"none", "tracked", "held"}]
      /\ proc \in [Process -> {"new", "missing", "live", "current", "gone"}]
      /\ l \in Process /\ Sound(db)
  BY RowsSound DEF TypeOK, Process
<1>2. CASE ChildMissing(l)
  <2> DEFINE f == FailRequest(db)
             e == ReconcileCustodyLoss(f, SpawnErrorEvidence(l, capture[l]))
  <2>1. /\ db' = e /\ holder' = holder /\ proc[l] = "missing"
        /\ child' = [child EXCEPT ![l] = "none"] /\ proc' = [proc EXCEPT ![l] = "gone"]
    BY <1>2 DEF ChildMissing, Untrack
  <2>2. /\ Keeps(db, f) /\ f.req.state # "pending"
        /\ db.req.state = "completed" => f = db
    BY <1>1, FailRows DEF Keeps
  <2>3. Keeps(f, e) /\ e.req = f.req
    <3> HIDE DEF f
    <3> QED  BY <2>2, LossKeeps DEF Keeps
  <2> HIDE DEF f, e
  <2>4. DaemonStep  BY <2>1, <2>2, <2>3, <1>1, KeepsTwice DEF DaemonStep
  <2> QED  BY <2>1, <2>2, <2>3, <2>4, <1>1
           DEF StepSafe, HeldStep, SupersededStep, ReceiptStep, DaemonStep, Keeps, ep, req
<1>3. ASSUME NEW o \in Outcomes, ChildExit(l, o) PROVE DaemonStep /\ StepSafe
  <2> DEFINE h == EndClaimHold(db, l)
             d == FailedAttempt(h, l, o)
             e == ReconcileCustodyLoss(d, ExitEvidence(l, capture[l]))
             t == SettleSupervisedFailure(d, l)
  <2>1. /\ db' \in {d, t, e} /\ proc' = proc /\ holder' = holder /\ proc[l] = "gone"
        /\ child' = [child EXCEPT ![l] = "none"]
    BY <1>3 DEF ChildExit, Untrack
  <2>2. /\ Keeps(db, h) /\ (ClaimOf(h, l) <=> ClaimOf(db, l))
        /\ ~ClaimOf(db, l) => h = db
    BY EndedHold
  <2>3. Keeps(h, d) /\ (~ClaimOf(h, l) => d = h)
    <3> HIDE DEF h
    <3> QED  BY <2>2, AttemptKeeps DEF Keeps
  <2>4. Keeps(d, e) /\ e.req = d.req /\ Keeps(d, t) /\ t.req = d.req
    <3> HIDE DEF d
    <3> QED  BY <2>3, LossKeeps, SettleKeeps DEF Keeps
  <2> HIDE DEF h, d, e, t
  <2>5. Keeps(db, db') /\ (~ClaimOf(db, l) => db'.req = db.req)
    BY <2>1, <2>2, <2>3, <2>4, KeepsTwice
  <2>6. DaemonStep  BY <2>1, <2>5, <1>1 DEF DaemonStep
  <2>7. HeldStep
    BY <2>1, <2>5 DEF HeldStep, ClaimOf, Live, Current, req
  <2>8. ReceiptStep  BY <2>5 DEF ReceiptStep, ClaimOf, req
  <2>9. SupersededStep  BY <2>1, <2>5, <1>1 DEF SupersededStep, Keeps, ep
  <2> QED  BY <2>6, <2>7, <2>8, <2>9 DEF StepSafe
<1> QED  BY <1>2, <1>3 DEF Observe

-----------------------------------------------------------------------------
(* Sessions, reconcilers and the world. *)

\* Steps that write one part of the rows, or none.
LEMMA RegisterStep ==
  ASSUME IInv, NEW p \in Process, Register(p)
  PROVE  IInv' /\ StepSafe
<1> USE DEF IInv
<1>1. /\ Sound(db) /\ db \in Rows /\ ep \in EndpointRow /\ holder \in Process
      /\ proc \in [Process -> {"new", "missing", "live", "current", "gone"}]
      /\ child \in [Launch -> {"none", "tracked", "held"}]
      /\ child' = child /\ Live(p)
  BY RowsSound, Fields DEF Register, TypeOK, Sound, ep
<1>2. /\ Seen(p) \in {p, NoOne} /\ Token(p) \in Launch \cup {NoOne} /\ Mode(ep, p) \in Modes
      /\ Seen(p) \in Process \cup {NoOne}
  BY <1>1 DEF Seen, Token, Mode, ModeOf, Modes, EndpointRow
<1>3. ASSUME NEW e \in EndpointRow, db' = [db EXCEPT !.ep = e],
             e.owner # NoOne => e.owner = holder', e.exited => ep.exited /\ holder' = holder,
             holder' \in Process, proc' \in [Process -> {"new", "missing", "live", "current", "gone"}],
             \A q \in Process : q = p \/ proc'[q] = proc[q] \/ (Live(q) /\ Live(q)'),
             holder' = p \/ holder' = holder, Live(p)',
             ep.replaced => e.replaced /\ e.gen = ep.gen
      PROVE  IInv' /\ StepSafe
  <2>1. db' \in Rows /\ db'.ep = e /\ db'.req = db.req /\ db'.retirement = db.retirement
    BY <1>1, <1>3, EndpointWrite
  <2>2. TypeOK'  BY <2>1, <1>1, <1>3 DEF TypeOK, Sound, Claim, ep, req
  <2>3. OwnerStamped'  BY <2>1, <1>3 DEF OwnerStamped, ep
  <2>4. HolderStarted'  BY <1>1, <1>3 DEF HolderStarted, Live, Current
  <2>5. ExitedIsGone'
    BY <2>1, <1>1, <1>3 DEF ExitedIsGone, HolderStarted, Live, Current, ep
  <2>6. StepSafe
    BY <2>1, <1>1, <1>3 DEF StepSafe, HeldStep, SupersededStep, ReceiptStep, ep, req
  <2> QED  BY <2>2, <2>3, <2>4, <2>5, <2>6
<1>4. CASE Revive(p)
  <2> DEFINE b == [ep EXCEPT !.gen = @ + 1, !.epoch = @ + 1]
             e == Stamp(b, p)
  <2>1. b \in EndpointRow /\ b.mode = ep.mode
    <3>1. ep.gen + 1 \in Nat /\ ep.epoch + 1 \in Nat  BY <1>1 DEF EndpointRow
    <3>2. ASSUME NEW m \in Nat, NEW n \in Nat
          PROVE  LET c == [ep EXCEPT !.gen = m, !.epoch = n]
                 IN c \in EndpointRow /\ c.mode = ep.mode
      BY <1>1 DEF EndpointRow
    <3> QED  BY <3>1, <3>2
  <2>2. Mode(b, p) = Mode(ep, p)  BY <2>1 DEF Mode
  <2>3. e \in EndpointRow /\ e.owner = Seen(p) /\ e.exited = FALSE
    <3> HIDE DEF b
    <3> QED  BY <2>1, <2>2, <1>2 DEF Stamp, EndpointRow
  <2>4. db' = [db EXCEPT !.ep = e] /\ holder' = p /\ ~ep.replaced  BY <1>4 DEF Revive, MayRevive
  <2>5. proc' = [q \in Process |-> IF q = p THEN "current"
                              ELSE IF Current(q) THEN "live" ELSE proc[q]]
    BY <1>4 DEF Revive
  <2>6. /\ proc' \in [Process -> {"new", "missing", "live", "current", "gone"}]
        /\ \A q \in Process : q = p \/ proc'[q] = proc[q] \/ (Live(q) /\ Live(q)')
        /\ Live(p)'
    BY <2>5, <1>1 DEF Live, Current
  <2> HIDE DEF e
  <2> QED  BY <2>3, <2>4, <2>6, <1>2, <1>3
<1>5. CASE Restamp(p)
  <2> DEFINE b == Stamp(ep, p)
             e == [b EXCEPT !.state = IF ep.state = "busy" THEN "busy" ELSE "idle"]
  <2>1. b \in EndpointRow /\ b.owner = Seen(p) /\ b.exited = FALSE /\ b.gen = ep.gen
        /\ b.replaced = ep.replaced
    BY <1>1, <1>2 DEF Stamp, EndpointRow
  <2>2. e \in EndpointRow /\ e.owner = Seen(p) /\ e.exited = FALSE /\ e.gen = ep.gen
        /\ e.replaced = ep.replaced
    <3> HIDE DEF b
    <3> QED  BY <2>1 DEF EndpointRow
  <2>3. db' = [db EXCEPT !.ep = e] /\ holder' = p /\ proc' = [proc EXCEPT ![p] = "current"]
    BY <1>5 DEF Restamp, ep
  <2> HIDE DEF e
  <2> QED  BY <2>2, <2>3, <1>1, <1>2, <1>3 DEF Live, Current
<1>6. CASE Replay(p)
  <2> DEFINE e == [ep EXCEPT !.mode = Mode(ep, p)]
  <2>1. e \in EndpointRow /\ e.owner = ep.owner /\ e.exited = ep.exited /\ e.gen = ep.gen
        /\ e.replaced = ep.replaced
    BY <1>1, <1>2 DEF EndpointRow
  <2>2. db' = [db EXCEPT !.ep = e] /\ holder' = holder /\ proc' = [proc EXCEPT ![p] = "current"]
    BY <1>6 DEF Replay, ep
  <2> HIDE DEF e
  <2> QED  BY <2>1, <2>2, <1>1, <1>2, <1>3 DEF Live, Current, OwnerStamped
<1> QED  BY <1>4, <1>5, <1>6 DEF Register

\* Nobody has stamped the row.
SameRegime ==
  /\ db'.ep.gen = db.ep.gen /\ db'.ep.epoch = db.ep.epoch /\ db'.ep.token = db.ep.token
  /\ holder' = holder

\* Steps of a session that write the endpoint's state or work, or a decided
\* request, and steps of the reconcilers.
LEMMA RowStep ==
  ASSUME IInv, db' \in Rows, Claim(db'), UNCHANGED <<proc, child, holder>>,
         SameRegime, db'.ep.owner = db.ep.owner, db'.ep.replaced = db.ep.replaced,
         db'.ep.exited => db.ep.exited \/ ~Live(holder),
         db'.req.state # "pending" \/ db.req.state # "claimed" \/ child[db.req.by] = "none",
         db.req.state # "completed" \/ db'.req.state = "completed" \/ Message
  PROVE  IInv' /\ StepSafe
<1> USE DEF IInv, SameRegime
<1>1. TypeOK'  BY DEF TypeOK, Claim, ep, req
<1>2. OwnerStamped'  BY DEF OwnerStamped, ep
<1>3. HolderStarted'  BY DEF HolderStarted
<1>4. ExitedIsGone'  BY DEF ExitedIsGone, ep, Live, Current
<1>5. StepSafe  BY DEF StepSafe, HeldStep, SupersededStep, ReceiptStep, ep, req
<1> QED  BY <1>1, <1>2, <1>3, <1>4, <1>5

SameOwner(e, f) ==
  /\ f.gen = e.gen /\ f.epoch = e.epoch /\ f.token = e.token /\ f.owner = e.owner
  /\ f.replaced = e.replaced

\* Writing the endpoint's state leaves its owner and the record of an exit.
LEMMA StateWrite ==
  ASSUME NEW d, Sound(d), NEW s \in {"idle", "busy", "dead", "retiring", "closed"}
  PROVE  LET e == [d.ep EXCEPT !.state = s]
         IN e \in EndpointRow /\ SameOwner(d.ep, e) /\ e.exited = d.ep.exited
<1>1. d.ep \in EndpointRow  BY Fields DEF Sound
<1> QED  BY <1>1 DEF EndpointRow, SameOwner

LEMMA SessionStep ==
  ASSUME IInv, NEW p \in Process,
         \/ Close(p) \/ Receive(p) \/ \E state \in {"busy", "idle"} : SetState(p, state)
         \/ \E w \in Work : SetWork(p, w)
  PROVE  IInv' /\ StepSafe /\ SameRegime
<1>1. Sound(db) /\ db \in Rows  BY RowsSound DEF IInv, TypeOK
<1>2. ASSUME NEW s \in {"idle", "busy", "dead", "retiring", "closed"},
             db' = [db EXCEPT !.ep.state = s], UNCHANGED <<proc, child, holder>>
      PROVE  IInv' /\ StepSafe /\ SameRegime
  <2> DEFINE e == [db.ep EXCEPT !.state = s]
  <2>1. e \in EndpointRow /\ SameOwner(db.ep, e) /\ e.exited = db.ep.exited
    BY <1>1, StateWrite
  <2>2. db' = [db EXCEPT !.ep = e]  BY <1>2
  <2> HIDE DEF e
  <2>3. /\ db' \in Rows /\ db'.ep = e /\ db'.req = db.req  BY <2>1, <2>2, <1>1, EndpointWrite
  <2>4. Claim(db') BY <2>3, <1>1 DEF Sound, Claim
  <2>5. SameRegime  BY <1>2, <2>1, <2>3 DEF SameRegime, SameOwner
  <2> QED  BY <1>1, <1>2, <2>1, <2>3, <2>4, <2>5, RowStep DEF SameOwner
<1>3. CASE Close(p)  BY <1>2, <1>3 DEF Close
<1>4. ASSUME NEW s \in {"busy", "idle"}, SetState(p, s) PROVE IInv' /\ StepSafe /\ SameRegime
  BY <1>2, <1>4 DEF SetState
<1>5. CASE Receive(p)
  <2>1. db' = Unclaimed(db, "completed") /\ UNCHANGED <<proc, child, holder>>
    BY <1>5 DEF Receive
  <2>2. Sound(db') /\ db'.ep = db.ep /\ db'.req.state = "completed"
    BY <2>1, <1>1, UnclaimedRows
  <2>3. SameRegime  BY <2>1, <2>2 DEF SameRegime
  <2> QED  BY <2>1, <2>2, <2>3, RowStep DEF Sound
<1>6. ASSUME NEW w \in Work, SetWork(p, w) PROVE IInv' /\ StepSafe /\ SameRegime
  <2>1. PICK r \in {"open", "done"} : db' = [db EXCEPT !.work[w] = r]
    BY <1>6 DEF SetWork
  <2>2. UNCHANGED <<proc, child, holder>>  BY <1>6 DEF SetWork
  <2>3. db' \in Rows /\ db'.ep = db.ep /\ db'.req = db.req
    BY <2>1, <1>1 DEF Rows, WorkRow
  <2>4. SameRegime  BY <2>2, <2>3 DEF SameRegime
  <2> QED  BY <2>2, <2>3, <2>4, <1>1, RowStep DEF Sound, Claim
<1> QED  BY <1>3, <1>4, <1>5, <1>6

\* The owner the row names is gone, or it is not the live holder.
LEMMA OwnerIsHolder ==
  ASSUME IInv, OwnerKnown(ep)
  PROVE  ep.owner = holder /\ ep.owner \in Process
BY DEF IInv, OwnerStamped, OwnerKnown, TypeOK

\* While a retirement is not fenced it is about the owner the row names.
LEMMA RetiredOwner ==
  ASSUME IInv, db.retirement.state = "pending", ~RetirementFenced
  PROVE  db.retirement.of.owner = holder
<1>1. db.retirement.of \in OwnerSeen
  BY Fields DEF IInv, TypeOK, RetirementRow
<1>2. db.retirement.of.owner \in Process /\ db.retirement.of.owner = ep.owner
  BY <1>1 DEF RetirementFenced, OwnerSeen
<1> QED  BY <1>2, CustodyAssumption DEF IInv, OwnerStamped, Process

LEMMA ReconcilerStep ==
  ASSUME IInv, AdmitRetirement \/ DecideRetirement \/ ReconcileOwner
  PROVE  IInv' /\ StepSafe /\ SameRegime /\ GoneStep
<1>1. /\ Sound(db) /\ db \in Rows /\ UNCHANGED <<proc, child, holder>>
      /\ db.ep \in EndpointRow /\ db.retirement \in RetirementRow
  BY RowsSound, Fields
     DEF IInv, TypeOK, AdmitRetirement, DecideRetirement, ReconcileOwner
<1>2. ASSUME NEW s \in {"idle", "busy", "dead", "retiring", "closed"}, NEW x \in BOOLEAN,
             NEW r \in RetirementRow,
             \/ db' = [db EXCEPT !.ep = [db.ep EXCEPT !.state = s, !.exited = x],
                                 !.retirement = r]
             \/ db' = [db EXCEPT !.ep = [db.ep EXCEPT !.state = s], !.retirement = r]
                  /\ x = db.ep.exited,
             x => db.ep.exited \/ ~Live(holder)
      PROVE  IInv' /\ StepSafe /\ SameRegime /\ db'.ep.state = s /\ db'.ep.exited = x
  <2>1. PICK e \in EndpointRow :
          /\ e.state = s /\ e.exited = x /\ SameOwner(db.ep, e)
          /\ db' = [db EXCEPT !.ep = e, !.retirement = r]
    <3> DEFINE e == [db.ep EXCEPT !.state = s, !.exited = x]
               f == [db.ep EXCEPT !.state = s]
    <3>1. e \in EndpointRow /\ SameOwner(db.ep, e) /\ e.exited = x /\ e.state = s
      BY <1>1 DEF EndpointRow, SameOwner
    <3>2. f \in EndpointRow /\ SameOwner(db.ep, f) /\ f.exited = db.ep.exited /\ f.state = s
      BY <1>1 DEF EndpointRow, SameOwner
    <3>3. \/ db' = [db EXCEPT !.ep = e, !.retirement = r]
          \/ db' = [db EXCEPT !.ep = f, !.retirement = r] /\ x = db.ep.exited
      BY <1>2
    <3> HIDE DEF e, f
    <3> QED  BY <3>1, <3>2, <3>3
  <2>2. db' \in Rows /\ db'.ep = e /\ db'.req = db.req  BY <2>1, <1>1 DEF Rows
  <2>3. Claim(db')  BY <2>2, <1>1 DEF Sound, Claim
  <2>4. SameRegime  BY <1>1, <2>1, <2>2 DEF SameRegime, SameOwner
  <2> QED  BY <1>1, <1>2, <2>1, <2>2, <2>3, <2>4, RowStep DEF SameOwner
<1>3. CASE AdmitRetirement
  <2> DEFINE r == [state |-> "pending",
                   of |-> [gen |-> ep.gen, epoch |-> ep.epoch, token |-> ep.token,
                           owner |-> ep.owner, ownerGen |-> ep.ownerGen]]
  <2>1. r \in RetirementRow
    BY <1>1, <1>3, OwnerIsHolder DEF AdmitRetirement, RetirementRow, OwnerSeen, EndpointRow, ep
  <2>2. db' = [db EXCEPT !.ep = [db.ep EXCEPT !.state = "retiring"], !.retirement = r]
    BY <1>3 DEF AdmitRetirement
  <2>3. ep.state = "idle" /\ db.ep.exited \in BOOLEAN /\ db.retirement.state # "pending"
    BY <1>1, <1>3 DEF AdmitRetirement, EndpointRow
  <2>4. IInv' /\ StepSafe /\ SameRegime /\ db'.ep.state = "retiring" /\ db'.ep.exited = db.ep.exited
    <3> HIDE DEF r
    <3> QED  BY <2>1, <2>2, <2>3, <1>2
  <2> QED  BY <2>4 DEF GoneStep, ep
<1>4. CASE DecideRetirement
  <2> DEFINE n == [state |-> "none"]
             t == [db.retirement EXCEPT !.state = "terminated"]
  <2>1. n \in RetirementRow  BY DEF RetirementRow
  <2>2. db.retirement.state = "pending" /\ db.ep.exited \in BOOLEAN
    BY <1>1, <1>4 DEF DecideRetirement, EndpointRow
  <2>3. t \in RetirementRow  BY <1>1, <2>2 DEF RetirementRow
  <2>4. ASSUME NEW s \in {"idle", "retiring", ep.state}, db' = Undecided(s)
        PROVE  IInv' /\ StepSafe /\ SameRegime /\ db'.ep.state = s /\ db'.ep.exited = db.ep.exited
    <3>1. s \in {"idle", "busy", "dead", "retiring", "closed"}
      BY <2>4, <1>1, Fields DEF ep
    <3>2. db' = [db EXCEPT !.ep = [db.ep EXCEPT !.state = s], !.retirement = n]
      BY <2>4 DEF Undecided
    <3> HIDE DEF n
    <3> QED  BY <3>1, <3>2, <2>1, <2>2, <1>2
  <2>5. ASSUME db' = Terminated
        PROVE  IInv' /\ StepSafe /\ SameRegime
    <3>1. db' = [db EXCEPT !.ep = [db.ep EXCEPT !.state = "dead"], !.retirement = t]
      BY <2>5 DEF Terminated
    <3> HIDE DEF t
    <3> QED  BY <3>1, <2>2, <2>3, <1>2
  <2>6. db' = Terminated => ~Live(holder) \/ \E s \in {"idle", "retiring", ep.state} : db' = Undecided(s)
    BY <1>4, <2>2, RetiredOwner DEF DecideRetirement
  <2>7. db' = Terminated \/ \E s \in {"idle", "retiring", ep.state} : db' = Undecided(s)
    BY <1>4 DEF DecideRetirement
  <2> QED  BY <2>4, <2>5, <2>6, <2>7 DEF GoneStep, ep
<1>5. CASE ReconcileOwner
  <2>1. ep.owner = holder  BY <1>5, OwnerIsHolder DEF ReconcileOwner
  <2>2. db.ep.exited => ~Live(holder)  BY DEF IInv, ExitedIsGone, ep
  <2>3. CASE db' = [db EXCEPT !.ep.state = "dead"] /\ ep.exited
    <3>1. db' = [db EXCEPT !.ep = [db.ep EXCEPT !.state = "dead"],
                           !.retirement = db.retirement]
      BY <2>3, <1>1 DEF Rows
    <3> QED  BY <3>1, <2>2, <2>3, <1>1, <1>2 DEF GoneStep, ep, EndpointRow
  <2>4. ASSUME NEW s \in {"idle", "dead"}, ~Live(ep.owner),
               db' = [db EXCEPT !.ep.exited = TRUE, !.ep.state = s]
        PROVE  IInv' /\ StepSafe /\ SameRegime /\ GoneStep
    <3>1. db' = [db EXCEPT !.ep = [db.ep EXCEPT !.state = s, !.exited = TRUE],
                           !.retirement = db.retirement]
      BY <2>4, <1>1 DEF Rows, EndpointRow
    <3> QED  BY <3>1, <2>1, <2>4, <1>1, <1>2 DEF GoneStep
  <2>5. \/ db' = [db EXCEPT !.ep.state = "dead"] /\ ep.exited
        \/ /\ ~Live(ep.owner)
           /\ \E s \in {"idle", "dead"} : db' = [db EXCEPT !.ep.exited = TRUE, !.ep.state = s]
    <3>1. CASE db' = [db EXCEPT !.ep.state = "dead"] /\ ep.exited
      BY <3>1
    <3>2. CASE /\ ~Live(ep.owner)
               /\ db' = [db EXCEPT !.ep.exited = TRUE,
                    !.ep.state = IF @ = "dead" \/ ep.mode # "non_interactive" THEN "dead" ELSE "idle"]
      <4>1. db' = [db EXCEPT !.ep.exited = TRUE, !.ep.state =
                     IF ep.state = "dead" \/ ep.mode # "non_interactive" THEN "dead" ELSE "idle"]
        BY <3>2, <1>1 DEF Rows, EndpointRow, ep
      <4> QED  BY <3>2, <4>1
    <3> QED  BY <1>5, <3>1, <3>2 DEF ReconcileOwner
  <2> QED  BY <2>3, <2>4, <2>5
<1> QED  BY <1>3, <1>4, <1>5

LEMMA WorldStep ==
  ASSUME IInv, Message \/ Lapse \/ Restart \/ (\E p \in Pane : Open(p))
               \/ (\E p \in Process : Exit(p)) \/ UNCHANGED vars
  PROVE  IInv' /\ StepSafe /\ SameRegime
<1>1. Sound(db) /\ db \in Rows  BY RowsSound DEF IInv, TypeOK
<1>2. CASE Message
  <2> DEFINE r == [state |-> "pending", by |-> NoOne, hold |-> "none", attempts |-> 0]
  <2>1. r \in RequestRow  BY DEF RequestRow
  <2>2. /\ db' = [db EXCEPT !.req = r] /\ UNCHANGED <<proc, child, holder>>
        /\ db.req.state # "claimed"
    BY <1>2 DEF Message, req
  <2>3. r.state = "pending" /\ r.by = NoOne /\ r.hold = "none"  OBVIOUS
  <2> HIDE DEF r
  <2>4. db' \in Rows /\ db'.ep = db.ep /\ db'.req = r  BY <2>1, <2>2, <1>1, RequestWrite
  <2>5. SameRegime  BY <2>2, <2>4 DEF SameRegime
  <2> QED  BY <1>2, <2>2, <2>3, <2>4, <2>5, RowStep DEF Claim
<1>3. CASE Lapse
  <2>1. db' = [db EXCEPT !.req.hold = "lapsed"] /\ db.req.state = "claimed"
        /\ UNCHANGED <<proc, child, holder>>
    BY <1>3 DEF Lapse, req
  <2>2. Sound(db') /\ db'.ep = db.ep /\ db'.req.state = "claimed"
    BY <2>1, <1>1, HoldRows
  <2>3. SameRegime  BY <2>1, <2>2 DEF SameRegime
  <2> QED  BY <2>1, <2>2, <2>3, RowStep DEF Sound
<1>4. ASSUME db' = db, holder' = holder,
             child' \in [Launch -> {"none", "tracked", "held"}],
             proc' \in [Process -> {"new", "missing", "live", "current", "gone"}],
             \A q \in Process : \/ proc'[q] = proc[q]
                                \/ proc[q] = "new" \/ (Live(q) /\ proc'[q] = "gone"),
             \A l \in Launch : child[l] = "none" => child'[l] = "none"
      PROVE  IInv' /\ StepSafe /\ SameRegime
  <2> USE DEF IInv
  <2>1. holder \in Process  BY DEF TypeOK
  <2>2. TypeOK'  BY <1>4, <2>1 DEF TypeOK, ep, req
  <2>3. OwnerStamped'  BY <1>4 DEF OwnerStamped, ep
  <2>4. HolderStarted' /\ ExitedIsGone'
    BY <1>4, <2>1 DEF HolderStarted, ExitedIsGone, Live, Current, ep
  <2>5. HeldStep /\ SupersededStep /\ ReceiptStep
    BY <1>4 DEF HeldStep, SupersededStep, ReceiptStep, ep, req
  <2> QED  BY <1>4, <2>2, <2>3, <2>4, <2>5 DEF StepSafe, SameRegime
<1>5. /\ child \in [Launch -> {"none", "tracked", "held"}]
      /\ proc \in [Process -> {"new", "missing", "live", "current", "gone"}]
      /\ Pane \subseteq Process
  BY DEF IInv, TypeOK, Process
<1>6. CASE Restart
  BY <1>4, <1>5, <1>6 DEF Restart
<1>7. ASSUME NEW p \in Process, (p \in Pane /\ Open(p)) \/ Exit(p) PROVE IInv' /\ StepSafe /\ SameRegime
  BY <1>4, <1>5, <1>7 DEF Open, Exit, Live, Current
<1>8. CASE UNCHANGED vars
  BY <1>4, <1>5, <1>8 DEF vars
<1> QED  BY <1>2, <1>3, <1>5, <1>6, <1>7, <1>8

-----------------------------------------------------------------------------
(* The theorems. *)

LEMMA InitInv == ASSUME Init PROVE IInv
<1>1. PICK p \in Pane :
        /\ db = [ep |-> [state |-> "idle", gen |-> 1, epoch |-> 1, token |-> NoOne,
                         mode |-> ModeOf(p), owner |-> Seen(p),
                         ownerGen |-> IF Seen(p) = p THEN 1 ELSE 0, exited |-> FALSE,
                         replaced |-> FALSE],
                 req |-> [state |-> "none", by |-> NoOne, hold |-> "none",
                          attempts |-> 0],
                 work |-> [w \in Work |-> "none"],
                 retirement |-> [state |-> "none"]]
        /\ proc = [q \in Process |-> IF q = p THEN "current" ELSE "new"]
        /\ holder = p
  BY DEF Init
<1>2. p \in Process /\ Seen(p) \in {p, NoOne} /\ ModeOf(p) \in Modes
  BY DEF Process, Seen, ModeOf, Modes
<1>3. child \in [Launch -> {"none", "tracked", "held"}]  BY DEF Init
<1>4. db.ep \in EndpointRow /\ db.ep.owner = Seen(p) /\ db.ep.exited = FALSE
  BY <1>1, <1>2 DEF EndpointRow
<1>5. /\ db.req \in RequestRow /\ db.req.state = "none" /\ db.req.by = NoOne
      /\ db.req.hold = "none"
  BY <1>1 DEF RequestRow
<1>6. db.work \in WorkRow /\ db.retirement \in RetirementRow
  BY <1>1 DEF WorkRow, RetirementRow
<1>7. db \in Rows  BY <1>1, <1>4, <1>5, <1>6 DEF Rows
<1>8. proc \in [Process -> {"new", "missing", "live", "current", "gone"}]
      /\ proc[holder] = "current" /\ holder \in Process
  BY <1>1, <1>2
<1> QED  BY <1>1, <1>2, <1>3, <1>4, <1>5, <1>7, <1>8
         DEF IInv, TypeOK, OwnerStamped, HolderStarted, ExitedIsGone, ep, req

LEMMA DaemonStepInv ==
  ASSUME IInv, DaemonStep, StepSafe
  PROVE  IInv' /\ StepSafe
BY DaemonKeepsIInv

LEMMA NextSafe ==
  ASSUME IInv, [Next]_vars
  PROVE  IInv' /\ StepSafe
<1>1. TypeOK  BY DEF IInv
<1>2. CASE Tick  BY <1>1, <1>2, TickStep, DaemonStepInv
<1>3. ASSUME NEW l \in Launch, Observe(l) PROVE IInv' /\ StepSafe
  BY <1>1, <1>3, ObserveStep, DaemonStepInv
<1>4. ASSUME NEW p \in Process,
             \/ Register(p) \/ Close(p) \/ Receive(p) \/ Exit(p)
             \/ \E state \in {"busy", "idle"} : SetState(p, state)
             \/ \E w \in Work : SetWork(p, w)
      PROVE  IInv' /\ StepSafe
  BY <1>4, RegisterStep, SessionStep, WorldStep
<1>5. CASE AdmitRetirement \/ DecideRetirement \/ ReconcileOwner
  BY <1>5, ReconcilerStep
<1>6. CASE Message \/ Lapse \/ Restart \/ (\E p \in Pane : Open(p)) \/ UNCHANGED vars
  BY <1>6, WorldStep
<1> QED  BY <1>2, <1>3, <1>4, <1>5, <1>6 DEF Next

LEMMA Inductive == Spec => []IInv
<1>1. Init => IInv  BY InitInv
<1>2. IInv /\ [Next]_vars => IInv'  BY NextSafe
<1> QED  BY <1>1, <1>2, PTL DEF Spec

\* The rows keep their types through every handler: a claim names the child
\* it was taken for and only a claim carries a lease.
THEOREM CustodyTypes == Spec => []TypeOK
<1>1. IInv => TypeOK  BY DEF IInv
<1> QED  BY <1>1, Inductive, PTL

\* retirement_executor, owner reconciliation: whatever registers between
\* their reads, neither finds the process gone that stamped the row last.
THEOREM LiveHolderIsNotGone == Spec => LiveHolderNotGone
<1>1. IInv /\ [Next]_vars => [GoneStep]_vars
  <2>1. ASSUME IInv, DecideRetirement \/ ReconcileOwner PROVE GoneStep
    BY <2>1, ReconcilerStep
  <2>2. ASSUME ~(DecideRetirement \/ ReconcileOwner) PROVE GoneStep
    BY <2>2 DEF GoneStep
  <2> QED  BY <2>1, <2>2
<1> QED  BY <1>1, Inductive, PTL DEF Spec, LiveHolderNotGone

\* holdClaimsOfLiveChildren: no pass, lapse or restart returns a claim to
\* the queue beneath a child the daemon knows and that runs.
THEOREM LiveChildKeepsClaim == Spec => ClaimHeldForLiveChild
<1>1. IInv /\ [Next]_vars => [HeldStep]_vars  BY NextSafe DEF StepSafe
<1> QED  BY <1>1, Inductive, PTL DEF Spec, ClaimHeldForLiveChild

\* A superseded endpoint is not revived, un-superseded or launched on again.
THEOREM SupersededIsFinal == Spec => SupersededStaysDown
<1>1. IInv /\ [Next]_vars => [SupersededStep]_vars  BY NextSafe DEF StepSafe
<1> QED  BY <1>1, Inductive, PTL DEF Spec, SupersededStaysDown

\* A receipt is final whatever child, lease or retry is still in flight.
THEOREM ReceiptIsFinal == Spec => ReceiptStands
<1>1. IInv /\ [Next]_vars => [ReceiptStep]_vars  BY NextSafe DEF StepSafe
<1> QED  BY <1>1, Inductive, PTL DEF Spec, ReceiptStands

-----------------------------------------------------------------------------
(* The fences of reconcileCustodyLoss. *)

CaptureRow == [gen : Nat, recorded : Nat, epoch : Nat, token : Launch \cup {NoOne},
               work : SUBSET Work, holder : Process \cup {NoOne}]

\* The row carries the token of the process that stamped it last, and its
\* epoch moves with its generation; so a launch captured the token of the
\* holder it saw and an epoch equal to the generation it saw.
RowToken == ep.token = Token(holder) /\ ep.gen = ep.epoch
Captured(c) == c.recorded = c.epoch /\ c.token \in {c.holder, NoOne}

FInv == /\ RowToken /\ capture \in [Launch -> CaptureRow]
        /\ \A l \in Launch : Captured(capture[l])

\* What a launch captures, and what is left when it is forgotten.
LEMMA CaptureSound ==
  ASSUME IInv, FInv
  PROVE  /\ CaptureOf(Swept) \in CaptureRow /\ Captured(CaptureOf(Swept))
         /\ NoCapture \in CaptureRow /\ Captured(NoCapture)
<1>1. Swept.ep = ep /\ ep \in EndpointRow /\ holder \in Process
  BY SweptRows, Fields DEF IInv, TypeOK, ep
<1>2. OpenWork(Swept) \in SUBSET Work  BY DEF OpenWork
<1>3. ep.gen \in Nat /\ ep.gen + 1 \in Nat /\ ep.epoch \in Nat
      /\ ep.token \in Launch \cup {NoOne}
  BY <1>1 DEF EndpointRow
<1>4. ep.gen = ep.epoch /\ ep.token \in {holder, NoOne}
  BY DEF FInv, RowToken, Token
<1>5. NoCapture \in CaptureRow /\ Captured(NoCapture)
  BY DEF NoCapture, CaptureRow, Captured
<1> QED  BY <1>1, <1>2, <1>3, <1>4, <1>5 DEF CaptureOf, CaptureRow, Captured

\* Steps that do not stamp the row leave its token and its epoch.
LEMMA RegimeKept ==
  ASSUME FInv, SameRegime
  PROVE  RowToken'
BY DEF FInv, RowToken, SameRegime, ep, Token

LEMMA StampedRow ==
  ASSUME IInv, FInv, NEW p \in Process, Register(p)
  PROVE  RowToken'
<1>1. db \in Rows /\ ep \in EndpointRow /\ RowToken
  BY Fields DEF IInv, TypeOK, FInv, ep
<1>2. ep.gen \in Nat /\ ep.epoch \in Nat  BY <1>1 DEF EndpointRow
<1>3. ASSUME NEW e, db' = [db EXCEPT !.ep = e], e.token = Token(holder'), e.gen = e.epoch
      PROVE  RowToken'
  <2>1. db'.ep = e  BY <1>1, <1>3 DEF Rows
  <2> QED  BY <2>1, <1>3 DEF RowToken, ep, Token
<1>4. CASE Revive(p)
  <2> DEFINE b == [ep EXCEPT !.gen = @ + 1, !.epoch = @ + 1]
  <2>1. b.gen = b.epoch  BY <1>1 DEF RowToken, EndpointRow
  <2>2. db' = [db EXCEPT !.ep = Stamp(b, p)] /\ holder' = p  BY <1>4 DEF Revive
  <2> HIDE DEF b
  <2>3. Stamp(b, p).token = Token(p) /\ Stamp(b, p).gen = b.gen /\ Stamp(b, p).epoch = b.epoch
    BY DEF Stamp
  <2>4. Token(holder') = Token(p)  BY <2>2
  <2> QED  BY <2>1, <2>2, <2>3, <2>4, <1>3
<1>5. CASE Restamp(p)
  <2> DEFINE b == Stamp(ep, p)
             e == [b EXCEPT !.state = IF ep.state = "busy" THEN "busy" ELSE "idle"]
  <2>1. e.token = Token(p) /\ e.gen = e.epoch
    <3>1. b.token = Token(p) /\ b.gen = ep.gen /\ b.epoch = ep.epoch  BY DEF Stamp
    <3>2. e.token = b.token /\ e.gen = b.gen /\ e.epoch = b.epoch  BY DEF Stamp
    <3> QED  BY <3>1, <3>2, <1>1 DEF RowToken
  <2>2. db' = [db EXCEPT !.ep = e] /\ holder' = p  BY <1>5 DEF Restamp, ep
  <2>3. Token(holder') = Token(p)  BY <2>2
  <2> HIDE DEF e
  <2> QED  BY <2>1, <2>2, <2>3, <1>3
<1>6. CASE Replay(p)
  <2> DEFINE e == [ep EXCEPT !.mode = Mode(ep, p)]
  <2>1. e.token = ep.token /\ e.gen = ep.gen /\ e.epoch = ep.epoch
    BY <1>1 DEF EndpointRow
  <2>2. db' = [db EXCEPT !.ep = e] /\ holder' = holder  BY <1>6 DEF Replay, ep
  <2>3. Token(holder') = Token(holder)  BY <2>2
  <2> HIDE DEF e
  <2> QED  BY <2>1, <2>2, <2>3, <1>1, <1>3 DEF RowToken
<1> QED  BY <1>4, <1>5, <1>6 DEF Register

LEMMA DaemonRegime == ASSUME DaemonStep PROVE SameRegime
BY DEF DaemonStep, Keeps, SameRegime

\* A step either stamps the row or leaves its regime.
LEMMA NextRegime ==
  ASSUME IInv, [Next]_vars
  PROVE  SameRegime \/ \E p \in Process : Register(p)
<1>1. TypeOK  BY DEF IInv
<1>2. CASE Tick  BY <1>1, <1>2, TickStep, DaemonRegime
<1>3. ASSUME NEW l \in Launch, Observe(l) PROVE SameRegime
  BY <1>1, <1>3, ObserveStep, DaemonRegime
<1>4. ASSUME NEW p \in Process,
             \/ Close(p) \/ Receive(p) \/ Exit(p)
             \/ \E state \in {"busy", "idle"} : SetState(p, state)
             \/ \E w \in Work : SetWork(p, w)
      PROVE  SameRegime
  BY <1>4, SessionStep, WorldStep
<1>5. CASE AdmitRetirement \/ DecideRetirement \/ ReconcileOwner
  BY <1>5, ReconcilerStep
<1>6. CASE Message \/ Lapse \/ Restart \/ (\E p \in Pane : Open(p)) \/ UNCHANGED vars
  BY <1>6, WorldStep
<1> QED  BY <1>2, <1>3, <1>4, <1>5, <1>6 DEF Next

\* The daemon remembers a launch, forgets one or all, or changes nothing.
LEMMA NextCapture ==
  ASSUME [Next]_vars
  PROVE  \/ capture' = capture
         \/ capture' = [l \in Launch |-> NoCapture]
         \/ \E l \in Launch, c \in {NoCapture, CaptureOf(Swept)} :
              capture' = [capture EXCEPT ![l] = c]
<1>1. CASE Tick
  BY <1>1 DEF Tick, Sweep, Exhaust, LaunchChild, LaunchThrows
<1>2. ASSUME NEW l \in Launch, Observe(l)
      PROVE  capture' = [capture EXCEPT ![l] = NoCapture]
  BY <1>2 DEF Observe, ChildMissing, ChildExit, Untrack
<1>3. ASSUME NEW p \in Process, Register(p) PROVE capture' = capture
  BY <1>3 DEF Register
<1>4. ASSUME NEW p \in Process,
             \/ Close(p) \/ Receive(p) \/ Exit(p)
             \/ \E state \in {"busy", "idle"} : SetState(p, state)
             \/ \E w \in Work : SetWork(p, w)
      PROVE  capture' = capture
  BY <1>4 DEF Close, Receive, Exit, SetState, SetWork
<1>5. CASE AdmitRetirement \/ DecideRetirement \/ ReconcileOwner
  BY <1>5 DEF AdmitRetirement, DecideRetirement, ReconcileOwner
<1>6. CASE Message \/ Lapse \/ Restart \/ (\E p \in Pane : Open(p)) \/ UNCHANGED vars
  BY <1>6 DEF Message, Lapse, Restart, Open, vars
<1> QED  BY <1>1, <1>2, <1>3, <1>4, <1>5, <1>6 DEF Next

LEMMA NextFInv ==
  ASSUME IInv, FInv, [Next]_vars
  PROVE  FInv'
<1>1. RowToken'  BY NextRegime, RegimeKept, StampedRow
<1>2. capture' \in [Launch -> CaptureRow] /\ \A l \in Launch : Captured(capture'[l])
  <2>1. capture \in [Launch -> CaptureRow] /\ \A l \in Launch : Captured(capture[l])
    BY DEF FInv
  <2>2. ASSUME NEW l \in Launch, NEW c \in CaptureRow, Captured(c),
               capture' = [capture EXCEPT ![l] = c]
        PROVE  capture' \in [Launch -> CaptureRow] /\ \A m \in Launch : Captured(capture'[m])
    BY <2>1, <2>2
  <2> QED  BY <2>1, <2>2, NextCapture, CaptureSound
<1> QED  BY <1>1, <1>2 DEF FInv

LEMMA InitFInv == ASSUME Init PROVE FInv
<1>1. ep.token = NoOne /\ ep.gen = 1 /\ ep.epoch = 1 /\ holder \in Pane
  BY DEF Init, ep
<1>2. Token(holder) = NoOne  BY <1>1, CustodyAssumption DEF Token
<1>3. capture = [l \in Launch |-> NoCapture]  BY DEF Init
<1>4. NoCapture \in CaptureRow /\ Captured(NoCapture)
  BY DEF NoCapture, CaptureRow, Captured
<1>5. RowToken  BY <1>1, <1>2 DEF RowToken
<1> QED  BY <1>3, <1>4, <1>5 DEF FInv

LEMMA Fences == Spec => [](IInv /\ FInv)
<1>1. Init => IInv /\ FInv  BY InitInv, InitFInv
<1>2. IInv /\ FInv /\ [Next]_vars => (IInv /\ FInv)'  BY NextSafe, NextFInv
<1> QED  BY <1>1, <1>2, PTL DEF Spec

\* Failing the attempt touches no work and leaves a row that is not closed
\* not closed.
LEMMA FailWork ==
  ASSUME NEW d \in Rows
  PROVE  FailRequest(d).work = d.work
BY DEF FailRequest, Unclaimed, Rows

LEMMA AttemptWork ==
  ASSUME NEW d, Sound(d), NEW l \in Launch, NEW o \in Outcomes
  PROVE  LET e == FailedAttempt(d, l, o)
         IN e.work = d.work /\ e.ep.state \in {d.ep.state, "dead"}
<1>1. d \in Rows /\ d.ep \in EndpointRow  BY Fields DEF Sound
<1>2. ASSUME NEW g \in Rows
      PROVE  LET a == AdmitReplacement(g)
                 t == SettleSupervisedFailure(g, l)
             IN /\ a.work = g.work /\ a.ep.state = g.ep.state
                /\ t.work = g.work /\ t.ep.state \in {g.ep.state, "dead"}
  BY Fields DEF AdmitReplacement, SettleSupervisedFailure, Rows, EndpointRow
<1> DEFINE f == FailSupervisedAttempt(d, o)
<1>3. ASSUME o # "clean", ClaimOf(d, l)
      PROVE  f \in Rows /\ f.work = d.work /\ f.ep.state = d.ep.state
  <2>1. d.req.state = "claimed"  BY <1>3 DEF ClaimOf
  <2>2. LET u == FailRequest(d) IN u \in Rows /\ u.work = d.work /\ u.ep.state = d.ep.state
    BY <1>1, FailWork, FailRows DEF Sound
  <2>3. LET u == AdmitReplacement(FailRequest(d))
        IN u \in Rows /\ u.work = d.work /\ u.ep.state = d.ep.state
    BY <2>2, <1>2, FailRows, AdmitKeeps DEF Keeps, Sound
  <2>4. LET u == Unclaimed(d, "pending")
        IN u \in Rows /\ u.work = d.work /\ u.ep.state = d.ep.state
    <3>1. Unclaimed(d, "pending").work = d.work  BY <1>1 DEF Unclaimed, Rows
    <3> QED  BY <3>1, <1>1, UnclaimedRows DEF Sound
  <2>5. LET u == [d EXCEPT !.req.hold = "backoff"]
        IN u \in Rows /\ u.work = d.work /\ u.ep.state = d.ep.state
    <3>1. [d EXCEPT !.req.hold = "backoff"].work = d.work  BY <1>1 DEF Rows
    <3> QED  BY <3>1, <2>1, HoldRows DEF Sound
  <2>6. o \in {"failed", "auth", "terminal", "unavailable"}  BY <1>3 DEF Outcomes
  <2> QED  BY <2>2, <2>3, <2>4, <2>5, <2>6 DEF FailSupervisedAttempt
<1>4. FailedAttempt(d, l, o) = IF o # "clean" /\ ClaimOf(d, l)
                               THEN SettleSupervisedFailure(f, l) ELSE d
  BY DEF FailedAttempt
<1> HIDE DEF f
<1> QED  BY <1>2, <1>3, <1>4

LEMMA EndedWork ==
  ASSUME TypeOK, NEW l \in Launch
  PROVE  LET e == EndClaimHold(db, l) IN e.work = db.work /\ e.ep = db.ep
BY DEF EndClaimHold, TypeOK, Rows

\* A fenced loss changes nothing; one that counts ends what it names.
LEMMA FencedLoss ==
  ASSUME NEW d, NEW ev, Fenced(d.ep, ev)
  PROVE  ReconcileCustodyLoss(d, ev) = d
BY DEF ReconcileCustodyLoss

LEMMA CountedLoss ==
  ASSUME NEW d \in Rows, NEW ev, ~Fenced(d.ep, ev), d.ep.state # "closed"
  PROVE  ev.work \cap OpenWork(ReconcileCustodyLoss(d, ev)) = {}
<1> DEFINE lost == ev.work \cap OpenWork(d)
           w == [x \in Work |-> IF x \in lost THEN "failed" ELSE d.work[x]]
           e == [d EXCEPT !.ep.state = "dead", !.work = w]
<1>1. CASE lost = {}
  BY <1>1 DEF ReconcileCustodyLoss
<1>2. CASE lost # {}
  <2>1. ReconcileCustodyLoss(d, ev) = e
    BY <1>2 DEF ReconcileCustodyLoss, Rows
  <2>2. e.work = w
    <3> HIDE DEF w
    <3> QED  BY DEF Rows
  <2>3. \A x \in Work : x \in lost => w[x] = "failed"  OBVIOUS
  <2>4. \A x \in Work : x \notin lost => w[x] = d.work[x]  OBVIOUS
  <2> HIDE DEF w, e
  <2> QED  BY <2>1, <2>2, <2>3, <2>4 DEF OpenWork
<1> QED  BY <1>1, <1>2

\* A launch that did not stamp the row, after somebody revived it or another
\* launch took it: its evidence is fenced.
LEMMA LoserFenced ==
  ASSUME IInv, FInv, NEW l \in Launch, NEW ev, NEW e,
         e.gen = ep.gen, e.epoch = ep.epoch, e.token = ep.token,
         ev.epoch = capture[l].epoch, ev.token = l, ev.captured = capture[l].token,
         holder \notin {l, capture[l].holder},
         holder \in Launch \/ ep.epoch # capture[l].epoch
  PROVE  Fenced(e, ev)
<1>1. /\ ep.token = Token(holder) /\ capture[l] \in CaptureRow /\ Captured(capture[l])
      /\ capture[l].epoch \in Nat /\ l # NoOne /\ ev.epoch # NoOne
  BY CustodyAssumption DEF FInv, RowToken, CaptureRow
<1>2. ~OwnsRegime(e, ev)
  BY <1>1 DEF OwnsRegime, Token
<1>3. CASE ep.epoch # capture[l].epoch
  BY <1>1, <1>2, <1>3 DEF Fenced, StaleEpoch
<1>4. CASE holder \in Launch
  <2>1. e.token = holder /\ holder # NoOne  BY <1>1, <1>4, CustodyAssumption DEF Token
  <2>2. ev.captured \in {capture[l].holder, NoOne}  BY <1>1 DEF Captured
  <2> QED  BY <1>1, <1>2, <2>1, <2>2 DEF Fenced, StaleToken
<1> QED  BY <1>3, <1>4

\* Only hearing of a child's end forgets that one child.
LEMMA Forgotten ==
  ASSUME IInv, [Next]_vars, NEW l \in Launch,
         child[l] # "none", child'[l] = "none", ~Restart
  PROVE  Observe(l)
<1>1. child \in [Launch -> {"none", "tracked", "held"}]  BY DEF IInv, TypeOK
<1>2. CASE Tick
  <2>1. child' = Touched \/ child' = child
        \/ \E k \in Launch : child' = [child EXCEPT ![k] = "tracked"]
    BY <1>2 DEF Tick, Sweep, Exhaust, LaunchChild, LaunchThrows
  <2> QED  BY <1>1, <2>1 DEF Touched
<1>3. ASSUME NEW k \in Launch, Observe(k) PROVE k = l
  <2>1. child' = [child EXCEPT ![k] = "none"]
    BY <1>3 DEF Observe, ChildMissing, ChildExit, Untrack
  <2> QED  BY <1>1, <2>1
<1>4. ASSUME NEW p \in Process,
             \/ Register(p) \/ Close(p) \/ Receive(p) \/ Exit(p)
             \/ \E state \in {"busy", "idle"} : SetState(p, state)
             \/ \E w \in Work : SetWork(p, w)
      PROVE  child' = child
  BY <1>4 DEF Register, Close, Receive, Exit, SetState, SetWork
<1>5. CASE AdmitRetirement \/ DecideRetirement \/ ReconcileOwner
  BY <1>5 DEF AdmitRetirement, DecideRetirement, ReconcileOwner
<1>6. CASE Message \/ Lapse \/ (\E p \in Pane : Open(p)) \/ UNCHANGED vars
  BY <1>6 DEF Message, Lapse, Open, vars
<1> QED  BY <1>2, <1>3, <1>4, <1>5, <1>6 DEF Next

\* The loss a child's end reports: what it is decided on.
LEMMA ExitFacts ==
  ASSUME IInv, NEW l \in Launch, NEW o \in Outcomes
  PROVE  LET d == FailedAttempt(EndClaimHold(db, l), l, o)
         IN /\ Sound(d) /\ d.work = db.work /\ d.ep.state \in {ep.state, "dead"}
            /\ d.ep.gen = ep.gen /\ d.ep.epoch = ep.epoch /\ d.ep.token = ep.token
<1> DEFINE h == EndClaimHold(db, l)
<1>1. Keeps(db, h) /\ h.work = db.work /\ h.ep = db.ep
  BY EndedHold, EndedWork DEF IInv
<1> HIDE DEF h
<1>2. LET d == FailedAttempt(h, l, o)
      IN /\ Keeps(h, d) /\ d.work = h.work /\ d.ep.state \in {h.ep.state, "dead"}
  BY <1>1, AttemptKeeps, AttemptWork DEF Keeps
<1>3. LET d == FailedAttempt(h, l, o)
      IN /\ Sound(d) /\ d.work = db.work /\ d.ep.state \in {ep.state, "dead"}
         /\ d.ep.gen = ep.gen /\ d.ep.epoch = ep.epoch /\ d.ep.token = ep.token
  BY <1>1, <1>2 DEF Keeps, ep
<1> QED  BY <1>3 DEF h

LEMMA MissingFacts ==
  ASSUME IInv
  PROVE  /\ Sound(FailRequest(db)) /\ FailRequest(db).work = db.work
         /\ FailRequest(db).ep = ep
BY RowsSound, FailRows, FailWork DEF IInv, TypeOK, ep

LEMMA EvidenceFields ==
  ASSUME FInv, NEW l \in Launch
  PROVE  /\ LET ev == ExitEvidence(l, capture[l])
            IN /\ ev.gen = capture[l].gen /\ ev.epoch = capture[l].epoch /\ ev.token = l
               /\ ev.captured = capture[l].token /\ ev.work = capture[l].work
         /\ LET ev == SpawnErrorEvidence(l, capture[l])
            IN /\ ev.gen = capture[l].recorded /\ ev.epoch = capture[l].epoch /\ ev.token = l
               /\ ev.captured = capture[l].token /\ ev.work = capture[l].work
BY DEF ExitEvidence, SpawnErrorEvidence

\* A launch that lost the row to another process ends no work when it ends.
LEMMA LoserSafe ==
  ASSUME IInv, FInv, [Next]_vars
  PROVE  LoserStep
<1> SUFFICES ASSUME NEW l \in Launch, child[l] # "none", child'[l] = "none", ~Restart,
                    holder \notin {l, capture[l].holder},
                    holder \in Launch \/ ep.epoch # capture[l].epoch
             PROVE  OpenWork(db) \subseteq OpenWork(db')
  BY DEF LoserStep
<1>1. Observe(l)  BY Forgotten
<1>2. CASE ChildMissing(l)
  <2> DEFINE f == FailRequest(db)
             ev == SpawnErrorEvidence(l, capture[l])
  <2>1. db' = ReconcileCustodyLoss(f, ev)  BY <1>2 DEF ChildMissing
  <2>2. Fenced(f.ep, ev)
    <3>1. f.ep = ep  BY MissingFacts
    <3> HIDE DEF f, ev
    <3>2. ev.epoch = capture[l].epoch /\ ev.token = l /\ ev.captured = capture[l].token
      BY EvidenceFields DEF ev
    <3> QED  BY <3>1, <3>2, LoserFenced
  <2>3. f.work = db.work  BY MissingFacts
  <2> HIDE DEF f, ev
  <2> QED  BY <2>1, <2>2, <2>3, FencedLoss DEF OpenWork
<1>3. ASSUME NEW o \in Outcomes, ChildExit(l, o)
      PROVE  OpenWork(db) \subseteq OpenWork(db')
  <2> DEFINE d == FailedAttempt(EndClaimHold(db, l), l, o)
             ev == ExitEvidence(l, capture[l])
  <2>1. db' \in {d, SettleSupervisedFailure(d, l), ReconcileCustodyLoss(d, ev)}
    BY <1>3 DEF ChildExit
  <2>2. /\ Sound(d) /\ d.work = db.work
        /\ d.ep.gen = ep.gen /\ d.ep.epoch = ep.epoch /\ d.ep.token = ep.token
    BY ExitFacts
  <2>3. ev.epoch = capture[l].epoch /\ ev.token = l /\ ev.captured = capture[l].token
    BY EvidenceFields
  <2> HIDE DEF d, ev
  <2>4. Fenced(d.ep, ev)  BY <2>2, <2>3, LoserFenced
  <2>5. SettleSupervisedFailure(d, l).work = d.work
    BY <2>2 DEF SettleSupervisedFailure, Sound, Rows
  <2> QED  BY <2>1, <2>2, <2>4, <2>5, FencedLoss DEF OpenWork
<1> QED  BY <1>1, <1>2, <1>3 DEF Observe

\* The launch that owns the row is not fenced: its failed exit ends its work.
LEMMA WinnerCounts ==
  ASSUME IInv, FInv
  PROVE  WinnerStep
<1> SUFFICES ASSUME NEW l \in Launch, NEW o \in Outcomes \ {"clean"}, ChildExit(l, o),
                    holder = l, ep.state # "closed", ep.gen = capture[l].gen
             PROVE  capture[l].work \cap OpenWork(db') = {}
  BY DEF WinnerStep
<1> DEFINE d == FailedAttempt(EndClaimHold(db, l), l, o)
           ev == ExitEvidence(l, capture[l])
<1>1. db' = ReconcileCustodyLoss(d, ev)  BY DEF ChildExit, RetainsCustody
<1>2. /\ Sound(d) /\ d.ep.state # "closed"
      /\ d.ep.gen = ep.gen /\ d.ep.token = ep.token
  BY ExitFacts
<1>3. ev.gen = capture[l].gen /\ ev.token = l /\ ev.work = capture[l].work
  BY EvidenceFields
<1>4. ep.token = l /\ l # NoOne
  BY CustodyAssumption DEF FInv, RowToken, Token
<1> HIDE DEF d, ev
<1>5. ~Fenced(d.ep, ev)
  BY <1>2, <1>3, <1>4 DEF Fenced, StaleGeneration, StaleToken, StaleEpoch, OwnsRegime
<1> QED  BY <1>1, <1>2, <1>3, <1>5, CountedLoss DEF Sound

\* And so does a launch that never ran, while the row is as it captured it.
LEMMA MissingCounts ==
  ASSUME IInv, FInv, [Next]_vars
  PROVE  MissingStep
<1> SUFFICES ASSUME NEW l \in Launch, child[l] # "none", proc[l] = "missing",
                    child'[l] = "none", ~Restart, ep.epoch = capture[l].epoch,
                    ep.token = capture[l].token, ep.state # "closed"
             PROVE  capture[l].work \cap OpenWork(db') = {}
  BY DEF MissingStep
<1> DEFINE f == FailRequest(db)
           ev == SpawnErrorEvidence(l, capture[l])
<1>1. db' = ReconcileCustodyLoss(f, ev)
  BY Forgotten DEF Observe, ChildExit, ChildMissing
<1>2. Sound(f) /\ f.ep = ep  BY MissingFacts
<1>3. /\ ev.gen = capture[l].recorded /\ ev.epoch = capture[l].epoch
      /\ ev.captured = capture[l].token /\ ev.work = capture[l].work
  BY EvidenceFields
<1>4. ep.gen = ep.epoch /\ capture[l].recorded = capture[l].epoch
  BY DEF FInv, RowToken, Captured
<1> HIDE DEF f, ev
<1>5. ~Fenced(f.ep, ev)
  BY <1>2, <1>3, <1>4 DEF Fenced, StaleGeneration, StaleToken, StaleEpoch
<1> QED  BY <1>1, <1>2, <1>3, <1>5, CountedLoss DEF Sound

\* reconcileCustodyLoss: the exit of a launch that another live process has
\* overtaken ends none of the work the endpoint has in custody.
THEOREM LosersAreFenced == Spec => LoserEndsNothing
<1>1. IInv /\ FInv /\ [Next]_vars => [LoserStep]_vars  BY LoserSafe
<1> QED  BY <1>1, Fences, PTL DEF Spec, LoserEndsNothing

\* And the fences never silence the launch whose loss counts: the one that
\* owns the row, or one that never ran on a row nobody has stamped since.
THEOREM OwnersAreHeard == Spec => OwnLossCounts
<1>1. IInv /\ FInv /\ [Next]_vars => [WinnerStep /\ MissingStep]_vars
  BY WinnerCounts, MissingCounts
<1> QED  BY <1>1, Fences, PTL DEF Spec, OwnLossCounts
=============================================================================
