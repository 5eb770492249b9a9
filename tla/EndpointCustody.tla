-------------------------- MODULE EndpointCustody --------------------------
(***************************************************************************)
(* Who owns a session's endpoint.  The daemon starts headless children     *)
(* (Launch) for unread messages, the user opens sessions (Pane) on the     *)
(* same endpoint, and the daemon learns of a registration, an exit or a    *)
(* vanished process in separate requests and passes.  A restart forgets    *)
(* the children, which live on, so two launches can stand on one row.      *)
(*                                                                         *)
(* "db" holds the rows, each handler or tick one transaction on them;      *)
(* "proc" is the operating system's view, "child" and "capture" are the    *)
(* daemon's memory of its children.  One endpoint with a bound session and *)
(* its earliest request stand for all; availability takeovers, sessions    *)
(* hosted by an app-server, adapters that call resume.claim and outside    *)
(* applications that report a death are left out.  "holder" is not in the  *)
(* code: the process that last stamped the row.                            *)
(***************************************************************************)
EXTENDS Integers, FiniteSets

CONSTANTS Launch,       \* children the daemon may start; also their tokens
          Pane,         \* processes the user may start: no launch token
          Headless,     \* the panes started non-interactively
          Unseen,       \* processes whose hook finds no owner to report
          Work,         \* attempts and delegations in the endpoint's custody
          NoOne,        \* SQL NULL
          MaxAttempts,  \* MAX_RESUME_ATTEMPTS
          MaxGen,       \* bound: generations of the endpoint
          MaxStarted,   \* bound: processes in all
          MaxMessages,  \* bound: requests made
          MaxRestarts   \* bound: daemon restarts

ASSUME CustodyAssumption ==
  /\ Launch \cap Pane = {} /\ Headless \subseteq Pane /\ Unseen \subseteq Launch \cup Pane
  /\ NoOne \notin Launch \cup Pane \cup Nat
  /\ {MaxAttempts, MaxGen, MaxStarted, MaxMessages, MaxRestarts} \subseteq Nat

\* A process is "current" while it knows the generation the row has.
VARIABLES db, proc, child, capture, holder, messages, restarts
vars == <<db, proc, child, capture, holder, messages, restarts>>

Process == Launch \cup Pane
Modes   == {"interactive", "non_interactive"}
ModeOf(p) == IF p \in Headless THEN "non_interactive" ELSE "interactive"
ep      == db.ep
req     == db.req

Current(p)    == proc[p] = "current"
Live(p)       == proc[p] = "live" \/ Current(p)
Seen(p)       == IF p \in Unseen THEN NoOne ELSE p
Token(p)      == IF p \in Launch THEN p ELSE NoOne
MoreStart     == Cardinality({p \in Process : proc[p] # "new"}) < MaxStarted
OpenWork(d)   == {w \in Work : d.work[w] = "open"}
OwnerKnown(e) == e.owner # NoOne /\ e.ownerGen = e.gen

NoCapture == [gen |-> 0, recorded |-> 0, epoch |-> 0, token |-> NoOne, work |-> {},
              holder |-> NoOne]

\* A session has registered from a pane and is between turns.
Init ==
  /\ \E p \in Pane :
       /\ db = [ep |-> [state |-> "idle", gen |-> 1, epoch |-> 1, token |-> NoOne,
                        mode |-> ModeOf(p), owner |-> Seen(p),
                        ownerGen |-> IF Seen(p) = p THEN 1 ELSE 0, exited |-> FALSE,
                        replaced |-> FALSE],
                req |-> [state |-> "none", by |-> NoOne, hold |-> "none",
                         attempts |-> 0],
                work |-> [w \in Work |-> "none"],
                retirement |-> [state |-> "none"]]
       /\ proc = [q \in Process |-> IF q = p THEN "current" ELSE "new"]
       /\ holder = p
  /\ child = [l \in Launch |-> "none"]
  /\ capture = [l \in Launch |-> NoCapture]
  /\ messages = 0 /\ restarts = 0

-----------------------------------------------------------------------------
(* Custody loss. *)

OwnsRegime(e, ev) == ev.token # NoOne /\ ev.token = e.token

NoTokenFence(e, ev) == FALSE
WinnerFenced(e, ev) == ev.epoch # NoOne /\ ev.epoch # e.epoch

StaleGeneration(e, ev) == ev.gen # e.gen
StaleToken(e, ev) ==
  ev.token # NoOne /\ ~OwnsRegime(e, ev) /\ e.token # ev.captured
StaleEpoch(e, ev) ==
  ~OwnsRegime(e, ev) /\ ev.epoch # NoOne /\ ev.epoch # e.epoch

Fenced(e, ev) == StaleGeneration(e, ev) \/ StaleToken(e, ev) \/ StaleEpoch(e, ev)

ReconcileCustodyLoss(d, ev) ==
  LET lost == ev.work \cap OpenWork(d)
  IN IF d.ep.state = "closed" \/ Fenced(d.ep, ev) \/ lost = {}
     THEN d
     ELSE [d EXCEPT !.ep.state = "dead",
                    !.work = [w \in Work |-> IF w \in lost THEN "failed" ELSE @[w]]]

\* What a launch knows of the row it starts on.
CaptureOf(d) ==
  [gen    |-> IF d.ep.state = "dead" THEN d.ep.gen + 1 ELSE d.ep.gen,
   recorded |-> d.ep.gen, epoch |-> d.ep.epoch, token |-> d.ep.token,
   work   |-> OpenWork(d), holder |-> holder]

ExitEvidence(l, c) ==
  [kind |-> "supervised_exit", gen |-> c.gen, epoch |-> c.epoch, token |-> l,
   captured |-> c.token, work |-> c.work]

\* A launch that never ran stamped nothing: it names the generation it saw.
SpawnErrorEvidence(l, c) ==
  [ExitEvidence(l, c) EXCEPT !.kind = "spawn_error", !.gen = c.recorded]

CurrentCustody(d) ==
  [kind |-> "lease_expired", gen |-> d.ep.gen, epoch |-> d.ep.epoch,
   token |-> d.ep.token, captured |-> d.ep.token, work |-> OpenWork(d)]

-----------------------------------------------------------------------------
(* Requests and their claims. *)

\* A request outside a claim; every way out of a claim clears the lease.
Unclaimed(d, state) ==
  [d EXCEPT !.req = [state |-> state, by |-> NoOne, hold |-> "none",
                     attempts |-> @.attempts]]

FailRequest(d) ==
  IF d.req.state \in {"pending", "claimed"} THEN Unclaimed(d, "failed") ELSE d

\* The session is not on this machine: a fresh endpoint takes over its work.
AdmitReplacement(d) == [d EXCEPT !.ep.replaced = TRUE]

ClaimOf(d, l) == d.req.state = "claimed" /\ d.req.by = l

\* outcome: "failed", "auth" (refused credential or rate limit: wait and
\* retry), "terminal" (no retry can help) or "unavailable" (the session does
\* not exist here).
FailSupervisedAttempt(d, outcome) ==
  LET spent == d.req.attempts >= MaxAttempts
  IN CASE outcome = "auth" /\ ~spent -> [d EXCEPT !.req.hold = "backoff"]
       [] outcome = "unavailable" -> IF d.ep.replaced THEN FailRequest(d)
                                     ELSE AdmitReplacement(FailRequest(d))
       [] outcome = "terminal" \/ (outcome # "unavailable" /\ spent) -> FailRequest(d)
       [] outcome = "failed" /\ ~spent -> Unclaimed(d, "pending")

\* A busy row this exact launch left behind.
SettleSupervisedFailure(d, l) ==
  IF /\ d.ep.state = "busy"
     /\ d.ep.gen = capture[l].gen
     /\ d.ep.token = l
  THEN [d EXCEPT !.ep.state = "dead"]
  ELSE d

NeverHeld(d) == d

\* A claim whose own child runs is extended before lapsed claims are reaped.
HoldClaims(d) ==
  IF /\ d.req.state = "claimed" /\ d.req.hold \in {"held", "lapsed"}
     /\ child[d.req.by] # "none"
  THEN [d EXCEPT !.req.hold = "held"]
  ELSE d

Reaped(d) ==
  IF d.req.state = "claimed" /\ d.req.hold = "lapsed"
  THEN Unclaimed(d, "pending")
  ELSE d

EndClaimHold(d, l) ==
  IF child[l] = "held" /\ ClaimOf(d, l) /\ d.req.hold = "held"
  THEN [d EXCEPT !.req.hold = "lapsed"]
  ELSE d

-----------------------------------------------------------------------------
(* The resumer's pass: one synchronous step. *)

OwnerExited(e) == e.state = "dead" /\ e.exited /\ OwnerKnown(e)

TerminatedRetirement(d) ==
  /\ d.ep.state = "dead" /\ d.retirement.state = "terminated"
  /\ d.retirement.of = [gen |-> d.ep.gen, epoch |-> d.ep.epoch, token |-> d.ep.token,
                        owner |-> d.ep.owner, ownerGen |-> d.ep.ownerGen]

OnlyNonInteractive(d) ==
  d.ep.mode = "non_interactive" /\ d.ep.state \in {"dead", "idle"}

Resumable(d) ==
  \/ d.ep.mode = "non_interactive" /\ d.ep.state \in {"dead", "idle"}
  \/ TerminatedRetirement(d)
  \/ OwnerExited(d.ep)

Candidate(d)     == d.req.state = "pending" /\ Resumable(d) /\ ~d.ep.replaced
LiveChild        == \E l \in Launch : child[l] # "none"
OwnerAlive(e)    == e.owner # NoOne /\ Live(e.owner)

\* What the pass finds after holding and reaping claims.
Swept == Reaped(HoldClaims(db))

Touched == [l \in Launch |-> IF HoldClaims(db) # db /\ l = req.by
                             THEN "held" ELSE child[l]]

\* Tokens are fresh and interchangeable.
Fresh(l) == MoreStart /\ proc[l] = "new" /\ l = CHOOSE m \in Launch : proc[m] = "new"

Sweep ==
  /\ Swept # db
  /\ \/ ~Candidate(Swept) \/ LiveChild \/ OwnerAlive(ep)
     \/ \A l \in Launch : ~Fresh(l)
  /\ db' = Swept /\ child' = Touched
  /\ UNCHANGED <<proc, capture, holder, messages, restarts>>

Exhaust ==
  /\ Candidate(Swept) /\ ~LiveChild
  /\ Swept.req.attempts >= MaxAttempts
  /\ LET d == FailRequest(Swept)
     IN db' = ReconcileCustodyLoss(d, CurrentCustody(d))
  /\ UNCHANGED <<proc, child, capture, holder, messages, restarts>>

\* "ps" answers or not; only a fresh "alive" defers.
MayLaunch(d) == \E answers \in BOOLEAN : ~(answers /\ OwnerAlive(d.ep))

Claimed(d, l) ==
  [d EXCEPT !.req = [state |-> "claimed", by |-> l, hold |-> "held",
                     attempts |-> @.attempts + 1]]

Launches(l) ==
  /\ Candidate(Swept) /\ ~LiveChild
  /\ Swept.req.attempts < MaxAttempts
  /\ MayLaunch(Swept) /\ Fresh(l)

\* started: FALSE is a missing binary, which arrives as a later event.
LaunchChild(l) ==
  /\ Launches(l)
  /\ db' = Claimed(Swept, l)
  /\ \E run \in {"live", "missing"} : proc' = [proc EXCEPT ![l] = run]
  /\ capture' = [capture EXCEPT ![l] = CaptureOf(Swept)]
  /\ child' = [child EXCEPT ![l] = "tracked"]
  /\ UNCHANGED <<holder, messages, restarts>>

\* The claim is taken, and the working directory is gone or spawn throws.
LaunchThrows(l) ==
  /\ Launches(l)
  /\ proc' = [proc EXCEPT ![l] = "gone"]
  /\ LET d == FailRequest(Claimed(Swept, l))
         c == CaptureOf(Swept)
     IN \/ db' = d
        \/ db' = ReconcileCustodyLoss(d, SpawnErrorEvidence(l, c))
  /\ UNCHANGED <<child, capture, holder, messages, restarts>>

Untrack(l) ==
  /\ child' = [child EXCEPT ![l] = "none"]
  /\ capture' = [capture EXCEPT ![l] = NoCapture]

ChildMissing(l) ==
  /\ child[l] # "none" /\ proc[l] = "missing"
  /\ Untrack(l)
  /\ db' = ReconcileCustodyLoss(FailRequest(db), SpawnErrorEvidence(l, capture[l]))
  /\ proc' = [proc EXCEPT ![l] = "gone"]
  /\ UNCHANGED <<holder, messages, restarts>>

-----------------------------------------------------------------------------
(* A child's exit reaches the daemon. *)

RetainsCustody(d, outcome) ==
  outcome = "clean" /\ d.ep.state # "closed" /\ ~d.ep.replaced

\* A claim that completed, lapsed or moved is not this child's to fail.
FailedAttempt(d, l, outcome) ==
  IF outcome # "clean" /\ ClaimOf(d, l)
  THEN SettleSupervisedFailure(FailSupervisedAttempt(d, outcome), l)
  ELSE d

ChildExit(l, outcome) ==
  /\ child[l] # "none" /\ proc[l] = "gone"
  /\ Untrack(l)
  /\ LET d == FailedAttempt(EndClaimHold(db, l), l, outcome)
     IN db' = IF RetainsCustody(d, outcome)
              THEN IF OpenWork(d) # {} THEN SettleSupervisedFailure(d, l) ELSE d
              ELSE ReconcileCustodyLoss(d, ExitEvidence(l, capture[l]))
  /\ UNCHANGED <<proc, holder, messages, restarts>>

-----------------------------------------------------------------------------
(* Registration and the session's own reports. *)

\* A launch resumes the session in the background and leaves its mode; a
\* pane records how it was started.
Mode(e, p) == IF p \in Launch THEN e.mode ELSE ModeOf(p)

Stamp(e, p) ==
  [state |-> "idle", gen |-> e.gen, epoch |-> e.epoch, replaced |-> e.replaced,
   owner |-> Seen(p), ownerGen |-> IF Seen(p) = p THEN e.gen ELSE 0,
   token |-> Token(p), mode |-> Mode(e, p), exited |-> FALSE]

AlwaysRevives(e) == e.state = "dead"
MayRevive(e) == e.state = "dead" /\ ~e.replaced

\* A new process on a dead row.
Revive(p) ==
  /\ MayRevive(ep) /\ ep.gen < MaxGen
  /\ db' = [db EXCEPT !.ep = Stamp([ep EXCEPT !.gen = @ + 1, !.epoch = @ + 1], p)]
  /\ proc' = [q \in Process |-> IF q = p THEN "current"
                              ELSE IF Current(q) THEN "live" ELSE proc[q]]
  /\ holder' = p

\* Another process on a live row: it becomes the owner, generation and
\* epoch stay.
Restamp(p) ==
  /\ ep.state \in {"idle", "busy", "retiring"} /\ Seen(p) \notin {NoOne, ep.owner}
  /\ db' = [db EXCEPT !.ep = [Stamp(@, p) EXCEPT
                               !.state = IF ep.state = "busy" THEN "busy" ELSE "idle"]]
  /\ proc' = [proc EXCEPT ![p] = "current"]
  /\ holder' = p

\* The same process again, or one whose hook saw no owner.
Replay(p) ==
  /\ ep.state \in {"idle", "busy", "retiring"} /\ Seen(p) \in {NoOne, ep.owner}
  /\ db' = [db EXCEPT !.ep.mode = Mode(ep, p)]
  /\ proc' = [proc EXCEPT ![p] = "current"]
  /\ UNCHANGED holder

\* endpoint.register; closed and superseded rows refuse it.
Register(p) ==
  /\ Live(p)
  /\ Revive(p) \/ Restamp(p) \/ Replay(p)
  /\ UNCHANGED <<child, capture, messages, restarts>>

SetState(p, state) ==
  /\ Current(p) /\ ep.state \notin {"closed", "retiring", state}
  /\ db' = [db EXCEPT !.ep.state = state]
  /\ UNCHANGED <<proc, child, capture, holder, messages, restarts>>

Close(p) ==
  /\ Current(p) /\ ep.state # "closed"
  /\ db' = [db EXCEPT !.ep.state = "closed"]
  /\ UNCHANGED <<proc, child, capture, holder, messages, restarts>>

\* message.receive of the message the request is for.
Receive(p) ==
  /\ Current(p) /\ ep.state = "busy" /\ req.state \in {"pending", "claimed"}
  /\ db' = Unclaimed(db, "completed")
  /\ UNCHANGED <<proc, child, capture, holder, messages, restarts>>

\* The session takes work on and hands it in; a node that recovery moves
\* to another attempt leaves the endpoint like one handed in.
SetWork(p, w) ==
  /\ Current(p) /\ ep.state = "busy"
  /\ \/ db.work[w] = "none" /\ ~ep.replaced /\ db' = [db EXCEPT !.work[w] = "open"]
     \/ db.work[w] = "open" /\ db' = [db EXCEPT !.work[w] = "done"]
  /\ UNCHANGED <<proc, child, capture, holder, messages, restarts>>

-----------------------------------------------------------------------------
(* Retirement, and owners seen to be gone. *)

\* A listener of the row's current process outlived its park deadline.
AdmitRetirement ==
  /\ ep.state = "idle" /\ ep.mode # "non_interactive"
  /\ OwnerKnown(ep) /\ db.retirement.state # "pending"
  /\ db' = [db EXCEPT !.ep.state = "retiring",
       !.retirement = [state |-> "pending",
         of |-> [gen |-> ep.gen, epoch |-> ep.epoch, token |-> ep.token,
                 owner |-> ep.owner, ownerGen |-> ep.ownerGen]]]
  /\ UNCHANGED <<proc, child, capture, holder, messages, restarts>>

NeverFenced == FALSE
RetirementFenced ==
  ~ /\ ep.state = "retiring" /\ ep.mode # "non_interactive"
    /\ db.retirement.of = [gen |-> ep.gen, epoch |-> ep.epoch, token |-> ep.token,
                           owner |-> ep.owner, ownerGen |-> ep.ownerGen]

Undecided(state) == [db EXCEPT !.ep.state = state, !.retirement = [state |-> "none"]]
Terminated == [db EXCEPT !.ep.state = "dead", !.retirement.state = "terminated"]

\* The last alternative is a "ps" that cannot answer: the retirement has
\* failed and the row stays as it is.
DecideRetirement ==
  /\ db.retirement.state = "pending"
  /\ IF RetirementFenced THEN db' = Undecided(ep.state)
     ELSE \/ ~Live(db.retirement.of.owner) /\ db' = Terminated
          \/ Live(db.retirement.of.owner) /\ db' = Undecided("idle")
          \/ db' = Undecided("retiring")
  /\ UNCHANGED <<proc, child, capture, holder, messages, restarts>>

\* An owner gone without its Stop reaching the daemon; and a row its hosted
\* turn left idle after the owner went.
ReconcileOwner ==
  /\ OwnerKnown(ep)
  /\ \/ /\ ep.exited /\ ep.state = "idle" /\ ep.mode # "non_interactive"
        /\ db' = [db EXCEPT !.ep.state = "dead"]
     \/ /\ ~ep.exited /\ ep.state \in {"idle", "busy", "dead"} /\ ~Live(ep.owner)
        /\ db' = [db EXCEPT !.ep.exited = TRUE,
             !.ep.state = IF @ = "dead" \/ ep.mode # "non_interactive" THEN "dead" ELSE "idle"]
  /\ UNCHANGED <<proc, child, capture, holder, messages, restarts>>

-----------------------------------------------------------------------------
(* The world. *)

\* routeDelivery, or the resumer for a message that waited for the exit.
Message ==
  /\ messages < MaxMessages /\ messages' = messages + 1
  /\ req.state \in {"none", "completed", "failed"} /\ ~ep.replaced
  /\ ep.state = "dead" \/ (ep.state = "idle" /\ ep.mode = "non_interactive")
  /\ db' = [db EXCEPT !.req = [state |-> "pending", by |-> NoOne, hold |-> "none",
                               attempts |-> 0]]
  /\ UNCHANGED <<proc, child, capture, holder, restarts>>

Lapse ==
  /\ req.state = "claimed" /\ req.hold \in {"held", "backoff"}
  /\ db' = [db EXCEPT !.req.hold = "lapsed"]
  /\ UNCHANGED <<proc, child, capture, holder, messages, restarts>>

Open(p) ==
  /\ proc[p] = "new" /\ MoreStart
  /\ proc' = [proc EXCEPT ![p] = "live"]
  /\ UNCHANGED <<db, child, capture, holder, messages, restarts>>

Exit(p) ==
  /\ Live(p)
  /\ proc' = [proc EXCEPT ![p] = "gone"]
  /\ UNCHANGED <<db, child, capture, holder, messages, restarts>>

\* The daemon stops and starts: its children run on, unknown to it.
Restart ==
  /\ restarts < MaxRestarts /\ restarts' = restarts + 1
  /\ child' = [l \in Launch |-> "none"]
  /\ capture' = [l \in Launch |-> NoCapture]
  /\ UNCHANGED <<db, proc, holder, messages>>

Outcomes == {"clean", "failed", "auth", "terminal", "unavailable"}

Tick == Sweep \/ Exhaust \/ \E l \in Launch : LaunchChild(l) \/ LaunchThrows(l)

Observe(l) == ChildMissing(l) \/ \E o \in Outcomes : ChildExit(l, o)

Next ==
  \/ Tick \/ \E l \in Launch : Observe(l)
  \/ \E p \in Process :
       \/ Register(p) \/ Close(p) \/ Receive(p) \/ Exit(p)
       \/ \E state \in {"busy", "idle"} : SetState(p, state)
       \/ \E w \in Work : SetWork(p, w)
  \/ AdmitRetirement \/ DecideRetirement \/ ReconcileOwner
  \/ Message \/ Lapse \/ Restart \/ \E p \in Pane : Open(p)

\* The daemon's timers run, it hears of every child it started, a headless
\* child ends and a lease runs out; nobody has to register or answer.
Spec == Init /\ [][Next]_vars
  /\ WF_vars(Tick) /\ WF_vars(DecideRetirement) /\ WF_vars(ReconcileOwner)
  /\ WF_vars(Lapse)
  /\ \A l \in Launch : WF_vars(Observe(l)) /\ WF_vars(Exit(l))

-----------------------------------------------------------------------------
(* Properties. *)

EndpointRow ==
  [state : {"idle", "busy", "dead", "retiring", "closed"}, gen : Nat, epoch : Nat,
   token : Launch \cup {NoOne}, mode : Modes, owner : Process \cup {NoOne},
   ownerGen : Nat, exited : BOOLEAN, replaced : BOOLEAN]
RequestRow ==
  [state : {"none", "pending", "claimed", "completed", "failed"},
   by : Launch \cup {NoOne}, hold : {"none", "held", "lapsed", "backoff"}, attempts : Nat]
WorkRow == [Work -> {"none", "open", "failed", "done"}]
OwnerSeen == [gen : Nat, epoch : Nat, token : Launch \cup {NoOne}, owner : Process,
              ownerGen : Nat]
RetirementRow == [state : {"none"}] \cup [state : {"pending", "terminated"}, of : OwnerSeen]
Rows == [ep : EndpointRow, req : RequestRow, work : WorkRow, retirement : RetirementRow]

\* The rows keep their types, and only a claimed request has a claimant and
\* a lease.
TypeOK ==
  /\ db \in Rows
  /\ IF req.state = "claimed" THEN req.by \in Launch /\ req.hold # "none"
                             ELSE req.by = NoOne /\ req.hold = "none"
  /\ proc \in [Process -> {"new", "missing", "live", "current", "gone"}]
  /\ child \in [Launch -> {"none", "tracked", "held"}]
  /\ holder \in Process

\* The exit (or the missing binary) of a launch that another live process
\* has overtaken, a child that took the row or anybody who revived it, ends
\* no custody: reconcileCustodyLoss on evidence of a losing launch.
LoserStep ==
  \A l \in Launch :
    /\ child[l] # "none" /\ child'[l] = "none" /\ ~Restart
    /\ holder \notin {l, capture[l].holder} /\ Live(holder)
    /\ holder \in Launch \/ ep.epoch # capture[l].epoch
    => OpenWork(db) \subseteq OpenWork(db')
LoserEndsNothing == [][LoserStep]_vars

\* The fences do not silence the launch that counts and leave its work open:
\* the failed exit of the launch that owns the row, under the generation it
\* was predicted, ends all the custody it started with.
WinnerStep ==
  \A l \in Launch, o \in Outcomes \ {"clean"} :
    /\ ChildExit(l, o) /\ holder = l /\ ep.state # "closed"
    /\ ep.gen = capture[l].gen
    => capture[l].work \cap OpenWork(db') = {}
\* And so does the loss of a launch that never ran, unless somebody
\* registered meanwhile: its request has failed and nobody else will end it.
MissingStep ==
  \A l \in Launch :
    /\ child[l] # "none" /\ proc[l] = "missing" /\ child'[l] = "none"
    /\ ~Restart /\ holder = capture[l].holder
    /\ ep.epoch = capture[l].epoch /\ ep.token = capture[l].token
    /\ ep.state # "closed"
    => capture[l].work \cap OpenWork(db') = {}
OwnLossCounts == [][WinnerStep /\ MissingStep]_vars

\* The process that stamped the row last is never found gone while it
\* lives, however its registration falls between the reads: retirement and
\* owner reconciliation.
GoneStep ==
  (DecideRetirement \/ ReconcileOwner) /\ Live(holder)
    => (db'.ep.state = "dead" => ep.state = "dead") /\ (db'.ep.exited => ep.exited)
LiveHolderNotGone == [][GoneStep]_vars

\* A claim stays with the child that runs for it: no pass returns it to the
\* queue beneath a child the daemon knows (holdClaimsOfLiveChildren).
HeldStep ==
  (req.state = "claimed" /\ child[req.by] # "none" /\ Live(req.by))
    => db'.req.state # "pending"
ClaimHeldForLiveChild == [][HeldStep]_vars

\* Once a replacement is admitted nobody starts or revives the endpoint: a
\* late registration of an unknown child does not bring it back.
SupersededStep ==
  ep.replaced => /\ db'.ep.gen = ep.gen /\ db'.ep.replaced
                 /\ \A l \in Launch : child[l] = "none" => child'[l] = "none"
SupersededStaysDown == [][SupersededStep]_vars

\* A receipt is final: no exit, lapse or exhaustion reopens or fails a
\* request whose message was received.
ReceiptStep == req.state = "completed" =>
                 db'.req.state = "completed" \/ Message
ReceiptStands == [][ReceiptStep]_vars

\* When no process is left and the row names its owner, a request does not
\* wait for ever: it is retried, received or failed.  Not promised are a
\* retirement "ps" could not decide (the row stays retiring) and a row left
\* busy after its owner had gone, by a child whose hook named no process:
\* both wait for somebody to register.  The bound on processes must not be
\* what the request waits for.
Quiet ==
  /\ \A p \in Process : ~Live(p)
  /\ OwnerKnown(ep) /\ ep.state \notin {"retiring", "closed"}
  /\ ~(ep.state = "busy" /\ ep.exited)
  /\ MoreStart \/ req.attempts >= MaxAttempts
RequestDecided == <>[]Quiet => []<>(req.state \notin {"pending", "claimed"})
=============================================================================
