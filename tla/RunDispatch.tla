----------------------------- MODULE RunDispatch -----------------------------
(***************************************************************************)
(* How a scheduled slot of one job becomes a run and how the run is closed:  *)
(* the daemon's admission (daemon_dispatch_airlock.mjs), dispatchScope with   *)
(* its reconciler, reaper, evaluation, launch and completion                  *)
(* (dispatch_service.mjs, reaper.mjs, dispatch_evaluator.mjs), the closing of *)
(* a handed-off command (command_exit_finalization.mjs), and `tasks cancel`.  *)
(*                                                                           *)
(* Every dispatcher is a process of its own. They share four stores that no   *)
(* common transaction covers: the runtime ledger (RunLedger), active-runs     *)
(* .json, the catalog (jobs.json), and the job's append-only history. A slot  *)
(* is its number; time is `due`, the last slot whose time has come.           *)
(***************************************************************************)
EXTENDS RunLedger, Sequences

CONSTANTS
    Dispatchers,    \* processes that may run `helm-tasks dispatch`
    MaxEvents,      \* bound, together: dispatchers that die half way, commands that
                    \* cannot be spawned or die without an exit record,
                    \* transactions refused as runtime_store_locked, uses of `tasks
                    \* cancel` (each may be interrupted), and dispatches that this
                    \* job did not cause or the daemon's single flight not hold back
    None

ASSUME DispatchConstants ==
    MaxEvents \in Nat /\ {None, "cancel"} \cap Dispatchers = {} /\ None # "cancel"

VARIABLES
    kind,       \* how the job runs: "handoff" (executeAndFinalizeCommandStarted)
                \* or "waited" (executeAndFinalize)
    policy,     \* its schedule.missed_run_policy, "skip" or "latest_only"
    due,        \* the last slot whose time has come
    catalog,    \* state.next_run_at of the job, a slot
    active,     \* active-runs.json: the job's run, or 0
    hist,       \* completion events of a run in the job's history, in order
    skips,      \* slots recorded as skipped in the job's history
    proc,       \* the command of a run; "ok" and "fail" have left an exit record
    claim,      \* <exit record>.finalized: absent, or who made it
    p,          \* the dispatchers
    c,          \* the `tasks cancel` command; fenced are the runs it closed while
                \* nobody was closing them
    left        \* what is left of MaxEvents

stores == <<active, hist, skips, catalog>>
job == <<kind, policy>>
world == <<proc, claim, due, job>>
vars == <<ledger, stores, world, p, c, left>>

(* "unstarted": a failed handoff, which its dispatcher closes without a claim. *)
Outcomes == {"success", "failure", "lost", "timeout", "cancelled", "unstarted"}
Exited == {"ok", "fail", "killed"}
Leased == {"commit", "reap", "check", "ledger", "close", "orphan",
           "evaluate", "tail", "rewrite"}
Planning == {"tail", "rewrite", "evidence", "activate", "wait", "backoff", "conclude", "persist"}
Launching == {"tail", "evidence", "activate"}
Finalizing == {"ledger", "close"}

(* by: who sees the exit, "reaper", "killer" or "watch"; next: the schedule   *)
(* of the job object in memory, 0 if untouched; fresh: meta.updated_at is     *)
(* still the one read with the job; retry: in-process retries used.           *)
Asleep == [pc |-> "idle", run |-> 0, seen |-> <<>>, out |-> "none",
           by |-> "reaper", next |-> 0, fresh |-> TRUE, retry |-> 0]

Init ==
    /\ LedgerInit
    /\ kind \in {"handoff", "waited"} /\ policy \in {"skip", "latest_only"}
    /\ due = 1 /\ catalog = 1 /\ active = 0
    /\ hist = [r \in Runs |-> <<>>] /\ skips = {}
    /\ proc = [r \in Runs |-> "none"] 
    /\ claim = [r \in Runs |-> None]
    /\ p = [d \in Dispatchers |-> Asleep]
    /\ c = [pc |-> "idle", run |-> 0, stale |-> FALSE, fenced |-> {}]
    /\ left = MaxEvents

-----------------------------------------------------------------------------
Handoff == kind = "handoff"
Dead(r) == proc[r] # "live"
DeadRuns == {r \in Runs : Dead(r)}
Recorded(r) == Handoff /\ proc[r] \in {"ok", "fail"}

At(d, pc) == p[d].pc = pc
Goto(d, pc) == p' = [p EXCEPT ![d].pc = pc]
Sleep(d) == p' = [p EXCEPT ![d] = Asleep]
Spend == left > 0 /\ left' = left - 1

(* A transaction that meets a locked runtime store after its retries.         *)
Locked == Spend /\ UNCHANGED ledger

LaunchedBy(d, r) == p[d].run = r /\ p[d].pc \in Launching

-----------------------------------------------------------------------------
(* The airlock, over the one job: classifyScopeDueForDispatch, and the due    *)
(* query, which takes active_run_id for the presence of a run. Either may be   *)
(* configured.                                                                *)
Due == catalog <= due

Classified ==
    active \in DeadRuns \cup (IF Due THEN {0} ELSE {})

Queried == Classified \/ (Due /\ dueActive = 0)

(* withExecutionLease, acquireLease, reconcileRuntimeLedger up to its scan.   *)
(* The lease is held exactly as long as its dispatcher lives and is in a      *)
(* leased step; it is taken over only after its holder died (renewals every   *)
(* 30 s, stale after 120 s).                                                  *)
StartTick(d) ==
    /\ At(d, "idle")
    /\ \A e \in Dispatchers : p[e].pc \notin Leased
    /\ p' = [p EXCEPT ![d].pc = "commit", ![d].seen = attempt]
    /\ UNCHANGED <<ledger, stores, world, c>>

(* Mutant: the daemon forks at every tick.                                    *)
AtEveryTick == TRUE

(* launchDispatch of the daemon keeps one child of a scope in flight for 30 s,  *)
(* in which a child ends its tick and brings the run it launched to a state;   *)
(* of a handoff that is the end of the startup window.                        *)
Starting == Launching \cup IF Handoff THEN {"wait"} ELSE {}
SingleFlight ==
    \A d \in Dispatchers :
        p[d].pc \in Leased \cup Starting => p[d].retry > 0

(* The daemon forks a dispatcher for the scope on account of this job.        *)
Admitted == Classified \/ Queried
DispatchDue(d) == Admitted /\ SingleFlight /\ StartTick(d) /\ UNCHANGED left

(* The scope is dispatched for another of its jobs, by hand, or by a daemon    *)
(* that has restarted or does not keep to the single flight.                  *)
DispatchOther(d) == StartTick(d) /\ Spend

(* The transaction of the reconciler. The dispatcher that launches a run      *)
(* records its evidence within the launch grace as long as it lives.          *)
Reconcile(d) ==
    /\ At(d, "commit")
    /\ \/ Locked /\ Sleep(d)
       \/ /\ \E late \in SUBSET {r \in Runs : \A e \in Dispatchers : ~LaunchedBy(e, r)} :
                ReconcileRuntimeLedger(p[d].seen, DeadRuns, late)
          /\ p' = [p EXCEPT ![d].pc = "reap", ![d].seen = <<>>]
          /\ UNCHANGED left
    /\ UNCHANGED <<stores, world, c>>

-----------------------------------------------------------------------------
(* reapWorkspace looks at the job's entry.                                    *)
Close(d, r, by, out, pc) ==
    p' = [p EXCEPT ![d].pc = pc, ![d].run = r, ![d].by = by, ![d].out = out]

RecordedOutcome(r) ==
    CASE proc[r] = "ok" -> "success" [] proc[r] = "fail" -> "failure" [] OTHER -> "lost"

(* Nothing to do, or the attempt is within its finalization grace.            *)
NothingToReap == active \in DeadRuns => ~Recorded(active) /\ attempt[active].pending

ReapDead(d) ==
    /\ At(d, "reap")
    /\ active \in DeadRuns
    /\ IF Handoff THEN Close(d, active, "reaper", RecordedOutcome(active), "check")
                  ELSE Close(d, active, "reaper", "lost", "orphan")
    /\ UNCHANGED <<ledger, stores, world, c, left>>

(* killAndReap: the run is past its hard cap, which it may reach at any time.  *)
ReapOverdue(d) ==
    /\ At(d, "reap")
    /\ active \in Runs \ DeadRuns
    /\ proc' = [proc EXCEPT ![active] = "killed"]
    /\ Close(d, active, "killer", "timeout", IF Handoff THEN "check" ELSE "orphan")
    /\ UNCHANGED <<ledger, stores, claim, due, job, c, left>>

(* After finalizeCommandExit returns to whoever called it.                    *)
Return(d) ==
    IF p[d].by = "watch" THEN Sleep(d)
    ELSE Close(d, 0, "reaper", "none", "evaluate")

HolderDead(r) ==
    \/ claim[r] \in Dispatchers /\ ~(p[claim[r]].run = r /\ p[claim[r]].pc \in Finalizing)
    \/ claim[r] = "cancel" /\ ~(c.run = r /\ c.pc = "clear")

(* Mutant: the exclusive claim file is not asked.                              *)
MayClaimAlways(r) == TRUE

(* finalizeCommandExit, up to its claim: is this run still the active one, and *)
(* does nobody else close it? If it is not active, the reaper goes on to its    *)
(* orphan branch unless the finalization grace holds it back. claimFinalization *)
(* takes over a claim 60 s old; a live finalizer needs less than that.         *)
MayClaim(r) == claim[r] = None \/ HolderDead(r)

ClaimExit(d) ==
    LET r == p[d].run
        mine == active = r /\ MayClaim(r)
    IN  /\ At(d, "check")
        /\ claim' = IF mine THEN [claim EXCEPT ![r] = d] ELSE claim
        /\ c' = IF mine /\ c.run = r THEN [c EXCEPT !.stale = FALSE] ELSE c
        /\ \/ mine /\ Goto(d, "ledger")
           \/ active = r /\ ~mine /\ Return(d)
           \/ active # r /\ p[d].by = "reaper" /\ Goto(d, "orphan")
           \/ active # r /\ (p[d].by = "reaper" => attempt[r].pending) /\ Return(d)
        /\ UNCHANGED <<ledger, stores, proc, due, job, left>>

LedgerState == [success |-> "succeeded", failure |-> "failed", lost |-> "lost",
                timeout |-> "timed_out"]

(* Mutant: a run whose ledger is locked is closed all the same.                *)
FinalizeAnyway(d) ==
    /\ At(d, "ledger")
    /\ \/ FinalizeRunAttempt(p[d].run, LedgerState[p[d].out]) /\ UNCHANGED left
       \/ Locked
    /\ Goto(d, "close")
    /\ UNCHANGED <<stores, world, c>>

(* A locked ledger gives the claim back; only the killer goes on without it.  *)
FinalizeLedger(d) ==
    LET r == p[d].run
    IN  /\ At(d, "ledger")
        /\ \/ /\ FinalizeRunAttempt(r, LedgerState[p[d].out])
              /\ Goto(d, "close")
              /\ UNCHANGED <<claim, left>>
           \/ /\ Locked
              /\ claim' = [claim EXCEPT ![r] = None]
              /\ IF p[d].by = "killer" THEN Goto(d, "orphan") ELSE Return(d)
        /\ UNCHANGED <<stores, proc, due, job, c>>

AppendCompleted(r, out) == hist' = [hist EXCEPT ![r] = Append(@, out)]

(* A dispatcher that dies between two writes to different stores.             *)
CutShort(d) == Spend /\ Sleep(d)

(* clearActiveRun goes by job, not by run; then the job's history.            *)
CloseRun(d) ==
    /\ At(d, "close")
    /\ active' = 0
    /\ \/ AppendCompleted(p[d].run, p[d].out) /\ Return(d) /\ UNCHANGED left
       \/ UNCHANGED hist /\ CutShort(d)
    /\ UNCHANGED <<ledger, skips, catalog, world, c>>

(* The orphan branch: clear by job, then emitCompletion.                      *)
OrphanRun(d) ==
    /\ At(d, "orphan")
    /\ active' = 0
    /\ \/ UNCHANGED ledger /\ CutShort(d)
       \/ Locked /\ Return(d)
       \/ /\ FinalizeRunAttempt(p[d].run, IF p[d].by = "killer" THEN "timed_out" ELSE "lost")
          /\ Return(d)
          /\ UNCHANGED left
    /\ UNCHANGED <<hist, skips, catalog, world, c>>

-----------------------------------------------------------------------------
(* applyRuntimePatch: a patch over an unchanged job is written as it is, one   *)
(* over a changed job may only advance the schedule.                          *)
Latest(a, b) == IF a > b THEN a ELSE b
Patched(d, next) == IF p[d].fresh THEN next ELSE Latest(next, catalog)

(* A patch that is written as it is renews meta.updated_at under the others.   *)
Outdated(q, d) ==
    [e \in Dispatchers |->
        IF p[d].fresh /\ q[e].pc \in Planning THEN [q[e] EXCEPT !.fresh = FALSE] ELSE q[e]]

(* evaluateScopeDispatch on the job as the tick found it, and the slot loop:   *)
(* the first slots are passed over as long as their ledger row is terminal.    *)
(* One step: the lease keeps other launchers out.                             *)
InFlight == active # 0
Passed(first, k) == \A j \in first..k-1 : ~Claimable(j) /\ TerminalDuplicate(j)
NewRuns == {r \in Runs : attempt[r].state = "none" /\ \A q \in 1..r-1 : attempt[q].state # "none"}

Planned(d, run, next) ==
    p' = [p EXCEPT ![d] = IF run = 0 /\ next = 0
                          THEN [Asleep EXCEPT !.pc = "rewrite", !.next = catalog]
                          ELSE [Asleep EXCEPT !.pc = IF next = 0 THEN "evidence" ELSE "tail",
                                              !.run = run, !.next = next]]

(* The command is spawned, or it cannot be.                                   *)
Spawn(r) ==
    \/ proc' = [proc EXCEPT ![r] = "live"] /\ UNCHANGED left
    \/ proc' = [proc EXCEPT ![r] = "none"] /\ Spend

(* max_catchup_runs is 1: of the slots missed after the launched one, one is    *)
(* recorded as skipped and the schedule jumps over all of them.               *)
LaunchSlot(d, first, k) ==
    LET overflow == k + 1 <= due
    IN  /\ Claimable(k)
        /\ \E r \in NewRuns :
             /\ ClaimLogicalRun(k, r)
             /\ Spawn(r)
             /\ Planned(d, r, IF overflow THEN due + 1 ELSE 0)
        /\ skips' = skips \cup first..k-1 \cup (IF overflow THEN {k + 1} ELSE {})
                          \cup catalog..first-1

(* duplicate_logical_run of a live row, or every slot up to now is over.       *)
PassSlots(d, first, last) ==
    /\ \/ last = due
       \/ ~TerminalDuplicate(last)
    /\ ~Claimable(last)
    /\ skips' = skips \cup catalog..last
    /\ Planned(d, 0, last + 1)
    /\ UNCHANGED <<ledger, proc, left>>

(* The ledger is locked, or the concurrency cap is reached (no run id left).   *)
DeferSlot(d, first, k) ==
    /\ \/ Locked
       \/ Claimable(k) /\ NewRuns = {} /\ UNCHANGED <<ledger, left>>
    /\ skips' = skips \cup catalog..k-1
    /\ Planned(d, 0, IF k > first THEN k ELSE 0)
    /\ UNCHANGED proc

(* dueScheduleSlots: a slot missed by more than its grace is skipped with all   *)
(* that follow it; latest_only launches the last; else they go in order.       *)
Misfire(d) ==
    /\ policy = "skip"
    /\ skips' = skips \cup {catalog}
    /\ Planned(d, 0, due + 1)
    /\ UNCHANGED <<ledger, proc, left>>

Evaluate(d) ==
    /\ At(d, "evaluate") \/ (At(d, "reap") /\ NothingToReap)
    /\ IF InFlight \/ catalog > due
       THEN Planned(d, 0, 0) /\ UNCHANGED <<ledger, skips, proc, left>>
       ELSE \/ Misfire(d)
            \/ LET first == IF policy = "latest_only" THEN due ELSE catalog
               IN  \E k \in first..due :
                 /\ Passed(first, k)
                 /\ \/ LaunchSlot(d, first, k)
                    \/ PassSlots(d, first, k)
                    \/ DeferSlot(d, first, k)
    /\ UNCHANGED <<active, hist, catalog, claim, due, job, c>>

(* persistRuntimePatches of the tick, then the lease is released.              *)
EndTick(d) ==
    LET kept == IF Handoff THEN 0 ELSE p[d].next
        after == [p EXCEPT ![d] = IF p[d].run = 0 THEN Asleep
                                  ELSE [p[d] EXCEPT !.pc = "evidence", !.next = kept]]
    IN  /\ At(d, "tail")
        /\ catalog' = Patched(d, p[d].next)
        /\ p' = Outdated(after, d)
        /\ UNCHANGED <<ledger, active, hist, skips, world, c, left>>

(* A job that the tick left as it found it is patched too: with the schedule   *)
(* it was read with, and the meta.updated_at it has.                           *)
EndIdleTick(d) ==
    /\ At(d, "rewrite")
    /\ catalog' = Patched(d, p[d].next)
    /\ Sleep(d)
    /\ UNCHANGED <<ledger, active, hist, skips, world, c, left>>

-----------------------------------------------------------------------------
(* A launched run in its dispatcher, after the lease is gone.                  *)
Result(r) == IF proc[r] = "ok" THEN "success" ELSE "failure"
Retrying(d) == ~Handoff /\ proc[p[d].run] # "ok" /\ p[d].retry < Retries

(* The startup window of a handoff is over, or the waited command is spawned:  *)
(* launch evidence, unless there was no process.                              *)
RecordEvidence(d) ==
    LET r == p[d].run
    IN  /\ At(d, "evidence")
        /\ IF proc[r] = "none"
           THEN /\ p' = [p EXCEPT ![d].pc = IF Retrying(d) THEN "backoff" ELSE "conclude",
                                  ![d].out = "failure"]
                /\ UNCHANGED <<ledger, left>>
           ELSE /\ Locked \/ (RecordRunAttemptRunning(r) /\ UNCHANGED left)
                /\ p' = [p EXCEPT ![d].pc = "activate",
                                  ![d].out = IF proc[r] = "live" THEN "success" ELSE Result(r)]
        /\ UNCHANGED <<stores, world, c>>

SetActive(d) ==
    /\ At(d, "activate")
    /\ active' = p[d].run
    /\ Goto(d, IF Handoff /\ p[d].out = "success" THEN "persist" ELSE "wait")
    /\ UNCHANGED <<ledger, hist, skips, catalog, world, c, left>>

(* The command a dispatcher waits for has ended.                              *)
Ended(d) ==
    /\ At(d, "wait")
    /\ Dead(p[d].run)
    /\ active' = 0
    /\ p' = [p EXCEPT ![d].pc = IF Retrying(d) THEN "backoff" ELSE "conclude",
                      ![d].out = IF Handoff THEN "failure" ELSE Result(p[d].run)]
    /\ UNCHANGED <<ledger, hist, skips, catalog, world, c, left>>

Retry(d) ==
    /\ At(d, "backoff")
    /\ Spawn(p[d].run)
    /\ p' = [p EXCEPT ![d].pc = "evidence", ![d].retry = @ + 1]
    /\ UNCHANGED <<ledger, stores, claim, due, job, c>>

(* The ledger, whose refusal is swallowed, then the history.                  *)
Conclude(d) ==
    LET ending == FinalizeRunAttempt(p[d].run, LedgerState[p[d].out])
        after == IF Handoff THEN Sleep(d) ELSE Goto(d, "persist")
    IN  /\ At(d, "conclude")
        /\ \/ /\ (ending /\ UNCHANGED left) \/ Locked
              /\ AppendCompleted(p[d].run, IF Handoff THEN "unstarted" ELSE p[d].out)
              /\ after
           \/ ending /\ UNCHANGED hist /\ CutShort(d)
        /\ UNCHANGED <<active, skips, catalog, world, c>>

(* computeNextAfterRun: one past the slot that ran, or past those the tick     *)
(* jumped over, which only the job object of a waited run still knows.        *)
(* Mutant: one past now.                                                      *)
NextAfterNow(d) == due + 1
NextAfterRun(d) ==
    LET slot == attempt[p[d].run].slot
    IN  IF Handoff THEN slot + 1 ELSE Latest(p[d].next, slot + 1)

(* The schedule advances when the command was handed off, or was waited for.   *)
PersistSchedule(d) ==
    LET next == NextAfterRun(d)
        after == IF Handoff /\ active = p[d].run THEN [p EXCEPT ![d].pc = "watch", ![d].next = 0, ![d].fresh = TRUE]
                 ELSE [p EXCEPT ![d] = Asleep]
    IN  /\ At(d, "persist")
        /\ catalog' = Patched(d, next)
        /\ p' = Outdated(after, d)
        /\ UNCHANGED <<ledger, active, hist, skips, world, c, left>>

(* A dispatcher that outlives the command it handed off sees it exit, and      *)
(* prefers the record the command left; most exit before.                     *)
Watch(d) ==
    /\ At(d, "watch")
    /\ \/ Dead(p[d].run) /\ Close(d, p[d].run, "watch", Result(p[d].run), "check")
       \/ Sleep(d)
    /\ UNCHANGED <<ledger, stores, world, c, left>>

Crash(d) ==
    /\ ~At(d, "idle")
    /\ Spend
    /\ Sleep(d)
    /\ UNCHANGED <<ledger, stores, world, c>>

-----------------------------------------------------------------------------
(* cancelJob: read the entry, kill, closeCancelledCommandRun, clear, record.   *)
CancelJob ==
    /\ c.pc = "idle" /\ active # 0
    /\ Spend
    /\ proc' = [proc EXCEPT ![active] = IF @ = "live" THEN "killed" ELSE @]
    /\ c' = [c EXCEPT !.pc = "close", !.run = active, !.stale = HolderDead(active)]
    /\ UNCHANGED <<ledger, stores, claim, due, job, p>>

(* Nobody closes the run, or its claim is 60 s old: the holder was dead when   *)
(* cancelJob began to kill, and nobody renewed the claim since.               *)
Unclaimed(r) == claim[r] = None \/ c.stale

(* Mutant: the killed command is left to whoever sees its exit.                *)
NoClaimForCancel(r) == claim[r]

ClaimForCancel(r) == IF Unclaimed(r) THEN "cancel" ELSE claim[r]

CloseCancelled ==
    /\ c.pc = "close"
    /\ IF Handoff
       THEN /\ claim' = [claim EXCEPT ![c.run] = ClaimForCancel(c.run)]
            /\ Locked \/ (FinalizeRunAttempt(c.run, "interrupted") /\ UNCHANGED left)
       ELSE UNCHANGED <<ledger, claim, left>>
    /\ c' = [c EXCEPT !.pc = "clear", !.stale = FALSE,
                      !.fenced = IF Handoff /\ Unclaimed(c.run) THEN @ \cup {c.run} ELSE @]
    /\ UNCHANGED <<stores, proc, due, job, p>>

RecordCancelled ==
    /\ c.pc = "clear"
    /\ active' = 0
    /\ AppendCompleted(c.run, "cancelled")
    /\ c' = [c EXCEPT !.pc = "idle", !.run = 0]
    /\ UNCHANGED <<ledger, skips, catalog, world, p, left>>

(* The command is interrupted; a run it has not cleared is then no longer its. *)
CancelDies ==
    /\ c.pc # "idle"
    /\ c' = [c EXCEPT !.pc = "idle", !.run = 0, !.stale = FALSE, !.fenced = @ \ {c.run}]
    /\ UNCHANGED <<ledger, stores, world, p, left>>

-----------------------------------------------------------------------------
(* What happens outside the scheduler's code.                                  *)
CommandExits(r) ==
    /\ proc[r] = "live"
    /\ \/ \E how \in {"ok", "fail"} : proc' = [proc EXCEPT ![r] = how] /\ UNCHANGED left
       \/ Handoff /\ proc' = [proc EXCEPT ![r] = "killed"] /\ Spend
    /\ UNCHANGED <<ledger, stores, claim, due, job, p, c>>

SlotComesDue ==
    /\ due < MaxSlot
    /\ due' = due + 1
    /\ UNCHANGED <<ledger, stores, proc, claim, job, p, c, left>>

RepairIndex == RepairDueProjection /\ UNCHANGED <<stores, world, p, c, left>>

-----------------------------------------------------------------------------
Finalize(d) ==
    ClaimExit(d) \/ FinalizeLedger(d) \/ CloseRun(d) \/ OrphanRun(d)

Reap(d) == ReapDead(d) \/ ReapOverdue(d)

Follow(d) ==
    \/ RecordEvidence(d) \/ SetActive(d) \/ Ended(d) \/ Retry(d)
    \/ Conclude(d) \/ PersistSchedule(d) \/ Watch(d)

Work(d) == Reconcile(d) \/ Reap(d) \/ Finalize(d) \/ Evaluate(d) \/ EndTick(d) \/ EndIdleTick(d) \/ Follow(d)

Cancel == CancelJob \/ CloseCancelled \/ RecordCancelled \/ CancelDies

Outside ==
    \/ \E r \in Runs : CommandExits(r)
    \/ SlotComesDue \/ RepairIndex

Next ==
    \/ \E d \in Dispatchers : DispatchDue(d) \/ DispatchOther(d) \/ Work(d) \/ Crash(d)
    \/ Cancel
    \/ Outside

(* The daemon ticks, every dispatcher and `tasks cancel` goes on, and a grace  *)
(* does not last for ever. Nothing makes a command exit.                      *)
Fairness ==
    /\ WF_vars(\E d \in Dispatchers : DispatchDue(d))
    /\ \A d \in Dispatchers : WF_vars(Work(d)) /\ SF_vars(ReapDead(d))
    /\ WF_vars(CloseCancelled \/ RecordCancelled)

Spec == Init /\ [][Next]_vars
FairSpec == Spec /\ Fairness

-----------------------------------------------------------------------------
(* The state is well formed, and no slot is invented: the schedule never gets  *)
(* further than one past the last slot whose time has come.                   *)
TypeOK ==
    /\ LedgerTypeOK
    /\ kind \in {"handoff", "waited"} /\ policy \in {"skip", "latest_only"}
    /\ due \in Slots /\ catalog \in 1..due + 1
    /\ active \in Runs \cup {0} /\ skips \subseteq Slots
    /\ proc \in [Runs -> Exited \cup {"none", "live"}]
    /\ claim \in [Runs -> Dispatchers \cup {None, "cancel"}]
    /\ \A r \in Runs : \A i \in DOMAIN hist[r] : hist[r][i] \in Outcomes
    /\ \A d \in Dispatchers : p[d].pc \in Leased \cup Planning \cup {"idle", "watch"}
    /\ c.pc \in {"idle", "close", "clear"} /\ c.fenced \subseteq Runs /\ left \in 0..MaxEvents

(* Of the dispatcher that outlives a command and the reapers of later ticks,   *)
(* one records its completion, whoever crashes, cancels or is locked out       *)
(* ("makes the second a no-op even across processes").                        *)
Observed(r) == {i \in DOMAIN hist[r] : hist[r][i] \notin {"cancelled", "unstarted"}}
OneCompletion == \A r \in Runs : \A i, j \in Observed(r) : i = j

(* A handed-off command that the history calls a success is one to the ledger  *)
(* for good ("so the ledger and history never disagree").                     *)
LedgerAgrees ==
    Handoff => \A r \in Runs : \A i \in DOMAIN hist[r] :
                   hist[r][i] = "success" => attempt[r].state = "succeeded"

(* A slot never has two attempts in progress: neither by the recovery of a     *)
(* lost run nor by two dispatchers that plan the same slot. Of commands that   *)
(* are handed off: one that is waited for and sleeps between its in-process    *)
(* retries past the finalization grace is given up, and comes back.           *)
OneLiveAttempt ==
    Handoff =>
        \A s \in Slots : \A q, r \in AttemptsOf(s) :
            attempt[q].state \in Live /\ attempt[r].state \in Live => q = r

(* As long as nothing that MaxEvents counts has happened, at most one command  *)
(* that is handed off runs, whatever comes due meanwhile and whoever watches,  *)
(* reaps or finalizes it ("Single-instance lock"). One that is waited for has   *)
(* no such lock: it has no entry while it sleeps before a retry, and its        *)
(* dispatcher clears the entry of whatever run is active.                      *)
Undisturbed == left = MaxEvents /\ Handoff
SingleInstance == Undisturbed => Cardinality({r \in Runs : proc[r] = "live"}) <= 1

(* The schedule is written from a job that was read a while ago, and loses no  *)
(* slot silently: one it has passed was claimed, or the history records a      *)
(* skipped slot from which it jumped. A write may take it back, when the one    *)
(* before it did not renew meta.updated_at, but only over slots that have a     *)
(* row in the ledger or are recorded as skipped: no jump is undone.            *)
SlotsAccounted ==
    [][\A s \in Slots : logical'[s] = "none" =>
          /\ s < catalog' => \E t \in skips' : t <= s
          /\ catalog' <= s /\ s < catalog => s \in skips']_vars

(* A verdict in the ledger stands. A success is final: no reconciler with an  *)
(* old snapshot, no reaper, no cancellation and no late dispatcher changes it; *)
(* and "lost" comes only from who is closing that very run, never from the    *)
(* reconciler, which judges by rows it read before.                           *)
Closing(r) == \E d \in Dispatchers : p[d].run = r /\ p[d].pc \in {"ledger", "orphan"}
VerdictStands ==
    [][\A r \in Runs :
          /\ attempt[r].state = "succeeded" => attempt'[r].state = "succeeded"
          /\ attempt'[r].state = "lost" =>
                attempt[r].state \in Live \cup {"lost"} \/ Closing(r)]_vars

(* A run that `tasks cancel` closed while nobody was closing it is reported as *)
(* nothing but cancelled, by dispatchers that saw the killed command exit or   *)
(* find it dead later ("claim it so no observer later reports the killed       *)
(* command's exit as the outcome").                                           *)
CancelFences == \A r \in c.fenced : Observed(r) = {}

(* "The hard cap [...] still bounds a command that never exits, so it cannot   *)
(* hold its job in flight forever."                                           *)
HardCapFair == FairSpec /\ \A d \in Dispatchers : SF_vars(ReapOverdue(d))
HardCapEnforced == \A r \in Runs : active = r ~> active # r
=============================================================================
