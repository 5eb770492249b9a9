------------------------------ MODULE RunLedger ------------------------------
(***************************************************************************)
(* The rows of the runtime ledger that dispatch depends on, and its          *)
(* transactions (runtime_ledger.mjs): logical_runs, one per schedule slot;   *)
(* run_attempts, one per claimed run; and the active_run_id of the job's row *)
(* in dispatch_due_index. One job, so a logical run key is a slot. Each      *)
(* operator is one transaction; callers conjoin it to their own step.        *)
(***************************************************************************)
EXTENDS Naturals, FiniteSets

CONSTANTS
    MaxRun,     \* bound: run ids are 1..MaxRun, in the order they are claimed
    MaxSlot,    \* bound: schedule slots are 1..MaxSlot
    Retries     \* job.retry.max_attempts

ASSUME LedgerConstants == MaxRun \in Nat /\ MaxSlot \in Nat \ {0} /\ Retries \in Nat

VARIABLES
    attempt,    \* run_attempts: the slot, the state, and whether a reconciler
                \* found its processes missing (running_process_missing_pending)
    logical,    \* logical_runs: the state of each slot
    dueActive   \* dispatch_due_index.active_run_id, 0 for NULL

ledger == <<attempt, logical, dueActive>>

Runs == 1..MaxRun
Slots == 1..MaxSlot

Live == {"claimed", "running"}
Retryable == {"failed", "lost", "interrupted", "timed_out"}
States == {"none", "succeeded"} \cup Live \cup Retryable

LedgerTypeOK ==
    /\ attempt \in [Runs -> [slot: Slots \cup {0}, state: States, pending: BOOLEAN]]
    /\ logical \in [Slots -> States]
    /\ dueActive \in Slots \cup {0}

LedgerInit ==
    /\ attempt = [r \in Runs |-> [slot |-> 0, state |-> "none", pending |-> FALSE]]
    /\ logical = [s \in Slots |-> "none"]
    /\ dueActive = 0

-----------------------------------------------------------------------------
AttemptsOf(s) == {r \in Runs : attempt[r].slot = s}
StatesOf(s) == {attempt[r].state : r \in AttemptsOf(s)}

(* Mutant: a run in progress counts as one to recover.                        *)
MayRecoverLive(s) ==
    Cardinality(AttemptsOf(s)) \in 1..Retries /\ "succeeded" \notin StatesOf(s)

(* claimLogicalRun on a slot that has a row: a retryable row is claimed      *)
(* again while the budget lasts, no attempt is live and none succeeded.      *)
MayRecover(s) ==
    /\ logical[s] \in Retryable
    /\ Cardinality(AttemptsOf(s)) \in 1..Retries
    /\ StatesOf(s) \cap (Live \cup {"succeeded"}) = {}

Claimable(s) == logical[s] = "none" \/ MayRecover(s)

(* Whether a refused claim tells the dispatcher that the slot is over.       *)
TerminalDuplicate(s) == logical[s] \notin Live

ClaimLogicalRun(s, r) ==
    /\ logical' = [logical EXCEPT ![s] = "claimed"]
    /\ attempt' = [attempt EXCEPT ![r] = [slot |-> s, state |-> "claimed", pending |-> FALSE]]
    /\ dueActive' = s

(* recordRunAttemptRunning asks nothing of the attempt's state.              *)
RecordRunAttemptRunning(r) ==
    /\ attempt' = [attempt EXCEPT ![r].state = "running"]
    /\ logical' = [logical EXCEPT ![attempt[r].slot] = "running"]
    /\ UNCHANGED dueActive

(* finalizeRunAttempt overwrites any state but succeeded.                    *)
FinalizeRunAttempt(r, state) ==
    IF attempt[r].state = "succeeded" /\ state # "succeeded"
    THEN UNCHANGED ledger
    ELSE /\ attempt' = [attempt EXCEPT ![r].state = state, ![r].pending = FALSE]
         /\ logical' = [logical EXCEPT ![attempt[r].slot] = state]
         /\ dueActive' = 0

(* reconcileRuntimeLedger decides on the rows it scanned before its          *)
(* transaction and updates a row only if it is still live. `gone` are the    *)
(* runs without a live process, `late` those past the grace that applies:    *)
(* the launch grace of a claimed attempt, the finalization grace of one      *)
(* already found missing.                                                    *)
Verdict(seen, r, gone, late) ==
    CASE seen[r].state = "claimed" /\ r \in late -> "lost"
      [] seen[r].state = "running" /\ r \in gone /\ ~seen[r].pending -> "pending"
      [] seen[r].state = "running" /\ r \in gone /\ seen[r].pending /\ r \in late -> "lost"
      [] OTHER -> "keep"

(* Mutant: the update of a row does not ask whether the row is still live.   *)
StillThere(r) == attempt[r].state # "none"
StillLive(r) == attempt[r].state \in Live

ReconcileRuntimeLedger(seen, gone, late) ==
    LET lost == {r \in Runs : Verdict(seen, r, gone, late) = "lost" /\ StillLive(r)}
        missing == {r \in Runs : /\ Verdict(seen, r, gone, late) = "pending"
                                 /\ attempt[r].state = "running"}
    IN  /\ attempt' = [r \in Runs |->
              IF r \in lost THEN [attempt[r] EXCEPT !.state = "lost", !.pending = FALSE]
              ELSE IF r \in missing THEN [attempt[r] EXCEPT !.pending = TRUE]
              ELSE attempt[r]]
        /\ logical' = [s \in Slots |->
              IF \E r \in lost : attempt[r].slot = s THEN "lost" ELSE logical[s]]
        /\ UNCHANGED dueActive

(* reconcileScope of dispatch_due_reconcile.mjs, its stale_active_run_id     *)
(* class: the reconciler above ends a run without clearing active_run_id.    *)
RepairDueProjection ==
    /\ dueActive # 0
    /\ logical[dueActive] \notin Live
    /\ dueActive' = 0
    /\ UNCHANGED <<attempt, logical>>
=============================================================================
