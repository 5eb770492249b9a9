-------------------------- MODULE RunDispatchProofs --------------------------
(***************************************************************************)
(* For any dispatchers, runs, slots, retries and number of crashes, locked  *)
(* transactions and cancellations: a run is reported once, the ledger and    *)
(* the history agree on a success, a slot has one attempt in progress, a     *)
(* verdict stands, a cancellation that came first is the last word, and no   *)
(* write of the schedule loses a slot. Until one of those things happens, a  *)
(* job whose commands are handed off has one alive at most.                  *)
(***************************************************************************)
EXTENDS RunDispatch, SequenceTheorems, FiniteSetTheorems, TLAPS

Pcs == Leased \cup Planning \cup {"idle", "commit", "watch"}
Attempt == [slot : Slots \cup {0}, state : States, pending : BOOLEAN]
Outs == {"none", "success", "failure", "lost", "timeout"}
Row == [pc : Pcs, run : Runs \cup {0}, seen : [Runs -> Attempt] \cup {<<>>}, out : Outs,
        by : {"reaper", "killer", "watch"}, next : Nat, fresh : BOOLEAN, retry : Nat]
Cancelling == [pc : {"idle", "close", "clear"}, run : Runs \cup {0}, stale : BOOLEAN,
               fenced : SUBSET Runs]

Types ==
  /\ attempt \in [Runs -> Attempt] /\ logical \in [Slots -> States]
  /\ kind \in {"handoff", "waited"} /\ due \in Slots /\ catalog \in Nat \ {0}
  /\ active \in Runs \cup {0} /\ hist \in [Runs -> Seq(Outcomes)]
  /\ claim \in [Runs -> Dispatchers \cup {None, "cancel"}]
  /\ p \in [Dispatchers -> Row] /\ c \in Cancelling

(* Which run a dispatcher and the cancellation are about, by where they are.  *)
Fits(pc, run, out) ==
  /\ pc \in {"idle", "commit", "reap", "evaluate", "rewrite"} => run = 0
  /\ pc \notin {"idle", "commit", "reap", "evaluate", "rewrite", "tail"} => run \in Runs
  /\ pc \in {"check", "ledger", "close", "conclude"} => out # "none"
  /\ pc = "conclude" => out \in IF Handoff THEN {"failure"} ELSE {"success", "failure"}
  /\ pc \in IF Handoff THEN Pcs \ {"backoff"} ELSE Pcs \ {"check", "ledger", "close", "watch"}

Placed ==
  /\ \A d \in Dispatchers : Fits(p[d].pc, p[d].run, p[d].out)
  /\ \A d \in Dispatchers : p[d].pc \in {"tail", "rewrite"} => p[d].next # 0
  /\ c.pc # "idle" => c.run \in Runs

(* A run id not yet claimed is nowhere, and a slot with an attempt has a row.  *)
Fresh ==
  \A r \in Runs :
     /\ attempt[r].state = "none" =>
          /\ active # r /\ c.run # r /\ hist[r] = <<>> /\ r \notin c.fenced
          /\ attempt[r].slot = 0
          /\ \A d \in Dispatchers : p[d].run # r
     /\ attempt[r].slot # 0 => logical[attempt[r].slot] # "none"

(* A run in the hands of the dispatcher that launches it: until it is active,  *)
(* or until it has ended if the dispatcher waits for it.                      *)
Own == IF Handoff THEN Launching ELSE Launching \cup {"wait", "backoff", "conclude"}
Owns(d, r) == p[d].run = r /\ p[d].pc \in Own

OwnInv ==
  \A d \in Dispatchers, r \in Runs : Owns(d, r) =>
     /\ Observed(r) = {} /\ attempt[r].state # "succeeded"
     /\ \A e \in Dispatchers : Owns(e, r) => e = d
     /\ Handoff =>
          /\ active # r /\ c.run # r /\ attempt[r].state \in Live /\ r \notin c.fenced
          /\ \A e \in Dispatchers : p[e].run = r => e = d

Finalizes(d, r) == p[d].run = r /\ p[d].pc \in Finalizing

(* Who finalizes a run has its claim, and what is active was never reported.   *)
CloseInv ==
  /\ \A d \in Dispatchers, r \in Runs : Finalizes(d, r) => claim[r] = d /\ Observed(r) = {}
  /\ \A r \in Runs : Handoff /\ active = r => Observed(r) = {}
  /\ \A r \in Runs : Handoff /\ Observed(r) # {} => claim[r] \in Dispatchers
  /\ \A r \in Runs : ~Handoff => claim[r] = None

(* What a cancellation knows of its run, and who keeps off a fenced one.       *)
CancelInv ==
  /\ c.stale => /\ Handoff /\ c.pc = "close" /\ Observed(c.run) = {}
                /\ \A d \in Dispatchers : ~Finalizes(d, c.run)
  /\ \A r \in c.fenced :
       /\ Handoff /\ Observed(r) = {} /\ \A d \in Dispatchers : ~Finalizes(d, r)
       /\ active = r => c.pc = "clear" /\ c.run = r /\ claim[r] = "cancel"

(* A success is in the ledger before it is in the history.                     *)
AgreeInv ==
  /\ LedgerAgrees
  /\ \A d \in Dispatchers : p[d].pc = "close" /\ p[d].out = "success" =>
        attempt[p[d].run].state = "succeeded"

IInv == /\ Types /\ Placed /\ Fresh /\ OwnInv /\ CloseInv /\ CancelInv
        /\ OneCompletion /\ AgreeInv /\ OneLiveAttempt

-----------------------------------------------------------------------------
(* The rows of the dispatchers.                                             *)

LEMMA RowFields ==
  ASSUME NEW r \in Row
  PROVE  /\ r.pc \in Pcs /\ r.run \in Runs \cup {0} /\ r.out \in Outs /\ r.next \in Nat
         /\ r.seen \in [Runs -> Attempt] \cup {<<>>} /\ r.by \in {"reaper", "killer", "watch"}
         /\ r.fresh \in BOOLEAN /\ r.retry \in Nat
BY DEF Row

LEMMA AsleepRow ==
  Asleep \in Row /\ Asleep.pc = "idle" /\ Asleep.run = 0 /\ Asleep.out = "none" /\ Asleep.next = 0
BY DEF Asleep, Row, Pcs, Outs

LEMMA Ids == Runs \subseteq Nat \ {0} /\ Slots \subseteq Nat \ {0} /\ 0 \notin Runs /\ 0 \notin Slots
BY LedgerConstants DEF Runs, Slots

(* The row of d after a step that leaves the others where they are.          *)
Puts(d, pc, run, out) ==
  /\ p' \in [Dispatchers -> Row]
  /\ p'[d].pc = pc /\ p'[d].run = run /\ p'[d].out = out
  /\ \A e \in Dispatchers \ {d} :
        p'[e].pc = p[e].pc /\ p'[e].run = p[e].run /\ p'[e].out = p[e].out
        /\ p'[e].next = p[e].next

LEMMA RowSet ==
  ASSUME p \in [Dispatchers -> Row], NEW d \in Dispatchers, NEW r \in Row,
         p' = [p EXCEPT ![d] = r]
  PROVE  Puts(d, r.pc, r.run, r.out) /\ p'[d] = r
BY DEF Puts

LEMMA SleepRow ==
  ASSUME p \in [Dispatchers -> Row], NEW d \in Dispatchers, Sleep(d)
  PROVE  Puts(d, "idle", 0, "none") /\ p'[d].next = 0
<1>1. Puts(d, Asleep.pc, Asleep.run, Asleep.out) /\ p'[d] = Asleep
  BY AsleepRow, RowSet DEF Sleep
<1> QED  BY <1>1, AsleepRow

LEMMA GotoRow ==
  ASSUME p \in [Dispatchers -> Row], NEW d \in Dispatchers, NEW pc \in Pcs, Goto(d, pc)
  PROVE  Puts(d, pc, p[d].run, p[d].out) /\ p'[d].next = p[d].next
<1> DEFINE r == [p[d] EXCEPT !.pc = pc]
<1>1. /\ r \in Row /\ r.pc = pc /\ r.run = p[d].run /\ r.out = p[d].out /\ r.next = p[d].next
  BY DEF Row
<1>2. p' = [p EXCEPT ![d] = r]  BY DEF Goto
<1> HIDE DEF r
<1> QED  BY <1>1, <1>2, RowSet

Closing4(row, pc, run, by, out) == [row EXCEPT !.pc = pc, !.run = run, !.by = by, !.out = out]

LEMMA FourFields ==
  ASSUME NEW row \in Row, NEW pc \in Pcs, NEW run \in Runs \cup {0},
         NEW by \in {"reaper", "killer", "watch"}, NEW out \in Outs
  PROVE  LET new == Closing4(row, pc, run, by, out)
         IN  new \in Row /\ new.pc = pc /\ new.run = run /\ new.out = out /\ new.next = row.next
<1> DEFINE new == Closing4(row, pc, run, by, out)
<1> DEFINE a == [row EXCEPT !.pc = pc]
           b == [a EXCEPT !.run = run]
           q == [b EXCEPT !.by = by]
<1>1. a \in Row /\ a.pc = pc /\ a.next = row.next  BY DEF Row
<1>2. new = [[[a EXCEPT !.run = run] EXCEPT !.by = by] EXCEPT !.out = out]  BY DEF Closing4
<1> HIDE DEF a
<1>3. b \in Row /\ b.pc = pc /\ b.run = run /\ b.next = row.next  BY <1>1 DEF Row
<1>4. new = [[b EXCEPT !.by = by] EXCEPT !.out = out]  BY <1>2
<1> HIDE DEF b
<1>5. q \in Row /\ q.pc = pc /\ q.run = run /\ q.next = row.next  BY <1>3 DEF Row
<1>6. new = [q EXCEPT !.out = out]  BY <1>4
<1> HIDE DEF q
<1> HIDE DEF new
<1>7. new \in Row /\ new.pc = pc /\ new.run = run /\ new.out = out /\ new.next = row.next
  BY <1>5, <1>6 DEF Row
<1> QED  BY <1>7 DEF new

LEMMA CloseRow ==
  ASSUME p \in [Dispatchers -> Row], NEW d \in Dispatchers, NEW r \in Runs \cup {0},
         NEW by \in {"reaper", "killer", "watch"}, NEW out \in Outs, NEW pc \in Pcs,
         Close(d, r, by, out, pc)
  PROVE  Puts(d, pc, r, out) /\ p'[d].next = p[d].next
<1>1. PICK new : new = Closing4(p[d], pc, r, by, out)  OBVIOUS
<1>2. new \in Row /\ new.pc = pc /\ new.run = r /\ new.out = out /\ new.next = p[d].next
  BY <1>1, FourFields
<1>3. p' = [p EXCEPT ![d] = new]  BY <1>1 DEF Close, Closing4
<1>4. Puts(d, new.pc, new.run, new.out) /\ p'[d] = new  BY <1>2, <1>3, RowSet
<1> QED  BY <1>2, <1>4

LEMMA ReturnRow ==
  ASSUME p \in [Dispatchers -> Row], NEW d \in Dispatchers, Return(d)
  PROVE  /\ Puts(d, "idle", 0, "none") \/ Puts(d, "evaluate", 0, "none")
         /\ p'[d].next = 0 \/ p'[d].pc = "evaluate"
<1>1. CASE p[d].by = "watch"  BY <1>1, SleepRow DEF Return
<1>2. CASE p[d].by # "watch"
  <2>1. /\ Close(d, 0, "reaper", "none", "evaluate")
        /\ "evaluate" \in Pcs /\ "none" \in Outs /\ 0 \in Runs \cup {0}
    BY <1>2 DEF Return, Pcs, Leased, Outs
  <2>2. Puts(d, "evaluate", 0, "none")  BY <2>1, CloseRow
  <2> QED  BY <2>2 DEF Puts
<1> QED  BY <1>1, <1>2

LEMMA PlannedRow ==
  ASSUME p \in [Dispatchers -> Row], NEW d \in Dispatchers, NEW run \in Runs \cup {0}, NEW next \in Nat,
         catalog \in Nat, Planned(d, run, next)
  PROVE  \/ run = 0 /\ next = 0 /\ Puts(d, "rewrite", 0, "none") /\ p'[d].next = catalog
         \/ run # 0 /\ next = 0 /\ Puts(d, "evidence", run, "none")
         \/ next # 0 /\ Puts(d, "tail", run, "none") /\ p'[d].next = next
<1>1. CASE run = 0 /\ next = 0
  <2> DEFINE new == [Asleep EXCEPT !.pc = "rewrite", !.next = catalog]
  <2>1. new \in Row /\ new.pc = "rewrite" /\ new.run = 0 /\ new.out = "none" /\ new.next = catalog
    BY DEF Asleep, Row, Pcs, Leased, Outs
  <2>2. p' = [p EXCEPT ![d] = new]  BY <1>1 DEF Planned
  <2> HIDE DEF new
  <2>3. Puts(d, new.pc, new.run, new.out) /\ p'[d] = new  BY <2>1, <2>2, RowSet
  <2> QED  BY <1>1, <2>1, <2>3
<1>2. CASE ~(run = 0 /\ next = 0)
  <2> DEFINE pc == IF next = 0 THEN "evidence" ELSE "tail"
             new == [Asleep EXCEPT !.pc = pc, !.run = run, !.next = next]
  <2>1. new \in Row /\ new.pc = pc /\ new.run = run /\ new.out = "none" /\ new.next = next
    BY DEF Asleep, Row, Pcs, Planning, Outs
  <2>2. p' = [p EXCEPT ![d] = new]  BY <1>2 DEF Planned
  <2> HIDE DEF new
  <2>3. Puts(d, new.pc, new.run, new.out) /\ p'[d] = new  BY <2>1, <2>2, RowSet
  <2>4. Puts(d, pc, run, "none") /\ p'[d].next = next  BY <2>1, <2>3
  <2> QED  BY <1>2, <2>4
<1> QED  BY <1>1, <1>2

(* A patch that renews meta.updated_at changes nothing else in any row.       *)
LEMMA OutdatedRow ==
  ASSUME p \in [Dispatchers -> Row], NEW d \in Dispatchers, NEW r \in Row,
         p' = Outdated([p EXCEPT ![d] = r], d)
  PROVE  Puts(d, r.pc, r.run, r.out) /\ p'[d].next = r.next
<1> DEFINE q == [p EXCEPT ![d] = r]
<1>1. q \in [Dispatchers -> Row]  OBVIOUS
<1>2. ASSUME NEW e \in Dispatchers
      PROVE  /\ p'[e] \in Row /\ p'[e].pc = q[e].pc /\ p'[e].run = q[e].run /\ p'[e].out = q[e].out
             /\ p'[e].next = q[e].next
  <2>1. p'[e] = IF p[d].fresh /\ q[e].pc \in Planning THEN [q[e] EXCEPT !.fresh = FALSE] ELSE q[e]
    BY <1>2 DEF Outdated
  <2>2. q[e] \in Row  BY <1>1
  <2> HIDE DEF q
  <2>3. /\ [q[e] EXCEPT !.fresh = FALSE] \in Row
        /\ [q[e] EXCEPT !.fresh = FALSE].pc = q[e].pc
        /\ [q[e] EXCEPT !.fresh = FALSE].run = q[e].run
        /\ [q[e] EXCEPT !.fresh = FALSE].out = q[e].out
        /\ [q[e] EXCEPT !.fresh = FALSE].next = q[e].next
    BY <2>2 DEF Row
  <2> QED  BY <2>1, <2>2, <2>3
<1>3. p' = [e \in Dispatchers |->
              IF p[d].fresh /\ q[e].pc \in Planning THEN [q[e] EXCEPT !.fresh = FALSE] ELSE q[e]]
  BY DEF Outdated
<1> HIDE DEF q
<1>4. p' = [e \in Dispatchers |-> p'[e]]  BY <1>3
<1>5. p' \in [Dispatchers -> Row]  BY <1>2, <1>4
<1> QED  BY <1>2, <1>5 DEF Puts, q

-----------------------------------------------------------------------------
(* Steps that take no run up.                                               *)

(* d forgets its run, keeps it, or finds the active one; it comes to own or   *)
(* to finalize none.                                                         *)
Onward(d) ==
  /\ Puts(d, p'[d].pc, p'[d].run, p'[d].out)
  /\ Fits(p'[d].pc, p'[d].run, p'[d].out)
  /\ p'[d].pc \in {"tail", "rewrite"} => p'[d].next # 0
  /\ p'[d].run \in {0, p[d].run, active}
  /\ \A r \in Runs : p'[d].run = r /\ p'[d].pc \in Own => Owns(d, r)
  /\ p'[d].pc \in Finalizing => p[d].pc \in Finalizing /\ p'[d].run = p[d].run
  /\ p'[d].pc = "close" /\ p'[d].out = "success" => attempt'[p'[d].run].state = "succeeded"

(* What any step may make of the attempts and the slots.                     *)
Judged ==
  /\ \A r \in Runs :
       /\ attempt'[r].slot = attempt[r].slot
       /\ attempt'[r].state = "none" <=> attempt[r].state = "none"
       /\ attempt[r].state = "succeeded" => attempt'[r].state = "succeeded"
       /\ Handoff /\ attempt'[r].state \in Live => attempt[r].state \in Live
       /\ \A e \in Dispatchers : p'[e].run = r /\ p'[e].pc \in Own =>
            attempt'[r].state # "succeeded" /\ (Handoff => attempt'[r].state \in Live)
  /\ \A s \in Slots : logical[s] # "none" => logical'[s] # "none"

(* A claim changes only on a run of which nothing was reported, and which       *)
(* nobody finalizes any more.                                                *)
Reclaimed ==
  \A r \in Runs :
     \/ claim'[r] = claim[r]
     \/ Handoff /\ Observed(r) = {} /\ r \notin c.fenced
        /\ \A e \in Dispatchers : ~Finalizes(e, r)'

Rest == UNCHANGED <<hist, c, kind>> /\ Reclaimed /\ active' \in {active, 0}

LEMMA ObservedSame ==
  ASSUME NEW r, hist'[r] = hist[r] PROVE Observed(r)' = Observed(r)
BY DEF Observed

LEMMA StepInv ==
  ASSUME IInv, NEW d \in Dispatchers, Types', Onward(d), Judged, Rest
  PROVE  IInv'
<1>1. /\ Types /\ Placed /\ Fresh /\ OwnInv /\ CloseInv /\ CancelInv
      /\ OneCompletion /\ AgreeInv /\ OneLiveAttempt
  BY DEF IInv
<1>2. /\ hist' = hist /\ c' = c /\ kind' = kind /\ active' \in {active, 0}
      /\ (Handoff' <=> Handoff) /\ Own' = Own /\ 0 \notin Runs
  BY Ids DEF Rest, Handoff, Own
<1>3. \A r : Observed(r)' = Observed(r)  BY <1>2, ObservedSame
<1>4. \A e \in Dispatchers \ {d} :
        p'[e].pc = p[e].pc /\ p'[e].run = p[e].run /\ p'[e].out = p[e].out
        /\ p'[e].next = p[e].next
  BY DEF Onward, Puts
<1>5. \A e \in Dispatchers, r \in Runs : Owns(e, r)' => Owns(e, r)
  BY <1>2, <1>4 DEF Onward, Owns
<1>6. \A e \in Dispatchers, r \in Runs : Finalizes(e, r)' => Finalizes(e, r)
  BY <1>4 DEF Onward, Finalizes
<1>7. Placed'
  BY <1>1, <1>2, <1>4 DEF Placed, Fits, Onward
<1>8. Fresh'
  <2>1. SUFFICES ASSUME NEW r \in Runs
                 PROVE  /\ attempt'[r].state = "none" =>
                             /\ active' # r /\ c'.run # r /\ hist'[r] = <<>> /\ r \notin c'.fenced
                             /\ attempt'[r].slot = 0
                             /\ \A e \in Dispatchers : p'[e].run # r
                        /\ attempt'[r].slot # 0 => logical'[attempt'[r].slot] # "none"
    BY DEF Fresh
  <2>2. ASSUME attempt'[r].state = "none"
        PROVE  /\ active' # r /\ c'.run # r /\ hist'[r] = <<>> /\ r \notin c'.fenced
               /\ attempt'[r].slot = 0
               /\ \A e \in Dispatchers : p'[e].run # r
    <3>1. /\ active # r /\ c.run # r /\ hist[r] = <<>> /\ r \notin c.fenced
          /\ attempt'[r].slot = 0 /\ \A e \in Dispatchers : p[e].run # r
      BY <1>1, <2>2 DEF Fresh, Judged
    <3>2. p'[d].run # r  BY <1>2, <3>1 DEF Onward
    <3> QED  BY <1>2, <1>4, <3>1, <3>2
  <2>3. attempt'[r].slot # 0 => logical'[attempt'[r].slot] # "none"
    <3>1. attempt'[r].slot = attempt[r].slot /\ attempt[r].slot \in Slots \cup {0}
      BY <1>1 DEF Judged, Types, Attempt
    <3>2. attempt[r].slot # 0 => logical[attempt[r].slot] # "none"  BY <1>1 DEF Fresh
    <3>3. \A s \in Slots : logical[s] # "none" => logical'[s] # "none"  BY DEF Judged
    <3> QED  BY <3>1, <3>2, <3>3
  <2> QED  BY <2>2, <2>3
<1>9. OwnInv'
  <2>1. SUFFICES ASSUME NEW e \in Dispatchers, NEW r \in Runs, Owns(e, r)'
                 PROVE  /\ Observed(r)' = {} /\ attempt'[r].state # "succeeded"
                        /\ \A f \in Dispatchers : Owns(f, r)' => f = e
                        /\ Handoff =>
                             /\ active' # r /\ c'.run # r /\ attempt'[r].state \in Live
                             /\ r \notin c'.fenced
                             /\ \A f \in Dispatchers : p'[f].run = r => f = e
    BY <1>2 DEF OwnInv
  <2>2. Owns(e, r)  BY <1>5, <2>1
  <2>3. /\ Observed(r) = {} /\ \A f \in Dispatchers : Owns(f, r) => f = e
        /\ Handoff => /\ active # r /\ c.run # r /\ r \notin c.fenced
                      /\ \A f \in Dispatchers : p[f].run = r => f = e
    BY <1>1, <2>2 DEF OwnInv
  <2>4. attempt'[r].state # "succeeded" /\ (Handoff => attempt'[r].state \in Live)
    BY <1>2, <2>1 DEF Judged, Owns
  <2>5. ASSUME Handoff, NEW f \in Dispatchers, p'[f].run = r PROVE f = e
    BY <1>2, <1>4, <2>3, <2>5 DEF Onward
  <2> QED  BY <1>2, <1>3, <1>5, <2>3, <2>4, <2>5
<1>10. CloseInv'
  <2>1. \A e \in Dispatchers, r \in Runs : Finalizes(e, r)' => claim'[r] = e /\ Observed(r)' = {}
    BY <1>1, <1>3, <1>6 DEF CloseInv, Rest, Reclaimed
  <2>2. \A r \in Runs : Handoff /\ active' = r => Observed(r)' = {}
    BY <1>1, <1>2, <1>3 DEF CloseInv
  <2>3. \A r \in Runs : Handoff /\ Observed(r)' # {} => claim'[r] \in Dispatchers
    BY <1>1, <1>3 DEF CloseInv, Rest, Reclaimed
  <2>4. \A r \in Runs : ~Handoff => claim'[r] = None
    BY <1>1 DEF CloseInv, Rest, Reclaimed
  <2> QED  BY <1>2, <2>1, <2>2, <2>3, <2>4 DEF CloseInv
<1>11. CancelInv'
  <2>1. ASSUME c.stale, NEW x, x = c.run
        PROVE  Observed(x)' = {} /\ \A e \in Dispatchers : ~Finalizes(e, x)'
    <3>1. x \in Runs /\ Observed(x) = {} /\ \A e \in Dispatchers : ~Finalizes(e, x)
      BY <1>1, <2>1 DEF CancelInv, Placed
    <3> QED  BY <1>3, <1>6, <3>1
  <2>2. \A r \in c.fenced : r \in Runs  BY <1>1 DEF Types, Cancelling
  <2>3. \A r \in c.fenced :
          /\ Handoff /\ Observed(r)' = {} /\ \A e \in Dispatchers : ~Finalizes(e, r)'
          /\ active' = r => c.pc = "clear" /\ c.run = r /\ claim'[r] = "cancel"
    BY <1>1, <1>2, <1>3, <1>6, <2>2 DEF CancelInv, Rest, Reclaimed
  <2>4. c.stale => Handoff /\ c.pc = "close"  BY <1>1 DEF CancelInv
  <2>5. PICK x : x = c.run  OBVIOUS
  <2>6. c'.stale => /\ Handoff' /\ c'.pc = "close" /\ Observed(c.run)' = {}
                    /\ \A e \in Dispatchers : ~Finalizes(e, c.run)'
    BY <1>2, <2>1, <2>4, <2>5 DEF Observed, Finalizes
  <2> QED  BY <1>2, <2>3, <2>6 DEF CancelInv
<1>12. OneCompletion'  BY <1>1, <1>3 DEF OneCompletion
<1>13. AgreeInv'
  <2>1. LedgerAgrees'
    <3>1. SUFFICES ASSUME Handoff, NEW r \in Runs, NEW i \in DOMAIN hist[r], hist[r][i] = "success"
                   PROVE  attempt'[r].state = "succeeded"
      BY <1>2 DEF LedgerAgrees
    <3> QED  BY <1>1, <3>1 DEF AgreeInv, LedgerAgrees, Judged
  <2>2. ASSUME NEW e \in Dispatchers, p'[e].pc = "close" /\ p'[e].out = "success"
        PROVE  attempt'[p'[e].run].state = "succeeded"
    <3>1. CASE e = d  BY <2>2, <3>1 DEF Onward
    <3>2. CASE e # d
      <4>1. p[e].pc = "close" /\ p[e].out = "success" /\ p'[e].run = p[e].run
        BY <1>4, <2>2, <3>2
      <4>2. p[e].run \in Runs /\ attempt[p[e].run].state = "succeeded"
        BY <1>1, <4>1 DEF AgreeInv, Placed, Fits
      <4> QED  BY <4>1, <4>2 DEF Judged
    <3> QED  BY <3>1, <3>2
  <2> QED  BY <2>1, <2>2 DEF AgreeInv
<1>14. OneLiveAttempt'
  <2>1. SUFFICES ASSUME Handoff, NEW s \in Slots, NEW q \in Runs, NEW r \in Runs,
                        attempt'[q].slot = s, attempt'[r].slot = s,
                        attempt'[q].state \in Live, attempt'[r].state \in Live
                 PROVE  q = r
    BY <1>2 DEF OneLiveAttempt, AttemptsOf
  <2>2. /\ attempt[q].slot = s /\ attempt[r].slot = s
        /\ attempt[q].state \in Live /\ attempt[r].state \in Live
    BY <2>1 DEF Judged
  <2> QED  BY <1>1, <2>1, <2>2 DEF OneLiveAttempt, AttemptsOf
<1> QED
  BY <1>7, <1>8, <1>9, <1>10, <1>11, <1>12, <1>13, <1>14 DEF IInv

(* With the ledger left alone.                                              *)
LEMMA QuietInv ==
  ASSUME IInv, NEW d \in Dispatchers, Types', Onward(d),
         UNCHANGED <<attempt, logical, hist, claim, c, kind>>, active' \in {active, 0}
  PROVE  IInv'
<1>1. \A e \in Dispatchers, r \in Runs : p'[e].run = r /\ p'[e].pc \in Own => Owns(e, r)
  BY DEF Onward, Puts, Owns
<1>2. Judged  BY <1>1 DEF IInv, OwnInv, Judged
<1>3. Rest  BY DEF Rest, Reclaimed
<1> QED  BY <1>2, <1>3, StepInv

(* The steps of a dispatcher that leave the ledger alone.                    *)
LEMMA QuietTypes ==
  ASSUME Types, p' \in [Dispatchers -> Row], active' \in {active, 0}, catalog' \in Nat \ {0},
         UNCHANGED <<attempt, logical, hist, claim, kind, due, c>>
  PROVE  Types'
BY DEF Types

LEMMA QuietStep ==
  ASSUME IInv, NEW d \in Dispatchers, Onward(d), active' \in {active, 0}, catalog' \in Nat \ {0},
         UNCHANGED <<attempt, logical, hist, claim, kind, due, c>>
  PROVE  IInv'
<1>1. Types'  BY QuietTypes DEF IInv, Onward, Puts
<1> QED  BY <1>1, QuietInv

LEMMA SleepOnward ==
  ASSUME IInv, NEW d \in Dispatchers, Sleep(d)
  PROVE  Onward(d)
<1>1. Puts(d, "idle", 0, "none")  BY SleepRow DEF IInv, Types
<1>2. p'[d].pc = "idle" /\ p'[d].run = 0 /\ p'[d].out = "none"  BY <1>1 DEF Puts
<1>3. "idle" \notin Own \cup Finalizing  BY DEF Own, Launching, Finalizing
<1> QED  BY <1>1, <1>2, <1>3 DEF Onward, Fits, Pcs

LEMMA ReturnOnward ==
  ASSUME IInv, NEW d \in Dispatchers, Return(d)
  PROVE  Onward(d)
<1>1. Puts(d, "idle", 0, "none") \/ Puts(d, "evaluate", 0, "none")  BY ReturnRow DEF IInv, Types
<1>2. /\ p'[d].pc \in {"idle", "evaluate"} /\ p'[d].run = 0 /\ p'[d].out = "none"
      /\ Puts(d, p'[d].pc, p'[d].run, p'[d].out)
  BY <1>1 DEF Puts
<1>3. {"idle", "evaluate"} \cap (Own \cup Finalizing) = {}  BY DEF Own, Launching, Finalizing
<1> QED  BY <1>2, <1>3 DEF Onward, Fits, Pcs, Leased

(* d goes on with its run.                                                   *)
LEMMA KeptOnward ==
  ASSUME IInv, NEW d \in Dispatchers, NEW pc, NEW out, Puts(d, pc, p[d].run, out),
         Fits(pc, p[d].run, out), pc \in Own => p[d].pc \in Own, pc \notin Finalizing \cup {"tail", "rewrite"}
  PROVE  Onward(d)
<1>1. p'[d].pc = pc /\ p'[d].run = p[d].run /\ p'[d].out = out  BY DEF Puts
<1> QED  BY <1>1 DEF Onward, Owns, Finalizing

LEMMA StartInv ==
  ASSUME IInv, NEW d \in Dispatchers, DispatchDue(d) \/ DispatchOther(d)
  PROVE  IInv'
<1>1. /\ At(d, "idle") /\ p' = [p EXCEPT ![d].pc = "commit", ![d].seen = attempt]
      /\ UNCHANGED <<ledger, stores, world, c>>
  BY DEF DispatchDue, DispatchOther, StartTick
<1> DEFINE row == [p[d] EXCEPT !.pc = "commit", !.seen = attempt]
<1>2. p[d] \in Row /\ attempt \in [Runs -> Attempt] /\ p \in [Dispatchers -> Row]
  BY DEF IInv, Types
<1>3. row \in Row /\ row.pc = "commit" /\ row.run = p[d].run /\ row.out = p[d].out
  BY <1>2 DEF Row, Pcs
<1>4. p' = [p EXCEPT ![d] = row]  BY <1>1
<1> HIDE DEF row
<1>5. Puts(d, row.pc, row.run, row.out)  BY <1>2, <1>3, <1>4, RowSet
<1>6. Puts(d, "commit", p[d].run, p[d].out) /\ p[d].run = 0
  BY <1>1, <1>3, <1>5 DEF At, IInv, Placed, Fits
<1>7. Onward(d)
  <2>1. "commit" \notin Own \cup Finalizing \cup {"tail", "rewrite"}  BY DEF Own, Launching, Finalizing
  <2> QED  BY <1>6, <2>1, KeptOnward DEF Fits, Pcs, Leased
<1> QED  BY <1>1, <1>7, QuietStep DEF ledger, stores, world, job, IInv, Types

LEMMA ReapInv ==
  ASSUME IInv, NEW d \in Dispatchers, Reap(d)
  PROVE  IInv'
<1>1. PICK out \in {"success", "failure", "lost", "timeout"}, by \in {"reaper", "killer"},
           pc \in {"check", "orphan"} :
        /\ Close(d, active, by, out, pc) /\ active \in Runs /\ At(d, "reap")
        /\ pc = IF Handoff THEN "check" ELSE "orphan"
        /\ UNCHANGED <<ledger, stores, claim, due, job, c>>
  BY DEF Reap, ReapDead, ReapOverdue, RecordedOutcome, DeadRuns, world
<1>2. Puts(d, pc, active, out)
  <2>1. pc \in Pcs /\ out \in Outs  BY DEF Pcs, Leased, Outs
  <2> QED  BY <1>1, <2>1, CloseRow DEF IInv, Types
<1>3. Onward(d)
  <2>1. p'[d].pc = pc /\ p'[d].run = active /\ p'[d].out = out  BY <1>2 DEF Puts
  <2>2. pc \notin Own \cup Finalizing  BY DEF Own, Launching, Finalizing
  <2>3. Fits(pc, active, out)  BY <1>1 DEF Fits, Pcs, Leased
  <2> QED  BY <1>2, <2>1, <2>2, <2>3 DEF Onward
<1> QED  BY <1>1, <1>3, QuietStep DEF ledger, stores, job, IInv, Types

LEMMA CrashInv ==
  ASSUME IInv, NEW d \in Dispatchers, Crash(d)
  PROVE  IInv'
<1>1. Onward(d)  BY SleepOnward DEF Crash
<1> QED  BY <1>1, QuietStep DEF Crash, ledger, stores, world, job, IInv, Types

(* Patches keep next_run_at a slot.                                          *)
LEMMA PatchedType ==
  ASSUME Types, NEW d \in Dispatchers, NEW next \in Nat \ {0}
  PROVE  Patched(d, next) \in Nat \ {0}
BY DEF Types, Patched, Latest

LEMMA EndTickInv ==
  ASSUME IInv, NEW d \in Dispatchers, EndTick(d)
  PROVE  IInv'
<1>1. /\ p \in [Dispatchers -> Row] /\ p[d] \in Row /\ At(d, "tail") /\ p[d].next \in Nat \ {0}
      /\ Fits("tail", p[d].run, p[d].out)
  BY RowFields DEF EndTick, IInv, Types, Placed, At
<1>2. catalog' \in Nat \ {0}  BY <1>1, PatchedType DEF EndTick, IInv, Types
<1> DEFINE keep == [p[d] EXCEPT !.pc = "evidence", !.next = IF Handoff THEN 0 ELSE p[d].next]
           row == IF p[d].run = 0 THEN Asleep ELSE keep
<1>3. keep \in Row /\ keep.pc = "evidence" /\ keep.run = p[d].run /\ keep.out = p[d].out
  BY <1>1 DEF Row, Pcs, Planning
<1>4. p' = Outdated([p EXCEPT ![d] = row], d)  BY DEF EndTick
<1> HIDE DEF keep
<1>5. /\ row \in Row
      /\ \/ row.pc = "idle" /\ row.run = 0 /\ row.out = "none"
         \/ row.pc = "evidence" /\ row.run = p[d].run /\ row.out = p[d].out /\ p[d].run \in Runs
  BY <1>1, <1>3, AsleepRow, RowFields
<1> HIDE DEF row
<1>6. Puts(d, row.pc, row.run, row.out)  BY <1>1, <1>4, <1>5, OutdatedRow
<1>7. Onward(d)
  <2>1. p'[d].pc = row.pc /\ p'[d].run = row.run /\ p'[d].out = row.out  BY <1>6 DEF Puts
  <2>2. "idle" \notin Own \cup Finalizing /\ {"evidence", "tail"} \subseteq Own /\ "evidence" \notin Finalizing
    BY DEF Own, Launching, Finalizing
  <2>3. Fits(row.pc, row.run, row.out)  BY <1>5 DEF Fits, Pcs, Planning
  <2> QED  BY <1>1, <1>5, <1>6, <2>1, <2>2, <2>3 DEF Onward, Owns, At
<1> QED  BY <1>2, <1>7, QuietStep DEF EndTick, ledger, world, job, IInv, Types

LEMMA EndIdleTickInv ==
  ASSUME IInv, NEW d \in Dispatchers, EndIdleTick(d)
  PROVE  IInv'
<1>1. p[d].pc = "rewrite" /\ p[d].next \in Nat \ {0}
  BY RowFields DEF EndIdleTick, At, IInv, Types, Placed
<1>2. catalog' \in Nat \ {0}  BY <1>1, PatchedType DEF EndIdleTick, IInv, Types
<1> QED  BY <1>2, SleepOnward, QuietStep DEF EndIdleTick, ledger, world, job, IInv, Types

LEMMA SlotsNat == Slots \subseteq Nat \ {0} /\ \A s \in Slots : s + 1 \in Nat \ {0}
BY LedgerConstants DEF Slots

(* The orphan branch: d goes on without a claim.                             *)
LEMMA OrphanOnward ==
  ASSUME IInv, NEW d \in Dispatchers, p[d].pc \in {"check", "ledger"}, Goto(d, "orphan")
  PROVE  Onward(d)
<1>1. /\ p \in [Dispatchers -> Row] /\ "orphan" \in Pcs
      /\ Fits("orphan", p[d].run, p[d].out)
  BY DEF IInv, Types, Placed, Fits, Pcs, Leased
<1>2. "orphan" \notin Own \cup Finalizing \cup {"tail", "rewrite"}  BY DEF Own, Launching, Finalizing
<1>3. Puts(d, "orphan", p[d].run, p[d].out)  BY <1>1, GotoRow
<1> QED  BY <1>1, <1>2, <1>3, KeptOnward

LEMMA EndedInv ==
  ASSUME IInv, NEW d \in Dispatchers, Ended(d)
  PROVE  IInv'
<1> DEFINE pc == IF Retrying(d) THEN "backoff" ELSE "conclude"
           out == IF Handoff THEN "failure" ELSE Result(p[d].run)
           row == [p[d] EXCEPT !.pc = pc, !.out = out]
<1>1. /\ p \in [Dispatchers -> Row] /\ p[d] \in Row /\ Fits("wait", p[d].run, p[d].out)
      /\ p[d].pc = "wait"
  BY DEF IInv, Types, Placed, Ended, At
<1>2. pc \in Pcs /\ out \in {"success", "failure"} /\ out \in Outs /\ (Handoff => pc = "conclude" /\ out = "failure")
      /\ pc \in {"backoff", "conclude"}
  BY DEF Pcs, Planning, Outs, Result, Retrying
<1>3. p' = [p EXCEPT ![d] = row]  BY DEF Ended
<1> HIDE DEF pc, out
<1>4. row \in Row /\ row.pc = pc /\ row.run = p[d].run /\ row.out = out
  BY <1>1, <1>2 DEF Row
<1> HIDE DEF row
<1>5. Puts(d, row.pc, row.run, row.out)  BY <1>1, <1>3, <1>4, RowSet
<1>6. Puts(d, pc, p[d].run, out)  BY <1>4, <1>5
<1>7. Onward(d)
  <2>1. Fits(pc, p[d].run, out)  BY <1>1, <1>2 DEF Fits, Pcs, Planning
  <2>2. pc \in Own => p[d].pc \in Own  BY <1>1, <1>2 DEF Own, Launching
  <2>3. pc \notin Finalizing \cup {"tail", "rewrite"}  BY <1>2 DEF Finalizing
  <2> QED  BY <1>6, <2>1, <2>2, <2>3, KeptOnward
<1> QED  BY <1>7, QuietStep DEF Ended, ledger, world, job, IInv, Types

LEMMA RetryInv ==
  ASSUME IInv, NEW d \in Dispatchers, Retry(d)
  PROVE  IInv'
<1>1. /\ p \in [Dispatchers -> Row] /\ p[d] \in Row /\ Fits("backoff", p[d].run, p[d].out)
      /\ p[d].pc = "backoff" /\ p[d].retry + 1 \in Nat
  BY RowFields DEF IInv, Types, Placed, Retry, At
<1>2. PICK row : row = [p[d] EXCEPT !.pc = "evidence", !.retry = p[d].retry + 1]  OBVIOUS
<1>3. p' = [p EXCEPT ![d] = row]  BY <1>2 DEF Retry
<1>4. row \in Row /\ row.pc = "evidence" /\ row.run = p[d].run /\ row.out = p[d].out
  <2>1. PICK a : a = [p[d] EXCEPT !.pc = "evidence"]  OBVIOUS
  <2>2. a \in Row /\ a.pc = "evidence" /\ a.run = p[d].run /\ a.out = p[d].out
    BY <1>1, <2>1 DEF Row, Pcs, Planning
  <2>3. row = [a EXCEPT !.retry = p[d].retry + 1]  BY <1>2, <2>1
  <2> QED  BY <1>1, <2>2, <2>3 DEF Row
<1>5. Puts(d, row.pc, row.run, row.out)  BY <1>1, <1>3, <1>4, RowSet
<1>6. Puts(d, "evidence", p[d].run, p[d].out)  BY <1>4, <1>5
<1>7. Onward(d)
  <2>1. ~Handoff  BY <1>1 DEF Fits
  <2>2. Fits("evidence", p[d].run, p[d].out)  BY <1>1 DEF Fits, Pcs, Planning
  <2>3. p[d].pc \in Own /\ "evidence" \notin Finalizing \cup {"tail", "rewrite"}
    BY <1>1, <2>1 DEF Own, Finalizing
  <2> QED  BY <1>6, <2>2, <2>3, KeptOnward
<1> QED  BY <1>7, QuietStep DEF Retry, ledger, stores, job, IInv, Types

LEMMA PersistScheduleInv ==
  ASSUME IInv, NEW d \in Dispatchers, PersistSchedule(d)
  PROVE  IInv'
<1>1. /\ p \in [Dispatchers -> Row] /\ p[d] \in Row /\ Fits("persist", p[d].run, p[d].out)
      /\ p[d].pc = "persist" /\ p[d].run \in Runs /\ p[d].next \in Nat
      /\ attempt[p[d].run].slot \in Nat
  <2>1. p \in [Dispatchers -> Row] /\ p[d] \in Row /\ p[d].pc = "persist"
    BY DEF IInv, Types, PersistSchedule, At
  <2>2. Fits("persist", p[d].run, p[d].out)  BY <2>1 DEF IInv, Placed
  <2>3. p[d].run \in Runs  BY <2>2 DEF Fits
  <2>4. attempt[p[d].run] \in Attempt  BY <2>3 DEF IInv, Types
  <2>5. attempt[p[d].run].slot \in Nat  BY <2>4, Ids DEF Attempt
  <2> QED  BY <2>1, <2>2, <2>3, <2>5, RowFields
<1>2. NextAfterRun(d) \in Nat \ {0}  BY <1>1 DEF NextAfterRun, Latest
<1>3. catalog' \in Nat \ {0}  BY <1>2, PatchedType DEF PersistSchedule, IInv, Types
<1>4. PICK watch : watch = [p[d] EXCEPT !.pc = "watch", !.next = 0, !.fresh = TRUE]  OBVIOUS
<1>5. watch \in Row /\ watch.pc = "watch" /\ watch.run = p[d].run /\ watch.out = p[d].out
  <2>1. PICK a : a = [p[d] EXCEPT !.pc = "watch"]  OBVIOUS
  <2>2. PICK b : b = [a EXCEPT !.next = 0]  OBVIOUS
  <2>3. a \in Row /\ a.pc = "watch" /\ a.run = p[d].run /\ a.out = p[d].out
    BY <1>1, <2>1 DEF Row, Pcs
  <2>4. b \in Row /\ b.pc = "watch" /\ b.run = p[d].run /\ b.out = p[d].out
    BY <2>2, <2>3 DEF Row
  <2>5. watch = [b EXCEPT !.fresh = TRUE]  BY <1>4, <2>1, <2>2
  <2> QED  BY <2>4, <2>5 DEF Row
<1>6. PICK row : row = IF Handoff /\ active = p[d].run THEN watch ELSE Asleep  OBVIOUS
<1>7. p' = Outdated([p EXCEPT ![d] = row], d)
  <2>1. CASE Handoff /\ active = p[d].run
    <3>1. [p EXCEPT ![d] = row] = [p EXCEPT ![d].pc = "watch", ![d].next = 0, ![d].fresh = TRUE]
      BY <1>4, <1>6, <2>1
    <3> QED  BY <2>1, <3>1 DEF PersistSchedule
  <2>2. CASE ~(Handoff /\ active = p[d].run)  BY <1>6, <2>2 DEF PersistSchedule
  <2> QED  BY <2>1, <2>2
<1>8. /\ row \in Row
      /\ \/ row.pc = "watch" /\ row.run = p[d].run /\ row.out = p[d].out /\ Handoff
         \/ row.pc = "idle" /\ row.run = 0 /\ row.out = "none"
  BY <1>5, <1>6, AsleepRow
<1>9. Puts(d, row.pc, row.run, row.out)  BY <1>1, <1>7, <1>8, OutdatedRow
<1>10. Onward(d)
  <2>1. p'[d].pc = row.pc /\ p'[d].run = row.run /\ p'[d].out = row.out  BY <1>9 DEF Puts
  <2>2. {"idle", "watch"} \cap (Own \cup Finalizing \cup {"tail", "rewrite"}) = {}
    BY DEF Own, Launching, Finalizing
  <2>3. Fits(row.pc, row.run, row.out)  BY <1>1, <1>8 DEF Fits, Pcs
  <2> QED  BY <1>8, <1>9, <2>1, <2>2, <2>3 DEF Onward
<1> QED  BY <1>3, <1>10, QuietStep DEF PersistSchedule, ledger, world, job, IInv, Types

LEMMA WatchInv ==
  ASSUME IInv, NEW d \in Dispatchers, Watch(d)
  PROVE  IInv'
<1>1. /\ p \in [Dispatchers -> Row] /\ Fits("watch", p[d].run, p[d].out)
  BY DEF IInv, Types, Placed, Watch, At
<1>2. Onward(d)
  <2>1. CASE Sleep(d)  BY <2>1, SleepOnward
  <2>2. CASE Close(d, p[d].run, "watch", Result(p[d].run), "check")
    <3>1. /\ p[d].run \in Runs /\ Handoff /\ "check" \in Pcs /\ Result(p[d].run) \in {"success", "failure"}
          /\ Result(p[d].run) \in Outs
      BY <1>1 DEF Fits, Pcs, Leased, Result, Outs
    <3>2. Puts(d, "check", p[d].run, Result(p[d].run))  BY <1>1, <2>2, <3>1, CloseRow
    <3>3. Fits("check", p[d].run, Result(p[d].run))  BY <3>1 DEF Fits, Pcs, Leased
    <3>4. "check" \notin Own \cup Finalizing \cup {"tail", "rewrite"}  BY DEF Own, Launching, Finalizing
    <3> QED  BY <3>2, <3>3, <3>4, KeptOnward
  <2> QED  BY <2>1, <2>2 DEF Watch
<1> QED  BY <1>2, QuietStep DEF Watch, ledger, stores, world, job, IInv, Types

(* What is planned without a run.                                            *)
LEMMA PlannedOnward ==
  ASSUME IInv, NEW d \in Dispatchers, NEW next \in Nat, Planned(d, 0, next)
  PROVE  Onward(d)
<1>1. p \in [Dispatchers -> Row] /\ 0 \in Runs \cup {0} /\ 0 \notin Runs /\ catalog \in Nat \ {0}
  BY Ids DEF IInv, Types
<1>2. \/ Puts(d, "rewrite", 0, "none") /\ p'[d].next # 0
      \/ next # 0 /\ Puts(d, "tail", 0, "none") /\ p'[d].next = next
  BY <1>1, PlannedRow
<1>3. /\ p'[d].pc \in {"rewrite", "tail"} /\ p'[d].run = 0 /\ p'[d].out = "none"
      /\ p'[d].next # 0
      /\ Puts(d, p'[d].pc, p'[d].run, p'[d].out)
  BY <1>2 DEF Puts
<1>4. {"rewrite", "tail"} \cap Finalizing = {} /\ "rewrite" \notin Own
  BY DEF Finalizing, Own, Launching
<1>5. Fits(p'[d].pc, p'[d].run, p'[d].out)  BY <1>3 DEF Fits, Pcs, Leased, Planning
<1> QED  BY <1>1, <1>3, <1>4, <1>5 DEF Onward

-----------------------------------------------------------------------------
(* Steps on the ledger.                                                      *)

LEMMA Finalized ==
  ASSUME Types, NEW r \in Runs, NEW state \in {"succeeded"} \cup Retryable, FinalizeRunAttempt(r, state)
  PROVE  /\ attempt' \in [Runs -> Attempt] /\ logical' \in [Slots -> States]
         /\ \A q \in Runs \ {r} : attempt'[q] = attempt[q]
         /\ attempt'[r].slot = attempt[r].slot
         /\ attempt'[r].state = IF attempt[r].state = "succeeded" THEN "succeeded" ELSE state
         /\ \A s \in Slots : logical[s] # "none" => logical'[s] # "none"
<1>1. attempt \in [Runs -> Attempt] /\ attempt[r] \in Attempt /\ logical \in [Slots -> States]
      /\ state \in States /\ state # "none"
  BY DEF Types, States, Retryable
<1>2. CASE attempt[r].state = "succeeded" /\ state # "succeeded"
  BY <1>1, <1>2 DEF FinalizeRunAttempt, ledger
<1>3. CASE ~(attempt[r].state = "succeeded" /\ state # "succeeded")
  <2>1. PICK a : a = [attempt[r] EXCEPT !.state = state]  OBVIOUS
  <2>2. PICK b : b = [a EXCEPT !.pending = FALSE]  OBVIOUS
  <2>3. a \in Attempt /\ a.slot = attempt[r].slot /\ a.state = state
    BY <1>1, <2>1 DEF Attempt
  <2>4. b \in Attempt /\ b.slot = attempt[r].slot /\ b.state = state
    BY <2>2, <2>3 DEF Attempt
  <2>5. attempt' = [attempt EXCEPT ![r] = b]
    BY <1>3, <2>1, <2>2 DEF FinalizeRunAttempt
  <2>6. logical' = [logical EXCEPT ![attempt[r].slot] = state]
    BY <1>3 DEF FinalizeRunAttempt
  <2>7. attempt' \in [Runs -> Attempt] /\ attempt'[r] = b /\ \A q \in Runs \ {r} : attempt'[q] = attempt[q]
    BY <1>1, <2>4, <2>5
  <2>8. logical' \in [Slots -> States] /\ \A s \in Slots : logical[s] # "none" => logical'[s] # "none"
    BY <1>1, <2>6
  <2> QED  BY <1>1, <1>3, <2>4, <2>7, <2>8
<1> QED  BY <1>2, <1>3

(* A run that somebody holds has been claimed.                               *)
LEMMA KnownRun ==
  ASSUME IInv, NEW d \in Dispatchers, p[d].run \in Runs
  PROVE  attempt[p[d].run].state # "none"
BY DEF IInv, Fresh

(* An end may be given to a run that nobody owns, or by who waits for it.    *)
LEMMA FinalizedJudged ==
  ASSUME IInv, NEW r \in Runs, NEW state \in {"succeeded"} \cup Retryable, FinalizeRunAttempt(r, state),
         attempt[r].state # "none",
         \A e \in Dispatchers, q \in Runs : p'[e].run = q /\ p'[e].pc \in Own => Owns(e, q),
         \A e \in Dispatchers : p'[e].run = r /\ p'[e].pc \in Own => ~Handoff /\ state # "succeeded"
  PROVE  Judged /\ attempt' \in [Runs -> Attempt] /\ logical' \in [Slots -> States]
<1>1. /\ attempt' \in [Runs -> Attempt] /\ logical' \in [Slots -> States]
      /\ \A q \in Runs \ {r} : attempt'[q] = attempt[q]
      /\ attempt'[r].slot = attempt[r].slot
      /\ attempt'[r].state = IF attempt[r].state = "succeeded" THEN "succeeded" ELSE state
      /\ \A s \in Slots : logical[s] # "none" => logical'[s] # "none"
  BY Finalized DEF IInv
<1>2. state # "none" /\ state \notin Live  BY DEF Retryable, Live
<1>3. \A e \in Dispatchers, q \in Runs : Owns(e, q) =>
         attempt[q].state # "succeeded" /\ (Handoff => attempt[q].state \in Live)
  BY DEF IInv, OwnInv
<1>4. "succeeded" \notin Live  BY DEF Live
<1>5. ASSUME NEW q \in Runs
      PROVE  /\ attempt'[q].slot = attempt[q].slot
             /\ attempt'[q].state = "none" <=> attempt[q].state = "none"
             /\ attempt[q].state = "succeeded" => attempt'[q].state = "succeeded"
             /\ Handoff /\ attempt'[q].state \in Live => attempt[q].state \in Live
             /\ \A e \in Dispatchers : p'[e].run = q /\ p'[e].pc \in Own =>
                  attempt'[q].state # "succeeded" /\ (Handoff => attempt'[q].state \in Live)
  <2>1. CASE q = r  BY <1>1, <1>2, <1>3, <1>4, <2>1
  <2>2. CASE q # r  BY <1>1, <1>3, <2>2
  <2> QED  BY <2>1, <2>2
<1> QED  BY <1>1, <1>5 DEF Judged

LEMMA ReconcileRows ==
  ASSUME Types, NEW seen, NEW gone, NEW late, ReconcileRuntimeLedger(seen, gone, late)
  PROVE  /\ attempt' \in [Runs -> Attempt] /\ logical' \in [Slots -> States]
         /\ \A r \in Runs :
              /\ attempt'[r].slot = attempt[r].slot
              /\ \/ attempt'[r].state = attempt[r].state
                 \/ attempt'[r].state = "lost" /\ attempt[r].state \in Live /\ r \in late
         /\ \A s \in Slots : logical[s] # "none" => logical'[s] # "none"
<1> DEFINE lost == {r \in Runs : Verdict(seen, r, gone, late) = "lost" /\ StillLive(r)}
           missing == {r \in Runs : Verdict(seen, r, gone, late) = "pending" /\ attempt[r].state = "running"}
           given(r) == [attempt[r] EXCEPT !.state = "lost", !.pending = FALSE]
           noted(r) == [attempt[r] EXCEPT !.pending = TRUE]
<1>1. /\ attempt' = [r \in Runs |-> IF r \in lost THEN given(r) ELSE IF r \in missing THEN noted(r)
                                   ELSE attempt[r]]
      /\ logical' = [s \in Slots |-> IF \E r \in lost : attempt[r].slot = s THEN "lost" ELSE logical[s]]
  BY DEF ReconcileRuntimeLedger
<1>2. \A r \in lost : r \in late /\ attempt[r].state \in Live
  BY DEF Verdict, StillLive
<1>3. ASSUME NEW r \in Runs
      PROVE  /\ given(r) \in Attempt /\ given(r).slot = attempt[r].slot /\ given(r).state = "lost"
             /\ noted(r) \in Attempt /\ noted(r).slot = attempt[r].slot
             /\ noted(r).state = attempt[r].state /\ attempt[r] \in Attempt
  <2>1. attempt[r] \in Attempt  BY DEF Types
  <2>2. PICK a : a = [attempt[r] EXCEPT !.state = "lost"]  OBVIOUS
  <2>3. a \in Attempt /\ a.slot = attempt[r].slot /\ a.state = "lost"
    BY <2>1, <2>2 DEF Attempt, States, Retryable
  <2>4. given(r) = [a EXCEPT !.pending = FALSE]  BY <2>2
  <2>5. given(r) \in Attempt /\ given(r).slot = attempt[r].slot /\ given(r).state = "lost"
    BY <2>3, <2>4 DEF Attempt
  <2>6. noted(r) \in Attempt /\ noted(r).slot = attempt[r].slot /\ noted(r).state = attempt[r].state
    BY <2>1 DEF Attempt
  <2> QED  BY <2>1, <2>5, <2>6
<1> HIDE DEF lost, missing, given, noted
<1>4. attempt' \in [Runs -> Attempt]  BY <1>1, <1>3
<1>5. logical' \in [Slots -> States] /\ \A s \in Slots : logical[s] # "none" => logical'[s] # "none"
  BY <1>1 DEF Types, States, Retryable
<1>6. \A r \in Runs : /\ attempt'[r].slot = attempt[r].slot
                     /\ \/ attempt'[r].state = attempt[r].state
                        \/ attempt'[r].state = "lost" /\ attempt[r].state \in Live /\ r \in late
  BY <1>1, <1>2, <1>3
<1> QED  BY <1>4, <1>5, <1>6

LEMMA LedgerTypes ==
  ASSUME Types, p' \in [Dispatchers -> Row], active' \in {active, 0}, attempt' \in [Runs -> Attempt],
         logical' \in [Slots -> States], UNCHANGED <<catalog, hist, claim, kind, due, c>>
  PROVE  Types'
BY DEF Types

LEMMA ReconcileInv ==
  ASSUME IInv, NEW d \in Dispatchers, Reconcile(d)
  PROVE  IInv'
<1>1. CASE Locked /\ Sleep(d)
  <2>1. Onward(d)  BY <1>1, SleepOnward
  <2> QED
    BY <1>1, <2>1, QuietStep DEF Reconcile, Locked, ledger, stores, world, job, IInv, Types
<1>2. CASE ~(Locked /\ Sleep(d))
  <2>1. PICK late \in SUBSET {r \in Runs : \A e \in Dispatchers : ~LaunchedBy(e, r)} :
           ReconcileRuntimeLedger(p[d].seen, DeadRuns, late)
    BY <1>2 DEF Reconcile
  <2>2. /\ attempt' \in [Runs -> Attempt] /\ logical' \in [Slots -> States]
        /\ \A r \in Runs :
              /\ attempt'[r].slot = attempt[r].slot
              /\ \/ attempt'[r].state = attempt[r].state
                 \/ attempt'[r].state = "lost" /\ attempt[r].state \in Live /\ r \in late
        /\ \A s \in Slots : logical[s] # "none" => logical'[s] # "none"
    BY <2>1, ReconcileRows DEF IInv
  <2>3. /\ p \in [Dispatchers -> Row] /\ p[d] \in Row /\ p[d].pc = "commit" /\ p[d].run = 0
    BY DEF IInv, Types, Placed, Fits, Reconcile, At
  <2>4. PICK row : row = [p[d] EXCEPT !.pc = "reap", !.seen = <<>>]  OBVIOUS
  <2>5. row \in Row /\ row.pc = "reap" /\ row.run = 0 /\ row.out = p[d].out
    <3>1. PICK a : a = [p[d] EXCEPT !.pc = "reap"]  OBVIOUS
    <3>2. a \in Row /\ a.pc = "reap" /\ a.run = 0 /\ a.out = p[d].out
      BY <2>3, <3>1 DEF Row, Pcs, Leased
    <3>3. row = [a EXCEPT !.seen = <<>>]  BY <2>4, <3>1
    <3> QED  BY <3>2, <3>3 DEF Row
  <2>6. p' = [p EXCEPT ![d] = row]  BY <1>2, <2>4 DEF Reconcile
  <2>7. Puts(d, row.pc, row.run, row.out)  BY <2>3, <2>5, <2>6, RowSet
  <2>8. Puts(d, "reap", p[d].run, p[d].out)  BY <2>3, <2>5, <2>7
  <2>9. "reap" \notin Own \cup Finalizing \cup {"tail", "rewrite"}  BY DEF Own, Launching, Finalizing
  <2>10. Onward(d)
    <3>1. Fits("reap", p[d].run, p[d].out)  BY <2>3 DEF Fits, Pcs, Leased
    <3> QED  BY <2>8, <2>9, <3>1, KeptOnward
  <2>11. Judged
    <3>1. \A e \in Dispatchers, r \in Runs : p'[e].run = r /\ p'[e].pc \in Own => Owns(e, r)
      BY <2>10 DEF Onward, Puts, Owns
    <3>2. \A e \in Dispatchers, r \in Runs : Handoff /\ Owns(e, r) => r \notin late
      BY DEF Owns, Own, LaunchedBy
    <3>3. \A e \in Dispatchers, r \in Runs : Owns(e, r) =>
             attempt[r].state # "succeeded" /\ (Handoff => attempt[r].state \in Live)
      BY DEF IInv, OwnInv
    <3>4. "lost" \notin Live /\ "none" \notin Live /\ "succeeded" \notin Live  BY DEF Live
    <3>5. ASSUME NEW r \in Runs
          PROVE  /\ attempt'[r].slot = attempt[r].slot
                 /\ attempt'[r].state = "none" <=> attempt[r].state = "none"
                 /\ attempt[r].state = "succeeded" => attempt'[r].state = "succeeded"
                 /\ Handoff /\ attempt'[r].state \in Live => attempt[r].state \in Live
                 /\ \A e \in Dispatchers : p'[e].run = r /\ p'[e].pc \in Own =>
                      attempt'[r].state # "succeeded" /\ (Handoff => attempt'[r].state \in Live)
      BY <2>2, <3>1, <3>2, <3>3, <3>4
    <3> QED  BY <2>2, <3>5 DEF Judged
  <2>12. UNCHANGED <<stores, world, c>>  BY DEF Reconcile
  <2>13. p' \in [Dispatchers -> Row]  BY <2>10 DEF Onward, Puts
  <2>14. Types'
    BY <2>2, <2>12, <2>13, LedgerTypes DEF stores, world, job, IInv
  <2>15. Rest  BY <2>12 DEF Rest, Reclaimed, stores, world, job
  <2> QED  BY <2>10, <2>11, <2>14, <2>15, StepInv
<1> QED  BY <1>1, <1>2

(* Whoever finalizes a handed-off run, or reaps it, nobody owns it.            *)
LEMMA NobodyOwns ==
  ASSUME IInv, NEW d \in Dispatchers, p[d].run \in Runs, p[d].pc \notin Own, Handoff
  PROVE  \A e \in Dispatchers : ~Owns(e, p[d].run)
BY DEF IInv, OwnInv, Owns

LEMMA OnwardOwns ==
  ASSUME NEW d \in Dispatchers, Onward(d)
  PROVE  \A e \in Dispatchers, q \in Runs : p'[e].run = q /\ p'[e].pc \in Own => Owns(e, q)
BY DEF Onward, Puts, Owns

LEMMA FinalizeLedgerInv ==
  ASSUME IInv, NEW d \in Dispatchers, FinalizeLedger(d)
  PROVE  IInv'
<1>1. /\ p \in [Dispatchers -> Row] /\ p[d].pc = "ledger" /\ Fits("ledger", p[d].run, p[d].out)
      /\ p[d].out \in Outs
  BY RowFields DEF IInv, Types, Placed, FinalizeLedger, At
<1>2. PICK r \in Runs : r = p[d].run
  BY <1>1 DEF Fits
<1>3. /\ Handoff /\ p[d].out \in DOMAIN LedgerState
      /\ LedgerState[p[d].out] \in {"succeeded"} \cup Retryable
      /\ p[d].out = "success" => LedgerState[p[d].out] = "succeeded"
  BY <1>1 DEF Fits, Outs, LedgerState, Retryable
<1>4. UNCHANGED <<stores, proc, due, job, c>>  BY DEF FinalizeLedger
<1>5. "ledger" \notin Own  BY DEF Own, Launching
<1>6. CASE /\ FinalizeRunAttempt(r, LedgerState[p[d].out])
           /\ Goto(d, "close")
           /\ UNCHANGED <<claim, left>>
  <2>1. Puts(d, "close", r, p[d].out)
    BY <1>1, <1>2, <1>6, GotoRow DEF Pcs, Leased
  <2>2. p'[d].pc = "close" /\ p'[d].run = r /\ p'[d].out = p[d].out  BY <2>1 DEF Puts
  <2>3. /\ attempt' \in [Runs -> Attempt] /\ logical' \in [Slots -> States]
        /\ attempt'[r].state = IF attempt[r].state = "succeeded" THEN "succeeded" ELSE LedgerState[p[d].out]
    BY <1>3, <1>6, Finalized DEF IInv
  <2>4. Onward(d)
    <3>1. Fits("close", r, p[d].out)  BY <1>1, <1>2 DEF Fits, Pcs, Leased
    <3>2. "close" \notin Own /\ p[d].pc \in Finalizing  BY <1>1 DEF Own, Launching, Finalizing
    <3> QED  BY <1>2, <1>3, <2>1, <2>2, <2>3, <3>1, <3>2 DEF Onward
  <2>5. Judged
    <3>1. attempt[r].state # "none"  BY <1>2, KnownRun
    <3>2. \A e \in Dispatchers : ~(p'[e].run = r /\ p'[e].pc \in Own)
      BY <1>1, <1>2, <1>3, <1>5, <2>4, NobodyOwns, OnwardOwns
    <3> QED  BY <1>3, <1>6, <2>4, <3>1, <3>2, OnwardOwns, FinalizedJudged
  <2>6. Types'
    BY <1>4, <1>6, <2>1, <2>3, LedgerTypes DEF stores, job, IInv, Puts
  <2>7. Rest  BY <1>4, <1>6 DEF Rest, Reclaimed, stores, job
  <2> QED  BY <2>4, <2>5, <2>6, <2>7, StepInv
<1>7. CASE /\ Locked
           /\ claim' = [claim EXCEPT ![r] = None]
           /\ IF p[d].by = "killer" THEN Goto(d, "orphan") ELSE Return(d)
  <2>1. Onward(d)  BY <1>1, <1>7, OrphanOnward, ReturnOnward
  <2>2. p'[d].pc \notin Finalizing
    <3>1. CASE Goto(d, "orphan")
      <4>1. Puts(d, "orphan", p[d].run, p[d].out)  BY <1>1, <3>1, GotoRow DEF Pcs, Leased
      <4> QED  BY <4>1 DEF Puts, Finalizing
    <3>2. CASE Return(d)
      <4>1. Puts(d, "idle", 0, "none") \/ Puts(d, "evaluate", 0, "none")  BY <1>1, <3>2, ReturnRow
      <4> QED  BY <4>1 DEF Puts, Finalizing
    <3> QED  BY <1>7, <3>1, <3>2
  <2>3. Finalizes(d, r)  BY <1>1, <1>2 DEF Finalizes, Finalizing
  <2>4. \A e \in Dispatchers : ~Finalizes(e, r)'
    <3>1. ASSUME NEW e \in Dispatchers, e # d, Finalizes(e, r)' PROVE FALSE
      <4>1. Finalizes(e, r)  BY <2>1, <3>1 DEF Onward, Puts, Finalizes
      <4> QED  BY <2>3, <3>1, <4>1 DEF IInv, CloseInv
    <3>2. ~Finalizes(d, r)'  BY <2>2 DEF Finalizes
    <3> QED  BY <3>1, <3>2
  <2>5. Observed(r) = {} /\ r \notin c.fenced
    BY <2>3 DEF IInv, CloseInv, CancelInv
  <2>6. claim' \in [Runs -> Dispatchers \cup {None, "cancel"}] /\ \A q \in Runs \ {r} : claim'[q] = claim[q]
    BY <1>7 DEF IInv, Types
  <2>7. UNCHANGED <<attempt, logical>>  BY <1>7 DEF Locked, ledger
  <2>8. Types'  BY <1>4, <2>1, <2>6, <2>7 DEF IInv, Types, Onward, Puts, stores, job
  <2>9. Rest  BY <1>3, <1>4, <2>4, <2>5, <2>6 DEF Rest, Reclaimed, stores, job
  <2>10. Judged  BY <2>1, <2>7, OnwardOwns DEF IInv, OwnInv, Judged
  <2> QED  BY <2>1, <2>8, <2>9, <2>10, StepInv
<1> QED  BY <1>2, <1>6, <1>7 DEF FinalizeLedger

LEMMA OrphanRunInv ==
  ASSUME IInv, NEW d \in Dispatchers, OrphanRun(d)
  PROVE  IInv'
<1>1. /\ p \in [Dispatchers -> Row] /\ p[d].pc = "orphan" /\ Fits("orphan", p[d].run, p[d].out)
  BY DEF IInv, Types, Placed, OrphanRun, At
<1>2. PICK r \in Runs : r = p[d].run
  BY <1>1 DEF Fits
<1>3. active' = 0 /\ UNCHANGED <<hist, skips, catalog, world, c>>  BY DEF OrphanRun
<1>4. Onward(d)  BY SleepOnward, ReturnOnward DEF OrphanRun, CutShort
<1>5. CASE UNCHANGED ledger
  BY <1>3, <1>4, <1>5, QuietStep DEF ledger, world, job, IInv, Types
<1>6. CASE FinalizeRunAttempt(r, IF p[d].by = "killer" THEN "timed_out" ELSE "lost") /\ Return(d)
  <2>1. PICK state \in {"timed_out", "lost"} : FinalizeRunAttempt(r, state)  BY <1>6
  <2>2. state \in {"succeeded"} \cup Retryable /\ state # "succeeded"  BY DEF Retryable
  <2>3. "orphan" \notin Own  BY DEF Own, Launching
  <2>4. attempt[r].state # "none"  BY <1>2, KnownRun
  <2>5. \A e \in Dispatchers, q \in Runs : p'[e].run = q /\ p'[e].pc \in Own => Owns(e, q)
    BY <1>4, OnwardOwns
  <2>6. \A e \in Dispatchers : p'[e].run = r /\ p'[e].pc \in Own => ~Handoff
    BY <1>1, <1>2, <2>3, <2>5, NobodyOwns
  <2>7. Judged /\ attempt' \in [Runs -> Attempt] /\ logical' \in [Slots -> States]
    BY <2>1, <2>2, <2>4, <2>5, <2>6, FinalizedJudged
  <2>8. Types'  BY <1>3, <1>4, <2>7, LedgerTypes DEF IInv, Types, Onward, Puts, world, job
  <2>9. Rest  BY <1>3 DEF Rest, Reclaimed, world, job
  <2> QED  BY <1>4, <2>7, <2>8, <2>9, StepInv
<1> QED  BY <1>2, <1>5, <1>6 DEF OrphanRun, Locked

LEMMA RecordEvidenceInv ==
  ASSUME IInv, NEW d \in Dispatchers, RecordEvidence(d)
  PROVE  IInv'
<1>1. /\ p \in [Dispatchers -> Row] /\ p[d] \in Row /\ p[d].pc = "evidence"
      /\ Fits("evidence", p[d].run, p[d].out)
  BY DEF IInv, Types, Placed, RecordEvidence, At
<1>2. PICK r \in Runs : r = p[d].run
  BY <1>1 DEF Fits
<1>3. "evidence" \in Own /\ "activate" \in Own  BY DEF Own, Launching
<1>4. PICK pc \in {"backoff", "conclude", "activate"}, out \in {"success", "failure"} :
        /\ p' = [p EXCEPT ![d].pc = pc, ![d].out = out]
        /\ pc = "backoff" => ~Handoff
        /\ pc = "conclude" => out = "failure"
        /\ pc \in {"backoff", "conclude"} => UNCHANGED <<ledger, left>>
        /\ pc = "activate" => Locked \/ RecordRunAttemptRunning(r)
  <2>1. CASE proc[p[d].run] = "none"
    <3>1. PICK pc \in {"backoff", "conclude"} : pc = IF Retrying(d) THEN "backoff" ELSE "conclude"
      OBVIOUS
    <3>2. /\ p' = [p EXCEPT ![d].pc = pc, ![d].out = "failure"] /\ UNCHANGED <<ledger, left>>
          /\ pc = "backoff" => ~Handoff
      BY <2>1, <3>1 DEF RecordEvidence, Retrying
    <3> QED  BY <3>2
  <2>2. CASE proc[p[d].run] # "none"
    <3>1. PICK out \in {"success", "failure"} :
            out = IF proc[p[d].run] = "live" THEN "success" ELSE Result(p[d].run)
      BY DEF Result
    <3>2. /\ p' = [p EXCEPT ![d].pc = "activate", ![d].out = out]
          /\ Locked \/ RecordRunAttemptRunning(r)
      BY <1>2, <2>2, <3>1 DEF RecordEvidence
    <3> QED  BY <3>2
  <2> QED  BY <2>1, <2>2
<1>5. PICK row : row = [p[d] EXCEPT !.pc = pc, !.out = out]  OBVIOUS
<1>6. row \in Row /\ row.pc = pc /\ row.run = p[d].run /\ row.out = out
  BY <1>1, <1>5 DEF Row, Pcs, Planning, Outs
<1>7. p' = [p EXCEPT ![d] = row]  BY <1>4, <1>5
<1>8. Puts(d, row.pc, row.run, row.out)  BY <1>1, <1>6, <1>7, RowSet
<1>9. Puts(d, pc, p[d].run, out)  BY <1>6, <1>8
<1>10. Onward(d)
  <2>1. Fits(pc, p[d].run, out)  BY <1>1, <1>4 DEF Fits, Pcs, Planning
  <2>2. pc \notin Finalizing \cup {"tail", "rewrite"}  BY DEF Finalizing
  <2> QED  BY <1>1, <1>3, <1>9, <2>1, <2>2, KeptOnward
<1>11. UNCHANGED <<stores, world, c>>  BY DEF RecordEvidence
<1>12. CASE UNCHANGED ledger
  BY <1>10, <1>11, <1>12, QuietStep DEF ledger, stores, world, job, IInv, Types
<1>13. CASE RecordRunAttemptRunning(r)
  <2>1. PICK a : a = [attempt[r] EXCEPT !.state = "running"]  OBVIOUS
  <2>2. a \in Attempt /\ a.slot = attempt[r].slot /\ a.state = "running"
    BY <2>1 DEF IInv, Types, Attempt, States, Live
  <2>3. attempt' = [attempt EXCEPT ![r] = a] /\ logical' = [logical EXCEPT ![attempt[r].slot] = "running"]
    BY <1>13, <2>1 DEF RecordRunAttemptRunning
  <2>4. /\ attempt' \in [Runs -> Attempt] /\ attempt'[r] = a
        /\ \A q \in Runs \ {r} : attempt'[q] = attempt[q]
    BY <2>2, <2>3 DEF IInv, Types
  <2>5. logical' \in [Slots -> States] /\ \A s \in Slots : logical[s] # "none" => logical'[s] # "none"
    BY <2>3 DEF IInv, Types, States, Live
  <2>6. Owns(d, r)  BY <1>1, <1>2, <1>3 DEF Owns
  <2>7. /\ attempt[r].state # "none" /\ attempt[r].state # "succeeded"
        /\ Handoff => attempt[r].state \in Live
        /\ "running" \in Live
    BY <1>2, <2>6, KnownRun DEF IInv, OwnInv, Live
  <2>8. \A e \in Dispatchers, q \in Runs : p'[e].run = q /\ p'[e].pc \in Own =>
           attempt[q].state # "succeeded" /\ (Handoff => attempt[q].state \in Live)
    BY <1>10, OnwardOwns DEF IInv, OwnInv
  <2>9. ASSUME NEW q \in Runs
        PROVE  /\ attempt'[q].slot = attempt[q].slot
               /\ attempt'[q].state = "none" <=> attempt[q].state = "none"
               /\ attempt[q].state = "succeeded" => attempt'[q].state = "succeeded"
               /\ Handoff /\ attempt'[q].state \in Live => attempt[q].state \in Live
               /\ \A e \in Dispatchers : p'[e].run = q /\ p'[e].pc \in Own =>
                    attempt'[q].state # "succeeded" /\ (Handoff => attempt'[q].state \in Live)
    <3>1. CASE q = r  BY <2>2, <2>4, <2>7, <3>1
    <3>2. CASE q # r  BY <2>4, <2>8, <3>2
    <3> QED  BY <3>1, <3>2
  <2>10. Judged  BY <2>5, <2>9 DEF Judged
  <2>11. Types'
    BY <1>10, <1>11, <2>4, <2>5, LedgerTypes DEF IInv, Types, Onward, Puts, stores, world, job
  <2>12. Rest  BY <1>11 DEF Rest, Reclaimed, stores, world, job
  <2> QED  BY <1>10, <2>10, <2>11, <2>12, StepInv
<1> QED  BY <1>4, <1>12, <1>13 DEF Locked

-----------------------------------------------------------------------------
(* Steps that report, claim, make a run active, or belong to a cancellation.  *)

(* What such a step has to show, besides the two invariants on who closes.    *)
Unheard ==
  \A r \in Runs : attempt[r].state = "none" =>
     /\ active' # r /\ c'.run # r /\ hist'[r] = hist[r] /\ r \notin c'.fenced
     /\ \A e \in Dispatchers : p'[e].run # r

OwnKept ==
  \A e \in Dispatchers, r \in Runs : p'[e].run = r /\ p'[e].pc \in Own =>
     /\ Owns(e, r) /\ Observed(r)' = {}
     /\ Handoff => /\ active' # r /\ c'.run # r /\ r \notin c'.fenced
                   /\ \A f \in Dispatchers : p'[f].run = r => f = e

LEMMA WideInv ==
  ASSUME IInv, Types', Placed', CloseInv', CancelInv', OneCompletion', AgreeInv',
         Judged, Unheard, OwnKept, kind' = kind
  PROVE  IInv'
<1>1. (Handoff' <=> Handoff) /\ Own' = Own  BY DEF Handoff, Own
<1>2. Fresh'
  <2>1. SUFFICES ASSUME NEW r \in Runs
                 PROVE  /\ attempt'[r].state = "none" =>
                             /\ active' # r /\ c'.run # r /\ hist'[r] = <<>> /\ r \notin c'.fenced
                             /\ attempt'[r].slot = 0
                             /\ \A e \in Dispatchers : p'[e].run # r
                        /\ attempt'[r].slot # 0 => logical'[attempt'[r].slot] # "none"
    BY DEF Fresh
  <2>2. attempt'[r].slot = attempt[r].slot /\ (attempt'[r].state = "none" => attempt[r].state = "none")
    BY DEF Judged
  <2>3. attempt[r].slot \in Slots \cup {0}  BY DEF IInv, Types, Attempt
  <2>4. attempt[r].slot # 0 => logical[attempt[r].slot] # "none"  BY DEF IInv, Fresh
  <2>5. \A s \in Slots : logical[s] # "none" => logical'[s] # "none"  BY DEF Judged
  <2>6. attempt[r].state = "none" => hist[r] = <<>> /\ attempt[r].slot = 0  BY DEF IInv, Fresh
  <2> QED  BY <2>2, <2>3, <2>4, <2>5, <2>6 DEF Unheard
<1>3. OwnInv'
  <2>1. SUFFICES ASSUME NEW e \in Dispatchers, NEW r \in Runs, p'[e].run = r, p'[e].pc \in Own
                 PROVE  /\ Observed(r)' = {} /\ attempt'[r].state # "succeeded"
                        /\ \A f \in Dispatchers : p'[f].run = r /\ p'[f].pc \in Own => f = e
                        /\ Handoff =>
                             /\ active' # r /\ c'.run # r /\ attempt'[r].state \in Live
                             /\ r \notin c'.fenced
                             /\ \A f \in Dispatchers : p'[f].run = r => f = e
    BY <1>1 DEF OwnInv, Owns
  <2>2. \A f \in Dispatchers : p'[f].run = r /\ p'[f].pc \in Own => f = e
    BY <2>1 DEF OwnKept, IInv, OwnInv
  <2>3. attempt'[r].state # "succeeded" /\ (Handoff => attempt'[r].state \in Live)
    BY <2>1 DEF Judged
  <2> QED  BY <2>1, <2>2, <2>3 DEF OwnKept
<1>4. OneLiveAttempt'
  <2>1. SUFFICES ASSUME Handoff, NEW s \in Slots, NEW q \in Runs, NEW r \in Runs,
                        attempt'[q].slot = s, attempt'[r].slot = s,
                        attempt'[q].state \in Live, attempt'[r].state \in Live
                 PROVE  q = r
    BY <1>1 DEF OneLiveAttempt, AttemptsOf
  <2>2. /\ attempt[q].slot = s /\ attempt[r].slot = s
        /\ attempt[q].state \in Live /\ attempt[r].state \in Live
    BY <2>1 DEF Judged
  <2> QED  BY <2>1, <2>2 DEF OneLiveAttempt, AttemptsOf, IInv
<1> QED  BY <1>2, <1>3, <1>4 DEF IInv

(* The ledger left alone judges nothing, if nobody comes to own a run.        *)
LEMMA QuietJudged ==
  ASSUME IInv, UNCHANGED <<attempt, logical>>,
         \A e \in Dispatchers, q \in Runs : p'[e].run = q /\ p'[e].pc \in Own => Owns(e, q)
  PROVE  Judged
BY DEF IInv, OwnInv, Judged

LEMMA Appended ==
  ASSUME hist \in [Runs -> Seq(Outcomes)], NEW r \in Runs, NEW out \in Outcomes, AppendCompleted(r, out)
  PROVE  /\ hist' \in [Runs -> Seq(Outcomes)]
         /\ \A q \in Runs \ {r} : hist'[q] = hist[q] /\ Observed(q)' = Observed(q)
         /\ \A i \in DOMAIN hist'[r] : hist'[r][i] = out \/ (i \in DOMAIN hist[r] /\ hist'[r][i] = hist[r][i])
         /\ out \in {"cancelled", "unstarted"} => Observed(r)' = Observed(r)
         /\ Observed(r) = {} => \A i, j \in Observed(r)' : i = j
<1>1. hist' = [hist EXCEPT ![r] = Append(hist[r], out)]  BY DEF AppendCompleted
<1>2. PICK h \in Seq(Outcomes) : h = hist[r]  OBVIOUS
<1>3. PICK g : g = Append(h, out)  OBVIOUS
<1>4. /\ g \in Seq(Outcomes) /\ Len(g) = Len(h) + 1 /\ DOMAIN h = 1..Len(h) /\ Len(h) \in Nat
      /\ DOMAIN g = 1..Len(g) /\ g[Len(h) + 1] = out
      /\ \A i \in 1..Len(h) : g[i] = h[i]
  BY <1>3
<1>5. hist' \in [Runs -> Seq(Outcomes)] /\ hist'[r] = g /\ \A q \in Runs \ {r} : hist'[q] = hist[q]
  BY <1>1, <1>2, <1>3, <1>4
<1>6. \A i \in DOMAIN g : i = Len(h) + 1 \/ i \in 1..Len(h)  BY <1>4
<1>7. \A i \in DOMAIN g : (i = Len(h) + 1 /\ g[i] = out) \/ (i \in DOMAIN h /\ g[i] = h[i])
  BY <1>4, <1>6
<1>8. DOMAIN h \subseteq DOMAIN g /\ \A i \in DOMAIN h : g[i] = h[i]  BY <1>4
<1>9. \A q \in Runs \ {r} : Observed(q)' = Observed(q)  BY <1>5, ObservedSame
<1>10. /\ Observed(r) = {i \in DOMAIN h : h[i] \notin {"cancelled", "unstarted"}}
       /\ Observed(r)' = {i \in DOMAIN g : g[i] \notin {"cancelled", "unstarted"}}
  BY <1>2, <1>5 DEF Observed
<1>11. out \in {"cancelled", "unstarted"} => Observed(r)' = Observed(r)
  <2> SUFFICES ASSUME out \in {"cancelled", "unstarted"} PROVE Observed(r)' = Observed(r)
    OBVIOUS
  <2>1. Observed(r)' \subseteq Observed(r)  BY <1>7, <1>10
  <2>2. Observed(r) \subseteq Observed(r)'  BY <1>8, <1>10
  <2> QED  BY <2>1, <2>2
<1>12. Observed(r) = {} => \A i, j \in Observed(r)' : i = j
  <2> SUFFICES ASSUME Observed(r) = {}, NEW i \in Observed(r)' PROVE i = Len(h) + 1
    OBVIOUS
  <2> QED  BY <1>7, <1>10
<1> QED  BY <1>2, <1>5, <1>7, <1>9, <1>11, <1>12

(* The two halves of AgreeInv.                                               *)
LEMMA AgreeKept ==
  ASSUME IInv, Judged, kind' = kind,
         \A r \in Runs : \A i \in DOMAIN hist'[r] :
            Handoff /\ hist'[r][i] = "success" =>
              (i \in DOMAIN hist[r] /\ hist[r][i] = "success") \/ attempt[r].state = "succeeded",
         \A e \in Dispatchers : p'[e].pc = "close" =>
            p[e].pc = "close" /\ p'[e].run = p[e].run /\ p'[e].out = p[e].out
  PROVE  AgreeInv'
<1>1. LedgerAgrees'
  <2>1. SUFFICES ASSUME Handoff, NEW r \in Runs, NEW i \in DOMAIN hist'[r], hist'[r][i] = "success"
                 PROVE  attempt'[r].state = "succeeded"
    BY DEF LedgerAgrees, Handoff
  <2>2. attempt[r].state = "succeeded"  BY <2>1 DEF IInv, AgreeInv, LedgerAgrees
  <2> QED  BY <2>2 DEF Judged
<1>2. ASSUME NEW e \in Dispatchers, p'[e].pc = "close" /\ p'[e].out = "success"
      PROVE  attempt'[p'[e].run].state = "succeeded"
  <2>1. p[e].pc = "close" /\ p[e].out = "success" /\ p'[e].run = p[e].run  BY <1>2
  <2>2. p[e].run \in Runs /\ attempt[p[e].run].state = "succeeded"
    BY <2>1 DEF IInv, AgreeInv, Placed, Fits
  <2> QED  BY <2>1, <2>2 DEF Judged
<1> QED  BY <1>1, <1>2 DEF AgreeInv

LEMMA OnwardPlaced ==
  ASSUME IInv, NEW d \in Dispatchers, Onward(d), c' = c, kind' = kind
  PROVE  Placed'
BY DEF IInv, Placed, Fits, Onward, Puts, Handoff

LEMMA OnwardFinalizes ==
  ASSUME NEW d \in Dispatchers, Onward(d)
  PROVE  \A e \in Dispatchers, r \in Runs : Finalizes(e, r)' => Finalizes(e, r)
BY DEF Onward, Puts, Finalizes

LEMMA SetActiveInv ==
  ASSUME IInv, NEW d \in Dispatchers, SetActive(d)
  PROVE  IInv'
<1>1. /\ p \in [Dispatchers -> Row] /\ p[d].pc = "activate" /\ Fits("activate", p[d].run, p[d].out)
  BY DEF IInv, Types, Placed, SetActive, At
<1>2. PICK r \in Runs : r = p[d].run
  BY <1>1 DEF Fits
<1>3. active' = r /\ UNCHANGED <<attempt, logical, hist, catalog, claim, due, kind, c>>
  BY <1>2 DEF SetActive, ledger, world, job
<1>4. PICK pc \in {"persist", "wait"} : Goto(d, pc)  BY DEF SetActive
<1>5. Puts(d, pc, r, p[d].out)  BY <1>1, <1>2, <1>4, GotoRow DEF Pcs, Planning
<1>6. Onward(d)
  <2>1. Fits(pc, p[d].run, p[d].out)  BY <1>1, <1>2 DEF Fits, Pcs, Planning
  <2>2. p[d].pc \in Own /\ pc \notin Finalizing \cup {"tail", "rewrite"}
    BY <1>1 DEF Own, Launching, Finalizing
  <2> QED  BY <1>2, <1>5, <2>1, <2>2, KeptOnward
<1>7. /\ Observed(r) = {} /\ (Handoff => r \notin c.fenced) /\ attempt[r].state # "none"
      /\ \A e \in Dispatchers : Owns(e, r) => e = d
  <2>1. Owns(d, r)  BY <1>1, <1>2 DEF Owns, Own, Launching
  <2> QED  BY <1>2, <2>1, KnownRun DEF IInv, OwnInv
<1>8. \A q : Observed(q)' = Observed(q)  BY <1>3, ObservedSame
<1>9. Types'  BY <1>3, <1>5 DEF IInv, Types, Puts
<1>10. Handoff' <=> Handoff  BY <1>3 DEF Handoff
<1>11. CloseInv'
  <2>1. \A e \in Dispatchers, q \in Runs : Finalizes(e, q)' => Finalizes(e, q)
    BY <1>6, OnwardFinalizes
  <2> QED  BY <1>3, <1>7, <1>8, <1>10, <2>1 DEF IInv, CloseInv
<1>12. CancelInv'
  <2>1. \A q \in c.fenced : q \in Runs  BY DEF IInv, Types, Cancelling
  <2>2. \A e \in Dispatchers, q \in Runs : Finalizes(e, q)' => Finalizes(e, q)
    BY <1>6, OnwardFinalizes
  <2>3. \A q \in c.fenced :
          /\ Handoff /\ Observed(q)' = {} /\ \A e \in Dispatchers : ~Finalizes(e, q)'
          /\ active' # q
    BY <1>3, <1>7, <1>8, <2>1, <2>2 DEF IInv, CancelInv
  <2>4. ASSUME c.stale, NEW x, x = c.run
        PROVE  Handoff /\ c.pc = "close" /\ Observed(x)' = {} /\ \A e \in Dispatchers : ~Finalizes(e, x)'
    <3>1. x \in Runs  BY <2>4 DEF IInv, CancelInv, Placed
    <3> QED  BY <1>8, <2>2, <2>4, <3>1 DEF IInv, CancelInv
  <2>5. PICK x : x = c.run  OBVIOUS
  <2>6. c'.stale => /\ Handoff' /\ c'.pc = "close" /\ Observed(c.run)' = {}
                    /\ \A e \in Dispatchers : ~Finalizes(e, c.run)'
    BY <1>3, <1>10, <2>4, <2>5 DEF Observed, Finalizes
  <2> QED  BY <1>3, <1>10, <2>3, <2>6 DEF CancelInv
<1>13. \A e \in Dispatchers, q \in Runs : p'[e].run = q /\ p'[e].pc \in Own => Owns(e, q)
  BY <1>6, OnwardOwns
<1>14. Judged  BY <1>3, <1>13, QuietJudged
<1>15. Unheard
  BY <1>2, <1>3, <1>5, <1>7, Ids DEF Unheard, IInv, Fresh, Puts
<1>16. OwnKept
  <2>1. SUFFICES ASSUME NEW e \in Dispatchers, NEW q \in Runs, p'[e].run = q, p'[e].pc \in Own
                 PROVE  Handoff => /\ r # q /\ c.run # q /\ q \notin c.fenced
                                   /\ \A f \in Dispatchers : p'[f].run = q => f = e
    BY <1>3, <1>8, <1>13 DEF OwnKept, IInv, OwnInv
  <2>2. Owns(e, q)  BY <1>13, <2>1
  <2>3. \A f \in Dispatchers : p'[f].run = p[f].run  BY <1>2, <1>5 DEF Puts
  <2>4. ASSUME Handoff PROVE r # q
    <3>1. pc \notin Own  BY <2>4 DEF Own, Launching
    <3>2. e # d  BY <1>5, <2>1, <3>1 DEF Puts
    <3> QED  BY <1>7, <2>2, <3>2
  <2> QED  BY <2>2, <2>3, <2>4 DEF IInv, OwnInv
<1>17. Placed'  BY <1>3, <1>6, OnwardPlaced
<1>18. OneCompletion'  BY <1>8 DEF IInv, OneCompletion
<1>19. AgreeInv'
  <2>1. \A e \in Dispatchers : p'[e].pc = "close" =>
           p[e].pc = "close" /\ p'[e].run = p[e].run /\ p'[e].out = p[e].out
    BY <1>5 DEF Puts
  <2> QED  BY <1>3, <1>14, <2>1, AgreeKept
<1> QED
  BY <1>3, <1>9, <1>11, <1>12, <1>14, <1>15, <1>16, <1>17, <1>18, <1>19, WideInv

LEMMA ClaimExitInv ==
  ASSUME IInv, NEW d \in Dispatchers, ClaimExit(d)
  PROVE  IInv'
<1>1. /\ p \in [Dispatchers -> Row] /\ p[d].pc = "check" /\ Fits("check", p[d].run, p[d].out)
  BY DEF IInv, Types, Placed, ClaimExit, At
<1>2. PICK r \in Runs : r = p[d].run
  BY <1>1 DEF Fits
<1>3. Handoff /\ UNCHANGED <<attempt, logical, active, hist, catalog, due, kind>>
  BY <1>1 DEF Fits, ClaimExit, ledger, stores, job
<1>4. CASE ~(active = r /\ MayClaim(r))
  <2>1. UNCHANGED <<claim, c>> /\ (Goto(d, "orphan") \/ Return(d))
    BY <1>2, <1>4 DEF ClaimExit
  <2>2. Onward(d)  BY <1>1, <2>1, OrphanOnward, ReturnOnward
  <2> QED  BY <1>3, <2>1, <2>2, QuietStep DEF IInv, Types
<1>5. CASE active = r /\ MayClaim(r)
  <2>1. /\ claim' = [claim EXCEPT ![r] = d] /\ Goto(d, "ledger")
        /\ c' = IF c.run = r THEN [c EXCEPT !.stale = FALSE] ELSE c
    BY <1>2, <1>5 DEF ClaimExit
  <2>2. Puts(d, "ledger", r, p[d].out)  BY <1>1, <1>2, <2>1, GotoRow DEF Pcs, Leased
  <2>3. /\ c' \in Cancelling /\ c'.pc = c.pc /\ c'.run = c.run /\ c'.fenced = c.fenced
        /\ c'.stale => c.stale /\ c.run # r
    BY <2>1 DEF IInv, Types, Cancelling
  <2>4. \A q : Observed(q)' = Observed(q)  BY <1>3, ObservedSame
  <2>5. Handoff' <=> Handoff  BY <1>3 DEF Handoff
  <2>6. \A e \in Dispatchers : ~Finalizes(e, r)
    BY <1>5, DispatchConstants DEF MayClaim, HolderDead, Finalizes, IInv, CloseInv
  <2>7. \A e \in Dispatchers, q \in Runs : Finalizes(e, q)' => (e = d /\ q = r) \/ (q # r /\ Finalizes(e, q))
    BY <2>2, <2>6 DEF Puts, Finalizes
  <2>8. Observed(r) = {}  BY <1>3, <1>5 DEF IInv, CloseInv
  <2>9. r \notin c.fenced
    BY <1>5, DispatchConstants DEF MayClaim, HolderDead, IInv, CancelInv
  <2>10. /\ claim' \in [Runs -> Dispatchers \cup {None, "cancel"}] /\ claim'[r] = d
         /\ \A q \in Runs \ {r} : claim'[q] = claim[q]
    BY <2>1 DEF IInv, Types
  <2>11. Types'  BY <1>3, <2>2, <2>3, <2>10 DEF IInv, Types, Puts
  <2>12. Placed'
    <3>1. Fits("ledger", r, p[d].out)  BY <1>1, <1>2, <1>3 DEF Fits, Pcs, Leased
    <3> QED  BY <1>3, <2>2, <2>3, <2>5, <3>1 DEF IInv, Placed, Fits, Puts
  <2>13. CloseInv'
    BY <1>3, <2>4, <2>5, <2>7, <2>8, <2>10 DEF IInv, CloseInv
  <2>14. CancelInv'
    <3>1. \A q \in c.fenced : q \in Runs  BY DEF IInv, Types, Cancelling
    <3>2. \A q \in c.fenced :
            /\ Handoff /\ Observed(q)' = {} /\ \A e \in Dispatchers : ~Finalizes(e, q)'
            /\ active' # q
      BY <1>3, <1>5, <2>4, <2>7, <2>9, <3>1 DEF IInv, CancelInv
    <3>3. ASSUME c'.stale, NEW x, x = c.run
          PROVE  c.pc = "close" /\ Observed(x)' = {} /\ \A e \in Dispatchers : ~Finalizes(e, x)'
      <4>1. x \in Runs /\ x # r  BY <2>3, <3>3 DEF IInv, CancelInv, Placed
      <4> QED  BY <2>3, <2>4, <2>7, <3>3, <4>1 DEF IInv, CancelInv
    <3>4. PICK x : x = c'.run  OBVIOUS
    <3>5. c'.stale => /\ c'.pc = "close" /\ Observed(c.run)' = {}
                      /\ \A e \in Dispatchers : ~Finalizes(e, c.run)'
      BY <2>3, <3>3, <3>4 DEF Observed, Finalizes
    <3> QED  BY <1>3, <2>3, <2>5, <3>2, <3>5 DEF CancelInv
  <2>15. \A e \in Dispatchers, q \in Runs : p'[e].run = q /\ p'[e].pc \in Own => Owns(e, q)
    <3>1. "ledger" \notin Own  BY DEF Own, Launching
    <3> QED  BY <2>2, <3>1 DEF Puts, Owns
  <2>16. Judged  BY <1>3, <2>15, QuietJudged
  <2>17. Unheard  BY <1>2, <1>3, <2>2, <2>3 DEF Unheard, IInv, Fresh, Puts
  <2>18. OwnKept
    <3>1. \A f \in Dispatchers : p'[f].run = p[f].run  BY <1>2, <2>2 DEF Puts
    <3> QED  BY <1>3, <2>3, <2>4, <2>15, <3>1 DEF OwnKept, IInv, OwnInv
  <2>19. OneCompletion'  BY <2>4 DEF IInv, OneCompletion
  <2>20. AgreeInv'
    <3>1. \A e \in Dispatchers : p'[e].pc = "close" =>
             p[e].pc = "close" /\ p'[e].run = p[e].run /\ p'[e].out = p[e].out
      BY <2>2 DEF Puts
    <3> QED  BY <1>3, <2>16, <3>1, AgreeKept
  <2> QED
    BY <1>3, <2>11, <2>12, <2>13, <2>14, <2>16, <2>17, <2>18, <2>19, <2>20, WideInv
<1> QED  BY <1>4, <1>5

LEMMA OnwardUnheard ==
  ASSUME IInv, NEW d \in Dispatchers, Onward(d), active' \in {active, 0}, c' = c,
         \A r \in Runs : attempt[r].state = "none" => hist'[r] = hist[r]
  PROVE  Unheard
<1>1. SUFFICES ASSUME NEW r \in Runs, attempt[r].state = "none"
               PROVE  /\ active' # r /\ c'.run # r /\ hist'[r] = hist[r] /\ r \notin c'.fenced
                      /\ \A e \in Dispatchers : p'[e].run # r
  BY DEF Unheard
<1>2. /\ active # r /\ c.run # r /\ r \notin c.fenced /\ r # 0
      /\ \A e \in Dispatchers : p[e].run # r
  BY <1>1, Ids DEF IInv, Fresh
<1>3. p'[d].run # r  BY <1>2 DEF Onward
<1>4. \A e \in Dispatchers : p'[e].run # r  BY <1>2, <1>3 DEF Onward, Puts
<1> QED  BY <1>1, <1>2, <1>4

LEMMA CloseRunInv ==
  ASSUME IInv, NEW d \in Dispatchers, CloseRun(d)
  PROVE  IInv'
<1>1. /\ p \in [Dispatchers -> Row] /\ p[d].pc = "close" /\ Fits("close", p[d].run, p[d].out)
      /\ p[d].out \in Outs
  BY RowFields DEF IInv, Types, Placed, CloseRun, At
<1>2. PICK r \in Runs : r = p[d].run
  BY <1>1 DEF Fits
<1>3. /\ Handoff /\ p[d].out \in Outcomes
      /\ active' = 0 /\ UNCHANGED <<attempt, logical, catalog, claim, due, kind, c>>
  BY <1>1 DEF Fits, Outs, Outcomes, CloseRun, ledger, world, job
<1>4. CASE UNCHANGED hist /\ CutShort(d)
  <2>1. Onward(d)  BY <1>4, SleepOnward DEF CutShort
  <2> QED  BY <1>3, <1>4, <2>1, QuietStep DEF IInv, Types
<1>5. CASE AppendCompleted(r, p[d].out) /\ Return(d)
  <2>1. Onward(d)  BY <1>5, ReturnOnward
  <2>2. p'[d].pc \in {"idle", "evaluate"}
    <3>1. Puts(d, "idle", 0, "none") \/ Puts(d, "evaluate", 0, "none")  BY <1>1, <1>5, ReturnRow
    <3> QED  BY <3>1 DEF Puts
  <2>3. Finalizes(d, r)  BY <1>1, <1>2 DEF Finalizes, Finalizing
  <2>4. claim[r] = d /\ Observed(r) = {} /\ r \notin c.fenced /\ (c.stale => c.run # r)
    BY <2>3 DEF IInv, CloseInv, CancelInv
  <2>5. \A e \in Dispatchers, q \in Runs : Finalizes(e, q)' => q # r /\ Finalizes(e, q)
    <3>1. ASSUME NEW e \in Dispatchers, NEW q \in Runs, Finalizes(e, q)' PROVE q # r /\ Finalizes(e, q)
      <4>1. Finalizes(e, q)  BY <2>1, <3>1, OnwardFinalizes
      <4>2. e # d  BY <2>2, <3>1 DEF Finalizes, Finalizing
      <4>3. claim[q] = e  BY <4>1 DEF IInv, CloseInv
      <4> QED  BY <2>4, <4>1, <4>2, <4>3
    <3> QED  BY <3>1
  <2>6. /\ hist' \in [Runs -> Seq(Outcomes)]
        /\ \A q \in Runs \ {r} : hist'[q] = hist[q] /\ Observed(q)' = Observed(q)
        /\ \A i \in DOMAIN hist'[r] : hist'[r][i] = p[d].out \/ (i \in DOMAIN hist[r] /\ hist'[r][i] = hist[r][i])
        /\ \A i, j \in Observed(r)' : i = j
    BY <1>3, <1>5, <2>4, Appended DEF IInv, Types
  <2>7. Handoff' <=> Handoff  BY <1>3 DEF Handoff
  <2>8. Types'  BY <1>3, <2>1, <2>6 DEF IInv, Types, Onward, Puts
  <2>9. Placed'  BY <1>3, <2>1, OnwardPlaced
  <2>10. CloseInv'
    <3>1. \A e \in Dispatchers, q \in Runs : Finalizes(e, q)' => claim'[q] = e /\ Observed(q)' = {}
      BY <1>3, <2>5, <2>6 DEF IInv, CloseInv
    <3>2. \A q \in Runs : active' # q  BY <1>3, Ids
    <3>3. \A q \in Runs : Observed(q)' # {} => claim'[q] \in Dispatchers
      BY <1>3, <2>4, <2>6 DEF IInv, CloseInv
    <3> QED  BY <1>3, <2>7, <3>1, <3>2, <3>3 DEF CloseInv
  <2>11. CancelInv'
    <3>1. \A q \in c.fenced : q \in Runs  BY DEF IInv, Types, Cancelling
    <3>2. \A q \in c.fenced :
            /\ Handoff /\ Observed(q)' = {} /\ \A e \in Dispatchers : ~Finalizes(e, q)'
            /\ active' # q
      BY <1>3, <2>4, <2>5, <2>6, <3>1, Ids DEF IInv, CancelInv
    <3>3. ASSUME c.stale, NEW x, x = c.run
          PROVE  c.pc = "close" /\ Observed(x)' = {} /\ \A e \in Dispatchers : ~Finalizes(e, x)'
      <4>1. x \in Runs /\ x # r  BY <2>4, <3>3 DEF IInv, CancelInv, Placed
      <4> QED  BY <2>5, <2>6, <3>3, <4>1 DEF IInv, CancelInv
    <3>4. PICK x : x = c.run  OBVIOUS
    <3>5. c'.stale => /\ c'.pc = "close" /\ Observed(c.run)' = {}
                      /\ \A e \in Dispatchers : ~Finalizes(e, c.run)'
      BY <1>3, <3>3, <3>4 DEF Observed, Finalizes
    <3> QED  BY <1>3, <2>7, <3>2, <3>5 DEF CancelInv
  <2>12. \A e \in Dispatchers, q \in Runs : p'[e].run = q /\ p'[e].pc \in Own => Owns(e, q)
    BY <2>1, OnwardOwns
  <2>13. Judged  BY <1>3, <2>12, QuietJudged
  <2>14. attempt[r].state # "none"  BY <1>2, KnownRun
  <2>15. Unheard  BY <1>3, <2>1, <2>6, <2>14, OnwardUnheard
  <2>16. OwnKept
    <3>1. "close" \notin Own  BY DEF Own, Launching
    <3>2. \A e \in Dispatchers : ~Owns(e, r)  BY <1>1, <1>2, <1>3, <3>1, NobodyOwns
    <3>3. SUFFICES ASSUME NEW e \in Dispatchers, NEW q \in Runs, p'[e].run = q, p'[e].pc \in Own
                   PROVE  /\ Owns(e, q) /\ Observed(q)' = {} /\ active' # q /\ c'.run # q /\ q \notin c'.fenced
                          /\ \A f \in Dispatchers : p'[f].run = q => f = e
      BY DEF OwnKept
    <3>4. Owns(e, q) /\ q # r  BY <2>12, <3>2, <3>3
    <3>5. /\ Observed(q) = {} /\ active # q /\ c.run # q /\ q \notin c.fenced
          /\ \A f \in Dispatchers : p[f].run = q => f = e
      BY <1>3, <3>4 DEF IInv, OwnInv
    <3>6. \A f \in Dispatchers : p'[f].run = q => p[f].run = q
      BY <2>1, <3>5, Ids DEF Onward, Puts
    <3> QED  BY <1>3, <2>6, <3>4, <3>5, <3>6, Ids
  <2>17. OneCompletion'  BY <2>6 DEF IInv, OneCompletion
  <2>18. AgreeInv'
    <3>1. \A e \in Dispatchers : p'[e].pc = "close" =>
             p[e].pc = "close" /\ p'[e].run = p[e].run /\ p'[e].out = p[e].out
      BY <2>1, <2>2 DEF Onward, Puts
    <3>2. p[d].out = "success" => attempt[r].state = "succeeded"
      BY <1>1, <1>2 DEF IInv, AgreeInv
    <3>3. ASSUME NEW q \in Runs, NEW i \in DOMAIN hist'[q], hist'[q][i] = "success"
          PROVE  (i \in DOMAIN hist[q] /\ hist[q][i] = "success") \/ attempt[q].state = "succeeded"
      <4>1. CASE q = r  BY <2>6, <3>2, <3>3, <4>1
      <4>2. CASE q # r  BY <2>6, <3>3, <4>2
      <4> QED  BY <4>1, <4>2
    <3> QED  BY <1>3, <2>13, <3>1, <3>3, AgreeKept
  <2> QED
    BY <1>3, <2>8, <2>9, <2>10, <2>11, <2>13, <2>15, <2>16, <2>17, <2>18, WideInv
<1> QED  BY <1>2, <1>4, <1>5 DEF CloseRun

LEMMA ConcludeInv ==
  ASSUME IInv, NEW d \in Dispatchers, Conclude(d)
  PROVE  IInv'
<1>1. /\ p \in [Dispatchers -> Row] /\ p[d].pc = "conclude" /\ Fits("conclude", p[d].run, p[d].out)
  BY DEF IInv, Types, Placed, Conclude, At
<1>2. PICK r \in Runs : r = p[d].run
  BY <1>1 DEF Fits
<1>3. /\ p[d].out \in {"success", "failure"}
      /\ LedgerState[p[d].out] \in {"succeeded"} \cup Retryable
  BY <1>1 DEF Fits, LedgerState, Retryable
<1>4. UNCHANGED <<active, catalog, claim, due, kind, c>>  BY DEF Conclude, world, job
<1>5. Sleep(d) \/ (~Handoff /\ Goto(d, "persist"))  BY DEF Conclude, CutShort
<1>6. Onward(d) /\ p'[d].pc \in {"idle", "persist"}
  <2>1. CASE Sleep(d)
    <3>1. Puts(d, "idle", 0, "none")  BY <1>1, <2>1, SleepRow
    <3> QED  BY <2>1, <3>1, SleepOnward DEF Puts
  <2>2. CASE Goto(d, "persist")
    <3>1. Puts(d, "persist", p[d].run, p[d].out)  BY <1>1, <2>2, GotoRow DEF Pcs, Planning
    <3>2. Fits("persist", p[d].run, p[d].out)  BY <1>1 DEF Fits, Pcs, Planning
    <3>3. "persist" \notin Own \cup Finalizing \cup {"tail", "rewrite"}  BY DEF Own, Launching, Finalizing
    <3>4. Onward(d)  BY <3>1, <3>2, <3>3, KeptOnward
    <3> QED  BY <3>1, <3>4 DEF Puts
  <2> QED  BY <1>5, <2>1, <2>2
<1>7. \A e \in Dispatchers, q \in Runs : p'[e].run = q /\ p'[e].pc \in Own => Owns(e, q) /\ q # r
  <2>1. SUFFICES ASSUME NEW e \in Dispatchers, p'[e].run = r, p'[e].pc \in Own PROVE FALSE
    BY <1>6, OnwardOwns
  <2>2. e # d  BY <1>6, <2>1 DEF Own, Launching
  <2>3. Owns(e, r)  BY <1>6, <2>1, OnwardOwns
  <2>4. CASE Handoff
    <3>1. "conclude" \notin Own  BY <2>4 DEF Own, Launching
    <3> QED  BY <1>1, <1>2, <2>3, <2>4, <3>1, NobodyOwns
  <2>5. CASE ~Handoff
    <3>1. Owns(d, r)  BY <1>1, <1>2, <2>5 DEF Owns, Own
    <3> QED  BY <2>2, <2>3, <3>1 DEF IInv, OwnInv
  <2> QED  BY <2>4, <2>5
<1>8. attempt[r].state # "none"  BY <1>2, KnownRun
<1>9. Judged /\ attempt' \in [Runs -> Attempt] /\ logical' \in [Slots -> States]
  <2>1. CASE FinalizeRunAttempt(r, LedgerState[p[d].out])
    BY <1>3, <1>7, <1>8, <2>1, FinalizedJudged
  <2>2. CASE UNCHANGED ledger
    BY <1>7, <2>2, QuietJudged DEF ledger, IInv, Types
  <2> QED  BY <1>2, <2>1, <2>2 DEF Conclude, Locked
<1>10. CASE UNCHANGED hist
  <2>1. Types'  BY <1>4, <1>6, <1>9, <1>10, LedgerTypes DEF IInv, Onward, Puts
  <2>2. Rest  BY <1>4, <1>10 DEF Rest, Reclaimed
  <2> QED  BY <1>6, <1>9, <2>1, <2>2, StepInv
<1>11. CASE ~UNCHANGED hist
  <2>1. PICK out \in {"unstarted", "success", "failure"} :
           /\ AppendCompleted(r, out) /\ out = IF Handoff THEN "unstarted" ELSE p[d].out
    BY <1>2, <1>3, <1>11 DEF Conclude
  <2>2. out \in Outcomes  BY DEF Outcomes
  <2>3. ~Handoff => Observed(r) = {}
    BY <1>1, <1>2 DEF IInv, OwnInv, Owns, Own
  <2>4. /\ hist' \in [Runs -> Seq(Outcomes)]
        /\ \A q \in Runs \ {r} : hist'[q] = hist[q] /\ Observed(q)' = Observed(q)
        /\ \A i \in DOMAIN hist'[r] : hist'[r][i] = out \/ (i \in DOMAIN hist[r] /\ hist'[r][i] = hist[r][i])
        /\ Handoff => Observed(r)' = Observed(r)
        /\ ~Handoff => \A i, j \in Observed(r)' : i = j
    BY <2>1, <2>2, <2>3, Appended DEF IInv, Types
  <2>5. Handoff' <=> Handoff  BY <1>4 DEF Handoff
  <2>6. Types'  BY <1>4, <1>6, <1>9, <2>4 DEF IInv, Types, Onward, Puts
  <2>7. Placed'  BY <1>4, <1>6, OnwardPlaced
  <2>8. \A e \in Dispatchers, q \in Runs : Finalizes(e, q)' => Handoff /\ Finalizes(e, q)
    <3>1. \A e \in Dispatchers, q \in Runs : Finalizes(e, q) => Handoff
      BY DEF IInv, Placed, Fits, Finalizes, Finalizing
    <3> QED  BY <1>6, <3>1, OnwardFinalizes
  <2>9. \A q \in Runs : Handoff => Observed(q)' = Observed(q)  BY <2>4
  <2>10. CloseInv'
    <3>1. \A e \in Dispatchers, q \in Runs : Finalizes(e, q)' => claim'[q] = e /\ Observed(q)' = {}
      BY <1>4, <2>8, <2>9 DEF IInv, CloseInv
    <3>2. \A q \in Runs : Handoff /\ active' = q => Observed(q)' = {}
      BY <1>4, <2>9 DEF IInv, CloseInv
    <3>3. \A q \in Runs : Handoff /\ Observed(q)' # {} => claim'[q] \in Dispatchers
      BY <1>4, <2>9 DEF IInv, CloseInv
    <3>4. \A q \in Runs : ~Handoff => claim'[q] = None  BY <1>4 DEF IInv, CloseInv
    <3> QED  BY <2>5, <3>1, <3>2, <3>3, <3>4 DEF CloseInv
  <2>11. CancelInv'
    <3>1. \A q \in c.fenced : q \in Runs  BY DEF IInv, Types, Cancelling
    <3>2. \A q \in c.fenced :
            /\ Handoff /\ Observed(q)' = {} /\ \A e \in Dispatchers : ~Finalizes(e, q)'
            /\ active' = q => c.pc = "clear" /\ c.run = q /\ claim'[q] = "cancel"
      BY <1>4, <2>8, <2>9, <3>1 DEF IInv, CancelInv
    <3>3. ASSUME c.stale, NEW x, x = c.run
          PROVE  /\ Handoff /\ c.pc = "close" /\ Observed(x)' = {}
                 /\ \A e \in Dispatchers : ~Finalizes(e, x)'
      <4>1. x \in Runs  BY <3>3 DEF IInv, CancelInv, Placed
      <4> QED  BY <2>8, <2>9, <3>3, <4>1 DEF IInv, CancelInv
    <3>4. PICK x : x = c.run  OBVIOUS
    <3>5. c'.stale => /\ Handoff' /\ c'.pc = "close" /\ Observed(c.run)' = {}
                      /\ \A e \in Dispatchers : ~Finalizes(e, c.run)'
      BY <1>4, <2>5, <3>3, <3>4 DEF Observed, Finalizes
    <3> QED  BY <1>4, <2>5, <3>2, <3>5 DEF CancelInv
  <2>12. Unheard  BY <1>4, <1>6, <1>8, <2>4, OnwardUnheard
  <2>13. OwnKept
    <3>1. SUFFICES ASSUME NEW e \in Dispatchers, NEW q \in Runs, p'[e].run = q, p'[e].pc \in Own
                   PROVE  /\ Owns(e, q) /\ Observed(q)' = {}
                          /\ Handoff => /\ active' # q /\ c'.run # q /\ q \notin c'.fenced
                                        /\ \A f \in Dispatchers : p'[f].run = q => f = e
      BY DEF OwnKept
    <3>2. Owns(e, q) /\ q # r  BY <1>7, <3>1
    <3>3. /\ Observed(q) = {}
          /\ Handoff => /\ active # q /\ c.run # q /\ q \notin c.fenced
                        /\ \A f \in Dispatchers : p[f].run = q => f = e
      BY <3>2 DEF IInv, OwnInv
    <3>4. Handoff => \A f \in Dispatchers : p'[f].run = q => p[f].run = q
      BY <1>6, <3>3, Ids DEF Onward, Puts
    <3> QED  BY <1>4, <2>4, <3>2, <3>3, <3>4
  <2>14. OneCompletion'
    <3>1. \A i, j \in Observed(r)' : i = j  BY <2>4 DEF IInv, OneCompletion
    <3> QED  BY <2>4, <3>1 DEF IInv, OneCompletion
  <2>15. AgreeInv'
    <3>1. \A e \in Dispatchers : p'[e].pc = "close" =>
             p[e].pc = "close" /\ p'[e].run = p[e].run /\ p'[e].out = p[e].out
      BY <1>6 DEF Onward, Puts
    <3>2. ASSUME NEW q \in Runs, NEW i \in DOMAIN hist'[q], Handoff, hist'[q][i] = "success"
          PROVE  (i \in DOMAIN hist[q] /\ hist[q][i] = "success") \/ attempt[q].state = "succeeded"
      <4>1. CASE q = r  BY <2>1, <2>4, <3>2, <4>1
      <4>2. CASE q # r  BY <2>4, <3>2, <4>2
      <4> QED  BY <4>1, <4>2
    <3> QED  BY <1>4, <1>9, <3>1, <3>2, AgreeKept
  <2> QED
    BY <1>4, <1>9, <2>6, <2>7, <2>10, <2>11, <2>12, <2>13, <2>14, <2>15, WideInv
<1> QED  BY <1>10, <1>11

(* Steps that are no dispatcher's.                                           *)
LEMMA AsideInv ==
  ASSUME IInv, Types', CancelInv', Judged, UNCHANGED <<p, kind>>, active' \in {active, 0},
         c'.run \in {c.run, active, 0}, c'.pc # "idle" => c'.run \in Runs,
         \A r \in c'.fenced : r \in c.fenced \/ r = c.run,
         \A r \in Runs : Observed(r)' = Observed(r),
         \A r \in Runs : hist'[r] = hist[r] \/ (r = c.run /\ \A i \in DOMAIN hist'[r] :
            hist'[r][i] = "success" => i \in DOMAIN hist[r] /\ hist[r][i] = "success"),
         \A r \in Runs : claim'[r] = claim[r]
            \/ (Handoff /\ Observed(r) = {} /\ \A e \in Dispatchers : ~Finalizes(e, r))
  PROVE  IInv'
<1>1. (Handoff' <=> Handoff) /\ 0 \notin Runs  BY Ids DEF Handoff
<1>2. Placed'  BY <1>1 DEF IInv, Placed, Fits
<1>3. CloseInv'
  <2>1. \A e \in Dispatchers, r \in Runs : Finalizes(e, r)' <=> Finalizes(e, r)
    BY DEF Finalizes
  <2>2. \A e \in Dispatchers, r \in Runs : Finalizes(e, r)' => claim'[r] = e /\ Observed(r)' = {}
    BY <2>1 DEF IInv, CloseInv
  <2>3. \A r \in Runs : Handoff /\ active' = r => Observed(r)' = {}
    BY <1>1 DEF IInv, CloseInv
  <2>4. \A r \in Runs : Handoff /\ Observed(r)' # {} => claim'[r] \in Dispatchers
    BY DEF IInv, CloseInv
  <2>5. \A r \in Runs : ~Handoff => claim'[r] = None  BY DEF IInv, CloseInv
  <2> QED  BY <1>1, <2>2, <2>3, <2>4, <2>5 DEF CloseInv
<1>4. Unheard  BY <1>1 DEF Unheard, IInv, Fresh
<1>5. OwnKept  BY <1>1 DEF OwnKept, Owns, IInv, OwnInv
<1>6. OneCompletion'  BY DEF IInv, OneCompletion
<1>7. AgreeInv'
  <2>1. \A e \in Dispatchers : p'[e].pc = "close" =>
           p[e].pc = "close" /\ p'[e].run = p[e].run /\ p'[e].out = p[e].out
    OBVIOUS
  <2> QED  BY <2>1, AgreeKept
<1> QED  BY <1>2, <1>3, <1>4, <1>5, <1>6, <1>7, WideInv

(* Of what the invariant speaks of, nothing changes.                         *)
LEMMA StutterInv ==
  ASSUME IInv, due' \in Slots, UNCHANGED <<attempt, logical, active, hist, catalog, claim, p, c, kind>>
  PROVE  IInv'
<1>1. \A r : Observed(r)' = Observed(r)  BY ObservedSame
<1>2. Types'  BY DEF IInv, Types
<1>3. \A e \in Dispatchers : \A r : Finalizes(e, r)' <=> Finalizes(e, r)  BY DEF Finalizes
<1>4. CancelInv'  BY DEF IInv, CancelInv, Finalizes, Observed, Handoff
<1>5. Judged  BY QuietJudged DEF Owns
<1>6. c'.run = c.run /\ c'.fenced = c.fenced /\ (c'.pc # "idle" => c'.run \in Runs)
  BY DEF IInv, Placed
<1> QED  BY <1>1, <1>2, <1>4, <1>5, <1>6, AsideInv

LEMMA OutsideInv ==
  ASSUME IInv, Outside
  PROVE  IInv'
<1>1. CASE \E r \in Runs : CommandExits(r)
  BY <1>1, StutterInv DEF CommandExits, ledger, stores, job, IInv, Types
<1>2. CASE SlotComesDue
  <2>1. due' \in Slots  BY <1>2, LedgerConstants DEF SlotComesDue, IInv, Types, Slots
  <2> QED  BY <1>2, <2>1, StutterInv DEF SlotComesDue, ledger, stores, job
<1>3. CASE RepairIndex
  BY <1>3, StutterInv DEF RepairIndex, RepairDueProjection, stores, world, job, IInv, Types
<1> QED  BY <1>1, <1>2, <1>3 DEF Outside

(* Nobody reported the active run, and no live holder of its claim closes it.  *)
LEMMA CancelJobInv ==
  ASSUME IInv, CancelJob
  PROVE  IInv'
<1>1. /\ c \in Cancelling /\ c.pc = "idle" /\ active \in Runs
      /\ UNCHANGED <<attempt, logical, active, hist, catalog, claim, due, kind, p>>
  BY DEF CancelJob, IInv, Types, ledger, stores, job
<1>2. /\ c' \in Cancelling /\ c'.pc = "close" /\ c'.run = active /\ c'.fenced = c.fenced
      /\ c'.stale => HolderDead(active)
  <2>1. PICK x \in BOOLEAN : x = HolderDead(active)  BY DEF HolderDead
  <2>2. PICK a : a = [c EXCEPT !.pc = "close"]  OBVIOUS
  <2>3. PICK b : b = [a EXCEPT !.run = active]  OBVIOUS
  <2>4. a \in Cancelling /\ a.pc = "close" /\ a.fenced = c.fenced  BY <1>1, <2>2 DEF Cancelling
  <2>5. b \in Cancelling /\ b.pc = "close" /\ b.run = active /\ b.fenced = c.fenced
    BY <1>1, <2>3, <2>4 DEF Cancelling
  <2>6. c' = [b EXCEPT !.stale = x]  BY <2>1, <2>2, <2>3 DEF CancelJob
  <2> QED  BY <2>1, <2>5, <2>6 DEF Cancelling
<1>3. \A r : Observed(r)' = Observed(r)  BY <1>1, ObservedSame
<1>4. Types'  BY <1>1, <1>2 DEF IInv, Types
<1>5. Judged  BY <1>1, QuietJudged DEF Owns
<1>6. c'.stale => Handoff /\ Observed(active) = {} /\ \A e \in Dispatchers : ~Finalizes(e, active)
  <2>1. SUFFICES ASSUME HolderDead(active)
                 PROVE  Handoff /\ Observed(active) = {} /\ \A e \in Dispatchers : ~Finalizes(e, active)
    BY <1>2
  <2>2. claim[active] # None  BY <2>1, DispatchConstants DEF HolderDead
  <2>3. Handoff  BY <1>1, <2>2 DEF IInv, CloseInv
  <2>4. Observed(active) = {}  BY <1>1, <2>3 DEF IInv, CloseInv
  <2>5. \A e \in Dispatchers : Finalizes(e, active) => claim[active] = e
    BY <1>1 DEF IInv, CloseInv
  <2>6. \A e \in Dispatchers : ~Finalizes(e, active)
    BY <2>1, <2>5, DispatchConstants DEF HolderDead, Finalizes
  <2> QED  BY <2>3, <2>4, <2>6
<1>7. CancelInv'
  <2>1. \A r \in c.fenced : r \in Runs  BY DEF IInv, Types, Cancelling
  <2>2. \A r \in c.fenced :
          /\ Handoff /\ Observed(r)' = {} /\ \A e \in Dispatchers : ~Finalizes(e, r)
          /\ active' # r
    BY <1>1, <1>3, <2>1 DEF IInv, CancelInv
  <2> QED  BY <1>1, <1>2, <1>6, <2>2 DEF CancelInv, Finalizes, Observed, Handoff
<1> QED  BY <1>1, <1>2, <1>3, <1>4, <1>5, <1>7, AsideInv

LEMMA CancelDiesInv ==
  ASSUME IInv, CancelDies
  PROVE  IInv'
<1>1. /\ c \in Cancelling
      /\ UNCHANGED <<attempt, logical, active, hist, catalog, claim, due, kind, p>>
  BY DEF CancelDies, IInv, Types, ledger, stores, world, job
<1>2. /\ c' \in Cancelling /\ c'.pc = "idle" /\ c'.run = 0 /\ c'.fenced = c.fenced \ {c.run} /\ ~c'.stale
  <2>1. PICK a : a = [c EXCEPT !.pc = "idle"]  OBVIOUS
  <2>2. PICK b : b = [a EXCEPT !.run = 0]  OBVIOUS
  <2>3. PICK e : e = [b EXCEPT !.stale = FALSE]  OBVIOUS
  <2>4. a \in Cancelling /\ a.pc = "idle" /\ a.fenced = c.fenced  BY <1>1, <2>1 DEF Cancelling
  <2>5. b \in Cancelling /\ b.pc = "idle" /\ b.run = 0 /\ b.fenced = c.fenced
    BY <2>2, <2>4 DEF Cancelling
  <2>6. e \in Cancelling /\ e.pc = "idle" /\ e.run = 0 /\ e.fenced = c.fenced /\ ~e.stale
    BY <2>3, <2>5 DEF Cancelling
  <2>7. c' = [e EXCEPT !.fenced = c.fenced \ {c.run}]  BY <2>1, <2>2, <2>3 DEF CancelDies
  <2>8. c.fenced \ {c.run} \in SUBSET Runs  BY <1>1 DEF Cancelling
  <2> QED  BY <2>6, <2>7, <2>8 DEF Cancelling
<1>3. \A r : Observed(r)' = Observed(r)  BY <1>1, ObservedSame
<1>4. Types'  BY <1>1, <1>2 DEF IInv, Types
<1>5. Judged  BY <1>1, QuietJudged DEF Owns
<1>6. CancelInv'
  <2>1. \A r \in c.fenced : r \in Runs  BY <1>1 DEF Cancelling
  <2>2. \A r \in c.fenced \ {c.run} :
          /\ Handoff /\ Observed(r)' = {} /\ \A e \in Dispatchers : ~Finalizes(e, r)
          /\ active' # r
    BY <1>1, <1>3, <2>1 DEF IInv, CancelInv
  <2> QED  BY <1>1, <1>2, <2>2 DEF CancelInv, Finalizes, Observed, Handoff
<1> QED  BY <1>1, <1>2, <1>3, <1>4, <1>5, <1>6, AsideInv

LEMMA RecordCancelledInv ==
  ASSUME IInv, RecordCancelled
  PROVE  IInv'
<1>1. /\ c \in Cancelling /\ c.pc = "clear" /\ c.run \in Runs /\ active' = 0
      /\ UNCHANGED <<attempt, logical, catalog, claim, due, kind, p>>
  BY DEF RecordCancelled, IInv, Types, Placed, ledger, world, job
<1>2. /\ c' \in Cancelling /\ c'.pc = "idle" /\ c'.run = 0 /\ c'.fenced = c.fenced /\ c'.stale = c.stale
  <2>1. PICK a : a = [c EXCEPT !.pc = "idle"]  OBVIOUS
  <2>2. a \in Cancelling /\ a.pc = "idle" /\ a.fenced = c.fenced /\ a.stale = c.stale
    BY <1>1, <2>1 DEF Cancelling
  <2>3. c' = [a EXCEPT !.run = 0]  BY <2>1 DEF RecordCancelled
  <2> QED  BY <2>2, <2>3 DEF Cancelling
<1>3. PICK r \in Runs : r = c.run  BY <1>1
<1>4. /\ hist' \in [Runs -> Seq(Outcomes)]
      /\ \A q \in Runs \ {r} : hist'[q] = hist[q] /\ Observed(q)' = Observed(q)
      /\ \A i \in DOMAIN hist'[r] : hist'[r][i] = "cancelled" \/ (i \in DOMAIN hist[r] /\ hist'[r][i] = hist[r][i])
      /\ Observed(r)' = Observed(r)
  <2>1. "cancelled" \in Outcomes /\ AppendCompleted(r, "cancelled")
    BY <1>3 DEF Outcomes, RecordCancelled
  <2> QED  BY <2>1, Appended DEF IInv, Types
<1>5. \A q \in Runs : Observed(q)' = Observed(q)  BY <1>4
<1>6. Types'  BY <1>1, <1>2, <1>4 DEF IInv, Types
<1>7. Judged  BY <1>1, QuietJudged DEF Owns
<1>8. CancelInv'
  <2>1. \A q \in c.fenced : q \in Runs  BY <1>1 DEF Cancelling
  <2>2. \A q \in c.fenced :
          /\ Handoff /\ Observed(q)' = {} /\ \A e \in Dispatchers : ~Finalizes(e, q)
          /\ active' # q
    BY <1>1, <1>5, <2>1, Ids DEF IInv, CancelInv
  <2>3. ~c.stale  BY <1>1 DEF IInv, CancelInv
  <2> QED  BY <1>1, <1>2, <2>2, <2>3 DEF CancelInv, Finalizes, Handoff
<1>9. \A q \in Runs : hist'[q] = hist[q] \/ (q = c.run /\ \A i \in DOMAIN hist'[q] :
         hist'[q][i] = "success" => i \in DOMAIN hist[q] /\ hist[q][i] = "success")
  BY <1>3, <1>4
<1> QED  BY <1>1, <1>2, <1>5, <1>6, <1>7, <1>8, <1>9, AsideInv

(* An unclaimed run, or one whose claim was stale, is nobody's to report.      *)
LEMMA CloseCancelledInv ==
  ASSUME IInv, CloseCancelled
  PROVE  IInv'
<1>1. /\ c \in Cancelling /\ c.pc = "close" /\ c.run \in Runs
      /\ UNCHANGED <<active, hist, catalog, due, kind, p>>
  BY DEF CloseCancelled, IInv, Types, Placed, stores, job
<1>2. PICK r \in Runs : r = c.run  BY <1>1
<1>3. PICK fenced \in SUBSET Runs :
        fenced = IF Handoff /\ Unclaimed(c.run) THEN c.fenced \cup {c.run} ELSE c.fenced
  BY <1>1 DEF Cancelling
<1>4. /\ c' \in Cancelling /\ c'.pc = "clear" /\ c'.run = r /\ c'.fenced = fenced /\ ~c'.stale
  <2>1. PICK a : a = [c EXCEPT !.pc = "clear"]  OBVIOUS
  <2>2. PICK b : b = [a EXCEPT !.stale = FALSE]  OBVIOUS
  <2>3. a \in Cancelling /\ a.pc = "clear" /\ a.run = r  BY <1>1, <1>2, <2>1 DEF Cancelling
  <2>4. b \in Cancelling /\ b.pc = "clear" /\ b.run = r /\ ~b.stale  BY <2>2, <2>3 DEF Cancelling
  <2>5. c' = [b EXCEPT !.fenced = fenced]  BY <1>3, <2>1, <2>2 DEF CloseCancelled
  <2> QED  BY <1>3, <2>4, <2>5 DEF Cancelling
<1>5. \A q : Observed(q)' = Observed(q)  BY <1>1, ObservedSame
<1>6. \A e \in Dispatchers, q \in Runs : p'[e].run = q /\ p'[e].pc \in Own => Owns(e, q)
  BY <1>1 DEF Owns
<1>7. attempt[r].state # "none"  BY <1>2 DEF IInv, Fresh
<1>8. Judged /\ attempt' \in [Runs -> Attempt] /\ logical' \in [Slots -> States]
  <2>1. CASE UNCHANGED ledger
    BY <1>6, <2>1, QuietJudged DEF ledger, IInv, Types
  <2>2. CASE Handoff /\ FinalizeRunAttempt(r, "interrupted")
    <3>1. \A e \in Dispatchers : ~Owns(e, r)  BY <1>2, <2>2 DEF IInv, OwnInv
    <3>2. "interrupted" \in {"succeeded"} \cup Retryable  BY DEF Retryable
    <3>3. \A e \in Dispatchers : ~(p'[e].run = r /\ p'[e].pc \in Own)  BY <1>6, <3>1
    <3> QED  BY <1>6, <1>7, <2>2, <3>2, <3>3, FinalizedJudged
  <2> QED  BY <1>2, <2>1, <2>2 DEF CloseCancelled, Locked
<1>9. Handoff /\ Unclaimed(r) => Observed(r) = {} /\ \A e \in Dispatchers : ~Finalizes(e, r)
  <2>1. CASE c.stale  BY <1>2, <2>1 DEF IInv, CancelInv
  <2>2. CASE claim[r] = None
    BY <2>2, DispatchConstants DEF IInv, CloseInv
  <2> QED  BY <1>2, <2>1, <2>2 DEF Unclaimed
<1>10. /\ claim' \in [Runs -> Dispatchers \cup {None, "cancel"}]
       /\ \A q \in Runs : claim'[q] = IF q = r /\ Handoff /\ Unclaimed(r) THEN "cancel" ELSE claim[q]
  BY <1>1, <1>2 DEF CloseCancelled, ClaimForCancel, IInv, Types
<1>11. Types'  BY <1>1, <1>4, <1>8, <1>10 DEF IInv, Types
<1>12. CancelInv'
  <2>1. ASSUME NEW q \in fenced
        PROVE  /\ Handoff /\ Observed(q)' = {} /\ \A e \in Dispatchers : ~Finalizes(e, q)
               /\ active = q => q = r /\ claim'[q] = "cancel"
    <3>1. CASE q \in c.fenced
      <4>1. q \in Runs  BY <3>1, <1>1 DEF Cancelling
      <4>2. /\ Handoff /\ Observed(q) = {} /\ \A e \in Dispatchers : ~Finalizes(e, q)
            /\ active # q
        BY <1>1, <3>1 DEF IInv, CancelInv
      <4> QED  BY <1>5, <4>2
    <3>2. CASE q \notin c.fenced
      <4>1. Handoff /\ Unclaimed(r) /\ q = r  BY <1>2, <1>3, <3>2
      <4> QED  BY <1>5, <1>9, <1>10, <4>1
    <3> QED  BY <3>1, <3>2
  <2> QED  BY <1>1, <1>4, <2>1 DEF CancelInv, Finalizes, Handoff
<1>13. \A q \in c'.fenced : q \in c.fenced \/ q = c.run  BY <1>3, <1>4
<1>14. \A q \in Runs : claim'[q] = claim[q]
          \/ (Handoff /\ Observed(q) = {} /\ \A e \in Dispatchers : ~Finalizes(e, q))
  BY <1>9, <1>10
<1>15. c'.run \in {c.run, active, 0} /\ (c'.pc # "idle" => c'.run \in Runs)  BY <1>2, <1>4
<1> QED  BY <1>1, <1>5, <1>8, <1>11, <1>12, <1>13, <1>14, <1>15, AsideInv

-----------------------------------------------------------------------------
(* The evaluation, and the launch of a slot.                                 *)

LEMMA LaunchSlotInv ==
  ASSUME IInv, NEW d \in Dispatchers, NEW first, NEW k \in Slots, LaunchSlot(d, first, k),
         p[d].pc \in {"reap", "evaluate"}, active = 0,
         UNCHANGED <<active, hist, catalog, claim, due, kind, c>>
  PROVE  IInv'
<1>1. PICK r \in Runs, next \in Nat :
        /\ attempt[r].state = "none"
        /\ attempt' = [attempt EXCEPT ![r] = [slot |-> k, state |-> "claimed", pending |-> FALSE]]
        /\ logical' = [logical EXCEPT ![k] = "claimed"]
        /\ Planned(d, r, next)
  <2>1. due + 1 \in Nat  BY SlotsNat DEF IInv, Types
  <2> QED  BY <2>1 DEF LaunchSlot, NewRuns, ClaimLogicalRun
<1>2. /\ attempt \in [Runs -> Attempt] /\ logical \in [Slots -> States] /\ p \in [Dispatchers -> Row]
      /\ catalog \in Nat /\ 0 \notin Runs /\ 0 \notin Slots
  BY Ids DEF IInv, Types
<1>3. /\ attempt' \in [Runs -> Attempt] /\ attempt'[r].slot = k /\ attempt'[r].state = "claimed"
      /\ \A q \in Runs \ {r} : attempt'[q] = attempt[q]
  <2>1. [slot |-> k, state |-> "claimed", pending |-> FALSE] \in Attempt
    BY DEF Attempt, States, Live
  <2> QED  BY <1>1, <1>2, <2>1
<1>4. /\ logical' \in [Slots -> States] /\ logical'[k] # "none"
      /\ \A s \in Slots : logical[s] # "none" => logical'[s] # "none"
  BY <1>1, <1>2 DEF States, Live
<1>5. /\ active # r /\ c.run # r /\ hist[r] = <<>> /\ r \notin c.fenced /\ attempt[r].slot = 0
      /\ \A e \in Dispatchers : p[e].run # r
  BY <1>1 DEF IInv, Fresh
<1>6. PICK pc \in {"evidence", "tail"} :
        Puts(d, pc, r, "none") /\ (pc = "tail" => p'[d].next # 0)
  BY <1>1, <1>2, PlannedRow
<1>7. /\ p' \in [Dispatchers -> Row] /\ p'[d].pc = pc /\ p'[d].run = r /\ p'[d].out = "none"
      /\ \A e \in Dispatchers \ {d} :
            p'[e].pc = p[e].pc /\ p'[e].run = p[e].run /\ p'[e].out = p[e].out /\ p'[e].next = p[e].next
  BY <1>6 DEF Puts
<1>8. Types'  BY <1>3, <1>4, <1>7 DEF IInv, Types
<1>9. /\ (Handoff' <=> Handoff) /\ Own' = Own /\ pc \in Own /\ pc \notin Finalizing /\ pc # "close"
  BY DEF Handoff, Own, Launching, Finalizing
<1>10. \A q : Observed(q)' = Observed(q)  BY ObservedSame
<1>11. Observed(r) = {}  BY <1>5 DEF Observed
<1>12. \A e \in Dispatchers, q \in Runs : Finalizes(e, q)' => Finalizes(e, q)
  BY <1>7, <1>9 DEF Finalizes
<1>13. Placed'
  <2>1. Fits(pc, r, "none")  BY DEF Fits, Pcs, Leased, Planning
  <2> QED  BY <1>6, <1>7, <1>9, <2>1 DEF IInv, Placed, Fits
<1>14. Fresh'
  <2>1. ASSUME NEW q \in Runs, attempt'[q].state = "none"
        PROVE  /\ active' # q /\ c'.run # q /\ hist'[q] = <<>> /\ q \notin c'.fenced
               /\ attempt'[q].slot = 0 /\ \A e \in Dispatchers : p'[e].run # q
    <3>1. q # r /\ attempt[q].state = "none" /\ attempt'[q] = attempt[q]  BY <1>3, <2>1
    <3> QED  BY <1>7, <3>1 DEF IInv, Fresh
  <2>2. ASSUME NEW q \in Runs, attempt'[q].slot # 0
        PROVE  logical'[attempt'[q].slot] # "none"
    <3>1. CASE q = r  BY <1>3, <1>4, <3>1
    <3>2. CASE q # r
      <4>1. attempt'[q] = attempt[q] /\ attempt[q].slot \in Slots
        BY <1>2, <1>3, <2>2, <3>2 DEF Attempt
      <4> QED  BY <1>2, <1>4, <2>2, <4>1 DEF IInv, Fresh
    <3> QED  BY <3>1, <3>2
  <2> QED  BY <2>1, <2>2 DEF Fresh
<1>15. OwnInv'
  <2>1. SUFFICES ASSUME NEW e \in Dispatchers, NEW q \in Runs, p'[e].run = q, p'[e].pc \in Own
                 PROVE  /\ Observed(q) = {} /\ attempt'[q].state # "succeeded"
                        /\ \A f \in Dispatchers : p'[f].run = q /\ p'[f].pc \in Own => f = e
                        /\ Handoff =>
                             /\ active # q /\ c.run # q /\ attempt'[q].state \in Live
                             /\ q \notin c.fenced
                             /\ \A f \in Dispatchers : p'[f].run = q => f = e
    BY <1>9, <1>10 DEF OwnInv, Owns
  <2>2. CASE e = d
    <3>1. q = r /\ \A f \in Dispatchers : p'[f].run = q => f = e  BY <1>5, <1>7, <2>1, <2>2
    <3> QED  BY <1>3, <1>5, <1>11, <3>1 DEF Live
  <2>3. CASE e # d
    <3>1. Owns(e, q) /\ q # r  BY <1>5, <1>7, <2>1, <2>3 DEF Owns
    <3>2. \A f \in Dispatchers : p'[f].run = q => p[f].run = q /\ p'[f].pc = p[f].pc
      BY <1>7, <3>1
    <3> QED  BY <1>3, <3>1, <3>2 DEF IInv, OwnInv, Owns
  <2> QED  BY <2>2, <2>3
<1>16. CloseInv'  BY <1>9, <1>10, <1>12 DEF IInv, CloseInv
<1>17. CancelInv'
  <2>1. \A q \in c.fenced : q \in Runs  BY DEF IInv, Types, Cancelling
  <2>2. \A q \in c.fenced :
          /\ Handoff /\ Observed(q)' = {} /\ \A e \in Dispatchers : ~Finalizes(e, q)'
          /\ active # q
    BY <1>2, <1>10, <1>12, <2>1 DEF IInv, CancelInv
  <2>3. ASSUME c.stale, NEW x, x = c.run
        PROVE  Handoff /\ c.pc = "close" /\ Observed(x)' = {} /\ \A e \in Dispatchers : ~Finalizes(e, x)'
    <3>1. x \in Runs  BY <2>3 DEF IInv, CancelInv, Placed
    <3> QED  BY <1>10, <1>12, <2>3, <3>1 DEF IInv, CancelInv
  <2>4. PICK x : x = c.run  OBVIOUS
  <2>5. c'.stale => /\ Handoff' /\ c'.pc = "close" /\ Observed(c.run)' = {}
                    /\ \A e \in Dispatchers : ~Finalizes(e, c.run)'
    BY <1>9, <2>3, <2>4 DEF Observed, Finalizes
  <2> QED  BY <1>9, <2>2, <2>5 DEF CancelInv
<1>18. OneCompletion'  BY <1>10 DEF IInv, OneCompletion
<1>19. AgreeInv'
  <2>1. LedgerAgrees'
    <3>1. SUFFICES ASSUME Handoff, NEW q \in Runs, NEW i \in DOMAIN hist[q], hist[q][i] = "success"
                   PROVE  attempt'[q].state = "succeeded"
      BY <1>9 DEF LedgerAgrees
    <3>2. q # r  BY <1>5, <3>1
    <3> QED  BY <1>3, <3>1, <3>2 DEF IInv, AgreeInv, LedgerAgrees
  <2>2. ASSUME NEW e \in Dispatchers, p'[e].pc = "close" /\ p'[e].out = "success"
        PROVE  attempt'[p'[e].run].state = "succeeded"
    <3>1. /\ e # d /\ p[e].pc = "close" /\ p[e].out = "success" /\ p'[e].run = p[e].run
      BY <1>7, <1>9, <2>2
    <3>2. p[e].run \in Runs /\ attempt[p[e].run].state = "succeeded"
      BY <3>1 DEF IInv, AgreeInv, Placed, Fits
    <3> QED  BY <1>3, <1>5, <3>1, <3>2
  <2> QED  BY <2>1, <2>2 DEF AgreeInv
<1>20. OneLiveAttempt'
  <2>1. \A q \in Runs : attempt[q].slot = k => attempt[q].state \notin Live
    <3>1. CASE logical[k] = "none"  BY <1>2, <3>1 DEF IInv, Fresh
    <3>2. CASE MayRecover(k)  BY <3>2 DEF MayRecover, StatesOf, AttemptsOf
    <3> QED  BY <3>1, <3>2 DEF LaunchSlot, Claimable
  <2>2. SUFFICES ASSUME Handoff, NEW s \in Slots, NEW q \in Runs, NEW t \in Runs,
                        attempt'[q].slot = s, attempt'[t].slot = s,
                        attempt'[q].state \in Live, attempt'[t].state \in Live
                 PROVE  q = t
    BY <1>9 DEF OneLiveAttempt, AttemptsOf
  <2>3. CASE s = k
    <3>1. \A x \in Runs \ {r} : ~(attempt'[x].slot = k /\ attempt'[x].state \in Live)
      BY <1>3, <2>1
    <3> QED  BY <2>2, <2>3, <3>1
  <2>4. CASE s # k
    <3>1. q # r /\ t # r  BY <1>3, <2>2, <2>4
    <3>2. attempt'[q] = attempt[q] /\ attempt'[t] = attempt[t]  BY <1>3, <3>1
    <3> QED  BY <2>2, <3>2 DEF IInv, OneLiveAttempt, AttemptsOf
  <2> QED  BY <2>3, <2>4
<1> QED
  BY <1>8, <1>13, <1>14, <1>15, <1>16, <1>17, <1>18, <1>19, <1>20 DEF IInv

LEMMA EvaluateInv ==
  ASSUME IInv, NEW d \in Dispatchers, Evaluate(d)
  PROVE  IInv'
<1>1. /\ p[d].pc \in {"reap", "evaluate"}
      /\ UNCHANGED <<active, hist, catalog, claim, due, kind, c>>
  BY DEF Evaluate, At, job
<1>2. active \in Runs \cup {0} /\ catalog \in Nat \ {0} /\ due \in Slots /\ due + 1 \in Nat
  BY SlotsNat DEF IInv, Types
<1>3. ASSUME Onward(d), UNCHANGED ledger  PROVE IInv'
  BY <1>1, <1>2, <1>3, QuietStep DEF ledger
<1>4. CASE Planned(d, 0, 0) /\ UNCHANGED ledger  BY <1>3, <1>4, PlannedOnward
<1>5. CASE Misfire(d)
  BY <1>2, <1>3, <1>5, PlannedOnward DEF Misfire
<1>6. ASSUME active = 0, NEW first \in {due, catalog}, NEW k \in first..due,
             LaunchSlot(d, first, k) \/ PassSlots(d, first, k) \/ DeferSlot(d, first, k)
      PROVE  IInv'
  <2>1. k \in Slots /\ k \in Nat /\ k + 1 \in Nat  BY <1>2, <1>6, LedgerConstants DEF Slots
  <2>2. CASE LaunchSlot(d, first, k)  BY <1>1, <1>6, <2>1, <2>2, LaunchSlotInv
  <2>3. CASE PassSlots(d, first, k)
    BY <1>3, <2>1, <2>3, PlannedOnward DEF PassSlots
  <2>4. CASE DeferSlot(d, first, k)
    <3>1. PICK next \in Nat : Planned(d, 0, next)  BY <2>1, <2>4 DEF DeferSlot
    <3>2. UNCHANGED ledger  BY <2>4 DEF DeferSlot, Locked
    <3> QED  BY <1>3, <3>1, <3>2, PlannedOnward
  <2> QED  BY <1>6, <2>2, <2>3, <2>4
<1>7. CASE InFlight \/ catalog > due  BY <1>4, <1>7 DEF Evaluate
<1>8. CASE ~(InFlight \/ catalog > due)
  <2>1. active = 0  BY <1>8 DEF InFlight
  <2>2. PICK first \in {due, catalog} : first = IF policy = "latest_only" THEN due ELSE catalog
    OBVIOUS
  <2>3. Misfire(d) \/ \E k \in first..due :
           LaunchSlot(d, first, k) \/ PassSlots(d, first, k) \/ DeferSlot(d, first, k)
    BY <1>8, <2>2 DEF Evaluate
  <2> QED  BY <1>5, <1>6, <2>1, <2>2, <2>3
<1> QED  BY <1>7, <1>8

-----------------------------------------------------------------------------
(* The invariant is inductive.                                               *)

LEMMA InitInv ==
  Init => IInv
<1> SUFFICES ASSUME Init PROVE IInv
  OBVIOUS
<1>1. /\ attempt = [r \in Runs |-> [slot |-> 0, state |-> "none", pending |-> FALSE]]
      /\ logical = [s \in Slots |-> "none"]
      /\ kind \in {"handoff", "waited"} /\ due = 1 /\ catalog = 1 /\ active = 0
      /\ hist = [r \in Runs |-> <<>>] /\ claim = [r \in Runs |-> None]
      /\ p = [d \in Dispatchers |-> Asleep]
      /\ c = [pc |-> "idle", run |-> 0, stale |-> FALSE, fenced |-> {}]
      /\ 0 \notin Runs /\ 0 \notin Slots
  BY Ids DEF Init, LedgerInit
<1>2. \A r \in Runs : Observed(r) = {}  BY <1>1 DEF Observed
<1>3. \A d \in Dispatchers : p[d] \in Row /\ p[d].pc = "idle" /\ p[d].run = 0 /\ p[d].out = "none"
  BY <1>1, AsleepRow
<1>4. Types
  <2>1. attempt \in [Runs -> Attempt] /\ logical \in [Slots -> States]
    BY <1>1 DEF Attempt, States
  <2>2. due \in Slots  BY <1>1, LedgerConstants DEF Slots
  <2>3. c \in Cancelling  BY <1>1 DEF Cancelling
  <2>4. <<>> \in Seq(Outcomes)  OBVIOUS
  <2>5. p \in [Dispatchers -> Row]  BY <1>1, AsleepRow
  <2> QED  BY <1>1, <2>1, <2>2, <2>3, <2>4, <2>5 DEF Types
<1>5. "idle" \notin Own \cup Finalizing  BY DEF Own, Launching, Finalizing
<1>6. Placed  BY <1>1, <1>3 DEF Placed, Fits, Pcs
<1>7. Fresh  BY <1>1, <1>3 DEF Fresh
<1>8. OwnInv  BY <1>3, <1>5 DEF OwnInv, Owns
<1>9. CloseInv  BY <1>1, <1>2, <1>3, <1>5 DEF CloseInv, Finalizes
<1>10. CancelInv  BY <1>1 DEF CancelInv
<1>11. OneCompletion  BY <1>2 DEF OneCompletion
<1>12. AgreeInv  BY <1>1, <1>3 DEF AgreeInv, LedgerAgrees
<1>13. OneLiveAttempt
  <2>1. \A r \in Runs : attempt[r].state \notin Live  BY <1>1 DEF Live
  <2> QED  BY <2>1 DEF OneLiveAttempt, AttemptsOf
<1> QED
  BY <1>4, <1>6, <1>7, <1>8, <1>9, <1>10, <1>11, <1>12, <1>13 DEF IInv

LEMMA NextInv ==
  IInv /\ [Next]_vars => IInv'
<1> SUFFICES ASSUME IInv, [Next]_vars PROVE IInv'
  OBVIOUS
<1>1. CASE UNCHANGED vars
  BY <1>1, StutterInv DEF vars, ledger, stores, world, job, IInv, Types
<1>2. ASSUME NEW d \in Dispatchers, DispatchDue(d) \/ DispatchOther(d)  PROVE IInv'
  BY <1>2, StartInv
<1>3. ASSUME NEW d \in Dispatchers, Work(d)  PROVE IInv'
  <2>1. CASE Reconcile(d)  BY <2>1, ReconcileInv
  <2>2. CASE Reap(d)  BY <2>2, ReapInv
  <2>3. CASE Finalize(d)
    BY <2>3, ClaimExitInv, FinalizeLedgerInv, CloseRunInv, OrphanRunInv DEF Finalize
  <2>4. CASE Evaluate(d)  BY <2>4, EvaluateInv
  <2>5. CASE EndTick(d)  BY <2>5, EndTickInv
  <2>7. CASE EndIdleTick(d)  BY <2>7, EndIdleTickInv
  <2>6. CASE Follow(d)
    BY <2>6, RecordEvidenceInv, SetActiveInv, EndedInv, RetryInv, ConcludeInv, PersistScheduleInv, WatchInv
    DEF Follow
  <2> QED  BY <1>3, <2>1, <2>2, <2>3, <2>4, <2>5, <2>6, <2>7 DEF Work
<1>4. ASSUME NEW d \in Dispatchers, Crash(d)  PROVE IInv'
  BY <1>4, CrashInv
<1>5. CASE Cancel
  BY <1>5, CancelJobInv, CloseCancelledInv, RecordCancelledInv, CancelDiesInv DEF Cancel
<1>6. CASE Outside  BY <1>6, OutsideInv
<1> QED  BY <1>1, <1>2, <1>3, <1>4, <1>5, <1>6 DEF Next

LEMMA Inductive ==
  Spec => []IInv
BY InitInv, NextInv, PTL DEF Spec

-----------------------------------------------------------------------------
(* finalizeCommandExit "makes the second a no-op even across processes": however *)
(* many dispatchers see a command exit, die, or find it dead later, one of them *)
(* records its completion.                                                   *)
THEOREM ReportedOnce == Spec => []OneCompletion
<1>1. IInv => OneCompletion  BY DEF IInv
<1> QED  BY <1>1, Inductive, PTL

(* What the history calls a success of a handed-off command is one to the       *)
(* ledger: the ledger is written first, and a locked one stops the closing.    *)
THEOREM HistoryFollowsLedger == Spec => []LedgerAgrees
<1>1. IInv => LedgerAgrees  BY DEF IInv, AgreeInv
<1> QED  BY <1>1, Inductive, PTL

(* A slot of a handed-off job never has two attempts in progress, however many  *)
(* dispatchers plan it, recover it or die over it.                            *)
THEOREM OneAttemptPerSlot == Spec => []OneLiveAttempt
<1>1. IInv => OneLiveAttempt  BY DEF IInv
<1> QED  BY <1>1, Inductive, PTL

(* A run that `tasks cancel` closed while nobody was closing it is never        *)
(* reported by an observer, not even by one that saw the killed command exit.   *)
THEOREM CancelledStaysCancelled == Spec => []CancelFences
<1>1. IInv => CancelFences  BY DEF IInv, CancelInv, CancelFences
<1> QED  BY <1>1, Inductive, PTL

-----------------------------------------------------------------------------
(* What a step makes of the verdicts.                                        *)
Stands ==
  \A r \in Runs :
     /\ attempt[r].state = "succeeded" => attempt'[r].state = "succeeded"
     /\ attempt'[r].state = "lost" =>
           attempt[r].state \in Live \cup {"lost"} \/ Closing(r)

LEMMA FinalizedStands ==
  ASSUME IInv, NEW r \in Runs, NEW state \in {"succeeded"} \cup Retryable, FinalizeRunAttempt(r, state),
         state = "lost" => Closing(r)
  PROVE  Stands
<1>1. /\ \A q \in Runs \ {r} : attempt'[q] = attempt[q]
      /\ attempt'[r].state = IF attempt[r].state = "succeeded" THEN "succeeded" ELSE state
  BY Finalized DEF IInv
<1>2. ASSUME NEW q \in Runs
      PROVE  /\ attempt[q].state = "succeeded" => attempt'[q].state = "succeeded"
             /\ attempt'[q].state = "lost" => attempt[q].state = "lost" \/ Closing(q)
  <2>1. CASE q = r  BY <1>1, <2>1
  <2>2. CASE q # r  BY <1>1, <2>2
  <2> QED  BY <2>1, <2>2
<1> QED  BY <1>2 DEF Stands

LEMMA SameStands ==
  ASSUME UNCHANGED ledger PROVE Stands
BY DEF ledger, Stands

LEMMA CloserStands ==
  ASSUME IInv, NEW d \in Dispatchers, FinalizeLedger(d) \/ OrphanRun(d) \/ Conclude(d)
  PROVE  Stands
<1>1. /\ Fits(p[d].pc, p[d].run, p[d].out) /\ p[d].out \in Outs
  BY RowFields DEF IInv, Types, Placed
<1>2. CASE UNCHANGED ledger  BY <1>2, SameStands
<1>3. CASE FinalizeLedger(d) /\ FinalizeRunAttempt(p[d].run, LedgerState[p[d].out])
  <2>1. p[d].pc = "ledger" /\ p[d].run \in Runs /\ p[d].out # "none"
    BY <1>1, <1>3 DEF FinalizeLedger, At, Fits
  <2>2. LedgerState[p[d].out] \in {"succeeded"} \cup Retryable
    BY <1>1, <2>1 DEF Outs, LedgerState, Retryable
  <2>3. Closing(p[d].run)  BY <2>1 DEF Closing
  <2> QED  BY <1>3, <2>1, <2>2, <2>3, FinalizedStands
<1>4. CASE /\ OrphanRun(d)
           /\ FinalizeRunAttempt(p[d].run, IF p[d].by = "killer" THEN "timed_out" ELSE "lost")
  <2>1. p[d].pc = "orphan" /\ p[d].run \in Runs  BY <1>1, <1>4 DEF OrphanRun, At, Fits
  <2>2. PICK state \in {"timed_out", "lost"} : FinalizeRunAttempt(p[d].run, state)  BY <1>4
  <2>3. state \in {"succeeded"} \cup Retryable /\ Closing(p[d].run)
    BY <2>1 DEF Retryable, Closing
  <2> QED  BY <2>1, <2>2, <2>3, FinalizedStands
<1>5. CASE Conclude(d) /\ FinalizeRunAttempt(p[d].run, LedgerState[p[d].out])
  <2>1. p[d].pc = "conclude" /\ p[d].run \in Runs /\ p[d].out \in {"success", "failure"}
    BY <1>1, <1>5 DEF Conclude, At, Fits
  <2>2. LedgerState[p[d].out] \in {"succeeded"} \cup Retryable /\ LedgerState[p[d].out] # "lost"
    BY <2>1 DEF LedgerState, Retryable
  <2> QED  BY <1>5, <2>1, <2>2, FinalizedStands
<1> QED  BY <1>2, <1>3, <1>4, <1>5 DEF FinalizeLedger, OrphanRun, Conclude, Locked

LEMMA EvidenceStands ==
  ASSUME IInv, NEW d \in Dispatchers, RecordEvidence(d)
  PROVE  Stands
<1>1. CASE UNCHANGED ledger  BY <1>1, SameStands
<1>2. CASE RecordRunAttemptRunning(p[d].run)
  <2>1. p[d].pc = "evidence" /\ p[d].run \in Runs
    BY DEF IInv, Placed, Fits, RecordEvidence, At
  <2>2. Owns(d, p[d].run)  BY <2>1 DEF Owns, Own, Launching
  <2>3. attempt[p[d].run].state # "succeeded"  BY <2>1, <2>2 DEF IInv, OwnInv
  <2>4. attempt' = [attempt EXCEPT ![p[d].run].state = "running"]
    BY <1>2 DEF RecordRunAttemptRunning
  <2>5. \A q \in Runs : attempt'[q].state = IF q = p[d].run THEN "running" ELSE attempt[q].state
    BY <2>1, <2>4 DEF IInv, Types, Attempt
  <2> QED  BY <2>3, <2>5 DEF Stands
<1> QED  BY <1>1, <1>2 DEF RecordEvidence, Locked

LEMMA ReconcileStands ==
  ASSUME IInv, NEW d \in Dispatchers, Reconcile(d)
  PROVE  Stands
<1>1. CASE UNCHANGED ledger  BY <1>1, SameStands
<1>2. CASE \E late \in SUBSET Runs : ReconcileRuntimeLedger(p[d].seen, DeadRuns, late)
  <2>1. PICK late \in SUBSET Runs : ReconcileRuntimeLedger(p[d].seen, DeadRuns, late)  BY <1>2
  <2>2. \A r \in Runs :
           \/ attempt'[r].state = attempt[r].state
           \/ attempt'[r].state = "lost" /\ attempt[r].state \in Live
    BY <2>1, ReconcileRows DEF IInv
  <2> QED  BY <2>2 DEF Stands, Live
<1> QED  BY <1>1, <1>2 DEF Reconcile, Locked

LEMMA EvaluateStands ==
  ASSUME IInv, NEW d \in Dispatchers, Evaluate(d)
  PROVE  Stands
<1>1. CASE UNCHANGED ledger  BY <1>1, SameStands
<1>2. CASE \E first, k : LaunchSlot(d, first, k)
  <2> PICK first, k : LaunchSlot(d, first, k)  BY <1>2
  <2>1. PICK r \in Runs : /\ attempt[r].state = "none"
                          /\ attempt' = [attempt EXCEPT ![r] = [slot |-> k, state |-> "claimed", pending |-> FALSE]]
    BY DEF LaunchSlot, NewRuns, ClaimLogicalRun
  <2>2. \A q \in Runs : attempt'[q].state = IF q = r THEN "claimed" ELSE attempt[q].state
    BY <2>1 DEF IInv, Types
  <2> QED  BY <2>1, <2>2 DEF Stands
<1> QED  BY <1>1, <1>2 DEF Evaluate, Misfire, PassSlots, DeferSlot, Locked

LEMMA CancelStands ==
  ASSUME IInv, Cancel
  PROVE  Stands
<1>1. CASE UNCHANGED ledger  BY <1>1, SameStands
<1>2. CASE CloseCancelled /\ FinalizeRunAttempt(c.run, "interrupted")
  <2>1. c.run \in Runs  BY <1>2 DEF CloseCancelled, IInv, Placed
  <2>2. "interrupted" \in {"succeeded"} \cup Retryable  BY DEF Retryable
  <2> QED  BY <1>2, <2>1, <2>2, FinalizedStands
<1> QED
  BY <1>1, <1>2 DEF Cancel, CancelJob, CloseCancelled, RecordCancelled, CancelDies, Locked

LEMMA NextStands ==
  IInv /\ [Next]_vars => Stands
<1> SUFFICES ASSUME IInv, [Next]_vars PROVE Stands
  OBVIOUS
<1>1. CASE UNCHANGED vars  BY <1>1, SameStands DEF vars
<1>2. ASSUME NEW d \in Dispatchers, DispatchDue(d) \/ DispatchOther(d) \/ Crash(d)  PROVE Stands
  BY <1>2, SameStands DEF DispatchDue, DispatchOther, StartTick, Crash
<1>3. ASSUME NEW d \in Dispatchers, Work(d)  PROVE Stands
  <2>1. CASE Reconcile(d)  BY <2>1, ReconcileStands
  <2>2. CASE Reap(d)  BY <2>2, SameStands DEF Reap, ReapDead, ReapOverdue
  <2>3. CASE FinalizeLedger(d) \/ OrphanRun(d) \/ Conclude(d)  BY <2>3, CloserStands
  <2>4. CASE ClaimExit(d)  BY <2>4, SameStands DEF ClaimExit
  <2>5. CASE CloseRun(d)  BY <2>5, SameStands DEF CloseRun
  <2>6. CASE Evaluate(d)  BY <2>6, EvaluateStands
  <2>7. CASE EndTick(d) \/ EndIdleTick(d)  BY <2>7, SameStands DEF EndTick, EndIdleTick
  <2>8. CASE RecordEvidence(d)  BY <2>8, EvidenceStands
  <2>9. CASE SetActive(d) \/ Ended(d) \/ Retry(d) \/ Watch(d)
    BY <2>9, SameStands DEF SetActive, Ended, Retry, Watch
  <2>10. CASE PersistSchedule(d)  BY <2>10, SameStands DEF PersistSchedule
  <2> QED
    BY <1>3, <2>1, <2>2, <2>3, <2>4, <2>5, <2>6, <2>7, <2>8, <2>9, <2>10 DEF Work, Finalize, Follow
<1>4. CASE Cancel  BY <1>4, CancelStands
<1>5. CASE Outside
  BY <1>5, SameStands DEF Outside, CommandExits, SlotComesDue, RepairIndex, RepairDueProjection, ledger, Stands
<1> QED  BY <1>1, <1>2, <1>3, <1>4, <1>5 DEF Next

(* No reconciler with an old snapshot, no reaper, no cancellation and no late   *)
(* dispatcher takes a success back, and "lost" is said only of a live attempt   *)
(* or by who is closing that very run.                                        *)
THEOREM VerdictsStand == Spec => VerdictStands
<1>1. IInv /\ [Next]_vars =>
        [\A r \in Runs :
           /\ attempt[r].state = "succeeded" => attempt'[r].state = "succeeded"
           /\ attempt'[r].state = "lost" =>
                 attempt[r].state \in Live \cup {"lost"} \/ Closing(r)]_vars
  BY NextStands DEF Stands
<1> QED  BY <1>1, Inductive, PTL DEF Spec, VerdictStands

-----------------------------------------------------------------------------
(* What the schedule is written from. A tick ends by writing the job it read;  *)
(* whoever launched a run writes it once more, later.                         *)

Ticking == {"tail", "rewrite"}
Later == Planning \ Ticking
Watching == {"check", "ledger", "close"}

(* Who has the lease: the finalization by a dispatcher that outlives its       *)
(* command runs without.                                                     *)
Holds(d) == p[d].pc \in Leased /\ p[d].by # "watch"

(* The slot d is going to write, and the slots from a to b that the ledger or  *)
(* the history knows.                                                        *)
Pending(d) == IF p[d].pc \in Ticking THEN p[d].next
              ELSE Latest(p[d].next, attempt[p[d].run].slot + 1)
Known(s) == logical[s] # "none" \/ s \in skips
Between(a, b) == \A s \in Slots : a <= s /\ s < b => Known(s)
Accounted(n) == \A s \in Slots : s < n /\ logical[s] = "none" => \E t \in skips : t <= s

LeaseInv ==
  /\ \A d, e \in Dispatchers : Holds(d) /\ Holds(e) => d = e
  /\ \A d \in Dispatchers : p[d].by = "watch" => p[d].pc \in Watching

(* A slot to jump to is written by the tick that jumps, and after that the job  *)
(* object is no longer fresh.                                                *)
JumpInv ==
  \A d \in Dispatchers :
     /\ p[d].pc \in Later /\ (p[d].fresh \/ Handoff) => p[d].next = 0
     /\ p[d].pc = "tail" /\ p[d].run # 0 => attempt[p[d].run].slot < p[d].next

AccountInv ==
  /\ Accounted(catalog)
  /\ \A d \in Dispatchers : p[d].pc \in Planning => Accounted(Pending(d))

(* No write goes over a slot that neither knows, in whatever order they come.  *)
BackInv ==
  /\ \A e \in Dispatchers : p[e].pc \in Later => Between(catalog, Pending(e))
  /\ \A d \in Dispatchers : p[d].pc \in Planning /\ p[d].fresh =>
       /\ Between(Pending(d), catalog)
       /\ \A e \in Dispatchers : p[e].pc \in Planning =>
            /\ p[e].pc # "tail" => Between(Pending(d), Pending(e))
            /\ ~p[e].fresh => p[e].pc \in Later

SchedInv == LeaseInv /\ JumpInv /\ AccountInv /\ BackInv

(* The slots of the attempts and the rows of the slots only come to be.        *)
Frame ==
  /\ \A r \in Runs : attempt[r].state # "none" => attempt'[r].slot = attempt[r].slot
  /\ \A s \in Slots : Known(s) => Known(s)'

(* e goes on, with the same job object if it is going to write the schedule.  *)
Keeps(e) ==
  /\ p'[e].pc \in Ticking => p[e].pc = p'[e].pc
  /\ p'[e].pc \in Later => p[e].pc \in Later
  /\ p'[e].pc \in Planning =>
       p'[e].run = p[e].run /\ p'[e].next = p[e].next /\ p'[e].fresh = p[e].fresh

LEMMA PlanningPcs ==
  /\ Planning = Ticking \cup Later /\ Ticking \cap Later = {}
  /\ "tail" \in Ticking /\ "rewrite" \in Ticking
  /\ Ticking \subseteq Leased /\ Watching \cap Planning = {}
  /\ \A pc : pc \in Later <=> pc \in {"evidence", "activate", "wait", "backoff", "conclude", "persist"}
  /\ {"idle", "commit", "reap", "orphan", "evaluate", "watch"} \cap (Planning \cup Watching) = {}
<1>1. Planning = Ticking \cup Later /\ Ticking \cap Later = {}
  BY DEF Planning, Ticking, Later
<1>2. \A pc : pc \in Later <=> pc \in {"evidence", "activate", "wait", "backoff", "conclude", "persist"}
  BY DEF Planning, Ticking, Later
<1>3. Ticking \subseteq Leased /\ "tail" \in Ticking /\ "rewrite" \in Ticking
  BY DEF Ticking, Leased
<1>4. /\ Watching \cap Planning = {}
      /\ {"idle", "commit", "reap", "orphan", "evaluate", "watch"} \cap (Planning \cup Watching) = {}
  BY DEF Watching, Planning
<1> QED  BY <1>1, <1>2, <1>3, <1>4

(* The number d is going to write is one.                                     *)
LEMMA PendingNat ==
  ASSUME Types, NEW d \in Dispatchers
  PROVE  /\ p[d].next \in Nat
         /\ p[d].run \in Runs => attempt[p[d].run].slot \in Nat
         /\ p[d].run \in Runs \/ p[d].pc \in Ticking => Pending(d) \in Nat
<1>1. p[d].next \in Nat  BY RowFields DEF Types
<1>2. ASSUME p[d].run \in Runs PROVE attempt[p[d].run].slot \in Nat
  <2>1. attempt[p[d].run] \in Attempt  BY <1>2 DEF Types
  <2>2. attempt[p[d].run].slot \in Slots \cup {0}  BY <2>1 DEF Attempt
  <2>3. PICK s : s = attempt[p[d].run].slot  OBVIOUS
  <2>4. s \in Slots \/ s = 0  BY <2>2, <2>3
  <2>5. s \in Nat
    <3>1. CASE s \in Slots  BY <3>1, Ids
    <3>2. CASE s = 0  BY <3>2
    <3> QED  BY <2>4, <3>1, <3>2
  <2> QED  BY <2>3, <2>5
<1> QED  BY <1>1, <1>2 DEF Pending, Latest

LEMMA LaterRun ==
  ASSUME IInv, NEW d \in Dispatchers, p[d].pc \in Later
  PROVE  p[d].run \in Runs /\ attempt[p[d].run].state # "none" /\ Pending(d) \in Nat
<1>1. p[d].run \in Runs  BY PlanningPcs DEF IInv, Placed, Fits
<1>2. attempt[p[d].run].state # "none"  BY <1>1 DEF IInv, Fresh
<1> QED  BY <1>1, <1>2, PendingNat DEF IInv

LEMMA PlansNat ==
  ASSUME IInv, NEW d \in Dispatchers, p[d].pc \in Planning
  PROVE  Pending(d) \in Nat /\ catalog \in Nat
<1>1. p[d].pc \in Ticking \/ p[d].pc \in Later  BY PlanningPcs
<1> QED  BY <1>1, LaterRun, PendingNat DEF IInv, Types

LEMMA BetweenKept ==
  ASSUME Frame, NEW a, NEW b, Between(a, b)
  PROVE  \A s \in Slots : a <= s /\ s < b => Known(s)'
BY DEF Frame, Between

LEMMA AccountedKept ==
  ASSUME Frame, skips \subseteq skips', NEW n, Accounted(n)
  PROVE  \A s \in Slots : s < n /\ logical'[s] = "none" => \E t \in skips' : t <= s
<1> SUFFICES ASSUME NEW s \in Slots, s < n, logical'[s] = "none" PROVE \E t \in skips' : t <= s
  OBVIOUS
<1>1. CASE logical[s] = "none"  BY <1>1 DEF Accounted
<1>2. CASE logical[s] # "none"
  <2>1. s \in skips'  BY <1>2 DEF Frame, Known
  <2>2. s <= s  BY Ids
  <2> QED  BY <2>1, <2>2
<1> QED  BY <1>1, <1>2

LEMMA PendingKept ==
  ASSUME IInv, Frame, NEW e \in Dispatchers, Keeps(e), p'[e].pc \in Planning
  PROVE  Pending(e)' = Pending(e) /\ p[e].pc \in Planning
<1>1. CASE p'[e].pc \in Ticking
  BY <1>1, PlanningPcs DEF Keeps, Pending
<1>2. CASE p'[e].pc \in Later
  <2>1. p[e].pc \in Later /\ p[e].pc \notin Ticking /\ p'[e].pc \notin Ticking
    BY <1>2, PlanningPcs DEF Keeps
  <2>2. attempt'[p[e].run].slot = attempt[p[e].run].slot  BY <2>1, LaterRun DEF Frame
  <2>3. p'[e].run = p[e].run /\ p'[e].next = p[e].next  BY DEF Keeps
  <2> QED  BY <2>1, <2>2, <2>3, PlanningPcs DEF Pending, Latest
<1> QED  BY <1>1, <1>2, PlanningPcs

(* A step that leaves the schedule and the job objects alone.                 *)
LEMMA CalmSched ==
  ASSUME IInv, SchedInv, Frame, \A e \in Dispatchers : Keeps(e),
         UNCHANGED <<catalog, kind>>, skips \subseteq skips', LeaseInv'
  PROVE  SchedInv'
<1>1. \A e \in Dispatchers : p'[e].pc \in Planning => Pending(e)' = Pending(e) /\ p[e].pc \in Planning
  BY PendingKept
<1>2. \A e \in Dispatchers : p'[e].pc \in Later => p[e].pc \in Later /\ p'[e].pc \in Planning
  BY PlanningPcs DEF Keeps
<1>3. Handoff' <=> Handoff  BY DEF Handoff
<1>4. JumpInv'
  <2>1. SUFFICES ASSUME NEW e \in Dispatchers
                 PROVE  /\ p'[e].pc \in Later /\ (p'[e].fresh \/ Handoff) => p'[e].next = 0
                        /\ p'[e].pc = "tail" /\ p'[e].run # 0 => attempt'[p'[e].run].slot < p'[e].next
    BY <1>3 DEF JumpInv
  <2>2. p'[e].pc \in Later /\ (p'[e].fresh \/ Handoff) => p'[e].next = 0
    BY <1>2 DEF Keeps, SchedInv, JumpInv
  <2>3. ASSUME p'[e].pc = "tail", p'[e].run # 0 PROVE attempt'[p'[e].run].slot < p'[e].next
    <3>1. p[e].pc = "tail" /\ p'[e].run = p[e].run /\ p'[e].next = p[e].next
      BY <2>3, PlanningPcs DEF Keeps
    <3>2. p[e].run \in Runs  BY <2>3, <3>1, RowFields DEF IInv, Types
    <3>3. attempt'[p[e].run].slot = attempt[p[e].run].slot  BY <3>2 DEF IInv, Fresh, Frame
    <3> QED  BY <2>3, <3>1, <3>3 DEF SchedInv, JumpInv
  <2> QED  BY <2>2, <2>3
<1>5. AccountInv'
  <2>1. Accounted(catalog)'  BY AccountedKept DEF SchedInv, AccountInv, Accounted
  <2>2. ASSUME NEW e \in Dispatchers, p'[e].pc \in Planning PROVE Accounted(Pending(e))'
    <3>1. Pending(e)' = Pending(e) /\ Accounted(Pending(e))
      BY <1>1, <2>2 DEF SchedInv, AccountInv
    <3> QED  BY <3>1, AccountedKept DEF Accounted
  <2> QED  BY <2>1, <2>2 DEF AccountInv
<1>6. BackInv'
  <2>1. ASSUME NEW e \in Dispatchers, p'[e].pc \in Later PROVE Between(catalog, Pending(e))'
    <3>1. Pending(e)' = Pending(e) /\ Between(catalog, Pending(e))
      BY <1>1, <1>2, <2>1 DEF SchedInv, BackInv
    <3> QED  BY <3>1, BetweenKept DEF Between
  <2>2. ASSUME NEW d \in Dispatchers, p'[d].pc \in Planning, p'[d].fresh
        PROVE  Between(Pending(d), catalog)'
    <3>1. Pending(d)' = Pending(d) /\ Between(Pending(d), catalog)
      BY <1>1, <2>2 DEF SchedInv, BackInv, Keeps
    <3> QED  BY <3>1, BetweenKept DEF Between
  <2>3. ASSUME NEW d \in Dispatchers, p'[d].pc \in Planning, p'[d].fresh,
               NEW e \in Dispatchers, p'[e].pc \in Planning
        PROVE  /\ p'[e].pc # "tail" => Between(Pending(d), Pending(e))'
               /\ ~p'[e].fresh => p'[e].pc \in Later
    <3>1. /\ Pending(d)' = Pending(d) /\ p[d].pc \in Planning /\ p[d].fresh
          /\ Pending(e)' = Pending(e) /\ p[e].pc \in Planning /\ p'[e].fresh = p[e].fresh
      BY <1>1, <2>3 DEF Keeps
    <3>2. p'[e].pc # "tail" => p[e].pc # "tail"
      BY <2>3, PlanningPcs DEF Keeps
    <3>3. p[e].pc \in Later => p'[e].pc \in Later
      BY <2>3, PlanningPcs DEF Keeps
    <3>4. ASSUME p'[e].pc # "tail" PROVE Between(Pending(d), Pending(e))'
      <4>1. Between(Pending(d), Pending(e))  BY <3>1, <3>2, <3>4 DEF SchedInv, BackInv
      <4> QED  BY <3>1, <4>1, BetweenKept DEF Between
    <3>5. ~p'[e].fresh => p'[e].pc \in Later  BY <3>1, <3>3 DEF SchedInv, BackInv
    <3> QED  BY <3>4, <3>5
  <2> QED  BY <2>1, <2>2, <2>3 DEF BackInv
<1> QED  BY <1>4, <1>5, <1>6 DEF SchedInv

-----------------------------------------------------------------------------
(* The steps that write no schedule.                                         *)

LEMMA FrameSame ==
  ASSUME UNCHANGED <<attempt, logical>>, skips \subseteq skips' PROVE Frame
BY DEF Frame, Known

(* d goes on with the row, without coming to a new job object.                *)
Calm(d, row) ==
  /\ p' = [p EXCEPT ![d] = row]
  /\ row.pc \notin Ticking
  /\ row.pc \in Later =>
       p[d].pc \in Later /\ row.run = p[d].run /\ row.next = p[d].next /\ row.fresh = p[d].fresh
  /\ row.by = "watch" => row.pc \in Watching
  /\ row.pc \in Leased /\ row.by # "watch" => Holds(d)

LEMMA CalmStep ==
  ASSUME IInv, SchedInv, NEW d \in Dispatchers, NEW row, Calm(d, row),
         Frame, UNCHANGED <<catalog, kind>>, skips \subseteq skips'
  PROVE  SchedInv'
<1>1. p'[d] = row /\ \A e \in Dispatchers \ {d} : p'[e] = p[e]
  BY DEF IInv, Types, Calm
<1>2. \A e \in Dispatchers : Keeps(e)
  BY <1>1, PlanningPcs DEF Calm, Keeps
<1>3. \A e \in Dispatchers : Holds(e)' => Holds(e)
  BY <1>1 DEF Calm, Holds
<1>4. \A e \in Dispatchers : p'[e].by = "watch" => p'[e].pc \in Watching
  BY <1>1 DEF Calm, SchedInv, LeaseInv
<1>5. LeaseInv'  BY <1>3, <1>4 DEF SchedInv, LeaseInv
<1> QED  BY <1>2, <1>5, CalmSched

LEMMA AsideSched ==
  ASSUME IInv, SchedInv, Frame, UNCHANGED <<catalog, kind, p>>, skips \subseteq skips'
  PROVE  SchedInv'
<1>1. \A e \in Dispatchers : Keeps(e)  BY PlanningPcs DEF Keeps
<1>2. LeaseInv'  BY DEF SchedInv, LeaseInv, Holds
<1> QED  BY <1>1, <1>2, CalmSched

LEMMA SleepCalm ==
  ASSUME NEW d \in Dispatchers, Sleep(d)
  PROVE  Calm(d, Asleep)
<1>1. Asleep.pc = "idle" /\ Asleep.by = "reaper"  BY DEF Asleep
<1>2. "idle" \notin Leased  BY DEF Leased
<1> QED  BY <1>1, <1>2, PlanningPcs DEF Sleep, Calm

LEMMA GotoFields ==
  ASSUME NEW r \in Row, NEW pc \in Pcs, NEW row, row = [r EXCEPT !.pc = pc]
  PROVE  /\ row \in Row /\ row.pc = pc /\ row.run = r.run /\ row.next = r.next
         /\ row.fresh = r.fresh /\ row.by = r.by /\ row.out = r.out /\ row.retry = r.retry
BY DEF Row

LEMMA OutFields ==
  ASSUME NEW r \in Row, NEW out \in Outs, NEW row, row = [r EXCEPT !.out = out]
  PROVE  /\ row \in Row /\ row.pc = r.pc /\ row.run = r.run /\ row.next = r.next
         /\ row.fresh = r.fresh /\ row.by = r.by /\ row.out = out /\ row.retry = r.retry
BY DEF Row

LEMMA RetryFields ==
  ASSUME NEW r \in Row, NEW retry \in Nat, NEW row, row = [r EXCEPT !.retry = retry]
  PROVE  /\ row \in Row /\ row.pc = r.pc /\ row.run = r.run /\ row.next = r.next
         /\ row.fresh = r.fresh /\ row.by = r.by /\ row.out = r.out /\ row.retry = retry
BY DEF Row

LEMMA SeenFields ==
  ASSUME NEW r \in Row, NEW seen \in [Runs -> Attempt] \cup {<<>>}, NEW row, row = [r EXCEPT !.seen = seen]
  PROVE  /\ row \in Row /\ row.pc = r.pc /\ row.run = r.run /\ row.next = r.next
         /\ row.fresh = r.fresh /\ row.by = r.by /\ row.out = r.out /\ row.retry = r.retry
BY DEF Row

LEMMA RunFields ==
  ASSUME NEW r \in Row, NEW run \in Runs \cup {0}, NEW row, row = [r EXCEPT !.run = run]
  PROVE  /\ row \in Row /\ row.pc = r.pc /\ row.run = run /\ row.next = r.next
         /\ row.fresh = r.fresh /\ row.by = r.by /\ row.out = r.out /\ row.retry = r.retry
BY DEF Row

LEMMA ByFields ==
  ASSUME NEW r \in Row, NEW by \in {"reaper", "killer", "watch"}, NEW row, row = [r EXCEPT !.by = by]
  PROVE  /\ row \in Row /\ row.pc = r.pc /\ row.run = r.run /\ row.next = r.next
         /\ row.fresh = r.fresh /\ row.by = by /\ row.out = r.out /\ row.retry = r.retry
BY DEF Row

(* finalizeCommandExit, or the way back from it.                              *)
LEMMA CloseFields ==
  ASSUME IInv, NEW d \in Dispatchers, NEW r \in Runs \cup {0},
         NEW by \in {"reaper", "killer", "watch"}, NEW out \in Outs, NEW pc \in Pcs,
         Close(d, r, by, out, pc)
  PROVE  \E row \in Row : /\ p' = [p EXCEPT ![d] = row]
                         /\ row.pc = pc /\ row.run = r /\ row.by = by /\ row.out = out
                         /\ row.retry = p[d].retry
<1>1. PICK a : a = [p[d] EXCEPT !.pc = pc]  OBVIOUS
<1>2. PICK b : b = [a EXCEPT !.run = r]  OBVIOUS
<1>3. PICK q : q = [b EXCEPT !.by = by]  OBVIOUS
<1>4. PICK row : row = [q EXCEPT !.out = out]  OBVIOUS
<1>5. p[d] \in Row  BY DEF IInv, Types
<1>6. a \in Row /\ a.pc = pc /\ a.retry = p[d].retry  BY <1>1, <1>5, GotoFields
<1>7. b \in Row /\ b.pc = pc /\ b.run = r /\ b.retry = p[d].retry  BY <1>2, <1>6, RunFields
<1>8. q \in Row /\ q.pc = pc /\ q.run = r /\ q.by = by /\ q.retry = p[d].retry
  BY <1>3, <1>7, ByFields
<1>9. row \in Row /\ row.pc = pc /\ row.run = r /\ row.by = by /\ row.out = out /\ row.retry = p[d].retry
  BY <1>4, <1>8, OutFields
<1>10. p' = [p EXCEPT ![d] = row]  BY <1>1, <1>2, <1>3, <1>4 DEF Close
<1> QED  BY <1>9, <1>10

LEMMA GotoCalm ==
  ASSUME IInv, SchedInv, NEW d \in Dispatchers, NEW pc \in Pcs \ Ticking, Goto(d, pc),
         pc \in Later => p[d].pc \in Later,
         pc \in Leased => p[d].pc \in Leased,
         p[d].by = "watch" => pc \in Watching
  PROVE  \E row : Calm(d, row)
<1>1. PICK row : row = [p[d] EXCEPT !.pc = pc]  OBVIOUS
<1>2. p[d] \in Row  BY DEF IInv, Types
<1>3. /\ row.pc = pc /\ row.run = p[d].run /\ row.next = p[d].next
      /\ row.fresh = p[d].fresh /\ row.by = p[d].by
  BY <1>1, <1>2, GotoFields
<1>4. p' = [p EXCEPT ![d] = row]  BY <1>1 DEF Goto
<1> QED  BY <1>3, <1>4 DEF Calm, Holds

(* From a leased step, or by who watches: to a step that writes no schedule.   *)
LEMMA CloseCalm ==
  ASSUME IInv, SchedInv, NEW d \in Dispatchers, NEW r \in Runs \cup {0},
         NEW by \in {"reaper", "killer", "watch"}, NEW out \in Outs, NEW pc \in {"check", "orphan", "evaluate"},
         Close(d, r, by, out, pc),
         IF by = "watch" THEN pc = "check" ELSE Holds(d)
  PROVE  \E row : Calm(d, row)
<1>1. pc \in Pcs /\ pc \notin Planning /\ "check" \in Watching
  BY DEF Pcs, Leased, Planning, Watching
<1>2. PICK row \in Row : p' = [p EXCEPT ![d] = row] /\ row.pc = pc /\ row.by = by
  BY <1>1, CloseFields
<1> QED  BY <1>1, <1>2, PlanningPcs DEF Calm

LEMMA ReturnCalm ==
  ASSUME IInv, SchedInv, NEW d \in Dispatchers, p[d].pc \in Leased, Return(d)
  PROVE  \E row : Calm(d, row)
<1>1. CASE p[d].by = "watch"  BY <1>1, SleepCalm DEF Return
<1>2. CASE p[d].by # "watch"
  <2>1. Close(d, 0, "reaper", "none", "evaluate") /\ Holds(d) /\ "none" \in Outs
    BY <1>2 DEF Return, Holds, Outs
  <2> QED  BY <2>1, CloseCalm
<1> QED  BY <1>1, <1>2

LEMMA CalmAct ==
  ASSUME IInv, SchedInv, NEW d \in Dispatchers, \E row : Calm(d, row),
         Frame, UNCHANGED <<catalog, kind, skips>>
  PROVE  SchedInv'
BY CalmStep

LEMMA FinalizedFrame ==
  ASSUME Types, NEW r \in Runs, NEW state \in {"succeeded"} \cup Retryable,
         FinalizeRunAttempt(r, state), UNCHANGED skips
  PROVE  Frame
<1>1. /\ \A q \in Runs \ {r} : attempt'[q] = attempt[q]
      /\ attempt'[r].slot = attempt[r].slot
      /\ \A s \in Slots : logical[s] # "none" => logical'[s] # "none"
  BY Finalized
<1>2. \A q \in Runs : attempt'[q].slot = attempt[q].slot  BY <1>1
<1> QED  BY <1>1, <1>2 DEF Frame, Known

(* From one launched step to the next.                                       *)
LEMMA LaterCalm ==
  ASSUME IInv, SchedInv, NEW d \in Dispatchers, NEW row \in Row, p' = [p EXCEPT ![d] = row],
         p[d].pc \in Later, row.pc \in Later, row.run = p[d].run, row.next = p[d].next,
         row.fresh = p[d].fresh, row.by = p[d].by
  PROVE  Calm(d, row)
<1>1. p[d].by # "watch"  BY PlanningPcs DEF SchedInv, LeaseInv
<1>2. row.pc \notin Ticking /\ row.pc \notin Leased
  BY DEF Later, Leased, Planning, Ticking
<1> QED  BY <1>1, <1>2 DEF Calm

LEMMA PcOutCalm ==
  ASSUME IInv, SchedInv, NEW d \in Dispatchers, NEW pc \in Later, NEW out \in Outs,
         p[d].pc \in Later, p' = [p EXCEPT ![d].pc = pc, ![d].out = out]
  PROVE  \E row : Calm(d, row)
<1>1. PICK a : a = [p[d] EXCEPT !.pc = pc]  OBVIOUS
<1>2. PICK row : row = [a EXCEPT !.out = out]  OBVIOUS
<1>3. p[d] \in Row /\ pc \in Pcs  BY PlanningPcs DEF IInv, Types, Pcs, Planning
<1>4. /\ a \in Row /\ a.pc = pc /\ a.run = p[d].run /\ a.next = p[d].next
      /\ a.fresh = p[d].fresh /\ a.by = p[d].by
  BY <1>1, <1>3, GotoFields
<1>5. /\ row \in Row /\ row.pc = pc /\ row.run = p[d].run /\ row.next = p[d].next
      /\ row.fresh = p[d].fresh /\ row.by = p[d].by
  BY <1>2, <1>4, OutFields
<1>6. p' = [p EXCEPT ![d] = row]  BY <1>1, <1>2
<1> QED  BY <1>5, <1>6, LaterCalm

LEMMA StartSched ==
  ASSUME IInv, SchedInv, NEW d \in Dispatchers, StartTick(d)
  PROVE  SchedInv'
<1>1. /\ p[d].pc = "idle" /\ \A e \in Dispatchers : p[e].pc \notin Leased
      /\ p' = [p EXCEPT ![d].pc = "commit", ![d].seen = attempt]
      /\ UNCHANGED <<attempt, logical, skips, catalog, kind>>
  BY DEF StartTick, At, ledger, stores, world, job
<1>2. PICK a : a = [p[d] EXCEPT !.pc = "commit"]  OBVIOUS
<1>3. PICK row : row = [a EXCEPT !.seen = attempt]  OBVIOUS
<1>4. p[d] \in Row /\ "commit" \in Pcs /\ attempt \in [Runs -> Attempt]
  BY DEF IInv, Types, Pcs
<1>5. a \in Row /\ a.pc = "commit" /\ a.by = p[d].by  BY <1>2, <1>4, GotoFields
<1>6. row.pc = "commit" /\ row.by = p[d].by  BY <1>3, <1>4, <1>5, SeenFields
<1>7. p' = [p EXCEPT ![d] = row]  BY <1>1, <1>2, <1>3
<1>8. p'[d] = row /\ \A e \in Dispatchers \ {d} : p'[e] = p[e]
  BY <1>7 DEF IInv, Types
<1>9. \A e \in Dispatchers : Keeps(e)
  BY <1>6, <1>8, PlanningPcs DEF Keeps
<1>10. p[d].by # "watch"  BY <1>1, PlanningPcs DEF SchedInv, LeaseInv
<1>11. LeaseInv'
  <2>1. \A e \in Dispatchers : Holds(e)' => e = d  BY <1>1, <1>8 DEF Holds
  <2>2. \A e \in Dispatchers : p'[e].by = "watch" => p'[e].pc \in Watching
    BY <1>6, <1>8, <1>10 DEF SchedInv, LeaseInv
  <2> QED  BY <2>1, <2>2 DEF LeaseInv
<1>12. Frame  BY <1>1, FrameSame
<1> QED  BY <1>1, <1>9, <1>11, <1>12, CalmSched

LEMMA ReconcileSched ==
  ASSUME IInv, SchedInv, NEW d \in Dispatchers, Reconcile(d)
  PROVE  SchedInv'
<1>1. UNCHANGED <<catalog, kind, skips>> /\ p[d].pc = "commit"
  BY DEF Reconcile, At, stores, world, job
<1>2. CASE Locked /\ Sleep(d)
  BY <1>1, <1>2, FrameSame, SleepCalm, CalmAct DEF Locked, ledger
<1>3. CASE /\ \E late \in SUBSET Runs : ReconcileRuntimeLedger(p[d].seen, DeadRuns, late)
           /\ p' = [p EXCEPT ![d].pc = "reap", ![d].seen = <<>>]
  <2>1. PICK late : ReconcileRuntimeLedger(p[d].seen, DeadRuns, late)  BY <1>3
  <2>2. /\ \A r \in Runs : attempt'[r].slot = attempt[r].slot
        /\ \A s \in Slots : logical[s] # "none" => logical'[s] # "none"
    BY <2>1, ReconcileRows DEF IInv
  <2>3. Frame  BY <1>1, <2>2 DEF Frame, Known
  <2>4. PICK a : a = [p[d] EXCEPT !.pc = "reap"]  OBVIOUS
  <2>5. PICK row : row = [a EXCEPT !.seen = <<>>]  OBVIOUS
  <2>6. p[d] \in Row /\ "reap" \in Pcs /\ {"reap", "commit"} \subseteq Leased
    BY DEF IInv, Types, Pcs, Leased
  <2>7. a \in Row /\ a.pc = "reap" /\ a.by = p[d].by  BY <2>4, <2>6, GotoFields
  <2>8. row.pc = "reap" /\ row.by = p[d].by  BY <2>5, <2>7, SeenFields
  <2>9. p' = [p EXCEPT ![d] = row]  BY <1>3, <2>4, <2>5
  <2>10. p[d].by # "watch"  BY <1>1, PlanningPcs DEF SchedInv, LeaseInv
  <2>11. Calm(d, row)  BY <1>1, <2>6, <2>8, <2>9, <2>10, PlanningPcs DEF Calm, Holds
  <2> QED  BY <1>1, <2>3, <2>11, CalmAct
<1> QED  BY <1>2, <1>3 DEF Reconcile

LEMMA ReapSched ==
  ASSUME IInv, SchedInv, NEW d \in Dispatchers, Reap(d)
  PROVE  SchedInv'
<1>1. PICK out \in {"success", "failure", "lost", "timeout"}, by \in {"reaper", "killer"},
           pc \in {"check", "orphan"} :
        /\ Close(d, active, by, out, pc) /\ active \in Runs /\ At(d, "reap")
        /\ UNCHANGED <<attempt, logical, skips, catalog, kind>>
  BY DEF Reap, ReapDead, ReapOverdue, RecordedOutcome, DeadRuns, world, ledger, stores, job
<1>2. Holds(d) /\ out \in Outs
  BY <1>1, PlanningPcs DEF SchedInv, LeaseInv, Holds, At, Leased, Outs
<1>3. \E row : Calm(d, row)  BY <1>1, <1>2, CloseCalm
<1> QED  BY <1>1, <1>3, FrameSame, CalmAct

LEMMA FinalizeSched ==
  ASSUME IInv, SchedInv, NEW d \in Dispatchers, Finalize(d)
  PROVE  SchedInv'
<1>1. UNCHANGED <<catalog, kind, skips>>
  BY DEF Finalize, ClaimExit, FinalizeLedger, CloseRun, OrphanRun, stores, world, job
<1>2. p[d].pc \in {"check", "ledger", "close", "orphan"}
  BY DEF Finalize, ClaimExit, FinalizeLedger, CloseRun, OrphanRun, At
<1>3. Frame
  <2>1. p[d].run \in Runs  BY <1>2 DEF IInv, Placed, Fits
  <2>2. p[d].out \in Outs  BY RowFields DEF IInv, Types
  <2>3. CASE UNCHANGED ledger  BY <1>1, <2>3, FrameSame DEF ledger
  <2>4. CASE /\ p[d].pc = "ledger" /\ FinalizeRunAttempt(p[d].run, LedgerState[p[d].out])
    <3>1. p[d].out # "none"  BY <2>4 DEF IInv, Placed, Fits
    <3>2. LedgerState[p[d].out] \in {"succeeded"} \cup Retryable
      BY <2>2, <3>1 DEF Outs, LedgerState, Retryable
    <3> QED  BY <1>1, <2>1, <2>4, <3>2, FinalizedFrame DEF IInv
  <2>5. CASE FinalizeRunAttempt(p[d].run, IF p[d].by = "killer" THEN "timed_out" ELSE "lost")
    <3>1. PICK state \in {"timed_out", "lost"} : FinalizeRunAttempt(p[d].run, state)  BY <2>5
    <3>2. state \in {"succeeded"} \cup Retryable  BY DEF Retryable
    <3> QED  BY <1>1, <2>1, <3>1, <3>2, FinalizedFrame DEF IInv
  <2> QED
    BY <2>3, <2>4, <2>5 DEF Finalize, ClaimExit, FinalizeLedger, CloseRun, OrphanRun, Locked, At
<1>4. \E row : Calm(d, row)
  <2>1. p[d].pc \in Leased /\ {"ledger", "close", "orphan"} \subseteq Pcs \ Ticking
    BY <1>2 DEF Leased, Pcs, Ticking
  <2>2. CASE Sleep(d)  BY <2>2, SleepCalm
  <2>3. CASE Return(d)  BY <2>1, <2>3, ReturnCalm
  <2>4. CASE Goto(d, "ledger") \/ Goto(d, "close")
    <3>1. {"ledger", "close"} \subseteq Leased \cap Watching /\ {"ledger", "close"} \cap Later = {}
      BY PlanningPcs DEF Leased, Watching
    <3> QED  BY <2>1, <2>4, <3>1, GotoCalm
  <2>5. CASE Goto(d, "orphan") /\ p[d].by # "watch"
    <3>1. "orphan" \in Leased /\ "orphan" \notin Later  BY PlanningPcs DEF Leased
    <3> QED  BY <2>1, <2>5, <3>1, GotoCalm
  <2> QED
    BY <2>2, <2>3, <2>4, <2>5 DEF Finalize, ClaimExit, FinalizeLedger, CloseRun, OrphanRun, CutShort
<1> QED  BY <1>1, <1>3, <1>4, CalmAct

LEMMA EvidenceSched ==
  ASSUME IInv, SchedInv, NEW d \in Dispatchers, RecordEvidence(d)
  PROVE  SchedInv'
<1>1. p[d].pc = "evidence" /\ UNCHANGED <<catalog, kind, skips>> /\ p[d].run \in Runs
  BY DEF RecordEvidence, At, stores, world, job, IInv, Placed, Fits
<1>2. \E row : Calm(d, row)
  <2>1. PICK pc \in {"backoff", "conclude", "activate"}, out \in {"success", "failure"} :
          p' = [p EXCEPT ![d].pc = pc, ![d].out = out]
    BY DEF RecordEvidence, Result
  <2>2. pc \in Later /\ out \in Outs /\ p[d].pc \in Later  BY <1>1, PlanningPcs DEF Outs
  <2> QED  BY <2>1, <2>2, PcOutCalm
<1>3. Frame
  <2>1. CASE UNCHANGED ledger  BY <1>1, <2>1, FrameSame DEF ledger
  <2>2. CASE RecordRunAttemptRunning(p[d].run)
    <3>1. PICK r \in Runs : r = p[d].run  BY <1>1
    <3>2. PICK a : a = [attempt[r] EXCEPT !.state = "running"]  OBVIOUS
    <3>3. a.slot = attempt[r].slot  BY <3>2 DEF IInv, Types, Attempt
    <3>4. attempt' = [attempt EXCEPT ![r] = a] /\ logical' = [logical EXCEPT ![attempt[r].slot] = "running"]
      BY <2>2, <3>1, <3>2 DEF RecordRunAttemptRunning
    <3>5. \A q \in Runs : attempt'[q].slot = attempt[q].slot  BY <3>3, <3>4 DEF IInv, Types
    <3>6. \A s \in Slots : logical[s] # "none" => logical'[s] # "none"  BY <3>4 DEF IInv, Types
    <3> QED  BY <1>1, <3>5, <3>6 DEF Frame, Known
  <2> QED  BY <2>1, <2>2 DEF RecordEvidence, Locked
<1> QED  BY <1>1, <1>2, <1>3, CalmAct

LEMMA FollowSched ==
  ASSUME IInv, SchedInv, NEW d \in Dispatchers,
         SetActive(d) \/ Ended(d) \/ Retry(d) \/ Watch(d) \/ Crash(d)
  PROVE  SchedInv'
<1>1. UNCHANGED <<attempt, logical, catalog, kind, skips>>
  BY DEF SetActive, Ended, Retry, Watch, Crash, ledger, stores, world, job
<1>2. CASE SetActive(d)
  <2>1. PICK pc \in {"persist", "wait"} : Goto(d, pc) /\ p[d].pc = "activate"  BY <1>2 DEF SetActive, At
  <2>2. pc \in Later /\ pc \in Pcs \ Ticking /\ pc \notin Leased /\ p[d].pc \in Later
    BY <2>1, PlanningPcs DEF Pcs, Planning, Ticking, Leased
  <2>3. p[d].by # "watch"  BY <2>2, PlanningPcs DEF SchedInv, LeaseInv
  <2> QED  BY <2>1, <2>2, <2>3, GotoCalm, <1>1, FrameSame, CalmAct
<1>3. CASE Ended(d)
  <2>1. PICK pc \in {"backoff", "conclude"}, out \in {"success", "failure"} :
          p' = [p EXCEPT ![d].pc = pc, ![d].out = out] /\ p[d].pc = "wait"
    BY <1>3 DEF Ended, Result, At
  <2>2. pc \in Later /\ out \in Outs /\ p[d].pc \in Later  BY <2>1, PlanningPcs DEF Outs
  <2> QED  BY <2>1, <2>2, PcOutCalm, <1>1, FrameSame, CalmAct
<1>4. CASE Retry(d)
  <2>1. PICK a : a = [p[d] EXCEPT !.pc = "evidence"]  OBVIOUS
  <2>2. p[d] \in Row /\ "evidence" \in Pcs /\ p[d].pc = "backoff"
    BY <1>4 DEF IInv, Types, Pcs, Planning, Retry, At
  <2>3. PICK row : row = [a EXCEPT !.retry = p[d].retry + 1]  OBVIOUS
  <2>4. p[d].retry + 1 \in Nat  BY <2>2, RowFields
  <2>5. /\ a \in Row /\ a.pc = "evidence" /\ a.run = p[d].run /\ a.next = p[d].next
        /\ a.fresh = p[d].fresh /\ a.by = p[d].by
    BY <2>1, <2>2, GotoFields
  <2>6. /\ row \in Row /\ row.pc = "evidence" /\ row.run = p[d].run /\ row.next = p[d].next
        /\ row.fresh = p[d].fresh /\ row.by = p[d].by
    BY <2>3, <2>4, <2>5, RetryFields
  <2>7. p' = [p EXCEPT ![d] = row]  BY <1>4, <2>1, <2>3 DEF Retry
  <2>8. p[d].pc \in Later /\ row.pc \in Later  BY <2>2, <2>6, PlanningPcs
  <2> QED  BY <2>6, <2>7, <2>8, LaterCalm, <1>1, FrameSame, CalmAct
<1>5. CASE Sleep(d)  BY <1>1, <1>5, SleepCalm, FrameSame, CalmAct
<1>6. CASE Watch(d) /\ Close(d, p[d].run, "watch", Result(p[d].run), "check")
  <2>1. p[d].run \in Runs \cup {0} /\ Result(p[d].run) \in Outs
    BY RowFields DEF IInv, Types, Result, Outs
  <2>2. \E row : Calm(d, row)  BY <1>6, <2>1, CloseCalm
  <2> QED  BY <1>1, <2>2, FrameSame, CalmAct
<1> QED  BY <1>2, <1>3, <1>4, <1>5, <1>6 DEF Watch, Crash

LEMMA ConcludeSched ==
  ASSUME IInv, SchedInv, NEW d \in Dispatchers, Conclude(d)
  PROVE  SchedInv'
<1>1. /\ p[d].pc = "conclude" /\ UNCHANGED <<catalog, kind, skips>>
      /\ p[d].run \in Runs /\ p[d].out \in {"success", "failure"}
  BY DEF Conclude, At, stores, world, job, IInv, Placed, Fits
<1>2. \E row : Calm(d, row)
  <2>1. CASE Sleep(d)  BY <2>1, SleepCalm
  <2>2. CASE Goto(d, "persist")
    <3>1. "persist" \in Later /\ "persist" \in Pcs \ Ticking /\ "persist" \notin Leased /\ p[d].pc \in Later
      BY <1>1, PlanningPcs DEF Pcs, Planning, Ticking, Leased
    <3>2. p[d].by # "watch"  BY <3>1, PlanningPcs DEF SchedInv, LeaseInv
    <3> QED  BY <2>2, <3>1, <3>2, GotoCalm
  <2> QED  BY <2>1, <2>2 DEF Conclude, CutShort
<1>3. Frame
  <2>1. CASE UNCHANGED ledger  BY <1>1, <2>1, FrameSame DEF ledger
  <2>2. CASE FinalizeRunAttempt(p[d].run, LedgerState[p[d].out])
    <3>1. LedgerState[p[d].out] \in {"succeeded"} \cup Retryable
      BY <1>1 DEF LedgerState, Retryable
    <3> QED  BY <1>1, <2>2, <3>1, FinalizedFrame DEF IInv
  <2> QED  BY <2>1, <2>2 DEF Conclude, Locked
<1> QED  BY <1>1, <1>2, <1>3, CalmAct

LEMMA CancelSched ==
  ASSUME IInv, SchedInv, Cancel \/ Outside \/ UNCHANGED vars
  PROVE  SchedInv'
<1>1. UNCHANGED <<catalog, kind, skips, p>>
  BY DEF Cancel, CancelJob, CloseCancelled, RecordCancelled, CancelDies, Outside, CommandExits,
         SlotComesDue, RepairIndex, vars, stores, world, job
<1>2. Frame
  <2>1. CASE UNCHANGED <<attempt, logical>>  BY <1>1, <2>1, FrameSame
  <2>2. CASE CloseCancelled /\ FinalizeRunAttempt(c.run, "interrupted")
    <3>1. c.run \in Runs  BY <2>2 DEF CloseCancelled, IInv, Placed
    <3>2. "interrupted" \in {"succeeded"} \cup Retryable  BY DEF Retryable
    <3> QED  BY <1>1, <2>2, <3>1, <3>2, FinalizedFrame DEF IInv
  <2> QED
    BY <2>1, <2>2 DEF Cancel, CancelJob, CloseCancelled, RecordCancelled, CancelDies, Outside, CommandExits,
       SlotComesDue, RepairIndex, RepairDueProjection, vars, stores, world, job, ledger, Locked
<1> QED  BY <1>1, <1>2, AsideSched

-----------------------------------------------------------------------------
(* The evaluation of a tick: the job object is new, and nobody else is in a    *)
(* tick.                                                                     *)

LEMMA PlannedFields ==
  ASSUME IInv, NEW d \in Dispatchers, NEW run \in Runs \cup {0}, NEW next \in Nat, Planned(d, run, next)
  PROVE  \E row \in Row :
            /\ p' = [p EXCEPT ![d] = row] /\ row.by = "reaper" /\ row.fresh /\ row.run = run
            /\ row.retry = 0 /\ row.out = "none"
            /\ \/ run = 0 /\ next = 0 /\ row.pc = "rewrite" /\ row.next = catalog
               \/ run # 0 /\ next = 0 /\ row.pc = "evidence" /\ row.next = 0
               \/ next # 0 /\ row.pc = "tail" /\ row.next = next
<1>1. catalog \in Nat  BY DEF IInv, Types
<1>2. CASE run = 0 /\ next = 0
  <2>1. PICK row : row = [Asleep EXCEPT !.pc = "rewrite", !.next = catalog]  OBVIOUS
  <2>2. /\ row \in Row /\ row.pc = "rewrite" /\ row.next = catalog /\ row.by = "reaper" /\ row.fresh
        /\ row.run = 0 /\ row.retry = 0 /\ row.out = "none"
    BY <1>1, <2>1 DEF Asleep, Row, Pcs, Leased, Outs
  <2>3. p' = [p EXCEPT ![d] = row]  BY <1>2, <2>1 DEF Planned
  <2> QED  BY <1>2, <2>2, <2>3
<1>3. CASE ~(run = 0 /\ next = 0)
  <2>1. PICK pc \in {"evidence", "tail"} : pc = IF next = 0 THEN "evidence" ELSE "tail"  OBVIOUS
  <2>2. PICK row : row = [Asleep EXCEPT !.pc = pc, !.run = run, !.next = next]  OBVIOUS
  <2>3. /\ row \in Row /\ row.pc = pc /\ row.next = next /\ row.by = "reaper" /\ row.fresh
        /\ row.run = run /\ row.retry = 0 /\ row.out = "none"
    BY <2>2 DEF Asleep, Row, Pcs, Planning, Outs
  <2>4. p' = [p EXCEPT ![d] = row]  BY <1>3, <2>1, <2>2 DEF Planned
  <2> QED  BY <1>3, <2>1, <2>3, <2>4
<1> QED  BY <1>2, <1>3

LEMMA Alone ==
  ASSUME SchedInv, NEW d \in Dispatchers, Holds(d), NEW e \in Dispatchers \ {d}, p[e].pc \in Planning
  PROVE  p[e].pc \in Later /\ p[e].pc # "tail"
<1>1. p[e].pc \in Ticking => Holds(e)  BY PlanningPcs DEF SchedInv, LeaseInv, Holds
<1> QED  BY <1>1, PlanningPcs DEF SchedInv, LeaseInv

LEMMA PlanSched ==
  ASSUME IInv, SchedInv, NEW d \in Dispatchers, p[d].pc \in {"reap", "evaluate"},
         NEW run \in Runs \cup {0}, NEW next \in Nat, Planned(d, run, next),
         Frame, UNCHANGED <<catalog, kind>>, skips \subseteq skips',
         NEW n \in Nat,
         n = IF next # 0 THEN next ELSE IF run = 0 THEN catalog ELSE attempt'[run].slot + 1,
         catalog <= n,
         \A s \in Slots : s < n /\ logical'[s] = "none" => \E t \in skips' : t <= s,
         run # 0 => attempt'[run].slot \in Nat /\ attempt'[run].slot < n,
         run # 0 /\ next = 0 => \A s \in Slots : catalog <= s /\ s < n => Known(s)'
  PROVE  SchedInv'
<1>1. PICK row \in Row :
        /\ p' = [p EXCEPT ![d] = row] /\ row.by = "reaper" /\ row.fresh /\ row.run = run
        /\ \/ run = 0 /\ next = 0 /\ row.pc = "rewrite" /\ row.next = catalog
           \/ run # 0 /\ next = 0 /\ row.pc = "evidence" /\ row.next = 0
           \/ next # 0 /\ row.pc = "tail" /\ row.next = next
  BY PlannedFields
<1>2. p'[d] = row /\ \A e \in Dispatchers \ {d} : p'[e] = p[e]
  BY <1>1 DEF IInv, Types
<1>3. Holds(d)
  BY PlanningPcs DEF SchedInv, LeaseInv, Holds, Leased
<1>4. \A e \in Dispatchers \ {d} : Keeps(e)
  BY <1>2, PlanningPcs DEF SchedInv, LeaseInv, Keeps
<1>5. ASSUME NEW e \in Dispatchers \ {d}, p'[e].pc \in Planning
      PROVE  /\ Pending(e)' = Pending(e) /\ Pending(e) \in Nat
             /\ p[e].pc \in Later /\ p[e].pc # "tail" /\ p[e].pc \in Planning
  BY <1>2, <1>3, <1>4, <1>5, Alone, PendingKept, PlansNat
<1>6. Pending(d)' = n
  <2>1. CASE row.pc = "evidence"
    <3>1. Pending(d)' = Latest(0, attempt'[run].slot + 1) /\ attempt'[run].slot \in Nat
      BY <1>1, <1>2, <2>1, PlanningPcs DEF Pending, Latest
    <3> QED  BY <1>1, <2>1, <3>1 DEF Latest
  <2>2. CASE row.pc \in {"tail", "rewrite"}
    <3>1. Pending(d)' = row.next  BY <1>2, <2>2, PlanningPcs DEF Pending
    <3> QED  BY <1>1, <2>2, <3>1
  <2> QED  BY <1>1, <2>1, <2>2
<1>7. catalog \in Nat  BY DEF IInv, Types
<1>8. LeaseInv'
  <2>1. \A e \in Dispatchers : Holds(e)' => e = d
    BY <1>2, <1>3 DEF SchedInv, LeaseInv, Holds
  <2>2. \A e \in Dispatchers : p'[e].by = "watch" => p'[e].pc \in Watching
    BY <1>1, <1>2 DEF SchedInv, LeaseInv
  <2> QED  BY <2>1, <2>2 DEF LeaseInv
<1>9. JumpInv'
  <2>1. Handoff' <=> Handoff  BY DEF Handoff
  <2>2. ASSUME NEW e \in Dispatchers, p'[e].pc \in Later /\ (p'[e].fresh \/ Handoff)
        PROVE  p'[e].next = 0
    <3>1. CASE e = d  BY <1>1, <1>2, <2>2, <3>1, PlanningPcs
    <3>2. CASE e # d  BY <1>2, <2>2, <3>2 DEF SchedInv, JumpInv
    <3> QED  BY <3>1, <3>2
  <2>3. ASSUME NEW e \in Dispatchers, p'[e].pc = "tail" /\ p'[e].run # 0
        PROVE  attempt'[p'[e].run].slot < p'[e].next
    <3>1. CASE e = d  BY <1>1, <1>2, <2>3, <3>1
    <3>2. CASE e # d  BY <1>2, <1>5, <2>3, <3>2, PlanningPcs
    <3> QED  BY <3>1, <3>2
  <2> QED  BY <2>1, <2>2, <2>3 DEF JumpInv
<1>10. AccountInv'
  <2>1. Accounted(catalog)'  BY AccountedKept DEF SchedInv, AccountInv, Accounted
  <2>2. ASSUME NEW e \in Dispatchers, p'[e].pc \in Planning PROVE Accounted(Pending(e))'
    <3>1. CASE e = d  BY <1>6, <3>1 DEF Accounted
    <3>2. CASE e # d
      <4>1. Pending(e)' = Pending(e) /\ Accounted(Pending(e))
        BY <1>5, <2>2, <3>2 DEF SchedInv, AccountInv
      <4> QED  BY <4>1, AccountedKept DEF Accounted
    <3> QED  BY <3>1, <3>2
  <2> QED  BY <2>1, <2>2 DEF AccountInv
<1>11. BackInv'
  <2>1. ASSUME NEW e \in Dispatchers, p'[e].pc \in Later PROVE Between(catalog, Pending(e))'
    <3>1. CASE e = d
      <4>1. run # 0 /\ next = 0  BY <1>1, <1>2, <2>1, <3>1, PlanningPcs
      <4> QED  BY <1>6, <3>1, <4>1 DEF Between
    <3>2. CASE e # d
      <4>1. Pending(e)' = Pending(e) /\ Between(catalog, Pending(e))
        BY <1>2, <1>5, <2>1, <3>2, PlanningPcs DEF SchedInv, BackInv
      <4> QED  BY <4>1, BetweenKept DEF Between
    <3> QED  BY <3>1, <3>2
  <2>2. ASSUME NEW f \in Dispatchers, p'[f].pc \in Planning, p'[f].fresh
        PROVE  Between(Pending(f), catalog)'
    <3>1. CASE f = d
      <4>1. Pending(f)' = n  BY <1>6, <3>1
      <4>2. \A s \in Slots : ~(n <= s /\ s < catalog)  BY <1>7, Ids
      <4> QED  BY <4>1, <4>2 DEF Between
    <3>2. CASE f # d
      <4>1. Pending(f)' = Pending(f) /\ Between(Pending(f), catalog)
        BY <1>2, <1>5, <2>2, <3>2 DEF SchedInv, BackInv
      <4> QED  BY <4>1, BetweenKept DEF Between
    <3> QED  BY <3>1, <3>2
  <2>3. ASSUME NEW f \in Dispatchers, p'[f].pc \in Planning, p'[f].fresh,
               NEW e \in Dispatchers, p'[e].pc \in Planning
        PROVE  /\ p'[e].pc # "tail" => Between(Pending(f), Pending(e))'
               /\ ~p'[e].fresh => p'[e].pc \in Later
    <3>1. ~p'[e].fresh => p'[e].pc \in Later  BY <1>1, <1>2, <1>5, <2>3
    <3>2. ASSUME p'[e].pc # "tail", NEW s \in Slots, Pending(f)' <= s, s < Pending(e)'
          PROVE  Known(s)'
      <4>1. CASE s < catalog  BY <2>2, <2>3, <3>2, <4>1 DEF Between
      <4>2. CASE catalog <= s
        <5>1. CASE e = d
          <6>1. CASE row.pc = "evidence"  BY <1>1, <1>6, <3>2, <4>2, <5>1, <6>1
          <6>2. CASE row.pc = "rewrite"
            <7>1. n = catalog  BY <1>1, <6>2
            <7> QED  BY <1>6, <1>7, <3>2, <4>2, <5>1, <7>1, Ids
          <6> QED  BY <1>1, <1>2, <3>2, <5>1, <6>1, <6>2
        <5>2. CASE e # d
          <6>1. p'[e].pc \in Later  BY <1>2, <1>5, <2>3, <5>2
          <6> QED  BY <2>1, <3>2, <4>2, <6>1 DEF Between
        <5> QED  BY <5>1, <5>2
      <4> QED  BY <1>7, <4>1, <4>2, Ids
    <3> QED  BY <3>1, <3>2 DEF Between
  <2> QED  BY <2>1, <2>2, <2>3 DEF BackInv
<1> QED  BY <1>8, <1>9, <1>10, <1>11 DEF SchedInv

LEMMA LaunchSched ==
  ASSUME IInv, SchedInv, NEW d \in Dispatchers, p[d].pc \in {"reap", "evaluate"},
         NEW first \in Nat, NEW k \in Slots, first <= k, k <= due, catalog <= first,
         LaunchSlot(d, first, k), UNCHANGED <<catalog, kind>>
  PROVE  SchedInv'
<1>1. due \in Nat /\ catalog \in Nat /\ k \in Nat  BY Ids DEF IInv, Types
<1>2. PICK next \in Nat : next = IF k + 1 <= due THEN due + 1 ELSE 0  BY <1>1
<1>3. PICK r \in Runs :
        /\ attempt[r].state = "none"
        /\ attempt' = [attempt EXCEPT ![r] = [slot |-> k, state |-> "claimed", pending |-> FALSE]]
        /\ logical' = [logical EXCEPT ![k] = "claimed"]
        /\ Planned(d, r, next)
  BY <1>2 DEF LaunchSlot, NewRuns, ClaimLogicalRun
<1>4. skips' = skips \cup first..k-1 \cup (IF k + 1 <= due THEN {k + 1} ELSE {}) \cup catalog..first-1
  BY DEF LaunchSlot
<1>5. attempt'[r].slot = k /\ \A q \in Runs \ {r} : attempt'[q] = attempt[q]
  BY <1>3 DEF IInv, Types
<1>6. logical'[k] # "none" /\ \A s \in Slots : logical[s] # "none" => logical'[s] # "none"
  BY <1>3 DEF IInv, Types
<1>7. Frame  BY <1>3, <1>4, <1>5, <1>6 DEF Frame, Known
<1>8. r # 0 /\ r \in Runs \cup {0}  BY Ids
<1>9. PICK n \in Nat : n = IF next # 0 THEN next ELSE k + 1  BY <1>1
<1>10. catalog <= n /\ k < n  BY <1>1, <1>2, <1>9
<1>11. \A s \in Slots : catalog <= s /\ s < k => s \in skips'  BY <1>1, <1>4, Ids
<1>12. ASSUME NEW s \in Slots, s < n, logical'[s] = "none" PROVE \E t \in skips' : t <= s
  <2>1. s \in Nat /\ s # k  BY <1>6, <1>12, Ids
  <2>2. CASE s < catalog
    BY <1>7, <1>4, <1>12, <2>2, AccountedKept DEF SchedInv, AccountInv
  <2>3. CASE catalog <= s /\ s < k
    <3>1. s \in skips' /\ s <= s  BY <1>11, <2>1, <2>3
    <3> QED  BY <3>1
  <2>4. CASE k < s
    <3>1. next # 0  BY <1>1, <1>9, <1>12, <2>1, <2>4
    <3>2. k + 1 \in skips'  BY <1>2, <1>4, <3>1
    <3>3. k + 1 <= s  BY <1>1, <2>1, <2>4
    <3> QED  BY <3>2, <3>3
  <2> QED  BY <1>1, <2>1, <2>2, <2>3, <2>4
<1>13. ASSUME next = 0, NEW s \in Slots, catalog <= s, s < n PROVE Known(s)'
  <2>1. s \in Nat /\ (s < k \/ s = k)  BY <1>1, <1>9, <1>13, Ids
  <2>2. CASE s < k
    <3>1. s \in skips'  BY <1>11, <1>13, <2>2
    <3> QED  BY <3>1 DEF Known
  <2>3. CASE s = k  BY <1>6, <2>3 DEF Known
  <2> QED  BY <2>1, <2>2, <2>3
<1>14. n = IF next # 0 THEN next ELSE IF r = 0 THEN catalog ELSE attempt'[r].slot + 1
  BY <1>5, <1>8, <1>9
<1>15. attempt'[r].slot \in Nat /\ attempt'[r].slot < n  BY <1>1, <1>5, <1>10
<1>16. skips \subseteq skips'  BY <1>4
<1> QED  BY <1>3, <1>7, <1>8, <1>10, <1>12, <1>13, <1>14, <1>15, <1>16, PlanSched

(* A tick that launches nothing.                                             *)
LEMMA IdleSched ==
  ASSUME IInv, SchedInv, NEW d \in Dispatchers, p[d].pc \in {"reap", "evaluate"},
         NEW next \in Nat, Planned(d, 0, next), UNCHANGED <<attempt, logical, catalog, kind>>,
         skips \subseteq skips', next # 0 => catalog <= next,
         \A s \in Slots : catalog <= s /\ s < next => \E t \in skips' : t <= s
  PROVE  SchedInv'
<1>1. Frame  BY FrameSame
<1>2. catalog \in Nat /\ 0 \in Runs \cup {0}  BY DEF IInv, Types
<1>3. PICK n \in Nat : n = IF next # 0 THEN next ELSE catalog  BY <1>2
<1>4. catalog <= n  BY <1>2, <1>3
<1>5. ASSUME NEW s \in Slots, s < n, logical'[s] = "none" PROVE \E t \in skips' : t <= s
  <2>1. s \in Nat  BY Ids
  <2>2. CASE s < catalog  BY <1>1, <1>5, <2>2, AccountedKept DEF SchedInv, AccountInv
  <2>3. CASE catalog <= s
    <3>1. next # 0  BY <1>2, <1>3, <1>5, <2>1, <2>3
    <3> QED  BY <1>3, <1>5, <2>3, <3>1
  <2> QED  BY <1>2, <2>1, <2>2, <2>3
<1> QED  BY <1>1, <1>2, <1>3, <1>4, <1>5, PlanSched

LEMMA EvaluateSched ==
  ASSUME IInv, SchedInv, NEW d \in Dispatchers, Evaluate(d)
  PROVE  SchedInv'
<1>1. p[d].pc \in {"reap", "evaluate"} /\ UNCHANGED <<catalog, kind>>
  BY DEF Evaluate, At, job
<1>2. due \in Nat /\ due \in Slots /\ catalog \in Nat  BY Ids DEF IInv, Types
<1>3. CASE InFlight \/ catalog > due
  <2>1. Planned(d, 0, 0) /\ UNCHANGED <<attempt, logical, skips>>
    BY <1>3 DEF Evaluate, ledger
  <2>2. \A s \in Slots : ~(s < 0)  BY Ids
  <2> QED  BY <1>1, <2>1, <2>2, IdleSched
<1>4. CASE ~(InFlight \/ catalog > due) /\ Misfire(d)
  <2>1. /\ Planned(d, 0, due + 1) /\ UNCHANGED <<attempt, logical>> /\ skips' = skips \cup {catalog}
        /\ due + 1 \in Nat /\ catalog <= due + 1
    BY <1>2, <1>4 DEF Misfire, ledger
  <2>2. catalog \in skips'  BY <2>1
  <2>3. \A s \in Slots : catalog <= s => \E t \in skips' : t <= s  BY <2>2
  <2>4. skips \subseteq skips'  BY <2>1
  <2> QED  BY <1>1, <2>1, <2>3, <2>4, IdleSched
<1>5. ASSUME catalog <= due, NEW first \in {due, catalog}, NEW k \in first..due,
             LaunchSlot(d, first, k) \/ PassSlots(d, first, k) \/ DeferSlot(d, first, k)
      PROVE  SchedInv'
  <2>1. /\ first \in Nat /\ k \in Nat /\ catalog <= first /\ first <= k /\ k <= due /\ catalog <= k
        /\ k + 1 \in Nat /\ k + 1 # 0
    BY <1>2, <1>5
  <2>2. CASE LaunchSlot(d, first, k)
    <3>1. k \in Slots  BY <1>2, <2>1, LedgerConstants DEF Slots, IInv, Types
    <3> QED  BY <1>1, <2>1, <2>2, <3>1, LaunchSched
  <2>3. CASE PassSlots(d, first, k)
    <3>1. /\ Planned(d, 0, k + 1) /\ UNCHANGED <<attempt, logical>> /\ skips' = skips \cup catalog..k
          /\ catalog <= k + 1
      BY <1>2, <2>1, <2>3 DEF PassSlots, ledger
    <3>2. ASSUME NEW s \in Slots, catalog <= s, s < k + 1 PROVE s \in skips' /\ s <= s
      BY <1>2, <2>1, <3>1, <3>2, Ids
    <3>3. skips \subseteq skips'  BY <3>1
    <3> QED  BY <1>1, <2>1, <3>1, <3>2, <3>3, IdleSched
  <2>4. CASE DeferSlot(d, first, k)
    <3>1. PICK next \in Nat : next = IF k > first THEN k ELSE 0  BY <2>1
    <3>2. /\ Planned(d, 0, next) /\ UNCHANGED <<attempt, logical>> /\ skips' = skips \cup catalog..k-1
      BY <2>4, <3>1 DEF DeferSlot, Locked, ledger
    <3>3. next # 0 => next = k  BY <3>1
    <3>4. ASSUME NEW s \in Slots, catalog <= s, s < next PROVE s \in skips' /\ s <= s
      <4>1. s \in Nat  BY Ids
      <4>2. next = k  BY <3>1, <3>4, <4>1
      <4> QED  BY <1>2, <2>1, <3>2, <3>4, <4>1, <4>2
    <3>5. skips \subseteq skips'  BY <3>2
    <3> QED  BY <1>1, <2>1, <3>2, <3>3, <3>4, <3>5, IdleSched
  <2> QED  BY <1>5, <2>2, <2>3, <2>4
<1>6. CASE ~(InFlight \/ catalog > due) /\ ~Misfire(d)
  <2>1. PICK first \in {due, catalog} : first = IF policy = "latest_only" THEN due ELSE catalog
    OBVIOUS
  <2>2. \E k \in first..due :
           LaunchSlot(d, first, k) \/ PassSlots(d, first, k) \/ DeferSlot(d, first, k)
    BY <1>6, <2>1 DEF Evaluate
  <2>3. catalog <= due  BY <1>2, <1>6
  <2> QED  BY <1>5, <2>1, <2>2, <2>3
<1> QED  BY <1>3, <1>4, <1>6

-----------------------------------------------------------------------------
(* The steps that write the schedule.                                        *)

(* What a write leaves of the schedule is known over every slot it goes back.  *)
Steady == catalog' = catalog \/ (UNCHANGED <<logical, skips>> /\ Between(catalog', catalog))

(* d has written what it had to, and goes on with nothing or with its run.     *)
Wrote(d) ==
  /\ p'[d].pc \in {"idle", "evidence", "watch"} /\ p'[d].by # "watch"
  /\ p'[d].pc = "evidence" =>
       /\ p[d].pc = "tail" /\ ~p'[d].fresh /\ p'[d].run = p[d].run /\ p[d].run \in Runs
       /\ p'[d].next \in {0, p[d].next} /\ (Handoff => p'[d].next = 0)
  /\ \A e \in Dispatchers \ {d} :
       /\ p'[e].pc = p[e].pc /\ p'[e].run = p[e].run /\ p'[e].next = p[e].next /\ p'[e].by = p[e].by
       /\ p'[e].fresh => p[e].fresh
       /\ ~p[d].fresh \/ p[d].pc = "rewrite" => p'[e].fresh = p[e].fresh
       /\ p[d].fresh /\ p[d].pc # "rewrite" /\ p[e].pc \in Planning => ~p'[e].fresh

LEMMA WriteSched ==
  ASSUME IInv, SchedInv, NEW d \in Dispatchers, p[d].pc \in Planning, Wrote(d),
         NEW n \in Nat, n = Pending(d), catalog' = Patched(d, n),
         UNCHANGED <<attempt, logical, skips, kind>>
  PROVE  SchedInv' /\ Steady
<1>1. catalog \in Nat /\ catalog' = (IF p[d].fresh THEN n ELSE Latest(n, catalog)) /\ catalog' \in Nat
  BY DEF IInv, Types, Patched, Latest
<1>2. (Handoff' <=> Handoff) /\ \A s : Known(s)' = Known(s)  BY DEF Handoff, Known
<1>3. \A a, b : Between(a, b)' = (\A s \in Slots : a' <= s /\ s < b' => Known(s))
  BY <1>2 DEF Between
<1>4. /\ "evidence" \in Later /\ "evidence" \notin Ticking \cup Leased
      /\ {"idle", "watch"} \cap (Planning \cup Leased) = {}
  BY PlanningPcs DEF Leased, Ticking, Planning
<1>5. ASSUME NEW e \in Dispatchers \ {d}
      PROVE  /\ Pending(e)' = Pending(e) /\ p'[e].pc = p[e].pc /\ (p'[e].fresh => p[e].fresh)
             /\ Holds(e)' = Holds(e)
  BY <1>5 DEF Wrote, Pending, Holds
<1>6. ASSUME p'[d].pc \in Planning
      PROVE  /\ p'[d].pc = "evidence" /\ p[d].pc = "tail" /\ ~p'[d].fresh
             /\ Pending(d)' \in Nat /\ Pending(d)' <= n
  <2>1. /\ p'[d].pc = "evidence" /\ p[d].pc = "tail" /\ ~p'[d].fresh /\ p[d].run \in Runs
        /\ p'[d].run = p[d].run /\ p'[d].next \in {0, p[d].next}
    BY <1>4, <1>6 DEF Wrote
  <2>2. PICK slot \in Nat : slot = attempt[p[d].run].slot  BY <2>1, PendingNat DEF IInv
  <2>3. n = p[d].next  BY <2>1, PlanningPcs DEF Pending
  <2>4. slot < n  BY <2>1, <2>2, <2>3, Ids DEF SchedInv, JumpInv
  <2>5. Pending(d)' = Latest(p'[d].next, slot + 1)  BY <1>4, <2>1, <2>2 DEF Pending
  <2>6. p'[d].next \in {0, n}  BY <2>1, <2>3
  <2>7. Pending(d)' \in Nat /\ Pending(d)' <= n  BY <2>4, <2>5, <2>6 DEF Latest
  <2> QED  BY <2>1, <2>7
<1>8. LeaseInv'
  <2>1. ~Holds(d)'  BY <1>4 DEF Wrote, Holds
  <2>2. \A e \in Dispatchers : p'[e].by = "watch" => p'[e].pc \in Watching
    BY DEF Wrote, SchedInv, LeaseInv
  <2> QED  BY <1>5, <2>1, <2>2 DEF SchedInv, LeaseInv
<1>9. JumpInv'
  <2>1. ASSUME NEW e \in Dispatchers, p'[e].pc \in Later, p'[e].fresh \/ Handoff PROVE p'[e].next = 0
    <3>1. CASE e = d  BY <1>4, <2>1, <3>1, PlanningPcs DEF Wrote
    <3>2. CASE e # d  BY <2>1, <3>2 DEF Wrote, SchedInv, JumpInv
    <3> QED  BY <3>1, <3>2
  <2>2. ASSUME NEW e \in Dispatchers, p'[e].pc = "tail", p'[e].run # 0
        PROVE  attempt'[p'[e].run].slot < p'[e].next
    BY <2>2 DEF Wrote, SchedInv, JumpInv
  <2> QED  BY <1>2, <2>1, <2>2 DEF JumpInv
<1>10. Accounted(n) /\ Accounted(catalog) /\ Accounted(catalog')
  <2>1. Accounted(n) /\ Accounted(catalog)  BY DEF SchedInv, AccountInv
  <2>2. catalog' = n \/ catalog' = catalog  BY <1>1 DEF Latest
  <2> QED  BY <2>1, <2>2
<1>11. AccountInv'
  <2>1. Accounted(catalog)'  BY <1>10 DEF Accounted
  <2>2. ASSUME NEW e \in Dispatchers, p'[e].pc \in Planning PROVE Accounted(Pending(e))'
    <3>1. CASE e = d
      <4>1. PICK m \in Nat : m = Pending(d)' /\ m <= n  BY <1>6, <2>2, <3>1
      <4>2. \A s \in Slots : s < m => s < n  BY <4>1, Ids
      <4>3. Accounted(m)  BY <1>10, <4>2 DEF Accounted
      <4> QED  BY <3>1, <4>1, <4>3 DEF Accounted
    <3>2. CASE e # d
      <4>1. Pending(e)' = Pending(e) /\ Accounted(Pending(e))
        BY <1>5, <2>2, <3>2 DEF SchedInv, AccountInv
      <4> QED  BY <4>1 DEF Accounted
    <3> QED  BY <3>1, <3>2
  <2> QED  BY <2>1, <2>2 DEF AccountInv
<1>12. Between(catalog', catalog)
  <2>1. CASE p[d].fresh  BY <1>1, <2>1 DEF SchedInv, BackInv
  <2>2. CASE ~p[d].fresh
    <3>1. catalog <= catalog'  BY <1>1, <2>2 DEF Latest
    <3>2. \A s \in Slots : ~(catalog' <= s /\ s < catalog)  BY <1>1, <3>1, Ids
    <3> QED  BY <3>2 DEF Between
  <2> QED  BY <2>1, <2>2
<1>13. BackInv'
  <2>1. ASSUME NEW e \in Dispatchers, p'[e].pc \in Later, NEW s \in Slots, catalog' <= s, s < Pending(e)'
        PROVE  Known(s)
    <3>1. CASE e = d
      <4>1. PICK m \in Nat : m = Pending(d)' /\ m <= n  BY <1>6, <2>1, <3>1, PlanningPcs
      <4>2. n <= catalog'  BY <1>1 DEF Latest
      <4> QED  BY <1>1, <2>1, <3>1, <4>1, <4>2, Ids
    <3>2. CASE e # d
      <4>1. p[e].pc \in Later /\ s < Pending(e)  BY <1>5, <2>1, <3>2
      <4>2. CASE p[d].fresh
        <5>1. Between(n, Pending(e))  BY <4>1, <4>2, PlanningPcs DEF SchedInv, BackInv
        <5> QED  BY <1>1, <2>1, <4>1, <4>2, <5>1 DEF Between
      <4>3. CASE ~p[d].fresh
        <5>1. Between(catalog, Pending(e))  BY <4>1 DEF SchedInv, BackInv
        <5>2. catalog <= s  BY <1>1, <2>1, <4>3, Ids DEF Latest
        <5> QED  BY <4>1, <5>1, <5>2 DEF Between
      <4> QED  BY <4>2, <4>3
    <3> QED  BY <3>1, <3>2
  <2>2. ASSUME NEW f \in Dispatchers, p'[f].pc \in Planning, p'[f].fresh
        PROVE  /\ f # d /\ p[f].pc \in Planning /\ p[f].fresh
               /\ p[d].pc # "tail" /\ p'[d].pc \notin Planning
               /\ \A e \in Dispatchers \ {d} : p'[e].fresh = p[e].fresh
    <3>1. f # d  BY <1>6, <2>2
    <3>2. p[f].pc \in Planning /\ p[f].fresh  BY <1>5, <2>2, <3>1
    <3>3. ~p[d].fresh \/ p[d].pc = "rewrite"  BY <2>2, <3>1, <3>2 DEF Wrote
    <3>4. p[d].pc # "tail"
      <4>1. ~p[d].fresh => p[d].pc \in Later  BY <3>2 DEF SchedInv, BackInv
      <4> QED  BY <3>3, <4>1, PlanningPcs
    <3>5. p'[d].pc \notin Planning  BY <1>6, <3>4
    <3> QED  BY <3>1, <3>2, <3>3, <3>4, <3>5 DEF Wrote
  <2>3. ASSUME NEW f \in Dispatchers, p'[f].pc \in Planning, p'[f].fresh
        PROVE  \A s \in Slots : Pending(f)' <= s /\ s < catalog' => Known(s)
    <3>1. f # d /\ p[f].pc \in Planning /\ p[f].fresh /\ p[d].pc # "tail"  BY <2>2, <2>3
    <3>2. Between(Pending(f), catalog) /\ Between(Pending(f), n)
      BY <3>1 DEF SchedInv, BackInv
    <3>3. Pending(f)' = Pending(f)  BY <1>5, <3>1
    <3>4. catalog' = n \/ catalog' = catalog  BY <1>1 DEF Latest
    <3> QED  BY <3>2, <3>3, <3>4 DEF Between
  <2>4. ASSUME NEW f \in Dispatchers, p'[f].pc \in Planning, p'[f].fresh,
               NEW e \in Dispatchers, p'[e].pc \in Planning
        PROVE  /\ p'[e].pc # "tail" => \A s \in Slots : Pending(f)' <= s /\ s < Pending(e)' => Known(s)
               /\ ~p'[e].fresh => p'[e].pc \in Later
    <3>1. f # d /\ p[f].pc \in Planning /\ p[f].fresh  BY <2>2, <2>4
    <3>2. e # d  BY <2>2, <2>4
    <3>3. p'[e].fresh = p[e].fresh  BY <2>2, <2>4, <3>2
    <3>4. /\ Pending(f)' = Pending(f) /\ Pending(e)' = Pending(e)
          /\ p'[e].pc = p[e].pc /\ p[e].pc \in Planning
      BY <1>5, <2>4, <3>1, <3>2
    <3>5. p'[e].pc # "tail" => Between(Pending(f), Pending(e))
      BY <3>1, <3>4 DEF SchedInv, BackInv
    <3>6. ~p'[e].fresh => p'[e].pc \in Later
      BY <3>1, <3>3, <3>4 DEF SchedInv, BackInv
    <3> QED  BY <3>4, <3>5, <3>6 DEF Between
  <2>5. \A e \in Dispatchers : p'[e].pc \in Later => Between(catalog, Pending(e))'
    BY <1>2, <2>1 DEF Between
  <2>6. \A f \in Dispatchers : p'[f].pc \in Planning /\ p'[f].fresh => Between(Pending(f), catalog)'
    BY <1>2, <2>3 DEF Between
  <2>7. \A f, e \in Dispatchers :
          p'[f].pc \in Planning /\ p'[f].fresh /\ p'[e].pc \in Planning =>
             /\ p'[e].pc # "tail" => Between(Pending(f), Pending(e))'
             /\ ~p'[e].fresh => p'[e].pc \in Later
    BY <1>2, <2>4 DEF Between
  <2> QED  BY <2>5, <2>6, <2>7 DEF BackInv
<1> QED  BY <1>8, <1>9, <1>11, <1>12, <1>13 DEF SchedInv, Steady

(* e's row is q, with an old job object if d has renewed meta.updated_at.      *)
Aged(d, e, q) ==
  /\ p'[e].pc = q.pc /\ p'[e].run = q.run /\ p'[e].next = q.next /\ p'[e].by = q.by
  /\ p'[e].out = q.out /\ p'[e].retry = q.retry
  /\ p'[e].fresh = IF p[d].fresh /\ q.pc \in Planning THEN FALSE ELSE q.fresh

LEMMA OutdatedFields ==
  ASSUME IInv, NEW d \in Dispatchers, NEW row \in Row, p' = Outdated([p EXCEPT ![d] = row], d)
  PROVE  Aged(d, d, row) /\ \A e \in Dispatchers \ {d} : Aged(d, e, p[e])
<1>1. p \in [Dispatchers -> Row]  BY DEF IInv, Types
<1>2. ASSUME NEW e \in Dispatchers, NEW q \in Row, q = IF e = d THEN row ELSE p[e]
      PROVE  Aged(d, e, q)
  <2>1. PICK g : g = [p EXCEPT ![d] = row]  OBVIOUS
  <2>2. g[e] = q  BY <1>1, <1>2, <2>1
  <2>3. p' = Outdated(g, d)  BY <2>1
  <2>4. p'[e] = IF p[d].fresh /\ g[e].pc \in Planning THEN [g[e] EXCEPT !.fresh = FALSE] ELSE g[e]
    BY <2>3 DEF Outdated
  <2>5. PICK old : old = [q EXCEPT !.fresh = FALSE]  OBVIOUS
  <2>6. /\ old.pc = q.pc /\ old.run = q.run /\ old.next = q.next /\ old.by = q.by
        /\ old.out = q.out /\ old.retry = q.retry /\ old.fresh = FALSE
    BY <2>5 DEF Row
  <2>7. p'[e] = IF p[d].fresh /\ q.pc \in Planning THEN old ELSE q  BY <2>2, <2>4, <2>5
  <2> QED  BY <2>6, <2>7 DEF Aged
<1>3. Aged(d, d, row)  BY <1>2
<1>4. ASSUME NEW e \in Dispatchers \ {d} PROVE Aged(d, e, p[e])
  <2>1. p[e] \in Row  BY <1>1
  <2> QED  BY <1>2, <2>1
<1> QED  BY <1>3, <1>4

LEMMA OutdatedWrote ==
  ASSUME IInv, NEW d \in Dispatchers, NEW row \in Row, p' = Outdated([p EXCEPT ![d] = row], d),
         p[d].pc # "rewrite", row.pc \in {"idle", "evidence", "watch"}, row.by # "watch",
         row.pc = "evidence" =>
            /\ p[d].pc = "tail" /\ row.run = p[d].run /\ p[d].run \in Runs /\ row.fresh = p[d].fresh
            /\ row.next \in {0, p[d].next} /\ (Handoff => row.next = 0)
  PROVE  Wrote(d)
<1>1. Aged(d, d, row) /\ \A e \in Dispatchers \ {d} : Aged(d, e, p[e])
  BY OutdatedFields
<1>2. /\ p'[d].pc = row.pc /\ p'[d].run = row.run /\ p'[d].next = row.next /\ p'[d].by = row.by
      /\ p'[d].fresh = IF p[d].fresh /\ row.pc \in Planning THEN FALSE ELSE row.fresh
  BY <1>1 DEF Aged
<1>3. ASSUME NEW e \in Dispatchers \ {d}
      PROVE  /\ p'[e].pc = p[e].pc /\ p'[e].run = p[e].run /\ p'[e].next = p[e].next /\ p'[e].by = p[e].by
             /\ p'[e].fresh = IF p[d].fresh /\ p[e].pc \in Planning THEN FALSE ELSE p[e].fresh
  BY <1>1 DEF Aged
<1>4. "evidence" \in Planning  BY DEF Planning
<1> QED  BY <1>2, <1>3, <1>4 DEF Wrote

LEMMA AsleepBy == Asleep \in Row /\ Asleep.pc = "idle" /\ Asleep.by = "reaper"
BY AsleepRow DEF Asleep

LEMMA EndTickSched ==
  ASSUME IInv, SchedInv, NEW d \in Dispatchers, EndTick(d)
  PROVE  SchedInv' /\ Steady
<1>1. /\ p[d].pc = "tail" /\ p[d] \in Row /\ catalog' = Patched(d, p[d].next)
      /\ UNCHANGED <<attempt, logical, skips, kind>>
  BY DEF EndTick, At, IInv, Types, ledger, world, job
<1>2. Pending(d) = p[d].next /\ p[d].next \in Nat /\ p[d].pc \in Planning
  BY <1>1, PlanningPcs, RowFields DEF Pending
<1>3. PICK kept \in Nat : kept = IF Handoff THEN 0 ELSE p[d].next  BY <1>2
<1>4. PICK a : a = [p[d] EXCEPT !.pc = "evidence"]  OBVIOUS
<1>5. PICK row : row = [a EXCEPT !.next = kept]  OBVIOUS
<1>6. "evidence" \in Pcs  BY DEF Pcs, Planning
<1>7. /\ a \in Row /\ a.pc = "evidence" /\ a.run = p[d].run /\ a.fresh = p[d].fresh /\ a.by = p[d].by
  BY <1>1, <1>4, <1>6, GotoFields
<1>8. /\ row \in Row /\ row.pc = "evidence" /\ row.run = p[d].run /\ row.fresh = p[d].fresh
      /\ row.by = p[d].by /\ row.next = kept
  BY <1>5, <1>7 DEF Row
<1>9. p[d].by # "watch"  BY <1>1, PlanningPcs DEF SchedInv, LeaseInv
<1>10. CASE p[d].run = 0
  <2>1. p' = Outdated([p EXCEPT ![d] = Asleep], d)  BY <1>10 DEF EndTick
  <2>2. Wrote(d)  BY <1>1, <2>1, AsleepBy, OutdatedWrote
  <2> QED  BY <1>1, <1>2, <2>2, WriteSched
<1>11. CASE p[d].run # 0
  <2>1. p[d].run \in Runs  BY <1>1, <1>11, RowFields
  <2>2. row = [p[d] EXCEPT !.pc = "evidence", !.next = kept]  BY <1>4, <1>5
  <2>3. p' = Outdated([p EXCEPT ![d] = row], d)  BY <1>3, <1>11, <2>2 DEF EndTick
  <2>4. row.next \in {0, p[d].next} /\ (Handoff => row.next = 0)  BY <1>3, <1>8
  <2>5. Wrote(d)  BY <1>1, <1>8, <1>9, <2>1, <2>3, <2>4, OutdatedWrote
  <2> QED  BY <1>1, <1>2, <2>5, WriteSched
<1> QED  BY <1>10, <1>11

LEMMA EndIdleTickSched ==
  ASSUME IInv, SchedInv, NEW d \in Dispatchers, EndIdleTick(d)
  PROVE  SchedInv' /\ Steady
<1>1. /\ p[d].pc = "rewrite" /\ p[d] \in Row /\ catalog' = Patched(d, p[d].next)
      /\ UNCHANGED <<attempt, logical, skips, kind>> /\ p' = [p EXCEPT ![d] = Asleep]
      /\ p \in [Dispatchers -> Row]
  BY DEF EndIdleTick, At, Sleep, IInv, Types, ledger, world, job
<1>2. Pending(d) = p[d].next /\ p[d].next \in Nat /\ p[d].pc \in Planning
  BY <1>1, PlanningPcs, RowFields DEF Pending
<1>3. p'[d] = Asleep /\ \A e \in Dispatchers \ {d} : p'[e] = p[e]  BY <1>1
<1>4. Wrote(d)  BY <1>1, <1>3, AsleepBy DEF Wrote
<1> QED  BY <1>1, <1>2, <1>4, WriteSched

LEMMA PersistSched ==
  ASSUME IInv, SchedInv, NEW d \in Dispatchers, PersistSchedule(d)
  PROVE  SchedInv' /\ Steady
<1>1. /\ p[d].pc = "persist" /\ p[d] \in Row /\ catalog' = Patched(d, NextAfterRun(d))
      /\ UNCHANGED <<attempt, logical, skips, kind>>
  BY DEF PersistSchedule, At, IInv, Types, ledger, world, job
<1>2. p[d].pc \in Later /\ p[d].pc \in Planning /\ p[d].pc \notin Ticking  BY <1>1, PlanningPcs
<1>3. PICK slot \in Nat : slot = attempt[p[d].run].slot  BY <1>2, LaterRun, PendingNat DEF IInv
<1>4. NextAfterRun(d) = Pending(d)
  <2>1. Pending(d) = Latest(p[d].next, slot + 1)  BY <1>2, <1>3 DEF Pending
  <2>2. CASE Handoff
    <3>1. p[d].next = 0  BY <1>2, <2>2 DEF SchedInv, JumpInv
    <3>2. Latest(0, slot + 1) = slot + 1  BY DEF Latest
    <3> QED  BY <1>3, <2>1, <2>2, <3>1, <3>2 DEF NextAfterRun
  <2>3. CASE ~Handoff  BY <1>3, <2>1, <2>3 DEF NextAfterRun
  <2> QED  BY <2>2, <2>3
<1>5. Pending(d) \in Nat  BY <1>2, LaterRun
<1>6. PICK a : a = [p[d] EXCEPT !.pc = "watch"]  OBVIOUS
<1>7. PICK b : b = [a EXCEPT !.next = 0]  OBVIOUS
<1>8. PICK watch : watch = [b EXCEPT !.fresh = TRUE]  OBVIOUS
<1>9. a \in Row /\ a.pc = "watch" /\ a.by = p[d].by  BY <1>1, <1>6, GotoFields DEF Pcs
<1>10. b \in Row /\ b.pc = "watch" /\ b.by = p[d].by  BY <1>7, <1>9 DEF Row
<1>11. watch \in Row /\ watch.pc = "watch" /\ watch.by = p[d].by  BY <1>8, <1>10 DEF Row
<1>12. p[d].by # "watch"  BY <1>2, PlanningPcs DEF SchedInv, LeaseInv
<1>13. PICK row \in Row :
         /\ p' = Outdated([p EXCEPT ![d] = row], d)
         /\ row.pc \in {"idle", "watch"} /\ row.by # "watch"
  <2>1. CASE Handoff /\ active = p[d].run
    <3>1. [p EXCEPT ![d] = watch] = [p EXCEPT ![d].pc = "watch", ![d].next = 0, ![d].fresh = TRUE]
      BY <1>6, <1>7, <1>8
    <3>2. p' = Outdated([p EXCEPT ![d] = watch], d)  BY <2>1, <3>1 DEF PersistSchedule
    <3> QED  BY <1>11, <1>12, <3>2
  <2>2. CASE ~(Handoff /\ active = p[d].run)
    <3>1. p' = Outdated([p EXCEPT ![d] = Asleep], d)  BY <2>2 DEF PersistSchedule
    <3> QED  BY <3>1, AsleepBy
  <2> QED  BY <2>1, <2>2
<1>14. Wrote(d)  BY <1>1, <1>13, OutdatedWrote
<1> QED  BY <1>1, <1>2, <1>4, <1>5, <1>14, WriteSched

LEMMA InitSched == Init => SchedInv
<1> SUFFICES ASSUME Init PROVE SchedInv
  OBVIOUS
<1>1. /\ catalog = 1 /\ skips = {} /\ \A d \in Dispatchers : p[d] = Asleep
  BY DEF Init
<1>2. \A d \in Dispatchers : p[d].pc = "idle" /\ p[d].by = "reaper"
  BY <1>1, AsleepBy
<1>3. "idle" \notin Leased \cup Planning \cup Later /\ "idle" # "tail"
  BY PlanningPcs DEF Leased
<1>4. \A s \in Slots : ~(s < 1)  BY Ids
<1>5. Accounted(catalog)  BY <1>1, <1>4 DEF Accounted
<1> QED
  BY <1>2, <1>3, <1>5 DEF SchedInv, LeaseInv, JumpInv, AccountInv, BackInv, Holds

LEMMA NextSched ==
  IInv /\ SchedInv /\ [Next]_vars => SchedInv' /\ Steady
<1> SUFFICES ASSUME IInv, SchedInv, [Next]_vars PROVE SchedInv' /\ Steady
  OBVIOUS
<1>1. CASE Cancel \/ Outside \/ UNCHANGED vars
  <2>1. catalog' = catalog
    BY <1>1 DEF Cancel, CancelJob, CloseCancelled, RecordCancelled, CancelDies, Outside, CommandExits,
                SlotComesDue, RepairIndex, vars, stores
  <2> QED  BY <1>1, <2>1, CancelSched DEF Steady
<1>2. ASSUME NEW d \in Dispatchers, DispatchDue(d) \/ DispatchOther(d)  PROVE SchedInv' /\ Steady
  <2>1. StartTick(d) /\ catalog' = catalog  BY <1>2 DEF DispatchDue, DispatchOther, StartTick, stores
  <2> QED  BY <2>1, StartSched DEF Steady
<1>3. ASSUME NEW d \in Dispatchers, Work(d) \/ Crash(d)  PROVE SchedInv' /\ Steady
  <2>1. CASE Reconcile(d)  BY <2>1, ReconcileSched DEF Reconcile, stores, Steady
  <2>2. CASE Reap(d)  BY <2>2, ReapSched DEF Reap, ReapDead, ReapOverdue, stores, Steady
  <2>3. CASE Finalize(d)
    BY <2>3, FinalizeSched DEF Finalize, ClaimExit, FinalizeLedger, CloseRun, OrphanRun, stores, Steady
  <2>4. CASE Evaluate(d)  BY <2>4, EvaluateSched DEF Evaluate, Steady
  <2>5. CASE EndTick(d)  BY <2>5, EndTickSched
  <2>6. CASE EndIdleTick(d)  BY <2>6, EndIdleTickSched
  <2>7. CASE PersistSchedule(d)  BY <2>7, PersistSched
  <2>8. CASE RecordEvidence(d)  BY <2>8, EvidenceSched DEF RecordEvidence, stores, Steady
  <2>9. CASE Conclude(d)  BY <2>9, ConcludeSched DEF Conclude, Steady
  <2>10. CASE SetActive(d) \/ Ended(d) \/ Retry(d) \/ Watch(d) \/ Crash(d)
    BY <2>10, FollowSched DEF SetActive, Ended, Retry, Watch, Crash, stores, Steady
  <2> QED
    BY <1>3, <2>1, <2>2, <2>3, <2>4, <2>5, <2>6, <2>7, <2>8, <2>9, <2>10 DEF Work, Follow
<1> QED  BY <1>1, <1>2, <1>3 DEF Next

(* The schedule is written from jobs that were read a while ago, by writers    *)
(* that do not know of each other, and still loses no slot: one it has passed  *)
(* was claimed or lies behind a slot that is recorded as skipped, and one that  *)
(* it comes back to is known to the ledger or recorded as skipped.            *)
THEOREM NoSlotLost == Spec => SlotsAccounted
<1>1. IInv /\ SchedInv /\ [Next]_vars /\ IInv' /\ SchedInv' =>
        [\A s \in Slots : logical'[s] = "none" =>
            /\ s < catalog' => \E t \in skips' : t <= s
            /\ catalog' <= s /\ s < catalog => s \in skips']_vars
  <2> SUFFICES ASSUME IInv, SchedInv, [Next]_vars, SchedInv', NEW s \in Slots, logical'[s] = "none"
               PROVE  /\ s < catalog' => \E t \in skips' : t <= s
                      /\ catalog' <= s /\ s < catalog => s \in skips'
    OBVIOUS
  <2>1. s < catalog' => \E t \in skips' : t <= s  BY DEF SchedInv, AccountInv, Accounted
  <2>2. ASSUME catalog' <= s, s < catalog PROVE s \in skips'
    <3>1. Steady  BY NextSched
    <3>2. CASE catalog' = catalog  BY <2>2, <3>2, Ids DEF IInv, Types
    <3>3. CASE UNCHANGED <<logical, skips>> /\ Between(catalog', catalog)
      BY <2>2, <3>3 DEF Between, Known
    <3> QED  BY <3>1, <3>2, <3>3 DEF Steady
  <2> QED  BY <2>1, <2>2
<1>2. Spec => [](IInv /\ SchedInv)
  BY InitInv, NextInv, InitSched, NextSched, PTL DEF Spec
<1> QED  BY <1>1, <1>2, PTL DEF Spec, SlotsAccounted

-----------------------------------------------------------------------------
(* One command of a handed-off job, as long as nothing disturbs it.            *)

(* Who may bring a run to a state: in a tick, or with a command in its startup *)
(* window.                                                                   *)
Busy(d) == Holds(d) \/ p[d].pc \in Starting

(* What d relies on of the job's entry.                                       *)
Solitary(d) ==
  /\ p[d].pc \in Launching \cup {"orphan"} => active = 0
  /\ p[d].pc \in Finalizing => active = p[d].run
  /\ p[d].pc \in Watching => proc[p[d].run] # "live"
  /\ p[d].pc = "check" /\ p[d].by # "watch" => active \in {0, p[d].run}
  /\ p[d].pc = "wait" =>
       active \in {0, p[d].run} /\ \A e \in Dispatchers : p[e].run = p[d].run => e = d

Solo ==
  /\ c.pc = "idle" /\ DOMAIN proc = Runs
  /\ \A d \in Dispatchers : p[d].retry = 0
  /\ \A d, e \in Dispatchers : Busy(d) /\ Busy(e) => d = e
  /\ \A r \in Runs : proc[r] = "live" => active = r \/ \E d \in Dispatchers : LaunchedBy(d, r)
  /\ \A d \in Dispatchers : Solitary(d)

SoloInv == left \in Int /\ left <= MaxEvents /\ (Undisturbed => Solo)

Went(d, pc, run, by) ==
  /\ p'[d].pc = pc /\ p'[d].run = run /\ p'[d].by = by /\ p'[d].retry = 0
  /\ \A e \in Dispatchers \ {d} :
       p'[e].pc = p[e].pc /\ p'[e].run = p[e].run /\ p'[e].by = p[e].by /\ p'[e].retry = p[e].retry

LEMMA WentRow ==
  ASSUME IInv, NEW d \in Dispatchers, NEW row, p' = [p EXCEPT ![d] = row], row.retry = 0
  PROVE  Went(d, row.pc, row.run, row.by)
BY DEF IInv, Types, Went

LEMMA SoloPcs ==
  /\ \A pc : pc \in Launching <=> pc \in {"tail", "evidence", "activate"}
  /\ \A pc : pc \in Finalizing <=> pc \in {"ledger", "close"}
  /\ \A pc : pc \in Watching <=> pc = "check" \/ pc \in Finalizing
  /\ Handoff => \A pc : pc \in Starting <=> pc \in Launching \cup {"wait"}
  /\ {"check", "ledger", "close", "orphan", "tail"} \subseteq Leased
  /\ {"idle", "watch", "conclude", "persist", "wait", "evidence", "activate"} \cap Leased = {}
BY DEF Launching, Finalizing, Watching, Starting, Leased

(* d goes on, and the job's entry stays as it is.                             *)
LEMMA GoesOn ==
  ASSUME IInv, Solo, Handoff, NEW d \in Dispatchers, NEW pc, NEW run, NEW by, Went(d, pc, run, by),
         UNCHANGED <<active, kind>>, c'.pc = c.pc, DOMAIN proc' = Runs,
         \A r \in Runs : proc'[r] = "live" => proc[r] = "live",
         (pc \in Leased /\ by # "watch") \/ pc \in Starting =>
            Busy(d) \/ \A e \in Dispatchers : ~Busy(e),
         pc \in Launching => active = 0,
         \A r \in Runs : LaunchedBy(d, r) /\ proc'[r] = "live" => pc \in Launching /\ run = r,
         pc = "orphan" => active = 0,
         pc \in Finalizing => active = run,
         pc \in Watching => proc'[run] # "live",
         pc = "check" /\ by # "watch" => active \in {0, run},
         pc # "wait",
         run \in {0, p[d].run} \/ Busy(d)
  PROVE  Solo'
<1>1. /\ p'[d].pc = pc /\ p'[d].run = run /\ p'[d].by = by /\ p'[d].retry = 0
      /\ \A e \in Dispatchers \ {d} :
           p'[e].pc = p[e].pc /\ p'[e].run = p[e].run /\ p'[e].by = p[e].by /\ p'[e].retry = p[e].retry
  BY DEF Went
<1>2. /\ c.pc = "idle" /\ DOMAIN proc = Runs /\ \A e \in Dispatchers : p[e].retry = 0 /\ Solitary(e)
      /\ \A e, f \in Dispatchers : Busy(e) /\ Busy(f) => e = f
      /\ \A r \in Runs : proc[r] = "live" => active = r \/ \E e \in Dispatchers : LaunchedBy(e, r)
  BY DEF Solo
<1>3. Starting' = Starting  BY DEF Starting, Handoff
<1>4. \A e, f \in Dispatchers : Busy(e)' /\ Busy(f)' => e = f
  <2>1. Busy(d)' => Busy(d) \/ \A e \in Dispatchers : ~Busy(e)  BY <1>1, <1>3 DEF Busy, Holds
  <2>2. \A e \in Dispatchers \ {d} : Busy(e)' => Busy(e)  BY <1>1, <1>3 DEF Busy, Holds
  <2> QED  BY <1>2, <2>1, <2>2
<1>5. ASSUME NEW r \in Runs, proc'[r] = "live"
      PROVE  active' = r \/ \E e \in Dispatchers : LaunchedBy(e, r)'
  <2>1. active = r \/ \E e \in Dispatchers : LaunchedBy(e, r)  BY <1>2, <1>5
  <2>2. ASSUME NEW e \in Dispatchers, LaunchedBy(e, r) PROVE LaunchedBy(e, r)'
    <3>1. CASE e = d  BY <1>1, <1>5, <2>2, <3>1 DEF LaunchedBy
    <3>2. CASE e # d  BY <1>1, <2>2, <3>2 DEF LaunchedBy
    <3> QED  BY <3>1, <3>2
  <2> QED  BY <2>1, <2>2
<1>6. ASSUME NEW e \in Dispatchers PROVE Solitary(e)'
  <2>1. CASE e = d
    <3>1. p'[d].pc \in Launching => active' = 0  BY <1>1
    <3> QED  BY <1>1, <2>1, <3>1 DEF Solitary
  <2>2. CASE e # d
    <3>1. Solitary(e) /\ Fits(p[e].pc, p[e].run, p[e].out)  BY <1>2 DEF IInv, Placed
    <3>2. ASSUME p[e].pc \in Watching PROVE proc'[p[e].run] # "live"
      <4>1. p[e].run \in Runs  BY <3>1, <3>2, SoloPcs DEF Fits
      <4> QED  BY <3>1, <3>2, <4>1 DEF Solitary
    <3>3. ASSUME p[e].pc = "wait", NEW f \in Dispatchers, p'[f].run = p[e].run PROVE f = e
      <4>1. Busy(e)  BY <3>3, SoloPcs DEF Busy
      <4>2. ~Busy(d)  BY <1>2, <2>2, <4>1
      <4>3. p[e].run \in Runs  BY <3>1, <3>3 DEF Fits
      <4>4. \A g \in Dispatchers : p[g].run = p[e].run => g = e  BY <3>1, <3>3 DEF Solitary
      <4>5. CASE f = d  BY <1>1, <2>2, <3>3, <4>2, <4>3, <4>4, <4>5, Ids
      <4>6. CASE f # d  BY <1>1, <3>3, <4>4, <4>6
      <4> QED  BY <4>5, <4>6
    <3> QED  BY <1>1, <2>2, <3>1, <3>2, <3>3 DEF Solitary
  <2> QED  BY <2>1, <2>2
<1>7. \A e \in Dispatchers : p'[e].retry = 0  BY <1>1, <1>2
<1> QED  BY <1>2, <1>4, <1>5, <1>6, <1>7 DEF Solo

(* d clears the job's entry, whose command is not alive.                       *)
LEMMA Frees ==
  ASSUME IInv, Solo, Handoff, NEW d \in Dispatchers, NEW pc, NEW run, NEW by, Went(d, pc, run, by),
         active' = 0, UNCHANGED <<proc, c, kind>>,
         pc \in {"idle", "evaluate", "conclude"}, by # "watch",
         pc = "evaluate" => Busy(d), run \in {0, p[d].run},
         p[d].pc \notin Launching,
         \A r \in Runs : active = r => proc[r] # "live",
         \A e \in Dispatchers \ {d} : p[e].pc \notin Finalizing
  PROVE  Solo'
<1>1. /\ p'[d].pc = pc /\ p'[d].run = run /\ p'[d].by = by /\ p'[d].retry = 0
      /\ \A e \in Dispatchers \ {d} :
           p'[e].pc = p[e].pc /\ p'[e].run = p[e].run /\ p'[e].by = p[e].by /\ p'[e].retry = p[e].retry
  BY DEF Went
<1>2. /\ c.pc = "idle" /\ DOMAIN proc = Runs /\ \A e \in Dispatchers : p[e].retry = 0 /\ Solitary(e)
      /\ \A e, f \in Dispatchers : Busy(e) /\ Busy(f) => e = f
      /\ \A r \in Runs : proc[r] = "live" => active = r \/ \E e \in Dispatchers : LaunchedBy(e, r)
  BY DEF Solo
<1>3. Starting' = Starting  BY DEF Starting, Handoff
<1>4. pc \notin Starting /\ (pc # "evaluate" => pc \notin Leased)  BY SoloPcs
<1>5. \A e \in Dispatchers : Busy(e)' => Busy(e)
  <2>1. Busy(d)' => Busy(d)  BY <1>1, <1>3, <1>4 DEF Busy, Holds
  <2>2. \A e \in Dispatchers \ {d} : Busy(e)' => Busy(e)  BY <1>1, <1>3 DEF Busy, Holds
  <2> QED  BY <2>1, <2>2
<1>6. ASSUME NEW r \in Runs, proc'[r] = "live"
      PROVE  \E e \in Dispatchers : LaunchedBy(e, r)'
  <2>1. PICK e \in Dispatchers : LaunchedBy(e, r)  BY <1>2, <1>6
  <2>2. e # d  BY <2>1 DEF LaunchedBy
  <2> QED  BY <1>1, <2>1, <2>2 DEF LaunchedBy
<1>7. ASSUME NEW e \in Dispatchers PROVE Solitary(e)'
  <2>1. CASE e = d
    <3>1. pc \notin Launching \cup Finalizing \cup Watching \cup {"orphan", "check", "wait"}  BY SoloPcs
    <3> QED  BY <1>1, <2>1, <3>1 DEF Solitary
  <2>2. CASE e # d
    <3>1. Solitary(e) /\ p[e].pc \notin Finalizing /\ Fits(p[e].pc, p[e].run, p[e].out)
      BY <1>2, <2>2 DEF IInv, Placed
    <3>2. ASSUME p[e].pc = "wait", NEW f \in Dispatchers, p'[f].run = p[e].run PROVE f = e
      <4>1. p[e].run \in Runs  BY <3>1, <3>2 DEF Fits
      <4>2. \A g \in Dispatchers : p[g].run = p[e].run => g = e  BY <3>1, <3>2 DEF Solitary
      <4>3. CASE f = d  BY <1>1, <2>2, <3>2, <4>1, <4>2, <4>3, Ids
      <4>4. CASE f # d  BY <1>1, <3>2, <4>2, <4>4
      <4> QED  BY <4>3, <4>4
    <3> QED  BY <1>1, <2>2, <3>1, <3>2 DEF Solitary
  <2> QED  BY <2>1, <2>2
<1>8. \A e \in Dispatchers : p'[e].retry = 0  BY <1>1, <1>2
<1> QED  BY <1>2, <1>5, <1>6, <1>7, <1>8 DEF Solo

(* A command comes to be, in a tick that found the job without a run.          *)
LEMMA Launches ==
  ASSUME IInv, Solo, Handoff, NEW d \in Dispatchers, NEW pc \in {"tail", "evidence"}, NEW r \in Runs,
         NEW by, Went(d, pc, r, by), attempt[r].state = "none", Holds(d), p[d].pc \notin Launching,
         proc' = [proc EXCEPT ![r] = "live"], active = 0, UNCHANGED <<active, c, kind>>
  PROVE  Solo'
<1>1. /\ p'[d].pc = pc /\ p'[d].run = r /\ p'[d].retry = 0
      /\ \A e \in Dispatchers \ {d} :
           p'[e].pc = p[e].pc /\ p'[e].run = p[e].run /\ p'[e].by = p[e].by /\ p'[e].retry = p[e].retry
  BY DEF Went
<1>2. /\ c.pc = "idle" /\ DOMAIN proc = Runs /\ \A e \in Dispatchers : p[e].retry = 0 /\ Solitary(e)
      /\ \A e, f \in Dispatchers : Busy(e) /\ Busy(f) => e = f
      /\ \A q \in Runs : proc[q] = "live" => active = q \/ \E e \in Dispatchers : LaunchedBy(e, q)
  BY DEF Solo
<1>3. Starting' = Starting /\ Busy(d)  BY DEF Starting, Handoff, Busy
<1>4. \A e \in Dispatchers \ {d} : ~Busy(e) /\ ~Busy(e)' /\ p[e].run # r
  BY <1>1, <1>2, <1>3 DEF Busy, Holds, IInv, Fresh
<1>5. pc \in Launching  BY SoloPcs
<1>6. \A q \in Runs \ {r} : proc'[q] = "live" => proc[q] = "live"  OBVIOUS
<1>7. ASSUME NEW q \in Runs, proc'[q] = "live"
      PROVE  \E e \in Dispatchers : LaunchedBy(e, q)'
  <2>1. CASE q = r  BY <1>1, <1>5, <2>1 DEF LaunchedBy
  <2>2. CASE q # r
    <3>1. PICK e \in Dispatchers : LaunchedBy(e, q)  BY <1>2, <1>6, <1>7, <2>2, Ids
    <3>2. e # d  BY <3>1 DEF LaunchedBy
    <3> QED  BY <1>1, <3>1, <3>2 DEF LaunchedBy
  <2> QED  BY <2>1, <2>2
<1>8. ASSUME NEW e \in Dispatchers PROVE Solitary(e)'
  <2>1. CASE e = d
    <3>1. pc \notin Finalizing \cup Watching \cup {"orphan", "check", "wait"}  BY SoloPcs
    <3> QED  BY <1>1, <2>1, <3>1 DEF Solitary
  <2>2. CASE e # d
    <3>1. Solitary(e) /\ p[e].run # r /\ Fits(p[e].pc, p[e].run, p[e].out)
      BY <1>2, <1>4, <2>2 DEF IInv, Placed
    <3>2. ASSUME p[e].pc \in Watching PROVE proc'[p[e].run] # "live"
      <4>1. p[e].run \in Runs  BY <3>1, <3>2, SoloPcs DEF Fits
      <4> QED  BY <1>6, <3>1, <3>2, <4>1 DEF Solitary
    <3>3. p[e].pc # "wait"  BY <1>4, <2>2, SoloPcs DEF Busy
    <3> QED  BY <1>1, <2>2, <3>1, <3>2, <3>3 DEF Solitary
  <2> QED  BY <2>1, <2>2
<1>9. \A e \in Dispatchers : p'[e].retry = 0  BY <1>1, <1>2
<1>10. \A e, f \in Dispatchers : Busy(e)' /\ Busy(f)' => e = f  BY <1>4
<1> QED  BY <1>2, <1>7, <1>8, <1>9, <1>10 DEF Solo

LEMMA SetActiveSolo ==
  ASSUME IInv, SchedInv, Solo, Handoff, NEW d \in Dispatchers, SetActive(d)
  PROVE  Solo'
<1>1. /\ p[d].pc = "activate" /\ active' = p[d].run /\ UNCHANGED <<proc, c, kind>>
      /\ p[d] \in Row /\ p[d].run \in Runs
  BY DEF SetActive, At, world, job, IInv, Types, Placed, Fits
<1>2. PICK pc \in {"persist", "wait"} : Goto(d, pc)  BY DEF SetActive
<1>3. PICK row : row = [p[d] EXCEPT !.pc = pc]  OBVIOUS
<1>4. pc \in Pcs  BY DEF Pcs, Planning
<1>5. row.pc = pc /\ row.run = p[d].run /\ row.by = p[d].by /\ row.retry = p[d].retry
  BY <1>1, <1>3, <1>4, GotoFields
<1>6. p' = [p EXCEPT ![d] = row] /\ p[d].retry = 0  BY <1>2, <1>3 DEF Goto, Solo
<1>7. Went(d, pc, p[d].run, p[d].by)
  <2>1. Went(d, row.pc, row.run, row.by)  BY <1>5, <1>6, WentRow
  <2> QED  BY <1>5, <2>1
<1>8. /\ p'[d].pc = pc /\ p'[d].run = p[d].run /\ p'[d].by = p[d].by /\ p'[d].retry = 0
      /\ \A e \in Dispatchers \ {d} :
           p'[e].pc = p[e].pc /\ p'[e].run = p[e].run /\ p'[e].by = p[e].by /\ p'[e].retry = p[e].retry
  BY <1>7 DEF Went
<1>9. /\ c.pc = "idle" /\ DOMAIN proc = Runs /\ \A e \in Dispatchers : p[e].retry = 0 /\ Solitary(e)
      /\ \A e, f \in Dispatchers : Busy(e) /\ Busy(f) => e = f
      /\ \A q \in Runs : proc[q] = "live" => active = q \/ \E e \in Dispatchers : LaunchedBy(e, q)
  BY DEF Solo
<1>10. Starting' = Starting  BY <1>1 DEF Starting, Handoff
<1>11. Busy(d) /\ active = 0  BY <1>1, <1>9, SoloPcs DEF Busy, Solitary
<1>12. \A e \in Dispatchers \ {d} : ~Busy(e) /\ ~Busy(e)'
  BY <1>8, <1>9, <1>10, <1>11 DEF Busy, Holds
<1>13. ASSUME NEW q \in Runs, proc'[q] = "live" PROVE active' = q
  <2>1. PICK e \in Dispatchers : LaunchedBy(e, q)  BY <1>1, <1>9, <1>11, <1>13, Ids
  <2>2. Busy(e)  BY <2>1, SoloPcs DEF LaunchedBy, Busy
  <2>3. e = d  BY <1>12, <2>2
  <2> QED  BY <1>1, <2>1, <2>3 DEF LaunchedBy
<1>14. ASSUME NEW e \in Dispatchers PROVE Solitary(e)'
  <2>1. CASE e = d
    <3>1. pc \notin Launching \cup Finalizing \cup Watching \cup {"orphan", "check"}  BY SoloPcs
    <3>2. Owns(d, p[d].run)  BY <1>1 DEF Owns, Own, Launching
    <3>3. \A f \in Dispatchers : p[f].run = p[d].run => f = d  BY <1>1, <3>2 DEF IInv, OwnInv
    <3>4. \A f \in Dispatchers : p'[f].run = p[f].run  BY <1>8
    <3> QED  BY <1>1, <1>8, <2>1, <3>1, <3>3, <3>4 DEF Solitary
  <2>2. CASE e # d
    <3>1. Solitary(e) /\ Fits(p[e].pc, p[e].run, p[e].out)  BY <1>9 DEF IInv, Placed
    <3>2. ~Busy(e)  BY <1>12, <2>2
    <3>3. p[e].pc \notin Launching \cup {"wait"}  BY <3>2, SoloPcs DEF Busy
    <3>4. p[e].pc # "orphan" /\ (p[e].pc = "check" => p[e].by = "watch")
      BY <3>2, SoloPcs DEF Busy, Holds, SchedInv, LeaseInv, Watching
    <3>5. p[e].pc \notin Finalizing
      <4>1. p[e].pc \in Finalizing => p[e].run \in Runs  BY <3>1, SoloPcs DEF Fits
      <4> QED  BY <1>11, <3>1, <4>1, Ids DEF Solitary
    <3> QED  BY <1>1, <1>8, <2>2, <3>1, <3>3, <3>4, <3>5 DEF Solitary
  <2> QED  BY <2>1, <2>2
<1>15. \A e \in Dispatchers : p'[e].retry = 0  BY <1>8, <1>9
<1>16. \A e, f \in Dispatchers : Busy(e)' /\ Busy(f)' => e = f  BY <1>12
<1> QED  BY <1>1, <1>9, <1>13, <1>14, <1>15, <1>16 DEF Solo

LEMMA OutsideSolo ==
  ASSUME IInv, Solo, Handoff, UNCHANGED <<p, c, active, kind>>, DOMAIN proc' = Runs,
         \A r \in Runs : proc'[r] = "live" => proc[r] = "live"
  PROVE  Solo'
<1>1. Starting' = Starting  BY DEF Starting, Handoff
<1>2. \A d \in Dispatchers : Busy(d)' = Busy(d)  BY <1>1 DEF Busy, Holds
<1>3. \A r : \A d \in Dispatchers : LaunchedBy(d, r)' = LaunchedBy(d, r)  BY DEF LaunchedBy
<1>4. ASSUME NEW d \in Dispatchers PROVE Solitary(d)'
  <2>1. Solitary(d) /\ Fits(p[d].pc, p[d].run, p[d].out)  BY DEF Solo, IInv, Placed
  <2>2. ASSUME p[d].pc \in Watching PROVE proc'[p[d].run] # "live"
    <3>1. p[d].run \in Runs  BY <2>1, <2>2, SoloPcs DEF Fits
    <3> QED  BY <2>1, <2>2, <3>1 DEF Solitary
  <2> QED  BY <2>1, <2>2 DEF Solitary
<1> QED  BY <1>2, <1>3, <1>4 DEF Solo

LEMMA SleepWent ==
  ASSUME IInv, NEW d \in Dispatchers, Sleep(d)
  PROVE  Went(d, "idle", 0, "reaper")
<1>1. PICK row : row = Asleep  OBVIOUS
<1>2. row.pc = "idle" /\ row.run = 0 /\ row.by = "reaper" /\ row.retry = 0  BY <1>1 DEF Asleep
<1>3. Went(d, row.pc, row.run, row.by)  BY <1>1, <1>2, WentRow DEF Sleep
<1> QED  BY <1>2, <1>3

LEMMA GotoWent ==
  ASSUME IInv, Solo, NEW d \in Dispatchers, NEW pc \in Pcs, Goto(d, pc)
  PROVE  Went(d, pc, p[d].run, p[d].by)
<1>1. PICK row : row = [p[d] EXCEPT !.pc = pc]  OBVIOUS
<1>2. p[d] \in Row /\ p[d].retry = 0  BY DEF IInv, Types, Solo
<1>3. row.pc = pc /\ row.run = p[d].run /\ row.by = p[d].by /\ row.retry = 0
  BY <1>1, <1>2, GotoFields
<1>4. Went(d, row.pc, row.run, row.by)  BY <1>1, <1>3, WentRow DEF Goto
<1> QED  BY <1>3, <1>4

LEMMA CloseWent ==
  ASSUME IInv, Solo, NEW d \in Dispatchers, NEW r \in Runs \cup {0},
         NEW by \in {"reaper", "killer", "watch"}, NEW out \in Outs, NEW pc \in Pcs,
         Close(d, r, by, out, pc)
  PROVE  Went(d, pc, r, by)
<1>1. PICK row \in Row : /\ p' = [p EXCEPT ![d] = row] /\ row.pc = pc /\ row.run = r /\ row.by = by
                         /\ row.retry = p[d].retry
  BY CloseFields
<1>2. row.retry = 0  BY <1>1 DEF Solo
<1>3. Went(d, row.pc, row.run, row.by)  BY <1>1, <1>2, WentRow
<1> QED  BY <1>1, <1>3

LEMMA ReturnWent ==
  ASSUME IInv, Solo, NEW d \in Dispatchers, p[d].pc \in Leased, Return(d)
  PROVE  Went(d, "idle", 0, "reaper") \/ (Went(d, "evaluate", 0, "reaper") /\ Holds(d))
<1>1. CASE p[d].by = "watch"  BY <1>1, SleepWent DEF Return
<1>2. CASE p[d].by # "watch"
  <2>1. Close(d, 0, "reaper", "none", "evaluate") /\ "evaluate" \in Pcs /\ "none" \in Outs /\ Holds(d)
    BY <1>2 DEF Return, Pcs, Leased, Outs, Holds
  <2> QED  BY <2>1, CloseWent
<1> QED  BY <1>1, <1>2

LEMMA RowKept ==
  ASSUME IInv, Solo, NEW d \in Dispatchers, NEW pc \in Pcs, NEW out \in Outs,
         p' = [p EXCEPT ![d].pc = pc, ![d].out = out]
  PROVE  Went(d, pc, p[d].run, p[d].by)
<1>1. PICK a : a = [p[d] EXCEPT !.pc = pc]  OBVIOUS
<1>2. PICK row : row = [a EXCEPT !.out = out]  OBVIOUS
<1>3. p[d] \in Row /\ p[d].retry = 0  BY DEF IInv, Types, Solo
<1>4. a \in Row /\ a.pc = pc /\ a.run = p[d].run /\ a.by = p[d].by /\ a.retry = 0
  BY <1>1, <1>3, GotoFields
<1>5. row.pc = pc /\ row.run = p[d].run /\ row.by = p[d].by /\ row.retry = 0
  BY <1>2, <1>4, OutFields
<1>6. p' = [p EXCEPT ![d] = row]  BY <1>1, <1>2
<1>7. Went(d, row.pc, row.run, row.by)  BY <1>5, <1>6, WentRow
<1> QED  BY <1>5, <1>7

LEMMA StartSolo ==
  ASSUME IInv, SchedInv, Solo, Handoff, NEW d \in Dispatchers, DispatchDue(d)
  PROVE  Solo'
<1>1. /\ p[d].pc = "idle" /\ SingleFlight /\ UNCHANGED <<proc, active, c, kind>> /\ DOMAIN proc = Runs
      /\ p' = [p EXCEPT ![d].pc = "commit", ![d].seen = attempt]
  BY DEF DispatchDue, StartTick, At, stores, world, job, Solo
<1>2. \A e \in Dispatchers : ~Busy(e)
  BY <1>1 DEF SingleFlight, Solo, Busy, Holds
<1>3. PICK a : a = [p[d] EXCEPT !.pc = "commit"]  OBVIOUS
<1>4. PICK row : row = [a EXCEPT !.seen = attempt]  OBVIOUS
<1>5. p[d] \in Row /\ "commit" \in Pcs /\ attempt \in [Runs -> Attempt] /\ p[d].retry = 0
  BY DEF IInv, Types, Pcs, Solo
<1>6. a \in Row /\ a.pc = "commit" /\ a.by = p[d].by /\ a.run = p[d].run /\ a.retry = 0
  BY <1>3, <1>5, GotoFields
<1>7. row.pc = "commit" /\ row.by = p[d].by /\ row.run = p[d].run /\ row.retry = 0
  BY <1>4, <1>5, <1>6, SeenFields
<1>8. p' = [p EXCEPT ![d] = row]  BY <1>1, <1>3, <1>4
<1>9. Went(d, row.pc, row.run, row.by)  BY <1>7, <1>8, WentRow
<1>10. Went(d, "commit", p[d].run, p[d].by)  BY <1>7, <1>9
<1>11. "commit" \notin Launching \cup Finalizing \cup Watching \cup {"orphan", "check", "wait"}
  BY SoloPcs
<1>12. p[d].pc \notin Launching  BY <1>1, SoloPcs
<1> QED  BY <1>1, <1>2, <1>10, <1>11, <1>12, GoesOn DEF LaunchedBy

LEMMA HeldBy ==
  ASSUME SchedInv, NEW d \in Dispatchers, p[d].pc \in Leased \ Watching
  PROVE  Holds(d)
BY DEF SchedInv, LeaseInv, Holds

LEMMA TickSolo ==
  ASSUME IInv, SchedInv, Solo, Handoff, ~Spend, NEW d \in Dispatchers, Reconcile(d) \/ Reap(d)
  PROVE  Solo'
<1>1. /\ p[d].pc \in {"commit", "reap"} /\ UNCHANGED <<active, c, kind>> /\ DOMAIN proc = Runs
  BY DEF Solo, Reconcile, Reap, ReapDead, ReapOverdue, At, stores, world, job
<1>2. Holds(d) /\ p[d].pc \notin Launching
  BY <1>1, HeldBy, SoloPcs DEF Leased, Watching
<1>3. CASE Reconcile(d)
  <2>1. p' = [p EXCEPT ![d].pc = "reap", ![d].seen = <<>>] /\ UNCHANGED proc
    BY <1>3 DEF Reconcile, Locked, world
  <2>2. PICK a : a = [p[d] EXCEPT !.pc = "reap"]  OBVIOUS
  <2>3. PICK row : row = [a EXCEPT !.seen = <<>>]  OBVIOUS
  <2>4. p[d] \in Row /\ "reap" \in Pcs /\ p[d].retry = 0  BY DEF IInv, Types, Pcs, Leased, Solo
  <2>5. a \in Row /\ a.pc = "reap" /\ a.by = p[d].by /\ a.run = p[d].run /\ a.retry = 0
    BY <2>2, <2>4, GotoFields
  <2>6. row.pc = "reap" /\ row.by = p[d].by /\ row.run = p[d].run /\ row.retry = 0
    BY <2>3, <2>5, SeenFields
  <2>7. p' = [p EXCEPT ![d] = row]  BY <2>1, <2>2, <2>3
  <2>8. Went(d, row.pc, row.run, row.by)  BY <2>6, <2>7, WentRow
  <2>9. Went(d, "reap", p[d].run, p[d].by)  BY <2>6, <2>8
  <2>10. "reap" \notin Launching \cup Finalizing \cup Watching \cup {"orphan", "check", "wait"}
    BY SoloPcs
  <2> QED  BY <1>1, <1>2, <2>1, <2>9, <2>10, GoesOn DEF LaunchedBy, Busy
<1>4. CASE Reap(d)
  <2>1. PICK out \in {"success", "failure", "lost", "timeout"}, by \in {"reaper", "killer"} :
          /\ Close(d, active, by, out, "check") /\ active \in Runs
          /\ \/ UNCHANGED proc /\ proc[active] # "live"
             \/ proc' = [proc EXCEPT ![active] = "killed"]
    BY <1>4 DEF Reap, ReapDead, ReapOverdue, RecordedOutcome, DeadRuns, Dead, world
  <2>2. Went(d, "check", active, by)
    <3>1. out \in Outs /\ "check" \in Pcs  BY DEF Outs, Pcs, Leased
    <3> QED  BY <2>1, <3>1, CloseWent
  <2>3. DOMAIN proc' = Runs /\ \A r \in Runs : proc'[r] = "live" => proc[r] = "live" /\ r # active
    BY <1>1, <2>1
  <2>4. "check" \notin Launching \cup Finalizing \cup Starting /\ "check" \in Watching
    BY SoloPcs
  <2>5. proc'[active] # "live"  BY <2>1, <2>3
  <2> QED  BY <1>1, <1>2, <2>1, <2>2, <2>3, <2>4, <2>5, GoesOn DEF LaunchedBy, Busy
<1> QED  BY <1>3, <1>4

LEMMA FinalizeSolo ==
  ASSUME IInv, SchedInv, Solo, Handoff, ~Spend, NEW d \in Dispatchers, Finalize(d)
  PROVE  Solo'
<1>1. /\ p[d].pc \in {"check", "ledger", "close", "orphan"} /\ UNCHANGED <<proc, kind>>
      /\ DOMAIN proc = Runs
  BY DEF Solo, Finalize, ClaimExit, FinalizeLedger, CloseRun, OrphanRun, At, world, job
<1>2. /\ p[d].pc \in Leased /\ p[d].pc \notin Launching /\ p[d].run \in Runs
      /\ Solitary(d) /\ {"ledger", "close", "orphan"} \subseteq Pcs
      /\ (p[d].pc # "orphan" => p[d].pc \in Watching)
  BY <1>1, SoloPcs DEF Solo, IInv, Placed, Fits, Pcs, Leased
<1>3. \A e \in Dispatchers \ {d} : p[d].pc = "close" => p[e].pc \notin Finalizing
  <2> SUFFICES ASSUME NEW e \in Dispatchers \ {d}, p[d].pc = "close", p[e].pc \in Finalizing
               PROVE  FALSE
    OBVIOUS
  <2>1. p[d].pc \in Finalizing  BY SoloPcs
  <2>2. active = p[d].run /\ active = p[e].run  BY <2>1 DEF Solo, Solitary
  <2>3. Finalizes(d, p[d].run) /\ Finalizes(e, p[d].run)  BY <2>1, <2>2 DEF Finalizes
  <2> QED  BY <1>2, <2>3 DEF IInv, CloseInv
<1>4. \A e \in Dispatchers : active = 0 => p[e].pc \notin Finalizing
  <2> SUFFICES ASSUME NEW e \in Dispatchers, active = 0, p[e].pc \in Finalizing PROVE FALSE
    OBVIOUS
  <2>1. p[e].run = 0  BY DEF Solo, Solitary
  <2>2. p[e].run \in Runs  BY SoloPcs DEF IInv, Placed, Fits
  <2> QED  BY <2>1, <2>2, Ids
<1>5. ASSUME Return(d), UNCHANGED active, c'.pc = c.pc PROVE Solo'
  <2>1. Went(d, "idle", 0, "reaper") \/ (Went(d, "evaluate", 0, "reaper") /\ Holds(d))
    BY <1>2, <1>5, ReturnWent
  <2>2. /\ {"idle", "evaluate"} \cap (Launching \cup Finalizing \cup Watching \cup Starting \cup {"orphan", "check", "wait"}) = {}
        /\ "idle" \notin Leased
    BY SoloPcs
  <2>3. CASE Went(d, "idle", 0, "reaper")
    BY <1>1, <1>2, <1>5, <2>2, <2>3, GoesOn DEF LaunchedBy
  <2>4. CASE Went(d, "evaluate", 0, "reaper") /\ Holds(d)
    BY <1>1, <1>2, <1>5, <2>2, <2>4, GoesOn DEF LaunchedBy, Busy
  <2> QED  BY <2>1, <2>3, <2>4
<1>6. ASSUME NEW pc \in {"ledger", "close", "orphan"}, Goto(d, pc), UNCHANGED active, c'.pc = c.pc,
             p[d].pc \in {"check", "ledger"},
             pc \in {"ledger", "close"} => active = p[d].run,
             pc = "orphan" => active = 0 /\ Holds(d)
      PROVE  Solo'
  <2>1. Went(d, pc, p[d].run, p[d].by)  BY <1>2, <1>6, GotoWent
  <2>2. pc \notin Launching \cup Starting \cup {"check", "wait"} /\ (pc \in Finalizing => pc \in {"ledger", "close"})
    BY SoloPcs
  <2>3. p[d].by # "watch" => Busy(d)  BY <1>2 DEF Busy, Holds
  <2>4. proc'[p[d].run] # "live"  BY <1>1, <1>2, <1>6 DEF Solitary
  <2> QED  BY <1>1, <1>2, <1>6, <2>1, <2>2, <2>3, <2>4, GoesOn DEF LaunchedBy
<1>7. ASSUME Return(d), active' = 0, UNCHANGED c,
             \A r \in Runs : active = r => proc[r] # "live",
             \A e \in Dispatchers \ {d} : p[e].pc \notin Finalizing
      PROVE  Solo'
  <2>1. Went(d, "idle", 0, "reaper") \/ (Went(d, "evaluate", 0, "reaper") /\ Holds(d))
    BY <1>2, <1>7, ReturnWent
  <2> QED  BY <1>1, <1>2, <1>7, <2>1, Frees DEF Busy
<1>8. CASE ClaimExit(d)
  <2>1. p[d].pc = "check" /\ UNCHANGED active /\ c'.pc = c.pc
    BY <1>8 DEF ClaimExit, At, stores, IInv, Types, Cancelling
  <2>2. CASE Return(d)  BY <1>5, <2>1, <2>2
  <2>3. CASE Goto(d, "ledger") /\ active = p[d].run  BY <1>6, <2>1, <2>3
  <2>4. CASE active # p[d].run /\ p[d].by = "reaper" /\ Goto(d, "orphan")
    <3>1. active = 0 /\ Holds(d)  BY <1>2, <2>1, <2>4 DEF Solitary, Holds
    <3> QED  BY <1>6, <2>1, <2>4, <3>1
  <2> QED  BY <1>8, <2>2, <2>3, <2>4 DEF ClaimExit
<1>9. CASE FinalizeLedger(d)
  <2>1. p[d].pc = "ledger" /\ UNCHANGED <<active, c>> /\ Goto(d, "close")
    BY <1>9 DEF FinalizeLedger, At, stores, Locked
  <2>2. active = p[d].run  BY <1>2, <2>1, SoloPcs DEF Solitary
  <2> QED  BY <1>6, <2>1, <2>2
<1>10. CASE CloseRun(d)
  <2>1. p[d].pc = "close" /\ UNCHANGED c /\ Return(d) /\ active' = 0
    BY <1>10 DEF CloseRun, At, CutShort
  <2>2. active = p[d].run /\ proc[p[d].run] # "live"  BY <1>2, <2>1, SoloPcs DEF Solitary
  <2> QED  BY <1>3, <1>7, <2>1, <2>2
<1>11. CASE OrphanRun(d)
  <2>1. p[d].pc = "orphan" /\ UNCHANGED c /\ Return(d) /\ active' = 0
    BY <1>11 DEF OrphanRun, At, CutShort
  <2>2. active = 0  BY <1>2, <2>1 DEF Solitary
  <2> QED  BY <1>4, <1>7, <2>1, <2>2, Ids
<1> QED  BY <1>8, <1>9, <1>10, <1>11 DEF Finalize

LEMMA PlannedWent ==
  ASSUME IInv, NEW d \in Dispatchers, NEW run \in Runs \cup {0}, NEW next \in Nat, Planned(d, run, next)
  PROVE  \E pc \in {"rewrite", "tail", "evidence"} :
            /\ Went(d, pc, run, "reaper")
            /\ pc = "rewrite" => run = 0 /\ next = 0
            /\ pc = "evidence" => run # 0
            /\ pc = "tail" => next # 0
<1>1. PICK row \in Row :
        /\ p' = [p EXCEPT ![d] = row] /\ row.by = "reaper" /\ row.run = run /\ row.retry = 0
        /\ \/ run = 0 /\ next = 0 /\ row.pc = "rewrite"
           \/ run # 0 /\ next = 0 /\ row.pc = "evidence"
           \/ next # 0 /\ row.pc = "tail"
  BY PlannedFields
<1>2. Went(d, row.pc, row.run, row.by)  BY <1>1, WentRow
<1> QED  BY <1>1, <1>2

(* A tick that launches nothing.                                             *)
LEMMA IdleSolo ==
  ASSUME IInv, SchedInv, Solo, Handoff, NEW d \in Dispatchers, p[d].pc \in {"reap", "evaluate"},
         NEW next \in Nat, next # 0 => active = 0, Planned(d, 0, next),
         UNCHANGED <<proc, active, c, kind>>
  PROVE  Solo'
<1>1. Busy(d) /\ p[d].pc \notin Launching /\ DOMAIN proc' = Runs
  BY HeldBy, SoloPcs DEF Leased, Watching, Busy, Solo
<1>2. PICK pc \in {"rewrite", "tail"} : Went(d, pc, 0, "reaper") /\ (pc = "tail" => next # 0)
  <2>1. 0 \in Runs \cup {0}  OBVIOUS
  <2> QED  BY <2>1, PlannedWent
<1>3. pc \notin Finalizing \cup Watching \cup {"orphan", "check", "wait"} /\ (pc \in Launching => pc = "tail")
  BY SoloPcs
<1> QED  BY <1>1, <1>2, <1>3, GoesOn DEF LaunchedBy

LEMMA EvaluateSolo ==
  ASSUME IInv, SchedInv, Solo, Handoff, ~Spend, NEW d \in Dispatchers, Evaluate(d)
  PROVE  Solo'
<1>1. p[d].pc \in {"reap", "evaluate"} /\ UNCHANGED <<active, c, kind>>
  BY DEF Evaluate, At, job
<1>2. due \in Nat /\ catalog \in Nat  BY Ids DEF IInv, Types
<1>3. CASE InFlight \/ catalog > due
  <2>1. Planned(d, 0, 0) /\ UNCHANGED proc  BY <1>3 DEF Evaluate
  <2> QED  BY <1>1, <2>1, IdleSolo
<1>4. CASE ~(InFlight \/ catalog > due) /\ Misfire(d)
  <2>1. Planned(d, 0, due + 1) /\ UNCHANGED proc /\ due + 1 \in Nat /\ active = 0
    BY <1>2, <1>4 DEF Misfire, InFlight
  <2> QED  BY <1>1, <2>1, IdleSolo
<1>5. ASSUME active = 0, NEW first \in {due, catalog}, NEW k \in first..due,
             LaunchSlot(d, first, k) \/ PassSlots(d, first, k) \/ DeferSlot(d, first, k)
      PROVE  Solo'
  <2>1. k \in Nat /\ k + 1 \in Nat  BY <1>2, <1>5
  <2>2. CASE LaunchSlot(d, first, k)
    <3>1. PICK next \in Nat : next = IF k + 1 <= due THEN due + 1 ELSE 0  BY <1>2
    <3>2. PICK r \in Runs : attempt[r].state = "none" /\ Spawn(r) /\ Planned(d, r, next)
      BY <2>2, <3>1 DEF LaunchSlot, NewRuns
    <3>3. proc' = [proc EXCEPT ![r] = "live"]  BY <3>2 DEF Spawn
    <3>4. PICK pc \in {"tail", "evidence"} : Went(d, pc, r, "reaper")
      <4>1. r \in Runs \cup {0} /\ r # 0  BY Ids
      <4> QED  BY <3>2, <4>1, PlannedWent
    <3>5. Holds(d) /\ p[d].pc \notin Launching  BY <1>1, HeldBy, SoloPcs DEF Leased, Watching
    <3> QED  BY <1>1, <1>5, <3>2, <3>3, <3>4, <3>5, Launches
  <2>3. CASE PassSlots(d, first, k)
    <3>1. Planned(d, 0, k + 1) /\ UNCHANGED proc  BY <2>3 DEF PassSlots
    <3> QED  BY <1>1, <1>5, <2>1, <3>1, IdleSolo
  <2>4. CASE DeferSlot(d, first, k)
    <3>1. PICK next \in Nat : next = IF k > first THEN k ELSE 0  BY <2>1
    <3>2. Planned(d, 0, next) /\ UNCHANGED proc  BY <2>4, <3>1 DEF DeferSlot
    <3> QED  BY <1>1, <1>5, <3>1, <3>2, IdleSolo
  <2> QED  BY <1>5, <2>2, <2>3, <2>4
<1>6. CASE ~(InFlight \/ catalog > due) /\ ~Misfire(d)
  <2>1. PICK first \in {due, catalog} : first = IF policy = "latest_only" THEN due ELSE catalog
    OBVIOUS
  <2>2. \E k \in first..due :
           LaunchSlot(d, first, k) \/ PassSlots(d, first, k) \/ DeferSlot(d, first, k)
    BY <1>6, <2>1 DEF Evaluate
  <2>3. active = 0  BY <1>6 DEF InFlight
  <2> QED  BY <1>5, <2>1, <2>2, <2>3
<1> QED  BY <1>3, <1>4, <1>6

LEMMA OutdatedWent ==
  ASSUME IInv, Solo, NEW d \in Dispatchers, NEW row \in Row, p' = Outdated([p EXCEPT ![d] = row], d),
         row.retry = 0
  PROVE  Went(d, row.pc, row.run, row.by)
<1>1. Aged(d, d, row) /\ \A e \in Dispatchers \ {d} : Aged(d, e, p[e])
  BY OutdatedFields
<1> QED  BY <1>1 DEF Aged, Went

LEMMA EndTickSolo ==
  ASSUME IInv, SchedInv, Solo, Handoff, NEW d \in Dispatchers, EndTick(d) \/ EndIdleTick(d)
  PROVE  Solo'
<1>1. /\ p[d].pc \in {"tail", "rewrite"} /\ p[d] \in Row /\ UNCHANGED <<proc, active, c, kind>>
      /\ DOMAIN proc = Runs /\ p[d].retry = 0 /\ Solitary(d)
  BY DEF EndTick, EndIdleTick, At, IInv, Types, world, job, Solo
<1>2. {"idle"} \cap (Launching \cup Finalizing \cup Watching \cup Starting \cup Leased \cup {"orphan", "check", "wait"}) = {}
  BY SoloPcs
<1>3. CASE EndIdleTick(d)
  <2>1. Went(d, "idle", 0, "reaper") /\ p[d].pc = "rewrite"
    BY <1>3, SleepWent DEF EndIdleTick, At
  <2>2. p[d].pc \notin Launching  BY <2>1, SoloPcs
  <2> QED  BY <1>1, <1>2, <2>1, <2>2, GoesOn DEF LaunchedBy
<1>4. CASE EndTick(d) /\ p[d].run = 0
  <2>1. p' = Outdated([p EXCEPT ![d] = Asleep], d)  BY <1>4 DEF EndTick
  <2>2. Asleep \in Row /\ Asleep.pc = "idle" /\ Asleep.run = 0 /\ Asleep.by = "reaper" /\ Asleep.retry = 0
    BY AsleepRow DEF Asleep
  <2>3. Went(d, "idle", 0, "reaper")
    <3>1. Went(d, Asleep.pc, Asleep.run, Asleep.by)  BY <2>1, <2>2, OutdatedWent
    <3> QED  BY <2>2, <3>1
  <2>4. \A r \in Runs : ~LaunchedBy(d, r)  BY <1>4, Ids DEF LaunchedBy
  <2> QED  BY <1>1, <1>2, <2>3, <2>4, GoesOn
<1>5. CASE EndTick(d) /\ p[d].run # 0
  <2>1. p[d].pc = "tail" /\ active = 0 /\ Busy(d)
    <3>1. p[d].pc = "tail"  BY <1>5 DEF EndTick, At
    <3> QED  BY <1>1, <3>1, SoloPcs DEF Solitary, Busy
  <2>2. PICK a : a = [p[d] EXCEPT !.pc = "evidence"]  OBVIOUS
  <2>3. PICK row : row = [a EXCEPT !.next = 0]  OBVIOUS
  <2>4. "evidence" \in Pcs  BY DEF Pcs, Planning
  <2>5. a \in Row /\ a.pc = "evidence" /\ a.run = p[d].run /\ a.by = p[d].by /\ a.retry = 0
    BY <1>1, <2>2, <2>4, GotoFields
  <2>6. row \in Row /\ row.pc = "evidence" /\ row.run = p[d].run /\ row.by = p[d].by /\ row.retry = 0
    BY <2>3, <2>5 DEF Row
  <2>7. row = [p[d] EXCEPT !.pc = "evidence", !.next = 0]  BY <2>2, <2>3
  <2>8. p' = Outdated([p EXCEPT ![d] = row], d)  BY <1>5, <2>7 DEF EndTick
  <2>9. Went(d, row.pc, row.run, row.by)  BY <2>6, <2>8, OutdatedWent
  <2>10. Went(d, "evidence", p[d].run, p[d].by)  BY <2>6, <2>9
  <2>11. "evidence" \in Launching /\ "evidence" \notin Finalizing \cup Watching \cup {"orphan", "check", "wait"}
    BY SoloPcs
  <2> QED  BY <1>1, <2>1, <2>10, <2>11, GoesOn DEF LaunchedBy
<1> QED  BY <1>3, <1>4, <1>5

LEMMA EvidenceSolo ==
  ASSUME IInv, SchedInv, Solo, Handoff, NEW d \in Dispatchers, RecordEvidence(d)
  PROVE  Solo'
<1>1. /\ p[d].pc = "evidence" /\ UNCHANGED <<proc, active, c, kind>> /\ DOMAIN proc = Runs
      /\ Solitary(d) /\ p[d].run \in Runs
  BY DEF RecordEvidence, At, stores, world, job, Solo, IInv, Placed, Fits
<1>2. Busy(d) /\ active = 0  BY <1>1, SoloPcs DEF Busy, Solitary
<1>3. {"activate", "conclude"} \subseteq Pcs /\ {"success", "failure"} \subseteq Outs
  BY DEF Pcs, Planning, Outs
<1>4. CASE proc[p[d].run] = "none"
  <2>1. ~Retrying(d)  BY DEF Retrying
  <2>2. p' = [p EXCEPT ![d].pc = "conclude", ![d].out = "failure"]
    BY <1>4, <2>1 DEF RecordEvidence
  <2>3. Went(d, "conclude", p[d].run, p[d].by)  BY <1>3, <2>2, RowKept
  <2>4. "conclude" \notin Launching \cup Finalizing \cup Watching \cup {"orphan", "check", "wait"}
    BY SoloPcs
  <2> QED  BY <1>1, <1>2, <1>4, <2>3, <2>4, GoesOn DEF LaunchedBy
<1>5. CASE proc[p[d].run] # "none"
  <2>1. PICK out \in {"success", "failure"} :
          p' = [p EXCEPT ![d].pc = "activate", ![d].out = out]
    BY <1>5 DEF RecordEvidence, Result
  <2>2. Went(d, "activate", p[d].run, p[d].by)  BY <1>3, <2>1, RowKept
  <2>3. /\ "activate" \in Launching
        /\ "activate" \notin Finalizing \cup Watching \cup {"orphan", "check", "wait"}
    BY SoloPcs
  <2> QED  BY <1>1, <1>2, <2>2, <2>3, GoesOn DEF LaunchedBy
<1> QED  BY <1>4, <1>5

LEMMA EndedSolo ==
  ASSUME IInv, SchedInv, Solo, Handoff, NEW d \in Dispatchers, Ended(d)
  PROVE  Solo'
<1>1. /\ p[d].pc = "wait" /\ active' = 0 /\ UNCHANGED <<proc, c, kind>> /\ Dead(p[d].run)
      /\ Solitary(d) /\ p[d].run \in Runs
  BY DEF Ended, At, world, job, Solo, IInv, Placed, Fits
<1>2. ~Retrying(d)  BY DEF Retrying
<1>3. p' = [p EXCEPT ![d].pc = "conclude", ![d].out = "failure"]  BY <1>2 DEF Ended
<1>4. "conclude" \in Pcs /\ "failure" \in Outs  BY DEF Pcs, Planning, Outs
<1>5. Went(d, "conclude", p[d].run, p[d].by)  BY <1>3, <1>4, RowKept
<1>6. p[d].by # "watch" /\ p[d].pc \notin Launching
  BY <1>1, SoloPcs DEF SchedInv, LeaseInv
<1>7. active \in {0, p[d].run} /\ \A e \in Dispatchers : p[e].run = p[d].run => e = d
  BY <1>1 DEF Solitary
<1>8. \A r \in Runs : active = r => proc[r] # "live"  BY <1>1, <1>7, Ids DEF Dead
<1>9. ASSUME NEW e \in Dispatchers \ {d} PROVE p[e].pc \notin Finalizing
  <2> SUFFICES ASSUME p[e].pc \in Finalizing PROVE FALSE
    OBVIOUS
  <2>1. active = p[e].run  BY DEF Solo, Solitary
  <2>2. p[e].run \in Runs  BY SoloPcs DEF IInv, Placed, Fits
  <2> QED  BY <1>7, <2>1, <2>2, Ids
<1> QED  BY <1>1, <1>5, <1>6, <1>8, <1>9, Frees

LEMMA AsideSolo ==
  ASSUME IInv, SchedInv, Solo, Handoff, NEW d \in Dispatchers,
         Conclude(d) \/ PersistSchedule(d) \/ Watch(d)
  PROVE  Solo'
<1>1. /\ p[d].pc \in {"conclude", "persist", "watch"} /\ UNCHANGED <<proc, active, c, kind>>
      /\ DOMAIN proc = Runs /\ p[d] \in Row /\ p[d].retry = 0 /\ p[d].run \in Runs
  BY DEF Conclude, PersistSchedule, Watch, At, stores, world, job, Solo, IInv, Types, Placed, Fits
<1>2. p[d].pc \notin Launching  BY <1>1, SoloPcs
<1>3. \A pc \in {"idle", "watch"} :
        pc \notin Launching \cup Finalizing \cup Watching \cup Starting \cup Leased \cup {"orphan", "check", "wait"}
  BY SoloPcs
<1>4. ASSUME NEW pc \in {"idle", "watch"}, NEW run \in {0, p[d].run}, NEW by, Went(d, pc, run, by)
      PROVE  Solo'
  BY <1>1, <1>2, <1>3, <1>4, GoesOn DEF LaunchedBy
<1>5. CASE Conclude(d)
  <2>1. Sleep(d)  BY <1>5 DEF Conclude, CutShort
  <2> QED  BY <1>4, <2>1, SleepWent
<1>6. CASE PersistSchedule(d)
  <2>1. PICK a : a = [p[d] EXCEPT !.pc = "watch"]  OBVIOUS
  <2>2. PICK b : b = [a EXCEPT !.next = 0]  OBVIOUS
  <2>3. PICK watch : watch = [b EXCEPT !.fresh = TRUE]  OBVIOUS
  <2>4. a \in Row /\ a.pc = "watch" /\ a.run = p[d].run /\ a.retry = 0
    BY <1>1, <2>1, GotoFields DEF Pcs
  <2>5. b \in Row /\ b.pc = "watch" /\ b.run = p[d].run /\ b.retry = 0  BY <2>2, <2>4 DEF Row
  <2>6. watch \in Row /\ watch.pc = "watch" /\ watch.run = p[d].run /\ watch.retry = 0
    BY <2>3, <2>5 DEF Row
  <2>7. Asleep \in Row /\ Asleep.pc = "idle" /\ Asleep.run = 0 /\ Asleep.retry = 0
    BY AsleepRow DEF Asleep
  <2>8. PICK row \in Row : /\ p' = Outdated([p EXCEPT ![d] = row], d)
                          /\ row.pc \in {"idle", "watch"} /\ row.run \in {0, p[d].run} /\ row.retry = 0
    <3>1. CASE active = p[d].run
      <4>1. [p EXCEPT ![d] = watch] = [p EXCEPT ![d].pc = "watch", ![d].next = 0, ![d].fresh = TRUE]
        BY <2>1, <2>2, <2>3
      <4>2. p' = Outdated([p EXCEPT ![d] = watch], d)  BY <1>6, <3>1, <4>1 DEF PersistSchedule
      <4> QED  BY <2>6, <4>2
    <3>2. CASE active # p[d].run
      <4>1. p' = Outdated([p EXCEPT ![d] = Asleep], d)  BY <1>6, <3>2 DEF PersistSchedule
      <4> QED  BY <2>7, <4>1
    <3> QED  BY <3>1, <3>2
  <2>9. Went(d, row.pc, row.run, row.by)  BY <2>8, OutdatedWent
  <2> QED  BY <1>4, <2>8, <2>9
<1>7. CASE Watch(d) /\ Sleep(d)  BY <1>4, <1>7, SleepWent
<1>8. CASE Watch(d) /\ ~Sleep(d)
  <2>1. PICK out \in {"success", "failure"} : Close(d, p[d].run, "watch", out, "check")
    BY <1>8 DEF Watch, Result
  <2>2. Dead(p[d].run)  BY <1>8 DEF Watch
  <2>3. out \in Outs /\ "check" \in Pcs  BY DEF Outs, Pcs, Leased
  <2>4. Went(d, "check", p[d].run, "watch")  BY <1>1, <2>1, <2>3, CloseWent
  <2>5. "check" \notin Launching \cup Finalizing \cup Starting  BY SoloPcs
  <2> QED  BY <1>1, <1>2, <2>2, <2>4, <2>5, GoesOn DEF LaunchedBy, Dead
<1> QED  BY <1>5, <1>6, <1>7, <1>8

(* What MaxEvents does not count leaves the bound alone, and how the job runs   *)
(* never changes.                                                            *)
LEMMA Counted ==
  ASSUME [Next]_vars
  PROVE  (UNCHANGED left \/ Spend) /\ UNCHANGED kind
<1>1. CASE UNCHANGED vars  BY <1>1 DEF vars, world, job
<1>2. CASE Cancel
  BY <1>2 DEF Cancel, CancelJob, CloseCancelled, RecordCancelled, CancelDies, Locked, world, job
<1>3. CASE Outside
  BY <1>3 DEF Outside, CommandExits, SlotComesDue, RepairIndex, world, job
<1>4. ASSUME NEW d \in Dispatchers, DispatchDue(d) \/ DispatchOther(d) \/ Crash(d)
      PROVE  (UNCHANGED left \/ Spend) /\ UNCHANGED kind
  BY <1>4 DEF DispatchDue, DispatchOther, StartTick, Crash, world, job
<1>5. ASSUME NEW d \in Dispatchers, Work(d) PROVE (UNCHANGED left \/ Spend) /\ UNCHANGED kind
  <2>1. CASE Reconcile(d) \/ Reap(d)
    BY <2>1 DEF Reconcile, Locked, Reap, ReapDead, ReapOverdue, world, job
  <2>2. CASE Finalize(d)
    BY <2>2 DEF Finalize, ClaimExit, FinalizeLedger, CloseRun, OrphanRun, Locked, CutShort, world, job
  <2>3. CASE Evaluate(d)
    BY <2>3 DEF Evaluate, Misfire, LaunchSlot, PassSlots, DeferSlot, Spawn, Locked, job
  <2>4. CASE EndTick(d) \/ EndIdleTick(d)  BY <2>4 DEF EndTick, EndIdleTick, world, job
  <2>5. CASE Follow(d)
    BY <2>5 DEF Follow, RecordEvidence, SetActive, Ended, Retry, Conclude, PersistSchedule, Watch,
                Spawn, Locked, CutShort, world, job
  <2> QED  BY <1>5, <2>1, <2>2, <2>3, <2>4, <2>5 DEF Work
<1> QED  BY <1>1, <1>2, <1>3, <1>4, <1>5 DEF Next

LEMMA QuietSolo ==
  ASSUME IInv, SchedInv, Solo, Handoff, ~Spend, [Next]_vars
  PROVE  Solo'
<1>1. CASE Cancel
  <2>1. c.pc = "idle"  BY DEF Solo
  <2> QED
    BY <1>1, <2>1 DEF Cancel, CancelJob, CloseCancelled, RecordCancelled, CancelDies
<1>2. CASE Outside \/ UNCHANGED vars
  <2>1. UNCHANGED <<p, c, active, kind>> /\ DOMAIN proc = Runs
    BY <1>2 DEF Outside, CommandExits, SlotComesDue, RepairIndex, vars, stores, world, job, Solo
  <2>2. UNCHANGED proc \/ \E r \in Runs, how \in {"ok", "fail"} : proc' = [proc EXCEPT ![r] = how]
    BY <1>2 DEF Outside, CommandExits, SlotComesDue, RepairIndex, vars, stores, world
  <2>3. DOMAIN proc' = Runs /\ \A r \in Runs : proc'[r] = "live" => proc[r] = "live"
    BY <2>1, <2>2
  <2> QED  BY <2>1, <2>3, OutsideSolo
<1>3. ASSUME NEW d \in Dispatchers, DispatchDue(d) \/ DispatchOther(d) \/ Crash(d)  PROVE Solo'
  BY <1>3, StartSolo DEF DispatchOther, Crash
<1>4. ASSUME NEW d \in Dispatchers, Work(d)  PROVE Solo'
  <2>1. CASE Reconcile(d) \/ Reap(d)  BY <2>1, TickSolo
  <2>2. CASE Finalize(d)  BY <2>2, FinalizeSolo
  <2>3. CASE Evaluate(d)  BY <2>3, EvaluateSolo
  <2>4. CASE EndTick(d) \/ EndIdleTick(d)  BY <2>4, EndTickSolo
  <2>5. CASE Follow(d)
    <3>1. CASE RecordEvidence(d)  BY <3>1, EvidenceSolo
    <3>2. CASE SetActive(d)  BY <3>2, SetActiveSolo
    <3>3. CASE Ended(d)  BY <3>3, EndedSolo
    <3>4. CASE Retry(d)  BY <3>4 DEF Retry, At, IInv, Placed, Fits
    <3>5. CASE Conclude(d) \/ PersistSchedule(d) \/ Watch(d)  BY <3>5, AsideSolo
    <3> QED  BY <2>5, <3>1, <3>2, <3>3, <3>4, <3>5 DEF Follow
  <2> QED  BY <1>4, <2>1, <2>2, <2>3, <2>4, <2>5 DEF Work
<1> QED  BY <1>1, <1>2, <1>3, <1>4 DEF Next

LEMMA InitSolo == Init => SoloInv
<1> SUFFICES ASSUME Init PROVE SoloInv
  OBVIOUS
<1>1. /\ c.pc = "idle" /\ left = MaxEvents /\ proc = [r \in Runs |-> "none"]
      /\ \A d \in Dispatchers : p[d] = Asleep
  BY DEF Init
<1>2. \A d \in Dispatchers : p[d].pc = "idle" /\ p[d].retry = 0
  BY <1>1 DEF Asleep
<1>3. "idle" \notin Leased \cup Starting \cup Launching \cup Finalizing \cup Watching
  BY DEF Leased, Starting, Launching, Finalizing, Watching
<1>4. \A d \in Dispatchers : ~Busy(d)  BY <1>2, <1>3 DEF Busy, Holds
<1>5. \A d \in Dispatchers : Solitary(d)  BY <1>2, <1>3 DEF Solitary
<1>6. Solo  BY <1>1, <1>2, <1>4, <1>5 DEF Solo
<1> QED  BY <1>1, <1>6, DispatchConstants DEF SoloInv

LEMMA NextSolo ==
  IInv /\ SchedInv /\ SoloInv /\ [Next]_vars => SoloInv'
<1> SUFFICES ASSUME IInv, SchedInv, SoloInv, [Next]_vars PROVE SoloInv'
  OBVIOUS
<1>1. (UNCHANGED left \/ Spend) /\ UNCHANGED kind  BY Counted
<1>2. left' \in Int /\ left' <= MaxEvents  BY <1>1, DispatchConstants DEF SoloInv, Spend
<1>3. ASSUME Undisturbed' PROVE Solo'
  <2>1. left' = MaxEvents /\ Handoff  BY <1>1, <1>3 DEF Undisturbed, Handoff
  <2>2. ~Spend  BY <2>1, DispatchConstants DEF SoloInv, Spend
  <2>3. Solo  BY <1>1, <2>1, <2>2 DEF SoloInv, Undisturbed
  <2> QED  BY <2>1, <2>2, <2>3, QuietSolo
<1> QED  BY <1>2, <1>3 DEF SoloInv

(* For any number of dispatchers, runs and slots, until something that          *)
(* MaxEvents counts happens: of a job whose commands are handed off, at most    *)
(* one is alive ("Single-instance lock"), because whoever may bring a run to a  *)
(* state is alone and has found the job without one.                          *)
THEOREM OneCommandRuns == Spec => []SingleInstance
<1>1. SoloInv => SingleInstance
  <2> SUFFICES ASSUME Undisturbed, Solo
               PROVE  Cardinality({r \in Runs : proc[r] = "live"}) <= 1
    BY DEF SoloInv, SingleInstance
  <2>1. PICK alive : alive = {r \in Runs : proc[r] = "live"}  OBVIOUS
  <2>2. ASSUME NEW q \in alive, NEW r \in alive PROVE q = r
    <3>1. /\ q \in Runs /\ r \in Runs
          /\ active = q \/ \E d \in Dispatchers : LaunchedBy(d, q)
          /\ active = r \/ \E d \in Dispatchers : LaunchedBy(d, r)
      BY <2>1, <2>2 DEF Solo
    <3>2. \A d \in Dispatchers, s \in Runs :
            LaunchedBy(d, s) => Busy(d) /\ active = 0 /\ p[d].run = s
      BY SoloPcs DEF LaunchedBy, Undisturbed, Busy, Solo, Solitary
    <3>3. \A d, e \in Dispatchers : Busy(d) /\ Busy(e) => d = e  BY DEF Solo
    <3> QED  BY <3>1, <3>2, <3>3, Ids
  <2>3. CASE alive = {}  BY <2>1, <2>3, FS_EmptySet
  <2>4. CASE alive # {}
    <3>1. PICK q \in alive : alive = {q}  BY <2>2, <2>4
    <3>2. Cardinality({q}) = 1  BY FS_Singleton
    <3> QED  BY <2>1, <3>1, <3>2
  <2> QED  BY <2>3, <2>4
<1>2. Spec => []SoloInv
  BY InitInv, NextInv, InitSched, NextSched, InitSolo, NextSolo, PTL DEF Spec
<1> QED  BY <1>1, <1>2, PTL
=============================================================================
