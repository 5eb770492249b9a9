---------------------------- MODULE SessionWake ----------------------------
(***************************************************************************)
(* How one live session learns of a message.  Three ways lead to it: the   *)
(* watermark file ("bell") that the PreToolUse hook compares at each tool  *)
(* call, the Stop gate, which blocks or parks a session that has unread    *)
(* mail, and the parked listener, whose holder process stages a pushed     *)
(* message, acknowledges it and wakes the idle host.                       *)
(*                                                                         *)
(* "db" is the daemon's store and the bell it rings, "holder" the parked   *)
(* hook processes, the rest belongs to the session: "host" is the turn,    *)
(* "scratch" the notifications staged on disk, "told" the messages a turn  *)
(* has been shown, "woke" the wake ledger.  One endpoint in one process    *)
(* generation with a recorded owner that stays alive; session hosts,       *)
(* availability takeover, closed-work notices, explicit waits and offers   *)
(* without a watch are left out.  Listener rows are reused once nothing    *)
(* refers to them.                                                         *)
(***************************************************************************)
EXTENDS Integers, FiniteSetsExt

CONSTANTS StopBlockCap, \* STOP_BLOCK_CAP
          MaxMessage,   \* bound: messages, numbered in order of delivery
          MaxListener,  \* bound: listener rows in use at once
          MaxEvents     \* bound: messages, user prompts and faults in all

ASSUME WakeAssumption ==
  {StopBlockCap, MaxMessage, MaxListener, MaxEvents} \subseteq Nat

VARIABLES db, holder, host, pre, scratch, told, woke, suppressed, prompts, faults

Message    == 1..MaxMessage
Listener   == 1..MaxListener
NoListener == 0
NoMessage  == 0

session == <<host, pre, scratch, told, woke>>
counts  == <<prompts, faults>>
vars    == <<db, holder, session, suppressed, counts>>

Unread(d)       == {m \in Message : d.del[m] = "unread"}
Active(d)       == {l \in Listener : d.lst[l] \in {"parked", "attached", "waking"}}
PendingOn(d, l) == {m \in Message : d.pres[m] \in {"pending", "late"} /\ d.on[m] = l}
Connected(l)    == holder[l].up

NoHolder == [pc |-> "none", m |-> NoMessage, up |-> FALSE]
AtPc(l, pcs) == holder[l].pc \in pcs
Moved(l, pc) == holder' = [holder EXCEPT ![l].pc = pc]
Left(l)      == holder' = [holder EXCEPT ![l] = NoHolder]

Room == prompts + faults + Cardinality({m \in Message : db.del[m] # "none"}) < MaxEvents

\* A turn of a session whose launch the daemon recorded as interactive or not.
Init ==
  /\ \E mode \in {"interactive", "non_interactive"} :
       db = [ep |-> "busy", mode |-> mode, armed |-> FALSE, bell |-> "seen",
             del |-> [m \in Message |-> "none"], adm |-> [m \in Message |-> "closed"],
             blocks |-> [m \in Message |-> 0], pres |-> [m \in Message |-> "none"],
             on |-> [m \in Message |-> NoListener], missed |-> {},
             lst |-> [l \in Listener |-> "none"], expired |-> {}, dropped |-> {}]
  /\ holder = [l \in Listener |-> NoHolder]
  /\ host = "working" /\ pre = "none"
  /\ scratch = {} /\ told = {} /\ woke = {}
  /\ suppressed = FALSE /\ prompts = 0 /\ faults = 0

-----------------------------------------------------------------------------
(* What the handlers share. *)

\* The bell is "new" when the watermark differs from what the session has
\* seen; "captured" while a PreToolUse hook holds a copy of it.
RefreshWatermark(d) ==
  [d EXCEPT !.bell = CASE @ = "seen" -> "new" [] @ = "captured" -> "newer" [] OTHER -> @]

OpenOldestUnread(d) ==
  IF Unread(d) = {} THEN d
  ELSE [d EXCEPT !.adm[Min(Unread(d))] = IF @ = "closed" THEN "opened" ELSE @]

Present(d, l, m) ==
  [d EXCEPT !.pres[m] = "pending", !.on[m] = l, !.lst[l] = "waking"]

Miss(d, ms) ==
  [d EXCEPT !.missed = @ \cup ms,
            !.pres = [m \in Message |-> IF m \in ms THEN "missed" ELSE @[m]],
            !.on = [m \in Message |-> IF m \in ms THEN NoListener ELSE @[m]]]

EndListeners(d, ls) ==
  [d EXCEPT !.lst = [l \in Listener |-> IF l \in ls THEN "ended" ELSE @[l]],
            !.expired = @ \ ls, !.dropped = @ \ ls]

\* Ending a listener misses what it was presenting.
Release(d, ls) ==
  EndListeners(Miss(d, UNION {PendingOn(d, l) : l \in ls}), ls)

MarkIdle(d) == IF d.ep = "retiring" THEN d ELSE [d EXCEPT !.ep = "idle"]

-----------------------------------------------------------------------------
(* Messages arrive. *)

\* The listener a commit may present on: parked or attached, not waking.
ExactListeners(d) ==
  {l \in Listener : d.lst[l] \in {"parked", "attached"} /\ l \notin d.expired}

Commit(m) ==
  /\ Room /\ db.del[m] = "none" /\ \A n \in 1..(m - 1) : db.del[n] # "none"
  /\ LET d  == RefreshWatermark([db EXCEPT !.del[m] = "unread"])
         ls == IF d.ep = "idle" THEN ExactListeners(d) ELSE {}
     IN IF ls = {}
        THEN db' = d /\ UNCHANGED holder
        ELSE \E l \in ls :
               /\ db' = Present(d, l, m)
               /\ IF Connected(l) /\ AtPc(l, {"wait"})
                  THEN holder' = [holder EXCEPT ![l].pc = "stage", ![l].m = m]
                  ELSE UNCHANGED holder
  /\ UNCHANGED <<session, suppressed, counts>>

-----------------------------------------------------------------------------
(* The session's turn. *)

\* The agent commits an effect of its own, which arms the generation.
Arm ==
  /\ host = "working" /\ ~db.armed
  /\ db' = [db EXCEPT !.armed = TRUE]
  /\ UNCHANGED <<holder, session, suppressed, counts>>

\* A busy session needs no listener: what it was presenting rings the bell.
SetBusy(d) ==
  IF d.ep = "retiring" THEN d
  ELSE LET lost == UNION {PendingOn(d, l) : l \in Active(d)}
           e    == Release([d EXCEPT !.ep = "busy"], Active(d))
       IN IF lost = {} THEN e ELSE RefreshWatermark(e)

Prompt ==
  /\ host = "idle" /\ db.mode = "interactive" /\ Room
  /\ host' = "working"
  /\ \/ db' = SetBusy(db) /\ prompts' = prompts + 1 /\ UNCHANGED faults
     \/ UNCHANGED db /\ faults' = faults + 1 /\ UNCHANGED prompts
  /\ UNCHANGED <<holder, pre, scratch, told, woke, suppressed>>

PreToolCapture ==
  /\ host = "working" /\ pre = "none" /\ db.bell = "new"
  /\ pre' = "captured" /\ db' = [db EXCEPT !.bell = "captured"]
  /\ UNCHANGED <<holder, host, scratch, told, woke, suppressed, counts>>

\* message.notification.next: opens the oldest unread and stages its name.
PreToolPeek ==
  /\ pre = "captured" /\ db.ep # "retiring"
  /\ pre' = "peeked" /\ db' = OpenOldestUnread(db)
  /\ scratch' = scratch \cup (IF Unread(db) = {} THEN {} ELSE {Min(Unread(db))})
  /\ UNCHANGED <<holder, host, told, woke, suppressed, counts>>

MarkCapturedRereads == pre = "peeked" /\ pre' = "none" /\ db' = [db EXCEPT !.bell = "seen"]

\* Seen is what was captured: a ring since then still differs from it.
MarkCaptured ==
  /\ pre = "peeked"
  /\ pre' = "none"
  /\ db' = [db EXCEPT !.bell = IF @ = "newer" THEN "new" ELSE "seen"]

PreToolMark ==
  /\ MarkCaptured
  /\ UNCHANGED <<holder, host, scratch, told, woke, suppressed, counts>>

\* A refused peek, or a hook that is killed, marks nothing.
MarkNothing ==
  /\ pre' = "none" /\ db' = [db EXCEPT !.bell = "new"]
  /\ UNCHANGED <<holder, host, scratch, told, woke, suppressed>>

PreToolRefused ==
  pre = "captured" /\ db.ep = "retiring" /\ MarkNothing /\ UNCHANGED counts

PostTool ==
  /\ host = "working" /\ scratch # {}
  /\ told' = told \cup (scratch \cap Unread(db)) /\ scratch' = {}
  /\ UNCHANGED <<db, holder, host, pre, woke, suppressed, counts>>

\* message.receive, by the first path that grants it: the open admission of
\* the oldest unread, an acknowledged presentation, or the live session.
CurrentOwner(d, m) == m = Min(Unread(d)) /\ d.adm[m] # "closed"
Presented(d, m)    == d.pres[m] = "acked" /\ d.ep = "busy"
LiveSession(d, m)  == m = Min(Unread(d))

Receive(m) ==
  /\ host = "working" /\ m \in told /\ m \in Unread(db) /\ db.ep # "retiring"
  /\ LET d == [db EXCEPT !.del[m] = "read", !.adm[m] = "closed", !.blocks[m] = 0]
     IN \/ /\ CurrentOwner(db, m)
           /\ db' = IF Unread(d) = {} THEN d ELSE RefreshWatermark(OpenOldestUnread(d))
           /\ told' = told \ {m}
        \/ /\ ~CurrentOwner(db, m) /\ (Presented(db, m) \/ LiveSession(db, m))
           /\ db' = d /\ told' = told \ {m}
        \/ /\ ~Presented(db, m) /\ ~LiveSession(db, m)
           /\ told' = told \cup {Min(Unread(db))} /\ UNCHANGED db
  /\ UNCHANGED <<holder, host, pre, scratch, woke, suppressed, counts>>

-----------------------------------------------------------------------------
(* The Stop gate. *)

PresentableOnce(d) == {m \in Unread(d) : d.pres[m] = "none"}

\* A missed presentation may be made again.
Presentable(d) ==
  {m \in Unread(d) : d.pres[m] \notin {"pending", "late", "acked"}}

\* Armed sessions park, and headless runs with background work in flight.
Parks(d, background) ==
  \/ d.mode = "interactive" /\ d.armed
  \/ d.mode = "non_interactive" /\ background

MustBlock(d) == Presentable(d) # {} /\ d.blocks[Min(Presentable(d))] < StopBlockCap

StopBlockedUncounted ==
  MustBlock(db) /\ told' = told \cup {Min(Presentable(db))}
  /\ UNCHANGED <<db, holder, host>>

StopBlocked ==
  /\ MustBlock(db)
  /\ LET m == Min(Presentable(db))
     IN db' = [db EXCEPT !.blocks[m] = @ + 1] /\ told' = told \cup {m}
  /\ UNCHANGED <<holder, host>>

StopAllowed ==
  /\ ~MustBlock(db)
  /\ db' = MarkIdle(Release(db, Active(db)))
  /\ host' = "idle" /\ UNCHANGED <<holder, told>>

\* The Stop's own holder finds the park another one already holds.
StopReuses ==
  /\ \E l \in Active(db) :
       holder' = IF Connected(l) \/ AtPc(l, {"stage", "ack", "duplicate", "emit"})
                 THEN holder
                 ELSE [holder EXCEPT ![l] = [NoHolder EXCEPT !.pc = "start"]]
  /\ db' = MarkIdle(db)
  /\ host' = "idle" /\ UNCHANGED told

Free(d) ==
  {l \in Listener : l \notin Active(d) /\ PendingOn(d, l) = {} /\ AtPc(l, {"none"})}

StopParks ==
  /\ Active(db) = {} /\ Free(db) # {}
  /\ LET l == Min(Free(db))
         d == MarkIdle([db EXCEPT !.lst[l] = "parked"])
     IN /\ db' = IF Presentable(d) = {} THEN d ELSE Present(d, l, Min(Presentable(d)))
        /\ holder' = [holder EXCEPT ![l] = [NoHolder EXCEPT !.pc = "start"]]
  /\ host' = "idle" /\ UNCHANGED told

Stop ==
  /\ host = "working" /\ pre = "none"
  /\ \/ /\ db.ep = "retiring"
        /\ host' = "idle" /\ UNCHANGED <<db, holder, told>>
     \/ /\ db.ep # "retiring"
        /\ \E background \in BOOLEAN :
             IF Parks(db, background)
             THEN StopReuses \/ StopParks
             ELSE StopBlocked \/ StopAllowed
  /\ UNCHANGED <<pre, scratch, woke, suppressed, counts>>

-----------------------------------------------------------------------------
(* The holder of a parked listener. *)

\* Attaching publishes what is pending; the holder takes the first.
Attach(l) ==
  /\ AtPc(l, {"start"})
  /\ IF l \in Active(db) /\ l \notin db.expired
     THEN LET pending == PendingOn(db, l)
          IN IF pending = {}
             THEN /\ db' = [db EXCEPT !.lst[l] = IF @ = "parked" THEN "attached" ELSE @]
                  /\ holder' = [holder EXCEPT ![l] = [NoHolder EXCEPT !.pc = "wait", !.up = TRUE]]
             ELSE /\ db' = [db EXCEPT !.lst[l] = "waking"]
                  /\ holder' = [holder EXCEPT ![l] =
                                  [pc |-> "stage", m |-> Min(pending), up |-> TRUE]]
     ELSE Left(l) /\ UNCHANGED db
  /\ UNCHANGED <<session, suppressed, counts>>

StageLater(l) ==
  /\ AtPc(l, {"stage"}) /\ UNCHANGED scratch
  /\ Moved(l, IF holder[l].m \in woke THEN "duplicate" ELSE "ack")

\* The notification is on disk before the ACK; one the session was already
\* woken for is only acknowledged.
StageEntry(l) ==
  /\ AtPc(l, {"stage"})
  /\ IF holder[l].m \in woke
     THEN Moved(l, "duplicate") /\ UNCHANGED scratch
     ELSE Moved(l, "ack") /\ scratch' = scratch \cup {holder[l].m}

Stage(l) ==
  /\ StageEntry(l)
  /\ UNCHANGED <<db, host, pre, told, woke, suppressed, counts>>

Acknowledgeable(l) ==
  /\ Connected(l) /\ db.lst[l] \in {"attached", "waking"} /\ l \notin db.expired
  /\ db.pres[holder[l].m] = "pending" /\ db.on[holder[l].m] = l

Acked(d, l, m) ==
  LET e == EndListeners([d EXCEPT !.pres[m] = "acked", !.on[m] = NoListener], {l})
  IN OpenOldestUnread([e EXCEPT !.ep = IF @ = "retiring" THEN @ ELSE "busy"])

AfterAck(l) == IF AtPc(l, {"ack"}) THEN Moved(l, "emit") ELSE Left(l)

Acknowledge(l) ==
  /\ AtPc(l, {"ack", "duplicate"}) /\ Acknowledgeable(l)
  /\ db' = Acked(db, l, holder[l].m)
  /\ AfterAck(l)
  /\ suppressed' = (suppressed \/ AtPc(l, {"duplicate"}))
  /\ UNCHANGED <<session, counts>>

\* A refused ACK ends the listener and wakes the host all the same.
AckRefused(l) ==
  /\ AtPc(l, {"ack", "duplicate"}) /\ ~Acknowledgeable(l)
  /\ db' = IF Connected(l) /\ l \in Active(db) THEN Release(db, {l}) ELSE db
  /\ AfterAck(l)
  /\ UNCHANGED <<session, suppressed, counts>>

Emit(l) ==
  /\ AtPc(l, {"emit"})
  /\ host' = "working" /\ told' = told \cup ({holder[l].m} \cap Unread(db)) /\ woke' = woke \cup {holder[l].m}
  /\ Left(l)
  /\ UNCHANGED <<db, pre, scratch, suppressed, counts>>

\* A refused heartbeat: the listener is over, lost or past its deadline.
Leave(l) ==
  /\ AtPc(l, {"wait", "ack", "duplicate"})
  /\ ~Connected(l) \/ db.lst[l] \notin {"attached", "waking"} \/ l \in db.expired
  /\ db' = IF Connected(l) /\ l \in Active(db) THEN Release(db, {l}) ELSE db
  /\ Left(l)
  /\ UNCHANGED <<session, suppressed, counts>>

\* Only an idle interactive session retires at its park deadline.
ExpirePark(d, l) ==
  LET e == EndListeners(d, {l})
  IN IF d.ep = "idle" /\ d.mode = "interactive" THEN [e EXCEPT !.ep = "retiring"] ELSE e

ParkTimeout(l) ==
  /\ AtPc(l, {"wait", "ack", "duplicate"}) /\ l \in db.expired
  /\ db' = IF Connected(l) /\ l \in Active(db) THEN ExpirePark(db, l) ELSE db
  /\ Left(l)
  /\ UNCHANGED <<session, suppressed, counts>>

HolderStep(l) ==
  \/ Attach(l) \/ Stage(l) \/ Acknowledge(l) \/ AckRefused(l) \/ Emit(l)
  \/ Leave(l) \/ ParkTimeout(l)

-----------------------------------------------------------------------------
(* The reconciler's pass over the active listeners. *)

Late(d, l) == {m \in PendingOn(d, l) : d.pres[m] = "late"}

\* Only a delivery missed before carries its session behind the fence.
SecondMiss(d, l) == Late(d, l) \cap d.missed

MissLate(d, l, lost) ==
  LET gone    == IF lost THEN PendingOn(d, l) ELSE Late(d, l)
      second  == SecondMiss(d, l)
      retires == second # {} /\ d.ep # "retiring" /\ d.mode = "interactive"
      e       == EndListeners(Miss(d, gone), {l})
      rings   == d.ep # "retiring" /\ \E m \in gone : retires => \A n \in second : m < n
      moved   == [e EXCEPT !.ep = IF retires THEN "retiring"
                                  ELSE IF @ = "busy" /\ Late(d, l) \ d.missed # {} THEN "idle"
                                  ELSE @]
  IN IF rings THEN RefreshWatermark(moved) ELSE moved

Reconcile ==
  /\ \E l \in Active(db) :
       \/ /\ Late(db, l) # {}
          /\ db' = MissLate(db, l, l \in db.dropped)
       \/ /\ Late(db, l) = {} /\ l \in db.expired
          /\ db' = ExpirePark(db, l)
       \/ /\ Late(db, l) = {} /\ l \in db.dropped \ db.expired
          /\ db' = [db EXCEPT !.lst[l] = "parked", !.dropped = {}]
  /\ UNCHANGED <<holder, session, suppressed, counts>>

\* Thirty seconds after it opened, the oldest unread rings once more.
ArmRetry ==
  /\ Unread(db) # {} /\ db.ep # "retiring" /\ db.adm[Min(Unread(db))] = "opened"
  /\ db' = RefreshWatermark([db EXCEPT !.adm[Min(Unread(db))] = "retried"])
  /\ UNCHANGED <<holder, session, suppressed, counts>>

\* The retirement executor finds the owner alive.
KeepLiveOwner ==
  /\ db.ep = "retiring"
  /\ db' = [db EXCEPT !.ep = "idle"]
  /\ UNCHANGED <<holder, session, suppressed, counts>>

-----------------------------------------------------------------------------
(* Time and faults. *)

Running(l) == ~AtPc(l, {"none"})

\* A holder that runs acknowledges in time unless something goes wrong.
AckDeadline(m) ==
  /\ db.pres[m] = "pending"
  /\ db' = [db EXCEPT !.pres[m] = "late"]
  /\ IF Running(db.on[m])
     THEN Room /\ faults' = faults + 1
     ELSE UNCHANGED faults
  /\ UNCHANGED <<holder, session, suppressed, prompts>>

ParkDeadline(l) ==
  /\ l \in Active(db) \ db.expired
  /\ db' = [db EXCEPT !.expired = @ \cup {l}]
  /\ UNCHANGED <<holder, session, suppressed>>

HolderDies(l) ==
  /\ Running(l) /\ Left(l)
  /\ db' = IF Connected(l) /\ l \in Active(db) THEN [db EXCEPT !.dropped = @ \cup {l}] ELSE db
  /\ UNCHANGED <<session, suppressed>>

\* Every listener is socketless after a restart; the holders live on.
DaemonRestarts ==
  /\ Active(db) # {}
  /\ holder' = [l \in Listener |-> [holder[l] EXCEPT !.up = FALSE]]
  /\ db' = [db EXCEPT !.dropped = Active(db)]
  /\ UNCHANGED <<session, suppressed>>

Fault ==
  /\ Room /\ faults' = faults + 1 /\ UNCHANGED prompts
  /\ \/ DaemonRestarts
     \/ \E l \in Listener : ParkDeadline(l) \/ HolderDies(l)
     \/ pre # "none" /\ MarkNothing

-----------------------------------------------------------------------------
Next ==
  \/ \E m \in Message : Commit(m) \/ Receive(m) \/ AckDeadline(m)
  \/ Arm \/ Prompt \/ PreToolCapture \/ PreToolPeek \/ PreToolMark \/ PreToolRefused
  \/ PostTool \/ Stop \/ Reconcile \/ ArmRetry \/ KeepLiveOwner \/ Fault
  \/ \E l \in Listener : HolderStep(l)

\* Turns end, hooks and holders run on, and the daemon's timers fire.
Fairness ==
  /\ WF_vars(Stop) /\ WF_vars(PreToolPeek) /\ WF_vars(PreToolMark) /\ WF_vars(PreToolRefused)
  /\ WF_vars(Reconcile) /\ WF_vars(KeepLiveOwner)
  /\ \A l \in Listener : WF_vars(HolderStep(l))

Spec == Init /\ [][Next]_vars /\ Fairness

-----------------------------------------------------------------------------
(* Properties. *)

\* Every variable keeps its shape.
TypeOK ==
  /\ db \in [ep : {"idle", "busy", "retiring"}, mode : {"interactive", "non_interactive"},
             armed : BOOLEAN, bell : {"seen", "new", "captured", "newer"},
             del : [Message -> {"none", "unread", "read"}],
             adm : [Message -> {"closed", "opened", "retried"}],
             blocks : [Message -> 0..StopBlockCap],
             pres : [Message -> {"none", "pending", "late", "acked", "missed"}],
             on : [Message -> Listener \cup {NoListener}], missed : SUBSET Message,
             lst : [Listener -> {"none", "parked", "attached", "waking", "ended"}],
             expired : SUBSET Listener, dropped : SUBSET Listener]
  /\ holder \in [Listener -> [pc : {"none", "start", "wait", "stage", "ack", "duplicate", "emit"},
                              m : Message \cup {NoMessage}, up : BOOLEAN]]
  /\ host \in {"idle", "working"} /\ pre \in {"none", "captured", "peeked"}
  /\ scratch \subseteq Message /\ told \subseteq Message /\ woke \subseteq Message
  /\ suppressed \in BOOLEAN /\ prompts \in Nat /\ faults \in Nat

\* The daemon takes an acknowledgement as proof that the session has the
\* message, and Stop never presents it again: so when a holder acknowledges,
\* the notification is already staged on disk or in the session's context,
\* whoever dies before the wake is written.
AckedIsShown ==
  \A m \in Unread(db) : db.pres[m] = "acked" => m \in scratch \cup told

\* The next tool call of the session will look.
Rung == db.bell \in {"new", "newer"} \/ (db.bell = "captured" /\ pre = "captured")

\* As long as mail is unread, the next tool call notices it or the oldest
\* message has been staged or told: a ring that falls between a PreToolUse
\* hook's capture, its peek and its mark is not lost.
OldestIsSignalled ==
  Unread(db) # {} => Rung \/ Min(Unread(db)) \in scratch \cup told

\* A turn ends with unread mail only if the session has been told of all of
\* it, or the gate has blocked on it as often as it may, or the park that
\* ends the turn holds a presentation that will wake the session again.
NoSilentStop ==
  [][(Stop /\ host' = "idle" /\ db.ep # "retiring" /\ faults = 0) =>
       \/ \A m \in Unread(db) : m \in told \/ db.pres[m] = "acked"
       \/ \E m \in Unread(db) : db.blocks[m] = StopBlockCap
       \/ \E l \in Active(db') : PendingOn(db', l) # {}]_vars

\* An armed interactive session learns of all its mail without its user: it
\* never settles idle with mail it was not told of.  Excused are faults and
\* an acknowledgement that the daemon took for a wake which the session's
\* ledger suppressed: the daemon then believes an idle session to be busy.
ToldWithoutUser ==
  []<>(\/ Unread(db) \subseteq told \/ faults > 0 \/ suppressed
       \/ db.mode = "non_interactive" \/ ~db.armed)

\* Blocks, wakes, misses and retirements never keep a session working for
\* ever on mail it does not read.
SessionRests == <>[](host = "idle")
=============================================================================
