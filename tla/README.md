# A verification project for TLDR

TLDR lets coding agents (Claude, Codex, Copilot sessions) hand work to each
other, sleep while they wait, be woken or replaced, run on a schedule, and be
reached by Slack and email. The repository is about 119,000 lines; 105,000 of
them are JavaScript:

| part | where | lines | what it is |
|---|---|---|---|
| Tightbeam | `messaging/` | 37k | a daemon on a Unix socket with one SQLite database, the command line of the agents, the hooks of their hosts |
| Helm tasks | `scheduling/src/` | 47k | jobs, schedules, dispatch, leases, reaping, plain files and locks |
| channels, product | `src/lib/` | 22k | inbound mail and Slack, drafts to confirm, adapters, install and upgrade |
| the rest | `bin`, `install`, `scripts`, `skills`, `release` | | launchers, installers, packaging |

Paths in this file are below `src/` of the repository. The specifications are
read off the code; no test suite and no design document is part of the
repository, so what the system *promises* is taken from the comments and from
the messages the code gives its callers, and each property quotes or names it.

## 1 Inventory

### Tightbeam: the daemon

One Node process, one SQLite connection, `BEGIN IMMEDIATE` around every
operation, and every operation synchronous: a transaction is atomic, both
against other requests and against a crash. What interleaves is *transactions*:
requests of different sessions, the ticks of the daemon, the callbacks of the
processes it spawned.

| component | state | operations | hard because |
|---|---|---|---|
| **obligation graph** `lifecycle_transition.mjs`, `custody_reconciler.mjs`, `watch_reconciler.mjs` | `obligations` (root → attempt → delegation → …), `handoff_watches`, `root_attention`, `staged_resolutions` | `message.commit` with an effect (open, update, handoff offer / accept / decline, close fulfilled / cancelled), `recovery.retry`, `recovery.switch`, custody loss, expiry, `session.stop` | one delegation can be decided by five parties; cascades; a root may stay open until its report is delivered; endpoints die and are replaced under it |
| **routing** `ops/message_shared.mjs` | `deliveries`, `resume_lineage` | fan-out, newest replacement of a recipient, idempotent replay | a recorded recipient is stale when its reply is written |
| **claims** `ops/delivery_*.mjs`, `ops/claims_shared.mjs` | `claims`, `deliveries.state` | claim by scan or by id, complete, release, reap, exhaust, supersede | leases expire, late answers, retries with backoff |
| **resumer** `resumer.mjs`, `ops/resume_*.mjs` | `resume_requests`, launches, tokens | spawn a provider for a sleeping endpoint, or admit a replacement | spawn, registration and exit arrive in any order; three fences (generation, launch token, owner epoch) |
| **endpoints** `ops/endpoint_*.mjs`, `endpoint_retirement.mjs`, `retirement_executor.mjs` | `endpoints`, generations | register, take over, revive, close, retire | processes die, pids are reused, retirement escalates asynchronously |
| **session.stop, listeners, receive** `listener_reconciler.mjs`, `ops/listener_operations.mjs`, `ops/message_receive*.mjs`, `ops/message_notification_next.mjs` | `listeners`, `listener_presentations`, admissions, stop blocks, the watermark file | stop, park, attach, present, acknowledge, receive, peek, reconcile | must neither let a session stop on unread mail nor block it for ever; hooks, holders and daemon race |
| **process** `daemon.mjs`, `state_root.mjs`, `server.mjs` | `daemon.lock`, the socket file | start, stop | several starts at once over leftovers of a crash |
| views, migrations, registration of applications, principals, permissions | rows | single-row writes, queries | – |

### Tightbeam: the command line

`agent_action_store.mjs` keeps what a session has already sent in one JSON file,
so that a retried command does not send twice; `agent_action_lock.mjs` locks it
between processes (a directory holding its owner's token, published by rename,
reaped by whoever finds its owner dead). `agent_wait.mjs` and its journal resume
an interrupted wait. `hook_commands.mjs` is what the host runs at prompts, tool
calls and stops, and the background hook that holds a park open. The rest parses arguments, installs hooks, prints.

### Helm tasks

Files under a lock file: jobs, the runtime ledger, active runs, histories.
`dispatch_service.mjs` selects due jobs under a lease (`lock.mjs`,
`substrate/file_mutex.mjs`, the lock of `runtime_store.mjs`), reserves an
attempt, spawns a wrapper; `command_exit_finalization.mjs` turns the wrapper's
exit into exactly one finalization, `reaper.mjs` kills what runs over its time;
`schedule_eval.mjs` computes when a job is next due. It is hard because many
short processes and a daemon share the files, and any of them may die between
two writes.

### Channels and product

The daemon of the product polls mail and drains Slack in phases with a timeout.
Slack comes in through a listener child (`slack_socket_listener.mjs`) that
appends to `inbox.jsonl`; on every tick `slack_inbound.mjs` and
`slack_inbound_by_name.mjs` read it behind a cursor (`slack_inbox.mjs`), launch a
session for a new post (`slack_session_launch.mjs`), commit the message to it and
write the thread map (`slack_channel_map.mjs`). It is hard because each line
takes a dozen writes in three stores, and a phase given up is not stopped. Drafts
of email intents, the mail poll, channel adapters; install, upgrade and removal.

### How they interact

Agents and hooks call the daemon (frames on the socket); the daemon spawns
providers, whose hooks call back; channels publish inbound messages by
`message.commit` with an origin route, and the outbound adapters claim
deliveries like any consumer; Helm starts agents as runs; the confirmation of a
draft calls `helm-tasks` as a child process.

What makes each component correct is listed with its properties below and, for
what is not yet modelled, with the hazards in `PROJECT.json`.

## 2 Modules

| module | models | state |
|---|---|---|
| `ObligationGraph` | the work graph: every effect writer but `update`, both reconcilers, both recoveries, report delivery, what of endpoints and resumer the graph reads | one variable per column |
| `ObligationGraphProofs` | TLAPS: twelve properties of `ObligationGraph`, for graphs of any size | |
| `EndpointCustody` | who owns an endpoint: resume requests, launches, registrations, exits, the fences of custody loss, retirement, owner reconciliation | `db` (the rows), `proc` (the operating system), `child`, `capture` (the daemon's memory) |
| `EndpointCustodyProofs` | TLAPS: six properties of `EndpointCustody`, for any number of launches and panes | |
| `SessionWake` | how a live session learns of its mail: watermark, Stop gate, parked listeners and their holders | `db`, `holder`, the session |
| `SessionWakeProofs` | TLAPS: types and the three safety properties of `SessionWake`, for any messages, listeners, block caps and events | |
| `DeliveryLease` | *abstract*: a lease is exclusive, never comes back, and alone delivers | leases granted, in force and completed, per delivery |
| `DeliveryClaims` | leases on deliveries | `deliveries.state`, the claim rows of each delivery |
| `DeliveryClaimsProofs` | TLAPS: consistency, and that it implements `DeliveryLease`, for any deliveries and backoffs | |
| `ActionStore` | *abstract*: an update of the action store is one atomic step | the store |
| `ActionLock` | `mutateActionStore`, one system call per action, processes that die anywhere, pids that are reused | lock directory, token files, store, program counters |
| `ActionLockProofs` | TLAPS: invariants of `ActionLock`, and that it implements `ActionStore` | |
| `DaemonStart` | lock file and socket of the daemon, one system call per action | the two files, program counters |
| `DaemonStartProofs` | TLAPS: lock, socket and refusals for any number of daemons whose starts overlap in any way | |
| `RunLedger` | the rows of the scheduler's ledger and its transactions, as operators | `attempt`, `logical`, `dueActive` |
| `RunDispatch` | a scheduled slot becomes a run and the run is closed, by dispatchers that share four stores | the stores, one record per dispatcher |
| `RunDispatchProofs` | TLAPS: seven properties of `RunDispatch`, for any dispatchers, runs, slots and retries | |
| `SlackInbox` | the owner's Slack messages on their way to an agent | listener, inbox file, cursor, rotated files, thread map, runs of the lane |
| `SlackInboxProofs` | TLAPS: types, the one launch, the kept lines, the order of the marks, for any posts, faults and rotations | |
| `MC…` | instances for TLC | |

How they compose. `RunDispatch` extends `RunLedger` and conjoins its transactions
to its own steps. `ActionLock` instantiates `ActionStore` (`Atomic`), with `store`
mapped to itself and everything else hidden: a refused, crashed or abandoned call
is a stutter. `DeliveryClaims` instantiates `DeliveryLease` (`Lease`): a lease is a
claim row, the one in force the newest row if it is active and unexpired; a step of
the clock, a poll or a replacement may end several at once. `EndpointCustody` is the detail behind two actions of
`ObligationGraph`: its `ReconcileCustodyLoss` says when a loss passes the fences,
and `CustodyLost` of the graph, whose set of lost nodes is open, says what that
does to the graph; its `Message` stands for what a commit routes. The claim of a
resume request in `EndpointCustody` is one lease with attempts; `DeliveryClaims`
has the claim rows themselves. `SessionWake` has one endpoint whose owner
stays alive; the endpoint that loses it is `EndpointCustody`'s.

### ObligationGraph

Rows of `obligations` are the members of `Nodes`; an unused row has role
`none`. Merged columns: `status` is status and resolution (a CHECK ties them),
`watch` is state and outcome of the watch. `anc` is the walk up `parent_id`, which
no statement updates. `told` are the parent deliveries a decided delegation
caused, `report` the typed deliveries of staged terminal reports, `succ` the
lineage (all later replacements), `joined` the endpoints with a process at their
recorded generation.

| action | code |
|---|---|
| `OpenWork`, `OfferHandoff`, `AcceptHandoff`, `DeclineHandoff`, `CloseFulfilled`, `CloseCancelled`, `StageTerminal` | the effect writers of `commitMessageWithEffect`, each with its guards, cascade and parent report |
| `CompleteDelivered`, `CompleteFailed`, `ClaimAgain` | `delivery.complete` on a report (`closeStagedDeliveryConfirmedChain`, `markStagedDeliveryFailedAttention`), and claiming a failed one again by its id |
| `ExpireOffer` | one row of `runWatchReconciliation` |
| `CustodyLost` | `reconcileCustodyLoss` past its fences |
| `RecoveryRetry`, `RecoverySwitch` | `runRecoveryCommand`, `inheritStrandedRoots` included |
| `Register`, `CloseEndpoint`, `Replace`, `LaunchFailed` | `endpoint.register`, `endpoint.close`, `admitReplacement`, `surfaceLaunchFailure`, as far as the graph reads what they write |

Abstractions, all of which allow more behaviour than the code unless said:

* one application, one conversation, everyone a member (a transaction of
  another application touches other rows);
* a deadline passes at an arbitrary moment;
* which captured nodes custody evidence names, and which fences it passes, is
  open: `lost` is any non-empty set of open nodes the endpoint holds;
* the fence on unread messages (`session has unread …`) is left out;
* idempotent replays are stutters; refused requests roll back and are no step;
* `update` and the acknowledgement of a provider change no column of the graph;
* a report's destination (route or endpoint) is a `copy`: a staged delivery may
  move along a lineage, which changes its row but not its role in the fan-out.

Facts a reader of the code may find useful, and which the model shows:
`WatchTracksCustody` makes the list of untracked offers in `session.stop` empty
for every graph these transactions build; a holder may close its attempt
directly, which leaves the root open without an attempt and without a mark
(`LostRootIsMarked` states the shape around it); a delegation cannot be fulfilled
while its parent's custodian is closed or is the sender; acceptance does not look
at the deadline, only at the watch.

### EndpointCustody

One endpoint with a bound session and its earliest resume request stand for all.
`Launch` are the headless children the daemon starts, which are also their launch
tokens; `Pane` the sessions the user opens on the same endpoint, interactive or
`Headless`. `proc` is what the operating system knows, `child` and `capture` what
the daemon remembers of its children, so that a `Restart` forgets them and they
run on. `holder` is not in the code: the process that last stamped the row, which
the properties compare with what the row and the captures say.

| action | code |
|---|---|
| `Sweep`, `Exhaust`, `LaunchChild`, `LaunchThrows` | one pass of `runResumerTick`: hold the claims of live children, reap lapsed ones, then at most one launch |
| `ChildMissing`, `ChildExit` | the `error` and `exit` callbacks of a child: `failSupervisedAttempt`, `settleSupervisedFailure`, `reconcileCustodyLoss` with its three fences |
| `Register` = `Revive`, `Restamp` or `Replay` | `endpoint.register` of a dead row, of a live row by another process, and again |
| `SetState`, `Close`, `Receive`, `SetWork` | the session's own reports |
| `AdmitRetirement`, `DecideRetirement`, `ReconcileOwner` | `endpoint_retirement.mjs` and both halves of `retirement_executor.mjs`, what `ps` says of the owner being read when the row is decided |
| `Message`, `Lapse`, `Open`, `Exit`, `Restart` | a message is routed to a sleeping endpoint; a lease or backoff runs out; processes and the daemon come and go |

A message that waits for the exit of the session is modelled as arriving when
routing would make a request of it. Whether the hook of a process can name its
owner is fixed per process (`Unseen`). Left out: availability takeovers, sessions
hosted by an app-server and the queue of their turns, adapters that claim a resume
request themselves, sibling requests of one endpoint, sessionless placeholders and
their adoption, outside applications that report a death.

What the model shows and no property promises:

* A pane that re-stamps a live row clears `owner_launch_token` and advances
  neither `owner_epoch` nor the generation. A launch that captured NULL
  for the token passes every fence on its failed exit and ends the
  custody of the live pane. `LoserEndsNothing` is stated without this case
  (`holder \in Launch \/ ep.epoch # capture[l].epoch`).
* A launch on an idle row that goes dead before the child registers stamps a
  generation one above the predicted one, so its own failed exit is fenced.
* A clean exit while the row is busy and no work is open leaves the row busy.

### SessionWake

One endpoint in one process generation. `bell` is the watermark file: `captured`
while a pre-tool hook holds a copy, `newer` when it rang since. `host` is the
turn, `scratch` the notifications staged on disk, `told` the messages a turn has
been shown, `woke` the ledger of wakes; a holder is the background hook process
of a park.

| action | code |
|---|---|
| `Commit` | a delivery is routed to the session: rings, or is presented on its listener |
| `Prompt`, `PreToolCapture`, `PreToolPeek`, `PreToolMark`, `PreToolRefused`, `PostTool`, `Arm` | the host's hooks, each await a step of its own |
| `Receive` | `message.receive` by its paths in their order: the open admission of the oldest, an acknowledged presentation, the live session, or the pointer to an older message |
| `Stop` = blocked, allowed, reuses or parks | `session.stop` (`parkEligibleEndpoint`, `unreadStopBlock`) |
| `Attach`, `Stage`, `Acknowledge`, `AckRefused`, `Emit`, `Leave`, `ParkTimeout` | `holdParkedListener` and the listener operations it calls |
| `Reconcile`, `ArmRetry`, `KeepLiveOwner` | the passes of `listener_reconciler.mjs`, and of the retirement of an owner that lives |
| `AckDeadline`, `ParkDeadline`, `HolderDies`, `DaemonRestarts` | time and faults |

Listener rows are reused once nothing refers to them. Left out: a lease that
lapses between a heartbeat and the tick, the end of the host process, availability
takeover, wakes of hosted sessions, notices of closed work, untracked offers,
explicit waits, owners that cannot be verified, the resume request of an idle
headless session, the Codex continuation after background work, pre-tool hooks that
run in parallel, the variant of Stop that holds.

What the model shows beside its properties:

* An acknowledged message is received out of order by `exactPresentation`, which
  an older unread one would otherwise forbid.
* A presentation that a repark left pending stays pending on an ended listener
  when a second commit comes within the park; `Stop` then skips it. Its bell, not
  `Stop`, brings it back.
* A holder whose acknowledgement is refused wakes the host all the same, and what
  arrives after that waits for the next tool call or Stop.
* A holder that is still staging while a whole turn passes can wake the session a
  second time.

### RunDispatch

Every dispatcher is a process; they share the ledger, `active-runs.json`, the
catalog and the job's history, which no common transaction covers. One job of one
scope: a slot is its number, time is `due`, the last slot that has come.

| action | code |
|---|---|
| `DispatchDue`, `DispatchOther` | the daemon's airlock admits the scope for this job; somebody else dispatches it |
| `Reconcile`, `ReapDead`, `ReapOverdue` | the reconciler of the ledger, on the rows it scanned before; `reapWorkspace` |
| `ClaimExit`, `FinalizeLedger`, `CloseRun`, `OrphanRun` | `finalizeCommandExit` from its exclusive claim to the history, and the reaper's branch without one |
| `Evaluate`, `EndTick`, `EndIdleTick` | due slots, misfires, claims, the launch, the patches, the lease given back; a tick that found nothing to do writes the schedule it read |
| `RecordEvidence`, `SetActive`, `Ended`, `Retry`, `Conclude`, `PersistSchedule`, `Watch` | a launched run in its dispatcher after the lease is gone |
| `CancelJob`, `CloseCancelled`, `RecordCancelled`, `CancelDies` | `tasks cancel`: kill, claim and close the run, clear and record; or interrupted half way |
| `Crash`, `CommandExits`, `SlotComesDue`, `RepairIndex` | the world, and the repair of the due projection |

What it takes from timing, each from a constant of the code: a dispatcher that
lives records the evidence of its launch within the launch grace of 10 s; a live
finalizer needs less than the 60 s after which its claim is taken over; the lease
is taken over from dead holders only (renewed every 30 s, stale after 120 s); the
daemon's single flight of 30 s covers a tick and its launch, and the startup
window of a handed-off command. The policy is fixed
per behaviour, preconditions of a job are met. Left out: report sidecars, hang
sampling, the manual run of a job, dispatch inside the daemon, the remote agent
path, jitter, the catalog lease, lost updates of *other* jobs in `store.mjs`.
Exceptions the code really has, which the properties exclude by name: a waited
run whose backoff outlasts the grace is given up and comes back (`OneLiveAttempt`
is stated for hand-offs); a failed hand-off is closed without a claim
(`unstarted`); `tasks cancel` clears the active run by job, not by run, and
takes over a claim only if nobody was closing the run when it began to kill
(`fenced`, which `CancelFences` is about: an observer that held a live claim
reports what it saw);
`latest_only` with a dispatch by hand inside the launch window can run twice, and
a waited command has no entry between two tries, and its dispatcher clears the
entry of whatever run is active (`SingleInstance` is stated for hand-offs, while
nothing of `MaxEvents` has happened).

What the model shows and no property promises:

* Two waited commands of one job can be alive at once with nothing disturbed: a
  waited run whose try failed has given its entry up while its dispatcher sleeps
  before the retry; when the next slot comes due meanwhile, a tick launches a second
  run, and the retry runs beside it. Without retries it takes three runs: a slow
  dispatcher clears the entry of the run that came after its own was closed for it.
* The schedule can go back. A tick that launches nothing still patches every job
  with the schedule it read; the patch of a run's end, written in between over a
  changed job, has not renewed `meta.updated_at`, so the tick's patch passes for
  one over an unchanged job (`dispatch_service.mjs:2135` says it "cannot clobber
  our next_run_at advancement"). The slots it goes back over have a row in the
  ledger or are recorded as skipped, so they are passed over once more:
  `SlotsAccounted` states that.

### SlackInbox

Lines stand for bytes: the cursor counts lines, a rotated file is named by the
length it had when it was measured. Between two awaits a run of the lane has the
daemon to itself (`Sync`), so a second run moves only while the first awaits.

| action | code |
|---|---|
| `Say`, `OpenInbox`, `WriteLine`, `Drop`, `StartListener`, `ListenerDies` | Slack offers an event; the listener child appends it, or drops what it has seen, and acknowledges |
| `Sweep`, `Unlink`, `ReadPending`, `WriteCursor`, `Rotate`, `Rename` | `slack_inbox.mjs`, one write per step |
| `HandlePost`, `Spawn`, `Found`, `NotFound`, `Opened` | `deliverByName`: the launch row, the child, the wait for its registration, the conversation |
| `HandleReply`, `FindTarget` | `deliverThreadReply` |
| `Commit`, `Collide`, `Refused`, `Fails`, `RecordRoot`, `RecordThread`, `MarkProcessed`, `Hinted` | `deliver`, `refused`, `hintAndMark` |
| `Start`, `Abort`, `GiveUp` | a tick; a phase that times out and is given up; the run that notices |
| `Answered` | the outbound adapter has posted the agent's answer: the root carries the reply binding |
| `Registers`, `Goes`, `Deadline`, `DaemonDies` | the launched session, time, the daemon |

An append into a renamed file is taken to end before the next drain, as the
comment in `slack_inbox.mjs` argues. Left out: Slack giving up its redelivery, the
limits of 5,000 remembered and 10,000 processed ids, a channel without an agent,
torn lines, two listeners that overlap for the two seconds in which an orphan
notices, a hint that fails silently.

What the model shows and no property promises:

* A run given up beside the next one writes its cursor late: after a rotation that
  skips lines of the new file. `LinesKept` and `DoneIsRouted` are therefore
  stated for behaviours without such an `overlap`; `LaunchedOnce` for all.
* A reply that was committed but whose answer was lost is sent once more when the
  agent has answered meanwhile: it then goes through the reply binding, where the
  event id is a new key (`channel.reply.publish` replays per binding).
* A reply can be read before its post, after a lost acknowledgement or from a
  salvaged tail; its sender is then told that it cannot be routed.

### DeliveryClaims

`claims[d]` are the claim rows of a delivery, oldest first, a token is an index.
Time is relative: `left` of the lease, then `wait` of the backoff. `Tick` is one
unit for all. Whether a row has been read is open. Claims of resume requests use
the same functions on another table and are not repeated.

### ActionLock

A call is its token and its process. `Publish` is the rename of a prepared
directory over the lock (it succeeds when the lock is absent or empty);
`Observe`, `Judge`, `Recheck`, `Unlink`, `RmdirReclaimed` are the reaping,
`Read`, `Write` the update, `Release`, `Cleanup` the release. `Crash` at any
point; `Reuse` gives a dead owner's pid to somebody else, which the code detects
by the start time *if* it can observe it.

### DaemonStart

`Create` … `Verify` are `acquireDaemonLock`, with the empty file between open
and write; `Probe`, `UnlinkStale`, `Bind` are `listen`; `CloseServer`,
`UnlinkOwn`, `Release` are `stop`. A file is identified with the process that
made it. Starts overlap freely. Two history variables, which no step looks at, tell
the races apart: `met`, whom a process has met while it was in
`acquireDaemonLock`, and `displaced`, whether a start ever removed the file of a
process it met and that does not look at its file any more. Not modelled: the pid of a
dead daemon being reused by another program (the code then refuses to start, by
design).

## 3 Runs

`CHECK_DEADLOCK FALSE` everywhere: sessions may all close, calls return, bounds
are reached, and the system rightly stops.

| run | instance | shows |
|---|---|---|
| `graph_reports` | 3 rows, 3 endpoints (a replacement), 2 copies of a report, fair | `NothingOpenBelowDecided`, `WatchTracksCustody`, `ReportedOnce`, `FulfilledOnReceipt`, `ReportsReachTheLiving`, `OffersAreDecided` |
| `graph_recovery` | 6 rows: 2 roots, their attempts and a recovery of both | `OpenAttemptIsNewest`, `LostRootIsMarked`, `ReplacementAdoptsAll` |
| `graph_exact` | 2 rows, 2 reports | **violated**: `ClosesThroughExactDelivery` |
| `claims` | 2 deliveries, budget 2, fair | `ClaimsAreConsistent`, `ClaimsAreLeases`, `EveryDeliverySettles` |
| `custody` | 2 launches, 2 panes, 1 piece of work, 1 message, 1 restart, fair | `LoserEndsNothing`, `OwnLossCounts`, `LiveHolderNotGone`, `ClaimHeldForLiveChild`, `SupersededStaysDown`, `RequestDecided` |
| `wake` | 2 messages, 2 listener rows, 3 events, fair | `AckedIsShown`, `OldestIsSignalled`, `NoSilentStop`, `ToldWithoutUser`, `SessionRests` |
| `action_lock` | 3 calls, fair | `MutualExclusion`, `UpdatesAreAtomic`, `OrphanIsReaped` |
| `daemon_lock` | 3 daemons, starts, stops and crashes overlap in any way | `OneHolder`, `SocketKept`, `RefusedOnlyForRival` |
| `daemon_socket` | 2 daemons | **violated**: `SocketReachesServer` |
| `dispatch` | 2 dispatchers, 2 runs, 2 slots, 1 retry, 1 event | `OneCompletion`, `LedgerAgrees`, `OneLiveAttempt`, `SingleInstance`, `SlotsAccounted`, `VerdictStands`, `CancelFences` |
| `dispatch_hardcap` | 1 dispatcher, 1 run, 2 slots, fair | **violated**: `HardCapEnforced` |
| `slack` | a post and a reply in its thread, 2 runs of the lane, 2 faults, fair | `LinesKept`, `LaunchedOnce`, `DoneIsRouted`, `EveryLineHandled` |

### Bounds, and why they are enough

* `graph_reports`: three rows hold a root, its attempt and a delegation: the least
  graph in which a cascade that stops at children goes wrong. What depends on
  depth is proved for every graph (section 5). Two principals and an exact or
  principal offer make all the kinds of recipient; two copies of a report are what
  tells "some" from "every route". `ReplacedOrStaged` keeps the instance to
  graphs in which an endpoint is replaced or a report is in flight, not both.
* `graph_recovery`: six rows are two roots, an attempt each and a new attempt each:
  a recovery of one root that must adopt the other. There are no delegations
  (`TwoRoots`), and with a report in flight the instance keeps to the states in
  which an inheritance could reach the staged root. `MaxGen` 2 is a loss and a
  recovery; generation reuse shows at the second attempt.
* `graph_exact`: `MaxReports` 2 is an old report beside a new one.
* Ids are handed out in order (`IdsInOrder`): rows are otherwise interchangeable.
* `claims`: `MaxAttempts` 2 with two deliveries exhausts one while the other waits.
  `MaxClaims` bounds claims by id only; a scan is bounded by `MaxAttempts`.
* `custody`: two launches stand on one row only after a restart forgot the first,
  so one restart; a child and a pane, and two panes, can overtake one another;
  `MaxStarted` 3 leaves one of the four processes out of any one behaviour.
  `l2` cannot name its owner, `l1` can; `p1` is headless. Three generations are two
  revivals. The safety properties are proved for any number of them.
* `wake`: two messages are an oldest and one behind it; two listener rows a
  listener that ended with something pending on it and the next. `MaxEvents`
  counts messages, prompts and faults together, so all that goes wrong goes wrong
  around one or two messages. The Stop gate blocks twice instead of three times.
* `dispatch`: two dispatchers race for one run; the second run is the next slot or
  the recovery of a lost one. One event: the crash, spawn failure, locked store,
  cancellation or foreign dispatch after which everything else goes as planned.
* `slack`: two faults are a death between any two writes and a second one in what
  recovers from it. Runs are given up before the first fault and overlap only
  while there is the post (`GivenUpOnThePost`); three conversations suffice for a
  fresh one at every attempt. The safety properties are proved without any of
  these bounds.
* `action_lock`: a reaper, the owner it judged dead, and the one that publishes
  between judgement and removal. `daemon_lock`: one that stops, serves or died, and
  two that contend after it. The proofs cover any number of both.

### Fairness

* `ExpireOffer`: the daemon runs the watch reconciler on each tick of the
  resumer and its scan takes every overdue armed watch until decided. Nothing is
  assumed of sessions.
* `Poll` and `Tick` in `DeliveryClaims`: consumers poll `delivery.claim`, time
  passes. Nothing is assumed of a claimant: it may never complete.
* `EndpointCustody`: the daemon's timers (`Tick`, both reconcilers), a lease runs
  out, the daemon hears of every child it started and a headless child ends.
  Nobody has to register or to answer. `RequestDecided` speaks of the time after
  the last process has gone (`Quiet`), and names what is not promised.
* `SessionWake`: a turn ends (the host calls Stop), hooks that run go on, holders
  go on, the reconciler and the retirement of live owners tick. The agent need
  not use a tool nor read anything.
* `RunDispatch`: the daemon dispatches a due scope, dispatchers and `tasks cancel`
  go on; strong fairness of the reaper says that a grace does not last for ever.
  Nothing makes a command exit. `HardCapFair` adds that a run past its cap is found so.
* `SlackInbox`: ticks come, a run goes on and ends, an append ends, the deadline of
  a launch passes. That a call which keeps failing succeeds in the end is the
  bound on faults.
* `Step(t)` in `ActionLock`: `mutateActionStore` is synchronous, a live process
  carries on until it returns. `OrphanIsReaped` still allows that everybody gives
  up or that the orphan's pid is taken over.

## 4 Disagreements

* `graph_exact`: `delivery.claim` with an explicit id does not look at the
  delivery's state. A report that failed can be claimed again and completed
  while a newer report of the same root is staged; the root then closes with
  the old report's resolution, though the sender was told it "closes only through
  that exact delivery". (By the same path a delivery that exhausted its attempts
  comes back.)
* `daemon_socket`: two overlapping starts. The second reads the lock file of the
  first while it is still empty, takes it for stale, and holds its own; the first
  does not verify. Probe, unlink and bind do not exclude each other either, and the
  second unlinks a socket that is being served.
* `dispatch_hardcap`: the hard cap of a run is looked at only while the scope is
  dispatched, and the daemon dispatches a scope for a dead run or for a due job
  without a live run. A command that never exits is passed over at every tick
  until another job of the scope falls due or somebody dispatches by hand, though
  the code says that the cap "still bounds a command that never exits, so it cannot
  hold its job in flight forever".

## 5 Proofs

### ActionLockProofs

For any set of calls, from `TokenAssumption` alone (`Null` is no token):

| theorem | statement |
|---|---|
| `TypeCorrect` | `Spec => []TypeOK` |
| `Exclusive` | `Spec => []MutualExclusion` |
| `ReapsTheDead` | `Spec => []OnlyTheDeadAreReaped` |
| `Refines` | `UpdatesAreAtomic` (`Spec => Atomic!Spec`) |

`MutualExclusion` is not inductive. A reaper about to unlink could, as far as it
says, hold the name of the current owner. What excludes that is that whoever is
past `Judge` names a process that is gone and stays gone
(`OnlyTheDeadAreReaped`), and that it names a token at all (`SeenIsToken`); that a
publication succeeds only over an empty lock does the rest. The refinement needs
that the copy a writer is about to complete is still the store
(`CopyIsCurrent`), which holds because nobody else is in an update, and that a
call writes once (`WrittenOnce`). The six conjuncts, `TypeOK` among them, are the
inductive invariant `IInv`; each conjunct or group has a lemma with one step per
action. `Refines` maps `Write` to `Update` and every other action to a stutter.

### ObligationGraphProofs

For any rows, endpoints, principals, completion modes, copies, and bounds
`MaxReports`, `MaxGen` (so for every run length, depth of delegation and number of
recoveries), from `ConstantsAssumption`:

| theorem | property |
|---|---|
| `TypeCorrect` | `TypeOK` |
| `WatchesTrack` | `WatchTracksCustody` |
| `NothingLeftOpen` | `NothingOpenBelowDecided` |
| `AttemptsExclude` | a root never has two open attempts (no run checks it by itself; it is part of the next) |
| `GenerationsFence` | `OpenAttemptIsNewest` |
| `ToldOnce` | `ReportedOnce` |
| `NoRootIsLost` | `LostRootIsMarked` |
| `DecisionsStand` | `DecidedIsFinal` (an action property, checked by no run) |
| `ReportsAreHeard` | `ReportsReachTheLiving` (an action property; under `Spec`, no fairness) |
| `ReceiptsFulfil` | `FulfilledOnReceipt` (an action property) |
| `StagedRootsKept` | `RecoveryLeavesStaged` (an action property, checked by no run) |
| `PredecessorsKeepNothing` | `ReplacementAdoptsAll` (an action property) |

None of these can be shown without the shape of the graph, which the table's
CHECK constraints and the effect writers maintain together: `Sound`. `LineageEnds`
says that a replacement chain has an end; without it a parent report could go to
an endpoint that does not exist, and `told` would have no type. `Shape` says that
an unused row is blank, that a root is nobody's child and held by nobody, that
every attempt hangs under a root and under nothing else, and that exactly the
delegations are watched. With it `CloseRows` and `RecoverRows` describe row by row
the two steps that rewrite many rows at once, and every property follows from
these two:

* watches: a row a close or a recovery supersedes was open, so its watch was armed
  and is ended by the same step;
* nothing open below: an open row never has a decided root or a deliberately
  closed row above it, and the cascade of a close reaches every row below it
  because `anc` never changes;
* attempts: a recovery supersedes the open attempts of every root it gives a new
  one and numbers that one above all of them (closed ones included), which also
  needs that generations of a root are distinct, so the last two are one
  induction;
* reports: an end is told only in the step that ends an armed watch
  (`TellsOnce`), and ended watches stay (`DecisionsStay`), so nothing is told
  twice; `WatchTracksCustody` is needed here, since custody is lost by holder and
  not by watch;
* lost roots: what happens to the attempts of an open root (`RootsGoOn`) is that
  it keeps one, or that the step closes the open one, the newest by
  `OpenAttemptIsNewest`, with a result, a cancellation or a marked failure;
* adoption: the root of an open attempt is open, since nothing is open below a
  decided row, so an open attempt of a predecessor makes its root stranded unless
  a report of it is staged; a recovery gives every stranded root a new attempt and
  closes the open ones (`RecoverAdopts`).

`IInv` is the conjunction of `Sound` and these; it is what every theorem takes
from `Invariant`.

### EndpointCustodyProofs

For any sets of launches, panes and work and any bounds, from `CustodyAssumption`:

| theorem | property |
|---|---|
| `CustodyTypes` | `TypeOK` |
| `LosersAreFenced` | `LoserEndsNothing` (all of these are action properties) |
| `OwnersAreHeard` | `OwnLossCounts` |
| `LiveHolderIsNotGone` | `LiveHolderNotGone` |
| `LiveChildKeepsClaim` | `ClaimHeldForLiveChild` |
| `SupersededIsFinal` | `SupersededStaysDown` |
| `ReceiptIsFinal` | `ReceiptStands` (checked by no run) |

A row names the process that stamped it last or nobody (`OwnerStamped`); that
process has started (`HolderStarted`); once the row records its exit it is gone
(`ExitedIsGone`). With `TypeOK` these are the inductive invariant `IInv`, and they
are why neither retirement nor owner reconciliation can find a live holder gone:
what they ask `ps` about is what the row names, and the row was compared with it in
the same transaction. The fences need a second invariant `FInv` on top: the row
carries the token of its holder, generation and epoch of a row move together, and
every capture holds a generation, an epoch and a token that some earlier row had.
`Keeps` and `SameRegime` say which steps leave the regime of a row alone; from
them a losing launch differs from the row in one of generation, epoch and token,
and the launch that counts in none.

### SessionWakeProofs

For any messages, listeners and block cap and any number of events, from
`WakeAssumption`:

| theorem | property |
|---|---|
| `WakeTypes` | `TypeOK` |
| `AckedIsInFront` | `AckedIsShown` |
| `NoRingIsLost` | `OldestIsSignalled` |
| `NoTurnEndsSilently` | `NoSilentStop` (an action property) |

Hooks, holders and the daemon's transactions interleave over one row of the
endpoint, so each property needs to know what everybody on the way to its
violation already knows:

* `Carries` and `Unborn`: a holder past its wait has a message, and a message not
  yet committed is known to nobody;
* `ShownInv`: what anybody vouches for, be it an acknowledgement, the wake ledger
  or a holder about to acknowledge, is staged or told. `AckedIsShown` is its first
  part; the others are why no later step can break it;
* `RingInv`: a PreToolUse hook is in progress exactly as long as it has captured
  the bell or the bell is newer; otherwise the bell rings, or the oldest unread
  message is shown and its admission is still open, so that its receipt rings for
  the next one;
* `QuietInv`, as long as nothing has died: at most one listener is active, its
  holder runs and is connected, and the endpoint is idle and wakes exactly if a
  presentation of the listener is pending, else all unread mail is acknowledged; an
  interactive session is armed, and a headless one has nothing parked while it
  works.

They are inductive together (`IInv`). The daemon's transactions have a lemma each
that says what becomes of every row; the turn's steps go through `TurnInv` and
`BellInv`, those of holders and daemon through `WakingFull` and `WakingStill`.
`Oldest`, that a set of message numbers has a least member, comes from the
well-foundedness of the naturals.

### DeliveryClaimsProofs

For any deliveries, leases, budgets and backoffs: `Consistent` proves
`ClaimsAreConsistent`, `LeasesHold` that `Spec` implements `DeliveryLease`
(`ClaimsAreLeases`). The first is inductive as it stands; what needs an argument is
the reaper, the release of the active row and the bound of the backoff, each a lemma
about the sequence of claim rows. The refinement has a lemma per operation that says
which way of the abstract specification every delivery goes (`Way`): most steps add
no row, complete none and bring no lease into force (`NoMore`), which is a loss or a
rest; an acquired row is a grant, because the scan offers only what nobody holds
(`ChoiceIsFree`); and a completion is the holder's, because the row whose token
verifies is active and therefore, by `IInv`, the newest.

### DaemonStartProofs

For any number of daemons, starts and stops that overlap in any way, crashes and
leftovers, from `DaemonAssumption` alone:

| theorem | property |
|---|---|
| `LockExclusive` | `OneHolder` |
| `ServersAreReached` | `SocketKept` |
| `RefusalsJustified` | `RefusedOnlyForRival` (an action property) |
| `SettledAreSafe` | `SettledKeepLock` (an action property, checked by no run) |

The lock is not exclusive without exception, as `daemon_socket` shows. What the
theorems say is that there is one exception, which `displaced` records: a start
removes as stale the file of a process that was in `acquireDaemonLock` at the same
time and does not read its file any more, either because it is about to write into
a file it was the first to create, which nobody verifies, or because it is through.
Everything else that contending starts do to each other is harmless: to find the
lock empty, to be overtaken between removal and creation, to lose one's file before
`verifyOwnLock` looks.

`IInv` says that whoever is in `acquireDaemonLock` has met all others that are in it
or past it (`EverybodyMet`); that a live daemon named by the lock file starts or
serves, and that its pid is in the file unless it is about to be (`LockIsInUse`), so
that a file judged stale is a dead one's or that of a start in progress; that a
start about to remove a live process's file has been met by that one
(`RemoversWereMet`), which is `SettledAreSafe` and makes every harmful removal a
displacement; that who creates the lock a second time finds only the file of a
rival, and lost its own only to one (`RivalsWereMet`), which makes refusals
justified; and that until a displacement who does not look any more has the lock
(`LockIsKept`).

### SlackInboxProofs

For any posts, replies, runs, conversations and number of faults, from
`SlackAssumption`:

| theorem | property |
|---|---|
| `SlackTypes` | `TypeOK` |
| `LaunchesOnce` | `LaunchedOnce` |
| `LinesAreKept` | `LinesKept` |
| `DoneMeansRouted` | `DoneIsRouted` |

`LaunchInv` holds even when runs overtake each other: whoever is about to spawn
took the launch row, and nobody else is about to. The rest speaks of a lane that
was never overtaken (`~overlap`), and only then: one run exists (`Alone`).
`RouteInv` says what has been written for the event that run is dealing with.
`FilesInv` says that all behind the cursor is processed, that a rotated file was
processed up to the size in its name, that an append under way goes to a file that
exists, and that whatever was acknowledged or is remembered by the listener is
still to be found (`Kept`). `DrainInv` says what the run knows of the files: its
lines are those behind the cursor, the size it is about to give a rotated file is
one up to which all is processed, and a rotated file about to be removed has
nothing left that the inbox does not have. The last is where the salvage must come
before the unlink, and the size before the rename.

### RunDispatchProofs

For any dispatchers, runs, slots and retries and any `MaxEvents`, from
`LedgerConstants` and `DispatchConstants`:

| theorem | property |
|---|---|
| `ReportedOnce` | `OneCompletion` |
| `HistoryFollowsLedger` | `LedgerAgrees` |
| `OneAttemptPerSlot` | `OneLiveAttempt` |
| `CancelledStaysCancelled` | `CancelFences` |
| `VerdictsStand` | `VerdictStands` (an action property) |
| `NoSlotLost` | `SlotsAccounted` (an action property) |
| `OneCommandRuns` | `SingleInstance` |

None is inductive by itself, because the four stores are written one after the
other and the dispatcher may die between any two. What ties them together:

* `Fresh`: a run no dispatcher has taken up is nowhere, in no store;
* `OwnInv`: a run in launch has one dispatcher, is not active, not cancelled and
  not reported; so two dispatchers never take up the same run;
* `CloseInv`: who finalizes a run has its claim, nothing was reported of it, and
  what is active was never reported; the claim is why the second observer's
  finalization does nothing;
* `CancelInv`: a claim that cancel finds stale is of a run nobody finalizes, and a
  fenced run stays out of every dispatcher's finalization;
* `AgreeInv`: `LedgerAgrees`, and that a dispatcher about to write a success into
  the history has it in the ledger: the ledger is written first, and one that is
  locked stops the closing.

With `Types`, `Placed`, `OneCompletion` and `OneLiveAttempt` these are the
inductive invariant `IInv`. The steps fall into three classes, each with one lemma:
those of a dispatcher that takes no run up (`StepInv`), those that report, claim or
activate (`WideInv`), those of cancel and of the world (`AsideInv`);
`LaunchSlotInv` is the one step that takes a run up. `VerdictsStand` takes from
`IInv` that a launch writes unused rows and its own, which has not succeeded.

`NoSlotLost` is about writes from a job object that was read any time before.
`SchedInv`, inductive beside `IInv`, says what each object in memory will write
(`Pending`) before it does: all that is below it is claimed or behind a recorded
skip (`AccountInv`); who launched a run writes nothing below the catalog that is
unknown (`BackInv`), and an object still fresh can neither take the catalog, nor
what any other object is about to write, back over an unknown slot. That needs the
lease: two ticks never plan at once (`LeaseInv`), and a tick that jumps over slots
makes every other object stale when it writes (`JumpInv`, `Wrote`). Steps that plan
or write nothing are `Calm`.

`OneCommandRuns` says of a job nobody has disturbed (`Solo`) that one dispatcher at
most is `Busy`: holds the lease, or has a command in its startup window, which the
daemon's single flight covers. `Solitary` is what each relies on: a launch and the
orphan branch find the entry empty, a finalizer's run is the active one and its
command is dead, and a dispatcher that waits is alone with its run. A live command
is therefore the active one or its launcher's, and not both kinds at once. Writing
the proof showed that the property as first stated, for waited commands too, fails
between two tries of one; and that the model lacked the patch
of the idle tick, without which the schedule never goes back.

### Only model-checked

All liveness, since fairness and `ENABLED` are out of the prover's reach. Every
invariant and every action property that a run checks and finds to hold has a
theorem.

## 6 Plan

Done: the work graph, claims, the action lock, the daemon's start, custody of
endpoints, the wake of sessions, the scheduler's dispatch, the Slack inbox; the
proofs of every invariant and action property the runs find to hold.

Left, in this order: the lease and mutex files of the scheduler, which
`RunDispatch` takes as exclusive; drafts of email intents; explicit waits and takeovers in `SessionWake`.

## 7 Not modelled

* Parsing, rendering, wizards, credentials, installers, launchers, packaging and
  skills: no state worth an interleaving.
* Schema migrations, export and import: straight-line conversions in one
  transaction. Views: queries.
* Applications, authorities, principals, conversations: single-row inserts and
  permission checks; every model has one application whose members all take part.
* The mail poll: its cursor and its recovery list follow the pages of the mail
  provider, which the repository does not define. Email drafts: files renamed by one
  command at a time, whose recovery asks the provider or a child process.
* Wall-clock arithmetic of schedules: it computes on the time-zone database of the
  runtime. `RunDispatch` has the slots that come out of it.
* The lease and mutex files of the scheduler: see the hazards in `PROJECT.json`.
* Providers and hosts are external; what they may do (die, never answer, answer
  late) is in the actions of each module's environment.

`PROJECT.json` lists every component with its status.
