------------------------------ MODULE SlackInbox ------------------------------
(***************************************************************************)
(* The owner's Slack messages on their way to an agent.  A listener child  *)
(* appends each message it receives to inbox.jsonl and acknowledges it; on *)
(* every tick the daemon drains that file behind a cursor: it launches a   *)
(* session for a new post, commits the message to it, writes the thread    *)
(* map, marks the event processed and moves the cursor, then rotates the   *)
(* file once it is read.  Every one of these writes is a step of its own,  *)
(* and the daemon or the listener may die before each.  The daemon gives   *)
(* up waiting for a drain that outlives its phase and starts the next one  *)
(* although the first still runs.                                          *)
(***************************************************************************)
EXTENDS Naturals, Sequences

CONSTANTS Null,
    Posts,      \* top-level posts in the channel of a named agent
    Replies,    \* messages in the thread of such a post
    RootOf,     \* [Replies -> Posts]
    Drains,     \* runs of the inbound lane: one, and the one given up before
    Convs,      \* conversations
    MaxFaults   \* deaths of the daemon or the listener, calls that fail

Events == Posts \cup Replies
Bound == "bound"   \* the way through a thread's reply binding
Ways == Convs \cup {Bound}

ASSUME SlackAssumption ==
    /\ Posts \cap Replies = {} /\ RootOf \in [Replies -> Posts]
    /\ Bound \notin Convs /\ Null \notin Ways
    /\ MaxFaults \in Nat

VARIABLES
    slack,      \* what Slack knows of an event: unsent, offered, acked
    up, seen,   \* the listener: running, the event ids it remembers
    write,      \* its append under way: the event, the file it has opened
    inbox,      \* inbox.jsonl
    cursor,     \* inbox.cursor, in lines
    rotated,    \* inbox.jsonl.<n>.old, by n
    processed,  \* table processed_event
    launched,   \* table thread_launch
    root,       \* table thread_root: conversation and reply binding
    threads,    \* table inbound_thread, by the event its message came from
    session,    \* the session launched for a post
    spawned,    \* how many there have been
    children,   \* launch children whose exit this daemon would see
    exits,      \* launchExits
    expired,    \* posts whose launch deadline is over
    sent,       \* ways in which the messaging daemon has taken an event
    told,       \* events whose sender was told that they went nowhere
    drain,      \* the runs of the lane
    overlap,    \* has one been started beside another?
    faults

listener == <<up, seen, write>>
files == <<inbox, cursor, rotated>>
map == <<processed, launched, root, threads>>
agents == <<session, spawned, children, exits, expired>>
history == <<overlap, faults>>
vars == <<slack, listener, files, map, agents, sent, told, drain, history>>

NoRoot == [conv |-> Null, bound |-> FALSE]
Idle == [pc |-> "idle", lines |-> <<>>, at |-> 0, way |-> Null, reused |-> FALSE, aborted |-> FALSE]

\* Between two awaits a run of the lane has the daemon to itself.
Sync == {"sweep", "unlink", "next", "thread", "mark", "cursor", "rotate", "rename"}
Await == {"spawn", "wait", "open", "find", "send", "sent", "hint"}

TypeOK ==
    /\ slack \in [Events -> {"unsent", "offered", "acked"}]
    /\ up \in BOOLEAN /\ seen \subseteq Events
    /\ write \in [event : Events, file : Nat] \cup {Null}
    /\ inbox \in Seq(Events) /\ cursor \in Nat
    /\ DOMAIN rotated \subseteq Nat /\ \A n \in DOMAIN rotated : rotated[n] \in Seq(Events)
    /\ processed \subseteq Events /\ launched \subseteq Posts /\ threads \subseteq Events
    /\ root \in [Posts -> [conv : Convs \cup {Null}, bound : BOOLEAN]]
    /\ session \in [Posts -> {"none", "starting", "ready", "gone"}]
    /\ spawned \in [Posts -> Nat]
    /\ children \subseteq Posts /\ exits \subseteq Posts /\ expired \subseteq Posts
    /\ sent \in [Events -> SUBSET Ways] /\ told \subseteq Events
    /\ drain \in [Drains -> [pc : {"idle"} \cup Sync \cup Await,
                             lines : Seq([event : Events, end : Nat]), at : Nat,
                             way : Ways \cup {Null}, reused : BOOLEAN, aborted : BOOLEAN]]
    /\ overlap \in BOOLEAN /\ faults \in 0..MaxFaults

Init ==
    /\ slack = [e \in Events |-> "unsent"]
    /\ up = FALSE /\ seen = {} /\ write = Null
    /\ inbox = <<>> /\ cursor = 0 /\ rotated = <<>>
    /\ processed = {} /\ launched = {} /\ threads = {}
    /\ root = [p \in Posts |-> NoRoot]
    /\ session = [p \in Posts |-> "none"] /\ spawned = [p \in Posts |-> 0]
    /\ children = {} /\ exits = {} /\ expired = {}
    /\ sent = [e \in Events |-> {}] /\ told = {}
    /\ drain = [d \in Drains |-> Idle]
    /\ overlap = FALSE /\ faults = 0

\* A death or a failed call; their number is the bound of the model.
Fault == faults < MaxFaults /\ faults' = faults + 1

-----------------------------------------------------------------------------
(* Slack and the listener                                                  *)

\* The owner writes a reply only under a post.
Say(e) ==
    /\ slack[e] = "unsent"
    /\ e \in Replies => slack[RootOf[e]] # "unsent"
    /\ slack' = [slack EXCEPT ![e] = "offered"]
    /\ UNCHANGED <<listener, files, map, agents, sent, told, drain, history>>

\* The supervisor keeps one listener; it remembers what the live file holds.
StartListener ==
    /\ ~up
    /\ up' = TRUE
    /\ seen' = {inbox[i] : i \in 1..Len(inbox)}
    /\ UNCHANGED <<slack, write, files, map, agents, sent, told, drain, history>>

\* A message it has seen is dropped and acknowledged again.
Drop(e) ==
    /\ up /\ write = Null /\ slack[e] = "offered" /\ e \in seen
    /\ slack' = [slack EXCEPT ![e] = "acked"]
    /\ UNCHANGED <<listener, files, map, agents, sent, told, drain, history>>

\* The append opens the file by its name and then writes to what it opened,
\* which a rotation may have renamed in between (file 0 is the live one).
OpenInbox(e) ==
    /\ up /\ write = Null /\ slack[e] = "offered" /\ e \notin seen
    /\ write' = [event |-> e, file |-> 0]
    /\ UNCHANGED <<slack, up, seen, files, map, agents, sent, told, drain, history>>

WriteLine ==
    /\ write # Null
    /\ IF write.file = 0
       THEN inbox' = Append(inbox, write.event) /\ UNCHANGED rotated
       ELSE rotated' = [rotated EXCEPT ![write.file] = Append(@, write.event)] /\ UNCHANGED inbox
    /\ seen' = seen \cup {write.event}
    /\ \/ slack' = [slack EXCEPT ![write.event] = "acked"] /\ UNCHANGED faults
       \/ Fault /\ UNCHANGED slack \* the acknowledgement does not reach Slack
    /\ write' = Null
    /\ UNCHANGED <<up, cursor, map, agents, sent, told, drain, overlap>>

ListenerDies ==
    /\ up /\ Fault
    /\ up' = FALSE /\ seen' = {} /\ write' = Null
    /\ UNCHANGED <<slack, files, map, agents, sent, told, drain, overlap>>

-----------------------------------------------------------------------------
(* Launched sessions                                                       *)

Settles(p, state) ==
    /\ session' = [session EXCEPT ![p] = state]
    /\ UNCHANGED <<slack, listener, files, map, spawned, expired, sent, told, drain, history>>

Registers(p) ==
    session[p] = "starting" /\ Settles(p, "ready") /\ UNCHANGED <<children, exits>>

\* Its child fails before it registers, or somebody closes it later; only the
\* daemon that spawned the child is told, and keeps failures only.
Goes(p) ==
    /\ session[p] \in {"starting", "ready"}
    /\ Settles(p, "gone")
    /\ children' = children \ {p}
    /\ \/ p \in children /\ exits' = exits \cup {p}
       \/ UNCHANGED exits

\* LAUNCH_DEADLINE_MS, looked at until the post is dealt with
Deadline(p) ==
    /\ p \in launched \ (expired \cup processed)
    /\ expired' = expired \cup {p}
    /\ UNCHANGED <<slack, listener, files, map, session, spawned, children, exits, sent, told, drain, history>>

-----------------------------------------------------------------------------
(* One tick of the lane                                                    *)

Event(d) == Head(drain[d].lines).event
MayRun(d) == \A o \in Drains \ {d} : drain[o].pc \notin Sync
At(d, pc) == drain[d].pc = pc /\ MayRun(d)
Go(d, pc) == drain' = [drain EXCEPT ![d].pc = pc]
Send(d, way, reused) == drain' = [drain EXCEPT ![d].pc = "send", ![d].way = way, ![d].reused = reused]
\* "retry": the drain ends without rotating, the line stays for the next tick.
Retry(d) == drain' = [drain EXCEPT ![d] = Idle]

\* A phase that times out aborts its run and stops waiting for it after a grace.
Abort(d) ==
    /\ drain[d].pc \in Await /\ ~drain[d].aborted
    /\ drain' = [drain EXCEPT ![d].aborted = TRUE]
    /\ UNCHANGED <<slack, listener, files, map, agents, sent, told, history>>

Free == \A d \in Drains : drain[d].pc = "idle" \/ (drain[d].pc \in Await /\ drain[d].aborted)

\* The outbound adapter, first in the tick, posts the agent's answer in the
\* thread of the post: the root now carries the reply binding.
Answered(p) ==
    /\ Free /\ session[p] = "ready"
    /\ p \in threads /\ sent[p] # {}
    /\ \E c \in sent[p] : root' = [root EXCEPT ![p] = [conv |-> c, bound |-> TRUE]]
    /\ UNCHANGED <<slack, listener, files, processed, launched, threads, agents, sent, told, drain, history>>

Start(d) ==
    /\ Free /\ drain[d] = Idle
    /\ Go(d, "sweep")
    /\ overlap' = (overlap \/ \E o \in Drains : drain[o].pc # "idle")
    /\ UNCHANGED <<slack, listener, files, map, agents, sent, told, faults>>

\* What the listener wrote to a rotated file after its size was taken.
Salvaged(n) == SubSeq(rotated[n], n + 1, Len(rotated[n]))

\* By the next drain an append into the renamed file has long finished.
Sweep(d) ==
    /\ At(d, "sweep")
    /\ \E n \in DOMAIN rotated :
          /\ write # Null => write.file # n
          /\ inbox' = inbox \o Salvaged(n)
          /\ drain' = [drain EXCEPT ![d].pc = "unlink", ![d].at = n]
    /\ UNCHANGED <<slack, listener, cursor, rotated, map, agents, sent, told, history>>

Unlink(d) ==
    /\ At(d, "unlink")
    /\ rotated' = [n \in DOMAIN rotated \ {drain[d].at} |-> rotated[n]]
    /\ Go(d, "sweep")
    /\ UNCHANGED <<slack, listener, inbox, cursor, map, agents, sent, told, history>>

Position == IF cursor > Len(inbox) THEN 0 ELSE cursor
Pending == [i \in 1..(Len(inbox) - Position) |-> [event |-> inbox[Position + i], end |-> Position + i]]

ReadPending(d) ==
    /\ At(d, "sweep") /\ DOMAIN rotated = {}
    /\ drain' = [drain EXCEPT ![d].pc = "next", ![d].lines = Pending]
    /\ UNCHANGED <<slack, listener, files, map, agents, sent, told, history>>

\* A run given up stops at the next line.
GiveUp(d) ==
    /\ At(d, "next") /\ drain[d].lines # <<>> /\ drain[d].aborted
    /\ Retry(d)
    /\ UNCHANGED <<slack, listener, files, map, agents, sent, told, history>>

Handles(d, e) ==
    /\ At(d, "next") /\ drain[d].lines # <<>> /\ ~drain[d].aborted
    /\ e = Event(d) /\ e \notin processed

\* A slip: the launch row is not written before the session is spawned.
HandlePostUnclaimed(d, p) ==
    /\ Handles(d, p)
    /\ Go(d, IF p \in launched THEN "wait" ELSE "spawn")
    /\ UNCHANGED <<slack, listener, files, map, agents, sent, told, history>>

\* A post takes the launch row before the session is spawned, once for ever.
HandlePost(d, p) ==
    /\ Handles(d, p)
    /\ Go(d, IF p \in launched THEN "wait" ELSE "spawn")
    /\ launched' = launched \cup {p}
    /\ UNCHANGED <<slack, listener, files, processed, root, threads, agents, sent, told, history>>

HandleReply(d, r) ==
    LET p == RootOf[r] IN
    /\ Handles(d, r)
    /\ \/ root[p].bound /\ Send(d, Bound, FALSE)
       \/ /\ ~root[p].bound /\ root[p].conv # Null
          /\ drain' = [drain EXCEPT ![d].pc = "find", ![d].way = root[p].conv]
       \/ ~root[p].bound /\ root[p].conv = Null /\ Go(d, "hint")
    /\ UNCHANGED <<slack, listener, files, map, agents, sent, told, history>>

\* It may turn out that there is nothing to launch, or that it does not start.
Spawn(d, p) ==
    /\ At(d, "spawn") /\ p = Event(d)
    /\ \/ /\ session' = [session EXCEPT ![p] = "starting"]
          /\ spawned' = [spawned EXCEPT ![p] = @ + 1]
          /\ children' = children \cup {p}
          /\ Go(d, "wait")
       \/ Go(d, "hint") /\ UNCHANGED <<session, spawned, children>>
    /\ UNCHANGED <<slack, listener, files, map, exits, expired, sent, told, history>>

Found(d, p) ==
    /\ At(d, "wait") /\ p = Event(d) /\ session[p] = "ready"
    /\ IF root[p].conv # Null THEN Send(d, root[p].conv, TRUE) ELSE Go(d, "open")
    /\ UNCHANGED <<slack, listener, files, map, agents, sent, told, history>>

\* A slip: a launch has no deadline.
OverdueNever(p) == FALSE

\* waitVerdict
Overdue(p) == p \in expired

\* A wait that finds no session: it fails at once if the child exited, at the
\* deadline in any case; until then a failed lookup, or a session without a
\* principal, is retried and a plain wait ends the drain as if it were done.
NotFound(d, p) ==
    /\ At(d, "wait") /\ p = Event(d)
    /\ \/ session[p] # "ready" /\ UNCHANGED faults
          /\ Go(d, IF Overdue(p) \/ p \in exits THEN "hint" ELSE "rotate")
       \/ Fault /\ IF Overdue(p) THEN Go(d, "hint") ELSE Retry(d)
    /\ UNCHANGED <<slack, listener, files, map, agents, sent, told, overlap>>

\* A conversation of its own, recorded before anything is committed to it.
Fresh == {c \in Convs : /\ \A p \in Posts : root[p].conv # c
                        /\ \A e \in Events : c \notin sent[e]
                        /\ \A d \in Drains : drain[d].way # c}

Opened(d, p) ==
    /\ At(d, "open") /\ p = Event(d)
    /\ Fresh # {}
    /\ LET c == CHOOSE c \in Fresh : TRUE IN
          /\ root' = [root EXCEPT ![p] = [conv |-> c, bound |-> FALSE]]
          /\ Send(d, c, FALSE)
    /\ UNCHANGED <<slack, listener, files, processed, launched, threads, agents, sent, told, history>>

\* A reply in the thread of a launched post goes to that session or nowhere.
FindTarget(d, r) ==
    /\ At(d, "find") /\ r = Event(d)
    /\ Go(d, IF session[RootOf[r]] = "ready" THEN "send" ELSE "hint")
    /\ UNCHANGED <<slack, listener, files, map, agents, sent, told, history>>

\* The messaging daemon takes an event once per idempotency key: once for all
\* conversations, and once for a reply binding.
Taken(e) == sent[e] \cap Convs
Collides(e, way) == way # Bound /\ Taken(e) \ {way} # {}

Commit(d) ==
    LET e == Event(d) IN
    /\ At(d, "send") /\ ~Collides(e, drain[d].way)
    /\ sent' = [sent EXCEPT ![e] = @ \cup {drain[d].way}]
    /\ Go(d, "sent")
    /\ UNCHANGED <<slack, listener, files, map, agents, told, history>>

Collide(d) ==
    /\ At(d, "send") /\ Collides(Event(d), drain[d].way)
    /\ Go(d, "hint")
    /\ UNCHANGED <<slack, listener, files, map, agents, sent, told, history>>

\* A refusal that retrying cannot fix ends in a hint; a target that is gone is
\* retried, in a new conversation if this one was there before.
Refused(d) ==
    LET e == Event(d) IN
    /\ At(d, "send") /\ drain[d].way \notin sent[e]
    /\ Fault
    /\ \/ Go(d, "hint") /\ UNCHANGED root
       \/ /\ e \in Posts /\ Retry(d)
          /\ root' = IF drain[d].reused THEN [root EXCEPT ![e] = NoRoot] ELSE root
    /\ UNCHANGED <<slack, listener, files, processed, launched, threads, agents, sent, told, overlap>>

\* A lookup, an opening, a call or its answer that fails is retried.
Fails(d) ==
    /\ drain[d].pc \in {"find", "open", "send", "sent"} /\ MayRun(d)
    /\ Fault /\ Retry(d)
    /\ UNCHANGED <<slack, listener, files, map, agents, sent, told, overlap>>

\* A slip: the event is marked before its thread is recorded.
RecordRootAndMark(d) ==
    LET e == Event(d) IN
    /\ At(d, "sent")
    /\ root' = IF e \in Posts
               THEN [root EXCEPT ![e] = [conv |-> drain[d].way, bound |-> FALSE]]
               ELSE root
    /\ processed' = processed \cup {e}
    /\ Go(d, "thread")
    /\ UNCHANGED <<slack, listener, files, launched, threads, agents, sent, told, history>>

\* The answer arrives: root, thread, processed, cursor, one write each.
RecordRoot(d) ==
    LET e == Event(d) IN
    /\ At(d, "sent")
    /\ root' = IF e \in Posts
               THEN [root EXCEPT ![e] = [conv |-> drain[d].way, bound |-> FALSE]]
               ELSE root
    /\ Go(d, "thread")
    /\ UNCHANGED <<slack, listener, files, processed, launched, threads, agents, sent, told, history>>

RecordThread(d) ==
    /\ At(d, "thread")
    /\ threads' = threads \cup {Event(d)}
    /\ Go(d, "mark")
    /\ UNCHANGED <<slack, listener, files, processed, launched, root, agents, sent, told, history>>

\* The owner is told; a post to Slack that fails is not tried again.
Hinted(d) ==
    /\ At(d, "hint")
    /\ told' = told \cup {Event(d)}
    /\ Go(d, "mark")
    /\ UNCHANGED <<slack, listener, files, map, agents, sent, history>>

MarkProcessed(d) ==
    /\ At(d, "mark")
    /\ processed' = processed \cup {Event(d)}
    /\ Go(d, "cursor")
    /\ UNCHANGED <<slack, listener, files, launched, root, threads, agents, sent, told, history>>

\* Behind a line dealt with just now, or found to be processed already.
WriteCursor(d) ==
    /\ \/ At(d, "cursor")
       \/ /\ At(d, "next") /\ drain[d].lines # <<>> /\ ~drain[d].aborted
          /\ Event(d) \in processed
    /\ cursor' = Head(drain[d].lines).end
    /\ drain' = [drain EXCEPT ![d] = [Idle EXCEPT !.pc = "next", !.lines = Tail(drain[d].lines),
                                                  !.aborted = drain[d].aborted]]
    /\ UNCHANGED <<slack, listener, inbox, rotated, map, agents, sent, told, history>>

\* After the last line, or a line that has to wait: a file read to its end is
\* set aside: its size, the cursor, then the name.
Rotate(d) ==
    /\ At(d, "rotate") \/ (At(d, "next") /\ drain[d].lines = <<>>)
    /\ IF inbox # <<>> /\ Position = Len(inbox)
       THEN /\ cursor' = 0
            /\ drain' = [drain EXCEPT ![d].pc = "rename", ![d].at = Len(inbox)]
       ELSE Retry(d) /\ UNCHANGED cursor
    /\ UNCHANGED <<slack, listener, inbox, rotated, map, agents, sent, told, history>>

\* The inbox file under its new name.
SetAside(n) == [m \in DOMAIN rotated \cup {n} |-> IF m = n THEN inbox ELSE rotated[m]]

\* A slip: the file is set aside under the size it has when it is renamed.
RenameBySize(d) ==
    /\ At(d, "rename")
    /\ rotated' = SetAside(Len(inbox))
    /\ inbox' = <<>>
    /\ write' = IF write # Null /\ write.file = 0 THEN [write EXCEPT !.file = Len(inbox)] ELSE write
    /\ Retry(d)
    /\ UNCHANGED <<slack, up, seen, cursor, map, agents, sent, told, history>>

Rename(d) ==
    /\ At(d, "rename")
    /\ rotated' = SetAside(drain[d].at)
    /\ inbox' = <<>>
    /\ write' = IF write # Null /\ write.file = 0 THEN [write EXCEPT !.file = drain[d].at] ELSE write
    /\ Retry(d)
    /\ UNCHANGED <<slack, up, seen, cursor, map, agents, sent, told, history>>

\* The daemon dies and is started again; its listener notices and exits.
DaemonDies ==
    /\ Fault
    /\ drain' = [d \in Drains |-> Idle]
    /\ children' = {} /\ exits' = {}
    /\ up' = FALSE /\ seen' = {} /\ write' = Null
    /\ UNCHANGED <<slack, files, map, session, spawned, expired, sent, told, overlap>>

LaneStep(d) ==
    \/ Sweep(d) \/ Unlink(d) \/ ReadPending(d) \/ GiveUp(d)
    \/ \E p \in Posts : HandlePost(d, p) \/ Spawn(d, p) \/ Found(d, p) \/ NotFound(d, p) \/ Opened(d, p)
    \/ \E r \in Replies : HandleReply(d, r) \/ FindTarget(d, r)
    \/ Commit(d) \/ Collide(d) \/ Refused(d) \/ Fails(d)
    \/ RecordRoot(d) \/ RecordThread(d) \/ Hinted(d) \/ MarkProcessed(d) \/ WriteCursor(d)
    \/ Rotate(d) \/ Rename(d)

Next ==
    \/ \E e \in Events : Say(e) \/ Drop(e) \/ OpenInbox(e)
    \/ StartListener \/ WriteLine \/ ListenerDies \/ DaemonDies
    \/ \E p \in Posts : Registers(p) \/ Goes(p) \/ Deadline(p) \/ Answered(p)
    \/ \E d \in Drains : Start(d) \/ Abort(d) \/ LaneStep(d)

Spec == Init /\ [][Next]_vars

\* A tick comes, a run goes on and ends, an append ends and a launch deadline
\* passes.  That calls succeed in the end is the bound MaxFaults.
Fairness ==
    /\ WF_vars(\E d \in Drains : Start(d)) /\ WF_vars(\E d \in Drains : LaneStep(d))
    /\ WF_vars(WriteLine) /\ \A p \in Posts : WF_vars(Deadline(p))

FairSpec == Spec /\ Fairness

-----------------------------------------------------------------------------
(* Properties *)

Ahead(file, from, e) == \E i \in (from + 1)..Len(file) : file[i] = e

\* A message acknowledged to Slack, which will not send it again, is never
\* lost: it is processed, or still ahead of the cursor, or in the part of a
\* rotated file that the next drain brings back, whatever dies between two of
\* the writes and whatever the listener appends meanwhile
\* (slack_inbox.mjs: sweepRotated, readPending, rotateIfDrained).
LinesKept ==
    ~overlap => \A e \in Events : slack[e] = "acked" =>
        \/ e \in processed
        \/ Ahead(inbox, Position, e)
        \/ \E n \in DOMAIN rotated : Ahead(rotated[n], n, e)

\* However often a post is read again, after a death, a failed call or beside
\* a run given up, it never starts a second session
\* (slack_inbound_by_name.mjs: claimLaunch before the spawn).
LaunchedOnce == \A p \in Posts : spawned[p] <= 1

\* An event is done with only when the agent's answer finds its thread, and
\* the thread its conversation, or when the owner was told that it went
\* nowhere (slack_inbound.mjs: the order of the writes in deliver).
DoneIsRouted ==
    ~overlap => \A e \in processed :
        \/ e \in told
        \/ (e \in threads /\ (e \in Posts => root[e].conv \in sent[e]))

\* Every message kept is dealt with in the end: no post, and no session that
\* never starts, holds up the lines behind it for ever
\* (slack_inbound_by_name.mjs: waitVerdict, LAUNCH_DEADLINE_MS).
EveryLineHandled == \A e \in Events : slack[e] = "acked" ~> (e \in processed \/ overlap)

=============================================================================
