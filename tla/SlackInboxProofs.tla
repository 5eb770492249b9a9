--------------------------- MODULE SlackInboxProofs ---------------------------
(***************************************************************************)
(* For any posts, replies, runs of the lane and faults: a post launches one *)
(* session, a message acknowledged to Slack is kept, and an event is done   *)
(* with only when its answer finds its way.                                 *)
(***************************************************************************)
EXTENDS SlackInbox, SequenceTheorems, TLAPS

\* A run is dealing with the first of its lines.
Handling == Await \cup {"thread", "mark", "cursor"}

HasLine == \A d \in Drains : drain[d].pc \in Handling => drain[d].lines # <<>>

\* A post is sent to a conversation, never through a reply binding.
WayFits ==
  /\ \A d \in Drains :
        /\ drain[d].pc \in {"find", "send", "sent"} => drain[d].way # Null
        /\ drain[d].pc \in {"send", "sent"} /\ Event(d) \in Posts => drain[d].way \in Convs
  /\ \A p \in Posts : sent[p] \subseteq Convs

Types == TypeOK /\ HasLine /\ WayFits

-----------------------------------------------------------------------------
(* A post launches once: whoever is about to spawn took the launch row.     *)

LaunchInv ==
  /\ \A p \in Posts : spawned[p] \in {0, 1} /\ (p \notin launched => spawned[p] = 0)
  /\ \A d \in Drains : drain[d].pc = "spawn" =>
        Event(d) \in launched /\ spawned[Event(d)] = 0
  /\ \A c, d \in Drains : drain[c].pc = "spawn" /\ drain[d].pc = "spawn" /\ Event(c) = Event(d)
        => c = d

-----------------------------------------------------------------------------
(* As long as no run was started beside another, there is one.              *)

Alone == \A c, d \in Drains : drain[c].pc # "idle" /\ drain[d].pc # "idle" => c = d

Routed(e) == e \in told \/ (e \in threads /\ (e \in Posts => root[e].conv \in sent[e]))

(* What has been done for the event a run is dealing with.                  *)
RouteInv ==
  /\ \A e \in processed : Routed(e)
  /\ \A d \in Drains :
        /\ drain[d].pc \in Handling \ {"cursor"} => Event(d) \notin processed
        /\ drain[d].pc = "sent" => drain[d].way \in sent[Event(d)]
        /\ drain[d].pc = "thread" => (Event(d) \in Posts => root[Event(d)].conv \in sent[Event(d)])
        /\ drain[d].pc = "mark" => Routed(Event(d))

(* Everything behind the cursor is processed, and everything in the part of  *)
(* a rotated file that is not brought back.                                  *)
Behind(file, n) == \A i \in 1..n : file[i] \in processed

(* The line of e is where a drain will find it.                              *)
InInbox(e) == e \in processed \/ Ahead(inbox, cursor, e)
Kept(e) == InInbox(e) \/ \E n \in DOMAIN rotated : Ahead(rotated[n], n, e)

FilesInv ==
  /\ cursor \in 0..Len(inbox) /\ Behind(inbox, cursor)
  /\ \A n \in DOMAIN rotated : n \in 1..Len(rotated[n]) /\ Behind(rotated[n], n)
  /\ write # Null => write.file = 0 \/ write.file \in DOMAIN rotated
  /\ \A e \in Events : slack[e] = "acked" \/ e \in seen => Kept(e)

(* What a run knows of the files.                                            *)
DrainInv ==
  \A d \in Drains :
     /\ drain[d].pc \notin {"idle", "sweep", "unlink"} => DOMAIN rotated = {}
     /\ drain[d].pc \in Handling \cup {"next"} =>
          \A i \in 1..Len(drain[d].lines) :
             /\ cursor + i \in 1..Len(inbox)
             /\ drain[d].lines[i] = [event |-> inbox[cursor + i], end |-> cursor + i]
     /\ drain[d].pc = "cursor" => Event(d) \in processed
     /\ drain[d].pc = "rename" =>
          cursor = 0 /\ drain[d].at \in 1..Len(inbox) /\ Behind(inbox, drain[d].at)
     /\ drain[d].pc = "unlink" =>
          /\ drain[d].at \in DOMAIN rotated
          /\ write # Null => write.file # drain[d].at
          /\ \A e \in Events : Ahead(rotated[drain[d].at], drain[d].at, e) => InInbox(e)

OneRunInv == Alone /\ RouteInv /\ FilesInv /\ DrainInv

IInv == Types /\ LaunchInv /\ (~overlap => OneRunInv)

-----------------------------------------------------------------------------
(* The rows of the runs.                                                    *)

Pcs == {"idle"} \cup Sync \cup Await
Line == [event : Events, end : Nat]
DrainRow == [pc : Pcs, lines : Seq(Line), at : Nat, way : Ways \cup {Null}, reused : BOOLEAN,
             aborted : BOOLEAN]

LEMMA RowFields ==
  ASSUME NEW r \in DrainRow
  PROVE  /\ r.pc \in Pcs /\ r.lines \in Seq(Line) /\ r.at \in Nat /\ r.way \in Ways \cup {Null}
         /\ r.reused \in BOOLEAN /\ r.aborted \in BOOLEAN
BY DEF DrainRow

LEMMA DrainType == TypeOK => drain \in [Drains -> DrainRow]
BY DEF TypeOK, DrainRow, Pcs, Line

LEMMA IdleRow == Idle \in DrainRow /\ Idle.pc = "idle" /\ Idle.lines = <<>>
BY DEF Idle, DrainRow, Pcs, Line

(* A step that moves the run d and no other.                                *)
Moved(d) ==
  /\ drain' \in [Drains -> DrainRow]
  /\ \A o \in Drains \ {d} : drain'[o] = drain[o]

LEMMA RowSet ==
  ASSUME drain \in [Drains -> DrainRow], NEW d \in Drains, NEW r \in DrainRow,
         drain' = [drain EXCEPT ![d] = r]
  PROVE  Moved(d) /\ drain'[d] = r
BY DEF Moved

LEMMA GoRow ==
  ASSUME drain \in [Drains -> DrainRow], NEW d \in Drains, NEW pc \in Pcs, Go(d, pc)
  PROVE  /\ Moved(d) /\ drain'[d].pc = pc /\ drain'[d].lines = drain[d].lines
         /\ drain'[d].way = drain[d].way /\ drain'[d].at = drain[d].at
<1> DEFINE r == [drain[d] EXCEPT !.pc = pc]
<1>1. /\ r \in DrainRow /\ r.pc = pc /\ r.lines = drain[d].lines /\ r.way = drain[d].way
      /\ r.at = drain[d].at
  BY DEF DrainRow
<1>2. drain' = [drain EXCEPT ![d] = r]  BY DEF Go
<1> HIDE DEF r
<1> QED  BY <1>1, <1>2, RowSet

LEMMA WayRow ==
  ASSUME drain \in [Drains -> DrainRow], NEW d \in Drains, NEW way \in Ways, NEW reused \in BOOLEAN,
         \/ Send(d, way, reused)
         \/ drain' = [drain EXCEPT ![d].pc = "find", ![d].way = way]
  PROVE  /\ Moved(d) /\ drain'[d].pc \in {"find", "send"} /\ drain'[d].lines = drain[d].lines
         /\ drain'[d].way = way
         /\ Send(d, way, reused) => drain'[d].pc = "send"
<1>1. CASE Send(d, way, reused)
  <2> DEFINE r == [drain[d] EXCEPT !.pc = "send", !.way = way, !.reused = reused]
  <2>1. r \in DrainRow /\ r.pc = "send" /\ r.lines = drain[d].lines /\ r.way = way
    <3>1. PICK row \in DrainRow : row = drain[d]  OBVIOUS
    <3> DEFINE sending == [row EXCEPT !.pc = "send"]
               routed == [sending EXCEPT !.way = way]
    <3>2. /\ sending \in DrainRow /\ sending.pc = "send" /\ sending.lines = row.lines
      BY DEF DrainRow, Pcs, Await
    <3> HIDE DEF sending
    <3>3. /\ routed \in DrainRow /\ routed.pc = "send" /\ routed.lines = row.lines /\ routed.way = way
      BY <3>2 DEF DrainRow
    <3> HIDE DEF routed
    <3>4. r = [routed EXCEPT !.reused = reused]  BY <3>1 DEF routed, sending
    <3> HIDE DEF r
    <3>5. r \in DrainRow /\ r.pc = "send" /\ r.lines = row.lines /\ r.way = way
      BY <3>3, <3>4 DEF DrainRow
    <3> QED  BY <3>1, <3>5
  <2>2. drain' = [drain EXCEPT ![d] = r]  BY <1>1 DEF Send
  <2> HIDE DEF r
  <2> QED  BY <2>1, <2>2, RowSet
<1>2. CASE ~Send(d, way, reused)
  <2> DEFINE r == [drain[d] EXCEPT !.pc = "find", !.way = way]
  <2>1. r \in DrainRow /\ r.pc = "find" /\ r.lines = drain[d].lines /\ r.way = way
    BY DEF DrainRow, Pcs, Await
  <2>2. drain' = [drain EXCEPT ![d] = r]  BY <1>2
  <2> HIDE DEF r
  <2> QED  BY <1>2, <2>1, <2>2, RowSet
<1> QED  BY <1>1, <1>2

LEMMA RetryRow ==
  ASSUME drain \in [Drains -> DrainRow], NEW d \in Drains, Retry(d)
  PROVE  Moved(d) /\ drain'[d].pc = "idle"
BY IdleRow, RowSet DEF Retry

LEMMA EventOfLine ==
  ASSUME drain \in [Drains -> DrainRow], NEW d \in Drains, drain[d].lines # <<>>
  PROVE  /\ Event(d) \in Events /\ Head(drain[d].lines) \in Line
         /\ Head(drain[d].lines).end \in Nat /\ Tail(drain[d].lines) \in Seq(Line)
<1>1. drain[d].lines \in Seq(Line)  BY RowFields
<1>2. Head(drain[d].lines) \in Line /\ Tail(drain[d].lines) \in Seq(Line)
  BY <1>1, HeadTailProperties
<1> QED  BY <1>2 DEF Event, Line

-----------------------------------------------------------------------------
(* Types.                                                                   *)

StoreTypes ==
  /\ slack \in [Events -> {"unsent", "offered", "acked"}]
  /\ up \in BOOLEAN /\ seen \subseteq Events
  /\ write \in [event : Events, file : Nat] \cup {Null}
  /\ inbox \in Seq(Events) /\ cursor \in Nat
  /\ DOMAIN rotated \subseteq Nat /\ \A n \in DOMAIN rotated : rotated[n] \in Seq(Events)
  /\ processed \subseteq Events /\ launched \subseteq Posts /\ threads \subseteq Events
  /\ root \in [Posts -> [conv : Convs \cup {Null}, bound : BOOLEAN]]
  /\ session \in [Posts -> {"none", "starting", "ready", "gone"}]
  /\ spawned \in [Posts -> Nat]
  /\ children \subseteq Posts /\ exits \subseteq Posts /\ expired \subseteq Posts
  /\ sent \in [Events -> SUBSET Ways] /\ told \subseteq Events
  /\ overlap \in BOOLEAN /\ faults \in 0..MaxFaults

LEMMA TypesSplit == TypeOK <=> StoreTypes /\ drain \in [Drains -> DrainRow]
BY DEF TypeOK, StoreTypes, DrainRow, Pcs, Line

RowFits(d) ==
  /\ drain[d].pc \in Handling => drain[d].lines # <<>>
  /\ drain[d].pc \in {"find", "send", "sent"} => drain[d].way # Null
  /\ drain[d].pc \in {"send", "sent"} /\ Event(d) \in Posts => drain[d].way \in Convs

LEMMA FitsSplit ==
  HasLine /\ WayFits <=> /\ \A d \in Drains : RowFits(d)
                         /\ \A p \in Posts : sent[p] \subseteq Convs
BY DEF HasLine, WayFits, RowFits

(* What a run that goes on may do, as far as types are concerned.           *)
LEMMA MovedTypes ==
  ASSUME Types, NEW d \in Drains, Moved(d), RowFits(d)', StoreTypes',
         \A p \in Posts : sent'[p] \subseteq Convs
  PROVE  Types'
<1>1. \A o \in Drains \ {d} : RowFits(o)'
  BY FitsSplit DEF Types, Moved, RowFits, Event
<1>2. (\A o \in Drains : RowFits(o))'  BY <1>1
<1>3. (HasLine /\ WayFits)'  BY <1>2 DEF HasLine, WayFits, RowFits
<1>4. TypeOK'  BY DEF Moved, TypeOK, StoreTypes, DrainRow, Pcs, Line
<1> QED  BY <1>3, <1>4 DEF Types

(* Nothing but the stores changes.                                          *)
LEMMA StoredTypes ==
  ASSUME Types, StoreTypes', drain' = drain, sent' = sent
  PROVE  Types'
<1>1. drain' \in [Drains -> DrainRow]  BY TypesSplit DEF Types
<1>2. TypeOK'  BY <1>1 DEF TypeOK, StoreTypes, DrainRow, Pcs, Line
<1>3. HasLine' /\ WayFits'  BY DEF Types, HasLine, WayFits, Event
<1> QED  BY <1>2, <1>3 DEF Types

LEMMA InitTypes == ASSUME Init PROVE Types
<1>1. StoreTypes
  <2>1. inbox \in Seq(Events) /\ DOMAIN rotated = {}  BY DEF Init
  <2>2. root \in [Posts -> [conv : Convs \cup {Null}, bound : BOOLEAN]]  BY DEF Init, NoRoot
  <2>3. faults \in 0..MaxFaults  BY SlackAssumption DEF Init
  <2> QED  BY <2>1, <2>2, <2>3 DEF Init, StoreTypes
<1>2. drain \in [Drains -> DrainRow] /\ \A d \in Drains : drain[d].pc = "idle"
  BY IdleRow DEF Init
<1>3. \A d \in Drains : RowFits(d)  BY <1>2 DEF RowFits, Handling, Await
<1>4. \A p \in Posts : sent[p] \subseteq Convs  BY DEF Init, Events
<1> QED  BY <1>1, <1>2, <1>3, <1>4, TypesSplit, FitsSplit DEF Types

LEMMA FaultType == ASSUME StoreTypes, Fault PROVE faults' \in 0..MaxFaults
<1>1. faults \in 0..MaxFaults  BY DEF StoreTypes
<1> QED  BY <1>1, SlackAssumption DEF Fault

LEMMA WorldTypes ==
  ASSUME Types,
         \/ \E e \in Events : Say(e) \/ Drop(e) \/ OpenInbox(e)
         \/ StartListener \/ WriteLine \/ ListenerDies
         \/ \E p \in Posts : Registers(p) \/ Goes(p) \/ Deadline(p) \/ Answered(p)
  PROVE  Types'
<1>1. StoreTypes  BY TypesSplit DEF Types
<1>2. ASSUME NEW e \in Events, Say(e) \/ Drop(e)
      PROVE  StoreTypes' /\ drain' = drain /\ sent' = sent
  <2>1. PICK x \in {"offered", "acked"} : slack' = [slack EXCEPT ![e] = x]
    BY <1>2 DEF Say, Drop
  <2>2. slack' \in [Events -> {"unsent", "offered", "acked"}]
    BY <1>1, <2>1 DEF StoreTypes
  <2> QED
    BY <1>1, <1>2, <2>2 DEF Say, Drop, StoreTypes, listener, files, map, agents, history
<1>8. ASSUME NEW e \in Events, OpenInbox(e)
      PROVE  StoreTypes' /\ drain' = drain /\ sent' = sent
  BY <1>1, <1>8 DEF OpenInbox, StoreTypes, files, map, agents, history
<1>3. ASSUME StartListener PROVE StoreTypes' /\ drain' = drain /\ sent' = sent
  BY <1>1, <1>3 DEF StartListener, StoreTypes, files, map, agents, history
<1>4. ASSUME WriteLine PROVE StoreTypes' /\ drain' = drain /\ sent' = sent
  <2>1. write.event \in Events /\ write.file \in Nat
    BY <1>1, <1>4 DEF WriteLine, StoreTypes
  <2>2. inbox' \in Seq(Events) /\ DOMAIN rotated' = DOMAIN rotated
        /\ \A n \in DOMAIN rotated : rotated'[n] \in Seq(Events)
    <3>1. inbox \in Seq(Events) /\ \A n \in DOMAIN rotated : rotated[n] \in Seq(Events)
      BY <1>1 DEF StoreTypes
    <3>2. CASE inbox' = Append(inbox, write.event) /\ rotated' = rotated
      BY <2>1, <3>1, <3>2, AppendProperties
    <3>3. CASE /\ inbox' = inbox
               /\ rotated' = [rotated EXCEPT ![write.file] = Append(@, write.event)]
      BY <2>1, <3>1, <3>3, AppendProperties
    <3> QED  BY <1>4, <3>2, <3>3 DEF WriteLine
  <2>3. faults' \in 0..MaxFaults  BY <1>1, <1>4, FaultType DEF WriteLine, StoreTypes
  <2> QED  BY <1>1, <1>4, <2>1, <2>2, <2>3 DEF WriteLine, StoreTypes, map, agents
<1>5. ASSUME ListenerDies PROVE StoreTypes' /\ drain' = drain /\ sent' = sent
  BY <1>1, <1>5, FaultType DEF ListenerDies, StoreTypes, files, map, agents
<1>6. ASSUME NEW p \in Posts, Registers(p) \/ Goes(p) \/ Deadline(p)
      PROVE  StoreTypes' /\ drain' = drain /\ sent' = sent
  BY <1>1, <1>6 DEF Registers, Goes, Deadline, Settles, StoreTypes, listener, files, map, history
<1>7. ASSUME NEW p \in Posts, Answered(p)
      PROVE  StoreTypes' /\ drain' = drain /\ sent' = sent
  <2>1. sent[p] \subseteq Convs  BY FitsSplit DEF Types
  <2>2. PICK c \in Convs : root' = [root EXCEPT ![p] = [conv |-> c, bound |-> TRUE]]
    BY <1>7, <2>1 DEF Answered
  <2>3. root' \in [Posts -> [conv : Convs \cup {Null}, bound : BOOLEAN]]
    BY <1>1, <2>2 DEF StoreTypes
  <2> QED  BY <1>1, <1>7, <2>3 DEF Answered, StoreTypes, listener, files, agents, history
<1> QED  BY <1>2, <1>3, <1>4, <1>5, <1>6, <1>7, <1>8, StoredTypes

(* A run of the lane at the files: what becomes of its row.                 *)
LEMMA FilesRows ==
  ASSUME Types, NEW d \in Drains,
         \/ Sweep(d) \/ Unlink(d) \/ ReadPending(d) \/ GiveUp(d)
         \/ WriteCursor(d) \/ Rotate(d) \/ Rename(d)
  PROVE  /\ Moved(d)
         /\ Sweep(d) =>
              /\ drain'[d].pc = "unlink" /\ drain'[d].at \in DOMAIN rotated
              /\ inbox' = inbox \o Salvaged(drain'[d].at)
              /\ write # Null => write.file # drain'[d].at
         /\ Unlink(d) => drain'[d].pc = "sweep"
         /\ ReadPending(d) => drain'[d].pc = "next" /\ drain'[d].lines = Pending
         /\ GiveUp(d) \/ Rename(d) => drain'[d].pc = "idle"
         /\ WriteCursor(d) =>
              drain'[d].pc = "next" /\ drain[d].lines # <<>> /\ drain'[d].lines = Tail(drain[d].lines)
         /\ Rotate(d) =>
              \/ /\ inbox # <<>> /\ Position = Len(inbox) /\ cursor' = 0
                 /\ drain'[d].pc = "rename" /\ drain'[d].at = Len(inbox)
              \/ cursor' = cursor /\ drain'[d].pc = "idle"
<1>1. /\ StoreTypes /\ drain \in [Drains -> DrainRow] /\ drain[d] \in DrainRow
      /\ inbox \in Seq(Events) /\ Len(inbox) \in Nat /\ cursor \in Nat
  BY TypesSplit DEF Types, StoreTypes
<1>2. ASSUME NEW r \in DrainRow, drain' = [drain EXCEPT ![d] = r]
      PROVE  Moved(d) /\ drain'[d] = r
  BY <1>1, <1>2, RowSet
<1>3. CASE Sweep(d)
  <2>1. PICK n \in DOMAIN rotated :
          /\ write # Null => write.file # n
          /\ inbox' = inbox \o Salvaged(n)
          /\ drain' = [drain EXCEPT ![d].pc = "unlink", ![d].at = n]
    BY <1>3 DEF Sweep
  <2> DEFINE r == [drain[d] EXCEPT !.pc = "unlink", !.at = n]
  <2>2. r \in DrainRow /\ r.pc = "unlink" /\ r.at = n
    BY <1>1, <2>1 DEF StoreTypes, DrainRow, Pcs, Sync
  <2>3. drain' = [drain EXCEPT ![d] = r]  BY <2>1
  <2>4. drain[d].pc = "sweep"  BY <1>3 DEF Sweep, At
  <2>5. /\ ~Unlink(d) /\ ~ReadPending(d) /\ ~GiveUp(d) /\ ~Rename(d)
        /\ ~WriteCursor(d) /\ ~Rotate(d)
    BY <2>1, <2>4 DEF Unlink, ReadPending, GiveUp, Rename, WriteCursor, Rotate, At
  <2> HIDE DEF r
  <2>6. Moved(d) /\ drain'[d] = r  BY <1>2, <2>2, <2>3
  <2> QED  BY <2>1, <2>2, <2>5, <2>6
<1>4. CASE Unlink(d)
  <2>1. Moved(d) /\ drain'[d].pc = "sweep"  BY <1>1, <1>4, GoRow DEF Unlink, Pcs, Sync
  <2> QED
    BY <1>4, <2>1 DEF Unlink, Sweep, ReadPending, GiveUp, Rename, WriteCursor, Rotate, At
<1>5. CASE ReadPending(d)
  <2>1. Position \in 0..Len(inbox)  BY <1>1 DEF Position
  <2>2. Pending \in Seq(Line)  BY <1>1, <2>1 DEF Pending, Line
  <2> DEFINE r == [drain[d] EXCEPT !.pc = "next", !.lines = Pending]
  <2>3. r \in DrainRow /\ r.pc = "next" /\ r.lines = Pending
    BY <1>1, <2>2 DEF DrainRow, Pcs, Sync
  <2>4. drain' = [drain EXCEPT ![d] = r]  BY <1>5 DEF ReadPending
  <2>5. drain[d].pc = "sweep" /\ DOMAIN rotated = {}  BY <1>5 DEF ReadPending, At
  <2> HIDE DEF r
  <2> QED
    BY <1>2, <2>3, <2>4, <2>5 DEF Sweep, Unlink, GiveUp, Rename, WriteCursor, Rotate, At
<1>6. CASE GiveUp(d) \/ Rename(d)
  <2>1. Moved(d) /\ drain'[d].pc = "idle"  BY <1>1, <1>6, RetryRow DEF GiveUp, Rename
  <2> QED
    BY <1>6, <2>1 DEF GiveUp, Rename, Sweep, Unlink, ReadPending, WriteCursor, Rotate, At
<1>7. CASE WriteCursor(d)
  <2>1. drain[d].lines # <<>> /\ drain[d].pc \in {"cursor", "next"}
    BY <1>7 DEF WriteCursor, At, Types, HasLine, Handling
  <2>2. Tail(drain[d].lines) \in Seq(Line)  BY <1>1, <2>1, EventOfLine
  <2> DEFINE r == [Idle EXCEPT !.pc = "next", !.lines = Tail(drain[d].lines),
                               !.aborted = drain[d].aborted]
  <2>3. r \in DrainRow /\ r.pc = "next" /\ r.lines = Tail(drain[d].lines)
    BY <1>1, <2>2, RowFields DEF Idle, DrainRow, Pcs, Sync
  <2>4. drain' = [drain EXCEPT ![d] = r]  BY <1>7 DEF WriteCursor
  <2> HIDE DEF r
  <2> QED
    BY <1>2, <1>7, <2>1, <2>3, <2>4 DEF Sweep, Unlink, ReadPending, GiveUp, Rename, WriteCursor,
      Rotate, At
<1>8. CASE Rotate(d)
  <2> DEFINE r == [drain[d] EXCEPT !.pc = "rename", !.at = Len(inbox)]
  <2>1. r \in DrainRow /\ r.pc = "rename" /\ r.at = Len(inbox)
    BY <1>1 DEF DrainRow, Pcs, Sync
  <2>2. drain' = [drain EXCEPT ![d] = r] \/ Retry(d)  BY <1>8 DEF Rotate
  <2> HIDE DEF r
  <2>3. CASE /\ inbox # <<>> /\ Position = Len(inbox) /\ cursor' = 0
             /\ drain' = [drain EXCEPT ![d] = r]
    <3>1. Moved(d) /\ drain'[d] = r  BY <1>2, <2>1, <2>3
    <3> QED
      BY <1>8, <2>1, <2>3, <3>1 DEF Sweep, Unlink, ReadPending, GiveUp, Rename, WriteCursor, Rotate, At
  <2>4. CASE cursor' = cursor /\ Retry(d)
    <3>1. Moved(d) /\ drain'[d].pc = "idle"  BY <1>1, <2>4, RetryRow
    <3> QED
      BY <1>8, <2>4, <3>1 DEF Sweep, Unlink, ReadPending, GiveUp, Rename, WriteCursor, Rotate, At
  <2> QED  BY <1>8, <2>3, <2>4 DEF Rotate, r
<1> QED  BY <1>3, <1>4, <1>5, <1>6, <1>7, <1>8

LEMMA SalvagedSeq ==
  ASSUME StoreTypes, NEW n \in DOMAIN rotated
  PROVE  /\ inbox \o Salvaged(n) \in Seq(Events)
         /\ inbox \in Seq(Events) /\ Salvaged(n) \in Seq(Events)
         /\ n \in Nat /\ rotated[n] \in Seq(Events)
<1>1. n \in Nat /\ rotated[n] \in Seq(Events) /\ inbox \in Seq(Events)
  BY DEF StoreTypes
<1>2. \A i \in (n + 1)..Len(rotated[n]) : rotated[n][i] \in Events  BY <1>1
<1>3. Salvaged(n) \in Seq(Events)  BY <1>1, <1>2, SubSeqProperties DEF Salvaged
<1> QED  BY <1>1, <1>3, ConcatProperties

LEMMA FilesTypes ==
  ASSUME Types, NEW d \in Drains,
         \/ Sweep(d) \/ Unlink(d) \/ ReadPending(d) \/ GiveUp(d)
         \/ WriteCursor(d) \/ Rotate(d) \/ Rename(d)
  PROVE  Types'
<1>1. /\ StoreTypes /\ drain \in [Drains -> DrainRow] /\ drain[d] \in DrainRow
      /\ \A p \in Posts : sent[p] \subseteq Convs
  BY TypesSplit, FitsSplit DEF Types
<1>2. Moved(d) /\ drain'[d].pc \in {"unlink", "sweep", "next", "idle", "rename"}  BY FilesRows
<1>3. RowFits(d)'  BY <1>2 DEF RowFits, Handling, Await
<1>4. sent' = sent
  BY DEF Sweep, Unlink, ReadPending, GiveUp, WriteCursor, Rotate, Rename
<1>5. SUFFICES StoreTypes'  BY <1>1, <1>2, <1>3, <1>4, MovedTypes
<1> USE DEF listener, files, map, agents, history
<1>6. CASE Sweep(d)
  <2>1. inbox' \in Seq(Events)  BY <1>1, <1>6, FilesRows, SalvagedSeq
  <2> QED  BY <1>1, <1>6, <2>1 DEF Sweep, StoreTypes
<1>7. CASE Unlink(d)
  <2>1. DOMAIN rotated' \subseteq DOMAIN rotated
        /\ \A n \in DOMAIN rotated' : rotated'[n] = rotated[n]
    BY <1>7 DEF Unlink
  <2> QED  BY <1>1, <1>7, <2>1 DEF Unlink, StoreTypes
<1>8. CASE ReadPending(d) \/ GiveUp(d)
  BY <1>1, <1>8 DEF ReadPending, GiveUp, StoreTypes
<1>9. CASE WriteCursor(d)
  <2>1. cursor' \in Nat  BY <1>1, <1>9, FilesRows, EventOfLine DEF WriteCursor
  <2> QED  BY <1>1, <1>9, <2>1 DEF WriteCursor, StoreTypes
<1>10. CASE Rotate(d)
  <2>1. cursor' \in Nat  BY <1>1, <1>10, FilesRows DEF StoreTypes
  <2> QED  BY <1>1, <1>10, <2>1 DEF Rotate, StoreTypes
<1>11. CASE Rename(d)
  <2>1. drain[d].at \in Nat /\ inbox \in Seq(Events)
    BY <1>1, RowFields DEF StoreTypes
  <2>2. DOMAIN rotated' \subseteq Nat /\ \A n \in DOMAIN rotated' : rotated'[n] \in Seq(Events)
    <3>1. DOMAIN rotated \subseteq Nat /\ \A n \in DOMAIN rotated : rotated[n] \in Seq(Events)
      BY <1>1 DEF StoreTypes
    <3> QED  BY <1>11, <2>1, <3>1 DEF Rename, SetAside
  <2>3. write' \in [event : Events, file : Nat] \cup {Null}
    BY <1>1, <1>11, <2>1 DEF Rename, StoreTypes
  <2> QED  BY <1>1, <1>11, <2>1, <2>2, <2>3 DEF Rename, StoreTypes
<1> QED  BY <1>6, <1>7, <1>8, <1>9, <1>10, <1>11

(* Where a step of a run that deals with a line leaves it: at the line it    *)
(* was at, or idle.                                                          *)
Onward(d, to) ==
  /\ Moved(d)
  /\ \/ /\ drain'[d].pc \in to /\ drain'[d].lines = drain[d].lines
        /\ drain'[d].way = drain[d].way
     \/ drain'[d].pc = "idle"

LEMMA OnwardTypes ==
  ASSUME Types, NEW d \in Drains, drain[d].lines # <<>>, NEW to,
         Onward(d, to), StoreTypes', \A p \in Posts : sent'[p] \subseteq Convs,
         to \cap {"find", "send", "sent"} = {} \/ drain[d].pc \in {"find", "send", "sent"},
         to \cap {"send", "sent"} = {} \/ Event(d) \notin Posts \/ drain[d].way \in Convs
  PROVE  Types'
<1>1. RowFits(d)
  BY FitsSplit DEF Types
<1>2. RowFits(d)'
  BY <1>1 DEF RowFits, Onward, Handling, Await, Event
<1> QED  BY <1>2, MovedTypes DEF Onward

LEMMA GoOnward ==
  ASSUME Types, NEW d \in Drains, NEW to \in SUBSET Pcs,
         (\E pc \in to : Go(d, pc)) \/ Retry(d)
  PROVE  Onward(d, to)
<1>1. drain \in [Drains -> DrainRow]  BY TypesSplit DEF Types
<1> QED  BY <1>1, GoRow, RetryRow DEF Onward

(* The steps on a line that go on with it.                                   *)
LEMMA StepsOnward ==
  ASSUME Types, NEW d \in Drains
  PROVE  /\ \A p \in Posts : HandlePost(d, p) => Onward(d, {"spawn", "wait"})
         /\ \A p \in Posts : Spawn(d, p) => Onward(d, {"wait", "hint"})
         /\ \A p \in Posts : NotFound(d, p) => Onward(d, {"hint", "rotate"})
         /\ \A r \in Replies : FindTarget(d, r) => Onward(d, {"send", "hint"})
         /\ Commit(d) => Onward(d, {"sent"})
         /\ Collide(d) => Onward(d, {"hint"})
         /\ Refused(d) => Onward(d, {"hint"})
         /\ Fails(d) => Onward(d, {})
         /\ RecordRoot(d) => Onward(d, {"thread"})
         /\ RecordThread(d) => Onward(d, {"mark"})
         /\ Hinted(d) => Onward(d, {"mark"})
         /\ MarkProcessed(d) => Onward(d, {"cursor"})
<1> USE GoOnward DEF Pcs, Sync, Await
<1>1. \A p \in Posts : HandlePost(d, p) => Onward(d, {"spawn", "wait"})  BY DEF HandlePost
<1>2. \A p \in Posts : Spawn(d, p) => Onward(d, {"wait", "hint"})  BY DEF Spawn
<1>3. \A p \in Posts : NotFound(d, p) => Onward(d, {"hint", "rotate"})  BY DEF NotFound
<1>4. \A r \in Replies : FindTarget(d, r) => Onward(d, {"send", "hint"})  BY DEF FindTarget
<1>5. Commit(d) => Onward(d, {"sent"})  BY DEF Commit
<1>6. Collide(d) => Onward(d, {"hint"})  BY DEF Collide
<1>7. Refused(d) => Onward(d, {"hint"})  BY DEF Refused
<1>8. Fails(d) => Onward(d, {})  BY DEF Fails
<1>9. RecordRoot(d) => Onward(d, {"thread"})  BY DEF RecordRoot
<1>10. RecordThread(d) => Onward(d, {"mark"})  BY DEF RecordThread
<1>11. Hinted(d) => Onward(d, {"mark"})  BY DEF Hinted
<1>12. MarkProcessed(d) => Onward(d, {"cursor"})  BY DEF MarkProcessed
<1> QED  BY <1>1, <1>2, <1>3, <1>4, <1>5, <1>6, <1>7, <1>8, <1>9, <1>10, <1>11, <1>12

(* The steps that give the line its way.                                     *)
LEMMA WayOnward ==
  ASSUME Types, NEW d \in Drains,
         \/ \E p \in Posts : Found(d, p) \/ Opened(d, p)
         \/ \E r \in Replies : HandleReply(d, r)
  PROVE  \/ Onward(d, {"open", "hint"})
         \/ /\ Moved(d) /\ drain'[d].pc \in {"find", "send"}
            /\ drain'[d].lines = drain[d].lines /\ drain'[d].way \in Ways
            /\ Event(d) \in Posts => drain'[d].way \in Convs
<1>1. drain \in [Drains -> DrainRow] /\ root \in [Posts -> [conv : Convs \cup {Null}, bound : BOOLEAN]]
  BY TypesSplit DEF Types, StoreTypes
<1>2. ASSUME NEW p \in Posts, Found(d, p), root[p].conv # Null
      PROVE  \E c \in Convs : Send(d, c, TRUE)
  BY <1>1, <1>2 DEF Found
<1>3. ASSUME NEW p \in Posts, Found(d, p), root[p].conv = Null
      PROVE  Onward(d, {"open", "hint"})
  BY <1>3, GoOnward DEF Found, Pcs, Sync, Await
<1>4. ASSUME NEW p \in Posts, Opened(d, p) PROVE \E c \in Convs : Send(d, c, FALSE)
  <2>1. (CHOOSE c \in Fresh : TRUE) \in Convs  BY <1>4 DEF Opened, Fresh
  <2> QED  BY <1>4, <2>1 DEF Opened
<1>5. ASSUME NEW r \in Replies, HandleReply(d, r)
      PROVE  \/ Onward(d, {"open", "hint"})
             \/ Send(d, Bound, FALSE)
             \/ \E c \in Convs : drain' = [drain EXCEPT ![d].pc = "find", ![d].way = c]
  <2>1. RootOf[r] \in Posts  BY SlackAssumption
  <2> QED  BY <1>1, <1>5, <2>1, GoOnward DEF HandleReply, Pcs, Sync, Await
<1>6. \A r \in Replies : HandleReply(d, r) => Event(d) \notin Posts
  BY SlackAssumption DEF HandleReply, Handles
<1>7. ASSUME NEW c \in Ways, NEW reused \in BOOLEAN,
             \/ Send(d, c, reused)
             \/ drain' = [drain EXCEPT ![d].pc = "find", ![d].way = c]
      PROVE  /\ Moved(d) /\ drain'[d].pc \in {"find", "send"}
             /\ drain'[d].lines = drain[d].lines /\ drain'[d].way = c
  BY <1>1, <1>7, WayRow
<1>8. ASSUME NEW p \in Posts, Found(d, p) \/ Opened(d, p)
      PROVE  \/ Onward(d, {"open", "hint"})
             \/ \E c \in Convs, reused \in BOOLEAN : Send(d, c, reused)
  BY <1>2, <1>3, <1>4, <1>8
<1> QED  BY <1>5, <1>6, <1>7, <1>8 DEF Ways

(* The steps of a run that deals with a line.                               *)
LineStep(d) ==
  \/ \E p \in Posts : HandlePost(d, p) \/ Spawn(d, p) \/ Found(d, p) \/ NotFound(d, p) \/ Opened(d, p)
  \/ \E r \in Replies : HandleReply(d, r) \/ FindTarget(d, r)
  \/ Commit(d) \/ Collide(d) \/ Refused(d) \/ Fails(d)
  \/ RecordRoot(d) \/ RecordThread(d) \/ Hinted(d) \/ MarkProcessed(d)

LEMMA HasItsLine ==
  ASSUME Types, NEW d \in Drains, LineStep(d)
  PROVE  drain[d].lines # <<>> /\ Event(d) \in Events
<1>1. drain[d].lines # <<>>
  BY DEF LineStep, Types, HasLine, Handling, Await, At, HandlePost, Handles, Spawn, Found, NotFound,
    Opened, HandleReply, FindTarget, Commit, Collide, Refused, Fails, RecordRoot, RecordThread,
    Hinted, MarkProcessed
<1>2. drain \in [Drains -> DrainRow]  BY TypesSplit DEF Types
<1> QED  BY <1>1, <1>2, EventOfLine

LEMMA LineTypes ==
  ASSUME Types, NEW d \in Drains, LineStep(d)
  PROVE  Types' /\ Moved(d)
<1>1. /\ StoreTypes /\ drain \in [Drains -> DrainRow] /\ drain[d] \in DrainRow
      /\ \A p \in Posts : sent[p] \subseteq Convs
      /\ RowFits(d) /\ drain[d].lines # <<>> /\ Event(d) \in Events
  BY TypesSplit, FitsSplit, HasItsLine DEF Types
<1>2. ASSUME NEW to, Onward(d, to), StoreTypes', \A p \in Posts : sent'[p] \subseteq Convs,
             to \cap {"find", "send", "sent"} = {}
      PROVE  Types' /\ Moved(d)
  BY <1>1, <1>2, OnwardTypes DEF Onward
<1> USE DEF listener, files, map, agents, history
<1>3. ASSUME NEW p \in Posts, HandlePost(d, p) PROVE Types' /\ Moved(d)
  <2>1. StoreTypes'  BY <1>1, <1>3 DEF HandlePost, StoreTypes
  <2> QED  BY <1>1, <1>2, <1>3, <2>1, StepsOnward DEF HandlePost
<1>4. ASSUME NEW p \in Posts, Spawn(d, p) PROVE Types' /\ Moved(d)
  <2>1. /\ session' \in [Posts -> {"none", "starting", "ready", "gone"}]
        /\ spawned' \in [Posts -> Nat] /\ children' \subseteq Posts
    <3>1. /\ session \in [Posts -> {"none", "starting", "ready", "gone"}]
          /\ spawned \in [Posts -> Nat] /\ children \subseteq Posts
      BY <1>1 DEF StoreTypes
    <3>2. CASE /\ session' = [session EXCEPT ![p] = "starting"]
               /\ spawned' = [spawned EXCEPT ![p] = @ + 1]
               /\ children' = children \cup {p}
      BY <3>1, <3>2
    <3> QED  BY <1>4, <3>1, <3>2 DEF Spawn
  <2>2. StoreTypes'  BY <1>1, <1>4, <2>1 DEF Spawn, StoreTypes
  <2> QED  BY <1>1, <1>2, <1>4, <2>2, StepsOnward DEF Spawn
<1>5. ASSUME NEW p \in Posts, NotFound(d, p) PROVE Types' /\ Moved(d)
  <2>1. faults' \in 0..MaxFaults  BY <1>1, <1>5, FaultType DEF NotFound, StoreTypes
  <2>2. StoreTypes'  BY <1>1, <1>5, <2>1 DEF NotFound, StoreTypes
  <2> QED  BY <1>1, <1>2, <1>5, <2>2, StepsOnward DEF NotFound
<1>6. ASSUME NEW p \in Posts, Found(d, p) \/ Opened(d, p) PROVE StoreTypes' /\ sent' = sent
  <2>1. root \in [Posts -> [conv : Convs \cup {Null}, bound : BOOLEAN]]
    BY <1>1 DEF StoreTypes
  <2>2. root' \in [Posts -> [conv : Convs \cup {Null}, bound : BOOLEAN]]
    <3>1. CASE Opened(d, p)
      <4> DEFINE c == CHOOSE c \in Fresh : TRUE
      <4>1. c \in Convs  BY <3>1 DEF Opened, Fresh
      <4>2. root' = [root EXCEPT ![p] = [conv |-> c, bound |-> FALSE]]  BY <3>1 DEF Opened
      <4> HIDE DEF c
      <4> QED  BY <2>1, <4>1, <4>2
    <3> QED  BY <1>6, <2>1, <3>1 DEF Found
  <2> QED  BY <1>1, <1>6, <2>2 DEF Found, Opened, StoreTypes
<1>7. ASSUME NEW r \in Replies, HandleReply(d, r) PROVE StoreTypes' /\ sent' = sent
  BY <1>1, <1>7 DEF HandleReply, StoreTypes
<1>8. ASSUME NEW r \in Replies, FindTarget(d, r) PROVE Types' /\ Moved(d)
  <2>1. StoreTypes' /\ sent' = sent  BY <1>1, <1>8 DEF FindTarget, StoreTypes
  <2>2. Event(d) \notin Posts /\ drain[d].pc = "find"
    BY <1>8, SlackAssumption DEF FindTarget, At
  <2>3. Onward(d, {"send", "hint"})  BY <1>8, StepsOnward
  <2> QED  BY <1>1, <2>1, <2>2, <2>3, OnwardTypes DEF Onward
<1>9. CASE Commit(d)
  <2>1. drain[d].way \in Ways /\ (Event(d) \in Posts => drain[d].way \in Convs) /\ drain[d].pc = "send"
    BY <1>1, <1>9, RowFields DEF Commit, At, RowFits
  <2>2. /\ sent' \in [Events -> SUBSET Ways]
        /\ \A p \in Posts : sent'[p] \subseteq Convs
    BY <1>1, <1>9, <2>1 DEF Commit, StoreTypes, Events
  <2>3. StoreTypes'  BY <1>1, <1>9, <2>2 DEF Commit, StoreTypes
  <2>4. Onward(d, {"sent"})  BY <1>9, StepsOnward
  <2> QED  BY <1>1, <2>1, <2>2, <2>3, <2>4, OnwardTypes DEF Onward
<1>10. CASE Collide(d)
  <2>1. StoreTypes' /\ sent' = sent  BY <1>1, <1>10 DEF Collide, StoreTypes
  <2> QED  BY <1>1, <1>2, <1>10, <2>1, StepsOnward
<1>11. CASE Refused(d)
  <2>1. root' \in [Posts -> [conv : Convs \cup {Null}, bound : BOOLEAN]]
    <3>1. root \in [Posts -> [conv : Convs \cup {Null}, bound : BOOLEAN]]
      BY <1>1 DEF StoreTypes
    <3>2. NoRoot \in [conv : Convs \cup {Null}, bound : BOOLEAN]  BY DEF NoRoot
    <3>3. root' = root \/ root' = [root EXCEPT ![Event(d)] = NoRoot]
      BY <1>11 DEF Refused
    <3> QED  BY <3>1, <3>2, <3>3
  <2>2. faults' \in 0..MaxFaults  BY <1>1, <1>11, FaultType DEF Refused
  <2>3. StoreTypes' /\ sent' = sent  BY <1>1, <1>11, <2>1, <2>2 DEF Refused, StoreTypes
  <2> QED  BY <1>1, <1>2, <1>11, <2>3, StepsOnward
<1>12. CASE Fails(d)
  <2>1. faults' \in 0..MaxFaults  BY <1>1, <1>12, FaultType DEF Fails
  <2>2. StoreTypes' /\ sent' = sent  BY <1>1, <1>12, <2>1 DEF Fails, StoreTypes
  <2> QED  BY <1>1, <1>2, <1>12, <2>2, StepsOnward
<1>13. CASE RecordRoot(d)
  <2>1. Event(d) \in Posts => drain[d].way \in Convs
    BY <1>1, <1>13 DEF RecordRoot, At, RowFits
  <2>2. root' \in [Posts -> [conv : Convs \cup {Null}, bound : BOOLEAN]]
    BY <1>1, <1>13, <2>1 DEF RecordRoot, StoreTypes
  <2>3. StoreTypes' /\ sent' = sent  BY <1>1, <1>13, <2>2 DEF RecordRoot, StoreTypes
  <2> QED  BY <1>1, <1>2, <1>13, <2>3, StepsOnward
<1>14. CASE RecordThread(d) \/ Hinted(d) \/ MarkProcessed(d)
  <2>1. StoreTypes' /\ sent' = sent
    BY <1>1, <1>14 DEF RecordThread, Hinted, MarkProcessed, StoreTypes
  <2> QED  BY <1>1, <1>2, <1>14, <2>1, StepsOnward
<1>15. ASSUME \/ \E p \in Posts : Found(d, p) \/ Opened(d, p)
              \/ \E r \in Replies : HandleReply(d, r)
       PROVE  Types' /\ Moved(d)
  <2>1. StoreTypes' /\ sent' = sent  BY <1>6, <1>7, <1>15
  <2>2. CASE Onward(d, {"open", "hint"})  BY <1>1, <1>2, <2>1, <2>2
  <2>3. CASE ~Onward(d, {"open", "hint"})
    <3>1. /\ Moved(d) /\ drain'[d].pc \in {"find", "send"} /\ drain'[d].lines = drain[d].lines
          /\ drain'[d].way \in Ways /\ (Event(d) \in Posts => drain'[d].way \in Convs)
      BY <1>15, <2>3, WayOnward
    <3>2. RowFits(d)'
      BY <1>1, <3>1, SlackAssumption DEF RowFits, Event
    <3> QED  BY <1>1, <2>1, <3>1, <3>2, MovedTypes
  <2> QED  BY <2>2, <2>3
<1> QED
  BY <1>3, <1>4, <1>5, <1>8, <1>9, <1>10, <1>11, <1>12, <1>13, <1>14, <1>15 DEF LineStep

LEMMA RunTypes ==
  ASSUME Types, (\E d \in Drains : Start(d) \/ Abort(d)) \/ DaemonDies
  PROVE  Types'
<1>1. /\ StoreTypes /\ drain \in [Drains -> DrainRow]
      /\ \A p \in Posts : sent[p] \subseteq Convs /\ \A d \in Drains : RowFits(d)
  BY TypesSplit, FitsSplit DEF Types
<1>2. ASSUME NEW d \in Drains, Start(d) PROVE Types'
  <2>1. Moved(d) /\ drain'[d].pc = "sweep"
    BY <1>1, <1>2, GoRow DEF Start, Pcs, Sync
  <2>2. RowFits(d)'  BY <2>1 DEF RowFits, Handling, Await
  <2>3. StoreTypes' /\ sent' = sent  BY <1>1, <1>2 DEF Start, StoreTypes, listener, files, map, agents
  <2> QED  BY <1>1, <2>1, <2>2, <2>3, MovedTypes
<1>3. ASSUME NEW d \in Drains, Abort(d) PROVE Types'
  <2> DEFINE r == [drain[d] EXCEPT !.aborted = TRUE]
  <2>1. /\ r \in DrainRow /\ r.pc = drain[d].pc /\ r.lines = drain[d].lines
        /\ r.way = drain[d].way
    BY <1>1 DEF DrainRow
  <2>2. drain' = [drain EXCEPT ![d] = r]  BY <1>3 DEF Abort
  <2> HIDE DEF r
  <2>3. Moved(d) /\ drain'[d] = r  BY <1>1, <2>1, <2>2, RowSet
  <2>4. RowFits(d)  BY FitsSplit DEF Types
  <2>5. RowFits(d)'  BY <2>1, <2>3, <2>4 DEF RowFits, Event
  <2>6. StoreTypes' /\ sent' = sent
    BY <1>1, <1>3 DEF Abort, StoreTypes, listener, files, map, agents, history
  <2> QED  BY <1>1, <2>3, <2>5, <2>6, MovedTypes
<1>4. CASE DaemonDies
  <2>1. drain' \in [Drains -> DrainRow] /\ \A d \in Drains : drain'[d].pc = "idle"
    BY <1>4, IdleRow DEF DaemonDies
  <2>2. StoreTypes' /\ sent' = sent
    BY <1>1, <1>4, FaultType DEF DaemonDies, StoreTypes, files, map
  <2>3. TypeOK'  BY <2>1, <2>2 DEF TypeOK, StoreTypes, DrainRow, Pcs, Line
  <2>4. HasLine' /\ WayFits'
    BY <1>1, <2>1, <2>2 DEF HasLine, WayFits, Handling, Await
  <2> QED  BY <2>3, <2>4 DEF Types
<1> QED  BY <1>2, <1>3, <1>4

LEMMA NextTypes == ASSUME Types, [Next]_vars PROVE Types'
<1>1. CASE UNCHANGED vars
  BY <1>1 DEF vars, listener, files, map, agents, history, Types, TypeOK, HasLine, WayFits, Event
<1> QED
  BY <1>1, WorldTypes, RunTypes, FilesTypes, LineTypes DEF Next, LaneStep, LineStep

-----------------------------------------------------------------------------
(* A post launches once.                                                    *)

LEMMA LaunchKept ==
  ASSUME LaunchInv, spawned' = spawned, launched' = launched,
         \A d \in Drains : drain'[d].pc = "spawn" =>
            drain[d].pc = "spawn" /\ drain'[d].lines = drain[d].lines
  PROVE  LaunchInv'
BY DEF LaunchInv, Event

LEMMA HandleLaunch ==
  ASSUME Types, LaunchInv, NEW d \in Drains, NEW p \in Posts, HandlePost(d, p)
  PROVE  LaunchInv'
<1>1. Onward(d, {"spawn", "wait"}) /\ spawned' = spawned /\ launched' = launched \cup {p}
      /\ drain[d].pc = "next" /\ p = Event(d)
  BY StepsOnward DEF HandlePost, Handles, At, agents
<1>2. drain'[d].pc = "spawn" => p \notin launched /\ Event(d)' = p
  <2>1. Types'  BY LineTypes DEF LineStep
  <2>2. drain \in [Drains -> DrainRow]  BY TypesSplit DEF Types
  <2>3. p \in launched => drain'[d].pc = "wait"  BY <2>2, GoRow DEF HandlePost, Pcs, Await
  <2> QED  BY <1>1, <2>3 DEF Onward, Event
<1>3. \A o \in Drains \ {d} : drain'[o] = drain[o]  BY <1>1 DEF Onward, Moved
<1> QED  BY <1>1, <1>2, <1>3 DEF LaunchInv, Event

LEMMA SpawnLaunch ==
  ASSUME Types, LaunchInv, NEW d \in Drains, NEW p \in Posts, Spawn(d, p)
  PROVE  LaunchInv'
<1>1. Onward(d, {"wait", "hint"}) /\ launched' = launched /\ drain[d].pc = "spawn" /\ p = Event(d)
  BY StepsOnward DEF Spawn, At, map
<1>2. \A o \in Drains \ {d} : drain'[o] = drain[o]  BY <1>1 DEF Onward, Moved
<1>3. drain'[d].pc # "spawn"  BY <1>1 DEF Onward
<1>4. spawned' = spawned \/ spawned' = [spawned EXCEPT ![p] = @ + 1]  BY DEF Spawn
<1>5. spawned \in [Posts -> Nat]  BY DEF Types, TypeOK
<1>6. /\ p \in launched /\ spawned[p] = 0
      /\ \A o \in Drains : drain[o].pc = "spawn" /\ Event(o) = p => o = d
  BY <1>1 DEF LaunchInv
<1>7. \A q \in Posts : spawned'[q] = spawned[q] \/ (q = p /\ spawned'[q] = 1)
  BY <1>4, <1>5, <1>6
<1>8. \A o \in Drains : drain'[o].pc = "spawn" => o # d /\ drain'[o] = drain[o]
  BY <1>2, <1>3
<1>9. \A o \in Drains : drain'[o].pc = "spawn" => Event(o)' \in launched /\ spawned'[Event(o)'] = 0
  <2> SUFFICES ASSUME NEW o \in Drains, drain'[o].pc = "spawn"
      PROVE Event(o)' \in launched /\ spawned'[Event(o)'] = 0
    OBVIOUS
  <2>1. drain[o].pc = "spawn" /\ Event(o)' = Event(o) /\ o # d  BY <1>8 DEF Event
  <2>2. Event(o) \in launched /\ spawned[Event(o)] = 0 /\ Event(o) # p
    BY <1>6, <2>1 DEF LaunchInv
  <2>3. launched \subseteq Posts  BY DEF Types, TypeOK
  <2> QED  BY <1>7, <2>1, <2>2, <2>3
<1> QED  BY <1>1, <1>6, <1>7, <1>8, <1>9 DEF LaunchInv, Event

LEMMA NextLaunch == ASSUME Types, LaunchInv, [Next]_vars PROVE LaunchInv'
<1>1. CASE \/ UNCHANGED vars
           \/ \E e \in Events : Say(e) \/ Drop(e) \/ OpenInbox(e)
           \/ StartListener \/ WriteLine \/ ListenerDies
           \/ \E p \in Posts : Registers(p) \/ Goes(p) \/ Deadline(p) \/ Answered(p)
  <2>1. UNCHANGED <<spawned, launched, drain>>
    BY <1>1 DEF vars, listener, files, map, agents, history, Say, Drop, OpenInbox, StartListener,
      WriteLine, ListenerDies, Registers, Goes, Deadline, Answered, Settles
  <2> QED  BY <2>1, LaunchKept
<1>2. drain \in [Drains -> DrainRow]  BY TypesSplit DEF Types
<1>3. ASSUME NEW d \in Drains, Start(d) PROVE LaunchInv'
  <2>1. Moved(d) /\ drain'[d].pc = "sweep"  BY <1>2, <1>3, GoRow DEF Start, Pcs, Sync
  <2> QED  BY <1>3, <2>1, LaunchKept DEF Start, map, agents, Moved
<1>4. ASSUME NEW d \in Drains, Abort(d) PROVE LaunchInv'
  <2>1. \A o \in Drains : drain'[o].pc = drain[o].pc /\ drain'[o].lines = drain[o].lines
    BY <1>2, <1>4 DEF Abort, DrainRow
  <2> QED  BY <1>4, <2>1, LaunchKept DEF Abort, map, agents
<1>5. CASE DaemonDies
  BY <1>5, IdleRow, LaunchKept DEF DaemonDies, map
<1>6. ASSUME NEW d \in Drains, \/ Sweep(d) \/ Unlink(d) \/ ReadPending(d) \/ GiveUp(d)
                               \/ WriteCursor(d) \/ Rotate(d) \/ Rename(d)
      PROVE  LaunchInv'
  <2>1. Moved(d) /\ drain'[d].pc # "spawn"  BY <1>6, FilesRows
  <2>2. UNCHANGED <<spawned, launched>>
    BY <1>6 DEF Sweep, Unlink, ReadPending, GiveUp, WriteCursor, Rotate, Rename, map, agents
  <2> QED  BY <2>1, <2>2, LaunchKept DEF Moved
<1>7. ASSUME NEW d \in Drains, LineStep(d),
             \A p \in Posts : ~HandlePost(d, p) /\ ~Spawn(d, p)
      PROVE  LaunchInv'
  <2>1. Moved(d) /\ drain'[d].pc # "spawn"
    BY <1>7, LineTypes, StepsOnward, WayOnward DEF LineStep, Onward
  <2>2. UNCHANGED <<spawned, launched>>
    BY <1>7 DEF LineStep, Found, NotFound, Opened, HandleReply, FindTarget, Commit, Collide, Refused,
      Fails, RecordRoot, RecordThread, Hinted, MarkProcessed, map, agents
  <2> QED  BY <2>1, <2>2, LaunchKept DEF Moved
<1> QED
  BY <1>1, <1>3, <1>4, <1>5, <1>6, <1>7, HandleLaunch, SpawnLaunch DEF Next, LaneStep, LineStep

-----------------------------------------------------------------------------
(* What is done for an event before it is marked.                           *)

RouteRow(d) ==
  /\ drain[d].pc \in Handling \ {"cursor"} => Event(d) \notin processed
  /\ drain[d].pc = "sent" => drain[d].way \in sent[Event(d)]
  /\ drain[d].pc = "thread" => (Event(d) \in Posts => root[Event(d)].conv \in sent[Event(d)])
  /\ drain[d].pc = "mark" => Routed(Event(d))

(* The one run moves; the others are idle and stay so.                       *)
LEMMA RouteMoved ==
  ASSUME Alone, NEW d \in Drains, Moved(d), drain[d].pc # "idle",
         (\A e \in processed : Routed(e))', RouteRow(d)'
  PROVE  Alone' /\ RouteInv'
<1>1. \A o \in Drains \ {d} : drain[o].pc = "idle" /\ drain'[o] = drain[o]
  BY DEF Alone, Moved
<1>2. Alone'  BY <1>1 DEF Alone
<1>3. \A o \in Drains : RouteRow(o)'
  BY <1>1 DEF RouteRow, Handling, Await
<1> QED  BY <1>2, <1>3 DEF RouteInv, RouteRow

(* What has its thread and its conversation keeps them.                      *)
LEMMA RoutedKept ==
  ASSUME NEW e, Routed(e), told \subseteq told', threads \subseteq threads',
         e \in Posts => root'[e] = root[e] /\ sent[e] \subseteq sent'[e]
  PROVE  Routed(e)'
BY DEF Routed

LEMMA WorldRoute ==
  ASSUME Types, Alone, RouteInv,
         \/ UNCHANGED vars
         \/ \E e \in Events : Say(e) \/ Drop(e) \/ OpenInbox(e)
         \/ StartListener \/ WriteLine \/ ListenerDies
         \/ \E p \in Posts : Registers(p) \/ Goes(p) \/ Deadline(p) \/ Answered(p)
  PROVE  Alone' /\ RouteInv'
<1>1. UNCHANGED <<drain, processed, threads, sent, told>>
  <2>1. CASE UNCHANGED vars  BY <2>1 DEF vars, map
  <2>2. CASE \E e \in Events : Say(e) \/ Drop(e) \/ OpenInbox(e)
    BY <2>2 DEF Say, Drop, OpenInbox, map
  <2>3. CASE StartListener \/ WriteLine \/ ListenerDies
    BY <2>3 DEF StartListener, WriteLine, ListenerDies, map
  <2>4. CASE \E p \in Posts : Registers(p) \/ Goes(p) \/ Deadline(p) \/ Answered(p)
    BY <2>4 DEF Registers, Goes, Deadline, Answered, Settles, map
  <2> QED  BY <2>1, <2>2, <2>3, <2>4
<1>2. Alone'  BY <1>1 DEF Alone
<1>3. CASE root' = root
  BY <1>1, <1>2, <1>3 DEF RouteInv, Routed, Event
<1>4. ASSUME NEW p \in Posts, Answered(p) PROVE RouteInv'
  <2>1. PICK c \in sent[p] : root' = [root EXCEPT ![p] = [conv |-> c, bound |-> TRUE]]
    BY <1>4 DEF Answered
  <2>2. root \in [Posts -> [conv : Convs \cup {Null}, bound : BOOLEAN]]
    BY TypesSplit DEF Types, StoreTypes
  <2>3. \A q \in Posts : root'[q] = root[q] \/ root'[q].conv \in sent[q]
    BY <2>1, <2>2
  <2>4. \A e : Routed(e) => Routed(e)'  BY <1>1, <2>3 DEF Routed
  <2>5. ASSUME NEW d \in Drains, drain[d].pc = "thread", Event(d) \in Posts
        PROVE  root'[Event(d)].conv \in sent[Event(d)]
    BY <2>3, <2>5 DEF RouteInv
  <2> QED  BY <1>1, <2>4, <2>5 DEF RouteInv, Event
<1> QED
  BY <1>2, <1>3, <1>4 DEF vars, listener, files, map, agents, history, Say, Drop, OpenInbox,
    StartListener, WriteLine, ListenerDies, Registers, Goes, Deadline, Settles

LEMMA RunRoute ==
  ASSUME Types, Alone, RouteInv, ~overlap',
         (\E d \in Drains : Start(d) \/ Abort(d)) \/ DaemonDies
  PROVE  Alone' /\ RouteInv'
<1>1. drain \in [Drains -> DrainRow]  BY TypesSplit DEF Types
<1>2. UNCHANGED <<processed, threads, root, sent, told>>
  BY DEF Start, Abort, DaemonDies, map
<1>3. ASSUME NEW d \in Drains, Start(d) PROVE Alone' /\ RouteInv'
  <2>1. Moved(d) /\ drain'[d].pc = "sweep"  BY <1>1, <1>3, GoRow DEF Start, Pcs, Sync
  <2>2. \A o \in Drains : drain[o].pc = "idle"  BY <1>3 DEF Start
  <2> QED  BY <1>2, <2>1, <2>2 DEF Alone, RouteInv, Moved, Routed, Handling, Await
<1>4. ASSUME NEW d \in Drains, Abort(d) PROVE Alone' /\ RouteInv'
  <2>1. \A o \in Drains : /\ drain'[o].pc = drain[o].pc /\ drain'[o].lines = drain[o].lines
                          /\ drain'[o].way = drain[o].way
    BY <1>1, <1>4 DEF Abort, DrainRow
  <2> QED  BY <1>2, <2>1 DEF Alone, RouteInv, Routed, Event
<1>5. CASE DaemonDies
  <2>1. \A d \in Drains : drain'[d].pc = "idle"  BY <1>5, IdleRow DEF DaemonDies
  <2> QED  BY <1>2, <2>1 DEF Alone, RouteInv, Routed, Handling, Await
<1> QED  BY <1>3, <1>4, <1>5

LEMMA FilesRoute ==
  ASSUME Types, Alone, RouteInv, NEW d \in Drains,
         \/ Sweep(d) \/ Unlink(d) \/ ReadPending(d) \/ GiveUp(d)
         \/ WriteCursor(d) \/ Rotate(d) \/ Rename(d)
  PROVE  Alone' /\ RouteInv'
<1>1. Moved(d) /\ drain'[d].pc \in {"unlink", "sweep", "next", "idle", "rename"}
  BY FilesRows
<1>2. drain[d].pc # "idle" /\ UNCHANGED <<processed, threads, root, sent, told>>
  BY DEF Sweep, Unlink, ReadPending, GiveUp, WriteCursor, Rotate, Rename, At, map
<1>3. (\A e \in processed : Routed(e))'  BY <1>2 DEF RouteInv, Routed
<1>4. RouteRow(d)'  BY <1>1 DEF RouteRow, Handling, Await
<1> QED  BY <1>1, <1>2, <1>3, <1>4, RouteMoved

LEMMA LineRoute ==
  ASSUME Types, Alone, RouteInv, NEW d \in Drains, LineStep(d)
  PROVE  Alone' /\ RouteInv'
<1> DEFINE e == Event(d)
<1>1. /\ drain \in [Drains -> DrainRow] /\ drain[d] \in DrainRow
      /\ drain[d].lines # <<>> /\ e \in Events
      /\ root \in [Posts -> [conv : Convs \cup {Null}, bound : BOOLEAN]]
      /\ sent \in [Events -> SUBSET Ways]
  BY TypesSplit, HasItsLine DEF Types, StoreTypes
<1>2. Moved(d)  BY LineTypes
<1>3. drain[d].pc # "idle" /\ e \notin processed
  BY DEF LineStep, HandlePost, Handles, Spawn, Found, NotFound, Opened, HandleReply, FindTarget,
    Commit, Collide, Refused, Fails, RecordRoot, RecordThread, Hinted, MarkProcessed, At,
    RouteInv, Handling, Await
<1>4. SUFFICES (\A x \in processed : Routed(x))' /\ RouteRow(d)'  BY <1>2, <1>3, RouteMoved
(* Steps that neither send nor record.                                       *)
<1>5. ASSUME UNCHANGED <<processed, threads, sent, told>>,
             \A p \in Posts \ {e} : root'[p] = root[p],
             \/ drain'[d].pc \in {"idle", "rotate"}
             \/ drain'[d].pc \in {"spawn", "wait", "hint", "open", "find", "send"}
                   /\ drain'[d].lines = drain[d].lines
      PROVE  (\A x \in processed : Routed(x))' /\ RouteRow(d)'
  <2>1. (\A x \in processed : Routed(x))'
    BY <1>3, <1>5, RoutedKept DEF RouteInv
  <2>2. RouteRow(d)'  BY <1>3, <1>5 DEF RouteRow, Handling, Await, Event
  <2> QED  BY <2>1, <2>2
<1> USE DEF map
<1>6. CASE \/ \E p \in Posts : HandlePost(d, p) \/ Spawn(d, p) \/ NotFound(d, p)
           \/ \E r \in Replies : FindTarget(d, r)
           \/ Collide(d) \/ Refused(d) \/ Fails(d)
  <2>1. UNCHANGED <<processed, threads, sent, told>> /\ \A p \in Posts \ {e} : root'[p] = root[p]
    BY <1>1, <1>6 DEF HandlePost, Spawn, NotFound, FindTarget, Collide, Refused, Fails
  <2>2. Onward(d, {"spawn", "wait", "hint", "rotate", "send"})
    BY <1>6, StepsOnward DEF Onward
  <2> QED  BY <1>5, <2>1, <2>2 DEF Onward
<1>7. CASE \/ \E p \in Posts : Found(d, p) \/ Opened(d, p)
           \/ \E r \in Replies : HandleReply(d, r)
  <2>1. UNCHANGED <<processed, threads, sent, told>> /\ \A p \in Posts \ {e} : root'[p] = root[p]
    BY <1>1, <1>7 DEF Found, Opened, HandleReply
  <2> QED  BY <1>5, <1>7, <2>1, WayOnward DEF Onward
<1>8. CASE Commit(d)
  <2>1. Onward(d, {"sent"}) /\ UNCHANGED <<processed, threads, root, told>>
        /\ sent' = [sent EXCEPT ![e] = @ \cup {drain[d].way}]
    BY <1>8, StepsOnward DEF Commit
  <2>2. drain'[d].pc = "sent" /\ drain'[d].lines = drain[d].lines /\ drain'[d].way = drain[d].way
    BY <1>1, <1>8, GoRow DEF Commit, Pcs, Await
  <2>3. \A x \in Events : sent[x] \subseteq sent'[x]  BY <1>1, <2>1
  <2>4. (\A x \in processed : Routed(x))'
    BY <2>1, <2>3, RoutedKept DEF RouteInv, Events
  <2>5. RouteRow(d)'  BY <1>1, <1>3, <2>1, <2>2 DEF RouteRow, Event
  <2> QED  BY <2>4, <2>5
<1>9. CASE RecordRoot(d)
  <2>1. drain[d].pc = "sent" /\ drain[d].way \in sent[e]
    BY <1>9 DEF RecordRoot, At, RouteInv
  <2>2. drain'[d].pc = "thread" /\ drain'[d].lines = drain[d].lines
    BY <1>1, <1>9, GoRow DEF RecordRoot, Pcs, Sync
  <2>3. UNCHANGED <<processed, threads, sent, told>>  BY <1>9 DEF RecordRoot
  <2>4. /\ \A p \in Posts \ {e} : root'[p] = root[p]
        /\ e \in Posts => root'[e].conv = drain[d].way
    BY <1>1, <1>9 DEF RecordRoot
  <2>5. (\A x \in processed : Routed(x))'
    BY <1>3, <2>3, <2>4, RoutedKept DEF RouteInv
  <2>6. RouteRow(d)'
    BY <1>3, <2>1, <2>2, <2>3, <2>4 DEF RouteRow, Event
  <2> QED  BY <2>5, <2>6
<1>10. CASE RecordThread(d) \/ Hinted(d)
  <2>1. drain'[d].pc = "mark" /\ drain'[d].lines = drain[d].lines
    BY <1>1, <1>10, GoRow DEF RecordThread, Hinted, Pcs, Sync
  <2>2. /\ UNCHANGED <<processed, root, sent>> /\ threads \subseteq threads' /\ told \subseteq told'
    BY <1>10 DEF RecordThread, Hinted
  <2>3. (\A x \in processed : Routed(x))'
    BY <2>2, RoutedKept DEF RouteInv
  <2>4. Routed(e)'
    BY <1>10, <2>1, <2>2 DEF RecordThread, Hinted, At, RouteInv, Routed, Event
  <2>5. RouteRow(d)'  BY <1>3, <2>1, <2>2, <2>4 DEF RouteRow, Event, Routed
  <2> QED  BY <2>3, <2>5
<1>11. CASE MarkProcessed(d)
  <2>1. drain'[d].pc = "cursor" /\ drain[d].pc = "mark"
    BY <1>1, <1>11, GoRow DEF MarkProcessed, At, Pcs, Sync
  <2>2. UNCHANGED <<threads, root, sent, told>> /\ processed' = processed \cup {e}
    BY <1>11 DEF MarkProcessed
  <2>3. \A x \in processed' : Routed(x)  BY <2>1, <2>2 DEF RouteInv
  <2>4. (\A x \in processed : Routed(x))'  BY <2>2, <2>3 DEF Routed
  <2>5. RouteRow(d)'  BY <2>1 DEF RouteRow
  <2> QED  BY <2>4, <2>5
<1> QED  BY <1>6, <1>7, <1>8, <1>9, <1>10, <1>11 DEF LineStep

-----------------------------------------------------------------------------
(* The files and what a run knows of them.                                  *)

FilesRow(d) ==
  /\ drain[d].pc \notin {"idle", "sweep", "unlink"} => DOMAIN rotated = {}
  /\ drain[d].pc \in Handling \cup {"next"} =>
       \A i \in 1..Len(drain[d].lines) :
          /\ cursor + i \in 1..Len(inbox)
          /\ drain[d].lines[i] = [event |-> inbox[cursor + i], end |-> cursor + i]
  /\ drain[d].pc = "cursor" => Event(d) \in processed
  /\ drain[d].pc = "rename" =>
       cursor = 0 /\ drain[d].at \in 1..Len(inbox) /\ Behind(inbox, drain[d].at)
  /\ drain[d].pc = "unlink" =>
       /\ drain[d].at \in DOMAIN rotated
       /\ write # Null => write.file # drain[d].at
       /\ \A e \in Events : Ahead(rotated[drain[d].at], drain[d].at, e) => InInbox(e)

LEMMA RowMoved ==
  ASSUME Alone, NEW d \in Drains, Moved(d), drain[d].pc # "idle", FilesRow(d)'
  PROVE  DrainInv'
<1>1. \A o \in Drains \ {d} : drain'[o].pc = "idle"  BY DEF Alone, Moved
<1>2. \A o \in Drains : FilesRow(o)'  BY <1>1 DEF FilesRow, Handling, Await
<1> QED  BY <1>2 DEF DrainInv, FilesRow

LEMMA FilesFacts ==
  ASSUME Types
  PROVE  /\ inbox \in Seq(Events) /\ Len(inbox) \in Nat /\ cursor \in Nat
         /\ \A n \in DOMAIN rotated : n \in Nat /\ rotated[n] \in Seq(Events)
         /\ write # Null => write.event \in Events /\ write.file \in Nat
         /\ processed \subseteq Events /\ seen \subseteq Events
         /\ slack \in [Events -> {"unsent", "offered", "acked"}]
         /\ drain \in [Drains -> DrainRow]
BY TypesSplit DEF Types, StoreTypes

(* A file that grows keeps what is ahead of and behind a line of it.         *)
Grows(s, t) == Len(s) <= Len(t) /\ \A i \in 1..Len(s) : t[i] = s[i]

LEMMA GrownFile ==
  ASSUME NEW s \in Seq(Events), NEW t \in Seq(Events), Grows(s, t), NEW n \in 0..Len(s)
  PROVE  /\ \A e : Ahead(s, n, e) => Ahead(t, n, e)
         /\ Behind(s, n) => Behind(t, n)
BY DEF Grows, Ahead, Behind

(* Steps that leave the files alone.                                        *)
LEMMA FilesSame ==
  ASSUME FilesInv, UNCHANGED <<inbox, cursor, rotated>>, processed \subseteq processed',
         write' # Null => write'.file = 0 \/ write' = write,
         \A e \in Events : slack'[e] = "acked" \/ e \in seen' =>
            slack[e] = "acked" \/ e \in seen \/ Kept(e)
  PROVE  FilesInv'
<1>1. \A e : Kept(e) => Kept(e)'  BY DEF Kept, InInbox, Ahead
<1>2. \A e \in Events : slack'[e] = "acked" \/ e \in seen' => Kept(e)'
  BY <1>1 DEF FilesInv
<1> QED  BY <1>2 DEF FilesInv, Behind

LEMMA RowsSame ==
  ASSUME Types, FilesInv, DrainInv,
         UNCHANGED <<inbox, cursor, rotated, processed>>,
         write' # Null => write'.file = 0 \/ write' = write,
         \A d \in Drains : /\ drain'[d].pc = drain[d].pc /\ drain'[d].lines = drain[d].lines
                           /\ drain'[d].at = drain[d].at
  PROVE  DrainInv'
<1> SUFFICES ASSUME NEW d \in Drains PROVE FilesRow(d)'
  BY DEF DrainInv, FilesRow
<1>1. FilesRow(d)  BY DEF DrainInv, FilesRow
<1>2. drain[d].pc = "unlink" => drain[d].at # 0
  BY <1>1, FilesFacts DEF FilesRow, FilesInv
<1> QED  BY <1>1, <1>2 DEF FilesRow, Event, InInbox, Ahead, Behind

LEMMA WriteLineFiles ==
  ASSUME Types, FilesInv, DrainInv, WriteLine
  PROVE  FilesInv' /\ DrainInv'
<1>0. PICK ev \in Events : ev = write.event  BY FilesFacts DEF WriteLine
<1>1. /\ write # Null /\ ev \in Events /\ write.file \in Nat /\ write' = Null
      /\ seen' = seen \cup {ev} /\ UNCHANGED <<cursor, processed, drain>>
  BY <1>0, FilesFacts DEF WriteLine, map
<1>2. \A e \in Events : slack'[e] = "acked" => slack[e] = "acked" \/ e = ev
  BY <1>0, FilesFacts DEF WriteLine
<1>3. SUFFICES /\ cursor \in 0..Len(inbox') /\ Behind(inbox', cursor)
               /\ \A n \in DOMAIN rotated' : n \in 1..Len(rotated'[n]) /\ Behind(rotated'[n], n)
               /\ Kept(ev)' /\ \A e : Kept(e) => Kept(e)'
               /\ \A d \in Drains : FilesRow(d)'
  <2>1. \A e \in Events : slack'[e] = "acked" \/ e \in seen' => Kept(e)'
    BY <1>1, <1>2, <1>3 DEF FilesInv
  <2> QED  BY <1>1, <1>3, <2>1 DEF FilesInv, DrainInv, FilesRow, Behind
<1>4. \A d \in Drains : FilesRow(d)  BY DEF DrainInv, FilesRow
<1>5. CASE write.file = 0
  <2>1. rotated' = rotated /\ inbox' = Append(inbox, ev)  BY <1>5, <1>0 DEF WriteLine
  <2>2. /\ inbox' \in Seq(Events) /\ Grows(inbox, inbox') /\ Len(inbox') = Len(inbox) + 1
        /\ inbox'[Len(inbox) + 1] = ev
    BY <1>1, <2>1, FilesFacts, AppendProperties DEF Grows
  <2>3. cursor \in 0..Len(inbox) /\ Len(inbox) \in Nat  BY FilesFacts DEF FilesInv
  <2>4. /\ \A e : Ahead(inbox, cursor, e) => Ahead(inbox', cursor, e)
        /\ Behind(inbox', cursor)
    BY <2>2, <2>3, FilesFacts, GrownFile DEF FilesInv
  <2>5. Ahead(inbox', cursor, ev)  BY <2>2, <2>3 DEF Ahead
  <2>6. \A e : InInbox(e) => InInbox(e)'  BY <1>1, <2>4 DEF InInbox
  <2>7. Kept(ev)' /\ \A e : Kept(e) => Kept(e)'
    BY <1>1, <2>1, <2>5, <2>6 DEF Kept, InInbox
  <2>8. ASSUME NEW d \in Drains PROVE FilesRow(d)'
    <3>1. FilesRow(d)  BY <1>4
    <3>2. drain[d].pc = "rename" => Behind(inbox', drain[d].at)
      BY <2>2, <3>1, FilesFacts, GrownFile DEF FilesRow
    <3>3. \A i : cursor + i \in 1..Len(inbox) =>
            cursor + i \in 1..Len(inbox') /\ inbox'[cursor + i] = inbox[cursor + i]
      BY <2>2, <2>3 DEF Grows
    <3>4. drain[d].at \in 1..Len(inbox) => drain[d].at \in 1..Len(inbox')
      BY <2>2, <2>3
    <3> QED
      BY <1>1, <2>1, <2>6, <3>1, <3>2, <3>3, <3>4 DEF FilesRow, Event, Behind
  <2> QED  BY <1>1, <2>1, <2>2, <2>3, <2>4, <2>7, <2>8 DEF FilesInv, Behind
<1>6. CASE write.file # 0
  <2>1. PICK n \in DOMAIN rotated : n = write.file  BY <1>1, <1>6 DEF FilesInv
  <2>2. inbox' = inbox /\ rotated' = [rotated EXCEPT ![n] = Append(@, ev)]
    BY <1>6, <1>0, <2>1 DEF WriteLine
  <2>3. /\ DOMAIN rotated' = DOMAIN rotated /\ rotated'[n] = Append(rotated[n], ev)
        /\ \A m \in DOMAIN rotated \ {n} : rotated'[m] = rotated[m]
    BY <2>1, <2>2
  <2>4. rotated[n] \in Seq(Events) /\ n \in 1..Len(rotated[n]) /\ Behind(rotated[n], n)
    BY <2>1, FilesFacts DEF FilesInv
  <2>5. /\ rotated'[n] \in Seq(Events) /\ Grows(rotated[n], rotated'[n])
        /\ Len(rotated'[n]) = Len(rotated[n]) + 1 /\ rotated'[n][Len(rotated[n]) + 1] = ev
    BY <1>1, <2>3, <2>4, AppendProperties DEF Grows
  <2>6. /\ n \in 1..Len(rotated'[n]) /\ Behind(rotated'[n], n)
        /\ \A e : Ahead(rotated[n], n, e) => Ahead(rotated'[n], n, e)
    BY <2>4, <2>5, GrownFile
  <2>7. Ahead(rotated'[n], n, ev)  BY <2>4, <2>5 DEF Ahead
  <2>8. \A e : InInbox(e)' <=> InInbox(e)  BY <1>1, <2>2 DEF InInbox, Ahead
  <2>9. Kept(ev)' /\ \A e : Kept(e) => Kept(e)'
    BY <2>1, <2>3, <2>6, <2>7, <2>8 DEF Kept
  <2>10. ASSUME NEW d \in Drains PROVE FilesRow(d)'
    <3>1. FilesRow(d)  BY <1>4
    <3>2. drain[d].pc = "unlink" => drain[d].at # n  BY <1>1, <2>1, <3>1 DEF FilesRow
    <3> QED  BY <1>1, <2>2, <2>3, <2>8, <3>1, <3>2 DEF FilesRow, Event, Behind
  <2>11. \A m \in DOMAIN rotated' : m \in 1..Len(rotated'[m]) /\ Behind(rotated'[m], m)
    BY <2>3, <2>6 DEF FilesInv
  <2> QED  BY <1>1, <2>2, <2>9, <2>10, <2>11 DEF FilesInv, Behind
<1> QED  BY <1>5, <1>6

LEMMA WorldFiles ==
  ASSUME Types, FilesInv, DrainInv,
         \/ UNCHANGED vars
         \/ \E e \in Events : Say(e) \/ Drop(e) \/ OpenInbox(e)
         \/ StartListener \/ WriteLine \/ ListenerDies
         \/ \E p \in Posts : Registers(p) \/ Goes(p) \/ Deadline(p) \/ Answered(p)
  PROVE  FilesInv' /\ DrainInv'
<1>1. ASSUME UNCHANGED <<inbox, cursor, rotated, processed, drain>>,
             write' # Null => write'.file = 0 \/ write' = write,
             \A e \in Events : slack'[e] = "acked" \/ e \in seen' =>
                slack[e] = "acked" \/ e \in seen \/ Kept(e)
      PROVE  FilesInv' /\ DrainInv'
  BY <1>1, FilesSame, RowsSame
<1>2. CASE UNCHANGED vars
  BY <1>1, <1>2 DEF vars, listener, files, map
<1>3. ASSUME NEW e \in Events, Say(e) \/ Drop(e) \/ OpenInbox(e) PROVE FilesInv' /\ DrainInv'
  <2>1. UNCHANGED <<inbox, cursor, rotated, processed, drain, seen>>
    BY <1>3 DEF Say, Drop, OpenInbox, listener, files, map
  <2>2. write' # Null => write'.file = 0 \/ write' = write
    BY <1>3 DEF Say, Drop, OpenInbox, listener
  <2>3. \A x \in Events : slack'[x] = "acked" => slack[x] = "acked" \/ x \in seen
    BY <1>3, FilesFacts DEF Say, Drop, OpenInbox
  <2> QED  BY <1>1, <2>1, <2>2, <2>3
<1>4. CASE StartListener
  <2>1. UNCHANGED <<inbox, cursor, rotated, processed, drain, write, slack>>
        /\ seen' = {inbox[i] : i \in 1..Len(inbox)}
    BY <1>4 DEF StartListener, files, map
  <2>2. ASSUME NEW i \in 1..Len(inbox) PROVE Kept(inbox[i])
    <3>1. CASE i \in 1..cursor  BY <3>1 DEF FilesInv, Behind, Kept, InInbox
    <3>2. CASE i \in (cursor + 1)..Len(inbox)  BY <3>2 DEF Kept, InInbox, Ahead
    <3> QED  BY <3>1, <3>2, FilesFacts
  <2> QED  BY <1>1, <2>1, <2>2
<1>5. CASE ListenerDies
  <2>1. UNCHANGED <<inbox, cursor, rotated, processed, drain, slack>> /\ write' = Null /\ seen' = {}
    BY <1>5 DEF ListenerDies, files, map
  <2> QED  BY <1>1, <2>1
<1>6. ASSUME NEW p \in Posts, Registers(p) \/ Goes(p) \/ Deadline(p) \/ Answered(p)
      PROVE  FilesInv' /\ DrainInv'
  BY <1>1, <1>6 DEF Registers, Goes, Deadline, Answered, Settles, listener, files, map
<1> QED  BY <1>2, <1>3, <1>4, <1>5, <1>6, WriteLineFiles

LEMMA RunFiles ==
  ASSUME Types, FilesInv, DrainInv, ~overlap',
         (\E d \in Drains : Start(d) \/ Abort(d)) \/ DaemonDies
  PROVE  FilesInv' /\ DrainInv'
<1>1. drain \in [Drains -> DrainRow]  BY FilesFacts
<1>2. ASSUME NEW d \in Drains, Start(d) PROVE FilesInv' /\ DrainInv'
  <2>1. Moved(d) /\ drain'[d].pc = "sweep"  BY <1>1, <1>2, GoRow DEF Start, Pcs, Sync
  <2>2. \A o \in Drains : drain[o].pc = "idle"  BY <1>2 DEF Start
  <2>3. DrainInv'
    <3>1. \A o \in Drains : drain'[o].pc \in {"idle", "sweep"}  BY <2>1, <2>2 DEF Moved
    <3> QED  BY <3>1 DEF DrainInv, Handling, Await
  <2>4. UNCHANGED <<inbox, cursor, rotated, processed, write, seen, slack>>
    BY <1>2 DEF Start, files, listener, map
  <2> QED  BY <2>3, <2>4, FilesSame
<1>3. ASSUME NEW d \in Drains, Abort(d) PROVE FilesInv' /\ DrainInv'
  <2>1. \A o \in Drains : /\ drain'[o].pc = drain[o].pc /\ drain'[o].lines = drain[o].lines
                          /\ drain'[o].at = drain[o].at
    BY <1>1, <1>3 DEF Abort, DrainRow
  <2>2. UNCHANGED <<inbox, cursor, rotated, processed, write, seen, slack>>
    BY <1>3 DEF Abort, files, listener, map
  <2> QED  BY <2>1, <2>2, FilesSame, RowsSame
<1>4. CASE DaemonDies
  <2>1. \A d \in Drains : drain'[d].pc = "idle"  BY <1>4, IdleRow DEF DaemonDies
  <2>2. DrainInv'  BY <2>1 DEF DrainInv, Handling, Await
  <2>3. UNCHANGED <<inbox, cursor, rotated, processed, slack>> /\ write' = Null /\ seen' = {}
    BY <1>4 DEF DaemonDies, files, map
  <2> QED  BY <2>2, <2>3, FilesSame
<1> QED  BY <1>2, <1>3, <1>4

(* A run deals with the lines behind the cursor in their order.              *)
LEMMA LineFiles ==
  ASSUME Types, Alone, FilesInv, DrainInv, NEW d \in Drains, LineStep(d)
  PROVE  FilesInv' /\ DrainInv'
<1>1. /\ UNCHANGED <<inbox, cursor, rotated, write, seen, slack>> /\ processed \subseteq processed'
      /\ drain[d].pc \in Handling \cup {"next"} /\ drain[d].pc # "idle"
  BY DEF LineStep, HandlePost, Handles, Spawn, Found, NotFound, Opened, HandleReply, FindTarget,
    Commit, Collide, Refused, Fails, RecordRoot, RecordThread, Hinted, MarkProcessed, At,
    files, listener, map, Handling, Await
<1>2. FilesInv'  BY <1>1, FilesSame
<1>3. Moved(d)  BY LineTypes
<1>4. \/ drain'[d].pc \in {"idle", "rotate"}
      \/ drain'[d].lines = drain[d].lines /\ drain'[d].pc \in Handling
  BY StepsOnward, WayOnward DEF LineStep, Onward, Handling, Await
<1>5. drain'[d].pc = "cursor" => drain'[d].lines = drain[d].lines /\ Event(d) \in processed'
  <2>1. CASE MarkProcessed(d)  BY <2>1, <1>4 DEF MarkProcessed
  <2>2. CASE ~MarkProcessed(d)
    <3>1. drain'[d].pc # "cursor"
      BY <2>2, StepsOnward, WayOnward DEF LineStep, Onward
    <3> QED  BY <3>1
  <2> QED  BY <2>1, <2>2
<1>6. FilesRow(d)  BY DEF DrainInv, FilesRow
<1>7. DOMAIN rotated = {}  BY <1>1, <1>6 DEF FilesRow, Handling, Await
<1>8. FilesRow(d)'
  <2>1. CASE drain'[d].pc \in {"idle", "rotate"}
    BY <1>1, <1>7, <2>1 DEF FilesRow, Handling, Await
  <2>2. CASE drain'[d].lines = drain[d].lines /\ drain'[d].pc \in Handling
    <3>1. Event(d)' = Event(d)  BY <2>2 DEF Event
    <3>2. drain'[d].pc \notin {"rename", "unlink"}  BY <2>2 DEF Handling, Await
    <3> QED  BY <1>1, <1>5, <1>6, <1>7, <2>2, <3>1, <3>2 DEF FilesRow
  <2> QED  BY <1>4, <2>1, <2>2
<1> QED  BY <1>1, <1>2, <1>3, <1>8, RowMoved

(* What is left of a file behind its first n lines, and what a file gains.   *)
LEMMA LeftPart ==
  ASSUME NEW s \in Seq(Events), NEW n \in Nat, NEW i \in (n + 1)..Len(s)
  PROVE  /\ i - n \in 1..Len(SubSeq(s, n + 1, Len(s)))
         /\ SubSeq(s, n + 1, Len(s))[i - n] = s[i]
<1>1. PICK l \in Nat : l = Len(s)  OBVIOUS
<1>2. i \in (n + 1)..l  BY <1>1
<1>3. /\ n + 1 <= l /\ i - n \in 1..(l - n) /\ l - (n + 1) + 1 = l - n
      /\ n + 1 \in Int /\ l \in Int /\ (n + 1) + (i - n) - 1 = i
  BY <1>2
<1>4. \A j \in (n + 1)..l : s[j] \in Events  BY <1>1
<1>5. /\ Len(SubSeq(s, n + 1, l)) = IF n + 1 <= l THEN l - (n + 1) + 1 ELSE 0
      /\ \A j \in 1..(l - (n + 1) + 1) : SubSeq(s, n + 1, l)[j] = s[(n + 1) + j - 1]
  BY <1>3, <1>4, SubSeqProperties
<1>6. SubSeq(s, n + 1, l)[i - n] = s[(n + 1) + (i - n) - 1]  BY <1>3, <1>5
<1> QED  BY <1>1, <1>3, <1>5, <1>6

LEMMA AddedPart ==
  ASSUME NEW s \in Seq(Events), NEW t \in Seq(Events), NEW k \in 1..Len(t)
  PROVE  /\ Len(s) + k \in (Len(s) + 1)..Len(s \o t)
         /\ (s \o t)[Len(s) + k] = t[k]
<1>1. PICK l \in Nat, m \in Nat : l = Len(s) /\ m = Len(t)  OBVIOUS
<1>2. k \in 1..m  BY <1>1
<1>3. l + k \in (l + 1)..(l + m) /\ l + k \in 1..(l + m) /\ ~(l + k <= l) /\ (l + k) - l = k
  BY <1>2
<1>4. /\ Len(s \o t) = l + m
      /\ \A i \in 1..(l + m) : (s \o t)[i] = IF i <= l THEN s[i] ELSE t[i - l]
  BY <1>1, ConcatProperties
<1>5. (s \o t)[l + k] = t[(l + k) - l]  BY <1>3, <1>4
<1> QED  BY <1>1, <1>3, <1>4, <1>5

(* What a rotated file still has to give is in the inbox before it goes.     *)
LEMMA SweepFiles ==
  ASSUME Types, Alone, FilesInv, DrainInv, NEW d \in Drains, Sweep(d) \/ Unlink(d)
  PROVE  FilesInv' /\ DrainInv'
<1>1. Moved(d) /\ drain[d].pc \in {"sweep", "unlink"}  BY FilesRows DEF Sweep, Unlink, At
<1>2. CASE Sweep(d)
  <2>1. PICK n \in DOMAIN rotated : n = drain'[d].at  BY <1>2, FilesRows
  <2>2. /\ drain'[d].pc = "unlink" /\ inbox' = inbox \o Salvaged(n)
        /\ write # Null => write.file # n
        /\ UNCHANGED <<cursor, rotated, processed, write, seen, slack>>
    BY <1>2, <2>1, FilesRows DEF Sweep, listener, map
  <2>3. /\ inbox \in Seq(Events) /\ Salvaged(n) \in Seq(Events) /\ n \in Nat
        /\ rotated[n] \in Seq(Events) /\ inbox' \in Seq(Events)
    BY <2>2, SalvagedSeq, TypesSplit DEF Types
  <2>4. Len(inbox') = Len(inbox) + Len(Salvaged(n)) /\ Grows(inbox, inbox')
    BY <2>2, <2>3, ConcatProperties DEF Grows
  <2>5. ASSUME NEW e, Ahead(rotated[n], n, e) PROVE Ahead(inbox', cursor, e)
    <3>1. PICK i \in (n + 1)..Len(rotated[n]) : rotated[n][i] = e  BY <2>5 DEF Ahead
    <3>2. i - n \in 1..Len(Salvaged(n)) /\ Salvaged(n)[i - n] = e
      BY <2>3, <3>1, LeftPart DEF Salvaged
    <3>3. PICK k \in 1..Len(Salvaged(n)) : Salvaged(n)[k] = e  BY <3>2
    <3>4. Len(inbox) + k \in (Len(inbox) + 1)..Len(inbox') /\ inbox'[Len(inbox) + k] = e
      BY <2>2, <2>3, <3>3, AddedPart
    <3>5. cursor \in 0..Len(inbox) /\ Len(inbox) \in Nat /\ Len(inbox') \in Nat
      BY <2>3 DEF FilesInv
    <3>6. Len(inbox) + k \in (cursor + 1)..Len(inbox')  BY <3>4, <3>5
    <3> QED  BY <3>4, <3>6 DEF Ahead
  <2>6. cursor \in 0..Len(inbox')  BY <2>3, <2>4 DEF FilesInv
  <2>7. /\ \A e : Ahead(inbox, cursor, e) => Ahead(inbox', cursor, e)
        /\ Behind(inbox', cursor)
    BY <2>3, <2>4, GrownFile DEF FilesInv
  <2>8. \A e : Kept(e) => Kept(e)'  BY <2>2, <2>7 DEF Kept, InInbox
  <2>9. FilesInv'  BY <2>2, <2>6, <2>7, <2>8 DEF FilesInv, Behind
  <2>10. FilesRow(d)'
    BY <2>1, <2>2, <2>5 DEF FilesRow, Handling, Await, InInbox
  <2> QED  BY <1>1, <2>9, <2>10, RowMoved
<1>3. CASE Unlink(d)
  <2>1. PICK n \in DOMAIN rotated : n = drain[d].at
    BY <1>3 DEF Unlink, At, DrainInv
  <2>2. /\ write # Null => write.file # n
        /\ \A e \in Events : Ahead(rotated[n], n, e) => InInbox(e)
    BY <1>3, <2>1 DEF Unlink, At, DrainInv
  <2>3. /\ drain'[d].pc = "sweep" /\ DOMAIN rotated' = DOMAIN rotated \ {n}
        /\ \A m \in DOMAIN rotated' : rotated'[m] = rotated[m]
        /\ UNCHANGED <<inbox, cursor, processed, write, seen, slack>>
    BY <1>3, <2>1, FilesRows DEF Unlink, listener, map
  <2>4. \A e \in Events : Kept(e) => Kept(e)'
    BY <2>2, <2>3 DEF Kept, InInbox
  <2>5. FilesInv'  BY <2>2, <2>3, <2>4 DEF FilesInv, Behind
  <2>6. FilesRow(d)'  BY <2>3 DEF FilesRow, Handling, Await
  <2> QED  BY <1>1, <2>5, <2>6, RowMoved
<1> QED  BY <1>2, <1>3

LEMMA ReadFiles ==
  ASSUME Types, Alone, FilesInv, DrainInv, NEW d \in Drains, ReadPending(d) \/ GiveUp(d)
  PROVE  FilesInv' /\ DrainInv'
<1>1. /\ Moved(d) /\ drain[d].pc # "idle"
      /\ UNCHANGED <<inbox, cursor, rotated, processed, write, seen, slack>>
  BY FilesRows DEF ReadPending, GiveUp, At, files, listener, map
<1>2. FilesInv'  BY <1>1, FilesSame
<1>3. CASE GiveUp(d)
  <2>1. drain'[d].pc = "idle"  BY <1>3, FilesRows
  <2>2. FilesRow(d)'  BY <2>1 DEF FilesRow, Handling, Await
  <2> QED  BY <1>1, <1>2, <2>2, RowMoved
<1>4. CASE ReadPending(d)
  <2>1. /\ drain'[d].pc = "next" /\ drain'[d].lines = Pending
        /\ DOMAIN rotated = {} /\ cursor \in 0..Len(inbox) /\ Len(inbox) \in Nat
    BY <1>4, FilesRows, FilesFacts DEF ReadPending, FilesInv
  <2>2. Position = cursor  BY <2>1 DEF Position
  <2>3. /\ Len(Pending) = Len(inbox) - cursor
        /\ \A i \in 1..(Len(inbox) - cursor) :
              Pending[i] = [event |-> inbox[cursor + i], end |-> cursor + i]
    BY <2>1, <2>2 DEF Pending
  <2>4. FilesRow(d)'
    BY <1>1, <2>1, <2>3 DEF FilesRow, Handling, Await
  <2> QED  BY <1>1, <1>2, <2>4, RowMoved
<1> QED  BY <1>3, <1>4

LEMMA CursorFiles ==
  ASSUME Types, Alone, FilesInv, DrainInv, NEW d \in Drains, WriteCursor(d)
  PROVE  FilesInv' /\ DrainInv'
<1>1. /\ Moved(d) /\ drain[d].pc \in Handling \cup {"next"} /\ drain[d].pc # "idle"
      /\ drain'[d].pc = "next" /\ drain[d].lines # <<>> /\ drain'[d].lines = Tail(drain[d].lines)
      /\ UNCHANGED <<inbox, rotated, processed, write, seen, slack>>
      /\ cursor' = Head(drain[d].lines).end
  BY FilesRows DEF WriteCursor, At, listener, map, Handling
<1>2. /\ inbox \in Seq(Events) /\ cursor \in 0..Len(inbox) /\ Len(inbox) \in Nat
      /\ drain[d].lines \in Seq(Line)
  BY FilesFacts, RowFields DEF FilesInv
<1> DEFINE s == drain[d].lines
<1>3. \A i \in 1..Len(s) : /\ cursor + i \in 1..Len(inbox)
                           /\ s[i] = [event |-> inbox[cursor + i], end |-> cursor + i]
  BY <1>1 DEF DrainInv
<1>4. Event(d) \in processed
  <2>1. drain[d].pc = "cursor" \/ Event(d) \in processed  BY DEF WriteCursor, At
  <2>2. drain[d].pc = "cursor" => Event(d) \in processed  BY DEF DrainInv
  <2> QED  BY <2>1, <2>2
<1>5. Head(s) = s[1] /\ 1 \in 1..Len(s)  BY <1>1, <1>2
<1>6. cursor' = cursor + 1 /\ inbox[cursor + 1] \in processed /\ cursor + 1 \in 1..Len(inbox)
  <2>1. Head(s) = [event |-> inbox[cursor + 1], end |-> cursor + 1] /\ cursor + 1 \in 1..Len(inbox)
    BY <1>3, <1>5
  <2>2. Head(s).event = inbox[cursor + 1] /\ Head(s).end = cursor + 1  BY <2>1
  <2>3. Head(s).event \in processed  BY <1>4 DEF Event
  <2>4. cursor' = Head(s).end  BY <1>1
  <2> QED  BY <2>1, <2>2, <2>3, <2>4
<1>7. Behind(inbox, cursor + 1)
  BY <1>2, <1>6 DEF FilesInv, Behind
<1>8. \A e : Kept(e) => Kept(e)'
  <2>1. ASSUME NEW e, Ahead(inbox, cursor, e) PROVE e \in processed \/ Ahead(inbox, cursor + 1, e)
    BY <1>2, <1>6, <2>1 DEF Ahead
  <2> QED  BY <1>1, <1>6, <2>1 DEF Kept, InInbox
<1>9. FilesInv'  BY <1>1, <1>2, <1>6, <1>7, <1>8 DEF FilesInv, Behind
<1>10. FilesRow(d)'
  <2>1. DOMAIN rotated = {}  BY <1>1 DEF DrainInv, Handling, Await
  <2>2. ASSUME NEW i \in 1..Len(Tail(s))
        PROVE  /\ (cursor + 1) + i \in 1..Len(inbox)
               /\ Tail(s)[i] = [event |-> inbox[(cursor + 1) + i], end |-> (cursor + 1) + i]
    <3>1. Tail(s)[i] = s[i + 1] /\ i + 1 \in 1..Len(s)
      BY <1>1, <1>2, HeadTailProperties
    <3>2. cursor + (i + 1) = (cursor + 1) + i  BY <1>2
    <3> QED  BY <1>3, <3>1, <3>2
  <2> QED  BY <1>1, <1>6, <2>1, <2>2 DEF FilesRow, Handling, Await
<1> QED  BY <1>1, <1>9, <1>10, RowMoved

(* The cursor goes back to the start before the name goes.                   *)
LEMMA RotateFiles ==
  ASSUME Types, Alone, FilesInv, DrainInv, NEW d \in Drains, Rotate(d) \/ Rename(d)
  PROVE  FilesInv' /\ DrainInv'
<1>1. Moved(d) /\ drain[d].pc # "idle" /\ inbox \in Seq(Events) /\ cursor \in 0..Len(inbox)
      /\ Len(inbox) \in Nat /\ DOMAIN rotated = {}
  BY FilesRows, FilesFacts DEF Rotate, Rename, At, FilesInv, DrainInv
<1>2. CASE Rotate(d)
  <2>1. UNCHANGED <<inbox, rotated, processed, write, seen, slack>>
    BY <1>2 DEF Rotate, listener, map
  <2>2. CASE cursor' = cursor /\ drain'[d].pc = "idle"
    <3>1. FilesInv'  BY <2>1, <2>2, FilesSame
    <3>2. FilesRow(d)'  BY <2>2 DEF FilesRow, Handling, Await
    <3> QED  BY <1>1, <3>1, <3>2, RowMoved
  <2>3. CASE /\ inbox # <<>> /\ Position = Len(inbox) /\ cursor' = 0
             /\ drain'[d].pc = "rename" /\ drain'[d].at = Len(inbox)
    <3>1. cursor = Len(inbox) /\ Len(inbox) # 0 /\ Behind(inbox, Len(inbox))
      BY <1>1, <2>3 DEF Position, FilesInv
    <3>2. \A e : Kept(e) => Kept(e)'
      <4>1. \A e : Ahead(inbox, cursor, e) => Ahead(inbox, 0, e)  BY <1>1 DEF Ahead
      <4> QED  BY <2>1, <2>3, <4>1 DEF Kept, InInbox
    <3>3. FilesInv'  BY <1>1, <2>1, <2>3, <3>2 DEF FilesInv, Behind
    <3>4. FilesRow(d)'
      BY <1>1, <2>1, <2>3, <3>1 DEF FilesRow, Handling, Await, Behind
    <3> QED  BY <1>1, <3>3, <3>4, RowMoved
  <2> QED  BY <1>2, <2>2, <2>3, FilesRows
<1>3. CASE Rename(d)
  <2>1. PICK n \in 1..Len(inbox) : n = drain[d].at /\ Behind(inbox, n) /\ cursor = 0
    BY <1>3 DEF Rename, At, DrainInv
  <2>2. /\ rotated' = SetAside(n) /\ inbox' = <<>> /\ drain'[d].pc = "idle"
        /\ UNCHANGED <<cursor, processed, seen, slack>>
        /\ write' = IF write # Null /\ write.file = 0 THEN [write EXCEPT !.file = n] ELSE write
    BY <1>3, <2>1, FilesRows DEF Rename, map
  <2>3. DOMAIN rotated' = {n} /\ rotated'[n] = inbox  BY <1>1, <2>2 DEF SetAside
  <2>4. write' # Null => write'.file = n
    <3>1. CASE write = Null  BY <2>2, <3>1
    <3>2. CASE write # Null
      <4>1. write.file = 0 /\ write \in [event : Events, file : Nat]
        BY <1>1, <3>2, TypesSplit DEF FilesInv, Types, StoreTypes
      <4> QED  BY <2>1, <2>2, <3>2, <4>1
    <3> QED  BY <3>1, <3>2
  <2>5. ASSUME NEW e, Kept(e) PROVE Kept(e)'
    <3>1. e \in processed \/ Ahead(inbox, 0, e)  BY <1>1, <2>1, <2>5 DEF Kept, InInbox
    <3>2. Ahead(inbox, 0, e) => e \in processed \/ Ahead(inbox, n, e)
      BY <1>1, <2>1 DEF Ahead, Behind
    <3> QED  BY <2>2, <2>3, <3>1, <3>2 DEF Kept, InInbox
  <2>6. FilesInv'
    <3>1. cursor' \in 0..Len(inbox') /\ Behind(inbox, cursor)'
      BY <2>1, <2>2 DEF Behind
    <3> QED  BY <1>1, <2>1, <2>2, <2>3, <2>4, <2>5, <3>1 DEF FilesInv, Behind
  <2>7. FilesRow(d)'  BY <2>2 DEF FilesRow, Handling, Await
  <2> QED  BY <1>1, <2>6, <2>7, RowMoved
<1> QED  BY <1>2, <1>3

-----------------------------------------------------------------------------
(* The theorems.                                                            *)

LEMMA InitInv == ASSUME Init PROVE IInv
<1>1. Types  BY InitTypes
<1>2. LaunchInv  BY DEF Init, LaunchInv, Idle
<1>3. \A d \in Drains : drain[d].pc = "idle"  BY IdleRow DEF Init
<1>4. Alone /\ RouteInv /\ DrainInv
  BY <1>3 DEF Init, Alone, RouteInv, DrainInv, Handling, Await
<1>5. FilesInv  BY SlackAssumption DEF Init, FilesInv, Behind
<1> QED  BY <1>1, <1>2, <1>4, <1>5 DEF IInv, OneRunInv

LEMMA OverlapStays == ASSUME [Next]_vars, overlap PROVE overlap'
<1>1. CASE UNCHANGED vars  BY <1>1 DEF vars, history
<1>2. ASSUME NEW e \in Events, Say(e) \/ Drop(e) \/ OpenInbox(e) PROVE overlap'
  BY <1>2 DEF Say, Drop, OpenInbox, history
<1>3. CASE StartListener \/ WriteLine \/ ListenerDies \/ DaemonDies
  BY <1>3 DEF StartListener, WriteLine, ListenerDies, DaemonDies, history
<1>4. ASSUME NEW p \in Posts, Registers(p) \/ Goes(p) \/ Deadline(p) \/ Answered(p) PROVE overlap'
  BY <1>4 DEF Registers, Goes, Deadline, Answered, Settles, history
<1>5. ASSUME NEW d \in Drains, Start(d) \/ Abort(d) PROVE overlap'
  BY <1>5 DEF Start, Abort, history
<1>6. ASSUME NEW d \in Drains, LaneStep(d) PROVE overlap'
  <2>1. ASSUME \/ Sweep(d) \/ Unlink(d) \/ ReadPending(d) \/ GiveUp(d)
               \/ WriteCursor(d) \/ Rotate(d) \/ Rename(d)
        PROVE  overlap'
    BY <2>1 DEF Sweep, Unlink, ReadPending, GiveUp, WriteCursor, Rotate, Rename, history
  <2>2. ASSUME NEW p \in Posts, \/ HandlePost(d, p) \/ Spawn(d, p) \/ Found(d, p)
                                \/ NotFound(d, p) \/ Opened(d, p)
        PROVE  overlap'
    BY <2>2 DEF HandlePost, Spawn, Found, NotFound, Opened, history
  <2>3. ASSUME NEW r \in Replies, HandleReply(d, r) \/ FindTarget(d, r) PROVE overlap'
    BY <2>3 DEF HandleReply, FindTarget, history
  <2>4. ASSUME \/ Commit(d) \/ Collide(d) \/ Refused(d) \/ Fails(d) \/ RecordRoot(d)
               \/ RecordThread(d) \/ Hinted(d) \/ MarkProcessed(d)
        PROVE  overlap'
    BY <2>4 DEF Commit, Collide, Refused, Fails, RecordRoot, RecordThread, Hinted, MarkProcessed,
      history
  <2> QED  BY <1>6, <2>1, <2>2, <2>3, <2>4 DEF LaneStep
<1> QED  BY <1>1, <1>2, <1>3, <1>4, <1>5, <1>6 DEF Next

LEMMA NextInv == ASSUME IInv, [Next]_vars PROVE IInv'
<1>1. Types' /\ LaunchInv'  BY NextTypes, NextLaunch DEF IInv
<1>2. SUFFICES ASSUME ~overlap' PROVE OneRunInv'  BY <1>1 DEF IInv
<1>3. Types /\ Alone /\ RouteInv /\ FilesInv /\ DrainInv
  BY <1>2, OverlapStays DEF IInv, OneRunInv
<1>4. CASE \/ UNCHANGED vars
           \/ \E e \in Events : Say(e) \/ Drop(e) \/ OpenInbox(e)
           \/ StartListener \/ WriteLine \/ ListenerDies
           \/ \E p \in Posts : Registers(p) \/ Goes(p) \/ Deadline(p) \/ Answered(p)
  BY <1>3, <1>4, WorldRoute, WorldFiles DEF OneRunInv
<1>5. CASE (\E d \in Drains : Start(d) \/ Abort(d)) \/ DaemonDies
  BY <1>2, <1>3, <1>5, RunRoute, RunFiles DEF OneRunInv
<1>6. ASSUME NEW d \in Drains, \/ Sweep(d) \/ Unlink(d) \/ ReadPending(d) \/ GiveUp(d)
                               \/ WriteCursor(d) \/ Rotate(d) \/ Rename(d)
      PROVE  OneRunInv'
  <2>1. Alone' /\ RouteInv'  BY <1>3, <1>6, FilesRoute
  <2>2. FilesInv' /\ DrainInv'
    BY <1>3, <1>6, SweepFiles, ReadFiles, CursorFiles, RotateFiles
  <2> QED  BY <2>1, <2>2 DEF OneRunInv
<1>7. ASSUME NEW d \in Drains, LineStep(d) PROVE OneRunInv'
  BY <1>3, <1>7, LineRoute, LineFiles DEF OneRunInv
<1> QED  BY <1>4, <1>5, <1>6, <1>7 DEF Next, LaneStep, LineStep

LEMMA Inductive == Spec => []IInv
BY InitInv, NextInv, PTL DEF Spec

(* The variables keep their types, whatever dies.                           *)
THEOREM SlackTypes == Spec => []TypeOK
<1>1. IInv => TypeOK  BY DEF IInv, Types
<1> QED  BY <1>1, Inductive, PTL

(* However often a post is read again, it starts one session at most: the    *)
(* launch row of claimLaunch is written before the spawn.                    *)
THEOREM LaunchesOnce == Spec => []LaunchedOnce
<1>1. IInv => LaunchedOnce  BY DEF IInv, LaunchInv, LaunchedOnce
<1> QED  BY <1>1, Inductive, PTL

(* A message acknowledged to Slack is processed or will be read: appends,    *)
(* sweepRotated, writeCursor and rotateIfDrained lose no line between them.  *)
THEOREM LinesAreKept == Spec => []LinesKept
<1>1. ASSUME IInv, ~overlap PROVE \A e \in Events : slack[e] = "acked" =>
        \/ e \in processed
        \/ Ahead(inbox, Position, e)
        \/ \E n \in DOMAIN rotated : Ahead(rotated[n], n, e)
  <2>1. FilesInv /\ Types  BY <1>1 DEF IInv, OneRunInv
  <2>2. Position = cursor  BY <2>1, FilesFacts DEF FilesInv, Position
  <2> QED  BY <2>1, <2>2 DEF FilesInv, Kept, InInbox
<1>2. IInv => LinesKept  BY <1>1 DEF LinesKept
<1> QED  BY <1>2, Inductive, PTL

(* Done means routed: the root and the thread are written before the event   *)
(* is marked processed, or the owner was told (deliver).                     *)
THEOREM DoneMeansRouted == Spec => []DoneIsRouted
<1>1. IInv => DoneIsRouted  BY DEF IInv, OneRunInv, RouteInv, Routed, DoneIsRouted
<1> QED  BY <1>1, Inductive, PTL
=============================================================================
