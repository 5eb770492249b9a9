-------------------------- MODULE DaemonStartProofs --------------------------
(***************************************************************************)
(* What the lock file and the socket of the daemon promise, for any number  *)
(* of daemons whose starts and stops overlap in any way, die anywhere, and   *)
(* find whatever an earlier crash left behind.                              *)
(***************************************************************************)
EXTENDS DaemonStart, TLAPS

(* A process in acquireDaemonLock has met everybody who is in it or past it.  *)
EverybodyMet ==
  \A d \in alive : pc[d] \in Acquiring =>
     \A o \in alive \ {d} : pc[o] \in Acquiring \cup Owning => o \in met[d]

(* A live daemon whose lock file it is starts or has the lock, and has put its *)
(* pid into the file unless it is just about to.                             *)
LockIsInUse ==
  /\ lockFile \in alive => pc[lockFile] \in {"write", "rewrite", "verify"} \cup Owning
  /\ \A d \in alive : pc[d] \in {"verify"} \cup Owning => d \in written

(* The file of a live process that a start is about to remove as stale is that *)
(* of a process that has met it.                                             *)
RemoversWereMet ==
  \A d \in alive : pc[d] = "remove" /\ lockFile \in alive => d \in met[lockFile]

(* Who creates the lock a second time finds the file of nobody it has not met, *)
(* and whoever took its own away is one it has met.                          *)
OnlyRivals(d) == met[d] # {} /\ lockFile \in met[d] \cup {Null}
RivalsWereMet ==
  \A d \in alive :
     /\ pc[d] = "recreate" => lockFile = Null \/ OnlyRivals(d)
     /\ pc[d] \in {"rewrite", "verify"} => lockFile = d \/ OnlyRivals(d)

(* Who does not look at its lock file any more has it.                       *)
LockIsKept ==
  displaced \/ \A d \in alive : pc[d] \in NotLooking => lockFile = d

IInv == TypeOK /\ EverybodyMet /\ LockIsInUse /\ RemoversWereMet /\ RivalsWereMet
           /\ LockIsKept /\ SocketKept

LEMMA LockExcludes == ASSUME IInv PROVE OneHolder
BY DEF IInv, LockIsKept, OneHolder, Holders, NotLooking

LEMMA InitInv == ASSUME Init PROVE IInv
BY DaemonAssumption DEF Init, IInv, TypeOK, EverybodyMet, LockIsInUse, RemoversWereMet,
  RivalsWereMet, LockIsKept, SocketKept, SocketReachesServer, Acquiring, Owning, NotLooking

-----------------------------------------------------------------------------
(* What the history says after a step.                                       *)
LEMMA Recorded ==
  ASSUME IInv, Record, alive' \subseteq alive
  PROVE  /\ EverybodyMet'
         /\ met' \in [Daemons -> SUBSET Daemons] /\ displaced' \in BOOLEAN
         /\ \A d \in Daemons : met[d] \subseteq met'[d]
         /\ displaced => displaced'
<1> USE DEF IInv, TypeOK, Record
<1>1. EverybodyMet'  BY DEF EverybodyMet
<1>2. met' \in [Daemons -> SUBSET Daemons]  OBVIOUS
<1>3. \A d \in Daemons : met[d] \subseteq met'[d]  OBVIOUS
<1> QED  BY <1>1, <1>2, <1>3

(* A start that removes the file of a live process which does not look any    *)
(* more has displaced it.                                                    *)
LEMMA Displacing ==
  ASSUME IInv, Record, NEW d \in alive, Removes(d), lockFile \in alive,
         pc[lockFile] \in NotLooking
  PROVE  displaced'
BY DEF IInv, Record, Removes, RemoversWereMet

(* A step that changes neither the lock nor who died: its own process d gets  *)
(* to where the lock it has found says.                                      *)
LEMMA SameLock ==
  ASSUME IInv, Record, NEW d \in alive, alive' = alive, lockFile' = lockFile,
         NEW p, pc' = [pc EXCEPT ![d] = p],
         p \in {"idle", "refused", "stopped"} \cup Acquiring \cup Owning,
         written' \in {written, written \cup {d}},
         p \in {"verify"} \cup Owning => d \in written',
         lockFile = d => p \in {"write", "rewrite", "verify"} \cup Owning,
         p = "remove" => ~HeldByLive,
         p \notin {"write", "recreate", "rewrite"},
         p = "verify" => pc[d] = "rewrite",
         p \in Owning => lockFile = d \/ pc[d] \in NotLooking
  PROVE  /\ EverybodyMet' /\ LockIsInUse' /\ RemoversWereMet' /\ RivalsWereMet'
         /\ LockIsKept'
<1>1. /\ EverybodyMet'
      /\ met' \in [Daemons -> SUBSET Daemons] /\ displaced' \in BOOLEAN
      /\ \A x \in Daemons : met[x] \subseteq met'[x]
      /\ displaced => displaced'
  BY Recorded
<1> USE DEF IInv, TypeOK
<1>2. LockIsInUse'  BY DEF LockIsInUse
<1>3. RemoversWereMet'
  <2> SUFFICES ASSUME NEW x \in alive, pc'[x] = "remove", lockFile \in alive
               PROVE  x \in met'[lockFile]
    BY DEF RemoversWereMet
  <2>1. CASE x # d
    BY <1>1, <2>1 DEF RemoversWereMet
  <2>2. CASE x = d
    <3>1. lockFile \notin written /\ lockFile # d
      BY <2>2 DEF HeldByLive, Owning
    <3>2. pc[lockFile] \in {"write", "rewrite"}
      BY <3>1 DEF LockIsInUse
    <3>3. pc'[lockFile] \in Acquiring /\ pc'[d] \in Acquiring
      BY <2>2, <3>1, <3>2 DEF Acquiring
    <3> QED  BY <1>1, <2>2, <3>1, <3>3 DEF EverybodyMet
  <2> QED  BY <2>1, <2>2
<1>4. RivalsWereMet'
  <2> SUFFICES ASSUME NEW x \in alive
               PROVE  /\ pc'[x] = "recreate" => lockFile = Null \/ OnlyRivals(x)'
                      /\ pc'[x] \in {"rewrite", "verify"} => lockFile = x \/ OnlyRivals(x)'
    BY DEF RivalsWereMet
  <2>1. OnlyRivals(x) => OnlyRivals(x)'  BY <1>1 DEF OnlyRivals
  <2> QED  BY <2>1 DEF RivalsWereMet
<1>5. LockIsKept'
  BY <1>1 DEF LockIsKept, NotLooking
<1> QED  BY <1>1, <1>2, <1>3, <1>4, <1>5

(* The file is created where there is none.                                  *)
LEMMA NewLock ==
  ASSUME IInv, Record, NEW d \in alive, alive' = alive, lockFile = Null, lockFile' = d,
         NEW p \in {"write", "rewrite"}, pc' = [pc EXCEPT ![d] = p], written' = written,
         pc[d] \in {"create", "recreate"}
  PROVE  /\ EverybodyMet' /\ LockIsInUse' /\ RemoversWereMet' /\ RivalsWereMet'
         /\ LockIsKept'
<1>1. /\ EverybodyMet'
      /\ met' \in [Daemons -> SUBSET Daemons] /\ displaced' \in BOOLEAN
      /\ \A x \in Daemons : met[x] \subseteq met'[x]
      /\ displaced => displaced'
  BY Recorded
<1> USE DaemonAssumption DEF IInv, TypeOK
<1>2. LockIsInUse'  BY DEF LockIsInUse, Owning
<1>3. p \in Acquiring /\ d \in Daemons  BY DEF Acquiring
<1>4. \A x \in alive \ {d} : pc'[x] \in Acquiring => d \in met'[x] /\ x \in met'[d]
  BY <1>1, <1>3 DEF EverybodyMet
<1>5. RemoversWereMet'  BY <1>4 DEF RemoversWereMet, Acquiring
<1>6. RivalsWereMet'  BY <1>4 DEF RivalsWereMet, OnlyRivals, Acquiring
<1>7. LockIsKept'  BY <1>1 DEF LockIsKept, NotLooking, Owning
<1> QED  BY <1>1, <1>2, <1>5, <1>6, <1>7

(* The path is cleared, by a start that took it for stale or by the release.   *)
LEMMA NoLock ==
  ASSUME IInv, Record, NEW d \in alive, alive' = alive, lockFile' = Null, written' = written,
         NEW p \in {"recreate", "stopped"}, pc' = [pc EXCEPT ![d] = p],
         p = "recreate" => pc[d] = "remove",
         p = "stopped" => pc[d] \in Owning
  PROVE  /\ EverybodyMet' /\ LockIsInUse' /\ RemoversWereMet' /\ RivalsWereMet'
         /\ LockIsKept'
<1>1. /\ EverybodyMet'
      /\ met' \in [Daemons -> SUBSET Daemons] /\ displaced' \in BOOLEAN
      /\ \A x \in Daemons : met[x] \subseteq met'[x]
      /\ displaced => displaced'
  BY Recorded
<1> USE DaemonAssumption DEF IInv, TypeOK
<1>2. LockIsInUse' /\ RemoversWereMet'  BY DEF LockIsInUse, RemoversWereMet, Owning
<1>3. RivalsWereMet'
  <2> SUFFICES ASSUME NEW x \in alive, pc'[x] \in {"rewrite", "verify"}
               PROVE  OnlyRivals(x)'
    BY DEF RivalsWereMet
  <2>1. x # d /\ pc[x] \in Acquiring /\ pc[d] \in Acquiring \cup Owning
    BY DEF Acquiring
  <2>2. d \in met[x]  BY <2>1 DEF EverybodyMet
  <2> QED  BY <1>1, <2>2 DEF OnlyRivals
<1>4. LockIsKept'
  <2> SUFFICES ASSUME ~displaced', NEW x \in alive, pc'[x] \in NotLooking
               PROVE  FALSE
    BY DEF LockIsKept
  <2>1. x # d /\ pc[x] \in NotLooking /\ lockFile = x
    BY <1>1 DEF LockIsKept, NotLooking, Owning
  <2>2. CASE p = "recreate"
    BY <2>1, <2>2, Displacing DEF Removes
  <2>3. CASE p = "stopped"
    BY <1>1, <2>1, <2>3 DEF LockIsKept, NotLooking
  <2> QED  BY <2>2, <2>3
<1> QED  BY <1>1, <1>2, <1>3, <1>4

-----------------------------------------------------------------------------
(* The system calls on the lock file.                                        *)
LEMMA LockInv ==
  ASSUME IInv, Record, NEW d \in Daemons, Acquire(d)
  PROVE  IInv'
<1>1. /\ EverybodyMet' /\ LockIsInUse' /\ RemoversWereMet' /\ RivalsWereMet' /\ LockIsKept'
  <2> USE DaemonAssumption DEF At, Goto
  <2>1. CASE Start(d)
    BY <2>1, SameLock DEF Start, Acquiring, Owning, IInv, LockIsInUse
  <2>2. CASE FirstCreate(d)
    <3>1. CASE lockFile = Null
      BY <2>2, <3>1, NewLock DEF FirstCreate, Create
    <3>2. CASE lockFile # Null
      BY <2>2, <3>2, SameLock DEF FirstCreate, Create, Acquiring, Owning, IInv, LockIsInUse
    <3> QED  BY <3>1, <3>2
  <2>3. CASE FirstWrite(d)
    BY <2>3, SameLock DEF FirstWrite, WritePid, Acquiring, Owning, NotLooking
  <2>4. CASE ReadExisting(d)
    BY <2>4, SameLock DEF ReadExisting, Acquiring, Owning, IInv, LockIsInUse
  <2>5. CASE Remove(d)
    BY <2>5, NoLock DEF Remove
  <2>6. CASE Recreate(d)
    <3>1. CASE lockFile = Null
      BY <2>6, <3>1, NewLock DEF Recreate, Create
    <3>2. CASE lockFile # Null
      BY <2>6, <3>2, SameLock DEF Recreate, Create, Acquiring, Owning, IInv, LockIsInUse
    <3> QED  BY <3>1, <3>2
  <2>7. CASE Rewrite(d)
    BY <2>7, SameLock DEF Rewrite, WritePid, Acquiring, Owning
  <2>8. CASE Verify(d)
    <3>1. CASE lockFile = d
      BY <2>8, <3>1, SameLock DEF Verify, Acquiring, Owning, IInv, LockIsInUse
    <3>2. CASE lockFile # d
      BY <2>8, <3>2, SameLock DEF Verify, Acquiring, Owning
    <3> QED  BY <3>1, <3>2
  <2> QED  BY <2>1, <2>2, <2>3, <2>4, <2>5, <2>6, <2>7, <2>8 DEF Acquire
<1>2. /\ alive' = alive /\ UNCHANGED <<socket, listening>>
      /\ d \in alive /\ pc[d] # "serving" /\ pc'[d] # "serving"
      /\ pc' = [pc EXCEPT ![d] = pc'[d]]
      /\ pc'[d] \in {"refused"} \cup Acquiring \cup Owning
      /\ lockFile' \in {lockFile, d, Null} /\ written' \in {written, written \cup {d}}
  BY DEF IInv, TypeOK, Acquire, At, Goto, Start, FirstCreate, Recreate, Create, FirstWrite,
    Rewrite, WritePid, ReadExisting, Remove, Verify, Acquiring, Owning
<1>3. /\ met' \in [Daemons -> SUBSET Daemons] /\ displaced' \in BOOLEAN
      /\ displaced => displaced'
  BY <1>2, Recorded
<1>4. TypeOK' /\ SocketKept'
  BY <1>2, <1>3 DEF IInv, TypeOK, SocketKept, SocketReachesServer
<1> QED  BY <1>1, <1>4 DEF IInv

(* The system calls on the socket, by who has the lock.                      *)
LEMMA SocketInv ==
  ASSUME IInv, Record, NEW d \in Daemons, Listen(d) \/ Stop(d)
  PROVE  IInv'
<1>1. /\ EverybodyMet' /\ LockIsInUse' /\ RemoversWereMet' /\ RivalsWereMet' /\ LockIsKept'
  <2> USE DaemonAssumption DEF At, Goto, NotLooking, Owning, IInv, LockIsInUse
  <2>1. CASE Probe(d)  BY <2>1, SameLock DEF Probe
  <2>2. CASE UnlinkStale(d)  BY <2>2, SameLock DEF UnlinkStale
  <2>3. CASE Bind(d)  BY <2>3, SameLock DEF Bind
  <2>4. CASE FailStart(d)  BY <2>4, SameLock DEF FailStart
  <2>5. CASE CloseServer(d)  BY <2>5, SameLock DEF CloseServer
  <2>6. CASE UnlinkOwn(d)  BY <2>6, SameLock DEF UnlinkOwn
  <2>7. CASE Release(d)  BY <2>7, NoLock DEF Release
  <2> QED  BY <2>1, <2>2, <2>3, <2>4, <2>5, <2>6, <2>7 DEF Listen, Stop
<1>2. /\ alive' = alive /\ d \in alive /\ pc[d] \in Owning
      /\ lockFile' \in {lockFile, Null} /\ written' = written
      /\ met' \in [Daemons -> SUBSET Daemons] /\ displaced' \in BOOLEAN
      /\ displaced => displaced'
  BY Recorded DEF Listen, Stop, At, Owning, Probe, UnlinkStale, Bind, FailStart, CloseServer,
    UnlinkOwn, Release
<1>3. TypeOK'
  BY <1>2 DEF IInv, TypeOK, Listen, Stop, At, Goto, Owning, Probe, UnlinkStale, Bind, FailStart,
    CloseServer, UnlinkOwn, Release
<1>4. ~displaced => \A x \in listening : x = d
  BY <1>2 DEF IInv, TypeOK, LockIsKept, NotLooking, Owning
<1>5. SocketKept'
  BY <1>2, <1>4 DEF IInv, TypeOK, SocketKept, SocketReachesServer, Listen, Stop, At, Goto, Probe,
    UnlinkStale, Bind, FailStart, CloseServer, UnlinkOwn, Release
<1> QED  BY <1>1, <1>3, <1>5 DEF IInv

LEMMA CrashInv == ASSUME IInv, Record, NEW d \in Daemons, Crash(d) PROVE IInv'
<1>1. /\ d \in alive /\ alive' = alive \ {d} /\ listening' = listening \ {d}
      /\ UNCHANGED <<pc, lockFile, written, socket>>
  BY DEF Crash
<1>2. /\ EverybodyMet'
      /\ met' \in [Daemons -> SUBSET Daemons] /\ displaced' \in BOOLEAN
      /\ \A x \in Daemons : met[x] \subseteq met'[x]
      /\ displaced => displaced'
  BY <1>1, Recorded
<1>3. \A x \in Daemons : OnlyRivals(x) => OnlyRivals(x)'  BY <1>1, <1>2 DEF OnlyRivals
<1> QED
  BY <1>1, <1>2, <1>3 DEF IInv, TypeOK, LockIsInUse, RemoversWereMet, RivalsWereMet, LockIsKept,
    SocketKept, SocketReachesServer

LEMMA NextInv == ASSUME IInv, [Next]_vars PROVE IInv'
<1>1. CASE UNCHANGED vars
  BY <1>1 DEF vars, IInv, TypeOK, EverybodyMet, LockIsInUse, RemoversWereMet, RivalsWereMet,
    OnlyRivals, LockIsKept, SocketKept, SocketReachesServer
<1>2. CASE Next
  BY <1>2, LockInv, SocketInv, CrashInv DEF Next, Step
<1> QED  BY <1>1, <1>2

LEMMA Invariant == Spec => []IInv
<1>1. Init => IInv  BY InitInv
<1>2. IInv /\ [Next]_vars => IInv'  BY NextInv
<1> QED  BY <1>1, <1>2, PTL DEF Spec

-----------------------------------------------------------------------------
(* "The exclusive per-state-root daemon lock": acquireDaemonLock and         *)
(* releaseLock let one live process through at a time, however many contend,  *)
(* until a start displaces another it overlaps with.                         *)
THEOREM LockExclusive == Spec => []OneHolder
<1>1. IInv => OneHolder  BY LockExcludes
<1> QED  BY <1>1, Invariant, PTL

(* A serving daemon keeps its socket as long as no lock is displaced:         *)
(* unlinkSocket, bind and stop are reached with the lock only.               *)
THEOREM ServersAreReached == Spec => []SocketKept
<1>1. IInv => SocketKept  BY DEF IInv
<1> QED  BY <1>1, Invariant, PTL

(* The lock file of a live process is removed as stale only by one whose       *)
(* acquireDaemonLock overlapped with its own: no later start, whatever it       *)
(* reads and however long it waits before it removes, takes the lock of a       *)
(* daemon that has started.                                                  *)
SettledKeepLock ==
  [][\A d \in Daemons : Removes(d) /\ lockFile \in alive => d \in met[lockFile]]_vars

RemovalStep == \A d \in Daemons : Removes(d) /\ lockFile \in alive => d \in met[lockFile]

LEMMA NextRemoval == ASSUME IInv, Next PROVE RemovalStep
<1> SUFFICES ASSUME NEW d \in Daemons, Removes(d), lockFile \in alive
    PROVE d \in met[lockFile]
  BY DEF RemovalStep
<1>1. d \in alive
  BY DEF Removes, IInv, TypeOK, Next, Step, Acquire, Listen, Stop, At, Goto, Crash, Start,
    FirstCreate, Recreate, Create, FirstWrite, Rewrite, WritePid, ReadExisting, Remove, Verify,
    Probe, UnlinkStale, Bind, FailStart, CloseServer, UnlinkOwn, Release
<1> QED  BY <1>1 DEF IInv, RemoversWereMet, Removes

THEOREM SettledAreSafe == Spec => SettledKeepLock
<1>1. IInv /\ [Next]_vars => [RemovalStep]_vars  BY NextRemoval
<1> QED  BY <1>1, Invariant, PTL DEF Spec, SettledKeepLock, RemovalStep

RefusalStep == \A d \in Daemons : pc[d] # "refused" /\ pc'[d] = "refused" =>
  met[d] # {} /\ lockFile \in met[d] \cup {Null}

LEMMA NextRefusal == ASSUME IInv, Next PROVE RefusalStep
<1> SUFFICES ASSUME NEW d \in Daemons, pc[d] # "refused", pc'[d] = "refused"
    PROVE OnlyRivals(d)
  BY DEF RefusalStep, OnlyRivals
<1> USE DEF IInv, TypeOK, At, Goto
<1>1. Recreate(d) \/ ReadExisting(d) \/ Verify(d)
  BY DEF Next, Step, Acquire, Listen, Stop, Crash, Start, FirstCreate, Recreate, Create,
    FirstWrite, Rewrite, WritePid, ReadExisting, Remove, Verify, Probe, UnlinkStale, Bind,
    FailStart, CloseServer, UnlinkOwn, Release
<1>2. CASE Recreate(d)
  BY <1>2 DEF Recreate, Create, RivalsWereMet
<1>3. CASE Verify(d)
  BY <1>3 DEF Verify, RivalsWereMet
<1>4. CASE ReadExisting(d)
  <2>1. HeldByLive /\ pc[d] = "read" /\ d \in alive
    BY <1>4 DEF ReadExisting
  <2>2. lockFile \in alive \ {d} /\ pc[lockFile] \in Acquiring \cup Owning
    BY <2>1 DEF HeldByLive, LockIsInUse, Acquiring, Owning
  <2>3. lockFile \in met[d]  BY <2>1, <2>2 DEF EverybodyMet, Acquiring
  <2> QED  BY <2>3 DEF OnlyRivals
<1> QED  BY <1>1, <1>2, <1>3, <1>4

(* What a crash left behind keeps nobody out: readLockFile and isPidAlive,    *)
(* the exclusive open and verifyOwnLock refuse a start for a process alive     *)
(* during it.                                                                *)
THEOREM RefusalsJustified == Spec => RefusedOnlyForRival
<1>1. IInv /\ [Next]_vars => [RefusalStep]_vars  BY NextRefusal
<1> QED  BY <1>1, Invariant, PTL DEF Spec, RefusedOnlyForRival, RefusalStep
=============================================================================
