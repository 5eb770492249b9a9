------------------------------- MODULE DaemonStart -------------------------------
(***************************************************************************)
(* Start and stop of the Tightbeam daemon on one state root: the lock file  *)
(* of state_root.mjs, the socket of server.mjs and the order daemon.mjs     *)
(* takes and gives them back in.  Each action is one system call; a process *)
(* may die between any two.                                                 *)
(*                                                                         *)
(* A daemon process creates at most one lock file and one socket, so the    *)
(* file a path names is identified with the process that made it. `Old` is  *)
(* a process that died before the model starts and may have left files.     *)
(***************************************************************************)
CONSTANTS
    Daemons,        \* the daemon processes, each started once
    Old,            \* a dead one
    Null

ASSUME DaemonAssumption ==
    Old \notin Daemons /\ Null \notin Daemons \cup {Old}

VARIABLES
    alive,      \* the processes that have not died
    pc,         \* the system call a daemon is about to make
    lockFile,   \* whose file daemon.lock names
    written,    \* the lock files their creators have written a pid into
    socket,     \* whose socket tightbeam.sock names
    listening,  \* the daemons accepting connections
    \* History, which no step looks at:
    met,        \* whom each daemon has met while it was in acquireDaemonLock:
                \* the live processes that were in it too, or had returned with
                \* the lock and not given it back
    displaced   \* whether a start ever removed the lock file of a process it met
                \* and that does not look at its file any more

system == <<alive, pc, lockFile, written, socket, listening>>
vars == <<alive, pc, lockFile, written, socket, listening, met, displaced>>

Acquiring == {"create", "write", "read", "remove", "recreate", "rewrite", "verify"}
Owning == {"probe", "unlink", "bind", "abort", "serving", "unlinkOwn", "release"}

TypeOK ==
    /\ alive \subseteq Daemons
    /\ pc \in [Daemons -> {"idle", "refused", "stopped"} \cup Acquiring \cup Owning]
    /\ lockFile \in Daemons \cup {Old, Null}
    /\ written \subseteq Daemons \cup {Old}
    /\ socket \in Daemons \cup {Old, Null}
    /\ listening = {d \in alive : pc[d] = "serving"}
    /\ met \in [Daemons -> SUBSET Daemons]
    /\ displaced \in BOOLEAN

Init ==
    /\ alive = Daemons
    /\ pc = [d \in Daemons |-> "idle"]
    /\ lockFile \in {Old, Null}
    /\ written \in SUBSET {Old}
    /\ socket \in {Old, Null}
    /\ listening = {}
    /\ met = [d \in Daemons |-> {}]
    /\ displaced = FALSE

At(d, step) == d \in alive /\ pc[d] = step
Goto(d, step) == pc' = [pc EXCEPT ![d] = step]

-----------------------------------------------------------------------------
(* acquireDaemonLock.                                                       *)

Start(d) ==
    /\ At(d, "idle")
    /\ Goto(d, "create")
    /\ UNCHANGED <<alive, lockFile, written, socket, listening>>

(* createLockFile: an exclusive open, which leaves an empty file, then the   *)
(* write. The first call goes on to look at an existing file; after the      *)
(* removal of a stale one EEXIST is the end.                                 *)
Create(d, step, made, exists) ==
    /\ At(d, step)
    /\ IF lockFile = Null THEN lockFile' = d /\ Goto(d, made)
                          ELSE lockFile' = lockFile /\ Goto(d, exists)
    /\ UNCHANGED <<alive, written, socket, listening>>
FirstCreate(d) == Create(d, "create", "write", "read")
Recreate(d) == Create(d, "recreate", "rewrite", "refused")

WritePid(d, step, next) ==
    /\ At(d, step)
    /\ written' = written \cup {d}
    /\ Goto(d, next)
    /\ UNCHANGED <<alive, lockFile, socket, listening>>
FirstWrite(d) == WritePid(d, "write", "probe")
Rewrite(d) == WritePid(d, "rewrite", "verify")

(* readLockFile and isPidAlive. The mutants respect a file they cannot read, *)
(* or take any holder for dead.                                              *)
HeldOrUnreadable == lockFile # Null /\ (lockFile \notin written \/ lockFile \in alive)
HeldNever == FALSE
HeldByLive == lockFile \in written /\ lockFile \in alive
ReadExisting(d) ==
    /\ At(d, "read")
    /\ Goto(d, IF HeldByLive THEN "refused" ELSE "remove")
    /\ UNCHANGED <<alive, lockFile, written, socket, listening>>

Remove(d) ==
    /\ At(d, "remove")
    /\ lockFile' = Null
    /\ Goto(d, "recreate")
    /\ UNCHANGED <<alive, written, socket, listening>>

(* verifyOwnLock.                                                           *)
Verify(d) ==
    /\ At(d, "verify")
    /\ Goto(d, IF lockFile = d THEN "probe" ELSE "refused")
    /\ UNCHANGED <<alive, lockFile, written, socket, listening>>

-----------------------------------------------------------------------------
(* listen: probe the socket, unlink it, bind.                                *)

Probe(d) ==
    /\ At(d, "probe")
    /\ Goto(d, IF socket \in listening THEN "abort" ELSE "unlink")
    /\ UNCHANGED <<alive, lockFile, written, socket, listening>>

UnlinkStale(d) ==
    /\ At(d, "unlink")
    /\ socket' = Null
    /\ Goto(d, "bind")
    /\ UNCHANGED <<alive, lockFile, written, listening>>

Bind(d) ==
    /\ At(d, "bind")
    /\ IF socket = Null
       THEN socket' = d /\ listening' = listening \cup {d} /\ Goto(d, "serving")
       ELSE UNCHANGED <<socket, listening>> /\ Goto(d, "abort")
    /\ UNCHANGED <<alive, lockFile, written>>

(* Any failure of startDaemon before it listens: database, schema, manifest. *)
FailStart(d) ==
    /\ At(d, "probe")
    /\ Goto(d, "abort")
    /\ UNCHANGED <<alive, lockFile, written, socket, listening>>

-----------------------------------------------------------------------------
(* stop, and the same way back from a failed start: the server closes and    *)
(* its socket path goes with it, the path is unlinked once more, and only    *)
(* then the lock is released, whoever's file its path names by now. The      *)
(* mutant releases the lock before it unlinks.                               *)
CloseServer(d) ==
    /\ At(d, "serving")
    /\ listening' = listening \ {d}
    /\ socket' = Null
    /\ Goto(d, "unlinkOwn")
    /\ UNCHANGED <<alive, lockFile, written>>

UnlinkAfterRelease(d) ==
    \/ /\ At(d, "unlinkOwn")
       /\ lockFile' = Null /\ Goto(d, "release")
       /\ UNCHANGED <<alive, written, socket, listening>>
    \/ /\ At(d, "release")
       /\ socket' = Null /\ Goto(d, "stopped")
       /\ UNCHANGED <<alive, lockFile, written, listening>>
UnlinkOwn(d) ==
    /\ At(d, "unlinkOwn")
    /\ socket' = Null
    /\ Goto(d, "release")
    /\ UNCHANGED <<alive, lockFile, written, listening>>

Release(d) ==
    /\ At(d, "release") \/ At(d, "abort")
    /\ lockFile' = Null
    /\ Goto(d, "stopped")
    /\ UNCHANGED <<alive, written, socket, listening>>

Crash(d) ==
    /\ d \in alive
    /\ alive' = alive \ {d}
    /\ listening' = listening \ {d}
    /\ UNCHANGED <<pc, lockFile, written, socket>>

-----------------------------------------------------------------------------
Acquire(d) ==
    \/ Start(d) \/ FirstCreate(d) \/ FirstWrite(d) \/ ReadExisting(d) \/ Remove(d)
    \/ Recreate(d) \/ Rewrite(d) \/ Verify(d)
Listen(d) == Probe(d) \/ UnlinkStale(d) \/ Bind(d) \/ FailStart(d)
Stop(d) == CloseServer(d) \/ UnlinkOwn(d) \/ Release(d)

Step(d) == Acquire(d) \/ Listen(d) \/ Stop(d) \/ Crash(d)

-----------------------------------------------------------------------------
(* The history of a step. A process looks at its lock file for the last time *)
(* when it verifies it, or, if it found none, when it creates it.            *)
NotLooking == {"write"} \cup Owning
Removes(d) == pc[d] = "remove" /\ pc'[d] = "recreate"

Record ==
    /\ met' = [d \in Daemons |->
                 IF d \in alive' /\ pc'[d] \in Acquiring
                 THEN met[d] \cup {o \in alive' \ {d} : pc'[o] \in Acquiring \cup Owning}
                 ELSE met[d]]
    /\ displaced' = (displaced \/ /\ lockFile \in alive /\ pc[lockFile] \in NotLooking
                                  /\ \E d \in met[lockFile] : Removes(d))

Next == (\E d \in Daemons : Step(d)) /\ Record

Spec == Init /\ [][Next]_vars

-----------------------------------------------------------------------------
Holders == {d \in alive : pc[d] \in Owning}

(* "The exclusive per-state-root daemon lock": however many starts overlap,  *)
(* stop or die, and whatever they find, at most one live process is past      *)
(* acquireDaemonLock and has not released, until one start removes the file of *)
(* another it overlapped with after that one's last look at it. That includes  *)
(* starts that find the lock empty, stale, held, or gone again, and starts      *)
(* that remove each other's file before it is verified ("aborts if it does     *)
(* not").                                                                    *)
OneHolder == TypeOK /\ (displaced \/ \A c, d \in Holders : c = d)

(* "It might belong to a live daemon actively serving this state root (must    *)
(* never be silently displaced": as long as a daemon accepts connections,     *)
(* clients of the state root reach it and nobody else. bind, unlink and stop   *)
(* rely on the lock alone for it.                                            *)
SocketReachesServer == \A d \in listening : socket = d

(* What is left of that: the socket is kept until a lock is displaced.        *)
SocketKept == displaced \/ SocketReachesServer

(* A start is refused only because of a process that was alive, and starting   *)
(* or in possession of the lock, at some time of this start; the lock, if it   *)
(* is there, is the file of such a process. What a crash left behind before,   *)
(* at any point, keeps nobody out.                                           *)
RefusedOnlyForRival ==
    [][\A d \in Daemons : pc[d] # "refused" /\ pc'[d] = "refused" =>
          met[d] # {} /\ lockFile \in met[d] \cup {Null}]_vars
=============================================================================
