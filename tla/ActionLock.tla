------------------------------- MODULE ActionLock -------------------------------
(***************************************************************************)
(* mutateActionStore under its lock: agent_action_lock.mjs and             *)
(* agent_action_lock_identity.mjs.  The lock is a directory that holds the  *)
(* token file of its owner; it is published by renaming a prepared          *)
(* directory, token inside, over it, which the file system allows when the  *)
(* lock is absent or empty.  Each action is one system call of one process; *)
(* a process may die between any two.                                       *)
(*                                                                         *)
(* A call of mutateActionStore is identified with the unique token it       *)
(* prepares, and with the process that makes it.                            *)
(***************************************************************************)
EXTENDS FiniteSets

CONSTANTS
    Tokens,     \* the calls
    Null

ASSUME TokenAssumption == Null \notin Tokens

VARIABLES
    proc,       \* alive | dead (pid free) | reused (pid taken by another process)
    pc,         \* the system call a process is about to make
    seen,       \* the owner token it last observed in the lock
    dir,        \* the lock directory exists
    files,      \* the token files in it
    copy,       \* what a process read from the store
    store       \* the updates the store file holds

client == <<pc, seen, copy>>
lock == <<dir, files>>
vars == <<proc, pc, seen, dir, files, copy, store>>

Steps == {"prepare", "publish", "observe", "judge", "recheck", "unlink", "rmdir",
          "read", "write", "release", "cleanup", "done"}

TypeOK ==
    /\ proc \in [Tokens -> {"alive", "dead", "reused"}]
    /\ pc \in [Tokens -> Steps]
    /\ seen \in [Tokens -> Tokens \cup {Null}]
    /\ dir \in BOOLEAN
    /\ files \subseteq Tokens
    /\ files # {} => dir
    /\ copy \in [Tokens -> SUBSET Tokens]
    /\ store \subseteq Tokens

Init ==
    /\ proc = [t \in Tokens |-> "alive"]
    /\ pc = [t \in Tokens |-> "prepare"]
    /\ seen = [t \in Tokens |-> Null]
    /\ dir = FALSE
    /\ files = {}
    /\ copy = [t \in Tokens |-> {}]
    /\ store = {}

At(t, step) == proc[t] = "alive" /\ pc[t] = step
Goto(t, step) == pc' = [pc EXCEPT ![t] = step]

-----------------------------------------------------------------------------
(* prepareActionStoreLock, in a directory of the process's own.              *)
Prepare(t) ==
    /\ At(t, "prepare")
    /\ Goto(t, "publish")
    /\ UNCHANGED <<proc, seen, lock, copy, store>>

(* The rename of publishPreparedLock: EEXIST and ENOTEMPTY go on to look at  *)
(* the owner. The mutant publishes into a directory that is not empty.       *)
PublishAnyway(t) ==
    /\ At(t, "publish")
    /\ dir' = TRUE
    /\ files' = files \cup {t}
    /\ Goto(t, "read")
    /\ UNCHANGED <<proc, seen, copy, store>>
Publish(t) ==
    /\ At(t, "publish")
    /\ IF files = {}
       THEN dir' = TRUE /\ files' = {t} /\ Goto(t, "read")
       ELSE UNCHANGED lock /\ Goto(t, "observe")
    /\ UNCHANGED <<proc, seen, copy, store>>

(* The bounded wait ends, or the own identity cannot be observed.            *)
GiveUp(t) ==
    /\ At(t, "publish") \/ At(t, "prepare")
    /\ Goto(t, "done")
    /\ UNCHANGED <<proc, seen, lock, copy, store>>

(* lockOwner. Tokens are unique and their files immutable, so reading one    *)
(* gives its owner, or nothing when it is gone by then, which waits.         *)
Observe(t) ==
    /\ At(t, "observe")
    /\ \/ \E o \in files : seen' = [seen EXCEPT ![t] = o] /\ Goto(t, "judge")
       \/ files = {} /\ Goto(t, "publish") /\ UNCHANGED seen
    /\ UNCHANGED <<proc, lock, copy, store>>

(* ownerProcessAlive and observeOwnerInstance: a free pid is dead, a reused  *)
(* one differs in its start time if the observation succeeds. The mutant     *)
(* never asks whether the pid is free.                                       *)
JudgedReused(o, observed) == proc[o] = "reused" /\ observed
JudgedDead(o, observed) == proc[o] = "dead" \/ (proc[o] = "reused" /\ observed)
Judge(t) ==
    /\ At(t, "judge")
    /\ \E observed \in BOOLEAN :
          Goto(t, IF JudgedDead(seen[t], observed) THEN "recheck" ELSE "publish")
    /\ UNCHANGED <<proc, seen, lock, copy, store>>

(* reclaimDeadActionStoreLock: look again, remove exactly the token that was *)
(* judged, and the directory if that emptied it. The mutant removes the lock *)
(* recursively; the mutant of rmdir takes a directory that is not empty.     *)
Recheck(t) ==
    /\ At(t, "recheck")
    /\ Goto(t, IF seen[t] \in files THEN "unlink" ELSE "publish")
    /\ UNCHANGED <<proc, seen, lock, copy, store>>

UnlinkTree(t) ==
    /\ At(t, "unlink")
    /\ files' = {} /\ dir' = FALSE
    /\ Goto(t, "publish")
    /\ UNCHANGED <<proc, seen, copy, store>>
Unlink(t) ==
    /\ At(t, "unlink")
    /\ files' = files \ {seen[t]}
    /\ Goto(t, IF seen[t] \in files THEN "rmdir" ELSE "publish")
    /\ UNCHANGED <<proc, seen, dir, copy, store>>

Rmdir(t, next) ==
    /\ dir' = (dir /\ files # {})
    /\ Goto(t, next)
    /\ UNCHANGED <<proc, seen, files, copy, store>>
RmdirReclaimed(t) == At(t, "rmdir") /\ Rmdir(t, "publish")

(* The update under the lock. The write renames a complete file into place.  *)
Read(t) ==
    /\ At(t, "read")
    /\ copy' = [copy EXCEPT ![t] = store]
    /\ Goto(t, "write")
    /\ UNCHANGED <<proc, seen, lock, store>>

Write(t) ==
    /\ At(t, "write")
    /\ store' = copy[t] \cup {t}
    /\ Goto(t, "release")
    /\ UNCHANGED <<proc, seen, lock, copy>>

(* An unreadable store, a throwing update or a failed write: nothing is      *)
(* written and the lock is released.                                         *)
Abandon(t) ==
    /\ At(t, "read") \/ At(t, "write")
    /\ Goto(t, "release")
    /\ UNCHANGED <<proc, seen, lock, copy, store>>

(* releaseActionStoreLock.                                                   *)
Release(t) ==
    /\ At(t, "release")
    /\ files' = files \ {t}
    /\ Goto(t, IF t \in files THEN "cleanup" ELSE "done")
    /\ UNCHANGED <<proc, seen, dir, copy, store>>
Cleanup(t) == At(t, "cleanup") /\ Rmdir(t, "done")

-----------------------------------------------------------------------------
(* A process dies, and its pid may come to name another one.                 *)
Crash(t) ==
    /\ proc[t] = "alive"
    /\ proc' = [proc EXCEPT ![t] = "dead"]
    /\ UNCHANGED <<client, lock, store>>
Reuse(t) ==
    /\ proc[t] = "dead"
    /\ proc' = [proc EXCEPT ![t] = "reused"]
    /\ UNCHANGED <<client, lock, store>>

Step(t) ==
    \/ Prepare(t) \/ Publish(t) \/ Observe(t) \/ Judge(t) \/ Recheck(t)
    \/ Unlink(t) \/ RmdirReclaimed(t) \/ Read(t) \/ Write(t) \/ Release(t) \/ Cleanup(t)

Next == \E t \in Tokens : Step(t) \/ GiveUp(t) \/ Abandon(t) \/ Crash(t) \/ Reuse(t)

Spec == Init /\ [][Next]_vars

(* The call is synchronous: a live process goes on until it returns.         *)
FairSpec == Spec /\ \A t \in Tokens : WF_vars(Step(t))

-----------------------------------------------------------------------------
InUpdate(t) == proc[t] = "alive" /\ pc[t] \in {"read", "write", "release"}

(* A live process between taking and releasing the lock is its only owner,   *)
(* however many others judged, unlinked or removed the lock meanwhile.       *)
MutualExclusion ==
    \A t \in Tokens : InUpdate(t) => files = {t}

(* Whoever is about to remove a token removes one whose process is gone.     *)
OnlyTheDeadAreReaped ==
    \A t \in Tokens : pc[t] \in {"recheck", "unlink"} => proc[seen[t]] # "alive"

(* What was written while holding the lock is never lost to another's update *)
(* ("refusing to risk a duplicate send", agent_action_store.mjs): the store  *)
(* behaves as if every update were atomic.                                   *)
Atomic == INSTANCE ActionStore WITH Updates <- Tokens
UpdatesAreAtomic == Atomic!Spec

(* A lock left by a dead process is removed as long as anybody wants it.     *)
Wants(t) == proc[t] = "alive" /\ pc[t] \notin {"done", "release", "cleanup"}
OrphanIsReaped ==
    \A t \in Tokens :
        t \in files /\ proc[t] = "dead" ~>
            \/ t \notin files \/ proc[t] = "reused"
            \/ \A u \in Tokens : ~Wants(u)
=============================================================================
