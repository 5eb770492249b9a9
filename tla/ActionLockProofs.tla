---------------------------- MODULE ActionLockProofs ----------------------------
(***************************************************************************)
(* The action store's lock excludes, and the store it guards behaves as if  *)
(* updates were atomic, for any number of processes.                        *)
(***************************************************************************)
EXTENDS ActionLock, TLAPS

(* A process that looked at a lock remembers a token.                        *)
SeenIsToken ==
    \A t \in Tokens : pc[t] \in {"judge", "recheck", "unlink"} => seen[t] \in Tokens

(* Nobody wrote since the process that is about to write has read.           *)
CopyIsCurrent ==
    \A t \in Tokens : At(t, "write") => copy[t] = store

(* A call writes its update once.                                            *)
WrittenOnce ==
    \A t \in Tokens : t \in store => pc[t] \in {"release", "cleanup", "done"}

IInv == /\ TypeOK
        /\ MutualExclusion
        /\ OnlyTheDeadAreReaped
        /\ SeenIsToken
        /\ CopyIsCurrent
        /\ WrittenOnce

-----------------------------------------------------------------------------
(* Types, one step at a time.                                                *)
LEMMA TypeStep == TypeOK /\ [Next]_vars => TypeOK'
<1>1. SUFFICES ASSUME TypeOK, [Next]_vars PROVE TypeOK'
  OBVIOUS
<1> USE DEF TypeOK, Steps, At, Goto, client, lock
<1>2. CASE UNCHANGED vars
  BY <1>1, <1>2 DEF vars
<1>3. ASSUME NEW t \in Tokens, Prepare(t) \/ GiveUp(t) \/ Abandon(t) PROVE TypeOK'
  BY <1>1, <1>3 DEF Prepare, GiveUp, Abandon
<1>4. ASSUME NEW t \in Tokens, Publish(t) PROVE TypeOK'
  BY <1>1, <1>4 DEF Publish
<1>5. ASSUME NEW t \in Tokens, Observe(t) PROVE TypeOK'
  BY <1>1, <1>5 DEF Observe
<1>6. ASSUME NEW t \in Tokens, Judge(t) \/ Recheck(t) PROVE TypeOK'
  BY <1>1, <1>6 DEF Judge, Recheck
<1>7. ASSUME NEW t \in Tokens, Unlink(t) \/ Release(t) PROVE TypeOK'
  BY <1>1, <1>7 DEF Unlink, Release
<1>8. ASSUME NEW t \in Tokens, RmdirReclaimed(t) \/ Cleanup(t) PROVE TypeOK'
  BY <1>1, <1>8 DEF RmdirReclaimed, Cleanup, Rmdir
<1>9. ASSUME NEW t \in Tokens, Read(t) \/ Write(t) PROVE TypeOK'
  BY <1>1, <1>9 DEF Read, Write
<1>10. ASSUME NEW t \in Tokens, Crash(t) \/ Reuse(t) PROVE TypeOK'
  BY <1>1, <1>10 DEF Crash, Reuse
<1> QED
  BY <1>1, <1>2, <1>3, <1>4, <1>5, <1>6, <1>7, <1>8, <1>9, <1>10 DEF Next, Step

(* What is reaped belongs to the dead: a verdict stays true, for the dead do *)
(* not come back under the same identity.                                    *)
LEMMA ReapStep ==
    ASSUME TypeOK, OnlyTheDeadAreReaped, SeenIsToken, [Next]_vars
    PROVE  OnlyTheDeadAreReaped' /\ SeenIsToken'
<1> USE DEF TypeOK, OnlyTheDeadAreReaped, SeenIsToken, At, Goto, client, lock
<1>1. CASE UNCHANGED vars
  BY <1>1 DEF vars
<1>2. ASSUME NEW t \in Tokens, Prepare(t) \/ GiveUp(t) \/ Abandon(t)
      PROVE  OnlyTheDeadAreReaped' /\ SeenIsToken'
  BY <1>2 DEF Prepare, GiveUp, Abandon
<1>3. ASSUME NEW t \in Tokens, Publish(t)
      PROVE  OnlyTheDeadAreReaped' /\ SeenIsToken'
  BY <1>3 DEF Publish
<1>4. ASSUME NEW t \in Tokens, Observe(t)
      PROVE  OnlyTheDeadAreReaped' /\ SeenIsToken'
  BY <1>4 DEF Observe
<1>5. ASSUME NEW t \in Tokens, Judge(t)
      PROVE  OnlyTheDeadAreReaped' /\ SeenIsToken'
  BY <1>5 DEF Judge, JudgedDead
<1>6. ASSUME NEW t \in Tokens, Recheck(t)
      PROVE  OnlyTheDeadAreReaped' /\ SeenIsToken'
  BY <1>6 DEF Recheck
<1>7. ASSUME NEW t \in Tokens, Unlink(t) \/ Release(t)
      PROVE  OnlyTheDeadAreReaped' /\ SeenIsToken'
  BY <1>7 DEF Unlink, Release
<1>8. ASSUME NEW t \in Tokens, RmdirReclaimed(t) \/ Cleanup(t)
      PROVE  OnlyTheDeadAreReaped' /\ SeenIsToken'
  BY <1>8 DEF RmdirReclaimed, Cleanup, Rmdir
<1>9. ASSUME NEW t \in Tokens, Read(t) \/ Write(t)
      PROVE  OnlyTheDeadAreReaped' /\ SeenIsToken'
  BY <1>9 DEF Read, Write
<1>10. ASSUME NEW t \in Tokens, Crash(t) \/ Reuse(t)
       PROVE  OnlyTheDeadAreReaped' /\ SeenIsToken'
  BY <1>10 DEF Crash, Reuse
<1> QED
  BY <1>1, <1>2, <1>3, <1>4, <1>5, <1>6, <1>7, <1>8, <1>9, <1>10 DEF Next, Step

(* The owner stays the only owner: others publish only into an empty lock,   *)
(* and remove only tokens of the dead.                                       *)
LEMMA ExclusionStep ==
    ASSUME TypeOK, MutualExclusion, OnlyTheDeadAreReaped, [Next]_vars
    PROVE  MutualExclusion'
<1> USE DEF TypeOK, MutualExclusion, InUpdate, At, Goto, client, lock
<1>1. CASE UNCHANGED vars
  BY <1>1 DEF vars
<1>2. ASSUME NEW t \in Tokens, Prepare(t) \/ GiveUp(t) \/ Abandon(t)
      PROVE  MutualExclusion'
  BY <1>2 DEF Prepare, GiveUp, Abandon
<1>3. ASSUME NEW t \in Tokens, Publish(t)
      PROVE  MutualExclusion'
  BY <1>3 DEF Publish
<1>4. ASSUME NEW t \in Tokens, Observe(t)
      PROVE  MutualExclusion'
  BY <1>4 DEF Observe
<1>5. ASSUME NEW t \in Tokens, Judge(t) \/ Recheck(t)
      PROVE  MutualExclusion'
  BY <1>5 DEF Judge, Recheck
<1>6. ASSUME NEW t \in Tokens, Unlink(t)
      PROVE  MutualExclusion'
  <2>1. \A u \in Tokens : InUpdate(u) => u # seen[t]
    BY <1>6 DEF Unlink, OnlyTheDeadAreReaped
  <2> QED
    BY <1>6, <2>1 DEF Unlink
<1>7. ASSUME NEW t \in Tokens, Release(t)
      PROVE  MutualExclusion'
  <2>1. \A u \in Tokens \ {t} : ~InUpdate(u)
    BY <1>7 DEF Release
  <2> QED
    BY <1>7, <2>1 DEF Release
<1>8. ASSUME NEW t \in Tokens, RmdirReclaimed(t) \/ Cleanup(t)
      PROVE  MutualExclusion'
  BY <1>8 DEF RmdirReclaimed, Cleanup, Rmdir
<1>9. ASSUME NEW t \in Tokens, Read(t) \/ Write(t)
      PROVE  MutualExclusion'
  BY <1>9 DEF Read, Write
<1>10. ASSUME NEW t \in Tokens, Crash(t) \/ Reuse(t)
       PROVE  MutualExclusion'
  BY <1>10 DEF Crash, Reuse
<1> QED
  BY <1>1, <1>2, <1>3, <1>4, <1>5, <1>6, <1>7, <1>8, <1>9, <1>10 DEF Next, Step

(* The store moves only under the lock, so what its owner read stays true.   *)
LEMMA StoreStep ==
    ASSUME TypeOK, MutualExclusion, CopyIsCurrent, WrittenOnce, [Next]_vars
    PROVE  CopyIsCurrent' /\ WrittenOnce'
<1> USE DEF TypeOK, CopyIsCurrent, WrittenOnce, At, Goto, client, lock
<1>1. CASE UNCHANGED vars
  BY <1>1 DEF vars
<1>2. ASSUME NEW t \in Tokens, Prepare(t) \/ GiveUp(t) \/ Abandon(t)
      PROVE  CopyIsCurrent' /\ WrittenOnce'
  BY <1>2 DEF Prepare, GiveUp, Abandon
<1>3. ASSUME NEW t \in Tokens, Publish(t)
      PROVE  CopyIsCurrent' /\ WrittenOnce'
  BY <1>3 DEF Publish
<1>4. ASSUME NEW t \in Tokens, Observe(t)
      PROVE  CopyIsCurrent' /\ WrittenOnce'
  BY <1>4 DEF Observe
<1>5. ASSUME NEW t \in Tokens, Judge(t) \/ Recheck(t)
      PROVE  CopyIsCurrent' /\ WrittenOnce'
  BY <1>5 DEF Judge, Recheck
<1>6. ASSUME NEW t \in Tokens, Unlink(t) \/ Release(t)
      PROVE  CopyIsCurrent' /\ WrittenOnce'
  BY <1>6 DEF Unlink, Release
<1>7. ASSUME NEW t \in Tokens, RmdirReclaimed(t) \/ Cleanup(t)
      PROVE  CopyIsCurrent' /\ WrittenOnce'
  BY <1>7 DEF RmdirReclaimed, Cleanup, Rmdir
<1>8. ASSUME NEW t \in Tokens, Read(t)
      PROVE  CopyIsCurrent' /\ WrittenOnce'
  BY <1>8 DEF Read
<1>9. ASSUME NEW t \in Tokens, Write(t)
      PROVE  CopyIsCurrent' /\ WrittenOnce'
  <2>1. \A u \in Tokens \ {t} : ~At(u, "write")
    BY <1>9 DEF Write, MutualExclusion, InUpdate
  <2>2. CopyIsCurrent'
    BY <1>9, <2>1 DEF Write
  <2>3. WrittenOnce'
    BY <1>9 DEF Write
  <2> QED
    BY <2>2, <2>3
<1>10. ASSUME NEW t \in Tokens, Crash(t) \/ Reuse(t)
       PROVE  CopyIsCurrent' /\ WrittenOnce'
  BY <1>10 DEF Crash, Reuse
<1> QED
  BY <1>1, <1>2, <1>3, <1>4, <1>5, <1>6, <1>7, <1>8, <1>9, <1>10 DEF Next, Step

LEMMA IInvInit == Init => IInv
BY DEF Init, IInv, TypeOK, Steps, MutualExclusion, InUpdate, OnlyTheDeadAreReaped,
       SeenIsToken, CopyIsCurrent, WrittenOnce, At

LEMMA IInvStep == IInv /\ [Next]_vars => IInv'
BY TypeStep, ReapStep, ExclusionStep, StoreStep DEF IInv

LEMMA IInvHolds == Spec => []IInv
BY IInvInit, IInvStep, PTL DEF Spec

-----------------------------------------------------------------------------
(* The model keeps its types, and a lock with a token in it exists.          *)
THEOREM TypeCorrect == Spec => []TypeOK
<1>1. IInv => TypeOK
  BY DEF IInv
<1> QED
  BY IInvHolds, <1>1, PTL

(* A live process between taking and releasing the lock is its only owner.   *)
THEOREM Exclusive == Spec => []MutualExclusion
<1>1. IInv => MutualExclusion
  BY DEF IInv
<1> QED
  BY IInvHolds, <1>1, PTL

(* Whoever is about to remove a token removes one whose process is gone.     *)
THEOREM ReapsTheDead == Spec => []OnlyTheDeadAreReaped
<1>1. IInv => OnlyTheDeadAreReaped
  BY DEF IInv
<1> QED
  BY IInvHolds, <1>1, PTL

(* The locked read-modify-write implements one atomic update.                *)
THEOREM Refines == Spec => UpdatesAreAtomic
<1>1. Init => Atomic!Init
  BY DEF Init, Atomic!Init
<1>2. IInv /\ [Next]_vars => [Atomic!Next]_store
  <2> SUFFICES ASSUME IInv, [Next]_vars PROVE [Atomic!Next]_store
    OBVIOUS
  <2> USE DEF lock, client
  <2>1. ASSUME NEW t \in Tokens, Write(t) PROVE [Atomic!Next]_store
    <3>1. store' = store \cup {t}
      BY <2>1 DEF IInv, CopyIsCurrent, Write, At
    <3>2. t \notin store
      BY <2>1 DEF IInv, WrittenOnce, Write, At
    <3> QED
      BY <3>1, <3>2 DEF Atomic!Next, Atomic!Update
  <2>2. ASSUME NEW t \in Tokens,
               \/ Prepare(t) \/ Publish(t) \/ Observe(t) \/ Judge(t) \/ Recheck(t)
               \/ Unlink(t) \/ RmdirReclaimed(t) \/ Read(t) \/ Release(t) \/ Cleanup(t)
               \/ GiveUp(t) \/ Abandon(t) \/ Crash(t) \/ Reuse(t)
        PROVE  UNCHANGED store
    BY <2>2 DEF Prepare, Publish, Observe, Judge, Recheck, Unlink, RmdirReclaimed, Rmdir,
                Read, Release, Cleanup, GiveUp, Abandon, Crash, Reuse
  <2> QED
    BY <2>1, <2>2 DEF Next, Step, vars
<1> QED
  BY IInvHolds, <1>1, <1>2, PTL DEF Spec, UpdatesAreAtomic, Atomic!Spec
=============================================================================
