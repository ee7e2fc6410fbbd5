------------------------- MODULE LockManagerProofs -------------------------
(***************************************************************************)
(* LockManager for any number of calls, threads and files: the lock table  *)
(* always agrees with the calls, a writer is alone on its inode, and the   *)
(* manager implements RWLock.                                              *)
(***************************************************************************)
EXTENDS LockManager, TLAPS

\* The inductive invariant: exclusion follows from the lock table being what
\* the program counters say only together with exclusion itself.
IInv == TypeOK /\ NoLeakedLock /\ InodeExclusion

\* Nobody holds a lock in the beginning.
LEMMA InitIInv == Init => IInv
  BY MaxInodeAssumption
  DEF Init, IInv, TypeOK, NoLeakedLock, InodeExclusion, Locks!Exclusion, Inodes

\* Every step keeps the variables in their types.
LEMMA TypeStep == TypeOK /\ [Next]_vars => TypeOK'
<1> SUFFICES ASSUME TypeOK, [Next]_vars PROVE TypeOK'
  OBVIOUS
<1> USE MaxInodeAssumption DEF TypeOK, Inodes
<1>1. ASSUME NEW c \in Calls, NEW m \in {"shared", "exclusive"}, Open(c, m)
      PROVE  TypeOK'
  <2>1. \A d \in Calls : pc'[d] = "timedout" => d \in expired'
    BY <1>1 DEF Open
  <2>2. /\ inode' \in 0 .. MaxInode
        /\ pc' \in [Calls -> {"idle", "trying", "waiting", "held", "timedout"}]
        /\ mode' \in [Calls -> {"shared", "exclusive"}]
        /\ fd' \in [Calls -> 0 .. MaxInode]
        /\ expired' \in SUBSET Calls
    BY <1>1 DEF Open
  <2> QED
    BY <1>1, <2>1, <2>2 DEF Open
<1>2. ASSUME NEW c \in Calls, TryGranted(c) PROVE TypeOK'
  <2>1. \A d \in Calls : pc'[d] = "timedout" => d \in expired'
    BY <1>2 DEF TryGranted
  <2> HIDE DEF TypeOK
  <2>2. /\ sh \in [0 .. MaxInode -> SUBSET Calls]
        /\ ex \in [0 .. MaxInode -> SUBSET Calls]
        /\ fd[c] \in 0 .. MaxInode
    BY DEF TypeOK
  <2>3. /\ sh' \in [0 .. MaxInode -> SUBSET Calls]
        /\ ex' \in [0 .. MaxInode -> SUBSET Calls]
    <3>1. CASE mode[c] = "shared"
      <4>1. sh' = [sh EXCEPT ![fd[c]] = @ \cup {c}] /\ ex' = ex
        BY <1>2, <3>1 DEF TryGranted
      <4> QED BY <2>2, <4>1
    <3>2. CASE mode[c] # "shared"
      <4>1. ex' = [ex EXCEPT ![fd[c]] = @ \cup {c}] /\ sh' = sh
        BY <1>2, <3>2 DEF TryGranted
      <4> QED BY <2>2, <4>1
    <3> QED BY <3>1, <3>2
  <2>4. pc' \in [Calls -> {"idle", "trying", "waiting", "held", "timedout"}]
    BY <1>2 DEF TryGranted, TypeOK
  <2> QED
    BY <1>2, <2>1, <2>3, <2>4 DEF TryGranted, TypeOK
<1>3. ASSUME NEW c \in Calls, TryRefused(c) PROVE TypeOK'
  BY <1>3 DEF TryRefused
<1>4. ASSUME NEW c \in Calls, Deadline(c) PROVE TypeOK'
  BY <1>4 DEF Deadline
<1>5. ASSUME NEW c \in Calls, PollAgain(c) PROVE TypeOK'
  BY <1>5 DEF PollAgain
<1>6. ASSUME NEW c \in Calls, GiveUp(c) PROVE TypeOK'
  BY <1>6 DEF GiveUp
<1>7. ASSUME NEW c \in Calls, Release(c) PROVE TypeOK'
  BY <1>7 DEF Release
<1>8. ASSUME NEW c \in Calls, Replace(c) PROVE TypeOK'
  BY <1>8 DEF Replace
<1>9. CASE UNCHANGED vars
  BY <1>9 DEF vars
<1> QED
  BY <1>1, <1>2, <1>3, <1>4, <1>5, <1>6, <1>7, <1>8, <1>9 DEF Next

-----------------------------------------------------------------------------

\* The lock table keeps agreeing with the calls.
LEMMA LeakStep == TypeOK /\ NoLeakedLock /\ [Next]_vars => NoLeakedLock'
<1> SUFFICES ASSUME TypeOK, NoLeakedLock, [Next]_vars PROVE NoLeakedLock'
  OBVIOUS
<1> USE DEF TypeOK, NoLeakedLock
<1>1. ASSUME NEW c \in Calls, NEW m \in {"shared", "exclusive"}, Open(c, m)
      PROVE  NoLeakedLock'
  BY <1>1 DEF Open
<1>2. ASSUME NEW c \in Calls, TryGranted(c) PROVE NoLeakedLock'
  BY <1>2 DEF TryGranted
<1>3. ASSUME NEW c \in Calls, TryRefused(c) PROVE NoLeakedLock'
  BY <1>3 DEF TryRefused
<1>4. ASSUME NEW c \in Calls, Deadline(c) PROVE NoLeakedLock'
  BY <1>4 DEF Deadline
<1>5. ASSUME NEW c \in Calls, PollAgain(c) PROVE NoLeakedLock'
  BY <1>5 DEF PollAgain
<1>6. ASSUME NEW c \in Calls, GiveUp(c) PROVE NoLeakedLock'
  BY <1>6 DEF GiveUp
<1>7. ASSUME NEW c \in Calls, Release(c) PROVE NoLeakedLock'
  BY <1>7 DEF Release
<1>8. ASSUME NEW c \in Calls, Replace(c) PROVE NoLeakedLock'
  BY <1>8 DEF Replace
<1>9. CASE UNCHANGED vars
  BY <1>9 DEF vars
<1> QED
  BY <1>1, <1>2, <1>3, <1>4, <1>5, <1>6, <1>7, <1>8, <1>9 DEF Next

\* Only a granted try adds to the lock table, and flock() refuses the try
\* when it would conflict.
LEMMA ExclusionStep == IInv /\ [Next]_vars => InodeExclusion'
<1> SUFFICES ASSUME IInv, [Next]_vars PROVE InodeExclusion'
  OBVIOUS
<1> USE DEF IInv, TypeOK, InodeExclusion, Locks!Exclusion
<1>1. ASSUME NEW c \in Calls, TryGranted(c) PROVE InodeExclusion'
  BY <1>1 DEF TryGranted, Grantable
<1>2. ASSUME NEW c \in Calls, Release(c) PROVE InodeExclusion'
  BY <1>2 DEF Release
<1>3. CASE UNCHANGED <<sh, ex>>
  BY <1>3
<1> QED
  BY <1>1, <1>2, <1>3
  DEF Next, vars, Open, TryRefused, Deadline, PollAgain, GiveUp, Replace

-----------------------------------------------------------------------------

\* LockManager keeps its inductive invariant.
THEOREM Invariance == Spec => []IInv
<1>1. IInv /\ [Next]_vars => IInv'
  BY TypeStep, LeakStep, ExclusionStep DEF IInv
<1> QED
  BY InitIInv, <1>1, PTL DEF Spec

\* The variables keep their types, for any calls and threads.
THEOREM TypeCorrect == Spec => []TypeOK
  BY Invariance, PTL DEF IInv

\* A lock is held exactly by the calls whose bodies run.
THEOREM LocksNeverLeak == Spec => []NoLeakedLock
  BY Invariance, PTL DEF IInv

\* A writer is alone on its inode.
THEOREM WriterIsAlone == Spec => []InodeExclusion
  BY Invariance, PTL DEF IInv

\* Each step takes or gives back one lock as RWLock allows, or changes none.
LEMMA StepSimulation == IInv /\ [Next]_vars => [Locks!Next]_<<sh, ex>>
<1> SUFFICES ASSUME IInv, [Next]_vars PROVE [Locks!Next]_<<sh, ex>>
  OBVIOUS
<1> USE DEF IInv, TypeOK
<1>1. ASSUME NEW c \in Calls, TryGranted(c) PROVE Locks!Next
  <2>1. fd[c] \in Inodes
    OBVIOUS
  <2>2. CASE mode[c] = "shared"
    <3>1. Locks!AcquireShared(c, fd[c])
      BY <1>1, <2>2 DEF TryGranted, Grantable, Locks!AcquireShared
    <3> QED BY <2>1, <3>1 DEF Locks!Next
  <2>3. CASE mode[c] = "exclusive"
    <3>1. Locks!AcquireExclusive(c, fd[c])
      BY <1>1, <2>1, <2>3 DEF TryGranted, Grantable, Locks!AcquireExclusive
    <3> QED BY <2>1, <3>1 DEF Locks!Next
  <2> QED
    BY <2>2, <2>3
<1>2. ASSUME NEW c \in Calls, Release(c), pc[c] = "held" PROVE Locks!Next
  <2>1. fd[c] \in Inodes /\ c \in sh[fd[c]] \cup ex[fd[c]]
    BY <1>2 DEF NoLeakedLock
  <2>2. Locks!Release(c, fd[c])
    BY <1>2, <2>1 DEF Release, Locks!Release
  <2> QED BY <2>1, <2>2 DEF Locks!Next
<1>3. ASSUME NEW c \in Calls, Release(c), pc[c] = "timedout"
      PROVE  UNCHANGED <<sh, ex>>
  <2>1. c \notin sh[fd[c]] /\ c \notin ex[fd[c]]
    BY <1>3 DEF NoLeakedLock
  <2> QED BY <1>3, <2>1 DEF Release
<1>4. ASSUME NEW c \in Calls, Release(c) PROVE [Locks!Next]_<<sh, ex>>
  BY <1>2, <1>3, <1>4 DEF Release
<1> QED
  BY <1>1, <1>4
  DEF Next, vars, Open, TryRefused, Deadline, PollAgain, GiveUp, Replace

\* For every inode LockManager is a readers-writer lock.
THEOREM Implementation == Spec => InodeLock
<1>1. Init => Locks!Init
  BY DEF Init, Locks!Init
<1>2. IInv /\ [Next]_vars => [Locks!Next]_Locks!vars
  BY StepSimulation DEF Locks!vars
<1> QED
  BY Invariance, <1>1, <1>2, PTL DEF Spec, InodeLock, Locks!Spec
=============================================================================
