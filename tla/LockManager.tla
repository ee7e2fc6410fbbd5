---------------------------- MODULE LockManager ----------------------------
(***************************************************************************)
(* storage/lock_manager.py with the flock() of utils/platform.py.          *)
(*                                                                         *)
(* A call is one use of the context managers shared(path) and              *)
(* exclusive(path).  It opens the file and polls flock(LOCK_NB) on its own *)
(* descriptor until the lock is granted or the deadline has passed.  The   *)
(* lock belongs to the INODE that was opened, and os.replace() gives the   *)
(* path a new one.                                                         *)
(*                                                                         *)
(* A thread runs one call at a time, with one exception: the body of a     *)
(* shared call can be a generator (StorageEngine.scan) that is suspended   *)
(* while it holds the lock and lets its thread go on to another call.      *)
(***************************************************************************)
EXTENDS Naturals

CONSTANTS
  Calls,      \* the context manager calls
  Threads,    \* the threads that make them
  Owner,      \* the thread of each call
  MaxInode    \* bound: how many files the path has stood for in the end

ASSUME OwnerAssumption == Owner \in [Calls -> Threads]
ASSUME MaxInodeAssumption == MaxInode \in Nat

VARIABLES
  inode,      \* the inode that the path names now
  pc,         \* where each call is
  mode,       \* what it asked for: "shared" or "exclusive"
  fd,         \* the inode behind its descriptor
  sh, ex,     \* the lock table of the OS: for each inode, the calls whose
              \* descriptors hold LOCK_SH and LOCK_EX
  expired     \* the calls whose deadline has passed

vars == <<inode, pc, mode, fd, sh, ex, expired>>

Inodes == 0 .. MaxInode

Polling(c) == pc[c] \in {"trying", "waiting"}

Siblings(c) == {d \in Calls : d # c /\ Owner[d] = Owner[c]}

\* Nothing else runs on the thread of c: its other calls are over, or are
\* suspended scans.
ThreadIsFree(c) ==
  \A d \in Siblings(c) :
     pc[d] = "idle" \/ (pc[d] = "held" /\ mode[d] = "shared")

-----------------------------------------------------------------------------

Init ==
  /\ inode = 0
  /\ pc = [c \in Calls |-> "idle"]
  /\ mode = [c \in Calls |-> "shared"]
  /\ fd = [c \in Calls |-> 0]
  /\ sh = [i \in Inodes |-> {}]
  /\ ex = [i \in Inodes |-> {}]
  /\ expired = {}

\* _open, and the start of _acquire, which sets the deadline
Open(c, m) ==
  /\ pc[c] = "idle" /\ ThreadIsFree(c)
  /\ pc' = [pc EXCEPT ![c] = "trying"]
  /\ mode' = [mode EXCEPT ![c] = m]
  /\ fd' = [fd EXCEPT ![c] = inode]
  /\ expired' = expired \ {c}
  /\ UNCHANGED <<inode, sh, ex>>

\* Mutant of Grantable: a writer does not wait for readers.
GrantableToWriters(c) == ex[fd[c]] = {}

\* Mutant of Grantable: locks of the same thread do not conflict, as with
\* POSIX locks inside one process.
GrantablePosix(c) ==
  /\ ex[fd[c]] \subseteq Siblings(c)
  /\ mode[c] = "exclusive" => sh[fd[c]] \subseteq Siblings(c)

\* flock() grants when no other descriptor of the inode holds a lock that
\* conflicts.
Grantable(c) ==
  /\ ex[fd[c]] = {}
  /\ mode[c] = "exclusive" => sh[fd[c]] = {}

\* one try_lock_shared / try_lock_exclusive: granted ...
TryGranted(c) ==
  /\ pc[c] = "trying" /\ Grantable(c)
  /\ pc' = [pc EXCEPT ![c] = "held"]
  /\ IF mode[c] = "shared"
     THEN sh' = [sh EXCEPT ![fd[c]] = @ \cup {c}] /\ UNCHANGED ex
     ELSE ex' = [ex EXCEPT ![fd[c]] = @ \cup {c}] /\ UNCHANGED sh
  /\ UNCHANGED <<inode, mode, fd, expired>>

\* ... or refused
TryRefused(c) ==
  /\ pc[c] = "trying" /\ ~Grantable(c)
  /\ pc' = [pc EXCEPT ![c] = "waiting"]
  /\ UNCHANGED <<inode, mode, fd, sh, ex, expired>>

\* time.monotonic() passes the deadline of c
Deadline(c) ==
  /\ Polling(c) /\ c \notin expired
  /\ expired' = expired \cup {c}
  /\ UNCHANGED <<inode, pc, mode, fd, sh, ex>>

\* Mutant of PollAgain: the loop does not look at the clock.
PollAgainAlways(c) ==
  /\ pc[c] = "waiting"
  /\ pc' = [pc EXCEPT ![c] = "trying"]
  /\ UNCHANGED <<inode, mode, fd, sh, ex, expired>>

\* the deadline check after a refused try: sleep and try again ...
PollAgain(c) ==
  /\ pc[c] = "waiting" /\ c \notin expired
  /\ pc' = [pc EXCEPT ![c] = "trying"]
  /\ UNCHANGED <<inode, mode, fd, sh, ex, expired>>

\* Mutant of GiveUp: the first refused try raises.
GiveUpAtOnce(c) ==
  /\ pc[c] = "waiting"
  /\ pc' = [pc EXCEPT ![c] = "timedout"]
  /\ UNCHANGED <<inode, mode, fd, sh, ex, expired>>

\* ... or raise LockTimeoutError
GiveUp(c) ==
  /\ pc[c] = "waiting" /\ c \in expired
  /\ pc' = [pc EXCEPT ![c] = "timedout"]
  /\ UNCHANGED <<inode, mode, fd, sh, ex, expired>>

\* Mutant of Release: the lock of the file that the path names now is
\* released, not that of the file that was opened.
ReleaseByPath(c) ==
  /\ pc[c] \in {"held", "timedout"} /\ ThreadIsFree(c)
  /\ pc' = [pc EXCEPT ![c] = "idle"]
  /\ sh' = [sh EXCEPT ![inode] = @ \ {c}]
  /\ ex' = [ex EXCEPT ![inode] = @ \ {c}]
  /\ UNCHANGED <<inode, mode, fd, expired>>

\* Mutant of Release: closing one descriptor drops all locks of the thread on
\* the file, as with POSIX locks.
ReleasePosix(c) ==
  /\ pc[c] \in {"held", "timedout"} /\ ThreadIsFree(c)
  /\ pc' = [pc EXCEPT ![c] = "idle"]
  /\ sh' = [sh EXCEPT ![fd[c]] = @ \ ({c} \cup Siblings(c))]
  /\ ex' = [ex EXCEPT ![fd[c]] = @ \ ({c} \cup Siblings(c))]
  /\ UNCHANGED <<inode, mode, fd, expired>>

\* The finally clause, after the body or after the timeout: release_lock and
\* close.  A suspended scan is not resumed while its thread polls.
Release(c) ==
  /\ pc[c] \in {"held", "timedout"} /\ ThreadIsFree(c)
  /\ pc' = [pc EXCEPT ![c] = "idle"]
  /\ sh' = [sh EXCEPT ![fd[c]] = @ \ {c}]
  /\ ex' = [ex EXCEPT ![fd[c]] = @ \ {c}]
  /\ UNCHANGED <<inode, mode, fd, expired>>

\* DocumentStore.compact, in the body of an exclusive call: tmp.replace(path)
Replace(c) ==
  /\ pc[c] = "held" /\ mode[c] = "exclusive" /\ inode < MaxInode
  /\ inode' = inode + 1
  /\ UNCHANGED <<pc, mode, fd, sh, ex, expired>>

Next ==
  \E c \in Calls :
     \/ \E m \in {"shared", "exclusive"} : Open(c, m)
     \/ TryGranted(c)
     \/ TryRefused(c)
     \/ Deadline(c)
     \/ PollAgain(c)
     \/ GiveUp(c)
     \/ Release(c)
     \/ Replace(c)

Spec == Init /\ [][Next]_vars

\* A polling thread keeps running and the clock advances.  Nothing is assumed
\* of the bodies: a holder may keep its lock for ever.
Polls(c) == TryGranted(c) \/ TryRefused(c) \/ PollAgain(c) \/ GiveUp(c)

FairSpec == Spec /\ \A c \in Calls : WF_vars(Polls(c)) /\ WF_vars(Deadline(c))

-----------------------------------------------------------------------------
(* Properties *)

\* The variables keep their types; nobody times out before the deadline.
TypeOK ==
  /\ inode \in Inodes
  /\ pc \in [Calls -> {"idle", "trying", "waiting", "held", "timedout"}]
  /\ mode \in [Calls -> {"shared", "exclusive"}]
  /\ fd \in [Calls -> Inodes]
  /\ sh \in [Inodes -> SUBSET Calls]
  /\ ex \in [Inodes -> SUBSET Calls]
  /\ expired \in SUBSET Calls
  /\ \A c \in Calls : pc[c] = "timedout" => c \in expired

\* The lock table of the OS agrees with the program: a call holds a lock,
\* of the mode it asked for and on the file it opened, exactly while its
\* body runs.  A lock never outlives its with block, nor a timeout
\* (lock_manager.py:55 and :78, the finally clauses).
NoLeakedLock ==
  \A c \in Calls, i \in Inodes :
     /\ c \in sh[i] <=> pc[c] = "held" /\ fd[c] = i /\ mode[c] = "shared"
     /\ c \in ex[i] <=> pc[c] = "held" /\ fd[c] = i /\ mode[c] = "exclusive"

Locks == INSTANCE RWLock WITH
           Callers <- Calls, Files <- Inodes, readers <- sh, writers <- ex

\* The manager implements a readers-writer lock for each inode: every step
\* takes or gives back one lock by the rules, or changes none
\* (lock_manager.py shared, exclusive).
InodeLock == Locks!Spec

\* On one inode a writer is alone.
InodeExclusion == Locks!Exclusion

\* Everybody gets an answer: a call that polls ends with the lock or with
\* LockTimeoutError, even when the holders never release
\* (lock_manager.py:102-124).
EveryCallAnswered ==
  \A c \in Calls : Polling(c) ~> pc[c] \in {"held", "timedout"}

\* A thread that asks for the exclusive lock of a file while its own
\* suspended scan holds the shared one waits for itself: it does not hang,
\* it ends with LockTimeoutError (engine.py:285 and :203).
BehindOwnScan(c) ==
  /\ Polling(c) /\ mode[c] = "exclusive"
  /\ \E d \in Siblings(c) : pc[d] = "held" /\ fd[d] = fd[c]

SelfWaitTimesOut == \A c \in Calls : BehindOwnScan(c) ~> pc[c] = "timedout"
=============================================================================
