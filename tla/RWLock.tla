------------------------------- MODULE RWLock -------------------------------
(***************************************************************************)
(* What a readers-writer lock for each of a set of files promises: any     *)
(* number of shared holders, or one exclusive holder and nobody else.      *)
(* This is the service that the docstrings of storage/lock_manager.py      *)
(* describe and that storage/engine.py relies on.                          *)
(***************************************************************************)
CONSTANTS Callers, Files

VARIABLES readers, writers    \* the holders of each file's lock

vars == <<readers, writers>>

Init ==
  /\ readers = [f \in Files |-> {}]
  /\ writers = [f \in Files |-> {}]

AcquireShared(c, f) ==
  /\ writers[f] = {}
  /\ readers' = [readers EXCEPT ![f] = @ \cup {c}]
  /\ UNCHANGED writers

AcquireExclusive(c, f) ==
  /\ writers[f] = {} /\ readers[f] = {}
  /\ writers' = [writers EXCEPT ![f] = {c}]
  /\ UNCHANGED readers

Release(c, f) ==
  /\ c \in readers[f] \cup writers[f]
  /\ readers' = [readers EXCEPT ![f] = @ \ {c}]
  /\ writers' = [writers EXCEPT ![f] = @ \ {c}]

Next ==
  \E c \in Callers, f \in Files :
     AcquireShared(c, f) \/ AcquireExclusive(c, f) \/ Release(c, f)

Spec == Init /\ [][Next]_vars

\* A writer is alone on its file.
Exclusion ==
  \A f \in Files : \A c \in writers[f] : writers[f] = {c} /\ readers[f] = {}
=============================================================================
