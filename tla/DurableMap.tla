----------------------------- MODULE DurableMap -----------------------------
(***************************************************************************)
(* What a collection promises to the callers of insert, update and delete: *)
(* a map from ids to documents that survives crashes, on which every write *)
(* takes effect once, at one moment between its call and its return.       *)
(*                                                                         *)
(* A caller that got an answer has "done" behind it; one that got an error *)
(* before that had no effect; a crash ends the calls and keeps the map.    *)
(***************************************************************************)
CONSTANTS Callers, Ids, Docs, NoDoc

VARIABLES
  map,     \* the document of each id, or NoDoc
  call     \* the write each caller is in: NoCall or [id, doc, done]

vars == <<map, call>>

NoCall == [id |-> NoDoc, doc |-> NoDoc, done |-> TRUE]

Init ==
  /\ map = [id \in Ids |-> NoDoc]
  /\ call = [c \in Callers |-> NoCall]

Invoke(c) ==
  /\ call[c] = NoCall /\ call'[c] # NoCall
  /\ \E id \in Ids, doc \in Docs \cup {NoDoc} :
       call' = [call EXCEPT ![c] = [id |-> id, doc |-> doc, done |-> FALSE]]
  /\ UNCHANGED map

\* the write takes effect
Apply(c) ==
  /\ ~call[c].done
  /\ map' = [map EXCEPT ![call[c].id] = call[c].doc]
  /\ call' = [call EXCEPT ![c].done = TRUE]

\* an answer, or an error of a call that had taken effect already
Return(c) ==
  /\ call[c].done
  /\ call' = [call EXCEPT ![c] = NoCall]
  /\ UNCHANGED map

\* an error of a call that has no effect
Refuse(c) ==
  /\ ~call[c].done
  /\ call' = [call EXCEPT ![c] = NoCall]
  /\ UNCHANGED map

Crash ==
  /\ call' = [c \in Callers |-> NoCall]
  /\ UNCHANGED map

Next ==
  \/ \E c \in Callers : Invoke(c) \/ Apply(c) \/ Return(c) \/ Refuse(c)
  \/ Crash

Spec == Init /\ [][Next]_vars
=============================================================================
