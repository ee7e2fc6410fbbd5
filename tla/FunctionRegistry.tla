-------------------------- MODULE FunctionRegistry --------------------------
(***************************************************************************)
(* schema/functions.py: the named functions and procedures of a database,  *)
(* in memory and in functions.pkl.  A registration enters the callable and *)
(* then writes all that is in memory, which raises when any of it cannot   *)
(* be serialised.  What raised stays in memory.                            *)
(***************************************************************************)
CONSTANTS
  Slots,         \* the pairs of a kind, function or procedure, and a name
  Callables,
  Unpicklable,   \* those of them that dill cannot serialise
  NoFn           \* nothing is registered

VARIABLES
  mem,      \* _functions and _procedures
  pkl,      \* functions.pkl
  saving,   \* the slot being registered, between its entry and its save
  kept,     \* history: the last callable that was registered without an error
  raised    \* history: the slots that had an error since

vars == <<mem, pkl, saving, kept, raised>>

Idle == saving = {}

Empty == [s \in Slots |-> NoFn]

Init ==
  /\ mem = Empty /\ pkl = Empty
  /\ saving = {}
  /\ kept = Empty
  /\ raised = {}

\* register_function, register_procedure: self._functions[fn.__name__] = fn
Enter(s, fn) ==
  /\ Idle
  /\ mem' = [mem EXCEPT ![s] = fn]
  /\ saving' = {s}
  /\ UNCHANGED <<pkl, kept, raised>>

Picklable == \A s \in Slots : mem[s] \notin Unpicklable

\* _save: dill.dump to the .tmp file, and tmp.replace
Save ==
  /\ Picklable
  /\ \E s \in saving :
       /\ pkl' = mem
       /\ kept' = [kept EXCEPT ![s] = mem[s]]
       /\ raised' = raised \ {s}
  /\ saving' = {}
  /\ UNCHANGED mem

\* FunctionError: something cannot be serialised, or (full is TRUE) the disk fails.
SaveFails(full) ==
  /\ ~Idle
  /\ Picklable <=> full
  /\ saving' = {}
  /\ raised' = raised \cup saving
  /\ UNCHANGED <<mem, pkl, kept>>

Crash ==
  /\ mem' = Empty
  /\ saving' = {}
  /\ raised' = raised \cup saving
  /\ UNCHANGED <<pkl, kept>>

Load ==
  /\ mem' = pkl
  /\ UNCHANGED <<pkl, saving, kept, raised>>

-----------------------------------------------------------------------------
(* Properties *)

\* The variables keep their types; nothing unserialisable is in the file.
TypeOK ==
  /\ mem \in [Slots -> Callables \cup {NoFn}]
  /\ pkl \in [Slots -> (Callables \ Unpicklable) \cup {NoFn}]
  /\ saving \subseteq Slots
  /\ kept \in [Slots -> (Callables \ Unpicklable) \cup {NoFn}]
  /\ raised \subseteq Slots

\* What was registered without an error is in the file under that name, and in
\* memory while the database is open, until a later registration of the name
\* raises (functions.py:49-81): then the file may have either, as the save of
\* another name writes out what raised.
FunctionsPersist(open) ==
  \A s \in Slots \ raised :
    /\ pkl[s] = kept[s]
    /\ open /\ s \notin saving => mem[s] = kept[s]
=============================================================================
