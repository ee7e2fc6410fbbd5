------------------------------ MODULE Database ------------------------------
(***************************************************************************)
(* database.py: the facade over the catalog and the function registry.     *)
(* One thread registers and drops collections and functions, one after     *)
(* another; others write.  A crash takes the memory of both, and opening   *)
(* the database loads the engine first and the registry after it.          *)
(***************************************************************************)
EXTENDS Naturals

CONSTANTS
  Names, Fields, Specs, Docs, Writers, NoFile, Absent,
  Slots, Callables, Unpicklable, NoFn,
  MaxFaults   \* bound: errors of the disk, crashes and lost .idx files

ASSUME SpecsAssumption == Specs \subseteq SUBSET Fields
ASSUME AbsentAssumption == \A s \in SUBSET Fields : s # Absent
ASSUME NoFileAssumption == \A s \in SUBSET Docs : s # NoFile
ASSUME UnpicklableAssumption == Unpicklable \subseteq Callables
ASSUME NoFnAssumption == NoFn \notin Callables
ASSUME MaxFaultsAssumption == MaxFaults \in Nat

VARIABLES
  file, idx, manifest, up, engine, registered, pc, call, todo, writer, acked, trouble,
  mem, pkl, saving, kept, raised,
  faults   \* how many of MaxFaults there were

Collections == INSTANCE Catalog
Functions == INSTANCE FunctionRegistry

collections == <<file, idx, manifest, up, engine, registered, pc, call, todo, writer,
                 acked, trouble>>
functions == <<mem, pkl, saving, kept, raised>>
vars == <<collections, functions, faults>>

Init == Collections!Init /\ Functions!Init /\ faults = 0

Fault == faults < MaxFaults /\ faults' = faults + 1

\* register_collection, drop_collection
CollectionCall ==
  /\ Functions!Idle
  /\ \/ Collections!ManagerNext /\ UNCHANGED faults
     \/ Collections!ManagerFails /\ Fault
  /\ UNCHANGED functions

Write ==
  /\ \E w \in Writers : Collections!WriterNext(w)
  /\ UNCHANGED <<functions, faults>>

\* function, procedure
FunctionCall ==
  /\ up /\ pc = "idle"
  /\ \/ /\ \E s \in Slots, fn \in Callables : Functions!Enter(s, fn)
        /\ UNCHANGED faults
     \/ Functions!Save /\ UNCHANGED faults
     \/ Functions!SaveFails(FALSE) /\ UNCHANGED faults
     \/ Functions!SaveFails(TRUE) /\ Fault
  /\ UNCHANGED collections

Crash == Collections!Crash /\ Functions!Crash /\ Fault

\* Mutant of Open: the registry is not loaded.
OpenEmpty == Collections!Open /\ UNCHANGED <<functions, faults>>

\* __init__: StorageEngine(...), and _fn_registry.load()
Open == Collections!Open /\ Functions!Load /\ UNCHANGED faults

OpenFails == Collections!OpenFails /\ UNCHANGED <<functions, faults>>

LoseIndex ==
  /\ \E n \in Names, f \in Fields : Collections!LoseIndex(n, f)
  /\ Fault
  /\ UNCHANGED functions

Next ==
  \/ CollectionCall
  \/ Write
  \/ FunctionCall
  \/ Crash
  \/ Open \/ OpenFails
  \/ LoseIndex

Spec == Init /\ [][Next]_vars

-----------------------------------------------------------------------------
(* Properties *)

\* The variables of both parts keep their types.
TypeOK == Collections!TypeOK /\ Functions!TypeOK

\* What a registration returned for is there after any crash
\* (functions.py:1-5 "so they survive database re-opens").
FunctionsSurvive == Functions!FunctionsPersist(up)

\* The properties of Catalog, of the collections of a whole database
AckedAreKept == Collections!AckedAreKept
ManifestMatches == Collections!ManifestMatches
FreeNamesAreFree == Collections!FreeNamesAreFree
NewIsEmpty == Collections!NewIsEmpty
CanBeOpened == Collections!CanBeOpened
=============================================================================
