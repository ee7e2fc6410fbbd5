------------------------------ MODULE Catalog ------------------------------
(***************************************************************************)
(* The catalog of a database: create_collection, drop_collection and       *)
(* manifest.json of storage/engine.py, with the CollectionManager of       *)
(* schema/registry.py above them.                                          *)
(*                                                                         *)
(* A collection is a .jsonl file, .idx files, a line of the manifest, an   *)
(* entry of the engine and an entry of the manager.  Creating and dropping *)
(* one change these one after another: each step can raise, and the        *)
(* process can die between any two.  No lock is taken, so the steps        *)
(* interleave with those of inserts and commits.  One thread at a time     *)
(* registers and drops.                                                    *)
(***************************************************************************)
CONSTANTS
  Names,     \* of collections
  Fields,    \* that may be indexed, with an .idx file each
  Specs,     \* the sets of indexed fields that clients register with
  Docs,
  Writers,   \* threads that insert or commit
  NoFile,    \* there is no .jsonl file
  Absent     \* not in the manifest, not in the engine

VARIABLES
  file,        \* the documents in the .jsonl file of each name
  idx,         \* the .idx files that exist
  manifest,    \* manifest.json: the indexes of each name it lists
  up,          \* the database is open
  engine,      \* _stores, _indexes and _specs, which change together
  registered,  \* the names in the manager
  pc, call,    \* the step that the call of the manager is at, and the call
  todo,        \* the .idx files that call still has to write or remove
  writer,      \* what each writing thread is doing
  acked,       \* history: the documents acknowledged and not dropped since
  trouble      \* history: what was cut off, or came too late, for each name

disk == <<file, idx, manifest>>
memory == <<up, engine, registered>>
admin == <<pc, call, todo>>
vars == <<disk, memory, admin, writer, acked, trouble>>

\* the name, whether it is created (after it was dropped), and its indexes
Call == [name : Names, create : BOOLEAN, spec : Specs \cup {{}}]

NoCall == [name |-> Absent, create |-> FALSE, spec |-> {}]

IdleWriter == [pc |-> "idle", counts |-> FALSE]

\* counts: the client has not dropped the collection since;  spec: the .idx
\* files of the IndexManager that the write took
Writes == [pc : {"store", "append", "index", "save"}, name : Names, doc : Docs,
           counts : BOOLEAN, spec : SUBSET Fields]

Pcs == {"idle", "destroy", "unindex", "touch", "index"}

\* "half": a drop that was cut off after it removed the .jsonl file
\* "orphan": a .jsonl file that no entry stands for: of a creation that was cut
\*           off, or of a write that came after the drop
\* "unlisted": in the engine, but not in manifest.json
\* "late": in the .jsonl file there is a document of a write that had begun when
\*         the client dropped the collection, or began while it was dropped
Troubles == {"half", "orphan", "unlisted", "late"}

Listed(n) == manifest[n] # Absent
Known(n) == engine[n] # Absent
Busy(n) == pc # "idle" /\ call.name = n

Marked(n, t) == [trouble EXCEPT ![n] = @ \cup {t}]

-----------------------------------------------------------------------------

Init ==
  /\ file = [n \in Names |-> NoFile]
  /\ idx = [n \in Names |-> {}]
  /\ manifest = [n \in Names |-> Absent]
  /\ up = TRUE
  /\ engine = [n \in Names |-> Absent]
  /\ registered = {}
  /\ pc = "idle" /\ call = NoCall /\ todo = {}
  /\ writer = [w \in Writers |-> IdleWriter]
  /\ acked = [n \in Names |-> {}]
  /\ trouble = [n \in Names |-> {}]

-----------------------------------------------------------------------------
(* register_..._collection and drop_collection of the manager *)

Begin(step, n, create, spec) ==
  /\ pc' = step
  /\ call' = [name |-> n, create |-> create, spec |-> spec]

End == pc' = "idle" /\ call' = NoCall /\ todo' = {}

\* The client wants the documents of n gone, also those being written.
Discard(n) ==
  /\ acked' = [acked EXCEPT ![n] = {}]
  /\ writer' = [w \in Writers |->
                  IF writer[w].pc # "idle" /\ writer[w].name = n
                  THEN [writer[w] EXCEPT !.counts = FALSE] ELSE writer[w]]

\* The collection is new to the engine, or drop_if_exists is set: what is there
\* of it is dropped first.
Register(n, spec, drop) ==
  /\ up /\ pc = "idle"
  /\ Known(n) => drop
  /\ registered' = registered \ {n}
  /\ IF Known(n)
     THEN Begin("destroy", n, TRUE, spec) /\ Discard(n)
     ELSE Begin("touch", n, TRUE, spec) /\ UNCHANGED <<writer, acked>>
  /\ UNCHANGED <<disk, up, engine, todo, trouble>>

\* "reopening an existing database": the engine has it, and nothing is created.
Reconnect(n) ==
  /\ up /\ pc = "idle"
  /\ Known(n) /\ n \notin registered
  /\ registered' = registered \cup {n}
  /\ UNCHANGED <<disk, up, engine, admin, writer, acked, trouble>>

\* Mutant of Drop: the manager keeps the name.
DropStays(n) ==
  /\ up /\ pc = "idle"
  /\ n \in registered
  /\ Begin("destroy", n, FALSE, {})
  /\ Discard(n)
  /\ UNCHANGED <<disk, memory, todo, trouble>>

Drop(n) ==
  /\ up /\ pc = "idle"
  /\ n \in registered
  /\ registered' = registered \ {n}
  /\ Begin("destroy", n, FALSE, {})
  /\ Discard(n)
  /\ UNCHANGED <<disk, up, engine, todo, trouble>>

-----------------------------------------------------------------------------
(* StorageEngine.drop_collection *)

\* Mutant of Destroy: the .jsonl file stays.
DestroyNothing ==
  LET n == call.name IN
  /\ pc = "destroy"
  /\ trouble' = [trouble EXCEPT ![n] = @ \cap {"unlisted"}]
  /\ pc' = "unindex" /\ todo' = engine[n]
  /\ UNCHANGED <<disk, memory, call, writer, acked>>

Destroy ==
  LET n == call.name IN
  /\ pc = "destroy"
  /\ file' = [file EXCEPT ![n] = NoFile]
  /\ trouble' = [trouble EXCEPT ![n] = @ \cap {"unlisted"}]
  /\ pc' = "unindex" /\ todo' = engine[n]
  /\ UNCHANGED <<idx, manifest, memory, call, writer, acked>>

Unindex(f) ==
  /\ pc = "unindex" /\ f \in todo
  /\ idx' = [idx EXCEPT ![call.name] = @ \ {f}]
  /\ todo' = todo \ {f}
  /\ UNCHANGED <<file, manifest, memory, pc, call, writer, acked, trouble>>

\* Mutant of Save: only the collection at hand.
SaveOne(known) == manifest' = [manifest EXCEPT ![call.name] = known[call.name]]

\* _save_manifest writes what the engine knows, of all names
Save(known) == manifest' = known

\* after which it lists all that the engine has, and nothing else
Settled(known) ==
  [n \in Names |-> trouble[n] \ (IF known[n] = Absent THEN {"half"} ELSE {"unlisted"})]

Forgotten == [engine EXCEPT ![call.name] = Absent]

\* Mutant of Forget: the manifest is not saved.
ForgetUnsaved ==
  /\ pc = "unindex" /\ todo = {}
  /\ engine' = Forgotten
  /\ IF call.create THEN pc' = "touch" /\ UNCHANGED <<call, todo>> ELSE End
  /\ UNCHANGED <<disk, up, registered, writer, acked, trouble>>

Forget ==
  /\ pc = "unindex" /\ todo = {}
  /\ engine' = Forgotten
  /\ Save(engine')
  /\ trouble' = Settled(engine')
  /\ IF call.create THEN pc' = "touch" /\ UNCHANGED <<call, todo>> ELSE End
  /\ UNCHANGED <<file, idx, up, registered, writer, acked>>

ForgetFails ==
  /\ pc = "unindex" /\ todo = {}
  /\ engine' = Forgotten
  /\ trouble' = Marked(call.name, "half")
  /\ End
  /\ UNCHANGED <<disk, up, registered, writer, acked>>

-----------------------------------------------------------------------------
(* StorageEngine.create_collection *)

\* Mutant of Touch: touch(exist_ok=True)
TouchAny ==
  LET n == call.name IN
  /\ pc = "touch"
  /\ file' = [file EXCEPT ![n] = IF @ = NoFile THEN {} ELSE @]
  /\ pc' = "index" /\ todo' = call.spec
  /\ UNCHANGED <<idx, manifest, memory, call, writer, acked, trouble>>

Touch ==
  LET n == call.name IN
  /\ pc = "touch"
  /\ file[n] = NoFile
  /\ file' = [file EXCEPT ![n] = {}]
  /\ trouble' = [trouble EXCEPT ![n] = @ \ {"late"}]
  /\ pc' = "index" /\ todo' = call.spec
  /\ UNCHANGED <<idx, manifest, memory, call, writer, acked>>

\* StorageError: there is a file of that name already.
TouchRefused ==
  /\ pc = "touch"
  /\ file[call.name] # NoFile
  /\ End
  /\ UNCHANGED <<disk, memory, writer, acked, trouble>>

Index(f) ==
  /\ pc = "index" /\ f \in todo
  /\ idx' = [idx EXCEPT ![call.name] = @ \cup {f}]
  /\ todo' = todo \ {f}
  /\ UNCHANGED <<file, manifest, memory, pc, call, writer, acked, trouble>>

Enlisted == [engine EXCEPT ![call.name] = call.spec]

\* Mutant of Enlist: the manifest is not saved.
EnlistUnsaved ==
  /\ pc = "index" /\ todo = {}
  /\ engine' = Enlisted
  /\ registered' = registered \cup {call.name}
  /\ End
  /\ UNCHANGED <<disk, up, writer, acked, trouble>>

Enlist ==
  /\ pc = "index" /\ todo = {}
  /\ engine' = Enlisted
  /\ Save(engine')
  /\ trouble' = [Settled(engine') EXCEPT ![call.name] = @ \ {"half"}]
  /\ registered' = registered \cup {call.name}
  /\ End
  /\ UNCHANGED <<file, idx, up, writer, acked>>

\* The name is in the engine all the same, so the next registration reconnects.
EnlistFails ==
  /\ pc = "index" /\ todo = {}
  /\ engine' = Enlisted
  /\ trouble' = Marked(call.name, "unlisted")
  /\ End
  /\ UNCHANGED <<disk, up, registered, writer, acked>>

\* What a call leaves behind when it goes no further than step.
CutOff(n, step) ==
  CASE step = "unindex" -> Marked(n, "half")
    [] step = "index" -> Marked(n, "orphan")
    [] OTHER -> trouble

\* OSError, as a StorageError, in an unlink, a touch or the write of an .idx
\* file
StepFails ==
  /\ pc # "idle"
  /\ trouble' = CutOff(call.name, pc)
  /\ End
  /\ UNCHANGED <<disk, memory, writer, acked>>

-----------------------------------------------------------------------------
(* Writes, of which only what they do to the files of the catalog is kept *)

\* insert() through a handle, which the client may have from before a drop, and
\* which locks the file; or commit(), which does not.
StartWrite(w, n, d, locks) ==
  /\ up /\ writer[w].pc = "idle"
  /\ Known(n)
  /\ locks => file[n] # NoFile
  /\ writer' = [writer EXCEPT ![w] = [pc |-> "store", name |-> n, doc |-> d,
                                     counts |-> ~Busy(n), spec |-> {}]]
  /\ UNCHANGED <<disk, memory, admin, acked, trouble>>

Stop(w) == writer' = [writer EXCEPT ![w] = IdleWriter]

\* _stores[collection]: from here on a drop does not stop the append.
TakeStore(w) ==
  /\ writer[w].pc = "store" /\ Known(writer[w].name)
  /\ writer' = [writer EXCEPT ![w].pc = "append"]
  /\ UNCHANGED <<disk, memory, admin, acked, trouble>>

\* _write_line opens the path, which makes the file when a drop removed it, and
\* finds the file of the new collection when one was created since.
AppendDoc(w) ==
  LET n == writer[w].name IN
  /\ writer[w].pc = "append"
  /\ file' = [file EXCEPT ![n] = (IF @ = NoFile THEN {} ELSE @) \cup {writer[w].doc}]
  /\ trouble' = IF file[n] = NoFile THEN Marked(n, "orphan")
                ELSE IF writer[w].counts THEN trouble ELSE Marked(n, "late")
  /\ writer' = [writer EXCEPT ![w].pc = "index"]
  /\ UNCHANGED <<idx, manifest, memory, admin, acked>>

\* _indexes[collection]: the same of the .idx files.
TakeIndex(w) ==
  LET n == writer[w].name IN
  /\ writer[w].pc = "index" /\ Known(n)
  /\ writer' = [writer EXCEPT ![w].pc = "save", ![w].spec = engine[n]]
  /\ UNCHANGED <<disk, memory, admin, acked, trouble>>

\* on_insert() writes all .idx files of the IndexManager.
SaveIndexes(w) ==
  LET n == writer[w].name IN
  /\ writer[w].pc = "save"
  /\ idx' = [idx EXCEPT ![n] = @ \cup writer[w].spec]
  /\ acked' = IF writer[w].counts
              THEN [acked EXCEPT ![n] = @ \cup {writer[w].doc}] ELSE acked
  /\ Stop(w)
  /\ UNCHANGED <<file, manifest, memory, admin, trouble>>

\* KeyError: the collection was dropped since; or an I/O error.
WriteFails(w) ==
  /\ writer[w].pc # "idle"
  /\ Stop(w)
  /\ UNCHANGED <<disk, memory, admin, acked, trouble>>

-----------------------------------------------------------------------------
(* Crash and StorageEngine._load_manifest *)

Crash ==
  /\ up
  /\ up' = FALSE
  /\ engine' = [n \in Names |-> Absent]
  /\ registered' = {}
  /\ trouble' = IF pc = "idle" THEN trouble ELSE CutOff(call.name, pc)
  /\ End
  /\ writer' = [w \in Writers |-> IdleWriter]
  /\ UNCHANGED <<disk, acked>>

\* An .idx file gets lost while the database is closed.
LoseIndex(n, f) ==
  /\ ~up
  /\ f \in idx[n]
  /\ idx' = [idx EXCEPT ![n] = @ \ {f}]
  /\ UNCHANGED <<file, manifest, memory, admin, writer, acked, trouble>>

\* A missing .idx file makes the engine scan the .jsonl file.
CanLoad(n) == Listed(n) /\ ~(manifest[n] \subseteq idx[n]) => file[n] # NoFile

Rebuilt(n) == IF Listed(n) THEN idx[n] \cup manifest[n] ELSE idx[n]

Open ==
  /\ ~up
  /\ \A n \in Names : CanLoad(n)
  /\ up' = TRUE
  /\ engine' = manifest
  /\ idx' = [n \in Names |-> Rebuilt(n)]
  /\ UNCHANGED <<file, manifest, registered, admin, writer, acked, trouble>>

\* StorageError out of __init__; some of the others are rebuilt by then.
OpenFails ==
  /\ ~up
  /\ \E n \in Names : ~CanLoad(n)
  /\ \E done \in SUBSET {n \in Names : CanLoad(n)} :
       idx' = [n \in Names |-> IF n \in done THEN Rebuilt(n) ELSE idx[n]]
  /\ UNCHANGED <<file, manifest, memory, admin, writer, acked, trouble>>

ManagerNext ==
  \/ \E n \in Names, spec \in Specs, drop \in BOOLEAN : Register(n, spec, drop)
  \/ \E n \in Names : Reconnect(n) \/ Drop(n)
  \/ Destroy \/ Forget
  \/ Touch \/ TouchRefused \/ Enlist
  \/ \E f \in Fields : Unindex(f) \/ Index(f)

ManagerFails == StepFails \/ ForgetFails \/ EnlistFails

WriterNext(w) ==
  \/ \E n \in Names, d \in Docs, locks \in BOOLEAN : StartWrite(w, n, d, locks)
  \/ TakeStore(w) \/ AppendDoc(w) \/ TakeIndex(w) \/ SaveIndexes(w) \/ WriteFails(w)

Next ==
  \/ ManagerNext \/ ManagerFails
  \/ \E w \in Writers : WriterNext(w)
  \/ Crash
  \/ \E n \in Names, f \in Fields : LoseIndex(n, f)
  \/ Open \/ OpenFails

Spec == Init /\ [][Next]_vars

-----------------------------------------------------------------------------
(* Properties *)

\* The variables keep their types; the manager has no name that the engine has
\* not (registry.py:94-104), and a closed database has no call.
TypeOK ==
  /\ file \in [Names -> (SUBSET Docs) \cup {NoFile}]
  /\ idx \in [Names -> SUBSET Fields]
  /\ manifest \in [Names -> (SUBSET Fields) \cup {Absent}]
  /\ engine \in [Names -> (SUBSET Fields) \cup {Absent}]
  /\ registered \subseteq {n \in Names : Known(n)}
  /\ up \in BOOLEAN
  /\ pc \in Pcs /\ todo \subseteq Fields
  /\ IF pc = "idle" THEN call = NoCall ELSE up /\ call \in Call
  /\ writer \in [Writers -> {IdleWriter} \cup Writes]
  /\ ~up => \A w \in Writers : writer[w] = IdleWriter
  /\ acked \in [Names -> SUBSET Docs]
  /\ trouble \in [Names -> SUBSET Troubles]

\* An acknowledged document stays in the file of its collection, and the
\* manifest lists the collection, through failures and crashes, until the client
\* drops it; but for a collection whose creation raised when it saved the
\* manifest, and which the client then registered once more (engine.py:160-167,
\* registry.py:94-97).
AckedAreKept ==
  \A n \in Names :
    acked[n] # {} =>
      /\ file[n] # NoFile
      /\ acked[n] \subseteq file[n]
      /\ "unlisted" \in trouble[n] \/ Listed(n)

\* Between two calls the engine and manifest.json list the same collections with
\* the same indexes, but for names whose creation or drop was cut off.
ManifestMatches ==
  up =>
    \A n \in Names :
      ~Busy(n) /\ trouble[n] \cap {"unlisted", "half"} = {} => manifest[n] = engine[n]

\* A name that is not taken can be registered: there is no .jsonl file in the
\* way of touch(exist_ok=False) (document_store.py:47-50), but where a creation
\* or drop was cut off, or a write came between the steps of a drop.
FreeNamesAreFree ==
  up =>
    \A n \in Names :
      ~Known(n) /\ ~Busy(n) /\ trouble[n] \ {"late"} = {} => file[n] = NoFile

\* A new collection is empty until it becomes known, whatever was written to the
\* one it replaces, but for the documents of writes that were still under way
\* when that was dropped: a write that has looked up the old store appends to
\* the new file (engine.py:158-164, 200-205; document_store.py:233).
NewIsEmpty ==
  pc = "index" /\ "late" \notin trouble[call.name] => file[call.name] = {}

\* A closed database can be opened, with any .idx files missing, unless a drop
\* was cut off (engine.py:169-185, 480-492).
CanBeOpened ==
  ~up /\ (\A n \in Names : "half" \notin trouble[n]) => \A n \in Names : CanLoad(n)
=============================================================================
