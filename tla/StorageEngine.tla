--------------------------- MODULE StorageEngine ---------------------------
(***************************************************************************)
(* storage/engine.py: the calls on one collection, from several threads of *)
(* one process, with crashes of that process and reopenings.               *)
(*                                                                         *)
(* A call opens the .jsonl file, waits for its lock and then goes through  *)
(* the body of the with block step by step: read, append to the file,      *)
(* change the indexes in memory, write the .idx files one after another.   *)
(* The lock is what LockManager implements, a readers-writer lock on the   *)
(* INODE that was open; a compaction puts a new inode at the path.         *)
(***************************************************************************)
EXTENDS IndexManager

CONSTANTS
  Threads,
  Ops,        \* the operations the clients use, of those in Calls below
  Damage,     \* what may happen to an .idx file while nothing runs
  Missing, Corrupt,
  MaxLines,   \* bound: no call starts on a longer file
  MaxInode    \* bound: how many compactions replace the file

ASSUME DamageAssumption == Damage \subseteq {Missing, Corrupt}
ASSUME MissingAssumption == \A p \in Postings : p # Missing /\ p # Corrupt

VARIABLES
  log,        \* the .jsonl file
  inode,      \* which file its path names
  idx,        \* the .idx files: postings, Missing or Corrupt
  up,         \* the process runs and has opened the database
  mem,        \* IndexManager._indexes, in memory
  pc,         \* where each thread is
  frame,      \* the call it is in, and the local variables of that call
  memStale,   \* history: the ids whose postings in memory, and those whose
  diskStale   \* postings on disk, may be off (see IndexExact)

vars == <<log, inode, idx, up, mem, pc, frame, memStale, diskStale>>

disk == <<log, inode, idx, diskStale>>
memory == <<up, mem, memStale>>

Calls ==
  UNION { [op : {"insert", "update"}, id : Ids, doc : Docs],
          [op : {"delete", "get"}, id : Ids, doc : {NoDoc}],
          [op : {"compact"}, id : {NoDoc}, doc : {NoDoc}] }

(***************************************************************************)
(* fd: the inode opened for the lock;  old: what get() returned;           *)
(* live: the list of compact();  saved: how many files save() has written. *)
(***************************************************************************)
Frame(c, i) == [op |-> c.op, id |-> c.id, doc |-> c.doc, fd |-> i,
                old |-> NoDoc, live |-> <<>>, saved |-> 0]

Frames ==
  [op : {"none", "insert", "update", "delete", "get", "compact"},
   id : Ids \cup {NoDoc}, doc : Values, fd : Nat,
   old : Values, live : Seq(Line), saved : Nat]

NoFrame == Frame([op |-> "none", id |-> NoDoc, doc |-> NoDoc], 0)

Writes == {"insert", "update", "delete"}

Pcs == {"idle", "waiting", "read", "append", "index", "save", "release",
        "scan", "replace", "rebuild"}

\* inside the with block
Holds(t) == pc[t] \notin {"idle", "waiting"}

\* Mutant of Grantable: only insert() and compact() take the exclusive lock.
GrantableShared(t) ==
  \A u \in Threads \ {t} :
     Holds(u) /\ frame[u].fd = frame[t].fd
       => {frame[u].op, frame[t].op} \cap {"insert", "compact"} = {}

\* The lock of t's file can be granted: LockManager's Grantable.
Grantable(t) ==
  \A u \in Threads \ {t} :
     Holds(u) /\ frame[u].fd = frame[t].fd
       => frame[u].op = "get" /\ frame[t].op = "get"

Step(t, from, to) == pc[t] = from /\ pc' = [pc EXCEPT ![t] = to]

\* the call of t is over, with an answer or an error, its lock released
End(t, from) == Step(t, from, "idle") /\ frame' = [frame EXCEPT ![t] = NoFrame]

-----------------------------------------------------------------------------

Init ==
  /\ log = <<>> /\ inode = 0
  /\ idx = NoPostings
  /\ up = TRUE
  /\ mem = NoPostings
  /\ pc = [t \in Threads |-> "idle"]
  /\ frame = [t \in Threads |-> NoFrame]
  /\ memStale = {} /\ diskStale = {}

\* _require, _jsonl_path and LockManager._open
Start(t) ==
  /\ up
  /\ Step(t, "idle", "waiting")
  /\ \E c \in Calls :
       /\ c.op \in Ops
       /\ c.op \in Writes => Len(log) < MaxLines
       /\ c.op = "compact" => inode < MaxInode
       /\ frame' = [frame EXCEPT ![t] = Frame(c, inode)]
  /\ UNCHANGED <<disk, memory>>

FirstStep(op) ==
  CASE op = "insert"  -> "append"
    [] op = "compact" -> "scan"
    [] OTHER          -> "read"

Grant(t) ==
  /\ Step(t, "waiting", FirstStep(frame[t].op))
  /\ Grantable(t)
  /\ UNCHANGED <<disk, memory, frame>>

\* LockTimeoutError
Timeout(t) ==
  /\ End(t, "waiting")
  /\ ~Grantable(t)
  /\ UNCHANGED <<disk, memory>>

\* DocumentStore.get: all that get() does, and the old document of update()
\* and delete()
Read(t) ==
  /\ Step(t, "read", IF frame[t].op = "get" THEN "release" ELSE "append")
  /\ frame' = [frame EXCEPT ![t].old = Get(log, frame[t].id)]
  /\ UNCHANGED <<disk, memory>>

\* DocumentStore.append and tombstone.  insert() does not look for a live
\* document of the same id, so it has no old one to take out of the indexes.
AppendLine(t) ==
  LET f == frame[t] IN
  /\ Step(t, "append", "index")
  /\ log' = Append(log, DocLine(f.id, f.doc))
  /\ diskStale' = diskStale \cup {f.id}
  /\ memStale' = IF f.op = "insert" /\ Get(log, f.id) # NoDoc
                 THEN memStale \cup {f.id} ELSE memStale
  /\ UNCHANGED <<inode, idx, up, mem, frame>>

\* the same raising StorageError: nothing was written (DocumentStore has the
\* writes that are cut off in the middle of a line)
AppendFails(t) ==
  /\ End(t, "append")
  /\ UNCHANGED <<disk, memory>>

\* the same raising StorageError after the line was written: the caller gets
\* an error for a write that is in the file, and the indexes know nothing of it
AppendFailsLate(t) ==
  LET f == frame[t] IN
  /\ Step(t, "append", "release")
  /\ log' = Append(log, DocLine(f.id, f.doc))
  /\ diskStale' = diskStale \cup {f.id}
  /\ memStale' = memStale \cup {f.id}
  /\ UNCHANGED <<inode, idx, up, mem, frame>>

\* on_insert, on_update, on_delete: the part in memory
UpdateIndex(t) ==
  LET f == frame[t] IN
  /\ Step(t, "index", "save")
  /\ mem' = CASE f.op = "insert" -> OnInsert(mem, f.id, f.doc)
              [] f.op = "update" -> OnUpdate(mem, f.id, f.old, f.doc)
              [] f.op = "delete" -> OnDelete(mem, f.id, f.old)
  /\ UNCHANGED <<disk, up, frame, memStale>>

\* Mutant of SaveIndex: only the first file is written.
SaveIndexFirst(t) ==
  /\ Step(t, "save", "release")
  /\ idx' = [idx EXCEPT ![1] = mem[1]]
  /\ frame' = [frame EXCEPT ![t].saved = 1]
  /\ diskStale' = memStale
  /\ UNCHANGED <<log, inode, memory>>

\* IndexManager.save: one file, through a .tmp file and replace
SaveIndex(t) ==
  LET k == frame[t].saved + 1 IN
  /\ Step(t, "save", IF k = NIdx THEN "release" ELSE "save")
  /\ idx' = [idx EXCEPT ![k] = mem[k]]
  /\ frame' = [frame EXCEPT ![t].saved = k]
  /\ diskStale' = IF k = NIdx THEN memStale ELSE diskStale
  /\ UNCHANGED <<log, inode, memory>>

\* save() raises StorageError: the caller gets an error for a write that is
\* in the file and in the indexes in memory
SaveFails(t) ==
  /\ End(t, "save")
  /\ UNCHANGED <<disk, memory>>

\* the end of the with block, and the answer to the caller
Release(t) ==
  /\ End(t, "release")
  /\ UNCHANGED <<disk, memory>>

\* compact(): live = list(store.scan())
CompactScan(t) ==
  /\ Step(t, "scan", "replace")
  /\ \E s \in Scans(log) : frame' = [frame EXCEPT ![t].live = s]
  /\ UNCHANGED <<disk, memory>>

\* store.compact(live)
CompactReplace(t) ==
  /\ Step(t, "replace", "rebuild")
  /\ inode < MaxInode
  /\ log' = frame[t].live
  /\ inode' = inode + 1
  /\ UNCHANGED <<idx, diskStale, memory, frame>>

\* Mutant of CompactFails: a part of the list replaced the file.
CompactFailsReplaces(t) ==
  /\ End(t, "replace")
  /\ inode < MaxInode
  /\ \E n \in 0 .. Len(frame[t].live) : log' = SubSeq(frame[t].live, 1, n)
  /\ inode' = inode + 1
  /\ UNCHANGED <<idx, diskStale, memory>>

CompactFails(t) ==
  /\ End(t, "replace")
  /\ UNCHANGED <<disk, memory>>

\* Mutant of RebuildIndex: the old postings are not cleared.
RebuildIndexAdds(t) ==
  /\ Step(t, "rebuild", "save")
  /\ mem' = [k \in Specs |-> mem[k] \cup Rebuild(frame[t].live)[k]]
  /\ memStale' = {}
  /\ UNCHANGED <<disk, up, frame>>

\* indexes.rebuild(live); indexes.save() is SaveIndex
RebuildIndex(t) ==
  /\ Step(t, "rebuild", "save")
  /\ mem' = Rebuild(frame[t].live)
  /\ memStale' = {}
  /\ UNCHANGED <<disk, up, frame>>

\* The process dies; the OS drops its locks.
Crash ==
  /\ up
  /\ up' = FALSE
  /\ mem' = NoPostings /\ memStale' = {}
  /\ pc' = [t \in Threads |-> "idle"]
  /\ frame' = [t \in Threads |-> NoFrame]
  /\ UNCHANGED disk

\* somebody deletes or overwrites an .idx file of a closed database
DamageIndex ==
  /\ ~up
  /\ \E k \in Specs, d \in Damage : idx' = [idx EXCEPT ![k] = d]
  /\ UNCHANGED <<log, inode, diskStale, memory, pc, frame>>

\* load(): what _read_idx reads, and an empty index where it raises
Loaded(file) == IF file = Corrupt THEN {} ELSE file

\* _load_manifest when every .idx file exists, readable or not: im.load(), and
\* nothing is rebuilt.  From a corrupt file on, no id can be relied on.
Open ==
  /\ ~up
  /\ \A k \in Specs : idx[k] # Missing
  /\ up' = TRUE
  /\ mem' = [k \in Specs |-> Loaded(idx[k])]
  /\ memStale' = IF \E k \in Specs : idx[k] = Corrupt THEN Ids ELSE diskStale
  /\ diskStale' = memStale'
  /\ UNCHANGED <<log, inode, idx, pc, frame>>

\* ... and when one does not: im.rebuild(list(store.scan())) and im.save(),
\* of which the first n files are written when the process dies again
OpenRebuild ==
  /\ ~up
  /\ \E k \in Specs : idx[k] = Missing
  /\ \E s \in Scans(log), n \in 0 .. NIdx :
       /\ idx' = [k \in Specs |-> IF k <= n THEN Rebuild(s)[k] ELSE idx[k]]
       /\ up' = (n = NIdx)
       /\ mem' = IF n = NIdx THEN Rebuild(s) ELSE NoPostings
       /\ diskStale' = IF n = NIdx THEN {} ELSE diskStale
  /\ UNCHANGED <<log, inode, memStale, pc, frame>>

ThreadNext(t) ==
  \/ Start(t) \/ Grant(t) \/ Timeout(t)
  \/ Read(t)
  \/ AppendLine(t) \/ AppendFails(t) \/ AppendFailsLate(t)
  \/ UpdateIndex(t)
  \/ SaveIndex(t) \/ SaveFails(t)
  \/ Release(t)
  \/ CompactScan(t) \/ CompactReplace(t) \/ CompactFails(t)
  \/ RebuildIndex(t)

Next ==
  \/ \E t \in Threads : ThreadNext(t)
  \/ Crash
  \/ DamageIndex
  \/ Open
  \/ OpenRebuild

Spec == Init /\ [][Next]_vars

-----------------------------------------------------------------------------
(* Careful callers *)

\* The file that t locked is no longer the one at the path.
Replaced(t) == frame[t].op = "compact" /\ pc[t] \in {"rebuild", "save", "release"}

\* No other call is in progress from the moment a compaction replaced the file
\* until it returned.  The engine does not see to it (the run StorageEngineRace);
\* this is what its callers have to, for the properties to hold.
CompactsAlone ==
  \A t, u \in Threads : t # u /\ Replaced(t) => pc[u] = "idle"

-----------------------------------------------------------------------------
(* Properties *)

\* The variables keep their types.
TypeOK ==
  /\ log \in Seq(Line)
  /\ inode \in Nat
  /\ idx \in [Specs -> Postings \cup {Missing, Corrupt}]
  /\ up \in BOOLEAN
  /\ mem \in [Specs -> Postings]
  /\ pc \in [Threads -> Pcs]
  /\ frame \in [Threads -> Frames]
  /\ memStale \in SUBSET Ids
  /\ diskStale \in SUBSET Ids

\* The document that a call read under its lock is still the current one when
\* it is used: get() returns it, update() and delete() take its keys out of
\* the indexes (engine.py:221-227, 242-247, 268-269).
ReadIsFresh ==
  \A t \in Threads :
     \/ frame[t].op \in {"update", "delete"} /\ pc[t] = "append"
     \/ frame[t].op = "get" /\ pc[t] = "release"
     => frame[t].old = Get(log, frame[t].id)

\* Between two calls the indexes in memory hold each document under its keys
\* and under no other, and nothing of documents that are gone.  Excepted are
\* the ids in memStale: those whose call a crash, or a failed save() followed
\* by a crash, cut off between the append and the last .idx file, those whose
\* append raised with the line written, those inserted while they were live,
\* and all once a corrupt .idx file was loaded (see CorruptIsRebuilt).
\* The damage never spreads to another id, and a compaction or a rebuild ends
\* it (engine.py:190-247, 363-381).
IndexExact ==
  up => \A id \in Ids \ memStale :
          (\A t \in Threads : pc[t] = "index" => frame[t].id # id) =>
            \A k \in Specs : KeysFor(mem[k], id) = ProperKeys(k, Get(log, id))

\* The same of the .idx files, at every moment: what a crash leaves to be
\* loaded is right for all but the ids in diskStale.
DiskIndexExact ==
  \A id \in Ids \ diskStale, k \in Specs :
     idx[k] \notin {Missing, Corrupt} =>
       KeysFor(idx[k], id) = ProperKeys(k, Get(log, id))

\* What the engine says of its opening: an index whose file is missing or
\* corrupt is rebuilt, "Rebuild any index that failed to load (missing /
\* corrupt)" (engine.py:485).  So no damage to a file takes an id out of the
\* index, save those that a cut-off call left wrong in it.
CorruptIsRebuilt ==
  [][~up /\ up' => \A id \in Ids \ diskStale, k \in Specs :
                     KeysFor(mem'[k], id) = ProperKeys(k, Get(log, id))]_vars

\* The writes are linearizable and durable: the file is a map that changes
\* only when a pending call takes effect, once, before it is answered; no
\* compaction, crash, reopening or rebuild changes it.
PendingWrite(t) ==
  IF frame[t].op \in Writes
  THEN [id |-> frame[t].id, doc |-> frame[t].doc,
        done |-> pc[t] \in {"index", "save", "release"}]
  ELSE [id |-> NoDoc, doc |-> NoDoc, done |-> TRUE]

Map == INSTANCE DurableMap WITH
         Callers <- Threads, map <- Contents(log),
         call <- [t \in Threads |-> PendingWrite(t)]

Durable == Map!Spec
=============================================================================
