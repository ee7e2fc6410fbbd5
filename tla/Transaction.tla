---------------------------- MODULE Transaction ----------------------------
(***************************************************************************)
(* Transactions and crash recovery: _Transaction, _recover_wal and         *)
(* _apply_entry of storage/engine.py with storage/wal.py.                  *)
(*                                                                         *)
(* A transaction buffers its operations as lines of a .wal file of its     *)
(* own, commit() applies them one by one and deletes the file, rollback()  *)
(* only deletes it.  Opening the database replays every .wal file that is  *)
(* there.  commit() takes no lock: its steps interleave with those of      *)
(* other commits and of the single-document calls, which exclude each      *)
(* other by the lock of the collection (StorageEngine).  So do changes of  *)
(* the indexes in memory, and the saves of them, all of which go through   *)
(* one .tmp file.                                                          *)
(*                                                                         *)
(* The .jsonl file is the map it stands for, Contents(log) of DocumentLog; *)
(* a compaction under the lock does not change it (DocumentStoreProofs).   *)
(* An id stands for a pair of collection and doc_id.                       *)
(***************************************************************************)
EXTENDS IndexManager

CONSTANTS
  Txns,          \* the transactions, each with the name of its .wal file
  Single,        \* the single-document call or compaction that has the lock
  EmptyDoc,      \* the document {}, which Python takes for false
  NoFile,        \* there is no .wal file
  CorruptFile,   \* a .wal file in which a line was cut off
  Garbled,       \* an .idx file of which nothing is known
  Ops,           \* the single-document operations the clients use
  MaxWrites      \* bound: lines buffered, single-document calls and compactions

ASSUME EmptyDocAssumption == EmptyDoc \in Docs
ASSUME MaxWritesAssumption == MaxWrites \in Nat
ASSUME SingleAssumption == Single \notin Txns
ASSUME GarbledAssumption == \A p \in Postings : p # Garbled

Writers == Txns \cup {Single}

Entry == [op : {"insert", "update"}, id : Ids, doc : Docs]
         \cup [op : {"delete"}, id : Ids, doc : {NoDoc}]

ASSUME FileAssumption == NoFile \notin Seq(Entry) /\ CorruptFile \notin Seq(Entry)

VARIABLES
  docs,       \* the .jsonl files, as a map
  idx,        \* the .idx files
  mem,        \* the indexes in memory
  wal,        \* the .wal file of each transaction
  phase,      \* the process: "down", "recovering" (in __init__) or "up"
  pc,         \* where the commit or the replay of each transaction is
  todo,       \* the entries it has not applied yet
  old,        \* the old document that _apply_entry read
  call,       \* the call of Single
  at,         \* the index whose file the save of each writer has come to; 0: none
  dumped,     \* the writers that have written the .tmp file of it
  clash,      \* the writers whose change or dump another one got in the way of
  owes,       \* history: the entries of each transaction that began to be
              \* applied and that no other write has replaced since
  begun,      \* history: the .wal files whose transaction began to commit
  stale,      \* history: the ids whose postings may be off
  writes      \* how many of MaxWrites there were

vars == <<docs, idx, mem, wal, phase, pc, todo, old, call, at, dumped, clash,
          owes, begun, stale, writes>>

\* live: what a compaction scanned;  since: history, the ids that commits wrote
\* after it did
NoCall == [pc |-> "none", op |-> "none", id |-> NoDoc, doc |-> NoDoc, old |-> NoDoc,
           live |-> [id \in Ids |-> NoDoc], since |-> {}]

IsFile(x) == wal[x] \notin {NoFile, CorruptFile}

Idle == \A x \in Txns : pc[x] = "open"

-----------------------------------------------------------------------------
(* WAL.read_entries *)

\* The lines that are the first of their id ...
Firsts(w) == {i \in DOMAIN w : \A j \in DOMAIN w : w[j].id = w[i].id => i <= j}

\* ... and the entry of the last line of an id.
LastEntry(w, id) ==
  w[CHOOSE i \in DOMAIN w : w[i].id = id /\ \A j \in DOMAIN w : w[j].id = id => j <= i]

\* Mutant of Deduped: the first line of an id wins.
DedupedFirst(w) ==
  LET place(n) == CHOOSE i \in Firsts(w) : Cardinality({j \in Firsts(w) : j < i}) = n - 1
  IN  [n \in 1 .. Cardinality(Firsts(w)) |-> w[place(n)]]

\* read_entries: a dict keyed by id, each id in the place of its first line
\* and with the entry of its last
Deduped(w) ==
  LET place(n) == CHOOSE i \in Firsts(w) : Cardinality({j \in Firsts(w) : j < i}) = n - 1
  IN  [n \in 1 .. Cardinality(Firsts(w)) |-> LastEntry(w, w[place(n)].id)]

\* What the clients mean by the same lines: applied in order, the last of an
\* id is what remains.
Intended(w) ==
  {w[i] : i \in {i \in DOMAIN w : \A j \in DOMAIN w : w[j].id = w[i].id => j <= i}}

-----------------------------------------------------------------------------

Init ==
  /\ docs = [id \in Ids |-> NoDoc]
  /\ idx = NoPostings /\ mem = NoPostings
  /\ wal = [x \in Txns |-> NoFile]
  /\ phase = "up"
  /\ pc = [x \in Txns |-> "open"]
  /\ todo = [x \in Txns |-> <<>>]
  /\ old = [x \in Txns |-> NoDoc]
  /\ call = NoCall
  /\ at = [w \in Writers |-> 0] /\ dumped = {} /\ clash = {}
  /\ owes = [x \in Txns |-> {}] /\ begun = {}
  /\ stale = {} /\ writes = 0

saves == <<at, dumped, clash>>
store == <<docs, idx, mem, saves, stale>>
progress == <<pc, todo, old>>

Counted == writes < MaxWrites /\ writes' = writes + 1

\* txn.insert, update, delete: WAL.append, which creates the file
Buffer(x, e) ==
  /\ phase = "up" /\ pc[x] = "open" /\ Counted
  /\ wal' = [wal EXCEPT ![x] = CASE @ = NoFile      -> <<e>>
                                 [] @ = CorruptFile -> CorruptFile
                                 [] OTHER           -> Append(@, e)]
  /\ UNCHANGED <<store, phase, progress, call, owes, begun>>

\* the same cut off by a full disk
BufferFails(x) ==
  /\ phase = "up" /\ pc[x] = "open" /\ Counted
  /\ wal' = [wal EXCEPT ![x] = CorruptFile]
  /\ UNCHANGED <<store, phase, progress, call, owes, begun>>

\* txn.rollback, called or by __exit__; also after a commit that failed
Rollback(x) ==
  /\ phase = "up" /\ pc[x] = "open" /\ wal[x] # NoFile
  /\ wal' = [wal EXCEPT ![x] = NoFile]
  /\ begun' = begun \ {x}
  /\ UNCHANGED <<store, phase, progress, call, owes, writes>>

Begin(x) ==
  /\ IsFile(x)
  /\ pc' = [pc EXCEPT ![x] = "next"]
  /\ todo' = [todo EXCEPT ![x] = Deduped(wal[x])]
  /\ owes' = [owes EXCEPT ![x] = Intended(wal[x])]
  /\ UNCHANGED <<store, wal, phase, old, call, writes>>

\* txn.commit, called or by __exit__.  When the file is not there or corrupt,
\* read_entries raises WALReplayError and nothing changes.
Commit(x) ==
  /\ phase = "up" /\ pc[x] = "open"
  /\ begun' = begun \cup {x}
  /\ Begin(x)

-----------------------------------------------------------------------------
(* _apply_entry, for commit() and for _recover_wal() *)

Current(x) == Head(todo[x])

\* get() of update and delete, and the test "if old"
ReadOld(x) ==
  /\ pc[x] = "next" /\ todo[x] # <<>> /\ Current(x).op # "insert"
  /\ LET doc == docs[Current(x).id] IN
       old' = [old EXCEPT ![x] = IF doc = EmptyDoc THEN NoDoc ELSE doc]
  /\ pc' = [pc EXCEPT ![x] = "append"]
  /\ UNCHANGED <<store, wal, phase, todo, call, owes, begun, writes>>

AtAppend(x) ==
  \/ pc[x] = "append"
  \/ pc[x] = "next" /\ todo[x] # <<>> /\ Current(x).op = "insert"

\* Somebody else appended to id and has not come to its postings yet.
HalfIndexed(id) ==
  \/ \E y \in Txns : pc[y] = "index" /\ Current(y).id = id
  \/ call.pc = "index" /\ call.id = id

\* A document goes into the file.  Its postings go wrong when the old document
\* that will be taken out of them is not the one that is replaced, when another
\* write of the id is under way, or when a compaction that has not seen the
\* document makes the indexes anew.
Put(id, doc, replaced) ==
  /\ docs' = [docs EXCEPT ![id] = doc]
  /\ stale' = IF replaced # docs[id] \/ HalfIndexed(id) \/ call.pc \in {"rebuild", "fill"}
              THEN stale \cup {id} ELSE stale
  /\ UNCHANGED <<idx, mem, saves>>

\* DocumentStore.append and tombstone
AppendEntry(x) ==
  LET e == Current(x) IN
  /\ AtAppend(x)
  /\ Put(e.id, e.doc, old[x])
  /\ owes' = [y \in Txns |-> IF y = x THEN owes[x] \cup {e}
                             ELSE {f \in owes[y] : f.id # e.id}]
  /\ pc' = [pc EXCEPT ![x] = "index"]
  /\ call' = [call EXCEPT !.since = IF call.op = "compact" THEN @ \cup {e.id} ELSE @]
  /\ UNCHANGED <<wal, phase, todo, old, begun, writes>>

Reindexed(op, id, before, doc) ==
  CASE op = "insert" -> OnInsert(mem, id, doc)
    [] op = "update" -> OnUpdate(mem, id, before, doc)
    [] op = "delete" -> OnDelete(mem, id, before)

NextEntry(x) ==
  /\ pc' = [pc EXCEPT ![x] = "next"]
  /\ todo' = [todo EXCEPT ![x] = Tail(@)]
  /\ old' = [old EXCEPT ![x] = NoDoc]

-----------------------------------------------------------------------------
(* The indexes in memory, changed key by key with no lock *)

Indexing(w) == IF w = Single THEN call.pc \in {"index", "fill"} ELSE pc[w] = "index"

\* The ids that a writer has at heart, and the documents whose keys it touches
IdsOf(w) ==
  IF w # Single THEN {Current(w).id} ELSE IF call.op = "compact" THEN Ids ELSE {call.id}

DocsOf(w) ==
  (IF w # Single THEN {old[w], Current(w).doc}
   ELSE IF call.op = "compact" THEN {call.live[id] : id \in Ids} ELSE {call.old, call.doc})
  \ {NoDoc}

\* The writers that may be at the list of the same key: "if key not in", "[key] =
\* []", "append", "if not", "del" of the one come between those of the other.
Met(w) ==
  {v \in Writers \ {w} :
     /\ Indexing(v)
     /\ \E k \in Specs, d \in DocsOf(w), e \in DocsOf(v) : KeyOf[k][d] = KeyOf[k][e]}

\* The ids that may lose postings then
Spoiled(w) == UNION {IdsOf(v) : v \in Met(w) \cup {w}}

\* The writers whose change a writer spoils by its own, and whose dump is neither
\* what the index was nor what it is
Disturbed(w) == (clash \cup Met(w) \cup dumped) \ {w}

\* The change comes out as it should, or, if somebody was at the same lists, with
\* any of the postings of the spoiled ids.
Change(w, proper) ==
  /\ IF Met(w) = {} /\ w \notin clash
     THEN mem' = proper /\ UNCHANGED stale
     ELSE LET spoiled == stale \cup Spoiled(w) IN
          /\ mem' \in [Specs -> Postings]
          /\ \A k \in Specs :
               /\ mem'[k] \subseteq mem[k] \cup proper[k]
               /\ \A id \in Ids \ spoiled : KeysFor(mem'[k], id) = KeysFor(proper[k], id)
          /\ stale' = spoiled
  /\ clash' = Disturbed(w)

StartSave(w) == at' = [at EXCEPT ![w] = 1] /\ UNCHANGED dumped

EndSave(w) == at' = [at EXCEPT ![w] = 0] /\ dumped' = dumped \ {w}

-----------------------------------------------------------------------------
(* IndexManager.save: the .idx files in turn, and the .ridx file after them *)

\* The others that are at the same .tmp file
Sharing(w) == {v \in dumped \ {w} : at[v] = at[w]}

\* The postings are taken and the .tmp file is written.  Those of an index that is
\* being filled are some of them.
Dump(w) ==
  /\ at[w] \in Specs /\ w \notin dumped
  /\ dumped' = dumped \cup {w}
  /\ clash' = IF Sharing(w) # {} \/ call.pc = "fill" THEN clash \cup Sharing(w) \cup {w}
              ELSE clash
  /\ UNCHANGED <<docs, idx, mem, stale, at, wal, phase, progress, call, owes, begun, writes>>

\* tmp.replace(path): the index, if nobody got in the way since the dump, for then
\* it is still what was written.
Replace(w) ==
  /\ w \in dumped
  /\ idx' = [idx EXCEPT ![at[w]] = IF w \in clash THEN Garbled ELSE mem[at[w]]]
  /\ at' = [at EXCEPT ![w] = @ + 1]
  /\ dumped' = dumped \ {w} /\ clash' = clash \ {w}
  /\ UNCHANGED <<docs, mem, stale, wal, phase, progress, call, owes, begun, writes>>

\* StorageError, also because another writer has replaced the .tmp file, which is
\* unlinked on the way out whosever it is
SaveFails(w) ==
  /\ at[w] # 0
  /\ EndSave(w)
  /\ clash' = (clash \cup Sharing(w)) \ {w}
  /\ stale' = stale \cup IdsOf(w)
  /\ UNCHANGED <<docs, idx, mem>>

-----------------------------------------------------------------------------
(* _apply_entry, from the append on *)

\* on_insert, on_update, on_delete
IndexEntry(x) ==
  LET e == Current(x) IN
  /\ pc[x] = "index"
  /\ Change(x, Reindexed(e.op, e.id, old[x], e.doc))
  /\ StartSave(x)
  /\ pc' = [pc EXCEPT ![x] = "save"]
  /\ UNCHANGED <<docs, idx, wal, phase, todo, old, call, owes, begun, writes>>

\* save() returns.
EntrySaved(x) ==
  /\ pc[x] = "save" /\ at[x] = NIdx + 1
  /\ EndSave(x)
  /\ NextEntry(x)
  /\ UNCHANGED <<docs, idx, mem, stale, clash, wal, phase, call, owes, begun, writes>>

\* Mutant of GiveUpEntry: the entries not yet applied are left there.
GiveUpEntryKeeps(x) ==
  IF phase = "up"
  THEN /\ pc' = [pc EXCEPT ![x] = "open"]
       /\ UNCHANGED todo
       /\ old' = [old EXCEPT ![x] = NoDoc]
       /\ owes' = [owes EXCEPT ![x] = {}]
  ELSE /\ NextEntry(x)
       /\ owes' = [owes EXCEPT ![x] = @ \ {Current(x)}]

\* StorageError in _apply_entry: commit() passes it on and leaves the .wal
\* file there; _recover_wal() goes on with the next entry.
GiveUpEntry(x) ==
  IF phase = "up"
  THEN /\ pc' = [pc EXCEPT ![x] = "open"]
       /\ todo' = [todo EXCEPT ![x] = <<>>]
       /\ old' = [old EXCEPT ![x] = NoDoc]
       /\ owes' = [owes EXCEPT ![x] = {}]
  ELSE /\ NextEntry(x)
       /\ owes' = [owes EXCEPT ![x] = @ \ {Current(x)}]

AppendEntryFails(x) ==
  /\ AtAppend(x)
  /\ GiveUpEntry(x)
  /\ UNCHANGED <<store, wal, phase, call, begun, writes>>

\* KeyError: another writer took the list of the key away.
IndexEntryFails(x) ==
  LET e == Current(x) IN
  /\ pc[x] = "index" /\ (Met(x) # {} \/ x \in clash)
  /\ Change(x, Reindexed(e.op, e.id, old[x], e.doc))
  /\ GiveUpEntry(x)
  /\ UNCHANGED <<docs, idx, at, dumped, wal, phase, call, begun, writes>>

SaveEntryFails(x) ==
  /\ pc[x] = "save"
  /\ SaveFails(x)
  /\ GiveUpEntry(x)
  /\ UNCHANGED <<wal, phase, call, begun, writes>>

\* wal.delete() after the last entry
Finish(x) ==
  /\ pc[x] = "next" /\ todo[x] = <<>>
  /\ wal' = [wal EXCEPT ![x] = NoFile]
  /\ pc' = [pc EXCEPT ![x] = "open"]
  /\ begun' = begun \ {x}
  /\ UNCHANGED <<store, phase, todo, old, call, owes, writes>>

-----------------------------------------------------------------------------
(* Single-document calls and compact(): one at a time, by the lock *)

StartCall(op, id, doc) ==
  /\ phase = "up" /\ call = NoCall /\ Counted
  /\ call' = [NoCall EXCEPT !.pc = IF op = "insert" THEN "append" ELSE "read",
                            !.op = op, !.id = id, !.doc = doc]
  /\ UNCHANGED <<store, wal, phase, progress, owes, begun>>

ReadCall ==
  /\ call.pc = "read"
  /\ call' = [call EXCEPT !.pc = "append", !.old = docs[call.id]]
  /\ UNCHANGED <<store, wal, phase, progress, owes, begun, writes>>

AppendCall ==
  /\ call.pc = "append"
  /\ Put(call.id, call.doc, call.old)
  /\ owes' = [x \in Txns |-> {e \in owes[x] : e.id # call.id}]
  /\ call' = [call EXCEPT !.pc = "index"]
  /\ UNCHANGED <<wal, phase, progress, begun, writes>>

IndexCall ==
  /\ call.pc = "index"
  /\ Change(Single, Reindexed(call.op, call.id, call.old, call.doc))
  /\ StartSave(Single)
  /\ call' = [call EXCEPT !.pc = "save"]
  /\ UNCHANGED <<docs, idx, wal, phase, progress, owes, begun, writes>>

Filled ==
  [k \in Specs |->
     mem[k] \cup {<<KeyOf[k][call.live[id]], id>> : id \in {i \in Ids : call.live[i] # NoDoc}}]

\* KeyError, as in a commit, also out of rebuild()
IndexCallFails ==
  /\ Met(Single) # {} \/ Single \in clash
  /\ \/ call.pc = "index" /\ Change(Single, Reindexed(call.op, call.id, call.old, call.doc))
     \/ call.pc = "fill" /\ Change(Single, Filled)
  /\ call' = NoCall
  /\ UNCHANGED <<docs, idx, at, dumped, wal, phase, progress, owes, begun, writes>>

CallSaved ==
  /\ call.pc = "save" /\ at[Single] = NIdx + 1
  /\ EndSave(Single)
  /\ call' = NoCall
  /\ UNCHANGED <<docs, idx, mem, stale, clash, wal, phase, progress, owes, begun, writes>>

SaveCallFails ==
  /\ call.pc = "save"
  /\ SaveFails(Single)
  /\ call' = NoCall
  /\ UNCHANGED <<wal, phase, progress, owes, begun, writes>>

\* compact(): live = list(store.scan()) ...
CompactScan ==
  /\ phase = "up" /\ call = NoCall /\ "compact" \in Ops /\ Counted
  /\ call' = [NoCall EXCEPT !.pc = "replace", !.op = "compact", !.live = docs]
  /\ UNCHANGED <<store, wal, phase, progress, owes, begun>>

\* ... store.compact(live), which undoes what commits wrote in between ...
CompactReplace ==
  /\ call.pc = "replace"
  /\ docs' = call.live
  /\ stale' = stale \cup call.since
  /\ owes' = [x \in Txns |-> {e \in owes[x] : e.id \notin call.since}]
  /\ call' = [call EXCEPT !.pc = "rebuild"]
  /\ UNCHANGED <<idx, mem, saves, wal, phase, progress, begun, writes>>

\* ... indexes.rebuild(live), from empty indexes ...
CompactEmpties ==
  /\ call.pc = "rebuild"
  /\ mem' = NoPostings
  /\ clash' = clash \cup dumped
  /\ call' = [call EXCEPT !.pc = "fill"]
  /\ UNCHANGED <<docs, idx, at, dumped, stale, wal, phase, progress, owes, begun, writes>>

\* ... into which all documents are entered, and save()
CompactFills ==
  /\ call.pc = "fill"
  /\ Change(Single, Filled)
  /\ StartSave(Single)
  /\ call' = [call EXCEPT !.pc = "save"]
  /\ UNCHANGED <<docs, idx, wal, phase, progress, owes, begun, writes>>

-----------------------------------------------------------------------------
(* Crash and recovery *)

\* What a crash cuts off from the .idx files: the postings of a document that is
\* in the file, and an index that a save had not come to
CutOff ==
  {id \in Ids : HalfIndexed(id)} \cup UNION {IdsOf(w) : w \in {w \in Writers : at[w] # 0}}

Crash ==
  /\ phase # "down"
  /\ phase' = "down"
  /\ mem' = NoPostings
  /\ stale' = IF \E k \in Specs : idx[k] = Garbled THEN Ids ELSE stale \cup CutOff
  /\ pc' = [x \in Txns |-> "open"]
  /\ todo' = [x \in Txns |-> <<>>]
  /\ old' = [x \in Txns |-> NoDoc]
  /\ call' = NoCall
  /\ at' = [w \in Writers |-> 0] /\ dumped' = {} /\ clash' = {}
  /\ UNCHANGED <<docs, idx, wal, owes, begun, writes>>

\* Mutant of Open: _recover_wal before the .idx files are read.
OpenReplaysFirst ==
  /\ phase = "down"
  /\ phase' = "recovering"
  /\ UNCHANGED <<mem, docs, idx, saves, stale, wal, progress, call, owes, begun, writes>>

\* __init__: _load_manifest reads the .idx files, and _recover_wal begins
Open ==
  /\ phase = "down"
  /\ phase' = "recovering"
  /\ mem' \in [Specs -> Postings]
  /\ \A k \in Specs : idx[k] # Garbled => mem'[k] = idx[k]
  /\ UNCHANGED <<docs, idx, saves, stale, wal, progress, call, owes, begun, writes>>

\* the files one after another, in no particular order
Replay(x) ==
  /\ phase = "recovering" /\ Idle
  /\ Begin(x)
  /\ UNCHANGED begun

\* WALReplayError in _recover_wal
Discard(x) ==
  /\ phase = "recovering" /\ Idle
  /\ wal[x] = CorruptFile
  /\ wal' = [wal EXCEPT ![x] = NoFile]
  /\ begun' = begun \ {x}
  /\ UNCHANGED <<store, phase, progress, call, owes, writes>>

Recovered ==
  /\ phase = "recovering" /\ Idle
  /\ \A x \in Txns : wal[x] = NoFile
  /\ phase' = "up"
  /\ UNCHANGED <<store, wal, progress, call, owes, begun, writes>>

TxnNext(x) ==
  \/ \E e \in Entry : Buffer(x, e)
  \/ BufferFails(x) \/ Rollback(x)
  \/ Commit(x) \/ Replay(x) \/ Discard(x)
  \/ ReadOld(x)
  \/ AppendEntry(x) \/ AppendEntryFails(x)
  \/ IndexEntry(x) \/ IndexEntryFails(x)
  \/ EntrySaved(x) \/ SaveEntryFails(x)
  \/ Finish(x)

CallNext ==
  \/ \E e \in Entry : e.op \in Ops /\ StartCall(e.op, e.id, e.doc)
  \/ ReadCall \/ AppendCall \/ IndexCall \/ IndexCallFails
  \/ CallSaved \/ SaveCallFails
  \/ CompactScan \/ CompactReplace \/ CompactEmpties \/ CompactFills

Next ==
  \/ \E x \in Txns : TxnNext(x)
  \/ CallNext
  \/ \E w \in Writers : Dump(w) \/ Replace(w)
  \/ Crash
  \/ Open
  \/ Recovered

Spec == Init /\ [][Next]_vars

-----------------------------------------------------------------------------
(* Properties *)

\* The variables keep their types; entries wait only in a commit or a replay, and
\* a save is under way where the writer is at one.
TypeOK ==
  /\ docs \in [Ids -> Values]
  /\ idx \in [Specs -> Postings \cup {Garbled}] /\ mem \in [Specs -> Postings]
  /\ \A x \in Txns : IsFile(x) => wal[x] \in Seq(Entry)
  /\ phase \in {"down", "recovering", "up"}
  /\ pc \in [Txns -> {"open", "next", "append", "index", "save"}]
  /\ \A x \in Txns : todo[x] \in Seq(Entry) /\ (pc[x] = "open" => todo[x] = <<>>)
  /\ old \in [Txns -> Values]
  /\ call.pc \in {"none", "read", "append", "index", "replace", "rebuild", "fill", "save"}
  /\ at \in [Writers -> 0 .. NIdx + 1]
  /\ at[Single] # 0 <=> call.pc = "save"
  /\ \A x \in Txns : at[x] # 0 <=> pc[x] = "save"
  /\ dumped \subseteq {w \in Writers : at[w] \in Specs} /\ clash \subseteq Writers
  /\ \A x \in Txns : owes[x] \subseteq Entry
  /\ stale \subseteq Ids

\* A transaction that began to be applied is applied whole: once its commit
\* returned, or a crash in it was recovered from, each of its last writes is
\* what a reader sees, until another write replaces that document.  The
\* exceptions are a commit that raised, and a document that a compaction
\* replaced which had scanned the file before the commit wrote it: commit()
\* takes no lock (engine.py:92-97, 363-381, 496-518; wal.py:130).
CommitsHold ==
  phase = "up" =>
    \A x \in Txns : pc[x] = "open" => \A e \in owes[x] : docs[e.id] = e.doc

\* A save under way has still to come to the postings of id in index k.
Unsaved(id, k) == \E w \in Writers : at[w] # 0 /\ at[w] <= k /\ id \in IdsOf(w)

\* The indexes are right, in memory but while rebuild() is filling them, and in
\* each file that no save still has to come to, for every id but those in stale:
\* ids inserted while live, or updated or deleted by a transaction while their
\* document was {}; ids that two writes, or a write and a compaction, were at
\* together, and ids with a key in common that they were entering into the
\* index together, one of them a commit without the lock; ids that a failed save
\* or a crash cut off from their postings.  Nothing is said of a file that was
\* written while the index was being changed or while another save was at the
\* same .tmp file, nor of any id when a crash left such a file.  Commits of other
\* ids that save at other times, and replays, do no harm (engine.py:92-97,
\* 520-551; index_manager.py:123-184, 442-446).
IndexExact ==
  \A id \in Ids \ stale :
    ~HalfIndexed(id) =>
      \A k \in Specs :
        /\ phase # "down" /\ call.pc # "fill" => KeysFor(mem[k], id) = ProperKeys(k, docs[id])
        /\ idx[k] # Garbled /\ ~Unsaved(id, k) => KeysFor(idx[k], id) = ProperKeys(k, docs[id])

\* "Any .wal file found implies the previous process crashed mid-commit; we
\* replay and clean up" (engine.py:499-500): no transaction is replayed that
\* did not begin to commit.  The code replays every file that it can read.
ReplaysOnlyCommits ==
  [][\A x \in Txns : phase = "recovering" /\ pc[x] = "open" /\ pc'[x] = "next"
       => x \in begun]_vars
=============================================================================
