# Verification of JsonpySql

TLA+ models of the storage layer, the constraints, the catalog and the query
engine of JsonpySql, the TLC runs that check them, and TLAPS proofs about them.
Paths below are relative to `src/jsonpysql/`; file and line references are to
the commit in this repository.

## 1. The system

JsonpySql is an embedded document database: a directory with one append-only
`.jsonl` file per collection, one `.idx` file per index, a `.ridx` file for the
reverse (foreign-key) index, a `manifest.json`, and one `.wal` file per open
transaction.  There is no server: each process that opens the directory has its
own `StorageEngine`, and any thread of it may call.

| component | state | operations | depends on |
|---|---|---|---|
| document store (`storage/document_store.py`) | the `.jsonl` file, the `.jsonl.tmp` file of a compaction | create, destroy, append, tombstone, get, scan, compact, count_lines | nothing; locking is the caller's |
| lock manager (`storage/lock_manager.py`, `utils/platform.py`) | a descriptor per call; the lock table of the OS | shared, exclusive | `flock()` |
| index manager (`storage/index_manager.py`) | `_indexes`, `_reverse` in memory; `.idx`, `.ridx` files | on_insert, on_update, on_delete, rebuild, load, save, add_reverse, remove_reverse, lookup, range_scan | nothing; takes no lock |
| storage engine (`storage/engine.py`) | the registry of stores and indexes, `manifest.json` | insert, update, delete, get, scan, lookup, compact, get_stats, create/drop_collection, opening | the three above |
| transactions (`storage/engine.py`, `storage/wal.py`) | a `.wal` file each | insert, update, delete (buffered), commit, rollback; recovery when the engine opens | engine's stores and indexes, *not* its lock |
| schema collections (`schema/collection.py`, `schema/constraints.py`) | none of their own; the reverse index | insert, update, delete with unique and foreign-key checks | engine calls, one after another |
| catalog (`storage/engine.py`, `schema/registry.py`) | `manifest.json`; `_stores`, `_indexes`, `_specs` of the engine; the collections of the manager | register, reconnect, drop; create_collection, drop_collection; `_load_manifest` | `.jsonl` and `.idx` files; no lock |
| fields, validator (`schema/`) | none | reading indexes and constraints off a Pydantic model, coercion | Pydantic |
| function registry (`schema/functions.py`) | functions and procedures in memory, `functions.pkl` | register, load | dill |
| query engine (`query/`) | the cursor of a running query | plan, scan, filter; sort, slice, join, aggregate | lookup, range_scan, scan, get |
| facade (`database.py`) | handles | opening, registration, dropping, queries, transactions | all |

### What is hard here, and what makes each part correct

* **Document store.** A write can be cut off inside a line, and the next write
  continues that line.  Compaction is a scan, a temporary file and a replace.
  Correct: a readable file never shows a superseded value nor silently loses an
  acknowledged one; compaction is invisible.
* **Lock manager.** A lock belongs to an inode, a caller thinks of a path; polls
  race with a deadline; a suspended generator keeps a lock.  Correct: a
  readers-writer lock, nothing leaked, everyone answered.
* **Engine and indexes.** Each call reads, appends, changes memory and writes
  several files, and can fail or die between any two of these.  Correct: writes
  are linearizable and durable; indexes agree with the documents.
* **Transactions.** Commit is many appends without a lock, and so are the changes
  of the index and the saves of it that come with them; recovery replays files;
  crashes may come in either.  Correct: all or nothing, replay harmless.
* **Constraints.** A check and the write that relies on it are separate calls, and
  the check reads an index that is being changed; the reverse index is changed
  and saved with no lock at all.
  Correct: unique stays unique, a child has its parent, the reverse index is right.
* **Catalog.** create and drop change several files and several maps, one after
  another and without a lock; each step can fail, a crash may come between any
  two, and writes go on meanwhile.  Correct: acknowledged documents stay until
  they are dropped, the manifest is what the engine has, a free name can be
  taken, the database can be opened.
* **Function registry.** A registration enters the callable and then pickles all
  of them, and one that cannot be pickled stays.  Correct: what was registered
  without an error survives.
* **Queries.** Results are generated lazily, by position in live lists of the
  index, and nothing is locked between two of them.  Correct: an index scan
  misses nothing that a full scan finds, repeats nothing, and ends.

`PROJECT.json` lists these hazards one by one, each at the line where it bites,
with the properties that are about it.

## 2. The modules

```
DocumentLog            what the lines of a .jsonl file mean (no state)
 ├─ LogLoops           the loops of get() and scan()
 │   └─ DocumentStore  the file on a disk that fails         ── DocumentStoreProofs
 └─ IndexManager       the indexes as values                 ── StorageLemmas
     ├─ StorageEngine  calls on one collection, threads      ── StorageEngineProofs
     └─ Transaction    commit, crash, recovery               ── TransactionProofs
RWLock   ◄─ implemented by ─ LockManager                     ── LockManagerProofs
DurableMap ◄─ implemented by ─ StorageEngine
UniqueFields           a unique field above the engine
ReverseIndex           a foreign key above the engine
 └─ SchemaCollection   both, with crashes                    ── SchemaCollectionProofs
Catalog                collections and their files
FunctionRegistry       functions.pkl
 └─ Database           both behind the facade, with crashes  ── DatabaseProofs
QueryPlan              which scan a query makes (no state)
 └─ Query              a lazy scan of an index that changes  ── QueryProofs
```

Each state module has an `MC...` module that gives TLC its definitions and its
symmetry, and one or more `.cfg` files.  Operators called `Mutant of X` are
wrong versions of `X`; they stand beside it to show that a property tells the
two apart, and no specification uses them.

**DocumentLog.** A line is an id with a document or, for a tombstone, with
`NoDoc`.  `Get` and `Scans` say declaratively what `DocumentStore.get` and
`scan` return: the last line of an id decides, and `scan` is ordered by the
first line of each id.  `LogLoops` transcribes the two loops as folds; that they
return what the definitions say is the invariant `LoopsAgree` of `DocumentStore`.

**DocumentStore.** `lines`, with `unended` when the last one lacks its newline.
`WriteFails` leaves a beginning of a line, or all of it but the newline; the
next write makes one `Garbage` line of the two pieces, on which `_parse` raises.
`CompactStart`, `CompactWrite`, `CompactReplace` and `CompactFails` are the
steps of `compact`, `Crash` the death of the process in it.  `expected` records
what a reader of each id may be shown.

**LockManager.** A call is one use of `shared(path)` or `exclusive(path)`:
`Open` (the descriptor is of the inode the path names *now*), `TryGranted` /
`TryRefused`, `Deadline`, `PollAgain` / `GiveUp`, `Release` (the `finally`
clause).  `Replace` is `DocumentStore.compact` inside the body of an exclusive
call.  A thread makes one call at a time, except that a shared call may be a
suspended `StorageEngine.scan`.  `sh` and `ex` are the lock table of the OS.

**IndexManager.** A forward index is a set of postings ⟨key, id⟩; `KeyOf` is
`_make_key` followed by `_encode_key`.  Values only; who holds them is the
engine.

**StorageEngine.** One collection, several threads.  A call passes through
`Start` (open the file), `Grant`/`Timeout`, `Read`, `AppendLine`, `UpdateIndex`,
`SaveIndex` (one file a time), `Release`; `compact` through `CompactScan`,
`CompactReplace`, `RebuildIndex`, `SaveIndex`.  Each step that can raise has a
`...Fails` action; an append that raises has written nothing (`AppendFails`) or
the whole line but its newline (`AppendFailsLate`).  The lock is the readers-writer lock per inode that
`LockManagerProofs!Implementation` shows the lock manager to be; `Grantable` is
stated over the calls, and `inode` moves when `compact` replaces the file.
`Crash` may come anywhere; `Open` and `OpenRebuild` are `_load_manifest`;
`DamageIndex` lets `.idx` files vanish or become unreadable while the database
is closed.  `memStale` and `diskStale` record the ids about which the code makes
no promise, and why is said at `IndexExact`.

**Transaction.** `Buffer`, `Commit`, `Rollback` are the methods of
`_Transaction`; `ReadOld`, `AppendEntry`, `IndexEntry` and a save the steps of
`_apply_entry`, for `commit` and for `_recover_wal` alike.  They hold no lock,
so they interleave with one another and with single-document calls and
compactions, of which the lock lets one run at a time (the writer `Single`).
`Deduped` is `WAL.read_entries`.  The `.jsonl` file is the map it stands for,
which `DocumentStoreProofs` justifies for the compactions.  `_apply_entry` takes
the document `{}` for no document (`if old`), hence the constant `EmptyDoc`.

The index in memory and the `.idx` files are apart.  A change in memory
(`Change`) comes out as it should unless another writer is at the list of the
same key (`Met`), when the postings of the ids of both come out in any way; it may
also raise (`IndexEntryFails`).  A save writes one file after another, each in two steps:
`Dump` writes the `.tmp` file, `Replace` puts it in place.  What a writer put
there is the index as it is then, unless somebody changed the index or opened
the same `.tmp` file in between (`clash`): then nothing is known of the file
(`Garbled`).  `SaveFails` is also the writer whose `.tmp` file another one has
moved away.  `CompactEmpties` and `CompactFills` are the beginning and the end of
`rebuild()`; a save that dumps an index in between is garbled too.

**UniqueFields.** Customers with a unique email, which is all that is kept of the
document; of the index on email only the postings of emails: nothing looks up
`None`.  `Read`, `Check`, and then the steps of the engine's call: `Append`,
`Unlist` and `List` (what `on_insert`, `on_update` and `on_delete` do to the index
in memory), `Save`; or for a compaction `Rewrite`, `Rebuild`, `Fill` (one document
a step), `Save`.  The check takes no lock, so it comes between any two of these.
Errors come before the append, after it (`WriteFailsLate`) and in the save.

**ReverseIndex.** Orders with a foreign key to customers.  `_register_fk_reverse`
is `Register` (the test), `Fresh` (the new list), `Enter`, and a save;
`_unregister_fk_reverse` is `Unregister`, `Take`, `Test`, `Drop`, and a save.
Nothing is locked, and a list that another thread took away is a `KeyError`
(`ListIsGone`).  A save is `Dump` and `Replace` as above, of which only the
`.ridx` file is kept; the engine's writes save it too (`Append`).  `Wipe` is
`rebuild()`, which empties the reverse index; opening a database whose `.idx`
file is missing has the same effect.

**SchemaCollection** puts the two collections into one database: a thread is in
one call at a time, an order's customer must be there, a crash ends all calls.

**Catalog.** `Register`, `Reconnect` and `Drop` are the calls of
`CollectionManager`; `Destroy`, `Unindex` (one `.idx` file a step), `Forget` the
steps of `StorageEngine.drop_collection`, which a registration with
`drop_if_exists` runs first; `Touch`, `Index`, `Enlist` those of
`create_collection`.  `Forget` and `Enlist` contain `_save_manifest`, which
writes what the engine has of *all* names; `StepFails`, `ForgetFails` and
`EnlistFails` are the errors.  Of a write only what it does to these files is
kept: `TakeStore` and `TakeIndex` look up the store and the index, after which a
drop does not stop the write; `AppendDoc` opens the path, and makes a file that
is not there or finds that of a collection created since; `SaveIndexes` writes
the `.idx` files.  `Open` is `_load_manifest`, which scans the `.jsonl` file of a
collection that lacks an `.idx` file, and so fails without it (`OpenFails`).
`acked` has the documents whose write returned and which the client has not
dropped; `trouble` what each name was left with by calls that were cut off.

**FunctionRegistry.** `Enter` and `Save` are the two statements of
`register_function` and `register_procedure`; the temporary file and the
replace make `Save` atomic.  `SaveFails` covers the callable that dill refuses
and the disk.

**Database** instantiates both: one thread administers, others write, a crash
takes the memory of both, and `Open` is `Database.__init__`.

**QueryPlan.** A predicate is the list of the clauses that the planner can tell
apart in the source of a lambda; what it does not recognise is an opaque clause,
given by the values for which it is true.  `Plan` looks at the first clause of
the first predicate only, as `_parse_predicate` does; all predicates are applied
to the documents (`Matches`).  Values have two orders, that of the numbers and
that of their strings, which the index is sorted by.

**Query.** The index is a list of ids per key.  `Start` evaluates what the
generator evaluates first: a list, or the positions that `irange` bisects.
`NextKey`, `Take`, `Fetch`, `ListEnds` read at a position, `Finish` ends the
query, with an error too, and `Close` is a consumer that breaks off.  Writes
(`AppendLine`, `Unlist`, `List`) and compactions (`Compact`, `Fill`) come
between any two; after a compaction the query goes on over the old lists
(`old`).

**RWLock** and **DurableMap** are the abstract specifications.

## 3. What is checked

| run | result | what it shows |
|---|---|---|
| DocumentStore | holds | reads never lie, compaction is invisible and minimal, an unreadable file stays so, loops = definitions |
| LockManager | holds | a readers-writer lock per inode, no leak, every call answered, a thread that waits for its own scan times out |
| StorageEngine | holds | two threads, compactions that satisfy `CompactsAlone`, two indexes, missing `.idx` files: durable linearizable map, fresh reads, exact indexes |
| StorageEngineRace | **violated** | two threads with compaction that do not: the index loses a posting |
| StorageEngineCorrupt | **violated** | a corrupt `.idx` file is loaded as an empty index and not rebuilt |
| Transaction | holds | what began to commit is applied whole, through crashes, but for what a compaction undoes; which interleavings of unlocked writes spoil the index or a file of it |
| TransactionCrash | **violated** | an uncommitted transaction is applied by recovery |
| SchemaCollection | holds | when a unique field and the reverse index can be relied on |
| SchemaCollectionDelete | **violated** | a parent with children is deleted |
| Database | holds | what cut-off creations and drops, and writes that overlap them, can leave behind, and that nothing else goes wrong |
| Query | holds | what a query may miss, repeat or raise while the index changes, and that it ends |
| QueryTransparency | **violated** | a range of an index on numbers misses documents that match |

The five violated properties are what a docstring, a comment or a document of
the repository says of the program; `PROJECT.json` quotes each under
`findings`.  The counterexamples are short:

* *StorageEngineRace*: `compact()` has replaced the file and not yet rebuilt the
  indexes; an `insert` opens the new file, gets its lock, appends and indexes;
  `rebuild(live)` then wipes the posting.
* *StorageEngineCorrupt*: insert a document, close, the `.idx` file becomes
  unreadable, open: the index is empty, and the code at `engine.py:486` asks only
  whether the file is there.
* *TransactionCrash*: buffer one operation, crash, open.
* *SchemaCollectionDelete*: insert a customer, insert an order, delete the
  customer.
* *QueryTransparency*: insert a document with 10, query the field for `>= 9`: the
  range of the strings begins after `"10"`.  The property also asks for `_id` in
  the results, which documents that an index leads to lack.

### Exceptions that properties make

A property holds of the code only with the exceptions the code forces.  They
are history variables, so that each property still says that *nothing else* goes
wrong:

* `IndexExact`, `DiskIndexExact` (StorageEngine): an id inserted while live; an
  id whose call a crash or a failed save cut off, or whose append raised with the
  line written; and every id once an unreadable `.idx` file was loaded, which the
  code takes for an empty index and never rebuilds by itself, against what it
  says: that is `CorruptIsRebuilt` of the run *StorageEngineCorrupt*.  A
  compaction or a rebuild clears them, and the damage never spreads to another id.
* `IndexExact` (Transaction): an id inserted while live, or updated or deleted by
  a transaction while its document was `{}`; an id that two writes, or a write
  and a compaction, were at together; ids with a key in common that were entered
  together, one of them by a commit; what a failed save or a crash cut off.
  Nothing is said of a file that was written while the index was being changed
  or while another save was at the same `.tmp` file, nor of any id when a crash
  left such a file.  So commits of different ids with different keys spoil
  nothing in memory, and a save that meets no other leaves the file right.
* `CommitsHold`: a commit that raised, entries that recovery skipped, and ids
  that a compaction, which began before the commit wrote them, put back.  The
  last is against `DECISIONS.md:133` ("durable via WAL"), and the model reaches it:
  no property says that it should not happen.
* the properties of Catalog: a name whose drop was cut off (`"half"`), whose
  `.jsonl` file nothing stands for (`"orphan"`), which the engine has and the
  manifest has not since its save raised (`"unlisted"`), or whose file has a
  document of a write that was under way when the name was dropped (`"late"`).
  Each property excepts only the troubles it names: `CanBeOpened` a half drop,
  `AckedAreKept` an unlisted collection, `NewIsEmpty` late documents.
* `NothingMissed`: as many documents as ids were taken out of the lists that the
  query reads, since it goes by position; all of them for a range whose keys
  changed and for a query begun during a rebuild; and values whose strings are
  not in the order of the numbers, which are the run *QueryTransparency*.  `NotTwice`: an id written meanwhile, and a
  range that got a new key.
* `UniqueEmails`: an email that a call found free while another call on it had
  not entered it in the index yet, which an update that keeps its email is after
  the removal; all emails when a check came while a rebuild filled the index and
  found its own free; one whose posting an error or a crash cut off; and all that
  there are when a write overlapped a compaction that had replaced the file.
* `ReverseExact`: an order inserted while live, in two calls at a time, in a call
  that raised or that a crash cut off; one entered into a list that another
  thread was about to drop or to replace; one that was there when its collection
  was compacted; and all when the process died while the `.ridx` file was one
  that two saves met in.

### Bounds, and why they are enough

* *DocumentStore*: two ids, two documents, five lines.  Order of a scan, a
  deletion with a later insertion, and a torn line followed by three more all
  fit; the proofs lift the bound.
* *LockManager*: three calls of two threads, two replacements: a holder, a
  waiter on the old file, one on the new, and a self-wait fit.  The proofs of
  the safety part lift the bound; liveness is for this instance.
* *StorageEngine*: two ids, two documents with different keys, two threads, two
  indexes and one compaction.  An interfering pair needs two of each, an index
  saved and one not yet needs two.  `MaxLines` is the length of the file at which
  no write starts any more, so that two that overlap can make it one longer: an
  insertion and two conflicting writes fit, and after a compaction more.
  `MaxInode` bounds the compactions.  The CONSTRAINT `CompactsAlone` leaves out the
  states in which another call is in progress although a compaction has replaced
  the file; calls that wait for a compaction, or overlap one that fails, stay in.
  Files vanish (`Damage`); unreadable ones are in *StorageEngineCorrupt*, with one
  thread, and in the proofs.
* *Transaction*: two transactions, two ids, one index, three counted writes (lines
  buffered, single-document calls, compactions that begin), insertions and
  deletions, one document besides `{}`.  Each interference that the
  module names, such as a commit overtaken by another write, a replay after a
  write, two saves that meet, or two entries of one id, takes at most three
  writes and two writers at work (`TwoAtATime`).  States in which every id is
  stale are not followed further (`SomethingToSay`); the view leaves out `begun`,
  which only *TransactionCrash* is about.  The proofs lift all of these, and have
  updates too.
* *SchemaCollection*: two threads, two customers, two orders, one email and
  `Null`.  Uniqueness needs two owners of one value; an order changes between
  two customers and none, and two orders share a list.  The two collections
  share nothing but which customers there are, so either emails are used or
  orders (`OneAtATime`).  States of which the properties say nothing are not
  followed further (`SomethingToSay`), nor is an order that is lost inserted or
  updated again (`LostAreOnlyDeleted`).  The proofs lift all of these.
* *Database*: two names, as the manifest is saved whole; one indexed field, one
  document, one writing thread, two functions and one callable that cannot be
  pickled; `MaxFaults` = 2, so that a cut-off call can be followed by a failing
  or crashing repair.  Writes end before the first function is registered
  (`WritesBeforeFunctions`), as the two touch nothing in common.  The proofs lift
  all of these.
* *Query*: two ids and two values, 9 and 10, whose strings are the other way
  round; queries of each kind of scan.  Writes are not bounded: the state is
  finite as it is, since `removals` stops at the number of ids.  The proofs of the
  safety part lift these bounds; liveness is for this instance.

`CHECK_DEADLOCK FALSE` stands in `DocumentStore.cfg` only: with the file full
(`MaxLines`) and unreadable, nothing but a bounded write may be left to do.

### Fairness

`LockManager` and `Query` have liveness.  `FairSpec` of the lock manager assumes
that a polling thread keeps running (weak fairness of its polling steps) and
that the clock advances (weak fairness of `Deadline`): `_acquire` is a loop of a
try, a clock reading and a sleep, which nothing blocks.  Nothing is assumed of
holders: a body may keep its lock for ever, and a call that polls is answered
all the same.

`Query` assumes weak fairness of `Read`: the consumer asks for the next result
until there is none, or closes the generator.  A step of the generator is
never blocked for ever, since `get` has its lock or raises at the deadline.
Nothing is assumed of writers: they may go on for ever, an update moving an id
to the end of the very list that is iterated over, and the query ends, because
ids are finitely many.

## 4. What is proved

TLAPS checks the theorems below for every value of the constants.

* **LockManagerProofs.**  `IInv` is the types, `NoLeakedLock` (the table of the
  OS and the program counters say the same) and `InodeExclusion`; together they
  are inductive.  From it each step of the manager is a step of `RWLock` on the
  inode or changes no lock: `Implementation`.  Assumptions: `Owner` is a
  function, `MaxInode` a number.
* **StorageLemmas.**  What all proofs about storage use.  `Induction`: a set of
  numbers that has 0 and the successor of each of its members below N has all of
  0..N.  It is the theorem on least elements of a well-founded order, which takes
  the set as a set; the induction theorems of the library take an operator.
  `LastLine`: an id that occurs has a last line.  On `Get` and `Scans`: what an
  append changes, and that a file rewritten as a scan of itself has the same
  documents and the same scans (`SameScans`).  On the indexes: what `OnInsert`,
  `OnUpdate`, `OnDelete` and `Rebuild` do to the keys of each id, also when it was
  under those of the new document already, as in a replay (`TakenIntoKeys`).
* **DocumentStoreProofs.**  `ReadsNeverLie` is not inductive: a compaction would
  break it if the list in memory were not a scan of the file.  `IInv` adds that
  while compacting `live` is a scan of `lines` and `tmp` a beginning of `live`,
  and states the expectation of files without garbage.  `InvisibleCompaction`
  follows with `SameScans`, `MinimalCompaction` with `ScanSize` (a scan is a
  bijection of its places to the live ids), `UnreadableStays` from what a write
  makes of a cut-off line (`WrittenLines`).
  `LoopsAlwaysAgree` is about the loops.  A fold of the community modules is a
  function that is chosen, so a first lemma shows that there is one
  (`FoldExists`), and two that a pass of each loop is the body applied to what
  the passes before it returned (`GetLoopPasses`, `SeenPasses`).  After n passes
  `get` has the document of the last of the first n lines of the id, and the dict
  of `scan` has the ids of these lines, ordered by their first line, each with the
  document of its last (`SeenInv`).  So `ScanLoop` is a scan; that it is the only
  one (`ScanLoopOnly`) is `OneScan`: two sequences of the same set in the same
  strict order are equal.
* **StorageEngineProofs.**  In three layers: types and where a call can be (no
  assumption); what the lock gives (`Exclusive`, `ReadIsFresh`, the list of a
  compaction is a scan of the file), for behaviours in which `CompactsAlone`
  always holds; what the indexes owe to the file (`BetweenInv` for the moment
  between the append and the index, `SavedInv` for the files written so far),
  with any damage to the `.idx` files, unreadable ones included.  `Implementation` maps each step to a step
  of `DurableMap` or a stutter.  `CompactsAlone` says that no other call is in
  progress from the moment a compaction replaced the file until it returned.  It
  is a condition on the callers, which the run *StorageEngineRace* shows to be
  needed and *StorageEngine* to leave room: calls may wait for a
  compaction or begin beside it as long as they are over, by a timeout, before
  the replace, or it fails.  What the proof needs of it is that all calls but
  that compaction have the file open that is at the path (`OneFile`).  Where one
  thread uses the database, or no one compacts, it holds anyway (`AloneAnyway`).
* **TransactionProofs.**  All invariants of the run, for any number of
  transactions, lines, ids, documents and indexes.  First `read_entries`: every
  intended entry is in the list, and no id twice (`DedupedIsIntended`), by
  counting the first lines of the ids.  `CommitsHold` needs that an entry which is
  owed waits in the list, or holds and is not overwritten by one that waits
  (`OwedBy`), and that a compaction has the documents but for those that commits
  wrote since (`LiveInv`).  `IndexExact` needs that one write at most has an id
  half indexed and knows what to take out of the index in memory, which has the id
  under the keys of the old or the new document (`Right`), or under some of those
  of its document while a rebuild fills it (`Within`).  Of the files it needs
  that each which is not garbled is right for the ids that nobody is at and no
  save still has to come to (`DiskInv`); a replace keeps that because a save that
  was not disturbed writes the index of that moment (`SaveKept`), and that needs
  who is at which file (`SaveInv`) and that a change which met no other touches
  no id but its own (`ChangeKeys`).  One lemma for each part of the invariant,
  one step for each action.  Assumptions: the document `{}` is a document, no list
  of lines stands for the file that is missing or corrupt, no index for the
  garbled one, and `Single` is no transaction.
* **SchemaCollectionProofs.**  All invariants of the run, for any number of
  threads, customers, orders and emails, in two halves that leave each other
  alone.  `UniqueEmails` needs that the index on email has every document
  whose email is not contested or a thread is about to enter it (`IndexCovers`),
  also after a crash (`FileCovers`), that a compaction has all there is to enter
  (`LiveInv`), that an email found free stays free until it is written
  (`ClaimInv`), that one thread found it (`RivalInv`), and that two threads are
  in the engine together only if a compaction let them, after which all emails are
  contested (`AloneInv`).  `ReverseExact` needs where the order of a call is in the
  lists at each of its steps (`PlaceInv`), that it has one call at a time
  (`SoleInv`) that knows its document (`WrittenInv`, `ReadInv`), that a list which
  is about to go has only lost orders (`WindowInv`), and that a `.ridx` file which
  is not garbled has what memory has but for the calls that have not saved
  (`FileInv`).  Assumptions: `Null`, `NoDoc`, `NoList` and `Garbled` are none of the
  values they stand beside.
* **DatabaseProofs.**  All invariants of the run, for any number of names,
  fields, documents, writers, functions and faults.  `CatalogInv` adds to them
  what each step of a creation or a drop owes to the others: what the manifest
  owes to the engine (`ListInv`), that a write which still counts is of a
  collection that stays (`WriteInv`), that what is being dropped is not counted
  on (`DropInv`), and where a `.jsonl` file is and is not (`FileInv`,
  `OrphanInv`, from which `CanBeOpened` and `FreeNamesAreFree` follow).  One
  lemma for each action, one step for each conjunct.  The functions are proved
  apart, and a step of one part leaves the other's invariant alone.
  Assumptions: `Absent` and `NoFile` are no sets of fields and documents, `NoFn`
  is no callable.
* **QueryProofs.**  All safety properties of `Query`, for any ids, values, string
  orders and lists of predicates, with any writes and compactions between two
  steps of the query.
  First the planner: whatever scan it chooses from the first clause, the keys it
  reads are those of all documents that match, if the strings order the values
  as the numbers do (`PlanCovers`).  Then the index as a list of ids per key: what
  `list.remove`, an append and a rebuild do to the places of the ids
  (`TakenOut`, `Added`, `Filled`), and that `NthKey` is the key at a position
  (`KeyAt`, by counting the keys below it).
  `NothingMissed` is far from inductive, as it speaks of the end of a query only.
  What the invariant counts at any time are the ids that are due and do not stand
  at a place still to be read (`Ahead`): there are at most `removals` of them.  That a place is still
  to be read needs where the positions stand (`ControlInv`), that the lists have
  the live ids under their keys but for the call of the writer (`StoreInv`), and
  that the keys of a range did not change unless `shrunk` or `grown` says so.
  `NotTwice` needs that ids read are behind the position or were written since
  (`HadStep`), `BreaksOnlyWhenShrunk` that the number of keys does not fall below
  the last position.  Each write is reduced to its effect on what the query reads
  (`WriteEffects`), so that each part is one lemma over that effect and one over
  the steps of the query.  The invariant was checked with TLC on the run *Query*
  before it was proved.  Assumptions: `Ids` is finite, `NoDoc` is no
  value, keys are positive numbers, a query is a list of lists of clauses.

Only model-checked: liveness under fairness (`EveryCallAnswered`,
`SelfWaitTimesOut`, `EveryQueryEnds`), which is out of the prover's reach.  All
other properties of the passing runs are theorems.  The five violated properties
are counterexamples of TLC and have nothing to prove.

## 5. Assumptions and what is not modelled

* Documents are JSON-native, as `Validator.validate` makes them, so that a
  document has the same key before it is written and after it was read back.  A
  raw `datetime` given to a `DocumentCollection` or to the engine has not.
* A file is changed by one process.  A second process would replay the `.wal`
  files of this one and overwrite its `.idx` files.
* Writes cut off inside a line, and what the next write makes of the piece, are
  in `DocumentStore`.  In `StorageEngine` and above, a failing append has written
  nothing or the whole line but its newline; a piece that joins the next line and
  makes the file unreadable is not composed with the indexes.  Cut-off `.wal`
  lines are in `Transaction`, but not the `.wal` line that is whole except for its
  newline.
* A method of a `SortedDict` or a list is one step, as the interpreter's lock
  makes it; two of them are two.
* In `Query` a compaction fills the new index in one step, and an insertion is
  of an id that is not live.  `NextKey` reads a key and the list under it in one
  step.  A lock that a query holds for its `get` blocks
  writers for the length of one step, so it is not a state of its own.
* In `Catalog` one thread registers and drops: the calls take no lock, and two
  that overlap would write `manifest.json` through one `.tmp` file.
* A failing `unlink` of the `.wal` file is not modelled.  Failures of the
  single-document calls are in `StorageEngine` and not repeated in
  `Transaction`.
* In `Transaction` single-document calls exclude each other also after a
  compaction replaced the file; that they do not is the run *StorageEngineRace*.
  The reverse index is left out, and no id leaves `stale` again.  A `RuntimeError` of
  `json.dump` over a dict that changes counts as a failed save.
* A collection with both a unique field and a foreign key is not composed; its
  properties are those of `UniqueFields` and `ReverseIndex`.  The index on email
  is saved in one step in `UniqueFields`, and the forward indexes of the orders
  are left out.  A read that fails ends a call without effect and is left out.
  Transactions bypass the constraints altogether (`engine.py` `_apply_entry`)
  and are not in these modules.
* Power loss is not modelled: the code never calls `fsync`, and a write that
  returned is taken to be in the file.
* Windows (`msvcrt.locking`) is not modelled.
* Joins, sorting, slices, projections and aggregates are functions of the list
  of results without a state, and are not modelled: a unit test reaches what is
  delicate about them (`limit(0)`, the place of `None` in a descending sort, a
  `where()` after a `join()`).  Neither are Pydantic validation, document
  collections (calls of the engine without checks), statistics and
  serialization.
* `inspect.getsource`, from which the planner reads a lambda, is Python's:
  `QueryPlan` takes the clauses to be those of the predicate that runs.

## 6. Plan

What is left, in the order of its worth:

1. *A second process* over `StorageEngine` and `Transaction`: two sets of indexes
   in memory over the same files, recovery of a `.wal` file that is in use.
2. *Stored form of documents*: a constant function from the document a client
   gives to the one read back, in `IndexManager` and `StorageEngine`, for keys
   of raw datetimes.
3. *Transactions and constraints* composed: `_apply_entry` bypasses the checks.
4. *Proofs*: that `Transaction` implements an abstract store of transactions, as
   `StorageEngine` implements `DurableMap`.
5. *A run for the commit that a compaction undoes*, which `CommitsHold` excepts.
