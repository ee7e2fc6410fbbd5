------------------------------- MODULE Query -------------------------------
(***************************************************************************)
(* A query that runs while the collection is written: the lazy scan of     *)
(* query/executor.py over lookup() and range_scan() of the index, which    *)
(* hold no lock between two results, so that the consumer of the results   *)
(* or another thread inserts, updates, deletes and compacts in between.    *)
(*                                                                         *)
(* Here the list of ids of a key is a sequence, as the code iterates over  *)
(* it by position; so is the list of keys, one sublist of the SortedDict   *)
(* (which has one up to 2000 keys).                                        *)
(***************************************************************************)
EXTENDS QueryPlan, FiniteSets, SequencesExt

CONSTANTS
  Ids,
  NoDoc,
  Queries   \* those that clients make

ASSUME NoDocAssumption == NoDoc \notin Values

ASSUME IdsAssumption == IsFiniteSet(Ids)

\* A query is a list of predicates, none of them without a clause.
ASSUME QueriesAssumption ==
  \A q \in Queries : /\ q \in Seq(Seq(Clauses))
                     /\ \A i \in DOMAIN q : q[i] # <<>>

Keys == {Key[v] : v \in Values}

Empty == [k \in Keys |-> <<>>]

VARIABLES
  docs,       \* the live documents: the value of the field of each
  lists,      \* the index: the ids of each key, <<>> for a key it has not
  writer,     \* the write that has the exclusive lock, and its locals
  reader,     \* where the query is
  query, plan,
  at, end,    \* the positions of the keys of a range: the next, the last
  key, pos,   \* how far the iteration over the list of a key is
  gone,       \* that list was emptied, and is no longer in the index
  keysGone,   \* the same of the list of keys
  old,        \* the index that a compaction replaced under the query, or {}
  id,         \* the id whose document is to be read
  results,    \* those that the last step yielded
  due,        \* history: the ids that matched from the start on and are still to
              \* be yielded, which are none when an exception applies
  had,        \* history: the ids yielded and not written since the start, which
              \* are none once a range got a new key
  removals,   \* history: how many ids left the lists that plan names
  shrunk      \* history: the list of keys of a range lost one

store == <<docs, lists, writer>>
cursor == <<query, plan, at, end, key, pos, id>>
held == <<gone, keysGone, old>>
history == <<due, had, removals, shrunk>>
vars == <<store, reader, cursor, held, results, history>>

Idle == [pc |-> "idle", id |-> NoDoc, before |-> NoDoc, after |-> NoDoc]

Running == reader # "idle"

\* the index that the query iterates over
Index == IF old = {} THEN lists ELSE CHOOSE index \in old : TRUE

\* the documents that belong under a key
Under(k) == {i \in Ids : docs[i] # NoDoc /\ Key[docs[i]] = k}

KeysOf(index) == {k \in Keys : index[k] # <<>>}

Below(index, k) == Cardinality({j \in KeysOf(index) : j < k})

NthKey(index, n) == CHOOSE k \in KeysOf(index) : Below(index, k) = n - 1

-----------------------------------------------------------------------------

Init ==
  /\ docs = [i \in Ids |-> NoDoc]
  /\ lists = Empty
  /\ writer = Idle
  /\ reader = "idle"
  /\ query = <<>> /\ plan = FullScan
  /\ at = 0 /\ end = 0 /\ key = 0 /\ pos = 0 /\ id = NoDoc
  /\ gone = FALSE /\ keysGone = FALSE /\ old = {}
  /\ results = {}
  /\ due = {} /\ had = {} /\ removals = 0 /\ shrunk = FALSE

-----------------------------------------------------------------------------
(* Writes; each holds the exclusive lock from AppendLine or Compact on *)

\* A full scan keeps the shared lock until its last result.
Unlocked == writer = Idle /\ reader # "last"

\* insert() of a new id, update(), and delete(), after which there is no document
AppendLine(i, after) ==
  /\ Unlocked
  /\ docs' = [docs EXCEPT ![i] = after]
  /\ writer' = [pc |-> "unlist", id |-> i, after |-> after,
                before |-> docs[i]]
  /\ due' = due \ {i} /\ had' = had \ {i}
  /\ UNCHANGED <<lists, reader, cursor, held, results, removals, shrunk>>

\* the query iterates over the index that the writes change
Live == Running /\ plan.scan # "full" /\ old = {}

\* What the query notices when the index it iterates over becomes index.
Notice(index) ==
  /\ gone' = (gone \/ (Live /\ key # 0 /\ index[key] = <<>>))
  /\ IF Live /\ plan.scan = "range"
     THEN LET added == ~(KeysOf(index) \subseteq KeysOf(lists))
              removed == ~(KeysOf(lists) \subseteq KeysOf(index)) IN
          /\ keysGone' = (keysGone \/ KeysOf(index) = {})
          /\ due' = IF added \/ removed THEN {} ELSE due
          /\ had' = IF added THEN {} ELSE had
          /\ shrunk' = (shrunk \/ removed)
     ELSE UNCHANGED <<keysGone, due, had, shrunk>>

\* Mutant of TakeOut: nothing is.
TakeOutNot(list, i) == list

TakeOut(list, i) == RemoveFirst(list, i)

\* _remove_from_indexes
Unlist ==
  /\ writer.pc = "unlist"
  /\ writer' = [writer EXCEPT !.pc = "list"]
  /\ IF writer.before = NoDoc
     THEN UNCHANGED <<lists, gone, keysGone, history>>
     ELSE /\ lists' = [lists EXCEPT ![Key[writer.before]] = TakeOut(@, writer.id)]
          /\ removals' = IF /\ Live /\ Key[writer.before] \in plan.low .. plan.high
                            /\ removals < Cardinality(Ids)
                         THEN removals + 1 ELSE removals
          /\ Notice(lists')
  /\ UNCHANGED <<docs, reader, cursor, old, results>>

\* Mutant of Add: in front.
AddInFront(list, i) == IF i \in ToSet(list) THEN list ELSE <<i>> \o list

Add(list, i) == IF i \in ToSet(list) THEN list ELSE Append(list, i)

\* _add_to_indexes, save(), and the end of the with block
List ==
  /\ writer.pc = "list"
  /\ writer' = Idle
  /\ IF writer.after = NoDoc
     THEN UNCHANGED <<lists, gone, keysGone, due, had, shrunk>>
     ELSE /\ lists' = [lists EXCEPT ![Key[writer.after]] = Add(@, writer.id)]
          /\ Notice(lists')
  /\ UNCHANGED <<docs, reader, cursor, old, results, removals>>

\* compact(): rebuild() starts with new, empty indexes.  A query that runs keeps
\* the old one, which nothing changes any more.
Compact ==
  /\ Unlocked
  /\ writer' = [Idle EXCEPT !.pc = "rebuild"]
  /\ lists' = Empty
  /\ old' = IF Live THEN {lists} ELSE old
  /\ UNCHANGED <<docs, reader, cursor, gone, keysGone, results, history>>

\* ... and then adds the documents in the order of the scan, which may be any.
Fill ==
  /\ writer.pc = "rebuild"
  /\ writer' = Idle
  /\ \E order \in [Keys -> UNION {SetToSeqs(S) : S \in SUBSET Ids}] :
       /\ \A k \in Keys : order[k] \in SetToSeqs(Under(k))
       /\ lists' = order
  /\ UNCHANGED <<docs, reader, cursor, held, results, history>>

-----------------------------------------------------------------------------
(* The query *)

\* Mutant of LastPosition: without the key that equals high.
LastPositionBefore(high) == Below(lists, high)

\* Mutant of LastPosition: one too far.
LastPositionPast(high) == Below(lists, high + 1) + 1

LastPosition(high) == Below(lists, high + 1)

\* The first result is asked for.  What the iteration needs of the index is
\* looked up, without a lock: the list of a key, or the positions of the keys of
\* a range.
Start(q) ==
  LET p == Plan(q) IN
  /\ ~Running
  /\ query' = q /\ plan' = p
  /\ reader' = CASE p.scan = "full" -> "scan"
                  [] p.scan = "range" -> "keys"
                  [] p.scan = "lookup" -> "take"
  /\ at' = Below(lists, p.low) + 1
  /\ end' = LastPosition(p.high)
  /\ key' = IF p.scan = "lookup" THEN p.low ELSE 0
  /\ pos' = 0 /\ id' = NoDoc
  /\ gone' = (p.scan = "lookup" /\ lists[p.low] = <<>>)
  /\ keysGone' = FALSE /\ old' = {}
  /\ results' = {}
  /\ due' = IF writer.pc = "rebuild" THEN {}
             ELSE {i \in Ids \ {writer.id} :
                     docs[i] # NoDoc /\ Matches(q, docs[i]) /\ InOrder(q, docs[i])}
  /\ had' = {} /\ removals' = 0 /\ shrunk' = FALSE
  /\ UNCHANGED store

\* the next key of irange(): the list of keys is read at a position
NextKey ==
  /\ reader = "keys" /\ at <= end
  /\ ~keysGone /\ at <= Cardinality(KeysOf(Index))
  /\ reader' = "take"
  /\ key' = NthKey(Index, at) /\ pos' = 0 /\ gone' = FALSE
  /\ at' = at + 1
  /\ UNCHANGED <<store, query, plan, end, id, keysGone, old, results, history>>

ListAtEnd == gone \/ pos >= Len(Index[key])

\* the next id of the list, also read at a position
Take ==
  /\ reader = "take" /\ ~ListAtEnd
  /\ reader' = "get"
  /\ id' = Index[key][pos + 1] /\ pos' = pos + 1
  /\ results' = {}
  /\ UNCHANGED <<store, query, plan, at, end, key, held, history>>

\* _apply_predicates
Passes(v) == v # NoDoc /\ Matches(query, v)

Result(i, hasId) == [id |-> i, value |-> docs[i], hasId |-> hasId]

\* engine.get under the shared lock, which strips the _id of the document, and
\* the predicates
Fetch ==
  /\ reader = "get" /\ writer = Idle
  /\ reader' = "take" /\ id' = NoDoc
  /\ IF Passes(docs[id])
     THEN /\ results' = {Result(id, FALSE)}
          /\ due' = due \ {id}
          /\ had' = had \cup ({id} \cap due)
     ELSE UNCHANGED <<results, due, had>>
  /\ UNCHANGED <<store, query, plan, at, end, key, pos, held, removals, shrunk>>

ListEnds ==
  /\ reader = "take" /\ ListAtEnd /\ plan.scan = "range"
  /\ reader' = "keys"
  /\ key' = 0 /\ pos' = 0 /\ gone' = FALSE
  /\ results' = {}
  /\ UNCHANGED <<store, query, plan, at, end, id, keysGone, old, history>>

\* engine.scan: the whole of the file is read, under the shared lock.
ScanAll ==
  /\ reader = "scan" /\ writer = Idle
  /\ reader' = "last"
  /\ results' = {Result(i, TRUE) : i \in {j \in Ids : Passes(docs[j])}}
  /\ due' = {i \in due : ~Passes(docs[i])}
  /\ UNCHANGED <<store, cursor, held, had, removals, shrunk>>

\* All results were yielded.
AtEnd ==
  \/ reader = "take" /\ ListAtEnd /\ plan.scan = "lookup"
  \/ reader = "keys" /\ at > end
  \/ reader = "last"

\* IndexError: the list of keys is shorter than it was.
Broken == reader = "keys" /\ at <= end /\ (keysGone \/ at > Cardinality(KeysOf(Index)))

\* Mutant of NoLock: there is no deadline.
NoLockEver == FALSE

\* LockTimeoutError
NoLock == reader \in {"get", "scan"} /\ writer # Idle

Dispose ==
  /\ reader' = "idle"
  /\ query' = <<>> /\ plan' = FullScan
  /\ at' = 0 /\ end' = 0 /\ key' = 0 /\ pos' = 0 /\ id' = NoDoc
  /\ gone' = FALSE /\ keysGone' = FALSE /\ old' = {}
  /\ results' = {}
  /\ due' = {} /\ had' = {} /\ removals' = 0 /\ shrunk' = FALSE
  /\ UNCHANGED store

Finish == (AtEnd \/ Broken \/ NoLock) /\ Dispose

\* The consumer does not ask for more: first(), limit(), a break.
Close == Running /\ Dispose

Write ==
  \/ \E i \in Ids, after \in Values \cup {NoDoc} : AppendLine(i, after)
  \/ Unlist \/ List
  \/ Compact \/ Fill

Read == NextKey \/ Take \/ Fetch \/ ListEnds \/ ScanAll \/ Finish

Next ==
  \/ Write
  \/ Read \/ Close
  \/ \E q \in Queries : Start(q)

\* The consumer asks for the next result until there is none, or closes.
Spec == Init /\ [][Next]_vars /\ WF_vars(Read)

-----------------------------------------------------------------------------
(* Properties *)

\* The variables keep their types; between two writes the index has each document
\* once, under its key.
TypeOK ==
  /\ docs \in [Ids -> Values \cup {NoDoc}]
  /\ \A k \in Keys : lists[k] \in Seq(Ids) /\ IsInjective(lists[k])
  /\ writer = Idle =>
       \A k \in Keys : ToSet(lists[k]) = Under(k)
  /\ writer.pc \in {"idle", "unlist", "list", "rebuild"}
  /\ reader \in {"idle", "scan", "keys", "take", "get", "last"}
  /\ query \in Queries \cup {<<>>}
  /\ at \in Nat /\ end \in Nat /\ pos \in Nat /\ key \in Keys \cup {0}
  /\ id \in Ids \cup {NoDoc}
  /\ results \subseteq [id : Ids, value : Values, hasId : BOOLEAN]
  /\ due \subseteq Ids /\ had \subseteq Ids \ due
  /\ removals \in 0 .. Cardinality(Ids)
  /\ shrunk \in BOOLEAN

\* A query that comes to its end has yielded the documents that matched from its
\* start on, all but as many as ids were taken out of the lists it reads.
\* Excepted are a query that started while a compaction rebuilt the index, a
\* range whose keys changed, and values that their strings do not put in order
\* (index_manager.py:245-280; the last are the run QueryTransparency).
NothingMissed == AtEnd => Cardinality(due) <= removals

\* Only an id that was written meanwhile is looked at twice, and in a range also
\* one whose key a new key moved.
NotTwice == reader = "get" => id \notin had

\* A range raises an IndexError only after a key was removed.
BreaksOnlyWhenShrunk == Broken => shrunk

\* A query ends, although an update puts an id back at the end of the list that
\* is iterated over, and the writes to finitely many ids never cease
\* (executor.py:120-136, lock_manager.py:117-124).
EveryQueryEnds == Running ~> ~Running

\* An index changes how a query finds its results and not what they are: the
\* scan that the planner chooses, for "c["age"] >= 18" on an indexed number too
\* (README.md:272-274), goes over the keys of all documents that match, as
\* range_scan promises (index_manager.py:263), and each result "includes
\* ``_id``" (executor.py:116), as those of a full scan do.
IndexIsTransparent ==
  /\ [][~Running /\ Running' /\ writer = Idle /\ plan'.scan # "full" =>
          \A i \in Ids : docs[i] # NoDoc /\ Matches(query', docs[i]) =>
            Key[docs[i]] \in plan'.low .. plan'.high]_vars
  /\ [](\A r \in results : r.hasId)
=============================================================================
