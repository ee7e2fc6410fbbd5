---------------------------- MODULE DocumentLog ----------------------------
(***************************************************************************)
(* What the lines of one collection's .jsonl file mean.                    *)
(*                                                                         *)
(* The file is append-only: a line is the newest version of a document or  *)
(* a tombstone, and for each id the last line decides.  A document is a    *)
(* value of Docs; its fields are abstracted to what the indexes read of    *)
(* it (module IndexManager).  A tombstone, {"_deleted": true, "_id": id},  *)
(* is the line whose doc is NoDoc, so "deleted" and "never written" read   *)
(* the same, as they do in the code.                                       *)
(***************************************************************************)
EXTENDS Naturals, Sequences, FiniteSets

CONSTANTS
  Ids,     \* the _id of every document the clients may name
  Docs,    \* the versions a document can have
  NoDoc    \* what get() returns when there is nothing to return (None)

ASSUME NoDocAssumption == NoDoc \notin Docs

Values == Docs \cup {NoDoc}

Line == [id : Ids, doc : Values]

DocLine(id, doc) == [id |-> id, doc |-> doc]

-----------------------------------------------------------------------------

Occurs(log, id) == \E i \in DOMAIN log : log[i].id = id

IsLast(log, i) == \A j \in DOMAIN log : log[j].id = log[i].id => j <= i

\* DocumentStore.get: the last line for id decides; a tombstone reads as None.
Get(log, id) ==
  IF Occurs(log, id)
  THEN log[CHOOSE i \in DOMAIN log : log[i].id = id /\ IsLast(log, i)].doc
  ELSE NoDoc

Contents(log) == [id \in Ids |-> Get(log, id)]

LiveIds(log) == {id \in Ids : Get(log, id) # NoDoc}

LiveLines(log) == {DocLine(id, Get(log, id)) : id \in LiveIds(log)}

\* The first line of id comes before every line of id2.
FirstBefore(log, id, id2) ==
  \E i \in DOMAIN log :
     /\ log[i].id = id
     /\ \A j \in DOMAIN log : log[j].id = id2 => i < j

(***************************************************************************)
(* DocumentStore.scan fills a dict keyed by id: one entry for each live    *)
(* document, holding its newest version, in the order in which the ids     *)
(* FIRST occur in the file (a dict keeps the place of a key it already     *)
(* has, also that of a document deleted and inserted again).               *)
(***************************************************************************)
IsScan(s, log) ==
  /\ s \in Seq(Line)
  /\ \A i \in DOMAIN s : s[i].doc # NoDoc /\ s[i].doc = Get(log, s[i].id)
  /\ \A id \in LiveIds(log) : Occurs(s, id)
  /\ \A i, j \in DOMAIN s : i < j => /\ s[i].id # s[j].id
                                     /\ FirstBefore(log, s[i].id, s[j].id)

Scans(log) ==
  {s \in [1 .. Cardinality(LiveIds(log)) -> LiveLines(log)] : IsScan(s, log)}

\* DocumentStore.count_lines, as StorageEngine.get_stats uses it.
TombstoneLines(log) == {i \in DOMAIN log : log[i].doc = NoDoc}

DocumentCount(log) == Len(log) - Cardinality(TombstoneLines(log))
=============================================================================
