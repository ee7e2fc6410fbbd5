------------------------------ MODULE LogLoops ------------------------------
(***************************************************************************)
(* The loops of DocumentStore.get and DocumentStore.scan, line by line.    *)
(* The other modules use the declarative Get and Scans of DocumentLog;     *)
(* that these say what the loops return is LoopsAgree of DocumentStore.    *)
(***************************************************************************)
EXTENDS DocumentLog, SequencesExt

\* Mutant of GetLoop: a tombstone is skipped like a line of another id.
GetLoopSkips(log, id) ==
  FoldLeft(LAMBDA result, rec : IF rec.id # id \/ rec.doc = NoDoc THEN result ELSE rec.doc,
           NoDoc, log)

\* get: one pass, the result overwritten by each line of the id
GetLoop(log, id) ==
  FoldLeft(LAMBDA result, rec : IF rec.id # id THEN result ELSE rec.doc,
           NoDoc, log)

\* scan: the dict `seen' as its keys in order and its value for each ...
Seen(seen, rec) ==
  [keys  |-> IF Contains(seen.keys, rec.id) THEN seen.keys ELSE Append(seen.keys, rec.id),
   value |-> [seen.value EXCEPT ![rec.id] = rec.doc]]

SeenDict(log) ==
  FoldLeft(Seen, [keys |-> <<>>, value |-> [id \in Ids |-> NoDoc]], log)

\* ... and the loop over its items, which yields those that are no tombstone
Yield(seen, list, id) ==
  IF seen.value[id] = NoDoc THEN list ELSE Append(list, DocLine(id, seen.value[id]))

ScanLoop(log) ==
  LET seen == SeenDict(log)
  IN  FoldLeft(LAMBDA list, id : Yield(seen, list, id), <<>>, seen.keys)
=============================================================================
