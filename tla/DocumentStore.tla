--------------------------- MODULE DocumentStore ---------------------------
(***************************************************************************)
(* storage/document_store.py: one collection's .jsonl file on a disk whose *)
(* writes can fail half way (a full disk, a process killed in write()).    *)
(*                                                                         *)
(* A failed write may leave the beginning of a line in the file.  The next *)
(* write continues that line, and a line made of two pieces is no JSON:    *)
(* it stays Garbage, and every read of the file that meets it raises       *)
(* StorageError.  Calls of one store do not overlap here; who may call at  *)
(* the same time is the lock's business (LockManager, StorageEngine).      *)
(***************************************************************************)
EXTENDS LogLoops

CONSTANTS
  NoId,       \* the id of a line that cannot be parsed
  MaxLines    \* bound: no write is tried on a longer file

ASSUME NoIdAssumption == NoId \notin Ids

VARIABLES
  exists,     \* the .jsonl file is there
  lines,      \* its lines
  unended,    \* its last line has no "\n": a write was cut off in it
  phase,      \* "idle", or "compacting" while compact() writes the .tmp file
  live,       \* compact(): the list it was given, still in memory
  tmp,        \* the lines of the .jsonl.tmp file (<<>> too when it is not there)
  expected    \* history: what a reader of each id may be shown

vars == <<exists, lines, unended, phase, live, tmp, expected>>

Garbage == [id |-> NoId, doc |-> NoDoc]

\* _parse raises StorageError on Garbage, so every reader of the file fails.
Readable == exists /\ \A i \in DOMAIN lines : lines[i] # Garbage

-----------------------------------------------------------------------------

Init ==
  /\ exists = FALSE
  /\ lines = <<>>
  /\ unended = FALSE
  /\ phase = "idle"
  /\ live = <<>>
  /\ tmp = <<>>
  /\ expected = [id \in Ids |-> {NoDoc}]

Create ==
  /\ phase = "idle" /\ ~exists
  /\ exists' = TRUE
  /\ UNCHANGED <<lines, unended, phase, live, tmp, expected>>

\* unlink leaves the .tmp file of an interrupted compaction behind
Destroy ==
  /\ phase = "idle" /\ exists
  /\ exists' = FALSE
  /\ lines' = <<>>
  /\ unended' = FALSE
  /\ expected' = [id \in Ids |-> {NoDoc}]
  /\ UNCHANGED <<phase, live, tmp>>

\* Mutant of Written: a cut-off line is overwritten by the next one.
WrittenOver(text) ==
  IF unended THEN [lines EXCEPT ![Len(lines)] = text] ELSE Append(lines, text)

\* The file after `text' was written at its end, "a" mode: on a cut-off line
\* both pieces become one line that is no JSON.
Written(text) ==
  IF unended THEN [lines EXCEPT ![Len(lines)] = Garbage]
             ELSE Append(lines, text)

\* _write_line for append() (doc in Docs) and tombstone() (doc = NoDoc);
\* opening with "a" creates a missing file.
WriteLine(id, doc) ==
  /\ phase = "idle" /\ Len(lines) < MaxLines
  /\ exists' = TRUE
  /\ lines' = Written(DocLine(id, doc))
  /\ unended' = FALSE
  /\ expected' = [expected EXCEPT ![id] = {doc}]
  /\ UNCHANGED <<phase, live, tmp>>

\* The write raises OSError, or the process dies in it, after a part of the
\* line: a beginning that is no JSON, or all of it but the "\n".
WriteFails(id, doc) ==
  /\ phase = "idle" /\ Len(lines) < MaxLines
  /\ exists' = TRUE
  /\ \E text \in {Garbage, DocLine(id, doc)} : lines' = Written(text)
  /\ unended' = TRUE
  /\ expected' = [expected EXCEPT ![id] = @ \cup {doc}]
  /\ UNCHANGED <<phase, live, tmp>>

\* Mutant of CompactStart: the list is every line that is no tombstone.
CompactStartRaw ==
  /\ phase = "idle" /\ Readable
  /\ live' = SelectSeq(lines, LAMBDA rec : rec.doc # NoDoc)
  /\ phase' = "compacting"
  /\ tmp' = <<>>
  /\ UNCHANGED <<exists, lines, unended, expected>>

\* live = list(store.scan()); compact(live) opens the .tmp file, truncating it
CompactStart ==
  /\ phase = "idle" /\ Readable
  /\ live' \in Scans(lines)
  /\ phase' = "compacting"
  /\ tmp' = <<>>
  /\ UNCHANGED <<exists, lines, unended, expected>>

CompactWrite ==
  /\ phase = "compacting" /\ Len(tmp) < Len(live)
  /\ tmp' = Append(tmp, live[Len(tmp) + 1])
  /\ UNCHANGED <<exists, lines, unended, phase, live, expected>>

\* Mutant of CompactReplace: the file is replaced before all is written.
CompactReplaceEarly ==
  /\ phase = "compacting"
  /\ lines' = tmp
  /\ unended' = FALSE
  /\ phase' = "idle"
  /\ live' = <<>>
  /\ tmp' = <<>>
  /\ UNCHANGED <<exists, expected>>

\* Mutant of CompactReplace: the lines are joined, with no "\n" after the last.
CompactReplaceJoined ==
  /\ phase = "compacting" /\ Len(tmp) = Len(live)
  /\ lines' = tmp
  /\ unended' = TRUE
  /\ phase' = "idle"
  /\ live' = <<>>
  /\ tmp' = <<>>
  /\ UNCHANGED <<exists, expected>>

\* tmp.replace(path)
CompactReplace ==
  /\ phase = "compacting" /\ Len(tmp) = Len(live)
  /\ lines' = tmp
  /\ unended' = FALSE
  /\ phase' = "idle"
  /\ live' = <<>>
  /\ tmp' = <<>>
  /\ UNCHANGED <<exists, expected>>

\* Mutant of CompactFails: the error path replaces the file as well.
CompactFailsReplaces ==
  /\ phase = "compacting"
  /\ lines' = tmp
  /\ unended' = FALSE
  /\ phase' = "idle"
  /\ live' = <<>>
  /\ tmp' = <<>>
  /\ UNCHANGED <<exists, expected>>

\* an OSError while writing or replacing: unlink the .tmp file, raise
CompactFails ==
  /\ phase = "compacting"
  /\ phase' = "idle"
  /\ live' = <<>>
  /\ tmp' = <<>>
  /\ UNCHANGED <<exists, lines, unended, expected>>

\* the process dies in compact(): the .tmp file stays as it is
Crash ==
  /\ phase = "compacting"
  /\ phase' = "idle"
  /\ live' = <<>>
  /\ UNCHANGED <<exists, lines, unended, tmp, expected>>

Next ==
  \/ Create
  \/ Destroy
  \/ \E id \in Ids, doc \in Values : WriteLine(id, doc) \/ WriteFails(id, doc)
  \/ CompactStart
  \/ CompactWrite
  \/ CompactReplace
  \/ CompactFails
  \/ Crash

Spec == Init /\ [][Next]_vars

-----------------------------------------------------------------------------
(* Properties *)

\* The variables keep their types; a file that does not exist has no lines.
TypeOK ==
  /\ exists \in BOOLEAN
  /\ lines \in Seq(Line \cup {Garbage})
  /\ unended \in BOOLEAN
  /\ unended => lines # <<>>
  /\ ~exists => lines = <<>>
  /\ phase \in {"idle", "compacting"}
  /\ live \in Seq(Line)
  /\ tmp \in Seq(Line)
  /\ expected \in [Ids -> SUBSET Values]

\* A file that can be read at all shows, for each id, the last write that
\* succeeded or a failed one after it (document_store.py get and scan):
\* failed writes, compactions and crashes never make a read return a value
\* that was superseded, and never lose an acknowledged write in silence.
ReadsNeverLie ==
  Readable => \A id \in Ids : Get(lines, id) \in expected[id]

\* The loops of get() and scan() return what the declarative definitions
\* say, and scan() has one result (document_store.py get, scan).
LoopsAgree ==
  Readable =>
    /\ Scans(lines) = {ScanLoop(lines)}
    /\ \A id \in Ids : Get(lines, id) = GetLoop(lines, id)

\* No step of a compaction, finished, failed or cut off by a crash, changes
\* what scan() yields, its order included (document_store.py compact).
CompactionInvisible ==
  [][phase = "compacting" => Scans(lines') = Scans(lines)]_vars

\* Once the file is replaced each live document has one line and nothing
\* else has any, so that get_stats counts what is there.
CompactionMinimal ==
  [][phase = "compacting" /\ lines' # lines =>
       DocumentCount(lines') = Cardinality(LiveIds(lines))
       /\ Len(lines') = Cardinality(LiveIds(lines))]_vars

\* A file that became unreadable stays so until it is destroyed: no write
\* and no compaction turns lost lines into a file that reads well again.
UnreadableIsForGood ==
  [][exists /\ ~Readable => ~Readable']_vars
=============================================================================
