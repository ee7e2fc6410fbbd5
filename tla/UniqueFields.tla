---------------------------- MODULE UniqueFields ----------------------------
(***************************************************************************)
(* A unique field of a schema collection: schema/collection.py with        *)
(* UniqueConstraintChecker of schema/constraints.py, over the engine's     *)
(* insert, update, delete and compact.  A customer has a unique field, the *)
(* email, which is all that is kept of the document.                       *)
(*                                                                         *)
(* The check looks the email up in the index and takes no lock, so it sees *)
(* the index between any two steps of a write or of a compaction; and what *)
(* it found may have changed when the document is written.                 *)
(***************************************************************************)
CONSTANTS
  Customers,   \* the ids
  Emails,
  Null,        \* None, as the value of the field
  NoDoc,       \* None, as what get() returns
  Threads,
  Ops          \* what the clients do, of those in Calls

VARIABLES
  docs,        \* the live documents
  emailIdx,    \* the index on email in memory: pairs of an email and a customer
  emailFile,   \* its .idx file
  pc, call,    \* where each thread is, and in which call
  old,         \* the document that a write of the engine replaces
  live,        \* the pairs that a compaction still has to enter
  unsaved,     \* history: the emails whose save raised, and no save came since
  contested    \* history: the emails of which UniqueEmails says nothing

vars == <<docs, emailIdx, emailFile, pc, call, old, live, unsaved, contested>>

engine == <<docs, emailIdx, emailFile>>
history == <<unsaved, contested>>

Compaction == [op |-> "compact", id |-> NoDoc, doc |-> NoDoc]

Calls ==
  [op : {"insert", "update"}, id : Customers, doc : Emails \cup {Null}]
  \cup [op : {"delete"}, id : Customers, doc : {NoDoc}] \cup {Compaction}

NoCall == [op |-> "none", id |-> NoDoc, doc |-> NoDoc]

Pcs == {"idle", "read", "check", "write", "unlist", "list", "rebuild", "fill", "save"}

\* The index has no posting of None that anything looks up.
Postings(doc, id) == ({doc} \cap Emails) \X {id}

Email(t) == {call[t].doc} \cap Emails

Go(t, from, to) == pc[t] = from /\ pc' = [pc EXCEPT ![t] = to]

\* The call is over, with an answer or an error.
End(t, from) ==
  /\ Go(t, from, "idle")
  /\ call' = [call EXCEPT ![t] = NoCall]
  /\ old' = [old EXCEPT ![t] = NoDoc]

-----------------------------------------------------------------------------

Init ==
  /\ docs = [id \in Customers |-> NoDoc]
  /\ emailIdx = {} /\ emailFile = {}
  /\ pc = [t \in Threads |-> "idle"]
  /\ call = [t \in Threads |-> NoCall]
  /\ old = [t \in Threads |-> NoDoc]
  /\ live = [t \in Threads |-> {}]
  /\ unsaved = {} /\ contested = {}

Start(t, c) ==
  /\ Go(t, "idle", CASE c.op = "insert" -> "check"
                     [] c.op = "compact" -> "write"
                     [] OTHER -> "read")
  /\ call' = [call EXCEPT ![t] = c]
  /\ UNCHANGED <<engine, old, live, history>>

\* engine.get of update() and delete(); update() raises when there is none.
Read(t) ==
  /\ IF call[t].op = "update" /\ docs[call[t].id] = NoDoc
     THEN End(t, "read")
     ELSE /\ Go(t, "read", IF call[t].op = "update" THEN "check" ELSE "write")
          /\ UNCHANGED <<call, old>>
  /\ UNCHANGED <<engine, live, history>>

\* Mutant of EmailIsFree: any document that is updated may take the email.
EmailIsFreeToUpdates(c) ==
  c.op = "insert" => \A owner \in Customers : <<c.doc, owner>> \notin emailIdx

\* check_update ignores the document's own id, check_insert does not; both skip
\* None.
EmailIsFree(c) ==
  \A owner \in Customers :
     <<c.doc, owner>> \in emailIdx => c.op = "update" /\ owner = c.id

\* The index does not show that the email is taken: of a call that found it
\* free as well and has not listed it yet, which an update that keeps its email
\* is between on_update's removal and its entry; or of any document, while
\* rebuild() has not entered it again.
Unseen(t) ==
  \E u \in Threads \ {t} :
     \/ pc[u] \in {"write", "unlist", "list"} /\ call[u].doc = call[t].doc
     \/ pc[u] = "fill"

Check(t) ==
  /\ Go(t, "check", "write")
  /\ EmailIsFree(call[t])
  /\ contested' = IF Unseen(t) THEN contested \cup Email(t) ELSE contested
  /\ UNCHANGED <<engine, call, old, live, unsaved>>

\* UniqueConstraintError
CheckRefuses(t) ==
  /\ End(t, "check")
  /\ ~EmailIsFree(call[t])
  /\ UNCHANGED <<engine, live, history>>

-----------------------------------------------------------------------------
(* engine.insert, update, delete and compact, in the lock of the .jsonl file *)

Inside(u) == pc[u] \in {"unlist", "list", "rebuild", "fill", "save"}

\* A compaction has replaced the locked file when it comes to "rebuild", and
\* keeps nobody out of the new one.
Locked(t) == \A u \in Threads \ {t} : Inside(u) => call[u].op = "compact"

\* What is written while it rebuilds is off, or taken for off.
Disputed(t) == IF \E u \in Threads \ {t} : Inside(u) THEN Emails ELSE {}

\* The line is in the file.  An insert does not look for a live document of its
\* id, and does not remove the posting of one.
Append(t) ==
  LET c == call[t] IN
  /\ c.op # "compact" /\ Locked(t)
  /\ Go(t, "write", IF c.op = "insert" THEN "list" ELSE "unlist")
  /\ docs' = [docs EXCEPT ![c.id] = c.doc]
  /\ old' = [old EXCEPT ![t] = docs[c.id]]
  /\ contested' = contested \cup Disputed(t)
  /\ UNCHANGED <<emailIdx, emailFile, call, live, unsaved>>

\* LockTimeoutError, or StorageError: nothing is written, ...
WriteFails(t) ==
  /\ End(t, "write")
  /\ UNCHANGED <<engine, live, history>>

\* ... or the line is, but for its newline, and the index is not.
WriteFailsLate(t) ==
  LET c == call[t] IN
  /\ c.op # "compact" /\ Locked(t)
  /\ End(t, "write")
  /\ docs' = [docs EXCEPT ![c.id] = c.doc]
  /\ contested' = contested \cup Email(t) \cup Disputed(t)
  /\ UNCHANGED <<emailIdx, emailFile, live, unsaved>>

\* on_update, on_delete: _remove_from_indexes ...
Unlist(t) ==
  /\ Go(t, "unlist", IF call[t].op = "delete" THEN "save" ELSE "list")
  /\ emailIdx' = emailIdx \ Postings(old[t], call[t].id)
  /\ UNCHANGED <<docs, emailFile, call, old, live, history>>

\* ... on_insert, on_update: _add_to_indexes
List(t) ==
  /\ Go(t, "list", "save")
  /\ emailIdx' = emailIdx \cup Postings(call[t].doc, call[t].id)
  /\ UNCHANGED <<docs, emailFile, call, old, live, history>>

\* The live documents are read and the file is replaced.
Rewrite(t) ==
  /\ call[t].op = "compact" /\ Locked(t)
  /\ Go(t, "write", "rebuild")
  /\ live' = [live EXCEPT ![t] = {p \in Emails \X Customers : docs[p[2]] = p[1]}]
  /\ contested' = contested \cup Disputed(t)
  /\ UNCHANGED <<engine, call, old, unsaved>>

\* rebuild() makes a new index ...
Rebuild(t) ==
  /\ Go(t, "rebuild", "fill")
  /\ emailIdx' = {}
  /\ UNCHANGED <<docs, emailFile, call, old, live, history>>

\* ... and enters one document after another.
Fill(t) ==
  /\ pc[t] = "fill"
  /\ \E p \in live[t] :
       /\ emailIdx' = emailIdx \cup {p}
       /\ live' = [live EXCEPT ![t] = @ \ {p}]
  /\ UNCHANGED <<docs, emailFile, pc, call, old, history>>

Filled(t) ==
  /\ live[t] = {}
  /\ Go(t, "fill", "save")
  /\ UNCHANGED <<engine, call, old, live, history>>

Save(t) ==
  /\ End(t, "save")
  /\ emailFile' = emailIdx
  /\ unsaved' = {}
  /\ UNCHANGED <<docs, emailIdx, live, contested>>

\* StorageError: of all that the call did, only the file is not written.
SaveFails(t) ==
  /\ End(t, "save")
  /\ unsaved' = unsaved \cup Email(t)
  /\ UNCHANGED <<engine, live, contested>>

\* The process dies and is started again, and loads the .idx file.
Crash ==
  /\ emailIdx' = emailFile
  /\ pc' = [t \in Threads |-> "idle"]
  /\ call' = [t \in Threads |-> NoCall]
  /\ old' = [t \in Threads |-> NoDoc]
  /\ live' = [t \in Threads |-> {}]
  /\ contested' = contested \cup unsaved
                  \cup UNION {Email(t) : t \in {t \in Threads : Inside(t)}}
  /\ unsaved' = {}
  /\ UNCHANGED <<docs, emailFile>>

ThreadNext(t) ==
  \/ \E c \in Calls : c.op \in Ops /\ Start(t, c)
  \/ Read(t)
  \/ Check(t) \/ CheckRefuses(t)
  \/ Append(t) \/ WriteFails(t) \/ WriteFailsLate(t)
  \/ Unlist(t) \/ List(t)
  \/ Rewrite(t) \/ Rebuild(t) \/ Fill(t) \/ Filled(t)
  \/ Save(t) \/ SaveFails(t)

-----------------------------------------------------------------------------
(* Properties *)

\* The variables keep their types.
TypeOK ==
  /\ docs \in [Customers -> Emails \cup {Null, NoDoc}]
  /\ emailIdx \subseteq Emails \X Customers
  /\ emailFile \subseteq Emails \X Customers
  /\ pc \in [Threads -> Pcs]
  /\ call \in [Threads -> Calls \cup {NoCall}]
  /\ old \in [Threads -> Emails \cup {Null, NoDoc}]
  /\ live \in [Threads -> SUBSET (Emails \X Customers)]
  /\ unsaved \subseteq Emails /\ contested \subseteq Emails

\* No two customers have one email (constraints.py:36-88, collection.py:83-86),
\* but for the emails that a call found free while another call on them had not
\* listed them yet or while a compaction was filling the index, those whose
\* posting was cut off from the index or from its file by an error or a crash,
\* and those written while a compaction that had replaced the file was at work.
\* Inserts over a live id, refused calls, updates that take and give back an
\* email, and complete compactions do no harm.
UniqueEmails ==
  \A c, d \in Customers :
     docs[c] = docs[d] /\ docs[c] \notin {NoDoc, Null} \cup contested => c = d
=============================================================================
