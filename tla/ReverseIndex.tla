---------------------------- MODULE ReverseIndex ----------------------------
(***************************************************************************)
(* A foreign key of a schema collection: schema/collection.py with         *)
(* ReferentialIntegrityChecker of schema/constraints.py, over the engine   *)
(* and the reverse index of storage/index_manager.py.  An order has a      *)
(* foreign key, the customer, which is all that is kept of the document.   *)
(*                                                                         *)
(* The document is written by the engine in the lock of the collection.    *)
(* The reverse index is changed before or after that with no lock: the     *)
(* steps of add_reverse, remove_reverse and of the saves, all through one  *)
(* .tmp file, of calls on different orders come between each other.        *)
(***************************************************************************)
CONSTANTS
  Customers, Orders,   \* the ids
  Null,                \* None, as the value of the field
  NoDoc,               \* None, as what get() returns
  NoList,              \* the customer has no key in the reverse index
  Garbled,             \* a .ridx file of which nothing is known
  Threads,
  Ops                  \* what the clients do, of those in Calls

VARIABLES
  present,    \* the customers that there are, which are not changed here
  docs,       \* the live documents
  reverse,    \* the reverse index in memory: the orders listed for a customer
  ridx,       \* the .ridx file
  pc, call,   \* where each thread is, and in which call
  old,        \* the document that the call read at its beginning
  after,      \* where the call goes on after its save
  clash,      \* the saves under way that another thread got in the way of
  lost        \* history: the orders of which ReverseExact says nothing

vars == <<docs, reverse, ridx, pc, call, old, after, clash, lost>>

index == <<reverse, ridx, clash>>
locals == <<call, old, after>>

Fields == Customers \cup {Null}

Lists == (SUBSET Orders) \cup {NoList}

Compaction == [op |-> "compact", id |-> NoDoc, doc |-> NoDoc]

Calls ==
  [op : {"insert", "update"}, id : Orders, doc : Fields]
  \cup [op : {"delete"}, id : Orders, doc : {NoDoc}] \cup {Compaction}

NoCall == [op |-> "none", id |-> NoDoc, doc |-> NoDoc]

Pcs == {"idle", "read", "check", "unregister", "take", "test", "drop", "write",
        "dump", "replace", "wipe", "register", "fresh", "enter"}

Go(t, from, to) == pc[t] = from /\ pc' = [pc EXCEPT ![t] = to]

GoOn(t, from, to) == Go(t, from, to) /\ UNCHANGED locals

\* The call is over, with an answer or an error.
End(t, from) ==
  /\ Go(t, from, "idle")
  /\ call' = [call EXCEPT ![t] = NoCall]
  /\ old' = [old EXCEPT ![t] = NoDoc]
  /\ after' = [after EXCEPT ![t] = "idle"]

GoOrEnd(t, from, to) == IF to = "idle" THEN End(t, from) ELSE GoOn(t, from, to)

\* A save comes next, and this after it.
ThenSave(t, from, to, next) ==
  /\ Go(t, from, to)
  /\ after' = [after EXCEPT ![t] = next]
  /\ UNCHANGED <<call, old>>

\* The call is over too early.
Lose(t) == lost' = lost \cup ({call[t].id} \cap Orders)

-----------------------------------------------------------------------------

Init ==
  /\ docs = [o \in Orders |-> NoDoc]
  /\ reverse = [c \in Customers |-> NoList]
  /\ ridx = reverse
  /\ pc = [t \in Threads |-> "idle"]
  /\ call = [t \in Threads |-> NoCall]
  /\ old = [t \in Threads |-> NoDoc]
  /\ after = [t \in Threads |-> "idle"]
  /\ clash = {} /\ lost = {}

\* two calls on one order at a time get in each other's way
Start(t, c) ==
  /\ Go(t, "idle", CASE c.op = "insert" -> "check"
                     [] c.op = "compact" -> "write"
                     [] OTHER -> "read")
  /\ call' = [call EXCEPT ![t] = c]
  /\ lost' = IF \E u \in Threads : pc[u] # "idle" /\ call[u].id = c.id
             THEN lost \cup ({c.id} \cap Orders) ELSE lost
  /\ UNCHANGED <<docs, index, old, after>>

\* engine.get of update() and delete(); update() raises when there is none.
Read(t) ==
  LET c == call[t] IN
  /\ IF c.op = "update" /\ docs[c.id] = NoDoc
     THEN End(t, "read")
     ELSE /\ Go(t, "read", IF c.op = "update" THEN "check" ELSE "write")
          /\ old' = [old EXCEPT ![t] = docs[c.id]]
          /\ UNCHANGED <<call, after>>
  /\ UNCHANGED <<docs, index, lost>>

\* check_child_insert
CustomerExists(c) == c.doc # Null => c.doc \in present

Check(t) ==
  /\ GoOn(t, "check", IF call[t].op = "update" THEN "unregister" ELSE "write")
  /\ CustomerExists(call[t])
  /\ UNCHANGED <<docs, index, lost>>

\* ReferentialIntegrityError
CheckRefuses(t) ==
  /\ End(t, "check")
  /\ ~CustomerExists(call[t])
  /\ UNCHANGED <<docs, index, lost>>

-----------------------------------------------------------------------------
(* IndexManager.save, of which only the .ridx file is kept *)

Writing(t) == {u \in Threads \ {t} : pc[u] = "replace"}

\* The lists change while another thread writes them out: what it wrote is
\* neither what they were nor what they are.
Disturb(t) == clash' = clash \cup Writing(t)

\* The .tmp file is opened and written; it may be that of another thread, which
\* is then written over.
Dump(t) ==
  /\ GoOn(t, "dump", "replace")
  /\ clash' = IF Writing(t) # {} THEN clash \cup Writing(t) \cup {t} ELSE clash
  /\ UNCHANGED <<docs, reverse, ridx, lost>>

\* tmp.replace(path): the lists, if nobody got in the way since the file was
\* opened, for then they are still what was written.
Replace(t) ==
  /\ GoOrEnd(t, "replace", after[t])
  /\ ridx' = IF t \in clash THEN Garbled ELSE reverse
  /\ clash' = clash \ {t}
  /\ UNCHANGED <<docs, reverse, lost>>

\* StorageError, also because another thread has replaced the .tmp file, which
\* is unlinked on the way out whosever it is.
SaveFails(t) ==
  /\ End(t, "dump") \/ End(t, "replace")
  /\ clash' = (clash \cup Writing(t)) \ {t}
  /\ Lose(t)
  /\ UNCHANGED <<docs, reverse, ridx>>

-----------------------------------------------------------------------------
(* _unregister_fk_reverse: before the write of update(), after that of delete() *)

NextOf(c) == IF c.op = "update" THEN "write" ELSE "idle"

\* remove_reverse: "if parent_id in self._reverse" ...
Unregister(t) ==
  LET c == call[t] IN
  /\ IF old[t] \in {NoDoc, Null}
     THEN GoOrEnd(t, "unregister", NextOf(c))
     ELSE ThenSave(t, "unregister", IF reverse[old[t]] = NoList THEN "dump" ELSE "take",
                   NextOf(c))
  /\ UNCHANGED <<docs, index, lost>>

\* ... "self._reverse[parent_id].remove(child_id)", whose ValueError is caught ...
Take(t) ==
  /\ GoOn(t, "take", "test")
  /\ reverse[old[t]] # NoList
  /\ reverse' = [reverse EXCEPT ![old[t]] = @ \ {call[t].id}]
  /\ Disturb(t)
  /\ UNCHANGED <<docs, ridx, lost>>

\* ... "if not self._reverse[parent_id]" ...
Test(t) ==
  /\ GoOn(t, "test", IF reverse[old[t]] = {} THEN "drop" ELSE "dump")
  /\ reverse[old[t]] # NoList
  /\ UNCHANGED <<docs, index, lost>>

\* ... "del self._reverse[parent_id]", with what was entered since
Drop(t) ==
  /\ GoOn(t, "drop", "dump")
  /\ reverse[old[t]] # NoList
  /\ reverse' = [reverse EXCEPT ![old[t]] = NoList]
  /\ Disturb(t)
  /\ UNCHANGED <<docs, ridx, lost>>

-----------------------------------------------------------------------------
(* _register_fk_reverse *)

\* Mutant of Register: None gets a list like any customer.
RegisterNull(t) ==
  LET c == call[t] IN
  /\ IF c.doc = Null
     THEN /\ ThenSave(t, "register", "dump", "idle")
          /\ reverse' = [k \in Customers \cup {Null} |->
                           IF k = Null THEN {c.id} ELSE reverse[k]]
     ELSE /\ ThenSave(t, "register", IF reverse[c.doc] = NoList THEN "fresh" ELSE "enter",
                      "idle")
          /\ UNCHANGED reverse
  /\ UNCHANGED <<docs, ridx, clash, lost>>

\* Mutant of Register: the list is made anew for every order.
RegisterAnew(t) ==
  LET c == call[t] IN
  /\ IF c.doc = Null
     THEN End(t, "register")
     ELSE ThenSave(t, "register", "fresh", "idle")
  /\ UNCHANGED <<docs, index, lost>>

\* add_reverse: "if parent_id not in self._reverse" ...
Register(t) ==
  LET c == call[t] IN
  /\ IF c.doc = Null
     THEN End(t, "register")
     ELSE ThenSave(t, "register", IF reverse[c.doc] = NoList THEN "fresh" ELSE "enter",
                   "idle")
  /\ UNCHANGED <<docs, index, lost>>

\* ... "self._reverse[parent_id] = []", whatever is there by now ...
Fresh(t) ==
  /\ GoOn(t, "fresh", "enter")
  /\ reverse' = [reverse EXCEPT ![call[t].doc] = {}]
  /\ Disturb(t)
  /\ UNCHANGED <<docs, ridx, lost>>

\* A thread is about to take the list of the customer away, or to put an empty
\* one in its place.
Doomed(t, c) ==
  \E u \in Threads \ {t} : \/ pc[u] = "drop" /\ old[u] = c
                           \/ pc[u] = "fresh" /\ call[u].doc = c

\* ... "self._reverse[parent_id].append(child_id)"
Enter(t) ==
  LET c == call[t] IN
  /\ GoOn(t, "enter", "dump")
  /\ reverse[c.doc] # NoList
  /\ reverse' = [reverse EXCEPT ![c.doc] = @ \cup {c.id}]
  /\ IF Doomed(t, c.doc) THEN Lose(t) ELSE UNCHANGED lost
  /\ Disturb(t)
  /\ UNCHANGED <<docs, ridx>>

\* KeyError: another thread took the list away.
ListIsGone(t) ==
  /\ \/ \E step \in {"take", "test", "drop"} : End(t, step) /\ reverse[old[t]] = NoList
     \/ End(t, "enter") /\ reverse[call[t].doc] = NoList
  /\ Lose(t)
  /\ UNCHANGED <<docs, index>>

-----------------------------------------------------------------------------
(* engine.insert, update, delete and compact, in the lock of the .jsonl file *)

\* A thread in the save of a write has the lock.  A compaction has replaced the
\* locked file when it comes to the index, and keeps nobody out of the new one.
Locked(t) ==
  \A u \in Threads \ {t} :
     ~(pc[u] \in {"dump", "replace"} /\ after[u] \in {"register", "unregister"})

\* An insert does not look for a live document of its id.
Append(t) ==
  LET c == call[t] IN
  /\ c.op # "compact" /\ Locked(t)
  /\ ThenSave(t, "write", "dump", IF c.op = "delete" THEN "unregister" ELSE "register")
  /\ docs' = [docs EXCEPT ![c.id] = c.doc]
  /\ IF c.op = "insert" /\ docs[c.id] # NoDoc THEN Lose(t) ELSE UNCHANGED lost
  /\ UNCHANGED index

\* LockTimeoutError, or StorageError: nothing is written, but of an update the
\* entry is gone already; ...
WriteFails(t) ==
  /\ End(t, "write")
  /\ IF call[t].op = "update" THEN Lose(t) ELSE UNCHANGED lost
  /\ UNCHANGED <<docs, index>>

\* ... or the line is written, but for its newline.
WriteFailsLate(t) ==
  /\ call[t].op # "compact" /\ Locked(t)
  /\ End(t, "write")
  /\ docs' = [docs EXCEPT ![call[t].id] = call[t].doc]
  /\ Lose(t)
  /\ UNCHANGED index

\* compact() replaces the file by one with the same documents ...
Rewrite(t) ==
  /\ call[t].op = "compact" /\ Locked(t)
  /\ ThenSave(t, "write", "wipe", "idle")
  /\ UNCHANGED <<docs, index, lost>>

\* ... and rebuild() empties the reverse index, which it does not fill again.
Wipe(t) ==
  /\ GoOn(t, "wipe", "dump")
  /\ reverse' = [c \in Customers |-> NoList]
  /\ lost' = lost \cup {o \in Orders : \/ docs[o] \in Customers
                                       \/ \E u \in Threads : call[u].id = o}
  /\ Disturb(t)
  /\ UNCHANGED <<docs, ridx>>

\* The process dies and is started again, and loads the .ridx file.
Crash ==
  /\ IF ridx = Garbled
     THEN reverse' \in [Customers -> Lists] /\ lost' = Orders
     ELSE /\ reverse' = ridx
          /\ lost' = lost \cup ({call[t].id : t \in {t \in Threads :
                        pc[t] \notin {"idle", "read", "check"}}} \cap Orders)
  /\ pc' = [t \in Threads |-> "idle"]
  /\ call' = [t \in Threads |-> NoCall]
  /\ old' = [t \in Threads |-> NoDoc]
  /\ after' = [t \in Threads |-> "idle"]
  /\ clash' = {}
  /\ UNCHANGED <<docs, ridx>>

ThreadNext(t) ==
  \/ \E c \in Calls : c.op \in Ops /\ Start(t, c)
  \/ Read(t)
  \/ Check(t) \/ CheckRefuses(t)
  \/ Unregister(t) \/ Take(t) \/ Test(t) \/ Drop(t)
  \/ Append(t) \/ WriteFails(t) \/ WriteFailsLate(t)
  \/ Register(t) \/ Fresh(t) \/ Enter(t) \/ ListIsGone(t)
  \/ Dump(t) \/ Replace(t) \/ SaveFails(t)
  \/ Rewrite(t) \/ Wipe(t)

-----------------------------------------------------------------------------
(* Properties *)

\* The variables keep their types.
TypeOK ==
  /\ docs \in [Orders -> Fields \cup {NoDoc}]
  /\ reverse \in [Customers -> Lists]
  /\ ridx \in [Customers -> Lists] \cup {Garbled}
  /\ pc \in [Threads -> Pcs]
  /\ call \in [Threads -> Calls \cup {NoCall}]
  /\ old \in [Threads -> Fields \cup {NoDoc}]
  /\ after \in [Threads -> {"idle", "write", "register", "unregister"}]
  /\ clash \subseteq {t \in Threads : pc[t] = "replace"}
  /\ lost \subseteq Orders

\* Between two calls the reverse index has an order under its customer and
\* under no other (collection.py:207-236), but for the orders in lost: those
\* inserted while they were live, in two calls at a time, in a call that raised
\* or that a crash cut off, entered into a list that another thread was about to
\* drop or to replace, there when the collection was compacted, and all of them
\* when the process died after two saves had met.
ReverseExact ==
  \A o \in Orders \ lost :
     (\A t \in Threads : call[t].id # o) =>
        {c \in Customers : reverse[c] # NoList /\ o \in reverse[c]}
          = {docs[o]} \ {NoDoc, Null}
=============================================================================
