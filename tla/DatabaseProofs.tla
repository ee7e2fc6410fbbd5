--------------------------- MODULE DatabaseProofs ---------------------------
(***************************************************************************)
(* Database for any names, fields, documents, writers and functions: what  *)
(* the catalog keeps, what it leaves behind, and that it can be opened.    *)
(***************************************************************************)
EXTENDS Database, TLAPS

Known(n) == Collections!Known(n)
Listed(n) == Collections!Listed(n)

\* Where the call of the manager is, and a closed database knows nothing.
CallInv ==
  /\ ~up => pc = "idle" /\ registered = {} /\ \A n \in Names : ~Known(n)
  /\ pc # "idle" => call.name \notin registered
  /\ pc \in {"destroy", "unindex"} => Known(call.name)
  /\ pc \in {"touch", "index"} => ~Known(call.name)

\* What the manifest owes to the engine.
ListInv ==
  up =>
    \A n \in Names :
      IF Known(n) THEN "unlisted" \notin trouble[n] => manifest[n] = engine[n]
                  ELSE "half" \notin trouble[n] => ~Listed(n)

\* A write that the client still counts on is of a collection that stays, and
\* is in its file once it was appended.
WriteInv ==
  \A w \in Writers :
    LET f == writer[w] IN
    f.pc # "idle" /\ f.counts =>
      /\ Known(f.name) /\ ~Collections!Busy(f.name)
      /\ f.pc \in {"index", "save"} => file[f.name] # NoFile /\ f.doc \in file[f.name]

\* What is being dropped is not counted on any more; neither is what the
\* manifest lists and the engine has not.
DropInv ==
  /\ pc \in {"destroy", "unindex"} => acked[call.name] = {}
  /\ up => \A n \in Names : Listed(n) /\ ~Known(n) => acked[n] = {}

\* No .jsonl file stays without a name but an orphan.
Free(n) == trouble[n] \subseteq {"half", "late"} => file[n] = NoFile

OrphanInv ==
  /\ up => \A n \in Names : ~Known(n) /\ ~(pc = "index" /\ call.name = n) => Free(n)
  /\ ~up => \A n \in Names : ~Listed(n) => Free(n)
  /\ pc = "unindex" /\ "orphan" \notin trouble[call.name] => file[call.name] = NoFile

\* A collection has its .jsonl file unless a drop is under way or was cut off.
FileInv ==
  /\ \A n \in Names :
       /\ (Known(n) \/ Listed(n)) /\ "half" \notin trouble[n]
       /\ ~(pc = "unindex" /\ call.name = n)
       => file[n] # NoFile
  /\ pc = "index" => file[call.name] # NoFile

\* One registration of a function at a time, and what it returned for is kept.
FunctionInv ==
  /\ Functions!TypeOK
  /\ \A s, t \in saving : s = t
  /\ FunctionsSurvive

CatalogInv ==
  /\ Collections!TypeOK
  /\ CallInv /\ ListInv /\ WriteInv /\ DropInv /\ OrphanInv /\ FileInv
  /\ AckedAreKept /\ NewIsEmpty

IInv == CatalogInv /\ FunctionInv

-----------------------------------------------------------------------------
(* What every step of the catalog keeps *)

USE AbsentAssumption, NoFileAssumption, SpecsAssumption
    DEF CatalogInv, Known, Listed, Collections!Known, Collections!Listed,
        Collections!disk, Collections!memory, Collections!admin

\* What is not counted any more is a write all the same.
LEMMA DiscardKeepsTypes ==
  ASSUME Collections!TypeOK, NEW n \in Names, Collections!Discard(n)
  PROVE  /\ writer' \in [Writers -> {Collections!IdleWriter} \cup Collections!Writes]
         /\ acked' \in [Names -> SUBSET Docs]
<1> USE DEF Collections!Discard, Collections!TypeOK
<1>1. ASSUME NEW w \in Writers
      PROVE  writer'[w] \in {Collections!IdleWriter} \cup Collections!Writes
  <2>1. CASE writer[w] = Collections!IdleWriter
    BY <2>1 DEF Collections!IdleWriter
  <2>2. CASE writer[w] \in Collections!Writes
    BY <2>2 DEF Collections!Writes
  <2> QED BY <2>1, <2>2
<1>2. writer' \in [Writers -> {Collections!IdleWriter} \cup Collections!Writes]
  BY <1>1
<1> QED BY <1>2

\* A registration that drops first takes the documents, and the writes that
\* still count, off the account of the client before a file is touched.
LEMMA RegisterKeeps ==
  ASSUME CatalogInv, NEW n \in Names, NEW spec \in Specs, NEW drop \in BOOLEAN,
         Collections!Register(n, spec, drop)
  PROVE  CatalogInv'
<1> USE DEF Collections!Register, Collections!Begin, Collections!Discard
<1>1. Collections!TypeOK'
  <2>1. /\ writer' \in [Writers -> {Collections!IdleWriter} \cup Collections!Writes]
        /\ acked' \in [Names -> SUBSET Docs]
    BY DiscardKeepsTypes DEF Collections!TypeOK
  <2>2. call' = [name |-> n, create |-> TRUE, spec |-> spec] /\ pc' \in {"destroy", "touch"}
    OBVIOUS
  <2>3. call' \in Collections!Call
    BY <2>2 DEF Collections!Call
  <2> QED BY <2>1, <2>2, <2>3 DEF Collections!TypeOK, Collections!Pcs
<1>2. CallInv'
  BY DEF CallInv, Collections!TypeOK, Collections!Call, Collections!NoCall
<1>3. ListInv'
  BY DEF ListInv, CallInv, Collections!TypeOK, Collections!Call
<1>4. WriteInv'
  BY DEF WriteInv, CallInv, Collections!TypeOK, Collections!Busy,
         Collections!Call, Collections!Writes, Collections!IdleWriter
<1>5. DropInv'
  BY DEF DropInv, CallInv, WriteInv, ListInv, Collections!TypeOK,
         Collections!Call, Collections!Busy, Collections!Writes
<1>6. OrphanInv'
  BY DEF OrphanInv, CallInv, ListInv, Free, Collections!TypeOK,
         Collections!Call, Collections!Troubles, Collections!Writes
<1>7. FileInv'
  BY DEF FileInv, CallInv, ListInv, Collections!TypeOK, Collections!Call,
         Collections!Writes, NewIsEmpty, Collections!NewIsEmpty
<1>8. AckedAreKept'
  BY DEF AckedAreKept, Collections!AckedAreKept, CallInv, ListInv, DropInv,
         WriteInv, Collections!TypeOK, Collections!Call, Collections!Writes,
         NewIsEmpty, Collections!NewIsEmpty
<1>9. NewIsEmpty'
  BY DEF NewIsEmpty, Collections!NewIsEmpty, CallInv, Collections!TypeOK,
         Collections!Call, Collections!Writes, Collections!IdleWriter
<1> QED BY <1>1, <1>2, <1>3, <1>4, <1>5, <1>6, <1>7, <1>8, <1>9

\* The manager learns of a name that the engine has.
LEMMA ReconnectKeeps ==
  ASSUME CatalogInv, NEW n \in Names, Collections!Reconnect(n)
  PROVE  CatalogInv'
<1> USE DEF Collections!Reconnect
<1>1. Collections!TypeOK'
  BY DEF Collections!TypeOK, CallInv, Collections!Pcs, Collections!Call,
         Collections!NoCall, Collections!IdleWriter, Collections!Writes,
         Collections!Troubles
<1>2. CallInv'
  BY DEF CallInv, Collections!TypeOK, Collections!Call, Collections!NoCall
<1>3. ListInv'
  BY DEF ListInv, CallInv, Collections!TypeOK, Collections!Call
<1>4. WriteInv'
  BY DEF WriteInv, CallInv, Collections!TypeOK, Collections!Busy,
         Collections!Call, Collections!Writes, Collections!IdleWriter
<1>5. DropInv'
  BY DEF DropInv, CallInv, WriteInv, ListInv, Collections!TypeOK,
         Collections!Call, Collections!Busy, Collections!Writes
<1>6. OrphanInv'
  BY DEF OrphanInv, CallInv, ListInv, Free, Collections!TypeOK,
         Collections!Call, Collections!Troubles, Collections!Writes
<1>7. FileInv'
  BY DEF FileInv, CallInv, ListInv, Collections!TypeOK, Collections!Call,
         Collections!Writes, NewIsEmpty, Collections!NewIsEmpty
<1>8. AckedAreKept'
  BY DEF AckedAreKept, Collections!AckedAreKept, CallInv, ListInv, DropInv,
         WriteInv, Collections!TypeOK, Collections!Call, Collections!Writes,
         NewIsEmpty, Collections!NewIsEmpty
<1>9. NewIsEmpty'
  BY DEF NewIsEmpty, Collections!NewIsEmpty, CallInv, Collections!TypeOK,
         Collections!Call, Collections!Writes, Collections!IdleWriter
<1> QED BY <1>1, <1>2, <1>3, <1>4, <1>5, <1>6, <1>7, <1>8, <1>9

\* A drop takes the documents off the account of the client.
LEMMA DropKeeps ==
  ASSUME CatalogInv, NEW n \in Names, Collections!Drop(n)
  PROVE  CatalogInv'
<1> USE DEF Collections!Drop, Collections!Begin, Collections!Discard
<1>1. Collections!TypeOK'
  <2>1. /\ writer' \in [Writers -> {Collections!IdleWriter} \cup Collections!Writes]
        /\ acked' \in [Names -> SUBSET Docs]
    BY DiscardKeepsTypes
  <2>2. call' \in Collections!Call
    BY DEF Collections!Call
  <2> QED BY <2>1, <2>2 DEF Collections!TypeOK, Collections!Pcs
<1>2. CallInv'
  BY DEF CallInv, Collections!TypeOK, Collections!Call, Collections!NoCall
<1>3. ListInv'
  BY DEF ListInv, CallInv, Collections!TypeOK, Collections!Call
<1>4. WriteInv'
  BY DEF WriteInv, CallInv, Collections!TypeOK, Collections!Busy,
         Collections!Call, Collections!Writes, Collections!IdleWriter
<1>5. DropInv'
  BY DEF DropInv, CallInv, WriteInv, ListInv, Collections!TypeOK,
         Collections!Call, Collections!Busy, Collections!Writes
<1>6. OrphanInv'
  BY DEF OrphanInv, CallInv, ListInv, Free, Collections!TypeOK,
         Collections!Call, Collections!Troubles, Collections!Writes
<1>7. FileInv'
  BY DEF FileInv, CallInv, ListInv, Collections!TypeOK, Collections!Call,
         Collections!Writes, NewIsEmpty, Collections!NewIsEmpty
<1>8. AckedAreKept'
  BY DEF AckedAreKept, Collections!AckedAreKept, CallInv, ListInv, DropInv,
         WriteInv, Collections!TypeOK, Collections!Call, Collections!Writes,
         NewIsEmpty, Collections!NewIsEmpty
<1>9. NewIsEmpty'
  BY DEF NewIsEmpty, Collections!NewIsEmpty, CallInv, Collections!TypeOK,
         Collections!Call, Collections!Writes, Collections!IdleWriter
<1> QED BY <1>1, <1>2, <1>3, <1>4, <1>5, <1>6, <1>7, <1>8, <1>9

\* The .jsonl file goes while the client counts on none of its documents.
LEMMA DestroyKeeps ==
  ASSUME CatalogInv, Collections!Destroy
  PROVE  CatalogInv'
<1> USE DEF Collections!Destroy
<1>1. Collections!TypeOK'
  BY DEF Collections!TypeOK, CallInv, Collections!Pcs, Collections!Call,
         Collections!NoCall, Collections!IdleWriter, Collections!Writes,
         Collections!Troubles
<1>2. CallInv'
  BY DEF CallInv, Collections!TypeOK, Collections!Call, Collections!NoCall
<1>3. ListInv'
  BY DEF ListInv, CallInv, Collections!TypeOK, Collections!Call
<1>4. WriteInv'
  BY DEF WriteInv, CallInv, Collections!TypeOK, Collections!Busy,
         Collections!Call, Collections!Writes, Collections!IdleWriter
<1>5. DropInv'
  BY DEF DropInv, CallInv, WriteInv, ListInv, Collections!TypeOK,
         Collections!Call, Collections!Busy, Collections!Writes
<1>6. OrphanInv'
  BY DEF OrphanInv, CallInv, ListInv, Free, Collections!TypeOK,
         Collections!Call, Collections!Troubles, Collections!Writes
<1>7. FileInv'
  BY DEF FileInv, CallInv, ListInv, Collections!TypeOK, Collections!Call,
         Collections!Writes, NewIsEmpty, Collections!NewIsEmpty
<1>8. AckedAreKept'
  BY DEF AckedAreKept, Collections!AckedAreKept, CallInv, ListInv, DropInv,
         WriteInv, Collections!TypeOK, Collections!Call, Collections!Writes,
         NewIsEmpty, Collections!NewIsEmpty
<1>9. NewIsEmpty'
  BY DEF NewIsEmpty, Collections!NewIsEmpty, CallInv, Collections!TypeOK,
         Collections!Call, Collections!Writes, Collections!IdleWriter
<1> QED BY <1>1, <1>2, <1>3, <1>4, <1>5, <1>6, <1>7, <1>8, <1>9

\* An .idx file of the collection that is being dropped goes.
LEMMA UnindexKeeps ==
  ASSUME CatalogInv, NEW f \in Fields, Collections!Unindex(f)
  PROVE  CatalogInv'
<1> USE DEF Collections!Unindex
<1>1. Collections!TypeOK'
  BY DEF Collections!TypeOK, CallInv, Collections!Pcs, Collections!Call,
         Collections!NoCall, Collections!IdleWriter, Collections!Writes,
         Collections!Troubles
<1>2. CallInv'
  BY DEF CallInv, Collections!TypeOK, Collections!Call, Collections!NoCall
<1>3. ListInv'
  BY DEF ListInv, CallInv, Collections!TypeOK, Collections!Call
<1>4. WriteInv'
  BY DEF WriteInv, CallInv, Collections!TypeOK, Collections!Busy,
         Collections!Call, Collections!Writes, Collections!IdleWriter
<1>5. DropInv'
  BY DEF DropInv, CallInv, WriteInv, ListInv, Collections!TypeOK,
         Collections!Call, Collections!Busy, Collections!Writes
<1>6. OrphanInv'
  BY DEF OrphanInv, CallInv, ListInv, Free, Collections!TypeOK,
         Collections!Call, Collections!Troubles, Collections!Writes
<1>7. FileInv'
  BY DEF FileInv, CallInv, ListInv, Collections!TypeOK, Collections!Call,
         Collections!Writes, NewIsEmpty, Collections!NewIsEmpty
<1>8. AckedAreKept'
  BY DEF AckedAreKept, Collections!AckedAreKept, CallInv, ListInv, DropInv,
         WriteInv, Collections!TypeOK, Collections!Call, Collections!Writes,
         NewIsEmpty, Collections!NewIsEmpty
<1>9. NewIsEmpty'
  BY DEF NewIsEmpty, Collections!NewIsEmpty, CallInv, Collections!TypeOK,
         Collections!Call, Collections!Writes, Collections!IdleWriter
<1> QED BY <1>1, <1>2, <1>3, <1>4, <1>5, <1>6, <1>7, <1>8, <1>9

\* The engine and the manifest forget the name together.
LEMMA ForgetKeeps ==
  ASSUME CatalogInv, Collections!Forget
  PROVE  CatalogInv'
<1> USE DEF Collections!Forget, Collections!Forgotten, Collections!Save,
            Collections!Settled, Collections!End
<1>1. Collections!TypeOK'
  BY DEF Collections!TypeOK, CallInv, Collections!Pcs, Collections!Call,
         Collections!NoCall, Collections!IdleWriter, Collections!Writes,
         Collections!Troubles
<1>2. CallInv'
  BY DEF CallInv, Collections!TypeOK, Collections!Call, Collections!NoCall
<1>3. ListInv'
  BY DEF ListInv, CallInv, Collections!TypeOK, Collections!Call
<1>4. WriteInv'
  BY DEF WriteInv, CallInv, Collections!TypeOK, Collections!Busy,
         Collections!Call, Collections!Writes, Collections!IdleWriter
<1>5. DropInv'
  BY DEF DropInv, CallInv, WriteInv, ListInv, Collections!TypeOK,
         Collections!Call, Collections!Busy, Collections!Writes
<1>6. OrphanInv'
  BY DEF OrphanInv, CallInv, ListInv, Free, Collections!TypeOK,
         Collections!Call, Collections!Troubles, Collections!Writes
<1>7. FileInv'
  BY DEF FileInv, CallInv, ListInv, Collections!TypeOK, Collections!Call,
         Collections!Writes, NewIsEmpty, Collections!NewIsEmpty
<1>8. AckedAreKept'
  BY DEF AckedAreKept, Collections!AckedAreKept, CallInv, ListInv, DropInv,
         WriteInv, Collections!TypeOK, Collections!Call, Collections!Writes,
         NewIsEmpty, Collections!NewIsEmpty
<1>9. NewIsEmpty'
  BY DEF NewIsEmpty, Collections!NewIsEmpty, CallInv, Collections!TypeOK,
         Collections!Call, Collections!Writes, Collections!IdleWriter
<1> QED BY <1>1, <1>2, <1>3, <1>4, <1>5, <1>6, <1>7, <1>8, <1>9

\* The engine forgets the name and the manifest does not: the drop is half done.
LEMMA ForgetFailsKeeps ==
  ASSUME CatalogInv, Collections!ForgetFails
  PROVE  CatalogInv'
<1> USE DEF Collections!ForgetFails, Collections!Forgotten, Collections!Marked,
            Collections!End
<1>1. Collections!TypeOK'
  BY DEF Collections!TypeOK, CallInv, Collections!Pcs, Collections!Call,
         Collections!NoCall, Collections!IdleWriter, Collections!Writes,
         Collections!Troubles
<1>2. CallInv'
  BY DEF CallInv, Collections!TypeOK, Collections!Call, Collections!NoCall
<1>3. ListInv'
  BY DEF ListInv, CallInv, Collections!TypeOK, Collections!Call
<1>4. WriteInv'
  BY DEF WriteInv, CallInv, Collections!TypeOK, Collections!Busy,
         Collections!Call, Collections!Writes, Collections!IdleWriter
<1>5. DropInv'
  BY DEF DropInv, CallInv, WriteInv, ListInv, Collections!TypeOK,
         Collections!Call, Collections!Busy, Collections!Writes
<1>6. OrphanInv'
  BY DEF OrphanInv, CallInv, ListInv, Free, Collections!TypeOK,
         Collections!Call, Collections!Troubles, Collections!Writes
<1>7. FileInv'
  BY DEF FileInv, CallInv, ListInv, Collections!TypeOK, Collections!Call,
         Collections!Writes, NewIsEmpty, Collections!NewIsEmpty
<1>8. AckedAreKept'
  BY DEF AckedAreKept, Collections!AckedAreKept, CallInv, ListInv, DropInv,
         WriteInv, Collections!TypeOK, Collections!Call, Collections!Writes,
         NewIsEmpty, Collections!NewIsEmpty
<1>9. NewIsEmpty'
  BY DEF NewIsEmpty, Collections!NewIsEmpty, CallInv, Collections!TypeOK,
         Collections!Call, Collections!Writes, Collections!IdleWriter
<1> QED BY <1>1, <1>2, <1>3, <1>4, <1>5, <1>6, <1>7, <1>8, <1>9

\* A new .jsonl file is empty.
LEMMA TouchKeeps ==
  ASSUME CatalogInv, Collections!Touch
  PROVE  CatalogInv'
<1> USE DEF Collections!Touch
<1>1. Collections!TypeOK'
  BY DEF Collections!TypeOK, CallInv, Collections!Pcs, Collections!Call,
         Collections!NoCall, Collections!IdleWriter, Collections!Writes,
         Collections!Troubles
<1>2. CallInv'
  BY DEF CallInv, Collections!TypeOK, Collections!Call, Collections!NoCall
<1>3. ListInv'
  BY DEF ListInv, CallInv, Collections!TypeOK, Collections!Call
<1>4. WriteInv'
  BY DEF WriteInv, CallInv, Collections!TypeOK, Collections!Busy,
         Collections!Call, Collections!Writes, Collections!IdleWriter
<1>5. DropInv'
  BY DEF DropInv, CallInv, WriteInv, ListInv, Collections!TypeOK,
         Collections!Call, Collections!Busy, Collections!Writes
<1>6. OrphanInv'
  BY DEF OrphanInv, CallInv, ListInv, Free, Collections!TypeOK,
         Collections!Call, Collections!Troubles, Collections!Writes
<1>7. FileInv'
  BY DEF FileInv, CallInv, ListInv, Collections!TypeOK, Collections!Call,
         Collections!Writes, NewIsEmpty, Collections!NewIsEmpty
<1>8. AckedAreKept'
  BY DEF AckedAreKept, Collections!AckedAreKept, CallInv, ListInv, DropInv,
         WriteInv, Collections!TypeOK, Collections!Call, Collections!Writes,
         NewIsEmpty, Collections!NewIsEmpty
<1>9. NewIsEmpty'
  BY DEF NewIsEmpty, Collections!NewIsEmpty, CallInv, Collections!TypeOK,
         Collections!Call, Collections!Writes, Collections!IdleWriter
<1> QED BY <1>1, <1>2, <1>3, <1>4, <1>5, <1>6, <1>7, <1>8, <1>9

\* A name whose file is still there is not created.
LEMMA TouchRefusedKeeps ==
  ASSUME CatalogInv, Collections!TouchRefused
  PROVE  CatalogInv'
<1> USE DEF Collections!TouchRefused, Collections!End
<1>1. Collections!TypeOK'
  BY DEF Collections!TypeOK, CallInv, Collections!Pcs, Collections!Call,
         Collections!NoCall, Collections!IdleWriter, Collections!Writes,
         Collections!Troubles
<1>2. CallInv'
  BY DEF CallInv, Collections!TypeOK, Collections!Call, Collections!NoCall
<1>3. ListInv'
  BY DEF ListInv, CallInv, Collections!TypeOK, Collections!Call
<1>4. WriteInv'
  BY DEF WriteInv, CallInv, Collections!TypeOK, Collections!Busy,
         Collections!Call, Collections!Writes, Collections!IdleWriter
<1>5. DropInv'
  BY DEF DropInv, CallInv, WriteInv, ListInv, Collections!TypeOK,
         Collections!Call, Collections!Busy, Collections!Writes
<1>6. OrphanInv'
  BY DEF OrphanInv, CallInv, ListInv, Free, Collections!TypeOK,
         Collections!Call, Collections!Troubles, Collections!Writes
<1>7. FileInv'
  BY DEF FileInv, CallInv, ListInv, Collections!TypeOK, Collections!Call,
         Collections!Writes, NewIsEmpty, Collections!NewIsEmpty
<1>8. AckedAreKept'
  BY DEF AckedAreKept, Collections!AckedAreKept, CallInv, ListInv, DropInv,
         WriteInv, Collections!TypeOK, Collections!Call, Collections!Writes,
         NewIsEmpty, Collections!NewIsEmpty
<1>9. NewIsEmpty'
  BY DEF NewIsEmpty, Collections!NewIsEmpty, CallInv, Collections!TypeOK,
         Collections!Call, Collections!Writes, Collections!IdleWriter
<1> QED BY <1>1, <1>2, <1>3, <1>4, <1>5, <1>6, <1>7, <1>8, <1>9

\* An .idx file of the collection that is being created is written.
LEMMA IndexKeeps ==
  ASSUME CatalogInv, NEW f \in Fields, Collections!Index(f)
  PROVE  CatalogInv'
<1> USE DEF Collections!Index
<1>1. Collections!TypeOK'
  BY DEF Collections!TypeOK, CallInv, Collections!Pcs, Collections!Call,
         Collections!NoCall, Collections!IdleWriter, Collections!Writes,
         Collections!Troubles
<1>2. CallInv'
  BY DEF CallInv, Collections!TypeOK, Collections!Call, Collections!NoCall
<1>3. ListInv'
  BY DEF ListInv, CallInv, Collections!TypeOK, Collections!Call
<1>4. WriteInv'
  BY DEF WriteInv, CallInv, Collections!TypeOK, Collections!Busy,
         Collections!Call, Collections!Writes, Collections!IdleWriter
<1>5. DropInv'
  BY DEF DropInv, CallInv, WriteInv, ListInv, Collections!TypeOK,
         Collections!Call, Collections!Busy, Collections!Writes
<1>6. OrphanInv'
  BY DEF OrphanInv, CallInv, ListInv, Free, Collections!TypeOK,
         Collections!Call, Collections!Troubles, Collections!Writes
<1>7. FileInv'
  BY DEF FileInv, CallInv, ListInv, Collections!TypeOK, Collections!Call,
         Collections!Writes, NewIsEmpty, Collections!NewIsEmpty
<1>8. AckedAreKept'
  BY DEF AckedAreKept, Collections!AckedAreKept, CallInv, ListInv, DropInv,
         WriteInv, Collections!TypeOK, Collections!Call, Collections!Writes,
         NewIsEmpty, Collections!NewIsEmpty
<1>9. NewIsEmpty'
  BY DEF NewIsEmpty, Collections!NewIsEmpty, CallInv, Collections!TypeOK,
         Collections!Call, Collections!Writes, Collections!IdleWriter
<1> QED BY <1>1, <1>2, <1>3, <1>4, <1>5, <1>6, <1>7, <1>8, <1>9

\* The engine and the manifest learn of the name together.
LEMMA EnlistKeeps ==
  ASSUME CatalogInv, Collections!Enlist
  PROVE  CatalogInv'
<1> USE DEF Collections!Enlist, Collections!Enlisted, Collections!Save,
            Collections!Settled, Collections!End
<1>1. Collections!TypeOK'
  BY DEF Collections!TypeOK, CallInv, Collections!Pcs, Collections!Call,
         Collections!NoCall, Collections!IdleWriter, Collections!Writes,
         Collections!Troubles
<1>2. CallInv'
  BY DEF CallInv, Collections!TypeOK, Collections!Call, Collections!NoCall
<1>3. ListInv'
  BY DEF ListInv, CallInv, Collections!TypeOK, Collections!Call
<1>4. WriteInv'
  BY DEF WriteInv, CallInv, Collections!TypeOK, Collections!Busy,
         Collections!Call, Collections!Writes, Collections!IdleWriter
<1>5. DropInv'
  BY DEF DropInv, CallInv, WriteInv, ListInv, Collections!TypeOK,
         Collections!Call, Collections!Busy, Collections!Writes
<1>6. OrphanInv'
  BY DEF OrphanInv, CallInv, ListInv, Free, Collections!TypeOK,
         Collections!Call, Collections!Troubles, Collections!Writes
<1>7. FileInv'
  BY DEF FileInv, CallInv, ListInv, Collections!TypeOK, Collections!Call,
         Collections!Writes, NewIsEmpty, Collections!NewIsEmpty
<1>8. AckedAreKept'
  BY DEF AckedAreKept, Collections!AckedAreKept, CallInv, ListInv, DropInv,
         WriteInv, Collections!TypeOK, Collections!Call, Collections!Writes,
         NewIsEmpty, Collections!NewIsEmpty
<1>9. NewIsEmpty'
  BY DEF NewIsEmpty, Collections!NewIsEmpty, CallInv, Collections!TypeOK,
         Collections!Call, Collections!Writes, Collections!IdleWriter
<1> QED BY <1>1, <1>2, <1>3, <1>4, <1>5, <1>6, <1>7, <1>8, <1>9

\* The engine learns of the name and the manifest does not.
LEMMA EnlistFailsKeeps ==
  ASSUME CatalogInv, Collections!EnlistFails
  PROVE  CatalogInv'
<1> USE DEF Collections!EnlistFails, Collections!Enlisted, Collections!Marked,
            Collections!End
<1>1. Collections!TypeOK'
  BY DEF Collections!TypeOK, CallInv, Collections!Pcs, Collections!Call,
         Collections!NoCall, Collections!IdleWriter, Collections!Writes,
         Collections!Troubles
<1>2. CallInv'
  BY DEF CallInv, Collections!TypeOK, Collections!Call, Collections!NoCall
<1>3. ListInv'
  BY DEF ListInv, CallInv, Collections!TypeOK, Collections!Call
<1>4. WriteInv'
  BY DEF WriteInv, CallInv, Collections!TypeOK, Collections!Busy,
         Collections!Call, Collections!Writes, Collections!IdleWriter
<1>5. DropInv'
  BY DEF DropInv, CallInv, WriteInv, ListInv, Collections!TypeOK,
         Collections!Call, Collections!Busy, Collections!Writes
<1>6. OrphanInv'
  BY DEF OrphanInv, CallInv, ListInv, Free, Collections!TypeOK,
         Collections!Call, Collections!Troubles, Collections!Writes
<1>7. FileInv'
  BY DEF FileInv, CallInv, ListInv, Collections!TypeOK, Collections!Call,
         Collections!Writes, NewIsEmpty, Collections!NewIsEmpty
<1>8. AckedAreKept'
  BY DEF AckedAreKept, Collections!AckedAreKept, CallInv, ListInv, DropInv,
         WriteInv, Collections!TypeOK, Collections!Call, Collections!Writes,
         NewIsEmpty, Collections!NewIsEmpty
<1>9. NewIsEmpty'
  BY DEF NewIsEmpty, Collections!NewIsEmpty, CallInv, Collections!TypeOK,
         Collections!Call, Collections!Writes, Collections!IdleWriter
<1> QED BY <1>1, <1>2, <1>3, <1>4, <1>5, <1>6, <1>7, <1>8, <1>9

\* A call that raises leaves what the history records of it.
LEMMA StepFailsKeeps ==
  ASSUME CatalogInv, Collections!StepFails
  PROVE  CatalogInv'
<1> USE DEF Collections!StepFails, Collections!CutOff, Collections!Marked,
            Collections!End
<1>1. Collections!TypeOK'
  BY DEF Collections!TypeOK, CallInv, Collections!Pcs, Collections!Call,
         Collections!NoCall, Collections!IdleWriter, Collections!Writes,
         Collections!Troubles
<1>2. CallInv'
  BY DEF CallInv, Collections!TypeOK, Collections!Call, Collections!NoCall
<1>3. ListInv'
  BY DEF ListInv, CallInv, Collections!TypeOK, Collections!Call
<1>4. WriteInv'
  BY DEF WriteInv, CallInv, Collections!TypeOK, Collections!Busy,
         Collections!Call, Collections!Writes, Collections!IdleWriter
<1>5. DropInv'
  BY DEF DropInv, CallInv, WriteInv, ListInv, Collections!TypeOK,
         Collections!Call, Collections!Busy, Collections!Writes
<1>6. OrphanInv'
  BY DEF OrphanInv, CallInv, ListInv, Free, Collections!TypeOK,
         Collections!Call, Collections!Troubles, Collections!Writes
<1>7. FileInv'
  BY DEF FileInv, CallInv, ListInv, Collections!TypeOK, Collections!Call,
         Collections!Writes, NewIsEmpty, Collections!NewIsEmpty
<1>8. AckedAreKept'
  BY DEF AckedAreKept, Collections!AckedAreKept, CallInv, ListInv, DropInv,
         WriteInv, Collections!TypeOK, Collections!Call, Collections!Writes,
         NewIsEmpty, Collections!NewIsEmpty
<1>9. NewIsEmpty'
  BY DEF NewIsEmpty, Collections!NewIsEmpty, CallInv, Collections!TypeOK,
         Collections!Call, Collections!Writes, Collections!IdleWriter
<1> QED BY <1>1, <1>2, <1>3, <1>4, <1>5, <1>6, <1>7, <1>8, <1>9

\* A write of a collection that is not being dropped counts.
LEMMA StartWriteKeeps ==
  ASSUME CatalogInv, NEW w \in Writers, NEW n \in Names, NEW d \in Docs,
         NEW locks \in BOOLEAN, Collections!StartWrite(w, n, d, locks)
  PROVE  CatalogInv'
<1> USE DEF Collections!StartWrite
<1>1. Collections!TypeOK'
  BY DEF Collections!TypeOK, CallInv, Collections!Pcs, Collections!Call,
         Collections!NoCall, Collections!IdleWriter, Collections!Writes,
         Collections!Troubles
<1>2. CallInv'
  BY DEF CallInv, Collections!TypeOK, Collections!Call, Collections!NoCall
<1>3. ListInv'
  BY DEF ListInv, CallInv, Collections!TypeOK, Collections!Call
<1>4. WriteInv'
  BY DEF WriteInv, CallInv, Collections!TypeOK, Collections!Busy,
         Collections!Call, Collections!Writes, Collections!IdleWriter
<1>5. DropInv'
  BY DEF DropInv, CallInv, WriteInv, ListInv, Collections!TypeOK,
         Collections!Call, Collections!Busy, Collections!Writes
<1>6. OrphanInv'
  BY DEF OrphanInv, CallInv, ListInv, Free, Collections!TypeOK,
         Collections!Call, Collections!Troubles, Collections!Writes
<1>7. FileInv'
  BY DEF FileInv, CallInv, ListInv, Collections!TypeOK, Collections!Call,
         Collections!Writes, NewIsEmpty, Collections!NewIsEmpty
<1>8. AckedAreKept'
  BY DEF AckedAreKept, Collections!AckedAreKept, CallInv, ListInv, DropInv,
         WriteInv, Collections!TypeOK, Collections!Call, Collections!Writes,
         NewIsEmpty, Collections!NewIsEmpty
<1>9. NewIsEmpty'
  BY DEF NewIsEmpty, Collections!NewIsEmpty, CallInv, Collections!TypeOK,
         Collections!Call, Collections!Writes, Collections!IdleWriter
<1> QED BY <1>1, <1>2, <1>3, <1>4, <1>5, <1>6, <1>7, <1>8, <1>9

\* A write takes the store of a collection that the engine has.
LEMMA TakeStoreKeeps ==
  ASSUME CatalogInv, NEW w \in Writers, Collections!TakeStore(w)
  PROVE  CatalogInv'
<1> USE DEF Collections!TakeStore
<1>1. Collections!TypeOK'
  BY DEF Collections!TypeOK, CallInv, Collections!Pcs, Collections!Call,
         Collections!NoCall, Collections!IdleWriter, Collections!Writes,
         Collections!Troubles
<1>2. CallInv'
  BY DEF CallInv, Collections!TypeOK, Collections!Call, Collections!NoCall
<1>3. ListInv'
  BY DEF ListInv, CallInv, Collections!TypeOK, Collections!Call
<1>4. WriteInv'
  BY DEF WriteInv, CallInv, Collections!TypeOK, Collections!Busy,
         Collections!Call, Collections!Writes, Collections!IdleWriter
<1>5. DropInv'
  BY DEF DropInv, CallInv, WriteInv, ListInv, Collections!TypeOK,
         Collections!Call, Collections!Busy, Collections!Writes
<1>6. OrphanInv'
  BY DEF OrphanInv, CallInv, ListInv, Free, Collections!TypeOK,
         Collections!Call, Collections!Troubles, Collections!Writes
<1>7. FileInv'
  BY DEF FileInv, CallInv, ListInv, Collections!TypeOK, Collections!Call,
         Collections!Writes, NewIsEmpty, Collections!NewIsEmpty
<1>8. AckedAreKept'
  BY DEF AckedAreKept, Collections!AckedAreKept, CallInv, ListInv, DropInv,
         WriteInv, Collections!TypeOK, Collections!Call, Collections!Writes,
         NewIsEmpty, Collections!NewIsEmpty
<1>9. NewIsEmpty'
  BY DEF NewIsEmpty, Collections!NewIsEmpty, CallInv, Collections!TypeOK,
         Collections!Call, Collections!Writes, Collections!IdleWriter
<1> QED BY <1>1, <1>2, <1>3, <1>4, <1>5, <1>6, <1>7, <1>8, <1>9

\* An append adds to a file, or makes an orphan of the name being dropped.
LEMMA AppendDocKeeps ==
  ASSUME CatalogInv, NEW w \in Writers, Collections!AppendDoc(w)
  PROVE  CatalogInv'
<1> USE DEF Collections!AppendDoc, Collections!Marked
<1>1. Collections!TypeOK'
  BY DEF Collections!TypeOK, CallInv, Collections!Pcs, Collections!Call,
         Collections!NoCall, Collections!IdleWriter, Collections!Writes,
         Collections!Troubles
<1>2. CallInv'
  BY DEF CallInv, Collections!TypeOK, Collections!Call, Collections!NoCall
<1>3. ListInv'
  BY DEF ListInv, CallInv, Collections!TypeOK, Collections!Call
<1>4. WriteInv'
  BY DEF WriteInv, CallInv, Collections!TypeOK, Collections!Busy,
         Collections!Call, Collections!Writes, Collections!IdleWriter
<1>5. DropInv'
  BY DEF DropInv, CallInv, WriteInv, ListInv, Collections!TypeOK,
         Collections!Call, Collections!Busy, Collections!Writes
<1>6. OrphanInv'
  BY DEF OrphanInv, CallInv, ListInv, Free, Collections!TypeOK,
         Collections!Call, Collections!Troubles, Collections!Writes
<1>7. FileInv'
  <2> DEFINE m == writer[w].name
  <2>1. m \in Names /\ writer[w].doc \in Docs
    BY DEF Collections!TypeOK, Collections!Writes, Collections!IdleWriter
  <2>2. file'[m] # NoFile
    BY <2>1 DEF Collections!TypeOK
  <2>3. \A n \in Names \ {m} : file'[n] = file[n]
    BY <2>1 DEF Collections!TypeOK
  <2>4. \A n \in Names : trouble[n] \subseteq trouble'[n]
    BY <2>1 DEF Collections!TypeOK
  <2> QED BY <2>2, <2>3, <2>4 DEF FileInv
<1>8. AckedAreKept'
  <2> DEFINE m == writer[w].name
  <2>1. m \in Names /\ writer[w].doc \in Docs
    BY DEF Collections!TypeOK, Collections!Writes, Collections!IdleWriter
  <2>2. /\ file'[m] # NoFile
        /\ file[m] # NoFile => file[m] \subseteq file'[m]
    BY <2>1 DEF Collections!TypeOK
  <2>3. \A n \in Names \ {m} : file'[n] = file[n]
    BY <2>1 DEF Collections!TypeOK
  <2>4. \A n \in Names : trouble[n] \subseteq trouble'[n]
    BY <2>1 DEF Collections!TypeOK
  <2> QED BY <2>2, <2>3, <2>4 DEF AckedAreKept, Collections!AckedAreKept
<1>9. NewIsEmpty'
  <2> DEFINE m == writer[w].name
  <2>1. m \in Names
    BY DEF Collections!TypeOK, Collections!Writes, Collections!IdleWriter
  <2>2. CASE pc = "index" /\ call.name = m
    <3>1. ~writer[w].counts /\ file[m] # NoFile
      BY <2>2 DEF WriteInv, FileInv, Collections!Busy
    <3>2. "late" \in trouble'[m]
      BY <2>1, <3>1 DEF Collections!TypeOK
    <3> QED BY <2>2, <3>2 DEF NewIsEmpty, Collections!NewIsEmpty
  <2>3. CASE pc = "index" /\ call.name # m
    <3>1. call.name \in Names
      BY <2>3 DEF Collections!TypeOK, Collections!Call
    <3>2. file'[call.name] = file[call.name] /\ trouble'[call.name] = trouble[call.name]
      BY <2>1, <2>3, <3>1 DEF Collections!TypeOK
    <3> QED BY <3>2 DEF NewIsEmpty, Collections!NewIsEmpty
  <2> QED BY <2>2, <2>3 DEF NewIsEmpty, Collections!NewIsEmpty
<1> QED BY <1>1, <1>2, <1>3, <1>4, <1>5, <1>6, <1>7, <1>8, <1>9

\* A write takes the indexes of a collection that the engine has.
LEMMA TakeIndexKeeps ==
  ASSUME CatalogInv, NEW w \in Writers, Collections!TakeIndex(w)
  PROVE  CatalogInv'
<1> USE DEF Collections!TakeIndex
<1>1. Collections!TypeOK'
  <2>1. writer[w] \in Collections!Writes
    BY DEF Collections!TypeOK, Collections!IdleWriter
  <2>2. engine[writer[w].name] \in SUBSET Fields
    BY <2>1 DEF Collections!TypeOK, Collections!Writes
  <2>3. [writer[w] EXCEPT !.pc = "save", !.spec = engine[writer[w].name]]
          \in Collections!Writes
    BY <2>1, <2>2 DEF Collections!Writes
  <2>4. writer' \in [Writers -> {Collections!IdleWriter} \cup Collections!Writes]
    BY <2>3 DEF Collections!TypeOK
  <2> QED BY <2>4 DEF Collections!TypeOK, Collections!IdleWriter
<1>2. CallInv'
  BY DEF CallInv, Collections!TypeOK, Collections!Call, Collections!NoCall
<1>3. ListInv'
  BY DEF ListInv, CallInv, Collections!TypeOK, Collections!Call
<1>4. WriteInv'
  BY DEF WriteInv, CallInv, Collections!TypeOK, Collections!Busy,
         Collections!Call, Collections!Writes, Collections!IdleWriter
<1>5. DropInv'
  BY DEF DropInv, CallInv, WriteInv, ListInv, Collections!TypeOK,
         Collections!Call, Collections!Busy, Collections!Writes
<1>6. OrphanInv'
  BY DEF OrphanInv, CallInv, ListInv, Free, Collections!TypeOK,
         Collections!Call, Collections!Troubles, Collections!Writes
<1>7. FileInv'
  BY DEF FileInv, CallInv, ListInv, Collections!TypeOK, Collections!Call,
         Collections!Writes, NewIsEmpty, Collections!NewIsEmpty
<1>8. AckedAreKept'
  BY DEF AckedAreKept, Collections!AckedAreKept, CallInv, ListInv, DropInv,
         WriteInv, Collections!TypeOK, Collections!Call, Collections!Writes,
         NewIsEmpty, Collections!NewIsEmpty
<1>9. NewIsEmpty'
  BY DEF NewIsEmpty, Collections!NewIsEmpty, CallInv, Collections!TypeOK,
         Collections!Call, Collections!Writes, Collections!IdleWriter
<1> QED BY <1>1, <1>2, <1>3, <1>4, <1>5, <1>6, <1>7, <1>8, <1>9

\* A write that counts is acknowledged when its document is in the file.
LEMMA SaveIndexesKeeps ==
  ASSUME CatalogInv, NEW w \in Writers, Collections!SaveIndexes(w)
  PROVE  CatalogInv'
<1> USE DEF Collections!SaveIndexes, Collections!Stop
<1>1. Collections!TypeOK'
  BY DEF Collections!TypeOK, CallInv, Collections!Pcs, Collections!Call,
         Collections!NoCall, Collections!IdleWriter, Collections!Writes,
         Collections!Troubles
<1>2. CallInv'
  BY DEF CallInv, Collections!TypeOK, Collections!Call, Collections!NoCall
<1>3. ListInv'
  BY DEF ListInv, CallInv, Collections!TypeOK, Collections!Call
<1>4. WriteInv'
  BY DEF WriteInv, CallInv, Collections!TypeOK, Collections!Busy,
         Collections!Call, Collections!Writes, Collections!IdleWriter
<1>5. DropInv'
  BY DEF DropInv, CallInv, WriteInv, ListInv, Collections!TypeOK,
         Collections!Call, Collections!Busy, Collections!Writes
<1>6. OrphanInv'
  BY DEF OrphanInv, CallInv, ListInv, Free, Collections!TypeOK,
         Collections!Call, Collections!Troubles, Collections!Writes
<1>7. FileInv'
  BY DEF FileInv, CallInv, ListInv, Collections!TypeOK, Collections!Call,
         Collections!Writes, NewIsEmpty, Collections!NewIsEmpty
<1>8. AckedAreKept'
  BY DEF AckedAreKept, Collections!AckedAreKept, CallInv, ListInv, DropInv,
         WriteInv, Collections!TypeOK, Collections!Call, Collections!Writes,
         NewIsEmpty, Collections!NewIsEmpty
<1>9. NewIsEmpty'
  BY DEF NewIsEmpty, Collections!NewIsEmpty, CallInv, Collections!TypeOK,
         Collections!Call, Collections!Writes, Collections!IdleWriter
<1> QED BY <1>1, <1>2, <1>3, <1>4, <1>5, <1>6, <1>7, <1>8, <1>9

\* A write that raises is not acknowledged.
LEMMA WriteFailsKeeps ==
  ASSUME CatalogInv, NEW w \in Writers, Collections!WriteFails(w)
  PROVE  CatalogInv'
<1> USE DEF Collections!WriteFails, Collections!Stop
<1>1. Collections!TypeOK'
  BY DEF Collections!TypeOK, CallInv, Collections!Pcs, Collections!Call,
         Collections!NoCall, Collections!IdleWriter, Collections!Writes,
         Collections!Troubles
<1>2. CallInv'
  BY DEF CallInv, Collections!TypeOK, Collections!Call, Collections!NoCall
<1>3. ListInv'
  BY DEF ListInv, CallInv, Collections!TypeOK, Collections!Call
<1>4. WriteInv'
  BY DEF WriteInv, CallInv, Collections!TypeOK, Collections!Busy,
         Collections!Call, Collections!Writes, Collections!IdleWriter
<1>5. DropInv'
  BY DEF DropInv, CallInv, WriteInv, ListInv, Collections!TypeOK,
         Collections!Call, Collections!Busy, Collections!Writes
<1>6. OrphanInv'
  BY DEF OrphanInv, CallInv, ListInv, Free, Collections!TypeOK,
         Collections!Call, Collections!Troubles, Collections!Writes
<1>7. FileInv'
  BY DEF FileInv, CallInv, ListInv, Collections!TypeOK, Collections!Call,
         Collections!Writes, NewIsEmpty, Collections!NewIsEmpty
<1>8. AckedAreKept'
  BY DEF AckedAreKept, Collections!AckedAreKept, CallInv, ListInv, DropInv,
         WriteInv, Collections!TypeOK, Collections!Call, Collections!Writes,
         NewIsEmpty, Collections!NewIsEmpty
<1>9. NewIsEmpty'
  BY DEF NewIsEmpty, Collections!NewIsEmpty, CallInv, Collections!TypeOK,
         Collections!Call, Collections!Writes, Collections!IdleWriter
<1> QED BY <1>1, <1>2, <1>3, <1>4, <1>5, <1>6, <1>7, <1>8, <1>9

\* What was under way is cut off, and the memory is lost.
LEMMA CrashKeeps ==
  ASSUME CatalogInv, Collections!Crash
  PROVE  CatalogInv'
<1> USE DEF Collections!Crash, Collections!CutOff, Collections!Marked,
            Collections!End
<1>1. Collections!TypeOK'
  BY DEF Collections!TypeOK, CallInv, Collections!Pcs, Collections!Call,
         Collections!NoCall, Collections!IdleWriter, Collections!Writes,
         Collections!Troubles
<1>2. CallInv'
  BY DEF CallInv, Collections!TypeOK, Collections!Call, Collections!NoCall
<1>3. ListInv'
  BY DEF ListInv, CallInv, Collections!TypeOK, Collections!Call
<1>4. WriteInv'
  BY DEF WriteInv, CallInv, Collections!TypeOK, Collections!Busy,
         Collections!Call, Collections!Writes, Collections!IdleWriter
<1>5. DropInv'
  BY DEF DropInv, CallInv, WriteInv, ListInv, Collections!TypeOK,
         Collections!Call, Collections!Busy, Collections!Writes
<1>6. OrphanInv'
  <2> SUFFICES ASSUME NEW n \in Names, ~Listed(n), trouble'[n] \subseteq {"half", "late"}
               PROVE  file[n] = NoFile
    BY DEF OrphanInv, Free
  <2>1. trouble[n] \subseteq trouble'[n]
    BY DEF Collections!TypeOK, Collections!Call
  <2>2. ~(pc = "index" /\ call.name = n)
    BY DEF Collections!TypeOK, Collections!Call
  <2>3. ~Known(n)
    BY <2>1 DEF ListInv
  <2> QED BY <2>1, <2>2, <2>3 DEF OrphanInv, Free
<1>7. FileInv'
  BY DEF FileInv, CallInv, ListInv, Collections!TypeOK, Collections!Call,
         Collections!Writes, NewIsEmpty, Collections!NewIsEmpty
<1>8. AckedAreKept'
  BY DEF AckedAreKept, Collections!AckedAreKept, CallInv, ListInv, DropInv,
         WriteInv, Collections!TypeOK, Collections!Call, Collections!Writes,
         NewIsEmpty, Collections!NewIsEmpty
<1>9. NewIsEmpty'
  BY DEF NewIsEmpty, Collections!NewIsEmpty, CallInv, Collections!TypeOK,
         Collections!Call, Collections!Writes, Collections!IdleWriter
<1> QED BY <1>1, <1>2, <1>3, <1>4, <1>5, <1>6, <1>7, <1>8, <1>9

\* A lost .idx file is none of the invariant's business.
LEMMA LoseIndexKeeps ==
  ASSUME CatalogInv, NEW n \in Names, NEW f \in Fields,
         Collections!LoseIndex(n, f)
  PROVE  CatalogInv'
<1> USE DEF Collections!LoseIndex
<1>1. Collections!TypeOK'
  BY DEF Collections!TypeOK, CallInv, Collections!Pcs, Collections!Call,
         Collections!NoCall, Collections!IdleWriter, Collections!Writes,
         Collections!Troubles
<1>2. CallInv'
  BY DEF CallInv, Collections!TypeOK, Collections!Call, Collections!NoCall
<1>3. ListInv'
  BY DEF ListInv, CallInv, Collections!TypeOK, Collections!Call
<1>4. WriteInv'
  BY DEF WriteInv, CallInv, Collections!TypeOK, Collections!Busy,
         Collections!Call, Collections!Writes, Collections!IdleWriter
<1>5. DropInv'
  BY DEF DropInv, CallInv, WriteInv, ListInv, Collections!TypeOK,
         Collections!Call, Collections!Busy, Collections!Writes
<1>6. OrphanInv'
  BY DEF OrphanInv, CallInv, ListInv, Free, Collections!TypeOK,
         Collections!Call, Collections!Troubles, Collections!Writes
<1>7. FileInv'
  BY DEF FileInv, CallInv, ListInv, Collections!TypeOK, Collections!Call,
         Collections!Writes, NewIsEmpty, Collections!NewIsEmpty
<1>8. AckedAreKept'
  BY DEF AckedAreKept, Collections!AckedAreKept, CallInv, ListInv, DropInv,
         WriteInv, Collections!TypeOK, Collections!Call, Collections!Writes,
         NewIsEmpty, Collections!NewIsEmpty
<1>9. NewIsEmpty'
  BY DEF NewIsEmpty, Collections!NewIsEmpty, CallInv, Collections!TypeOK,
         Collections!Call, Collections!Writes, Collections!IdleWriter
<1> QED BY <1>1, <1>2, <1>3, <1>4, <1>5, <1>6, <1>7, <1>8, <1>9

\* The engine has what the manifest lists.
LEMMA OpenKeeps ==
  ASSUME CatalogInv, Collections!Open
  PROVE  CatalogInv'
<1> USE DEF Collections!Open, Collections!Rebuilt
<1>1. Collections!TypeOK'
  BY DEF Collections!TypeOK, CallInv, Collections!Pcs, Collections!Call,
         Collections!NoCall, Collections!IdleWriter, Collections!Writes,
         Collections!Troubles
<1>2. CallInv'
  BY DEF CallInv, Collections!TypeOK, Collections!Call, Collections!NoCall
<1>3. ListInv'
  BY DEF ListInv, CallInv, Collections!TypeOK, Collections!Call
<1>4. WriteInv'
  BY DEF WriteInv, CallInv, Collections!TypeOK, Collections!Busy,
         Collections!Call, Collections!Writes, Collections!IdleWriter
<1>5. DropInv'
  BY DEF DropInv, CallInv, WriteInv, ListInv, Collections!TypeOK,
         Collections!Call, Collections!Busy, Collections!Writes
<1>6. OrphanInv'
  BY DEF OrphanInv, CallInv, ListInv, Free, Collections!TypeOK,
         Collections!Call, Collections!Troubles, Collections!Writes
<1>7. FileInv'
  BY DEF FileInv, CallInv, ListInv, Collections!TypeOK, Collections!Call,
         Collections!Writes, NewIsEmpty, Collections!NewIsEmpty
<1>8. AckedAreKept'
  BY DEF AckedAreKept, Collections!AckedAreKept, CallInv, ListInv, DropInv,
         WriteInv, Collections!TypeOK, Collections!Call, Collections!Writes,
         NewIsEmpty, Collections!NewIsEmpty
<1>9. NewIsEmpty'
  BY DEF NewIsEmpty, Collections!NewIsEmpty, CallInv, Collections!TypeOK,
         Collections!Call, Collections!Writes, Collections!IdleWriter
<1> QED BY <1>1, <1>2, <1>3, <1>4, <1>5, <1>6, <1>7, <1>8, <1>9

\* A database that does not open changes .idx files at most.
LEMMA OpenFailsKeeps ==
  ASSUME CatalogInv, Collections!OpenFails
  PROVE  CatalogInv'
<1> USE DEF Collections!OpenFails, Collections!Rebuilt
<1>1. Collections!TypeOK'
  BY DEF Collections!TypeOK, CallInv, Collections!Pcs, Collections!Call,
         Collections!NoCall, Collections!IdleWriter, Collections!Writes,
         Collections!Troubles
<1>2. CallInv'
  BY DEF CallInv, Collections!TypeOK, Collections!Call, Collections!NoCall
<1>3. ListInv'
  BY DEF ListInv, CallInv, Collections!TypeOK, Collections!Call
<1>4. WriteInv'
  BY DEF WriteInv, CallInv, Collections!TypeOK, Collections!Busy,
         Collections!Call, Collections!Writes, Collections!IdleWriter
<1>5. DropInv'
  BY DEF DropInv, CallInv, WriteInv, ListInv, Collections!TypeOK,
         Collections!Call, Collections!Busy, Collections!Writes
<1>6. OrphanInv'
  BY DEF OrphanInv, CallInv, ListInv, Free, Collections!TypeOK,
         Collections!Call, Collections!Troubles, Collections!Writes
<1>7. FileInv'
  BY DEF FileInv, CallInv, ListInv, Collections!TypeOK, Collections!Call,
         Collections!Writes, NewIsEmpty, Collections!NewIsEmpty
<1>8. AckedAreKept'
  BY DEF AckedAreKept, Collections!AckedAreKept, CallInv, ListInv, DropInv,
         WriteInv, Collections!TypeOK, Collections!Call, Collections!Writes,
         NewIsEmpty, Collections!NewIsEmpty
<1>9. NewIsEmpty'
  BY DEF NewIsEmpty, Collections!NewIsEmpty, CallInv, Collections!TypeOK,
         Collections!Call, Collections!Writes, Collections!IdleWriter
<1> QED BY <1>1, <1>2, <1>3, <1>4, <1>5, <1>6, <1>7, <1>8, <1>9

\* A step of the functions alone changes nothing that the catalog keeps.
LEMMA CollectionsRest == CatalogInv /\ UNCHANGED collections => CatalogInv'
<1> SUFFICES ASSUME CatalogInv, UNCHANGED collections PROVE CatalogInv'
  OBVIOUS
<1> USE DEF collections
<1>1. Collections!TypeOK' BY DEF Collections!TypeOK
<1>2. CallInv' /\ ListInv' BY DEF CallInv, ListInv
<1>3. WriteInv' BY DEF WriteInv, Collections!Busy
<1>4. DropInv' BY DEF DropInv
<1>5. OrphanInv' BY DEF OrphanInv, Free
<1>6. FileInv' BY DEF FileInv
<1>7. AckedAreKept' BY DEF AckedAreKept, Collections!AckedAreKept
<1>8. NewIsEmpty' BY DEF NewIsEmpty, Collections!NewIsEmpty
<1> QED BY <1>1, <1>2, <1>3, <1>4, <1>5, <1>6, <1>7, <1>8

\* The steps of registering, dropping and creating
LEMMA ManagerKeeps ==
  CatalogInv /\ (Collections!ManagerNext \/ Collections!ManagerFails)
    => CatalogInv' /\ up' = up
<1> SUFFICES ASSUME CatalogInv, Collections!ManagerNext \/ Collections!ManagerFails
             PROVE  CatalogInv' /\ up' = up
  OBVIOUS
<1>1. CatalogInv'
  BY RegisterKeeps, ReconnectKeeps, DropKeeps, DestroyKeeps, UnindexKeeps,
     ForgetKeeps, ForgetFailsKeeps, TouchKeeps, TouchRefusedKeeps, IndexKeeps,
     EnlistKeeps, EnlistFailsKeeps, StepFailsKeeps
  DEF Collections!ManagerNext, Collections!ManagerFails
<1>2. up' = up
  BY DEF Collections!ManagerNext, Collections!ManagerFails, Collections!Register,
         Collections!Reconnect, Collections!Drop, Collections!Destroy,
         Collections!Unindex, Collections!Forget, Collections!ForgetFails,
         Collections!Touch, Collections!TouchRefused, Collections!Index,
         Collections!Enlist, Collections!EnlistFails, Collections!StepFails
<1> QED BY <1>1, <1>2

\* The steps of a write
LEMMA WriterKeeps ==
  ASSUME CatalogInv, NEW w \in Writers, Collections!WriterNext(w)
  PROVE  CatalogInv' /\ up' = up
<1>1. CatalogInv'
  BY StartWriteKeeps, TakeStoreKeeps, AppendDocKeeps, TakeIndexKeeps, SaveIndexesKeeps,
     WriteFailsKeeps
  DEF Collections!WriterNext
<1>2. up' = up
  BY DEF Collections!WriterNext, Collections!StartWrite, Collections!TakeStore,
         Collections!AppendDoc, Collections!TakeIndex, Collections!SaveIndexes,
         Collections!WriteFails
<1> QED BY <1>1, <1>2

-----------------------------------------------------------------------------
(* What every step of the function registry keeps *)

\* A registration enters a callable; the slot is under way until it is saved.
LEMMA EnterKeeps ==
  ASSUME FunctionInv, NEW s \in Slots, NEW fn \in Callables,
         Functions!Enter(s, fn), up' = up
  PROVE  FunctionInv'
BY NoFnAssumption
DEF FunctionInv, FunctionsSurvive, Functions!FunctionsPersist, Functions!TypeOK,
    Functions!Enter, Functions!Idle

\* All that is in memory is written: the slots without an error keep what they
\* had, as memory has it.
LEMMA SaveKeeps ==
  ASSUME FunctionInv, Functions!Save, up, up' = up
  PROVE  FunctionInv'
<1> USE DEF FunctionInv, Functions!Save
<1>1. Functions!TypeOK'
  <2>1. mem \in [Slots -> (Callables \ Unpicklable) \cup {NoFn}]
    BY DEF Functions!TypeOK, Functions!Picklable
  <2> QED BY <2>1 DEF Functions!TypeOK
<1>2. FunctionsSurvive'
  <2> PICK t \in saving : /\ pkl' = mem
                          /\ kept' = [kept EXCEPT ![t] = mem[t]]
                          /\ raised' = raised \ {t}
    OBVIOUS
  <2> SUFFICES ASSUME NEW s \in Slots, s \notin raised'
               PROVE  pkl'[s] = kept'[s] /\ (up' => mem'[s] = kept'[s])
    BY DEF FunctionsSurvive, Functions!FunctionsPersist
  <2>1. CASE s = t
    BY <2>1 DEF Functions!TypeOK
  <2>2. CASE s # t
    <3>1. s \notin saving /\ s \notin raised
      BY <2>2
    <3>2. up => mem[s] = kept[s]
      BY <3>1 DEF FunctionsSurvive, Functions!FunctionsPersist
    <3> QED BY <2>2, <3>2 DEF Functions!TypeOK
  <2> QED BY <2>1, <2>2
<1> QED BY <1>1, <1>2

\* The slot whose save raised is excepted.
LEMMA SaveFailsKeeps ==
  ASSUME FunctionInv, NEW full \in BOOLEAN, Functions!SaveFails(full), up' = up
  PROVE  FunctionInv'
BY DEF FunctionInv, FunctionsSurvive, Functions!FunctionsPersist, Functions!TypeOK,
       Functions!SaveFails

\* Memory is lost, the file is not.
LEMMA RegistryCrashKeeps ==
  ASSUME FunctionInv, Functions!Crash, ~up'
  PROVE  FunctionInv'
BY DEF FunctionInv, FunctionsSurvive, Functions!FunctionsPersist, Functions!TypeOK,
       Functions!Crash, Functions!Empty

\* What is loaded is what the file has.
LEMMA LoadKeeps ==
  ASSUME FunctionInv, Functions!Load
  PROVE  FunctionInv'
BY DEF FunctionInv, FunctionsSurvive, Functions!FunctionsPersist, Functions!TypeOK,
       Functions!Load

\* A step of the collections alone
LEMMA FunctionsRest == FunctionInv /\ UNCHANGED <<functions, up>> => FunctionInv'
BY DEF functions, FunctionInv, FunctionsSurvive, Functions!FunctionsPersist,
       Functions!TypeOK

-----------------------------------------------------------------------------
(* The invariant *)

\* A new database has nothing.
LEMMA InitEstablishes == Init => IInv
<1> SUFFICES ASSUME Init PROVE IInv
  OBVIOUS
<1> USE DEF Init, Collections!Init
<1>1. Collections!TypeOK
  BY DEF Collections!TypeOK, Collections!Pcs, Collections!NoCall,
         Collections!IdleWriter, Collections!Troubles
<1>2. CallInv /\ ListInv /\ DropInv
  BY DEF CallInv, ListInv, DropInv
<1>3. WriteInv /\ OrphanInv /\ FileInv
  BY DEF WriteInv, OrphanInv, Free, FileInv, Collections!IdleWriter
<1>4. AckedAreKept /\ NewIsEmpty
  BY DEF AckedAreKept, Collections!AckedAreKept, NewIsEmpty, Collections!NewIsEmpty
<1>5. FunctionInv
  BY NoFnAssumption
  DEF FunctionInv, FunctionsSurvive, Functions!FunctionsPersist, Functions!TypeOK,
      Functions!Init, Functions!Empty
<1> QED BY <1>1, <1>2, <1>3, <1>4, <1>5 DEF IInv

\* Every step of the database keeps the invariant of either part.
LEMMA NextKeeps == IInv /\ [Next]_vars => IInv'
<1> SUFFICES ASSUME IInv, [Next]_vars PROVE IInv'
  OBVIOUS
<1> USE DEF IInv
<1>1. CASE CollectionCall
  <2>1. CatalogInv' /\ up' = up
    BY <1>1, ManagerKeeps DEF CollectionCall
  <2> QED BY <1>1, <2>1, FunctionsRest DEF CollectionCall
<1>2. CASE Write
  <2>1. CatalogInv' /\ up' = up
    BY <1>2, WriterKeeps DEF Write
  <2> QED BY <1>2, <2>1, FunctionsRest DEF Write
<1>3. CASE FunctionCall
  <2>1. CatalogInv' /\ up' = up
    BY <1>3, CollectionsRest DEF FunctionCall, collections
  <2>2. FunctionInv'
    BY <1>3, <2>1, EnterKeeps, SaveKeeps, SaveFailsKeeps DEF FunctionCall
  <2> QED BY <2>1, <2>2
<1>4. CASE Crash
  <2>1. CatalogInv'
    BY <1>4, CrashKeeps DEF Crash
  <2>2. FunctionInv'
    BY <1>4, RegistryCrashKeeps DEF Crash, Collections!Crash
  <2> QED BY <2>1, <2>2
<1>5. CASE Open
  BY <1>5, OpenKeeps, LoadKeeps DEF Open
<1>6. CASE OpenFails
  <2>1. CatalogInv' /\ up' = up
    BY <1>6, OpenFailsKeeps DEF OpenFails, Collections!OpenFails
  <2> QED BY <1>6, <2>1, FunctionsRest DEF OpenFails
<1>7. CASE LoseIndex
  <2>1. CatalogInv' /\ up' = up
    BY <1>7, LoseIndexKeeps DEF LoseIndex, Collections!LoseIndex
  <2> QED BY <1>7, <2>1, FunctionsRest DEF LoseIndex
<1>8. CASE UNCHANGED vars
  BY <1>8, CollectionsRest, FunctionsRest DEF vars, collections
<1> QED BY <1>1, <1>2, <1>3, <1>4, <1>5, <1>6, <1>7, <1>8 DEF Next

\* The invariant holds in every reachable state.
THEOREM Invariance == Spec => []IInv
<1>1. Init => IInv
  BY InitEstablishes
<1>2. IInv /\ [Next]_vars => IInv'
  BY NextKeeps
<1> QED BY <1>1, <1>2, PTL DEF Spec

-----------------------------------------------------------------------------
(* What it says of a database *)

\* All variables keep their types, and the manager knows no name that the
\* engine does not.
THEOREM TypeCorrect == Spec => []TypeOK
<1>1. IInv => TypeOK
  BY DEF IInv, FunctionInv, TypeOK
<1> QED BY <1>1, Invariance, PTL

\* Acknowledged documents stay in their file, and their collection in the
\* manifest, through failures, crashes, and the drops of other collections.
THEOREM AcknowledgedAreKept == Spec => []AckedAreKept
<1>1. IInv => AckedAreKept
  BY DEF IInv
<1> QED BY <1>1, Invariance, PTL

\* The engine and manifest.json agree, but on names whose call was cut off.
THEOREM ManifestIsEngine == Spec => []ManifestMatches
<1>1. IInv => ManifestMatches
  BY DEF IInv, ManifestMatches, Collections!ManifestMatches, ListInv
<1> QED BY <1>1, Invariance, PTL

\* No .jsonl file is in the way of a name that is not taken.
THEOREM NamesCanBeTaken == Spec => []FreeNamesAreFree
<1>1. IInv => FreeNamesAreFree
  BY DEF IInv, FreeNamesAreFree, Collections!FreeNamesAreFree, OrphanInv, Free,
         Collections!Busy, Collections!TypeOK
<1> QED BY <1>1, Invariance, PTL

\* A collection becomes known empty, also when it replaces one of its name whose
\* creation or drop was cut off at any step, unless a write that had looked up
\* the old one came late.
THEOREM CreatedEmpty == Spec => []NewIsEmpty
<1>1. IInv => NewIsEmpty
  BY DEF IInv
<1> QED BY <1>1, Invariance, PTL

\* A closed database can be opened unless a drop was cut off.
THEOREM Reopens == Spec => []CanBeOpened
<1>1. IInv => CanBeOpened
  BY DEF IInv, CanBeOpened, Collections!CanBeOpened, Collections!CanLoad, FileInv,
         CallInv
<1> QED BY <1>1, Invariance, PTL

\* A function that was registered without an error is there after any crash.
THEOREM FunctionsAreKept == Spec => []FunctionsSurvive
<1>1. IInv => FunctionsSurvive
  BY DEF IInv, FunctionInv
<1> QED BY <1>1, Invariance, PTL
=============================================================================
