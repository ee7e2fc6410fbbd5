----------------------- MODULE SchemaCollectionProofs -----------------------
(***************************************************************************)
(* SchemaCollection for any customers, orders, emails and threads: the     *)
(* types, that an email is unique unless it is contested, and that the     *)
(* reverse index is exact for the orders that are not lost.                *)
(***************************************************************************)
EXTENDS SchemaCollection, TLAPS

-----------------------------------------------------------------------------
(* The invariant of the customers *)

Inside(t) == Uniques!Inside(t)

\* What a call on the customers is, and where it can be.
CustomerCalls ==
  \A t \in Threads :
    /\ cpc[t] # "idle" => ccall[t] \in Uniques!Calls
    /\ cpc[t] = "read" => ccall[t].op \in {"update", "delete"}
    /\ cpc[t] \in {"check", "unlist", "list"} => ccall[t].op # "compact"
    /\ cpc[t] \in {"rebuild", "fill"} => ccall[t].op = "compact"
    /\ cpc[t] \in {"check", "list"} => ccall[t].op # "delete"

\* Two threads are past the lock only when a compaction has replaced the file.
AloneInv ==
  \A t, u \in Threads : Inside(t) /\ Inside(u) /\ t # u => contested = Emails

\* The document of a call past the lock is that of its customer.
StoredInv ==
  \A t \in Threads :
    cpc[t] \in {"unlist", "list"} /\ contested # Emails =>
      customers[ccall[t].id] = ccall[t].doc

\* The pair of a document is in the index, or a thread is about to enter it.
Listing(t, c) ==
  \/ cpc[t] \in {"unlist", "list"} /\ ccall[t].id = c /\ ccall[t].doc = customers[c]
  \/ cpc[t] = "fill" /\ <<customers[c], c>> \in live[t]

IndexCovers ==
  \A c \in Customers :
    customers[c] \in Emails \ contested =>
      <<customers[c], c>> \in emailIdx \/ \E t \in Threads : Listing(t, c)

\* What a compaction is about to enter is all that there is.
LiveInv ==
  \A t \in Threads :
    cpc[t] = "rebuild" /\ contested # Emails =>
      \A c \in Customers : customers[c] \in Emails => <<customers[c], c>> \in live[t]

\* The pair is in the file, or the call that wrote the document has not saved yet.
Saving(t, c) ==
  /\ cpc[t] \in {"unlist", "list", "save"}
  /\ ccall[t].id = c /\ ccall[t].doc = customers[c]

FileCovers ==
  \A c \in Customers :
    customers[c] \in Emails \ (contested \cup unsaved) =>
      <<customers[c], c>> \in emailFile \/ \E t \in Threads : Saving(t, c)

\* An email that was found free is still free when it is written ...
ClaimInv ==
  \A t \in Threads :
    cpc[t] = "write" /\ ccall[t].doc \in Emails \ contested =>
      \A c \in Customers : customers[c] = ccall[t].doc => c = ccall[t].id

\* ... because only one thread found it free.
RivalInv ==
  \A t, u \in Threads :
    /\ cpc[t] = "write" /\ cpc[u] = "write" /\ t # u
    /\ ccall[t].doc = ccall[u].doc /\ ccall[t].doc \in Emails
    => ccall[t].doc \in contested

CustomerInv ==
  /\ Uniques!TypeOK
  /\ CustomerCalls /\ AloneInv /\ StoredInv /\ IndexCovers /\ LiveInv /\ FileCovers
  /\ ClaimInv /\ RivalInv /\ UniqueEmails

-----------------------------------------------------------------------------
(* The invariant of the orders *)

Sees(o) == {c \in Customers : reverse[c] # NoList /\ o \in reverse[c]}

InFile(o) == {c \in Customers : ridx[c] # NoList /\ o \in ridx[c]}

Of(doc) == {doc} \ {NoDoc, Null}

\* What a call on the orders is, where it can be, and where it goes from there.
CallOK(t) ==
  /\ opc[t] = "idle" => ocall[t] = Reverses!NoCall
  /\ opc[t] # "idle" => ocall[t] \in Reverses!Calls
  /\ opc[t] \in {"unregister", "take", "test", "drop", "read"} =>
       ocall[t].op \in {"update", "delete"}
  /\ opc[t] \in {"check", "register", "fresh", "enter"} =>
       ocall[t].op \in {"insert", "update"}
  /\ opc[t] = "wipe" => ocall[t].op = "compact"
  /\ opc[t] \in {"take", "test", "drop"} =>
       oold[t] \in Customers /\ after[t] = Reverses!NextOf(ocall[t])
  /\ opc[t] \in {"fresh", "enter"} => ocall[t].doc \in Customers
  /\ opc[t] \in {"fresh", "enter", "wipe"} => after[t] = "idle"
  /\ opc[t] \in {"dump", "replace"} =>
       /\ after[t] = "write" => ocall[t].op = "update"
       /\ after[t] = "register" => ocall[t].op \in {"insert", "update"}
       /\ after[t] = "unregister" => ocall[t].op = "delete"

OrderCalls == \A t \in Threads : CallOK(t)

\* An order that is not lost has one call at a time.
SoleInv ==
  \A t, u \in Threads :
    t # u /\ ocall[t].id = ocall[u].id /\ ocall[t].id \in Orders => ocall[t].id \in lost

\* The call has written its document.
Written(t) ==
  \/ opc[t] \in {"register", "fresh", "enter"}
  \/ opc[t] \in {"unregister", "take", "test", "drop"} /\ ocall[t].op = "delete"
  \/ opc[t] \in {"dump", "replace"} /\ after[t] # "write"

WrittenInv ==
  \A t \in Threads :
    Written(t) /\ ocall[t].id \in Orders \ lost => orders[ocall[t].id] = ocall[t].doc

\* What the call has read is still so.
ReadInv ==
  \A t \in Threads :
    /\ ocall[t].id \in Orders \ lost
    /\ \/ opc[t] = "check" /\ ocall[t].op = "update"
       \/ opc[t] = "write" /\ ocall[t].op = "delete"
    => oold[t] = orders[ocall[t].id]

\* Where the order of a call is in the reverse index: under the customer of its
\* document, under that of the document the call has read, or nowhere.
AtHome(t) ==
  \/ opc[t] \in {"read", "check"}
  \/ opc[t] = "write" /\ ocall[t].op = "insert"
  \/ opc[t] \in {"dump", "replace"} /\ after[t] = "idle"

AtOld(t) ==
  \/ opc[t] \in {"unregister", "take"}
  \/ opc[t] = "write" /\ ocall[t].op = "delete"
  \/ opc[t] \in {"dump", "replace"} /\ after[t] = "unregister"

Nowhere(t) ==
  \/ opc[t] \in {"test", "drop", "register", "fresh", "enter"}
  \/ opc[t] = "write" /\ ocall[t].op = "update"
  \/ opc[t] \in {"dump", "replace"} /\ after[t] \in {"write", "register"}

Place(t, o) ==
  /\ AtHome(t) => Sees(o) = Of(orders[o])
  /\ AtOld(t) => Sees(o) = Of(oold[t])
  /\ Nowhere(t) => Sees(o) = {}

PlaceInv ==
  \A o \in Orders \ lost :
    /\ (\A t \in Threads : ocall[t].id # o) => Sees(o) = Of(orders[o])
    /\ \A t \in Threads : ocall[t].id = o => Place(t, o)

\* In a list that is about to go, there are only orders that are lost.
WindowInv ==
  \A t \in Threads :
    /\ opc[t] = "drop" /\ reverse[oold[t]] # NoList => reverse[oold[t]] \subseteq lost
    /\ opc[t] = "fresh" /\ reverse[ocall[t].doc] # NoList =>
         reverse[ocall[t].doc] \subseteq lost

\* The call has changed the lists and has not saved them yet.
Unsaved(t) ==
  \/ opc[t] \in {"test", "drop"}
  \/ opc[t] \in {"dump", "replace"} /\ after[t] \in {"write", "idle"}

FileInv ==
  ridx # Garbled =>
    \A o \in Orders \ lost :
      (\A t \in Threads : ocall[t].id = o => ~Unsaved(t)) => InFile(o) = Sees(o)

OrderInv ==
  /\ Reverses!TypeOK
  /\ OrderCalls /\ SoleInv /\ WrittenInv /\ ReadInv
  /\ PlaceInv /\ WindowInv /\ FileInv

IInv == CustomerInv /\ OrderInv

-----------------------------------------------------------------------------
(* What every step on the customers keeps *)

\* A call names a customer, and a document that fits it.
LEMMA CustomerCallFacts ==
  ASSUME NEW c \in Uniques!Calls
  PROVE  /\ c.op \in {"insert", "update", "delete", "compact"}
         /\ c.op # "compact" => c.id \in Customers
         /\ c.op \in {"insert", "update"} => c.doc \in Emails \cup {Null}
         /\ c.op \in {"delete", "compact"} => c.doc = NoDoc
         /\ c.op = "compact" => c.id = NoDoc
  BY DEF Uniques!Calls, Uniques!Compaction

\* None is no email, and no customer.
LEMMA NullFacts ==
  /\ NoDoc \notin Emails \cup Customers /\ Null \notin Emails /\ NoDoc # Null
  /\ NoDoc \notin Orders /\ Null \notin Customers
  BY NoDocAssumption, NullAssumption

\* A call begins.
LEMMA CustomerStartKeeps ==
  ASSUME CustomerInv, NEW t \in Threads, NEW c \in Uniques!Calls, Uniques!Start(t, c)
  PROVE  CustomerInv'
<1> USE CustomerCallFacts, NullFacts DEF CustomerInv, Uniques!TypeOK, CustomerCalls, Inside, Uniques!Inside,
            Uniques!Go, Uniques!End, Uniques!engine, Uniques!history,
            Uniques!Email, Uniques!Disputed, Uniques!Locked, Uniques!Postings,
            Uniques!Start
<1>1. Uniques!TypeOK'
  BY DEF Uniques!TypeOK, Uniques!Pcs, Uniques!NoCall
<1>2. CustomerCalls'
  OBVIOUS
<1>3. AloneInv'
  BY DEF AloneInv
<1>4. StoredInv'
  BY DEF StoredInv, AloneInv
<1>5. IndexCovers'
  BY DEF StoredInv, IndexCovers, Listing, AloneInv, LiveInv
<1>6. LiveInv'
  BY DEF LiveInv, AloneInv
<1>7. FileCovers'
  BY DEF FileCovers, Saving, IndexCovers, Listing, AloneInv
<1>8. ClaimInv'
  BY DEF ClaimInv, IndexCovers, Listing, RivalInv, Uniques!Unseen,
         Uniques!EmailIsFree
<1>9. RivalInv'
  BY DEF RivalInv, Uniques!Unseen
<1>10. UniqueEmails'
  BY DEF UniqueEmails, Uniques!UniqueEmails, ClaimInv
<1> QED BY <1>1, <1>2, <1>3, <1>4, <1>5, <1>6, <1>7, <1>8, <1>9, <1>10

\* The document is read.
LEMMA CustomerReadKeeps ==
  ASSUME CustomerInv, NEW t \in Threads, Uniques!Read(t)
  PROVE  CustomerInv'
<1> USE CustomerCallFacts, NullFacts DEF CustomerInv, Uniques!TypeOK, CustomerCalls, Inside, Uniques!Inside,
            Uniques!Go, Uniques!End, Uniques!engine, Uniques!history,
            Uniques!Email, Uniques!Disputed, Uniques!Locked, Uniques!Postings,
            Uniques!Read
<1>1. Uniques!TypeOK'
  BY DEF Uniques!TypeOK, Uniques!Pcs, Uniques!NoCall
<1>2. CustomerCalls'
  OBVIOUS
<1>3. AloneInv'
  BY DEF AloneInv
<1>4. StoredInv'
  BY DEF StoredInv, AloneInv
<1>5. IndexCovers'
  BY DEF StoredInv, IndexCovers, Listing, AloneInv, LiveInv
<1>6. LiveInv'
  BY DEF LiveInv, AloneInv
<1>7. FileCovers'
  BY DEF FileCovers, Saving, IndexCovers, Listing, AloneInv
<1>8. ClaimInv'
  BY DEF ClaimInv, IndexCovers, Listing, RivalInv, Uniques!Unseen,
         Uniques!EmailIsFree
<1>9. RivalInv'
  BY DEF RivalInv, Uniques!Unseen
<1>10. UniqueEmails'
  BY DEF UniqueEmails, Uniques!UniqueEmails, ClaimInv
<1> QED BY <1>1, <1>2, <1>3, <1>4, <1>5, <1>6, <1>7, <1>8, <1>9, <1>10

\* The email is found free: nobody has it, or it comes to be contested.
LEMMA CustomerCheckKeeps ==
  ASSUME CustomerInv, NEW t \in Threads, Uniques!Check(t)
  PROVE  CustomerInv'
<1> USE CustomerCallFacts, NullFacts DEF CustomerInv, Uniques!TypeOK, CustomerCalls, Inside, Uniques!Inside,
            Uniques!Go, Uniques!End, Uniques!engine, Uniques!history,
            Uniques!Email, Uniques!Disputed, Uniques!Locked, Uniques!Postings,
            Uniques!Check
<1>1. Uniques!TypeOK'
  BY DEF Uniques!TypeOK, Uniques!Pcs, Uniques!NoCall
<1>2. CustomerCalls'
  OBVIOUS
<1>3. AloneInv'
  BY DEF AloneInv
<1>4. StoredInv'
  BY DEF StoredInv, AloneInv
<1>5. IndexCovers'
  BY DEF StoredInv, IndexCovers, Listing, AloneInv, LiveInv
<1>6. LiveInv'
  BY DEF LiveInv, AloneInv
<1>7. FileCovers'
  BY DEF FileCovers, Saving, IndexCovers, Listing, AloneInv
<1>8. ClaimInv'
  <2> SUFFICES ASSUME NEW u \in Threads, cpc'[u] = "write",
                      ccall[u].doc \in Emails \ contested',
                      NEW c \in Customers, customers[c] = ccall[u].doc
               PROVE  c = ccall[u].id
    BY DEF ClaimInv
  <2>1. CASE u # t
    BY <2>1 DEF ClaimInv
  <2>2. CASE u = t
    <3>1. ~Uniques!Unseen(t)
      BY <2>2
    <3>2. \A v \in Threads : ~Listing(v, c)
      BY <2>2, <3>1 DEF Listing, Uniques!Unseen
    <3>3. <<ccall[t].doc, c>> \in emailIdx
      BY <2>2, <3>2 DEF IndexCovers
    <3> QED BY <2>2, <3>3 DEF Uniques!EmailIsFree
  <2> QED BY <2>1, <2>2
<1>9. RivalInv'
  BY DEF RivalInv, Uniques!Unseen
<1>10. UniqueEmails'
  BY DEF UniqueEmails, Uniques!UniqueEmails, ClaimInv
<1> QED BY <1>1, <1>2, <1>3, <1>4, <1>5, <1>6, <1>7, <1>8, <1>9, <1>10

\* The email is taken.
LEMMA CustomerCheckRefusesKeeps ==
  ASSUME CustomerInv, NEW t \in Threads, Uniques!CheckRefuses(t)
  PROVE  CustomerInv'
<1> USE CustomerCallFacts, NullFacts DEF CustomerInv, Uniques!TypeOK, CustomerCalls, Inside, Uniques!Inside,
            Uniques!Go, Uniques!End, Uniques!engine, Uniques!history,
            Uniques!Email, Uniques!Disputed, Uniques!Locked, Uniques!Postings,
            Uniques!CheckRefuses
<1>1. Uniques!TypeOK'
  BY DEF Uniques!TypeOK, Uniques!Pcs, Uniques!NoCall
<1>2. CustomerCalls'
  OBVIOUS
<1>3. AloneInv'
  BY DEF AloneInv
<1>4. StoredInv'
  BY DEF StoredInv, AloneInv
<1>5. IndexCovers'
  BY DEF StoredInv, IndexCovers, Listing, AloneInv, LiveInv
<1>6. LiveInv'
  BY DEF LiveInv, AloneInv
<1>7. FileCovers'
  BY DEF FileCovers, Saving, IndexCovers, Listing, AloneInv
<1>8. ClaimInv'
  BY DEF ClaimInv, IndexCovers, Listing, RivalInv, Uniques!Unseen,
         Uniques!EmailIsFree
<1>9. RivalInv'
  BY DEF RivalInv, Uniques!Unseen
<1>10. UniqueEmails'
  BY DEF UniqueEmails, Uniques!UniqueEmails, ClaimInv
<1> QED BY <1>1, <1>2, <1>3, <1>4, <1>5, <1>6, <1>7, <1>8, <1>9, <1>10

\* The email is written by the one thread that found it free.
LEMMA CustomerAppendKeeps ==
  ASSUME CustomerInv, NEW t \in Threads, Uniques!Append(t)
  PROVE  CustomerInv'
<1> USE CustomerCallFacts, NullFacts DEF CustomerInv, Uniques!TypeOK, CustomerCalls, Inside, Uniques!Inside,
            Uniques!Go, Uniques!End, Uniques!engine, Uniques!history,
            Uniques!Email, Uniques!Disputed, Uniques!Locked, Uniques!Postings,
            Uniques!Append
<1>1. Uniques!TypeOK'
  BY DEF Uniques!TypeOK, Uniques!Pcs, Uniques!NoCall
<1>2. CustomerCalls'
  OBVIOUS
<1>3. AloneInv'
  BY DEF AloneInv
<1>4. StoredInv'
  BY DEF StoredInv, AloneInv
<1>5. IndexCovers'
  BY DEF StoredInv, IndexCovers, Listing, AloneInv, LiveInv
<1>6. LiveInv'
  BY DEF LiveInv, AloneInv
<1>7. FileCovers'
  BY DEF FileCovers, Saving, IndexCovers, Listing, AloneInv
<1>8. ClaimInv'
  BY DEF ClaimInv, IndexCovers, Listing, RivalInv, Uniques!Unseen,
         Uniques!EmailIsFree
<1>9. RivalInv'
  BY DEF RivalInv, Uniques!Unseen
<1>10. UniqueEmails'
  BY DEF UniqueEmails, Uniques!UniqueEmails, ClaimInv
<1> QED BY <1>1, <1>2, <1>3, <1>4, <1>5, <1>6, <1>7, <1>8, <1>9, <1>10

\* Nothing is written.
LEMMA CustomerWriteFailsKeeps ==
  ASSUME CustomerInv, NEW t \in Threads, Uniques!WriteFails(t)
  PROVE  CustomerInv'
<1> USE CustomerCallFacts, NullFacts DEF CustomerInv, Uniques!TypeOK, CustomerCalls, Inside, Uniques!Inside,
            Uniques!Go, Uniques!End, Uniques!engine, Uniques!history,
            Uniques!Email, Uniques!Disputed, Uniques!Locked, Uniques!Postings,
            Uniques!WriteFails
<1>1. Uniques!TypeOK'
  BY DEF Uniques!TypeOK, Uniques!Pcs, Uniques!NoCall
<1>2. CustomerCalls'
  OBVIOUS
<1>3. AloneInv'
  BY DEF AloneInv
<1>4. StoredInv'
  BY DEF StoredInv, AloneInv
<1>5. IndexCovers'
  BY DEF StoredInv, IndexCovers, Listing, AloneInv, LiveInv
<1>6. LiveInv'
  BY DEF LiveInv, AloneInv
<1>7. FileCovers'
  BY DEF FileCovers, Saving, IndexCovers, Listing, AloneInv
<1>8. ClaimInv'
  BY DEF ClaimInv, IndexCovers, Listing, RivalInv, Uniques!Unseen,
         Uniques!EmailIsFree
<1>9. RivalInv'
  BY DEF RivalInv, Uniques!Unseen
<1>10. UniqueEmails'
  BY DEF UniqueEmails, Uniques!UniqueEmails, ClaimInv
<1> QED BY <1>1, <1>2, <1>3, <1>4, <1>5, <1>6, <1>7, <1>8, <1>9, <1>10

\* What is written without an entry is contested.
LEMMA CustomerWriteFailsLateKeeps ==
  ASSUME CustomerInv, NEW t \in Threads, Uniques!WriteFailsLate(t)
  PROVE  CustomerInv'
<1> USE CustomerCallFacts, NullFacts DEF CustomerInv, Uniques!TypeOK, CustomerCalls, Inside, Uniques!Inside,
            Uniques!Go, Uniques!End, Uniques!engine, Uniques!history,
            Uniques!Email, Uniques!Disputed, Uniques!Locked, Uniques!Postings,
            Uniques!WriteFailsLate
<1>1. Uniques!TypeOK'
  BY DEF Uniques!TypeOK, Uniques!Pcs, Uniques!NoCall
<1>2. CustomerCalls'
  OBVIOUS
<1>3. AloneInv'
  BY DEF AloneInv
<1>4. StoredInv'
  BY DEF StoredInv, AloneInv
<1>5. IndexCovers'
  BY DEF StoredInv, IndexCovers, Listing, AloneInv, LiveInv
<1>6. LiveInv'
  BY DEF LiveInv, AloneInv
<1>7. FileCovers'
  BY DEF FileCovers, Saving, IndexCovers, Listing, AloneInv
<1>8. ClaimInv'
  BY DEF ClaimInv, IndexCovers, Listing, RivalInv, Uniques!Unseen,
         Uniques!EmailIsFree
<1>9. RivalInv'
  BY DEF RivalInv, Uniques!Unseen
<1>10. UniqueEmails'
  BY DEF UniqueEmails, Uniques!UniqueEmails, ClaimInv
<1> QED BY <1>1, <1>2, <1>3, <1>4, <1>5, <1>6, <1>7, <1>8, <1>9, <1>10

\* The pair of the old document goes.
LEMMA CustomerUnlistKeeps ==
  ASSUME CustomerInv, NEW t \in Threads, Uniques!Unlist(t)
  PROVE  CustomerInv'
<1> USE CustomerCallFacts, NullFacts DEF CustomerInv, Uniques!TypeOK, CustomerCalls, Inside, Uniques!Inside,
            Uniques!Go, Uniques!End, Uniques!engine, Uniques!history,
            Uniques!Email, Uniques!Disputed, Uniques!Locked, Uniques!Postings,
            Uniques!Unlist
<1>1. Uniques!TypeOK'
  BY DEF Uniques!TypeOK, Uniques!Pcs, Uniques!NoCall
<1>2. CustomerCalls'
  OBVIOUS
<1>3. AloneInv'
  BY DEF AloneInv
<1>4. StoredInv'
  BY DEF StoredInv, AloneInv
<1>5. IndexCovers'
  BY DEF StoredInv, IndexCovers, Listing, AloneInv, LiveInv
<1>6. LiveInv'
  BY DEF LiveInv, AloneInv
<1>7. FileCovers'
  BY DEF FileCovers, Saving, IndexCovers, Listing, AloneInv
<1>8. ClaimInv'
  BY DEF ClaimInv, IndexCovers, Listing, RivalInv, Uniques!Unseen,
         Uniques!EmailIsFree
<1>9. RivalInv'
  BY DEF RivalInv, Uniques!Unseen
<1>10. UniqueEmails'
  BY DEF UniqueEmails, Uniques!UniqueEmails, ClaimInv
<1> QED BY <1>1, <1>2, <1>3, <1>4, <1>5, <1>6, <1>7, <1>8, <1>9, <1>10

\* The pair of the new document comes.
LEMMA CustomerListKeeps ==
  ASSUME CustomerInv, NEW t \in Threads, Uniques!List(t)
  PROVE  CustomerInv'
<1> USE CustomerCallFacts, NullFacts DEF CustomerInv, Uniques!TypeOK, CustomerCalls, Inside, Uniques!Inside,
            Uniques!Go, Uniques!End, Uniques!engine, Uniques!history,
            Uniques!Email, Uniques!Disputed, Uniques!Locked, Uniques!Postings,
            Uniques!List
<1>1. Uniques!TypeOK'
  BY DEF Uniques!TypeOK, Uniques!Pcs, Uniques!NoCall
<1>2. CustomerCalls'
  OBVIOUS
<1>3. AloneInv'
  BY DEF AloneInv
<1>4. StoredInv'
  BY DEF StoredInv, AloneInv
<1>5. IndexCovers'
  BY DEF StoredInv, IndexCovers, Listing, AloneInv, LiveInv
<1>6. LiveInv'
  BY DEF LiveInv, AloneInv
<1>7. FileCovers'
  BY DEF FileCovers, Saving, IndexCovers, Listing, AloneInv
<1>8. ClaimInv'
  BY DEF ClaimInv, IndexCovers, Listing, RivalInv, Uniques!Unseen,
         Uniques!EmailIsFree
<1>9. RivalInv'
  BY DEF RivalInv, Uniques!Unseen
<1>10. UniqueEmails'
  BY DEF UniqueEmails, Uniques!UniqueEmails, ClaimInv
<1> QED BY <1>1, <1>2, <1>3, <1>4, <1>5, <1>6, <1>7, <1>8, <1>9, <1>10

\* A compaction reads what there is.
LEMMA CustomerRewriteKeeps ==
  ASSUME CustomerInv, NEW t \in Threads, Uniques!Rewrite(t)
  PROVE  CustomerInv'
<1> USE CustomerCallFacts, NullFacts DEF CustomerInv, Uniques!TypeOK, CustomerCalls, Inside, Uniques!Inside,
            Uniques!Go, Uniques!End, Uniques!engine, Uniques!history,
            Uniques!Email, Uniques!Disputed, Uniques!Locked, Uniques!Postings,
            Uniques!Rewrite
<1>1. Uniques!TypeOK'
  BY DEF Uniques!TypeOK, Uniques!Pcs, Uniques!NoCall
<1>2. CustomerCalls'
  OBVIOUS
<1>3. AloneInv'
  BY DEF AloneInv
<1>4. StoredInv'
  BY DEF StoredInv, AloneInv
<1>5. IndexCovers'
  BY DEF StoredInv, IndexCovers, Listing, AloneInv, LiveInv
<1>6. LiveInv'
  BY DEF LiveInv, AloneInv
<1>7. FileCovers'
  BY DEF FileCovers, Saving, IndexCovers, Listing, AloneInv
<1>8. ClaimInv'
  BY DEF ClaimInv, IndexCovers, Listing, RivalInv, Uniques!Unseen,
         Uniques!EmailIsFree
<1>9. RivalInv'
  BY DEF RivalInv, Uniques!Unseen
<1>10. UniqueEmails'
  BY DEF UniqueEmails, Uniques!UniqueEmails, ClaimInv
<1> QED BY <1>1, <1>2, <1>3, <1>4, <1>5, <1>6, <1>7, <1>8, <1>9, <1>10

\* A new index: all pairs are still to be entered.
LEMMA CustomerRebuildKeeps ==
  ASSUME CustomerInv, NEW t \in Threads, Uniques!Rebuild(t)
  PROVE  CustomerInv'
<1> USE CustomerCallFacts, NullFacts DEF CustomerInv, Uniques!TypeOK, CustomerCalls, Inside, Uniques!Inside,
            Uniques!Go, Uniques!End, Uniques!engine, Uniques!history,
            Uniques!Email, Uniques!Disputed, Uniques!Locked, Uniques!Postings,
            Uniques!Rebuild
<1>1. Uniques!TypeOK'
  BY DEF Uniques!TypeOK, Uniques!Pcs, Uniques!NoCall
<1>2. CustomerCalls'
  OBVIOUS
<1>3. AloneInv'
  BY DEF AloneInv
<1>4. StoredInv'
  BY DEF StoredInv, AloneInv
<1>5. IndexCovers'
  BY DEF StoredInv, IndexCovers, Listing, AloneInv, LiveInv
<1>6. LiveInv'
  BY DEF LiveInv, AloneInv
<1>7. FileCovers'
  BY DEF FileCovers, Saving, IndexCovers, Listing, AloneInv
<1>8. ClaimInv'
  BY DEF ClaimInv, IndexCovers, Listing, RivalInv, Uniques!Unseen,
         Uniques!EmailIsFree
<1>9. RivalInv'
  BY DEF RivalInv, Uniques!Unseen
<1>10. UniqueEmails'
  BY DEF UniqueEmails, Uniques!UniqueEmails, ClaimInv
<1> QED BY <1>1, <1>2, <1>3, <1>4, <1>5, <1>6, <1>7, <1>8, <1>9, <1>10

\* A pair is entered again.
LEMMA CustomerFillKeeps ==
  ASSUME CustomerInv, NEW t \in Threads, Uniques!Fill(t)
  PROVE  CustomerInv'
<1> USE CustomerCallFacts, NullFacts DEF CustomerInv, Uniques!TypeOK, CustomerCalls, Inside, Uniques!Inside,
            Uniques!Go, Uniques!End, Uniques!engine, Uniques!history,
            Uniques!Email, Uniques!Disputed, Uniques!Locked, Uniques!Postings,
            Uniques!Fill
<1>1. Uniques!TypeOK'
  BY DEF Uniques!TypeOK, Uniques!Pcs, Uniques!NoCall
<1>2. CustomerCalls'
  OBVIOUS
<1>3. AloneInv'
  BY DEF AloneInv
<1>4. StoredInv'
  BY DEF StoredInv, AloneInv
<1>5. IndexCovers'
  BY DEF StoredInv, IndexCovers, Listing, AloneInv, LiveInv
<1>6. LiveInv'
  BY DEF LiveInv, AloneInv
<1>7. FileCovers'
  BY DEF FileCovers, Saving, IndexCovers, Listing, AloneInv
<1>8. ClaimInv'
  BY DEF ClaimInv, IndexCovers, Listing, RivalInv, Uniques!Unseen,
         Uniques!EmailIsFree
<1>9. RivalInv'
  BY DEF RivalInv, Uniques!Unseen
<1>10. UniqueEmails'
  BY DEF UniqueEmails, Uniques!UniqueEmails, ClaimInv
<1> QED BY <1>1, <1>2, <1>3, <1>4, <1>5, <1>6, <1>7, <1>8, <1>9, <1>10

\* No pair is left to enter.
LEMMA CustomerFilledKeeps ==
  ASSUME CustomerInv, NEW t \in Threads, Uniques!Filled(t)
  PROVE  CustomerInv'
<1> USE CustomerCallFacts, NullFacts DEF CustomerInv, Uniques!TypeOK, CustomerCalls, Inside, Uniques!Inside,
            Uniques!Go, Uniques!End, Uniques!engine, Uniques!history,
            Uniques!Email, Uniques!Disputed, Uniques!Locked, Uniques!Postings,
            Uniques!Filled
<1>1. Uniques!TypeOK'
  BY DEF Uniques!TypeOK, Uniques!Pcs, Uniques!NoCall
<1>2. CustomerCalls'
  OBVIOUS
<1>3. AloneInv'
  BY DEF AloneInv
<1>4. StoredInv'
  BY DEF StoredInv, AloneInv
<1>5. IndexCovers'
  BY DEF StoredInv, IndexCovers, Listing, AloneInv, LiveInv
<1>6. LiveInv'
  BY DEF LiveInv, AloneInv
<1>7. FileCovers'
  BY DEF FileCovers, Saving, IndexCovers, Listing, AloneInv
<1>8. ClaimInv'
  BY DEF ClaimInv, IndexCovers, Listing, RivalInv, Uniques!Unseen,
         Uniques!EmailIsFree
<1>9. RivalInv'
  BY DEF RivalInv, Uniques!Unseen
<1>10. UniqueEmails'
  BY DEF UniqueEmails, Uniques!UniqueEmails, ClaimInv
<1> QED BY <1>1, <1>2, <1>3, <1>4, <1>5, <1>6, <1>7, <1>8, <1>9, <1>10

\* The file is what the index is.
LEMMA CustomerSaveKeeps ==
  ASSUME CustomerInv, NEW t \in Threads, Uniques!Save(t)
  PROVE  CustomerInv'
<1> USE CustomerCallFacts, NullFacts DEF CustomerInv, Uniques!TypeOK, CustomerCalls, Inside, Uniques!Inside,
            Uniques!Go, Uniques!End, Uniques!engine, Uniques!history,
            Uniques!Email, Uniques!Disputed, Uniques!Locked, Uniques!Postings,
            Uniques!Save
<1>1. Uniques!TypeOK'
  BY DEF Uniques!TypeOK, Uniques!Pcs, Uniques!NoCall
<1>2. CustomerCalls'
  OBVIOUS
<1>3. AloneInv'
  BY DEF AloneInv
<1>4. StoredInv'
  BY DEF StoredInv, AloneInv
<1>5. IndexCovers'
  BY DEF StoredInv, IndexCovers, Listing, AloneInv, LiveInv
<1>6. LiveInv'
  BY DEF LiveInv, AloneInv
<1>7. FileCovers'
  BY DEF FileCovers, Saving, IndexCovers, Listing, AloneInv
<1>8. ClaimInv'
  BY DEF ClaimInv, IndexCovers, Listing, RivalInv, Uniques!Unseen,
         Uniques!EmailIsFree
<1>9. RivalInv'
  BY DEF RivalInv, Uniques!Unseen
<1>10. UniqueEmails'
  BY DEF UniqueEmails, Uniques!UniqueEmails, ClaimInv
<1> QED BY <1>1, <1>2, <1>3, <1>4, <1>5, <1>6, <1>7, <1>8, <1>9, <1>10

\* The file lacks what the call wrote.
LEMMA CustomerSaveFailsKeeps ==
  ASSUME CustomerInv, NEW t \in Threads, Uniques!SaveFails(t)
  PROVE  CustomerInv'
<1> USE CustomerCallFacts, NullFacts DEF CustomerInv, Uniques!TypeOK, CustomerCalls, Inside, Uniques!Inside,
            Uniques!Go, Uniques!End, Uniques!engine, Uniques!history,
            Uniques!Email, Uniques!Disputed, Uniques!Locked, Uniques!Postings,
            Uniques!SaveFails
<1>1. Uniques!TypeOK'
  BY DEF Uniques!TypeOK, Uniques!Pcs, Uniques!NoCall
<1>2. CustomerCalls'
  OBVIOUS
<1>3. AloneInv'
  BY DEF AloneInv
<1>4. StoredInv'
  BY DEF StoredInv, AloneInv
<1>5. IndexCovers'
  BY DEF StoredInv, IndexCovers, Listing, AloneInv, LiveInv
<1>6. LiveInv'
  BY DEF LiveInv, AloneInv
<1>7. FileCovers'
  BY DEF FileCovers, Saving, IndexCovers, Listing, AloneInv
<1>8. ClaimInv'
  BY DEF ClaimInv, IndexCovers, Listing, RivalInv, Uniques!Unseen,
         Uniques!EmailIsFree
<1>9. RivalInv'
  BY DEF RivalInv, Uniques!Unseen
<1>10. UniqueEmails'
  BY DEF UniqueEmails, Uniques!UniqueEmails, ClaimInv
<1> QED BY <1>1, <1>2, <1>3, <1>4, <1>5, <1>6, <1>7, <1>8, <1>9, <1>10

-----------------------------------------------------------------------------
(* What every step on the orders keeps *)

\* A call names an order, and a document that fits it.
LEMMA OrderCallFacts ==
  ASSUME NEW c \in Reverses!Calls
  PROVE  /\ c.op \in {"insert", "update", "delete", "compact"}
         /\ c.op # "compact" => c.id \in Orders
         /\ c.op \in {"insert", "update"} => c.doc \in Customers \cup {Null}
         /\ c.op \in {"delete", "compact"} => c.doc = NoDoc
         /\ c.op = "compact" => c.id = NoDoc
  BY DEF Reverses!Calls, Reverses!Compaction, Reverses!Fields

\* A step is of one call: an order of another one stays where it is.
LEMMA PlaceStep ==
  ASSUME PlaceInv, SoleInv, SoleInv', lost \subseteq lost', NEW t \in Threads,
         \A u \in Threads \ {t} : /\ opc'[u] = opc[u] /\ ocall'[u] = ocall[u]
                                  /\ oold'[u] = oold[u] /\ after'[u] = after[u],
         \A o \in Orders \ lost' :
           o # ocall[t].id /\ o # ocall'[t].id => Sees(o)' = Sees(o) /\ orders'[o] = orders[o],
         \A o \in Orders \ lost' : ocall'[t].id = o => Place(t, o)',
         \A o \in Orders \ lost' :
           ocall[t].id = o /\ ocall'[t].id # o => Sees(o)' = Of(orders'[o])
  PROVE  PlaceInv'
<1> SUFFICES ASSUME NEW o \in Orders \ lost'
             PROVE  /\ (\A u \in Threads : ocall'[u].id # o) => Sees(o)' = Of(orders'[o])
                    /\ \A u \in Threads : ocall'[u].id = o => Place(u, o)'
  BY DEF PlaceInv, Of
<1>1. CASE o = ocall'[t].id
  BY <1>1 DEF SoleInv
<1>2. CASE o = ocall[t].id /\ o # ocall'[t].id
  BY <1>2 DEF SoleInv
<1>3. CASE o # ocall[t].id /\ o # ocall'[t].id
  <2>1. Sees(o)' = Sees(o) /\ orders'[o] = orders[o]
    BY <1>3
  <2>2. ASSUME NEW u \in Threads, ocall'[u].id = o
        PROVE  Place(u, o)'
    <3>1. u # t /\ Place(u, o)
      BY <1>3, <2>2 DEF PlaceInv
    <3>2. /\ opc'[u] = opc[u] /\ ocall'[u] = ocall[u]
          /\ oold'[u] = oold[u] /\ after'[u] = after[u]
      BY <3>1
    <3> QED BY <2>1, <3>1, <3>2 DEF Place, AtHome, AtOld, Nowhere, Of
  <2>3. (\A u \in Threads : ocall'[u].id # o) => Sees(o)' = Of(orders'[o])
    BY <1>3, <2>1 DEF PlaceInv, Of
  <2> QED BY <2>2, <2>3
<1> QED BY <1>1, <1>2, <1>3

\* A call begins; the order is lost if it is in another one.
LEMMA OrderStartKeeps ==
  ASSUME OrderInv, NEW t \in Threads, NEW c \in Reverses!Calls, Reverses!Start(t, c)
  PROVE  OrderInv'
<1> USE OrderCallFacts, NullFacts, NoListAssumption, GarbledAssumption
       DEF OrderInv, Reverses!TypeOK, OrderCalls, CallOK, Reverses!Go,
            Reverses!GoOn, Reverses!GoOrEnd, Reverses!ThenSave, Reverses!End,
            Reverses!Lose, Reverses!index, Reverses!locals, Reverses!NextOf,
            Reverses!Fields, Reverses!Lists, Reverses!Start
<1>1. Reverses!TypeOK'
  BY DEF Reverses!TypeOK, Reverses!Pcs, Reverses!NoCall, Reverses!Disturb,
         Reverses!Writing
<1>2. OrderCalls'
  <2>1. \A u \in Threads \ {t} : /\ opc'[u] = opc[u] /\ ocall'[u] = ocall[u]
                                   /\ oold'[u] = oold[u] /\ after'[u] = after[u]
    OBVIOUS
  <2>2. CallOK(t)'
    BY DEF CallOK, Reverses!NoCall
  <2> QED BY <2>1, <2>2 DEF CallOK
<1>3. SoleInv'
  BY DEF SoleInv, Reverses!NoCall
<1>4. WrittenInv'
  BY DEF WrittenInv, Written, SoleInv, Reverses!NoCall
<1>5. ReadInv'
  BY DEF ReadInv, SoleInv, Reverses!NoCall
<1>6. PlaceInv'
  <2>1. \A u \in Threads \ {t} : /\ opc'[u] = opc[u] /\ ocall'[u] = ocall[u]
                                   /\ oold'[u] = oold[u] /\ after'[u] = after[u]
    OBVIOUS
  <2>2. \A o \in Orders \ lost' :
          o # ocall[t].id /\ o # ocall'[t].id => Sees(o)' = Sees(o) /\ orders'[o] = orders[o]
    BY DEF Sees
  <2>3. ASSUME NEW o \in Orders \ lost', ocall'[t].id = o
        PROVE  Place(t, o)'
    <3>1. c.id = o
      BY <2>3
    <3>2. \A u \in Threads : ocall[u].id # o
      BY <3>1 DEF Reverses!NoCall
    <3>3. Sees(o) = Of(orders[o])
      BY <3>2 DEF PlaceInv
    <3>4. Sees(o)' = Sees(o) /\ orders' = orders
      BY DEF Sees
    <3>5. opc'[t] \in {"check", "read"} /\ AtHome(t)' /\ ~AtOld(t)' /\ ~Nowhere(t)'
      BY <3>1 DEF AtHome, AtOld, Nowhere
    <3> QED BY <3>3, <3>4, <3>5 DEF Place, Of
  <2>4. \A o \in Orders \ lost' :
          ocall[t].id = o /\ ocall'[t].id # o => Sees(o)' = Of(orders'[o])
    BY DEF Reverses!NoCall
  <2> QED BY <1>3, <2>1, <2>2, <2>3, <2>4, PlaceStep
<1>7. WindowInv'
  BY DEF WindowInv, Reverses!Doomed
<1>8. FileInv'
  BY DEF FileInv, InFile, Unsaved, Sees, WindowInv
<1> QED BY <1>1, <1>2, <1>3, <1>4, <1>5, <1>6, <1>7, <1>8

\* The order is where the document that is read has it.
LEMMA OrderReadKeeps ==
  ASSUME OrderInv, NEW t \in Threads, Reverses!Read(t)
  PROVE  OrderInv'
<1> USE OrderCallFacts, NullFacts, NoListAssumption, GarbledAssumption
       DEF OrderInv, Reverses!TypeOK, OrderCalls, CallOK, Reverses!Go,
            Reverses!GoOn, Reverses!GoOrEnd, Reverses!ThenSave, Reverses!End,
            Reverses!Lose, Reverses!index, Reverses!locals, Reverses!NextOf,
            Reverses!Fields, Reverses!Lists, Reverses!Read
<1>1. Reverses!TypeOK'
  BY DEF Reverses!TypeOK, Reverses!Pcs, Reverses!NoCall, Reverses!Disturb,
         Reverses!Writing
<1>2. OrderCalls'
  <2>1. \A u \in Threads \ {t} : /\ opc'[u] = opc[u] /\ ocall'[u] = ocall[u]
                                   /\ oold'[u] = oold[u] /\ after'[u] = after[u]
    OBVIOUS
  <2>2. CallOK(t)'
    BY DEF CallOK, Reverses!NoCall
  <2> QED BY <2>1, <2>2 DEF CallOK
<1>3. SoleInv'
  BY DEF SoleInv, Reverses!NoCall
<1>4. WrittenInv'
  BY DEF WrittenInv, Written, SoleInv, Reverses!NoCall
<1>5. ReadInv'
  BY DEF ReadInv, SoleInv, Reverses!NoCall
<1>6. PlaceInv'
  <2>1. \A u \in Threads \ {t} : /\ opc'[u] = opc[u] /\ ocall'[u] = ocall[u]
                                   /\ oold'[u] = oold[u] /\ after'[u] = after[u]
    OBVIOUS
  <2>2. \A o \in Orders \ lost' :
          o # ocall[t].id /\ o # ocall'[t].id => Sees(o)' = Sees(o) /\ orders'[o] = orders[o]
    BY DEF Sees, WindowInv
  <2>3. \A o \in Orders \ lost' : ocall'[t].id = o => Place(t, o)'
    BY DEF PlaceInv, Place, AtHome, AtOld, Nowhere, Sees, Of, WrittenInv, Written, ReadInv
  <2>4. \A o \in Orders \ lost' :
          ocall[t].id = o /\ ocall'[t].id # o => Sees(o)' = Of(orders'[o])
    BY DEF PlaceInv, Place, AtHome, AtOld, Nowhere, Sees, Of, WrittenInv, Written, ReadInv
  <2> QED BY <1>3, <2>1, <2>2, <2>3, <2>4, PlaceStep
<1>7. WindowInv'
  BY DEF WindowInv, Reverses!Doomed
<1>8. FileInv'
  BY DEF FileInv, InFile, Unsaved, Sees, WindowInv
<1> QED BY <1>1, <1>2, <1>3, <1>4, <1>5, <1>6, <1>7, <1>8

\* The customer is there.
LEMMA OrderCheckKeeps ==
  ASSUME OrderInv, NEW t \in Threads, Reverses!Check(t)
  PROVE  OrderInv'
<1> USE OrderCallFacts, NullFacts, NoListAssumption, GarbledAssumption
       DEF OrderInv, Reverses!TypeOK, OrderCalls, CallOK, Reverses!Go,
            Reverses!GoOn, Reverses!GoOrEnd, Reverses!ThenSave, Reverses!End,
            Reverses!Lose, Reverses!index, Reverses!locals, Reverses!NextOf,
            Reverses!Fields, Reverses!Lists, Reverses!Check
<1>1. Reverses!TypeOK'
  BY DEF Reverses!TypeOK, Reverses!Pcs, Reverses!NoCall, Reverses!Disturb,
         Reverses!Writing
<1>2. OrderCalls'
  <2>1. \A u \in Threads \ {t} : /\ opc'[u] = opc[u] /\ ocall'[u] = ocall[u]
                                   /\ oold'[u] = oold[u] /\ after'[u] = after[u]
    OBVIOUS
  <2>2. CallOK(t)'
    BY DEF CallOK, Reverses!NoCall
  <2> QED BY <2>1, <2>2 DEF CallOK
<1>3. SoleInv'
  BY DEF SoleInv, Reverses!NoCall
<1>4. WrittenInv'
  BY DEF WrittenInv, Written, SoleInv, Reverses!NoCall
<1>5. ReadInv'
  BY DEF ReadInv, SoleInv, Reverses!NoCall
<1>6. PlaceInv'
  <2>1. \A u \in Threads \ {t} : /\ opc'[u] = opc[u] /\ ocall'[u] = ocall[u]
                                   /\ oold'[u] = oold[u] /\ after'[u] = after[u]
    OBVIOUS
  <2>2. \A o \in Orders \ lost' :
          o # ocall[t].id /\ o # ocall'[t].id => Sees(o)' = Sees(o) /\ orders'[o] = orders[o]
    BY DEF Sees
  <2>3. ASSUME NEW o \in Orders \ lost', ocall'[t].id = o
        PROVE  Place(t, o)'
    <3>1. ocall[t].id = o /\ AtHome(t) /\ Sees(o) = Of(orders[o])
      BY <2>3 DEF PlaceInv, Place, AtHome
    <3>2. Sees(o)' = Sees(o) /\ orders' = orders /\ oold' = oold
      BY DEF Sees
    <3>3. CASE ocall[t].op = "update"
      <4>1. oold[t] = orders[o]
        BY <3>1, <3>3 DEF ReadInv
      <4>2. Sees(o)' = Of(oold'[t])
        BY <3>1, <3>2, <4>1
      <4>3. ~AtHome(t)' /\ ~Nowhere(t)'
        BY <3>3 DEF AtHome, Nowhere
      <4> QED BY <4>2, <4>3 DEF Place
    <3>4. CASE ocall[t].op = "insert"
      <4>1. ~AtOld(t)' /\ ~Nowhere(t)'
        BY <3>4 DEF AtOld, Nowhere
      <4> QED BY <3>1, <3>2, <4>1 DEF Place, Of
    <3> QED BY <3>3, <3>4
  <2>4. \A o \in Orders \ lost' :
          ocall[t].id = o /\ ocall'[t].id # o => Sees(o)' = Of(orders'[o])
    OBVIOUS
  <2> QED BY <1>3, <2>1, <2>2, <2>3, <2>4, PlaceStep
<1>7. WindowInv'
  BY DEF WindowInv, Reverses!Doomed
<1>8. FileInv'
  BY DEF FileInv, InFile, Unsaved, Sees, WindowInv
<1> QED BY <1>1, <1>2, <1>3, <1>4, <1>5, <1>6, <1>7, <1>8

\* The customer is not there.
LEMMA OrderCheckRefusesKeeps ==
  ASSUME OrderInv, NEW t \in Threads, Reverses!CheckRefuses(t)
  PROVE  OrderInv'
<1> USE OrderCallFacts, NullFacts, NoListAssumption, GarbledAssumption
       DEF OrderInv, Reverses!TypeOK, OrderCalls, CallOK, Reverses!Go,
            Reverses!GoOn, Reverses!GoOrEnd, Reverses!ThenSave, Reverses!End,
            Reverses!Lose, Reverses!index, Reverses!locals, Reverses!NextOf,
            Reverses!Fields, Reverses!Lists, Reverses!CheckRefuses
<1>1. Reverses!TypeOK'
  BY DEF Reverses!TypeOK, Reverses!Pcs, Reverses!NoCall, Reverses!Disturb,
         Reverses!Writing
<1>2. OrderCalls'
  <2>1. \A u \in Threads \ {t} : /\ opc'[u] = opc[u] /\ ocall'[u] = ocall[u]
                                   /\ oold'[u] = oold[u] /\ after'[u] = after[u]
    OBVIOUS
  <2>2. CallOK(t)'
    BY DEF CallOK, Reverses!NoCall
  <2> QED BY <2>1, <2>2 DEF CallOK
<1>3. SoleInv'
  BY DEF SoleInv, Reverses!NoCall
<1>4. WrittenInv'
  BY DEF WrittenInv, Written, SoleInv, Reverses!NoCall
<1>5. ReadInv'
  BY DEF ReadInv, SoleInv, Reverses!NoCall
<1>6. PlaceInv'
  <2>1. \A u \in Threads \ {t} : /\ opc'[u] = opc[u] /\ ocall'[u] = ocall[u]
                                   /\ oold'[u] = oold[u] /\ after'[u] = after[u]
    OBVIOUS
  <2>2. \A o \in Orders \ lost' :
          o # ocall[t].id /\ o # ocall'[t].id => Sees(o)' = Sees(o) /\ orders'[o] = orders[o]
    BY DEF Sees, WindowInv
  <2>3. \A o \in Orders \ lost' : ocall'[t].id = o => Place(t, o)'
    BY DEF PlaceInv, Place, AtHome, AtOld, Nowhere, Sees, Of, WrittenInv, Written, ReadInv
  <2>4. \A o \in Orders \ lost' :
          ocall[t].id = o /\ ocall'[t].id # o => Sees(o)' = Of(orders'[o])
    BY DEF PlaceInv, Place, AtHome, AtOld, Nowhere, Sees, Of, WrittenInv, Written, ReadInv
  <2> QED BY <1>3, <2>1, <2>2, <2>3, <2>4, PlaceStep
<1>7. WindowInv'
  BY DEF WindowInv, Reverses!Doomed
<1>8. FileInv'
  BY DEF FileInv, InFile, Unsaved, Sees, WindowInv
<1> QED BY <1>1, <1>2, <1>3, <1>4, <1>5, <1>6, <1>7, <1>8

\* The lists are written to the .tmp file.
LEMMA OrderDumpKeeps ==
  ASSUME OrderInv, NEW t \in Threads, Reverses!Dump(t)
  PROVE  OrderInv'
<1> USE OrderCallFacts, NullFacts, NoListAssumption, GarbledAssumption
       DEF OrderInv, Reverses!TypeOK, OrderCalls, CallOK, Reverses!Go,
            Reverses!GoOn, Reverses!GoOrEnd, Reverses!ThenSave, Reverses!End,
            Reverses!Lose, Reverses!index, Reverses!locals, Reverses!NextOf,
            Reverses!Fields, Reverses!Lists, Reverses!Dump
<1>1. Reverses!TypeOK'
  BY DEF Reverses!TypeOK, Reverses!Pcs, Reverses!NoCall, Reverses!Disturb,
         Reverses!Writing
<1>2. OrderCalls'
  <2>1. \A u \in Threads \ {t} : /\ opc'[u] = opc[u] /\ ocall'[u] = ocall[u]
                                   /\ oold'[u] = oold[u] /\ after'[u] = after[u]
    OBVIOUS
  <2>2. CallOK(t)'
    BY DEF CallOK, Reverses!NoCall
  <2> QED BY <2>1, <2>2 DEF CallOK
<1>3. SoleInv'
  BY DEF SoleInv, Reverses!NoCall
<1>4. WrittenInv'
  BY DEF WrittenInv, Written, SoleInv, Reverses!NoCall
<1>5. ReadInv'
  BY DEF ReadInv, SoleInv, Reverses!NoCall
<1>6. PlaceInv'
  <2>1. \A u \in Threads \ {t} : /\ opc'[u] = opc[u] /\ ocall'[u] = ocall[u]
                                   /\ oold'[u] = oold[u] /\ after'[u] = after[u]
    OBVIOUS
  <2>2. \A o \in Orders \ lost' :
          o # ocall[t].id /\ o # ocall'[t].id => Sees(o)' = Sees(o) /\ orders'[o] = orders[o]
    BY DEF Sees, WindowInv
  <2>3. \A o \in Orders \ lost' : ocall'[t].id = o => Place(t, o)'
    BY DEF PlaceInv, Place, AtHome, AtOld, Nowhere, Sees, Of, WrittenInv, Written, ReadInv
  <2>4. \A o \in Orders \ lost' :
          ocall[t].id = o /\ ocall'[t].id # o => Sees(o)' = Of(orders'[o])
    BY DEF PlaceInv, Place, AtHome, AtOld, Nowhere, Sees, Of, WrittenInv, Written, ReadInv
  <2> QED BY <1>3, <2>1, <2>2, <2>3, <2>4, PlaceStep
<1>7. WindowInv'
  BY DEF WindowInv, Reverses!Doomed
<1>8. FileInv'
  BY DEF FileInv, InFile, Unsaved, Sees, WindowInv
<1> QED BY <1>1, <1>2, <1>3, <1>4, <1>5, <1>6, <1>7, <1>8

\* The file is what the lists are, or not known.
LEMMA OrderReplaceKeeps ==
  ASSUME OrderInv, NEW t \in Threads, Reverses!Replace(t)
  PROVE  OrderInv'
<1> USE OrderCallFacts, NullFacts, NoListAssumption, GarbledAssumption
       DEF OrderInv, Reverses!TypeOK, OrderCalls, CallOK, Reverses!Go,
            Reverses!GoOn, Reverses!GoOrEnd, Reverses!ThenSave, Reverses!End,
            Reverses!Lose, Reverses!index, Reverses!locals, Reverses!NextOf,
            Reverses!Fields, Reverses!Lists, Reverses!Replace
<1>1. Reverses!TypeOK'
  BY DEF Reverses!TypeOK, Reverses!Pcs, Reverses!NoCall, Reverses!Disturb,
         Reverses!Writing
<1>2. OrderCalls'
  <2>1. \A u \in Threads \ {t} : /\ opc'[u] = opc[u] /\ ocall'[u] = ocall[u]
                                   /\ oold'[u] = oold[u] /\ after'[u] = after[u]
    OBVIOUS
  <2>2. CallOK(t)'
    BY DEF CallOK, Reverses!NoCall
  <2> QED BY <2>1, <2>2 DEF CallOK
<1>3. SoleInv'
  BY DEF SoleInv, Reverses!NoCall
<1>4. WrittenInv'
  BY DEF WrittenInv, Written, SoleInv, Reverses!NoCall
<1>5. ReadInv'
  BY DEF ReadInv, SoleInv, Reverses!NoCall
<1>6. PlaceInv'
  <2>1. \A u \in Threads \ {t} : /\ opc'[u] = opc[u] /\ ocall'[u] = ocall[u]
                                   /\ oold'[u] = oold[u] /\ after'[u] = after[u]
    OBVIOUS
  <2>2. \A o \in Orders \ lost' :
          o # ocall[t].id /\ o # ocall'[t].id => Sees(o)' = Sees(o) /\ orders'[o] = orders[o]
    BY DEF Sees, WindowInv
  <2>3. \A o \in Orders \ lost' : ocall'[t].id = o => Place(t, o)'
    BY DEF PlaceInv, Place, AtHome, AtOld, Nowhere, Sees, Of, WrittenInv, Written, ReadInv
  <2>4. \A o \in Orders \ lost' :
          ocall[t].id = o /\ ocall'[t].id # o => Sees(o)' = Of(orders'[o])
    BY DEF PlaceInv, Place, AtHome, AtOld, Nowhere, Sees, Of, WrittenInv, Written, ReadInv
  <2> QED BY <1>3, <2>1, <2>2, <2>3, <2>4, PlaceStep
<1>7. WindowInv'
  BY DEF WindowInv, Reverses!Doomed
<1>8. FileInv'
  BY DEF FileInv, InFile, Unsaved, Sees, WindowInv
<1> QED BY <1>1, <1>2, <1>3, <1>4, <1>5, <1>6, <1>7, <1>8

\* The order is lost.
LEMMA OrderSaveFailsKeeps ==
  ASSUME OrderInv, NEW t \in Threads, Reverses!SaveFails(t)
  PROVE  OrderInv'
<1> USE OrderCallFacts, NullFacts, NoListAssumption, GarbledAssumption
       DEF OrderInv, Reverses!TypeOK, OrderCalls, CallOK, Reverses!Go,
            Reverses!GoOn, Reverses!GoOrEnd, Reverses!ThenSave, Reverses!End,
            Reverses!Lose, Reverses!index, Reverses!locals, Reverses!NextOf,
            Reverses!Fields, Reverses!Lists, Reverses!SaveFails
<1>1. Reverses!TypeOK'
  BY DEF Reverses!TypeOK, Reverses!Pcs, Reverses!NoCall, Reverses!Disturb,
         Reverses!Writing
<1>2. OrderCalls'
  <2>1. \A u \in Threads \ {t} : /\ opc'[u] = opc[u] /\ ocall'[u] = ocall[u]
                                   /\ oold'[u] = oold[u] /\ after'[u] = after[u]
    OBVIOUS
  <2>2. CallOK(t)'
    BY DEF CallOK, Reverses!NoCall
  <2> QED BY <2>1, <2>2 DEF CallOK
<1>3. SoleInv'
  BY DEF SoleInv, Reverses!NoCall
<1>4. WrittenInv'
  BY DEF WrittenInv, Written, SoleInv, Reverses!NoCall
<1>5. ReadInv'
  BY DEF ReadInv, SoleInv, Reverses!NoCall
<1>6. PlaceInv'
  <2>1. \A u \in Threads \ {t} : /\ opc'[u] = opc[u] /\ ocall'[u] = ocall[u]
                                   /\ oold'[u] = oold[u] /\ after'[u] = after[u]
    OBVIOUS
  <2>2. \A o \in Orders \ lost' :
          o # ocall[t].id /\ o # ocall'[t].id => Sees(o)' = Sees(o) /\ orders'[o] = orders[o]
    BY DEF Sees, WindowInv
  <2>3. \A o \in Orders \ lost' : ocall'[t].id = o => Place(t, o)'
    BY DEF PlaceInv, Place, AtHome, AtOld, Nowhere, Sees, Of, WrittenInv, Written, ReadInv
  <2>4. \A o \in Orders \ lost' :
          ocall[t].id = o /\ ocall'[t].id # o => Sees(o)' = Of(orders'[o])
    BY DEF PlaceInv, Place, AtHome, AtOld, Nowhere, Sees, Of, WrittenInv, Written, ReadInv
  <2> QED BY <1>3, <2>1, <2>2, <2>3, <2>4, PlaceStep
<1>7. WindowInv'
  BY DEF WindowInv, Reverses!Doomed
<1>8. FileInv'
  BY DEF FileInv, InFile, Unsaved, Sees, WindowInv
<1> QED BY <1>1, <1>2, <1>3, <1>4, <1>5, <1>6, <1>7, <1>8

\* The order has a list to be removed from, or none.
LEMMA OrderUnregisterKeeps ==
  ASSUME OrderInv, NEW t \in Threads, Reverses!Unregister(t)
  PROVE  OrderInv'
<1> USE OrderCallFacts, NullFacts, NoListAssumption, GarbledAssumption
       DEF OrderInv, Reverses!TypeOK, OrderCalls, CallOK, Reverses!Go,
            Reverses!GoOn, Reverses!GoOrEnd, Reverses!ThenSave, Reverses!End,
            Reverses!Lose, Reverses!index, Reverses!locals, Reverses!NextOf,
            Reverses!Fields, Reverses!Lists, Reverses!Unregister
<1>1. Reverses!TypeOK'
  BY DEF Reverses!TypeOK, Reverses!Pcs, Reverses!NoCall, Reverses!Disturb,
         Reverses!Writing
<1>2. OrderCalls'
  <2>1. \A u \in Threads \ {t} : /\ opc'[u] = opc[u] /\ ocall'[u] = ocall[u]
                                   /\ oold'[u] = oold[u] /\ after'[u] = after[u]
    OBVIOUS
  <2>2. CallOK(t)'
    BY DEF CallOK, Reverses!NoCall
  <2> QED BY <2>1, <2>2 DEF CallOK
<1>3. SoleInv'
  BY DEF SoleInv, Reverses!NoCall
<1>4. WrittenInv'
  BY DEF WrittenInv, Written, SoleInv, Reverses!NoCall
<1>5. ReadInv'
  BY DEF ReadInv, SoleInv, Reverses!NoCall
<1>6. PlaceInv'
  <2>1. \A u \in Threads \ {t} : /\ opc'[u] = opc[u] /\ ocall'[u] = ocall[u]
                                   /\ oold'[u] = oold[u] /\ after'[u] = after[u]
    OBVIOUS
  <2>2. \A o \in Orders \ lost' :
          o # ocall[t].id /\ o # ocall'[t].id => Sees(o)' = Sees(o) /\ orders'[o] = orders[o]
    BY DEF Sees, WindowInv
  <2>3. \A o \in Orders \ lost' : ocall'[t].id = o => Place(t, o)'
    BY DEF PlaceInv, Place, AtHome, AtOld, Nowhere, Sees, Of, WrittenInv, Written, ReadInv
  <2>4. \A o \in Orders \ lost' :
          ocall[t].id = o /\ ocall'[t].id # o => Sees(o)' = Of(orders'[o])
    BY DEF PlaceInv, Place, AtHome, AtOld, Nowhere, Sees, Of, WrittenInv, Written, ReadInv
  <2> QED BY <1>3, <2>1, <2>2, <2>3, <2>4, PlaceStep
<1>7. WindowInv'
  BY DEF WindowInv, Reverses!Doomed
<1>8. FileInv'
  BY DEF FileInv, InFile, Unsaved, Sees, WindowInv
<1> QED BY <1>1, <1>2, <1>3, <1>4, <1>5, <1>6, <1>7, <1>8

\* The order is removed from the list it is in.
LEMMA OrderTakeKeeps ==
  ASSUME OrderInv, NEW t \in Threads, Reverses!Take(t)
  PROVE  OrderInv'
<1> USE OrderCallFacts, NullFacts, NoListAssumption, GarbledAssumption
       DEF OrderInv, Reverses!TypeOK, OrderCalls, CallOK, Reverses!Go,
            Reverses!GoOn, Reverses!GoOrEnd, Reverses!ThenSave, Reverses!End,
            Reverses!Lose, Reverses!index, Reverses!locals, Reverses!NextOf,
            Reverses!Fields, Reverses!Lists, Reverses!Take
<1>1. Reverses!TypeOK'
  BY DEF Reverses!TypeOK, Reverses!Pcs, Reverses!NoCall, Reverses!Disturb,
         Reverses!Writing
<1>2. OrderCalls'
  <2>1. \A u \in Threads \ {t} : /\ opc'[u] = opc[u] /\ ocall'[u] = ocall[u]
                                   /\ oold'[u] = oold[u] /\ after'[u] = after[u]
    OBVIOUS
  <2>2. CallOK(t)'
    BY DEF CallOK, Reverses!NoCall
  <2> QED BY <2>1, <2>2 DEF CallOK
<1>3. SoleInv'
  BY DEF SoleInv, Reverses!NoCall
<1>4. WrittenInv'
  BY DEF WrittenInv, Written, SoleInv, Reverses!NoCall
<1>5. ReadInv'
  BY DEF ReadInv, SoleInv, Reverses!NoCall
<1>6. PlaceInv'
  <2>1. \A u \in Threads \ {t} : /\ opc'[u] = opc[u] /\ ocall'[u] = ocall[u]
                                   /\ oold'[u] = oold[u] /\ after'[u] = after[u]
    OBVIOUS
  <2>2. \A o \in Orders \ lost' :
          o # ocall[t].id /\ o # ocall'[t].id => Sees(o)' = Sees(o) /\ orders'[o] = orders[o]
    BY DEF Sees, WindowInv
  <2>3. \A o \in Orders \ lost' : ocall'[t].id = o => Place(t, o)'
    BY DEF PlaceInv, Place, AtHome, AtOld, Nowhere, Sees, Of, WrittenInv, Written, ReadInv
  <2>4. \A o \in Orders \ lost' :
          ocall[t].id = o /\ ocall'[t].id # o => Sees(o)' = Of(orders'[o])
    BY DEF PlaceInv, Place, AtHome, AtOld, Nowhere, Sees, Of, WrittenInv, Written, ReadInv
  <2> QED BY <1>3, <2>1, <2>2, <2>3, <2>4, PlaceStep
<1>7. WindowInv'
  BY DEF WindowInv, Reverses!Doomed
<1>8. FileInv'
  BY DEF FileInv, InFile, Unsaved, Sees, WindowInv
<1> QED BY <1>1, <1>2, <1>3, <1>4, <1>5, <1>6, <1>7, <1>8

\* A list that is empty is about to go.
LEMMA OrderTestKeeps ==
  ASSUME OrderInv, NEW t \in Threads, Reverses!Test(t)
  PROVE  OrderInv'
<1> USE OrderCallFacts, NullFacts, NoListAssumption, GarbledAssumption
       DEF OrderInv, Reverses!TypeOK, OrderCalls, CallOK, Reverses!Go,
            Reverses!GoOn, Reverses!GoOrEnd, Reverses!ThenSave, Reverses!End,
            Reverses!Lose, Reverses!index, Reverses!locals, Reverses!NextOf,
            Reverses!Fields, Reverses!Lists, Reverses!Test
<1>1. Reverses!TypeOK'
  BY DEF Reverses!TypeOK, Reverses!Pcs, Reverses!NoCall, Reverses!Disturb,
         Reverses!Writing
<1>2. OrderCalls'
  <2>1. \A u \in Threads \ {t} : /\ opc'[u] = opc[u] /\ ocall'[u] = ocall[u]
                                   /\ oold'[u] = oold[u] /\ after'[u] = after[u]
    OBVIOUS
  <2>2. CallOK(t)'
    BY DEF CallOK, Reverses!NoCall
  <2> QED BY <2>1, <2>2 DEF CallOK
<1>3. SoleInv'
  BY DEF SoleInv, Reverses!NoCall
<1>4. WrittenInv'
  BY DEF WrittenInv, Written, SoleInv, Reverses!NoCall
<1>5. ReadInv'
  BY DEF ReadInv, SoleInv, Reverses!NoCall
<1>6. PlaceInv'
  <2>1. \A u \in Threads \ {t} : /\ opc'[u] = opc[u] /\ ocall'[u] = ocall[u]
                                   /\ oold'[u] = oold[u] /\ after'[u] = after[u]
    OBVIOUS
  <2>2. \A o \in Orders \ lost' :
          o # ocall[t].id /\ o # ocall'[t].id => Sees(o)' = Sees(o) /\ orders'[o] = orders[o]
    BY DEF Sees, WindowInv
  <2>3. \A o \in Orders \ lost' : ocall'[t].id = o => Place(t, o)'
    BY DEF PlaceInv, Place, AtHome, AtOld, Nowhere, Sees, Of, WrittenInv, Written, ReadInv
  <2>4. \A o \in Orders \ lost' :
          ocall[t].id = o /\ ocall'[t].id # o => Sees(o)' = Of(orders'[o])
    BY DEF PlaceInv, Place, AtHome, AtOld, Nowhere, Sees, Of, WrittenInv, Written, ReadInv
  <2> QED BY <1>3, <2>1, <2>2, <2>3, <2>4, PlaceStep
<1>7. WindowInv'
  BY DEF WindowInv, Reverses!Doomed
<1>8. FileInv'
  BY DEF FileInv, InFile, Unsaved, Sees, WindowInv
<1> QED BY <1>1, <1>2, <1>3, <1>4, <1>5, <1>6, <1>7, <1>8

\* A list goes, of which every order is lost.
LEMMA OrderDropKeeps ==
  ASSUME OrderInv, NEW t \in Threads, Reverses!Drop(t)
  PROVE  OrderInv'
<1> USE OrderCallFacts, NullFacts, NoListAssumption, GarbledAssumption
       DEF OrderInv, Reverses!TypeOK, OrderCalls, CallOK, Reverses!Go,
            Reverses!GoOn, Reverses!GoOrEnd, Reverses!ThenSave, Reverses!End,
            Reverses!Lose, Reverses!index, Reverses!locals, Reverses!NextOf,
            Reverses!Fields, Reverses!Lists, Reverses!Drop
<1>1. Reverses!TypeOK'
  BY DEF Reverses!TypeOK, Reverses!Pcs, Reverses!NoCall, Reverses!Disturb,
         Reverses!Writing
<1>2. OrderCalls'
  <2>1. \A u \in Threads \ {t} : /\ opc'[u] = opc[u] /\ ocall'[u] = ocall[u]
                                   /\ oold'[u] = oold[u] /\ after'[u] = after[u]
    OBVIOUS
  <2>2. CallOK(t)'
    BY DEF CallOK, Reverses!NoCall
  <2> QED BY <2>1, <2>2 DEF CallOK
<1>3. SoleInv'
  BY DEF SoleInv, Reverses!NoCall
<1>4. WrittenInv'
  BY DEF WrittenInv, Written, SoleInv, Reverses!NoCall
<1>5. ReadInv'
  BY DEF ReadInv, SoleInv, Reverses!NoCall
<1>6. PlaceInv'
  <2>1. \A u \in Threads \ {t} : /\ opc'[u] = opc[u] /\ ocall'[u] = ocall[u]
                                   /\ oold'[u] = oold[u] /\ after'[u] = after[u]
    OBVIOUS
  <2>2. \A o \in Orders \ lost' :
          o # ocall[t].id /\ o # ocall'[t].id => Sees(o)' = Sees(o) /\ orders'[o] = orders[o]
    BY DEF Sees, WindowInv
  <2>3. \A o \in Orders \ lost' : ocall'[t].id = o => Place(t, o)'
    BY DEF PlaceInv, Place, AtHome, AtOld, Nowhere, Sees, Of, WrittenInv, Written, ReadInv
  <2>4. \A o \in Orders \ lost' :
          ocall[t].id = o /\ ocall'[t].id # o => Sees(o)' = Of(orders'[o])
    BY DEF PlaceInv, Place, AtHome, AtOld, Nowhere, Sees, Of, WrittenInv, Written, ReadInv
  <2> QED BY <1>3, <2>1, <2>2, <2>3, <2>4, PlaceStep
<1>7. WindowInv'
  BY DEF WindowInv, Reverses!Doomed
<1>8. FileInv'
  BY DEF FileInv, InFile, Unsaved, Sees, WindowInv
<1> QED BY <1>1, <1>2, <1>3, <1>4, <1>5, <1>6, <1>7, <1>8

\* The order has a list to be entered into, or gets one.
LEMMA OrderRegisterKeeps ==
  ASSUME OrderInv, NEW t \in Threads, Reverses!Register(t)
  PROVE  OrderInv'
<1> USE OrderCallFacts, NullFacts, NoListAssumption, GarbledAssumption
       DEF OrderInv, Reverses!TypeOK, OrderCalls, CallOK, Reverses!Go,
            Reverses!GoOn, Reverses!GoOrEnd, Reverses!ThenSave, Reverses!End,
            Reverses!Lose, Reverses!index, Reverses!locals, Reverses!NextOf,
            Reverses!Fields, Reverses!Lists, Reverses!Register
<1>1. Reverses!TypeOK'
  BY DEF Reverses!TypeOK, Reverses!Pcs, Reverses!NoCall, Reverses!Disturb,
         Reverses!Writing
<1>2. OrderCalls'
  <2>1. \A u \in Threads \ {t} : /\ opc'[u] = opc[u] /\ ocall'[u] = ocall[u]
                                   /\ oold'[u] = oold[u] /\ after'[u] = after[u]
    OBVIOUS
  <2>2. CallOK(t)'
    BY DEF CallOK, Reverses!NoCall
  <2> QED BY <2>1, <2>2 DEF CallOK
<1>3. SoleInv'
  BY DEF SoleInv, Reverses!NoCall
<1>4. WrittenInv'
  BY DEF WrittenInv, Written, SoleInv, Reverses!NoCall
<1>5. ReadInv'
  BY DEF ReadInv, SoleInv, Reverses!NoCall
<1>6. PlaceInv'
  <2>1. \A u \in Threads \ {t} : /\ opc'[u] = opc[u] /\ ocall'[u] = ocall[u]
                                   /\ oold'[u] = oold[u] /\ after'[u] = after[u]
    OBVIOUS
  <2>2. \A o \in Orders \ lost' :
          o # ocall[t].id /\ o # ocall'[t].id => Sees(o)' = Sees(o) /\ orders'[o] = orders[o]
    BY DEF Sees, WindowInv
  <2>3. \A o \in Orders \ lost' : ocall'[t].id = o => Place(t, o)'
    BY DEF PlaceInv, Place, AtHome, AtOld, Nowhere, Sees, Of, WrittenInv, Written, ReadInv
  <2>4. \A o \in Orders \ lost' :
          ocall[t].id = o /\ ocall'[t].id # o => Sees(o)' = Of(orders'[o])
    BY DEF PlaceInv, Place, AtHome, AtOld, Nowhere, Sees, Of, WrittenInv, Written, ReadInv
  <2> QED BY <1>3, <2>1, <2>2, <2>3, <2>4, PlaceStep
<1>7. WindowInv'
  BY DEF WindowInv, Reverses!Doomed
<1>8. FileInv'
  BY DEF FileInv, InFile, Unsaved, Sees, WindowInv
<1> QED BY <1>1, <1>2, <1>3, <1>4, <1>5, <1>6, <1>7, <1>8

\* A list is replaced, of which every order is lost.
LEMMA OrderFreshKeeps ==
  ASSUME OrderInv, NEW t \in Threads, Reverses!Fresh(t)
  PROVE  OrderInv'
<1> USE OrderCallFacts, NullFacts, NoListAssumption, GarbledAssumption
       DEF OrderInv, Reverses!TypeOK, OrderCalls, CallOK, Reverses!Go,
            Reverses!GoOn, Reverses!GoOrEnd, Reverses!ThenSave, Reverses!End,
            Reverses!Lose, Reverses!index, Reverses!locals, Reverses!NextOf,
            Reverses!Fields, Reverses!Lists, Reverses!Fresh
<1>1. Reverses!TypeOK'
  BY DEF Reverses!TypeOK, Reverses!Pcs, Reverses!NoCall, Reverses!Disturb,
         Reverses!Writing
<1>2. OrderCalls'
  <2>1. \A u \in Threads \ {t} : /\ opc'[u] = opc[u] /\ ocall'[u] = ocall[u]
                                   /\ oold'[u] = oold[u] /\ after'[u] = after[u]
    OBVIOUS
  <2>2. CallOK(t)'
    BY DEF CallOK, Reverses!NoCall
  <2> QED BY <2>1, <2>2 DEF CallOK
<1>3. SoleInv'
  BY DEF SoleInv, Reverses!NoCall
<1>4. WrittenInv'
  BY DEF WrittenInv, Written, SoleInv, Reverses!NoCall
<1>5. ReadInv'
  BY DEF ReadInv, SoleInv, Reverses!NoCall
<1>6. PlaceInv'
  <2>1. \A u \in Threads \ {t} : /\ opc'[u] = opc[u] /\ ocall'[u] = ocall[u]
                                   /\ oold'[u] = oold[u] /\ after'[u] = after[u]
    OBVIOUS
  <2>2. \A o \in Orders \ lost' :
          o # ocall[t].id /\ o # ocall'[t].id => Sees(o)' = Sees(o) /\ orders'[o] = orders[o]
    BY DEF Sees, WindowInv
  <2>3. \A o \in Orders \ lost' : ocall'[t].id = o => Place(t, o)'
    BY DEF PlaceInv, Place, AtHome, AtOld, Nowhere, Sees, Of, WrittenInv, Written, ReadInv
  <2>4. \A o \in Orders \ lost' :
          ocall[t].id = o /\ ocall'[t].id # o => Sees(o)' = Of(orders'[o])
    BY DEF PlaceInv, Place, AtHome, AtOld, Nowhere, Sees, Of, WrittenInv, Written, ReadInv
  <2> QED BY <1>3, <2>1, <2>2, <2>3, <2>4, PlaceStep
<1>7. WindowInv'
  BY DEF WindowInv, Reverses!Doomed
<1>8. FileInv'
  BY DEF FileInv, InFile, Unsaved, Sees, WindowInv
<1> QED BY <1>1, <1>2, <1>3, <1>4, <1>5, <1>6, <1>7, <1>8

\* The order is entered into the list it belongs to.
LEMMA OrderEnterKeeps ==
  ASSUME OrderInv, NEW t \in Threads, Reverses!Enter(t)
  PROVE  OrderInv'
<1> USE OrderCallFacts, NullFacts, NoListAssumption, GarbledAssumption
       DEF OrderInv, Reverses!TypeOK, OrderCalls, CallOK, Reverses!Go,
            Reverses!GoOn, Reverses!GoOrEnd, Reverses!ThenSave, Reverses!End,
            Reverses!Lose, Reverses!index, Reverses!locals, Reverses!NextOf,
            Reverses!Fields, Reverses!Lists, Reverses!Enter
<1>1. Reverses!TypeOK'
  BY DEF Reverses!TypeOK, Reverses!Pcs, Reverses!NoCall, Reverses!Disturb,
         Reverses!Writing
<1>2. OrderCalls'
  <2>1. \A u \in Threads \ {t} : /\ opc'[u] = opc[u] /\ ocall'[u] = ocall[u]
                                   /\ oold'[u] = oold[u] /\ after'[u] = after[u]
    OBVIOUS
  <2>2. CallOK(t)'
    BY DEF CallOK, Reverses!NoCall
  <2> QED BY <2>1, <2>2 DEF CallOK
<1>3. SoleInv'
  BY DEF SoleInv, Reverses!NoCall
<1>4. WrittenInv'
  BY DEF WrittenInv, Written, SoleInv, Reverses!NoCall
<1>5. ReadInv'
  BY DEF ReadInv, SoleInv, Reverses!NoCall
<1>6. PlaceInv'
  <2>1. \A u \in Threads \ {t} : /\ opc'[u] = opc[u] /\ ocall'[u] = ocall[u]
                                   /\ oold'[u] = oold[u] /\ after'[u] = after[u]
    OBVIOUS
  <2>2. \A o \in Orders \ lost' :
          o # ocall[t].id /\ o # ocall'[t].id => Sees(o)' = Sees(o) /\ orders'[o] = orders[o]
    BY DEF Sees, WindowInv
  <2>3. \A o \in Orders \ lost' : ocall'[t].id = o => Place(t, o)'
    BY DEF PlaceInv, Place, AtHome, AtOld, Nowhere, Sees, Of, WrittenInv, Written, ReadInv
  <2>4. \A o \in Orders \ lost' :
          ocall[t].id = o /\ ocall'[t].id # o => Sees(o)' = Of(orders'[o])
    BY DEF PlaceInv, Place, AtHome, AtOld, Nowhere, Sees, Of, WrittenInv, Written, ReadInv
  <2> QED BY <1>3, <2>1, <2>2, <2>3, <2>4, PlaceStep
<1>7. WindowInv'
  BY DEF WindowInv, Reverses!Doomed
<1>8. FileInv'
  BY DEF FileInv, InFile, Unsaved, Sees, WindowInv
<1> QED BY <1>1, <1>2, <1>3, <1>4, <1>5, <1>6, <1>7, <1>8

\* The order is lost.
LEMMA OrderListIsGoneKeeps ==
  ASSUME OrderInv, NEW t \in Threads, Reverses!ListIsGone(t)
  PROVE  OrderInv'
<1> USE OrderCallFacts, NullFacts, NoListAssumption, GarbledAssumption
       DEF OrderInv, Reverses!TypeOK, OrderCalls, CallOK, Reverses!Go,
            Reverses!GoOn, Reverses!GoOrEnd, Reverses!ThenSave, Reverses!End,
            Reverses!Lose, Reverses!index, Reverses!locals, Reverses!NextOf,
            Reverses!Fields, Reverses!Lists, Reverses!ListIsGone
<1>1. Reverses!TypeOK'
  BY DEF Reverses!TypeOK, Reverses!Pcs, Reverses!NoCall, Reverses!Disturb,
         Reverses!Writing
<1>2. OrderCalls'
  <2>1. \A u \in Threads \ {t} : /\ opc'[u] = opc[u] /\ ocall'[u] = ocall[u]
                                   /\ oold'[u] = oold[u] /\ after'[u] = after[u]
    OBVIOUS
  <2>2. CallOK(t)'
    BY DEF CallOK, Reverses!NoCall
  <2> QED BY <2>1, <2>2 DEF CallOK
<1>3. SoleInv'
  BY DEF SoleInv, Reverses!NoCall
<1>4. WrittenInv'
  BY DEF WrittenInv, Written, SoleInv, Reverses!NoCall
<1>5. ReadInv'
  BY DEF ReadInv, SoleInv, Reverses!NoCall
<1>6. PlaceInv'
  <2>1. \A u \in Threads \ {t} : /\ opc'[u] = opc[u] /\ ocall'[u] = ocall[u]
                                   /\ oold'[u] = oold[u] /\ after'[u] = after[u]
    OBVIOUS
  <2>2. \A o \in Orders \ lost' :
          o # ocall[t].id /\ o # ocall'[t].id => Sees(o)' = Sees(o) /\ orders'[o] = orders[o]
    BY DEF Sees, WindowInv
  <2>3. \A o \in Orders \ lost' : ocall'[t].id = o => Place(t, o)'
    BY DEF PlaceInv, Place, AtHome, AtOld, Nowhere, Sees, Of, WrittenInv, Written, ReadInv
  <2>4. \A o \in Orders \ lost' :
          ocall[t].id = o /\ ocall'[t].id # o => Sees(o)' = Of(orders'[o])
    BY DEF PlaceInv, Place, AtHome, AtOld, Nowhere, Sees, Of, WrittenInv, Written, ReadInv
  <2> QED BY <1>3, <2>1, <2>2, <2>3, <2>4, PlaceStep
<1>7. WindowInv'
  BY DEF WindowInv, Reverses!Doomed
<1>8. FileInv'
  BY DEF FileInv, InFile, Unsaved, Sees, WindowInv
<1> QED BY <1>1, <1>2, <1>3, <1>4, <1>5, <1>6, <1>7, <1>8

\* The order has the document of its only call.
LEMMA OrderAppendKeeps ==
  ASSUME OrderInv, NEW t \in Threads, Reverses!Append(t)
  PROVE  OrderInv'
<1> USE OrderCallFacts, NullFacts, NoListAssumption, GarbledAssumption
       DEF OrderInv, Reverses!TypeOK, OrderCalls, CallOK, Reverses!Go,
            Reverses!GoOn, Reverses!GoOrEnd, Reverses!ThenSave, Reverses!End,
            Reverses!Lose, Reverses!index, Reverses!locals, Reverses!NextOf,
            Reverses!Fields, Reverses!Lists, Reverses!Append
<1>1. Reverses!TypeOK'
  BY DEF Reverses!TypeOK, Reverses!Pcs, Reverses!NoCall, Reverses!Disturb,
         Reverses!Writing
<1>2. OrderCalls'
  <2>1. \A u \in Threads \ {t} : /\ opc'[u] = opc[u] /\ ocall'[u] = ocall[u]
                                   /\ oold'[u] = oold[u] /\ after'[u] = after[u]
    OBVIOUS
  <2>2. CallOK(t)'
    BY DEF CallOK, Reverses!NoCall
  <2> QED BY <2>1, <2>2 DEF CallOK
<1>3. SoleInv'
  BY DEF SoleInv, Reverses!NoCall
<1>4. WrittenInv'
  BY DEF WrittenInv, Written, SoleInv, Reverses!NoCall
<1>5. ReadInv'
  BY DEF ReadInv, SoleInv, Reverses!NoCall
<1>6. PlaceInv'
  <2>1. \A u \in Threads \ {t} : /\ opc'[u] = opc[u] /\ ocall'[u] = ocall[u]
                                   /\ oold'[u] = oold[u] /\ after'[u] = after[u]
    OBVIOUS
  <2>2. \A o \in Orders \ lost' :
          o # ocall[t].id /\ o # ocall'[t].id => Sees(o)' = Sees(o) /\ orders'[o] = orders[o]
    BY DEF Sees, WindowInv
  <2>3. \A o \in Orders \ lost' : ocall'[t].id = o => Place(t, o)'
    BY DEF PlaceInv, Place, AtHome, AtOld, Nowhere, Sees, Of, WrittenInv, Written, ReadInv
  <2>4. \A o \in Orders \ lost' :
          ocall[t].id = o /\ ocall'[t].id # o => Sees(o)' = Of(orders'[o])
    BY DEF PlaceInv, Place, AtHome, AtOld, Nowhere, Sees, Of, WrittenInv, Written, ReadInv
  <2> QED BY <1>3, <2>1, <2>2, <2>3, <2>4, PlaceStep
<1>7. WindowInv'
  BY DEF WindowInv, Reverses!Doomed
<1>8. FileInv'
  BY DEF FileInv, InFile, Unsaved, Sees, WindowInv
<1> QED BY <1>1, <1>2, <1>3, <1>4, <1>5, <1>6, <1>7, <1>8

\* An order that is not where its document has it is lost.
LEMMA OrderWriteFailsKeeps ==
  ASSUME OrderInv, NEW t \in Threads, Reverses!WriteFails(t)
  PROVE  OrderInv'
<1> USE OrderCallFacts, NullFacts, NoListAssumption, GarbledAssumption
       DEF OrderInv, Reverses!TypeOK, OrderCalls, CallOK, Reverses!Go,
            Reverses!GoOn, Reverses!GoOrEnd, Reverses!ThenSave, Reverses!End,
            Reverses!Lose, Reverses!index, Reverses!locals, Reverses!NextOf,
            Reverses!Fields, Reverses!Lists, Reverses!WriteFails
<1>1. Reverses!TypeOK'
  BY DEF Reverses!TypeOK, Reverses!Pcs, Reverses!NoCall, Reverses!Disturb,
         Reverses!Writing
<1>2. OrderCalls'
  <2>1. \A u \in Threads \ {t} : /\ opc'[u] = opc[u] /\ ocall'[u] = ocall[u]
                                   /\ oold'[u] = oold[u] /\ after'[u] = after[u]
    OBVIOUS
  <2>2. CallOK(t)'
    BY DEF CallOK, Reverses!NoCall
  <2> QED BY <2>1, <2>2 DEF CallOK
<1>3. SoleInv'
  BY DEF SoleInv, Reverses!NoCall
<1>4. WrittenInv'
  BY DEF WrittenInv, Written, SoleInv, Reverses!NoCall
<1>5. ReadInv'
  BY DEF ReadInv, SoleInv, Reverses!NoCall
<1>6. PlaceInv'
  <2>1. \A u \in Threads \ {t} : /\ opc'[u] = opc[u] /\ ocall'[u] = ocall[u]
                                   /\ oold'[u] = oold[u] /\ after'[u] = after[u]
    OBVIOUS
  <2>2. \A o \in Orders \ lost' :
          o # ocall[t].id /\ o # ocall'[t].id => Sees(o)' = Sees(o) /\ orders'[o] = orders[o]
    BY DEF Sees, WindowInv
  <2>3. \A o \in Orders \ lost' : ocall'[t].id = o => Place(t, o)'
    BY DEF PlaceInv, Place, AtHome, AtOld, Nowhere, Sees, Of, WrittenInv, Written, ReadInv
  <2>4. \A o \in Orders \ lost' :
          ocall[t].id = o /\ ocall'[t].id # o => Sees(o)' = Of(orders'[o])
    BY DEF PlaceInv, Place, AtHome, AtOld, Nowhere, Sees, Of, WrittenInv, Written, ReadInv
  <2> QED BY <1>3, <2>1, <2>2, <2>3, <2>4, PlaceStep
<1>7. WindowInv'
  BY DEF WindowInv, Reverses!Doomed
<1>8. FileInv'
  BY DEF FileInv, InFile, Unsaved, Sees, WindowInv
<1> QED BY <1>1, <1>2, <1>3, <1>4, <1>5, <1>6, <1>7, <1>8

\* The order is lost.
LEMMA OrderWriteFailsLateKeeps ==
  ASSUME OrderInv, NEW t \in Threads, Reverses!WriteFailsLate(t)
  PROVE  OrderInv'
<1> USE OrderCallFacts, NullFacts, NoListAssumption, GarbledAssumption
       DEF OrderInv, Reverses!TypeOK, OrderCalls, CallOK, Reverses!Go,
            Reverses!GoOn, Reverses!GoOrEnd, Reverses!ThenSave, Reverses!End,
            Reverses!Lose, Reverses!index, Reverses!locals, Reverses!NextOf,
            Reverses!Fields, Reverses!Lists, Reverses!WriteFailsLate
<1>1. Reverses!TypeOK'
  BY DEF Reverses!TypeOK, Reverses!Pcs, Reverses!NoCall, Reverses!Disturb,
         Reverses!Writing
<1>2. OrderCalls'
  <2>1. \A u \in Threads \ {t} : /\ opc'[u] = opc[u] /\ ocall'[u] = ocall[u]
                                   /\ oold'[u] = oold[u] /\ after'[u] = after[u]
    OBVIOUS
  <2>2. CallOK(t)'
    BY DEF CallOK, Reverses!NoCall
  <2> QED BY <2>1, <2>2 DEF CallOK
<1>3. SoleInv'
  BY DEF SoleInv, Reverses!NoCall
<1>4. WrittenInv'
  BY DEF WrittenInv, Written, SoleInv, Reverses!NoCall
<1>5. ReadInv'
  BY DEF ReadInv, SoleInv, Reverses!NoCall
<1>6. PlaceInv'
  <2>1. \A u \in Threads \ {t} : /\ opc'[u] = opc[u] /\ ocall'[u] = ocall[u]
                                   /\ oold'[u] = oold[u] /\ after'[u] = after[u]
    OBVIOUS
  <2>2. \A o \in Orders \ lost' :
          o # ocall[t].id /\ o # ocall'[t].id => Sees(o)' = Sees(o) /\ orders'[o] = orders[o]
    BY DEF Sees, WindowInv
  <2>3. \A o \in Orders \ lost' : ocall'[t].id = o => Place(t, o)'
    BY DEF PlaceInv, Place, AtHome, AtOld, Nowhere, Sees, Of, WrittenInv, Written, ReadInv
  <2>4. \A o \in Orders \ lost' :
          ocall[t].id = o /\ ocall'[t].id # o => Sees(o)' = Of(orders'[o])
    BY DEF PlaceInv, Place, AtHome, AtOld, Nowhere, Sees, Of, WrittenInv, Written, ReadInv
  <2> QED BY <1>3, <2>1, <2>2, <2>3, <2>4, PlaceStep
<1>7. WindowInv'
  BY DEF WindowInv, Reverses!Doomed
<1>8. FileInv'
  BY DEF FileInv, InFile, Unsaved, Sees, WindowInv
<1> QED BY <1>1, <1>2, <1>3, <1>4, <1>5, <1>6, <1>7, <1>8

\* A compaction changes no document.
LEMMA OrderRewriteKeeps ==
  ASSUME OrderInv, NEW t \in Threads, Reverses!Rewrite(t)
  PROVE  OrderInv'
<1> USE OrderCallFacts, NullFacts, NoListAssumption, GarbledAssumption
       DEF OrderInv, Reverses!TypeOK, OrderCalls, CallOK, Reverses!Go,
            Reverses!GoOn, Reverses!GoOrEnd, Reverses!ThenSave, Reverses!End,
            Reverses!Lose, Reverses!index, Reverses!locals, Reverses!NextOf,
            Reverses!Fields, Reverses!Lists, Reverses!Rewrite
<1>1. Reverses!TypeOK'
  BY DEF Reverses!TypeOK, Reverses!Pcs, Reverses!NoCall, Reverses!Disturb,
         Reverses!Writing
<1>2. OrderCalls'
  <2>1. \A u \in Threads \ {t} : /\ opc'[u] = opc[u] /\ ocall'[u] = ocall[u]
                                   /\ oold'[u] = oold[u] /\ after'[u] = after[u]
    OBVIOUS
  <2>2. CallOK(t)'
    BY DEF CallOK, Reverses!NoCall
  <2> QED BY <2>1, <2>2 DEF CallOK
<1>3. SoleInv'
  BY DEF SoleInv, Reverses!NoCall
<1>4. WrittenInv'
  BY DEF WrittenInv, Written, SoleInv, Reverses!NoCall
<1>5. ReadInv'
  BY DEF ReadInv, SoleInv, Reverses!NoCall
<1>6. PlaceInv'
  <2>1. \A u \in Threads \ {t} : /\ opc'[u] = opc[u] /\ ocall'[u] = ocall[u]
                                   /\ oold'[u] = oold[u] /\ after'[u] = after[u]
    OBVIOUS
  <2>2. \A o \in Orders \ lost' :
          o # ocall[t].id /\ o # ocall'[t].id => Sees(o)' = Sees(o) /\ orders'[o] = orders[o]
    BY DEF Sees, WindowInv
  <2>3. \A o \in Orders \ lost' : ocall'[t].id = o => Place(t, o)'
    BY DEF PlaceInv, Place, AtHome, AtOld, Nowhere, Sees, Of, WrittenInv, Written, ReadInv
  <2>4. \A o \in Orders \ lost' :
          ocall[t].id = o /\ ocall'[t].id # o => Sees(o)' = Of(orders'[o])
    BY DEF PlaceInv, Place, AtHome, AtOld, Nowhere, Sees, Of, WrittenInv, Written, ReadInv
  <2> QED BY <1>3, <2>1, <2>2, <2>3, <2>4, PlaceStep
<1>7. WindowInv'
  BY DEF WindowInv, Reverses!Doomed
<1>8. FileInv'
  BY DEF FileInv, InFile, Unsaved, Sees, WindowInv
<1> QED BY <1>1, <1>2, <1>3, <1>4, <1>5, <1>6, <1>7, <1>8

\* Every order that has a list, or a call, is lost.
LEMMA OrderWipeKeeps ==
  ASSUME OrderInv, NEW t \in Threads, Reverses!Wipe(t)
  PROVE  OrderInv'
<1> USE OrderCallFacts, NullFacts, NoListAssumption, GarbledAssumption
       DEF OrderInv, Reverses!TypeOK, OrderCalls, CallOK, Reverses!Go,
            Reverses!GoOn, Reverses!GoOrEnd, Reverses!ThenSave, Reverses!End,
            Reverses!Lose, Reverses!index, Reverses!locals, Reverses!NextOf,
            Reverses!Fields, Reverses!Lists, Reverses!Wipe
<1>1. Reverses!TypeOK'
  BY DEF Reverses!TypeOK, Reverses!Pcs, Reverses!NoCall, Reverses!Disturb,
         Reverses!Writing
<1>2. OrderCalls'
  <2>1. \A u \in Threads \ {t} : /\ opc'[u] = opc[u] /\ ocall'[u] = ocall[u]
                                   /\ oold'[u] = oold[u] /\ after'[u] = after[u]
    OBVIOUS
  <2>2. CallOK(t)'
    BY DEF CallOK, Reverses!NoCall
  <2> QED BY <2>1, <2>2 DEF CallOK
<1>3. SoleInv'
  BY DEF SoleInv, Reverses!NoCall
<1>4. WrittenInv'
  BY DEF WrittenInv, Written, SoleInv, Reverses!NoCall
<1>5. ReadInv'
  BY DEF ReadInv, SoleInv, Reverses!NoCall
<1>6. PlaceInv'
  <2>1. \A o \in Orders \ lost' : Sees(o)' = {} /\ Of(orders'[o]) = {}
    BY DEF Sees, Of
  <2>2. \A o \in Orders \ lost', u \in Threads : ocall'[u].id # o
    OBVIOUS
  <2> QED BY <2>1, <2>2 DEF PlaceInv, Of
<1>7. WindowInv'
  BY DEF WindowInv, Reverses!Doomed
<1>8. FileInv'
  <2>1. ASSUME NEW o \in Orders \ lost'
        PROVE  Sees(o) = {} /\ Sees(o)' = {}
    <3>1. \A u \in Threads : ocall[u].id # o
      OBVIOUS
    <3>2. Sees(o) = Of(orders[o])
      BY <3>1 DEF PlaceInv
    <3>3. Of(orders[o]) = {}
      BY DEF Of
    <3> QED BY <3>2, <3>3 DEF Sees
  <2>2. \A o \in Orders \ lost', u \in Threads : ocall[u].id # o
    OBVIOUS
  <2> QED BY <2>1, <2>2 DEF FileInv, InFile
<1> QED BY <1>1, <1>2, <1>3, <1>4, <1>5, <1>6, <1>7, <1>8

-----------------------------------------------------------------------------
(* The other steps *)

\* Most of what a crash leaves of a call on the customers is contested.
LEMMA CustomerCrashKeeps ==
  ASSUME CustomerInv, Uniques!Crash
  PROVE  CustomerInv'
<1> USE NullFacts DEF CustomerInv, Uniques!TypeOK, Inside, Uniques!Inside, Uniques!Email,
        Uniques!Crash
<1>1. \A t \in Threads : cpc'[t] = "idle"
  OBVIOUS
<1>2. Uniques!TypeOK'
  BY DEF Uniques!Pcs, Uniques!NoCall, CustomerCalls, Uniques!Calls
<1>3. CustomerCalls'
  BY <1>1 DEF CustomerCalls
<1>4. AloneInv' /\ StoredInv' /\ LiveInv' /\ ClaimInv' /\ RivalInv'
  BY <1>1 DEF AloneInv, StoredInv, LiveInv, ClaimInv, RivalInv
<1>5. ASSUME NEW c \in Customers, customers[c] \in Emails \ contested'
      PROVE  <<customers[c], c>> \in emailFile
  <2>1. customers[c] \in Emails \ (contested \cup unsaved)
    BY <1>5
  <2>2. \A t \in Threads : ~Saving(t, c)
    BY <1>5 DEF Saving, CustomerCalls
  <2> QED BY <2>1, <2>2 DEF FileCovers
<1>6. IndexCovers' /\ FileCovers'
  BY <1>5 DEF IndexCovers, FileCovers
<1>7. UniqueEmails'
  BY DEF UniqueEmails, Uniques!UniqueEmails
<1> QED BY <1>2, <1>3, <1>4, <1>6, <1>7

\* The order of a call that a crash cuts off is lost if the call had begun to
\* change anything.
LEMMA OrderCrashKeeps ==
  ASSUME OrderInv, Reverses!Crash
  PROVE  OrderInv'
<1> USE NullFacts, NoListAssumption, GarbledAssumption
        DEF OrderInv, Reverses!TypeOK, Reverses!Crash, Reverses!Lists, Reverses!Fields
<1>1. \A t \in Threads : opc'[t] = "idle" /\ ocall'[t] = Reverses!NoCall
  OBVIOUS
<1>2. Reverses!TypeOK'
  BY DEF Reverses!Pcs, Reverses!NoCall
<1>3. OrderCalls' /\ SoleInv' /\ WrittenInv' /\ ReadInv' /\ WindowInv'
  BY <1>1 DEF OrderCalls, CallOK, SoleInv, WrittenInv, Written, ReadInv, WindowInv,
              Reverses!NoCall
<1>4. ASSUME NEW o \in Orders \ lost'
      PROVE  Sees(o)' = Of(orders'[o]) /\ InFile(o)' = Sees(o)'
  <2>1. ridx # Garbled /\ reverse' = ridx /\ ridx' = ridx /\ orders' = orders
    BY <1>4
  <2>2. \A t \in Threads : ocall[t].id = o => opc[t] \in {"idle", "read", "check"}
    BY <1>4
  <2>3. \A t \in Threads : ocall[t].id = o => ~Unsaved(t) /\ AtHome(t)
    BY <2>2 DEF Unsaved, AtHome, OrderCalls, CallOK, Reverses!NoCall
  <2>4. InFile(o) = Sees(o)
    BY <2>1, <2>3, <1>4 DEF FileInv
  <2>5. Sees(o) = Of(orders[o])
    BY <2>3, <1>4 DEF PlaceInv, Place
  <2>6. Sees(o)' = InFile(o) /\ InFile(o)' = InFile(o)
    BY <2>1 DEF Sees, InFile
  <2> QED BY <2>1, <2>4, <2>5, <2>6 DEF Of
<1>5. PlaceInv'
  BY <1>1, <1>4 DEF PlaceInv, Reverses!NoCall, Of
<1>6. FileInv'
  BY <1>4 DEF FileInv, InFile, Sees
<1> QED BY <1>2, <1>3, <1>5, <1>6

\* Steps on the orders do not touch the customers ...
LEMMA CustomersStay ==
  ASSUME CustomerInv, UNCHANGED OfCustomers
  PROVE  CustomerInv'
<1> USE DEF OfCustomers, CustomerInv
<1>1. Uniques!TypeOK' /\ CustomerCalls' /\ AloneInv' /\ StoredInv'
  BY DEF Uniques!TypeOK, CustomerCalls, AloneInv, StoredInv, Inside, Uniques!Inside
<1>2. IndexCovers' /\ LiveInv' /\ FileCovers'
  BY DEF IndexCovers, LiveInv, FileCovers, Listing, Saving
<1>3. ClaimInv' /\ RivalInv' /\ UniqueEmails'
  BY DEF ClaimInv, RivalInv, UniqueEmails, Uniques!UniqueEmails
<1> QED BY <1>1, <1>2, <1>3

\* ... nor those on the customers the orders.
LEMMA OrdersStay ==
  ASSUME OrderInv, UNCHANGED OfOrders
  PROVE  OrderInv'
<1> USE DEF OfOrders, OrderInv
<1>1. Reverses!TypeOK' /\ OrderCalls' /\ SoleInv' /\ WrittenInv' /\ ReadInv'
  BY DEF Reverses!TypeOK, OrderCalls, CallOK, SoleInv, WrittenInv, Written, ReadInv
<1>2. PlaceInv' /\ WindowInv'
  BY DEF PlaceInv, Place, AtHome, AtOld, Nowhere, Sees, Of, WindowInv
<1>3. FileInv'
  BY DEF FileInv, Unsaved, InFile, Sees
<1> QED BY <1>1, <1>2, <1>3

-----------------------------------------------------------------------------
(* The theorems *)

\* The invariant holds at first: there is nothing.
LEMMA InitEstablishes == Init => IInv
<1> SUFFICES ASSUME Init
             PROVE  CustomerInv /\ OrderInv
  BY DEF IInv
<1> USE NullFacts, NoListAssumption, GarbledAssumption DEF Init
<1>1. CustomerInv
  BY DEF Uniques!Init, CustomerInv, Uniques!TypeOK, Uniques!Pcs, CustomerCalls, AloneInv,
         Inside, Uniques!Inside, StoredInv, IndexCovers, LiveInv, FileCovers, ClaimInv,
         RivalInv, UniqueEmails, Uniques!UniqueEmails
<1>2. Reverses!TypeOK
  BY DEF Reverses!Init, Reverses!TypeOK, Reverses!Pcs, Reverses!Lists, Reverses!Fields
<1>3. OrderCalls /\ SoleInv /\ WrittenInv /\ ReadInv /\ WindowInv
  BY DEF Reverses!Init, OrderCalls, CallOK, SoleInv, WrittenInv, Written, ReadInv,
         WindowInv, Reverses!NoCall
<1>4. \A o \in Orders, t \in Threads : ocall[t].id # o
  BY DEF Reverses!Init, Reverses!NoCall
<1>5. \A o \in Orders : Sees(o) = {} /\ InFile(o) = {} /\ Of(orders[o]) = {}
  BY DEF Reverses!Init, Sees, InFile, Of
<1>6. PlaceInv /\ FileInv
  BY <1>4, <1>5 DEF PlaceInv, FileInv
<1> QED BY <1>1, <1>2, <1>3, <1>6 DEF OrderInv

\* Every step on the customers keeps their invariant ...
LEMMA CustomerNextKeeps ==
  ASSUME CustomerInv, NEW t \in Threads, Uniques!ThreadNext(t)
  PROVE  CustomerInv'
<1> USE DEF Uniques!ThreadNext
<1>1. CASE \E c \in Uniques!Calls : Uniques!Start(t, c)
  BY <1>1, CustomerStartKeeps
<1>2. CASE Uniques!Read(t)
  BY <1>2, CustomerReadKeeps
<1>3. CASE Uniques!Check(t)
  BY <1>3, CustomerCheckKeeps
<1>4. CASE Uniques!CheckRefuses(t)
  BY <1>4, CustomerCheckRefusesKeeps
<1>5. CASE Uniques!Append(t)
  BY <1>5, CustomerAppendKeeps
<1>6. CASE Uniques!WriteFails(t)
  BY <1>6, CustomerWriteFailsKeeps
<1>7. CASE Uniques!WriteFailsLate(t)
  BY <1>7, CustomerWriteFailsLateKeeps
<1>8. CASE Uniques!Unlist(t)
  BY <1>8, CustomerUnlistKeeps
<1>9. CASE Uniques!List(t)
  BY <1>9, CustomerListKeeps
<1>10. CASE Uniques!Rewrite(t)
  BY <1>10, CustomerRewriteKeeps
<1>11. CASE Uniques!Rebuild(t)
  BY <1>11, CustomerRebuildKeeps
<1>12. CASE Uniques!Fill(t)
  BY <1>12, CustomerFillKeeps
<1>13. CASE Uniques!Filled(t)
  BY <1>13, CustomerFilledKeeps
<1>14. CASE Uniques!Save(t)
  BY <1>14, CustomerSaveKeeps
<1>15. CASE Uniques!SaveFails(t)
  BY <1>15, CustomerSaveFailsKeeps
<1> QED BY <1>1, <1>2, <1>3, <1>4, <1>5, <1>6, <1>7, <1>8, <1>9, <1>10, <1>11,
          <1>12, <1>13, <1>14, <1>15

\* ... and every step on the orders theirs.
LEMMA OrderNextKeeps ==
  ASSUME OrderInv, NEW t \in Threads, Reverses!ThreadNext(t)
  PROVE  OrderInv'
<1> USE DEF Reverses!ThreadNext
<1>1. CASE \E c \in Reverses!Calls : Reverses!Start(t, c)
  BY <1>1, OrderStartKeeps
<1>2. CASE Reverses!Read(t)
  BY <1>2, OrderReadKeeps
<1>3. CASE Reverses!Check(t)
  BY <1>3, OrderCheckKeeps
<1>4. CASE Reverses!CheckRefuses(t)
  BY <1>4, OrderCheckRefusesKeeps
<1>5. CASE Reverses!Dump(t)
  BY <1>5, OrderDumpKeeps
<1>6. CASE Reverses!Replace(t)
  BY <1>6, OrderReplaceKeeps
<1>7. CASE Reverses!SaveFails(t)
  BY <1>7, OrderSaveFailsKeeps
<1>8. CASE Reverses!Unregister(t)
  BY <1>8, OrderUnregisterKeeps
<1>9. CASE Reverses!Take(t)
  BY <1>9, OrderTakeKeeps
<1>10. CASE Reverses!Test(t)
  BY <1>10, OrderTestKeeps
<1>11. CASE Reverses!Drop(t)
  BY <1>11, OrderDropKeeps
<1>12. CASE Reverses!Register(t)
  BY <1>12, OrderRegisterKeeps
<1>13. CASE Reverses!Fresh(t)
  BY <1>13, OrderFreshKeeps
<1>14. CASE Reverses!Enter(t)
  BY <1>14, OrderEnterKeeps
<1>15. CASE Reverses!ListIsGone(t)
  BY <1>15, OrderListIsGoneKeeps
<1>16. CASE Reverses!Append(t)
  BY <1>16, OrderAppendKeeps
<1>17. CASE Reverses!WriteFails(t)
  BY <1>17, OrderWriteFailsKeeps
<1>18. CASE Reverses!WriteFailsLate(t)
  BY <1>18, OrderWriteFailsLateKeeps
<1>19. CASE Reverses!Rewrite(t)
  BY <1>19, OrderRewriteKeeps
<1>20. CASE Reverses!Wipe(t)
  BY <1>20, OrderWipeKeeps
<1> QED BY <1>1, <1>2, <1>3, <1>4, <1>5, <1>6, <1>7, <1>8, <1>9, <1>10, <1>11,
          <1>12, <1>13, <1>14, <1>15, <1>16, <1>17, <1>18, <1>19, <1>20

\* Every step keeps the invariant.
LEMMA NextKeeps == IInv /\ [Next]_vars => IInv'
<1> SUFFICES ASSUME IInv, [Next]_vars
             PROVE  CustomerInv' /\ OrderInv'
  BY DEF IInv
<1> USE DEF IInv
<1>1. CASE \E t \in Threads : CustomerNext(t)
  BY <1>1, CustomerNextKeeps, OrdersStay DEF CustomerNext
<1>2. CASE \E t \in Threads : OrderNext(t)
  BY <1>2, OrderNextKeeps, CustomersStay DEF OrderNext
<1>3. CASE Crash
  BY <1>3, CustomerCrashKeeps, OrderCrashKeeps DEF Crash
<1>4. CASE UNCHANGED vars
  BY <1>4, CustomersStay, OrdersStay DEF vars
<1> QED BY <1>1, <1>2, <1>3, <1>4 DEF Next

\* The invariant holds of every state, whatever the interleaving of the calls'
\* steps with each other, with compactions, failures and crashes.
THEOREM Invariance == Spec => []IInv
<1> QED BY InitEstablishes, NextKeeps, PTL DEF Spec

\* The variables of both collections keep their types.
THEOREM TypeCorrect == Spec => []TypeOK
<1>1. IInv => TypeOK
  BY DEF IInv, CustomerInv, OrderInv, TypeOK
<1> QED BY Invariance, <1>1, PTL

\* Two customers have one email only if it is contested: otherwise the check
\* without a lock sees all that is in the collection, or that is about to be
\* (constraints.py:36-88, collection.py:83-86, index_manager.py:140-184).
THEOREM EmailsAreUnique == Spec => []UniqueEmails
<1>1. IInv => UniqueEmails
  BY DEF IInv, CustomerInv
<1> QED BY Invariance, <1>1, PTL

\* Between two calls an order that is not lost is in the reverse index under
\* its customer only, though the lists are changed with no lock
\* (collection.py:207-236, index_manager.py:208-228).
THEOREM ReverseIsExact == Spec => []ReverseExact
<1>1. IInv => ReverseExact
  BY DEF IInv, OrderInv, PlaceInv, Sees, Of, ReverseExact, Reverses!ReverseExact
<1> QED BY Invariance, <1>1, PTL
=============================================================================
