---------------------------- MODULE StorageLemmas ----------------------------
(***************************************************************************)
(* Facts about the operators of DocumentLog and IndexManager, for any      *)
(* number of indexes, keys, ids and documents: what an appended line and a *)
(* compaction do to the result of get() and scan(), and what the           *)
(* operations of the indexes do to the keys of each document.  They have   *)
(* no state; the proofs about the components that write files and indexes  *)
(* cite them.                                                              *)
(*                                                                         *)
(* The provers have no induction over data, as its theorem has an operator *)
(* for a parameter.  Lemma Induction has a set in the place of that        *)
(* operator: what is to hold of each number is that it is in the set.      *)
(***************************************************************************)
EXTENDS IndexManager, WellFoundedInduction, TLAPS

(* Positions *)

\* Induction over the numbers up to N, for a set of them.
LEMMA Induction ==
  ASSUME NEW N \in Nat, NEW T,
         0 \in T, \A n \in 1 .. N : n - 1 \in T => n \in T
  PROVE  0 .. N \subseteq T
<1> DEFINE Rest == (0 .. N) \ T
<1> SUFFICES ASSUME Rest # {} PROVE FALSE
  OBVIOUS
<1>1. Rest \subseteq Nat
  OBVIOUS
<1> HIDE DEF Rest
<1>2. PICK n \in Rest : \A m \in Rest : <<m, n>> \notin OpToRel(<, Nat)
  <2> DEFINE R == OpToRel(<, Nat)
  <2>1. IsWellFoundedOn(R, Nat)
    BY NatLessThanWellFounded, Zenon
  <2> HIDE DEF R
  <2>2. \E x \in Rest : \A y \in Rest : ~(<<y, x>> \in R)
    BY <1>1, <2>1, WFMin
  <2> QED BY <2>2 DEF R
<1>3. \A m \in Rest : ~(m < n)
  BY <1>1, <1>2, Zenon DEF OpToRel
<1>4. n \in 1 .. N /\ n \notin T
  BY DEF Rest
<1>5. n - 1 \in 0 .. N /\ n - 1 < n
  BY <1>4
<1>6. n - 1 \in T
  BY <1>3, <1>5 DEF Rest
<1> QED BY <1>4, <1>6

\* A set of positions has a last one.
LEMMA LastOf ==
  ASSUME NEW N \in Nat, NEW S \in SUBSET (1 .. N), S # {}
  PROVE  \E n \in S : \A m \in S : m <= n
<1> DEFINE T == {n \in 0 .. N : \A s \in SUBSET (1 .. n) :
                   s # {} => \E k \in s : \A m \in s : m <= k}
<1>1. 0 \in T
  <2>1. 0 \in 0 .. N /\ 1 .. 0 = {}
    OBVIOUS
  <2> QED BY <2>1
<1>2. ASSUME NEW n \in 1 .. N, n - 1 \in T PROVE n \in T
  <2> SUFFICES ASSUME NEW s \in SUBSET (1 .. n), s # {}
               PROVE  \E k \in s : \A m \in s : m <= k
    OBVIOUS
  <2>1. CASE n \in s
    BY <2>1
  <2>2. CASE n \notin s
    <3>1. s \in SUBSET (1 .. (n - 1))
      BY <2>2
    <3> QED BY <1>2, <3>1
  <2> QED BY <2>1, <2>2
<1> HIDE DEF T
<1>3. N \in T
  <2>1. 0 .. N \subseteq T
    BY <1>1, <1>2, Induction
  <2> QED BY <2>1
<1> QED BY <1>3 DEF T

-----------------------------------------------------------------------------
(* Files *)

\* Every id that occurs has a last line.
LEMMA LastLine ==
  ASSUME NEW S, NEW log \in Seq(S), NEW i \in DOMAIN log
  PROVE  \E j \in DOMAIN log : log[j].id = log[i].id /\ IsLast(log, j)
<1> DEFINE Of == {j \in DOMAIN log : log[j].id = log[i].id}
<1>1. Len(log) \in Nat /\ Of \in SUBSET (1 .. Len(log)) /\ Of # {}
  OBVIOUS
<1>2. PICK j \in Of : \A k \in Of : k <= j
  <2> HIDE DEF Of
  <2> QED BY <1>1, LastOf
<1> QED BY <1>2 DEF IsLast

\* get() of an id that never occurs.
LEMMA GetNothing == \A log, id : ~Occurs(log, id) => Get(log, id) = NoDoc
  BY DEF Get

\* get() returns the document of the last line of the id.
LEMMA GetLast ==
  ASSUME NEW S, NEW log \in Seq(S), NEW i \in DOMAIN log, IsLast(log, i)
  PROVE  Get(log, log[i].id) = log[i].doc
<1> DEFINE id == log[i].id
           p == CHOOSE j \in DOMAIN log : log[j].id = id /\ IsLast(log, j)
<1>1. Occurs(log, id)
  BY DEF Occurs
<1>2. p \in DOMAIN log /\ log[p].id = id /\ IsLast(log, p)
  OBVIOUS
<1>3. p = i
  <2>1. p <= i /\ i <= p
    BY <1>2 DEF IsLast
  <2>2. p \in Nat /\ i \in Nat
    BY <1>2
  <2> QED BY <2>1, <2>2
<1> QED
  BY <1>1, <1>3 DEF Get

\* An appended line decides for its id and for no other.
LEMMA GetAppend ==
  ASSUME NEW S, NEW log \in Seq(S), NEW e \in S
  PROVE  \A id : Get(Append(log, e), id)
                   = IF id = e.id THEN e.doc ELSE Get(log, id)
<1> DEFINE long == Append(log, e)
           n == Len(log) + 1
<1>1. /\ long \in Seq(S) /\ DOMAIN long = 1 .. n /\ DOMAIN log = 1 .. Len(log)
      /\ n \in Nat /\ Len(log) \in Nat
      /\ long[n] = e
      /\ \A i \in 1 .. Len(log) : long[i] = log[i]
  OBVIOUS
<1> HIDE DEF long, n
<1>2. n \in DOMAIN long /\ IsLast(long, n)
  BY <1>1 DEF IsLast, n
<1>3. ASSUME NEW i \in DOMAIN log, IsLast(log, i), log[i].id # e.id
      PROVE  i \in DOMAIN long /\ long[i] = log[i] /\ IsLast(long, i)
  <2>1. i \in DOMAIN long /\ long[i] = log[i]
    BY <1>1 DEF n
  <2>2. ASSUME NEW j \in DOMAIN long, long[j].id = long[i].id PROVE j <= i
    <3>1. j # n
      BY <1>1, <1>3, <2>1, <2>2
    <3>2. j \in DOMAIN log /\ log[j] = long[j]
      BY <1>1, <3>1 DEF n
    <3> QED BY <1>3, <2>1, <2>2, <3>2 DEF IsLast
  <2> QED BY <2>1, <2>2 DEF IsLast
<1>4. ASSUME NEW id
      PROVE  Get(long, id) = IF id = e.id THEN e.doc ELSE Get(log, id)
  <2>1. CASE id = e.id
    BY <1>1, <1>2, <2>1, GetLast
  <2>2. CASE id # e.id /\ Occurs(log, id)
    <3>1. PICK i \in DOMAIN log : log[i].id = id /\ IsLast(log, i)
      BY <2>2, LastLine DEF Occurs
    <3>2. Get(log, id) = log[i].doc
      BY <3>1, GetLast
    <3>3. i \in DOMAIN long /\ long[i] = log[i] /\ IsLast(long, i)
      BY <1>3, <2>2, <3>1
    <3>4. Get(long, id) = log[i].doc
      BY <1>1, <3>1, <3>3, GetLast
    <3> QED BY <2>2, <3>2, <3>4
  <2>3. CASE id # e.id /\ ~Occurs(log, id)
    <3>1. ~Occurs(long, id)
      BY <1>1, <2>3 DEF Occurs, n
    <3> QED BY <2>3, <3>1, GetNothing
  <2> QED BY <2>1, <2>2, <2>3
<1> QED
  BY <1>4 DEF long

-----------------------------------------------------------------------------

\* Each id has one line in a list that scan() yields, so each line is the
\* last of its id.
LEMMA ScanLines ==
  ASSUME NEW log, NEW s, IsScan(s, log)
  PROVE  /\ s \in Seq(Line)
         /\ \A i \in DOMAIN s : IsLast(s, i)
<1>1. s \in Seq(Line)
  BY DEF IsScan
<1>2. ASSUME NEW i \in DOMAIN s PROVE IsLast(s, i)
  <2>1. ASSUME NEW j \in DOMAIN s, s[j].id = s[i].id PROVE j <= i
    <3>1. ~(i < j)
      BY <2>1 DEF IsScan
    <3>2. i \in Nat /\ j \in Nat
      BY <1>1
    <3> QED BY <3>1, <3>2
  <2> QED BY <2>1 DEF IsLast
<1> QED
  BY <1>1, <1>2

\* A file rewritten with what scan() yields reads as before.
LEMMA GetScan ==
  ASSUME NEW log, NEW s, IsScan(s, log), NEW id \in Ids
  PROVE  Get(s, id) = Get(log, id)
<1>1. CASE Occurs(s, id)
  <2>1. PICK i \in DOMAIN s : s[i].id = id
    BY <1>1 DEF Occurs
  <2>2. Get(s, id) = s[i].doc
    BY <2>1, ScanLines, GetLast
  <2> QED BY <2>1, <2>2 DEF IsScan
<1>2. CASE ~Occurs(s, id)
  <2>1. Get(log, id) = NoDoc
    BY <1>2 DEF IsScan, LiveIds
  <2> QED BY <1>2, <2>1, GetNothing
<1> QED
  BY <1>1, <1>2

\* Of two ids one occurs first before the other, and none before itself.
LEMMA FirstBeforeStrict ==
  ASSUME NEW S, NEW log \in Seq(S), NEW id, NEW id2
  PROVE  ~(FirstBefore(log, id, id2) /\ FirstBefore(log, id2, id))
<1> SUFFICES ASSUME FirstBefore(log, id, id2), FirstBefore(log, id2, id) PROVE FALSE
  OBVIOUS
<1>1. PICK i \in DOMAIN log : log[i].id = id /\ \A k \in DOMAIN log : log[k].id = id2 => i < k
  BY DEF FirstBefore
<1>2. PICK j \in DOMAIN log : log[j].id = id2 /\ \A k \in DOMAIN log : log[k].id = id => j < k
  BY DEF FirstBefore
<1>3. i < j /\ j < i /\ i \in Nat /\ j \in Nat
  BY <1>1, <1>2
<1> QED BY <1>3

\* A rewritten file lists the live documents in the same order.
LEMMA OrderScan ==
  ASSUME NEW S, NEW log \in Seq(S), NEW s, IsScan(s, log),
         NEW id \in LiveIds(log), NEW id2 \in LiveIds(log), id # id2
  PROVE  FirstBefore(s, id, id2) <=> FirstBefore(log, id, id2)
<1>1. PICK p \in DOMAIN s : s[p].id = id
  BY DEF IsScan, Occurs
<1>2. PICK q \in DOMAIN s : s[q].id = id2
  BY DEF IsScan, Occurs
<1>3. s \in Seq(Line) /\ p \in Nat /\ q \in Nat /\ p # q
  BY <1>1, <1>2, ScanLines
<1>4. \A i \in DOMAIN s : /\ s[i].id = id => i = p
                          /\ s[i].id = id2 => i = q
  BY <1>1, <1>2, <1>3 DEF IsScan
<1>5. FirstBefore(s, id, id2) <=> p < q
  BY <1>1, <1>2, <1>4 DEF FirstBefore
<1>6. p < q => FirstBefore(log, id, id2)
  BY <1>1, <1>2 DEF IsScan
<1>7. q < p => FirstBefore(log, id2, id)
  BY <1>1, <1>2 DEF IsScan
<1>8. ~(FirstBefore(log, id, id2) /\ FirstBefore(log, id2, id))
  BY FirstBeforeStrict
<1> QED
  BY <1>3, <1>5, <1>6, <1>7, <1>8

\* What is a scan of the rewritten file is one of the original, and back.
LEMMA ScanOfScan ==
  ASSUME NEW S, NEW log \in Seq(S), NEW s, IsScan(s, log), NEW r
  PROVE  IsScan(r, s) <=> IsScan(r, log)
<1>1. \A id \in Ids : Get(s, id) = Get(log, id)
  BY GetScan
<1>2. LiveIds(s) = LiveIds(log)
  BY <1>1 DEF LiveIds
<1>3. ASSUME r \in Seq(Line), NEW i \in DOMAIN r
      PROVE  r[i].id \in Ids
  <2>1. r[i] \in Line
    BY <1>3
  <2> QED BY <2>1 DEF Line
<1>4. ASSUME r \in Seq(Line),
             \A i \in DOMAIN r : r[i].doc # NoDoc /\ r[i].doc = Get(log, r[i].id),
             NEW i \in DOMAIN r
      PROVE  r[i].id \in LiveIds(log)
  BY <1>3, <1>4 DEF LiveIds
<1>5. ASSUME r \in Seq(Line),
             \A i \in DOMAIN r : r[i].doc # NoDoc /\ r[i].doc = Get(log, r[i].id),
             NEW i \in DOMAIN r, NEW j \in DOMAIN r, r[i].id # r[j].id
      PROVE  FirstBefore(s, r[i].id, r[j].id) <=> FirstBefore(log, r[i].id, r[j].id)
  BY <1>4, <1>5, OrderScan
<1>6. ASSUME r \in Seq(Line)
      PROVE  (\A i \in DOMAIN r : r[i].doc # NoDoc /\ r[i].doc = Get(s, r[i].id))
             <=> (\A i \in DOMAIN r : r[i].doc # NoDoc /\ r[i].doc = Get(log, r[i].id))
  BY <1>1, <1>3, <1>6
<1>7. CASE r \notin Seq(Line)
  BY <1>7 DEF IsScan
<1>8. CASE r \in Seq(Line) /\
           \A i \in DOMAIN r : r[i].doc # NoDoc /\ r[i].doc = Get(log, r[i].id)
  BY <1>2, <1>5, <1>6, <1>8 DEF IsScan
<1>9. CASE r \in Seq(Line) /\
           ~ \A i \in DOMAIN r : r[i].doc # NoDoc /\ r[i].doc = Get(log, r[i].id)
  BY <1>6, <1>9 DEF IsScan
<1> QED BY <1>7, <1>8, <1>9

\* scan() of the rewritten file yields the same lists as before.
LEMMA SameScans ==
  ASSUME NEW S, NEW log \in Seq(S), NEW s, IsScan(s, log)
  PROVE  Scans(s) = Scans(log)
<1>1. \A id \in Ids : Get(s, id) = Get(log, id)
  BY GetScan
<1>2. LiveIds(s) = LiveIds(log)
  BY <1>1 DEF LiveIds
<1>3. LiveLines(s) = LiveLines(log)
  BY <1>1, <1>2 DEF LiveLines, LiveIds
<1> QED
  BY <1>2, <1>3, ScanOfScan DEF Scans

-----------------------------------------------------------------------------
(* Indexes *)

\* get() returns a document or None.
LEMMA GetType ==
  ASSUME NEW l \in Seq(Line), NEW id
  PROVE  Get(l, id) \in Values
<1>1. CASE Occurs(l, id)
  <2>1. PICK i \in DOMAIN l : l[i].id = id /\ IsLast(l, i)
    BY <1>1, LastLine DEF Occurs
  <2>2. Get(l, id) = l[i].doc
    BY <2>1, GetLast
  <2>3. l[i] \in Line
    OBVIOUS
  <2> QED BY <2>2, <2>3 DEF Line
<1>2. CASE ~Occurs(l, id)
  BY <1>2, GetNothing DEF Values
<1> QED BY <1>1, <1>2

\* Adding and removing a key leaves postings.
LEMMA IndexTypes ==
  ASSUME NEW ix \in [Specs -> Postings], NEW id \in Ids, NEW doc \in Docs
  PROVE  /\ AddToIndexes(ix, id, doc) \in [Specs -> Postings]
         /\ RemoveFromIndexes(ix, id, doc) \in [Specs -> Postings]
<1>1. ASSUME NEW k \in Specs PROVE <<KeyOf[k][doc], id>> \in Keys \X Ids
  BY KeyOfAssumption
<1>2. AddToIndexes(ix, id, doc) \in [Specs -> Postings]
  BY <1>1 DEF AddToIndexes, Postings
<1>3. RemoveFromIndexes(ix, id, doc) \in [Specs -> Postings]
  BY DEF RemoveFromIndexes, Postings
<1> QED BY <1>2, <1>3

\* rebuild() makes postings from any list of live documents.
LEMMA RebuildType ==
  ASSUME NEW s \in Seq(Line), \A i \in DOMAIN s : s[i].doc # NoDoc
  PROVE  Rebuild(s) \in [Specs -> Postings]
<1>1. ASSUME NEW k \in Specs, NEW i \in DOMAIN s
      PROVE  <<KeyOf[k][s[i].doc], s[i].id>> \in Keys \X Ids
  <2>1. s[i] \in Line
    OBVIOUS
  <2>2. s[i].doc \in Docs /\ s[i].id \in Ids
    BY <2>1 DEF Line, Values
  <2> QED BY <2>2, KeyOfAssumption
<1> QED BY <1>1 DEF Rebuild, Postings

-----------------------------------------------------------------------------
(* Keys *)

\* A document is added under its key, and no other id moves.
LEMMA KeysAdded ==
  ASSUME NEW ix \in [Specs -> Postings], NEW id \in Ids, NEW doc \in Docs,
         NEW k \in Specs, NEW id2
  PROVE  KeysFor(AddToIndexes(ix, id, doc)[k], id2)
           = IF id2 = id THEN KeysFor(ix[k], id) \cup {KeyOf[k][doc]}
                         ELSE KeysFor(ix[k], id2)
<1>1. KeyOf[k][doc] \in Keys
  BY KeyOfAssumption
<1> QED BY <1>1 DEF KeysFor, AddToIndexes

\* It is removed from under its key, and no other id moves.
LEMMA KeysRemoved ==
  ASSUME NEW ix \in [Specs -> Postings], NEW id \in Ids, NEW doc \in Docs,
         NEW k \in Specs, NEW id2
  PROVE  KeysFor(RemoveFromIndexes(ix, id, doc)[k], id2)
           = IF id2 = id THEN KeysFor(ix[k], id) \ {KeyOf[k][doc]}
                         ELSE KeysFor(ix[k], id2)
  BY DEF KeysFor, RemoveFromIndexes

\* A rebuild from a scan indexes every document of the file exactly.
LEMMA KeysRebuilt ==
  ASSUME NEW log, NEW s, IsScan(s, log), NEW k \in Specs, NEW id \in Ids
  PROVE  KeysFor(Rebuild(s)[k], id) = ProperKeys(k, Get(log, id))
<1>1. /\ s \in Seq(Line)
      /\ \A i \in DOMAIN s : s[i].doc # NoDoc /\ s[i].doc = Get(log, s[i].id)
      /\ \A i \in DOMAIN s : s[i] \in Line
  BY DEF IsScan
<1>2. \A i \in DOMAIN s : KeyOf[k][s[i].doc] \in Keys
  BY <1>1, KeyOfAssumption DEF Line, Values
<1>3. KeysFor(Rebuild(s)[k], id)
        = {key \in Keys : \E i \in DOMAIN s : s[i].id = id /\ key = KeyOf[k][s[i].doc]}
  BY DEF KeysFor, Rebuild
<1>4. CASE Get(log, id) = NoDoc
  <2>1. \A i \in DOMAIN s : s[i].id # id
    BY <1>1, <1>4
  <2> QED BY <1>3, <1>4, <2>1 DEF ProperKeys
<1>5. CASE Get(log, id) # NoDoc
  <2>1. PICK i \in DOMAIN s : s[i].id = id
    BY <1>5 DEF IsScan, LiveIds, Occurs
  <2>2. \A j \in DOMAIN s : s[j].id = id => s[j].doc = Get(log, id)
    BY <1>1
  <2>3. KeyOf[k][Get(log, id)] \in Keys
    BY <1>2, <2>1, <2>2
  <2> QED BY <1>3, <1>5, <2>1, <2>2, <2>3 DEF ProperKeys
<1> QED BY <1>4, <1>5

\* The id is under the keys of doc in every index.
Indexed(ix, id, doc) == \A k \in Specs : KeysFor(ix[k], id) = ProperKeys(k, doc)

\* on_insert() of an id that has no keys gives it those of the document,
\* and touches no other id.
LEMMA Inserted ==
  ASSUME NEW ix \in [Specs -> Postings], NEW id \in Ids, NEW doc \in Docs
  PROVE  /\ Indexed(ix, id, NoDoc) => Indexed(OnInsert(ix, id, doc), id, doc)
         /\ \A id2 : id2 # id => \A k \in Specs :
              KeysFor(OnInsert(ix, id, doc)[k], id2) = KeysFor(ix[k], id2)
<1>1. \A k \in Specs : \A id2 :
        KeysFor(OnInsert(ix, id, doc)[k], id2)
          = IF id2 = id THEN KeysFor(ix[k], id) \cup {KeyOf[k][doc]}
                        ELSE KeysFor(ix[k], id2)
  BY KeysAdded DEF OnInsert
<1>2. doc # NoDoc
  BY NoDocAssumption
<1>3. ASSUME Indexed(ix, id, NoDoc), NEW k \in Specs
      PROVE  KeysFor(OnInsert(ix, id, doc)[k], id) = ProperKeys(k, doc)
  <2>1. KeysFor(ix[k], id) = {}
    BY <1>3 DEF Indexed, ProperKeys
  <2> QED BY <1>1, <1>2, <2>1 DEF ProperKeys
<1> QED BY <1>1, <1>3 DEF Indexed

\* on_delete() with the document that is indexed leaves the id no key.
LEMMA Deleted ==
  ASSUME NEW ix \in [Specs -> Postings], NEW id \in Ids, NEW old \in Values
  PROVE  /\ Indexed(ix, id, old) => Indexed(OnDelete(ix, id, old), id, NoDoc)
         /\ \A id2 : id2 # id => \A k \in Specs :
              KeysFor(OnDelete(ix, id, old)[k], id2) = KeysFor(ix[k], id2)
<1>1. CASE old = NoDoc
  BY <1>1 DEF OnDelete
<1>2. CASE old \in Docs
  <2>1. old # NoDoc
    BY <1>2, NoDocAssumption
  <2>2. \A k \in Specs : \A id2 :
          KeysFor(OnDelete(ix, id, old)[k], id2)
            = IF id2 = id THEN KeysFor(ix[k], id) \ {KeyOf[k][old]}
                          ELSE KeysFor(ix[k], id2)
    BY <1>2, <2>1, KeysRemoved DEF OnDelete
  <2>3. ASSUME Indexed(ix, id, old), NEW k \in Specs
        PROVE  KeysFor(OnDelete(ix, id, old)[k], id) = ProperKeys(k, NoDoc)
    <3>1. KeysFor(ix[k], id) = {KeyOf[k][old]}
      BY <2>1, <2>3 DEF Indexed, ProperKeys
    <3> QED BY <2>2, <3>1 DEF ProperKeys
  <2> QED BY <2>2, <2>3 DEF Indexed
<1> QED BY <1>1, <1>2 DEF Values

\* on_update() with the document that is indexed puts the new one's keys in
\* place of the old one's.
LEMMA Updated ==
  ASSUME NEW ix \in [Specs -> Postings], NEW id \in Ids, NEW old \in Values, NEW doc \in Docs
  PROVE  /\ Indexed(ix, id, old) => Indexed(OnUpdate(ix, id, old, doc), id, doc)
         /\ \A id2 : id2 # id => \A k \in Specs :
              KeysFor(OnUpdate(ix, id, old, doc)[k], id2) = KeysFor(ix[k], id2)
<1> DEFINE rest == OnDelete(ix, id, old)
<1>1. OnUpdate(ix, id, old, doc) = OnInsert(rest, id, doc)
  BY DEF OnUpdate, OnInsert, OnDelete
<1>2. rest \in [Specs -> Postings]
  BY IndexTypes DEF OnDelete, Values
<1> HIDE DEF rest
<1>3. /\ Indexed(rest, id, NoDoc) => Indexed(OnInsert(rest, id, doc), id, doc)
      /\ \A id2 : id2 # id => \A k \in Specs :
           KeysFor(OnInsert(rest, id, doc)[k], id2) = KeysFor(rest[k], id2)
  BY <1>2, Inserted
<1>4. /\ Indexed(ix, id, old) => Indexed(rest, id, NoDoc)
      /\ \A id2 : id2 # id => \A k \in Specs :
           KeysFor(rest[k], id2) = KeysFor(ix[k], id2)
  BY Deleted DEF rest
<1> QED BY <1>1, <1>3, <1>4

\* id is under keys of the two documents only.
Near(ix, id, before, doc) ==
  \A k \in Specs : KeysFor(ix[k], id) \subseteq ProperKeys(k, before) \cup ProperKeys(k, doc)

\* An index that a write was taken into
TakenInto(ix, op, id, before, doc) ==
  CASE op = "insert" -> OnInsert(ix, id, doc)
    [] op = "update" -> OnUpdate(ix, id, before, doc)
    [] op = "delete" -> OnDelete(ix, id, before)

\* It has the id under the keys of the new document, when the id was under no
\* other than those of the one or the other, and no other id moved.
LEMMA TakenIntoKeys ==
  ASSUME NEW ix \in [Specs -> Postings],
         NEW op \in {"insert", "update", "delete"}, NEW id \in Ids,
         NEW before \in Values, NEW doc \in Values,
         op = "insert" => before = NoDoc,
         IF op = "delete" THEN doc = NoDoc ELSE doc \in Docs
  PROVE  /\ TakenInto(ix, op, id, before, doc) \in [Specs -> Postings]
         /\ Near(ix, id, before, doc) => Indexed(TakenInto(ix, op, id, before, doc), id, doc)
         /\ \A id2 \in Ids : id2 # id => \A k \in Specs :
              KeysFor(TakenInto(ix, op, id, before, doc)[k], id2) = KeysFor(ix[k], id2)
<1> DEFINE rest == OnDelete(ix, id, before)
           all == TakenInto(ix, op, id, before, doc)
<1>1. /\ rest \in [Specs -> Postings]
      /\ \A id2 \in Ids : id2 # id => \A k \in Specs : KeysFor(rest[k], id2) = KeysFor(ix[k], id2)
  <2>1. rest \in [Specs -> Postings]
    BY IndexTypes DEF OnDelete, Values
  <2>2. \A id2 : id2 # id => \A k \in Specs : KeysFor(rest[k], id2) = KeysFor(ix[k], id2)
    BY Deleted
  <2> QED BY <2>1, <2>2
<1>2. ASSUME NEW k \in Specs
      PROVE  KeysFor(rest[k], id) = KeysFor(ix[k], id) \ ProperKeys(k, before)
  <2>1. CASE before = NoDoc
    BY <2>1 DEF OnDelete, ProperKeys
  <2>2. CASE before # NoDoc
    <3>1. before \in Docs /\ rest = RemoveFromIndexes(ix, id, before)
      BY <2>2 DEF OnDelete, Values
    <3>2. KeysFor(rest[k], id) = KeysFor(ix[k], id) \ {KeyOf[k][before]}
      BY <3>1 DEF KeysFor, RemoveFromIndexes
    <3> QED BY <2>2, <3>1, <3>2 DEF ProperKeys
  <2> QED BY <2>1, <2>2
<1>3. CASE op = "delete"
  <2>1. all = rest
    BY <1>3 DEF TakenInto
  <2>2. ASSUME Near(ix, id, before, doc), NEW k \in Specs
        PROVE  KeysFor(rest[k], id) = {}
    BY <1>2, <1>3, <2>2 DEF Near, ProperKeys
  <2> HIDE DEF all, rest
  <2> QED BY <1>1, <1>3, <2>1, <2>2 DEF all, Indexed, ProperKeys
<1>4. CASE op # "delete"
  <2>1. all = AddToIndexes(rest, id, doc)
    BY <1>4 DEF TakenInto, OnInsert, OnUpdate, OnDelete
  <2>2. doc \in Docs /\ doc # NoDoc
    BY <1>4, NoDocAssumption
  <2> HIDE DEF all, rest
  <2>3. all \in [Specs -> Postings]
    BY <1>1, <2>1, <2>2, IndexTypes
  <2>4. \A k \in Specs : \A id2 \in Ids :
          KeysFor(all[k], id2) = IF id2 = id THEN KeysFor(rest[k], id) \cup {KeyOf[k][doc]}
                                             ELSE KeysFor(rest[k], id2)
    <3>1. \A k \in Specs : KeyOf[k][doc] \in Keys
      BY <2>2, KeyOfAssumption
    <3> QED BY <2>1, <3>1 DEF KeysFor, AddToIndexes
  <2>5. ASSUME Near(ix, id, before, doc), NEW k \in Specs
        PROVE  KeysFor(all[k], id) = ProperKeys(k, doc)
    <3>1. KeysFor(ix[k], id) \subseteq ProperKeys(k, before) \cup ProperKeys(k, doc)
      BY <2>5 DEF Near
    <3>2. ProperKeys(k, doc) = {KeyOf[k][doc]}
      BY <2>2 DEF ProperKeys
    <3> QED BY <1>2, <2>4, <3>1, <3>2
  <2> QED BY <1>1, <2>3, <2>4, <2>5 DEF all, Indexed
<1> QED BY <1>3, <1>4
=============================================================================
