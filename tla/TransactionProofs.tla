------------------------- MODULE TransactionProofs -------------------------
(***************************************************************************)
(* Transaction for any ids, documents, indexes, transactions and number of *)
(* writes: a commit is applied whole, and recovery spoils no index.        *)
(***************************************************************************)
EXTENDS Transaction, StorageLemmas, FiniteSetTheorems

(***************************************************************************)
(* Lines that were found by counting.  Deduped counts the first lines of   *)
(* the ids before a place, so that the n-th of them has to exist.          *)
(***************************************************************************)

Rank(S, i) == Cardinality({j \in S : j < i})

\* A later element has more before it.
LEMMA RankGrows ==
  ASSUME NEW S \in SUBSET Nat, IsFiniteSet(S), NEW i \in S, NEW j \in S, i < j
  PROVE  Rank(S, i) < Rank(S, j)
<1> DEFINE A == {k \in S : k < i}
           B == {k \in S : k < j}
<1>1. IsFiniteSet(A) /\ IsFiniteSet(B)
  BY FS_Subset
<1>2. A \in SUBSET B /\ i \in B /\ i \notin A
  <2>1. i \in Nat /\ j \in Nat /\ \A k \in S : k \in Nat
    OBVIOUS
  <2>2. \A k \in S : k < i => k < j
    BY <2>1
  <2>3. ~(i < i)
    BY <2>1
  <2> QED BY <2>2, <2>3
<1>3. Cardinality(A) <= Cardinality(B) /\ Cardinality(A) # Cardinality(B)
  BY <1>1, <1>2, FS_Subset
<1>4. Cardinality(A) \in Nat /\ Cardinality(B) \in Nat
  BY <1>1, FS_CardinalityType
<1> QED BY <1>3, <1>4 DEF Rank

\* Every number below the size of a set is the rank of one of its elements.
LEMMA RankExists ==
  ASSUME NEW S \in SUBSET Nat, IsFiniteSet(S), NEW n \in 0 .. Cardinality(S) - 1
  PROVE  \E i \in S : Rank(S, i) = n
<1> DEFINE rank == [i \in S |-> Rank(S, i)]
           T == {rank[i] : i \in S}
           size == Cardinality(S)
<1>1. size \in Nat
  BY FS_CardinalityType
<1>2. ASSUME NEW i \in S PROVE Rank(S, i) \in 0 .. size - 1
  <2> DEFINE A == {k \in S : k < i}
  <2>1. IsFiniteSet(A) /\ Cardinality(A) <= size /\ (Cardinality(A) = size => A = S)
    BY FS_Subset
  <2>2. i \notin A
    OBVIOUS
  <2>3. Cardinality(A) \in Nat /\ Cardinality(A) # size
    BY <2>1, <2>2, FS_CardinalityType
  <2> QED BY <1>1, <2>1, <2>3 DEF Rank
<1>3. ASSUME NEW i \in S, NEW j \in S, rank[i] = rank[j] PROVE i = j
  <2>1. ~(i < j) /\ ~(j < i)
    BY <1>2, <1>3, RankGrows
  <2> QED BY <2>1
<1>4. rank \in Surjection(S, T) /\ rank \in Injection(S, T)
  BY <1>3 DEF Surjection, Injection, IsInjective
<1>5. IsFiniteSet(T) /\ Cardinality(T) = size
  BY <1>4, FS_Surjection
<1>6. IsFiniteSet(0 .. size - 1) /\ Cardinality(0 .. size - 1) = size
  BY <1>1, FS_Interval
<1>7. T \in SUBSET (0 .. size - 1)
  BY <1>2
<1>8. T = 0 .. size - 1
  BY <1>5, <1>6, <1>7, FS_Subset
<1> QED BY <1>8

\* A finite set of numbers has a least and a greatest element.
LEMMA Ends ==
  ASSUME NEW S \in SUBSET Nat, IsFiniteSet(S), S # {}
  PROVE  /\ \E i \in S : \A j \in S : i <= j
         /\ \E i \in S : \A j \in S : j <= i
<1> DEFINE size == Cardinality(S)
<1>1. size \in Nat \ {0}
  BY FS_CardinalityType, FS_EmptySet
<1>2. \E i \in S : \A j \in S : i <= j
  <2>1. PICK i \in S : Rank(S, i) = 0
    BY <1>1, RankExists
  <2> DEFINE A == {k \in S : k < i}
  <2>2. A = {}
    BY <2>1, FS_Subset, FS_EmptySet DEF Rank
  <2> QED BY <2>2
<1>3. \E i \in S : \A j \in S : j <= i
  <2>1. PICK i \in S : Rank(S, i) = size - 1
    BY <1>1, RankExists
  <2> DEFINE A == {k \in S : k < i}
             B == A \cup {i}
  <2>2. IsFiniteSet(A) /\ i \notin A
    BY FS_Subset
  <2>3. IsFiniteSet(B) /\ Cardinality(B) = size
    <3>1. Cardinality(A) = size - 1
      BY <2>1 DEF Rank
    <3> HIDE DEF A, size
    <3>2. IsFiniteSet(B) /\ Cardinality(B) = Cardinality(A) + 1
      BY <2>2, FS_AddElement
    <3> QED BY <1>1, <3>1, <3>2
  <2>4. B = S
    BY <2>3, FS_Subset
  <2> QED BY <2>4
<1> QED BY <1>2, <1>3

-----------------------------------------------------------------------------
(* read_entries *)

Lines(w, id) == {i \in DOMAIN w : w[i].id = id}

\* An id that occurs has a first and a last line.
LEMMA FirstAndLast ==
  ASSUME NEW w \in Seq(Entry), NEW k \in DOMAIN w
  PROVE  /\ \E i \in Lines(w, w[k].id) : \A j \in Lines(w, w[k].id) : i <= j
         /\ \E i \in Lines(w, w[k].id) : \A j \in Lines(w, w[k].id) : j <= i
<1> DEFINE S == Lines(w, w[k].id)
<1>1. S \in SUBSET (1 .. Len(w)) /\ S # {}
  BY DEF Lines
<1>2. IsFiniteSet(1 .. Len(w))
  BY FS_Interval
<1>3. IsFiniteSet(S)
  BY <1>1, <1>2, FS_Subset
<1>4. S \in SUBSET Nat
  BY <1>1
<1> HIDE DEF S
<1>5. (\E i \in S : \A j \in S : i <= j) /\ (\E i \in S : \A j \in S : j <= i)
  BY <1>1, <1>3, <1>4, Ends
<1> QED BY <1>5 DEF S

\* The entry of the last line has the id, and is what is intended for it.
LEMMA LastEntryIsIntended ==
  ASSUME NEW w \in Seq(Entry), NEW k \in DOMAIN w
  PROVE  LET e == LastEntry(w, w[k].id) IN
         /\ e \in Entry /\ e.id = w[k].id
         /\ \A f \in Intended(w) : f.id = w[k].id => f = e
<1> DEFINE id == w[k].id
           last(i) == i \in DOMAIN w /\ w[i].id = id
                      /\ \A j \in DOMAIN w : w[j].id = id => j <= i
           l == CHOOSE i \in DOMAIN w : w[i].id = id /\ \A j \in DOMAIN w : w[j].id = id => j <= i
<1>1. \E i \in DOMAIN w : last(i)
  BY FirstAndLast DEF Lines
<1>2. last(l)
  BY <1>1
<1>3. LastEntry(w, id) = w[l]
  BY DEF LastEntry
<1>4. \A i \in DOMAIN w : last(i) => i = l
  BY <1>2
<1>5. ASSUME NEW f \in Intended(w), f.id = id PROVE f = w[l]
  <2>1. PICK i \in DOMAIN w : /\ f = w[i]
                              /\ \A j \in DOMAIN w : w[j].id = w[i].id => j <= i
    BY DEF Intended
  <2> QED BY <1>4, <1>5, <2>1
<1> QED BY <1>2, <1>3, <1>5

Place(w, n) == CHOOSE i \in Firsts(w) : Rank(Firsts(w), i) = n - 1

\* The n-th of the first lines exists, and each of them is one of these.
LEMMA Places ==
  ASSUME NEW w \in Seq(Entry)
  PROVE  LET size == Cardinality(Firsts(w)) IN
         /\ size \in Nat
         /\ \A n \in 1 .. size : /\ Place(w, n) \in Firsts(w)
                                 /\ Rank(Firsts(w), Place(w, n)) = n - 1
         /\ \A i \in Firsts(w) : \E n \in 1 .. size : Place(w, n) = i
<1> DEFINE F == Firsts(w)
           size == Cardinality(F)
<1>1. F \in SUBSET (1 .. Len(w))
  BY DEF Firsts
<1>2. IsFiniteSet(F) /\ F \in SUBSET Nat
  BY <1>1, FS_Interval, FS_Subset
<1> HIDE DEF F
<1>3. size \in Nat
  BY <1>2, FS_CardinalityType
<1>4. ASSUME NEW n \in 1 .. size
      PROVE  Place(w, n) \in F /\ Rank(F, Place(w, n)) = n - 1
  <2>1. n - 1 \in 0 .. size - 1
    BY <1>3
  <2>2. \E i \in F : Rank(F, i) = n - 1
    BY <1>2, <2>1, RankExists
  <2> QED BY <2>2 DEF Place, F
<1>5. ASSUME NEW i \in F PROVE \E n \in 1 .. size : Place(w, n) = i
  <2> DEFINE A == {k \in F : k < i}
             n == Rank(F, i) + 1
  <2>1. IsFiniteSet(A) /\ Cardinality(A) <= size /\ (Cardinality(A) = size => A = F)
    BY <1>2, FS_Subset
  <2>2. Rank(F, i) \in Nat /\ Rank(F, i) < size
    BY <1>2, <1>3, <2>1, FS_CardinalityType DEF Rank
  <2>3. n \in 1 .. size
    BY <1>3, <2>2
  <2>4. PICK p \in F : p = Place(w, n) /\ Rank(F, p) = Rank(F, i)
    BY <1>4, <2>2, <2>3
  <2>5. ~(p < i) /\ ~(i < p)
    BY <1>2, <2>2, <2>4, RankGrows
  <2>6. p \in Nat /\ i \in Nat
    BY <1>2
  <2>7. p = i
    BY <2>5, <2>6
  <2> HIDE DEF n
  <2> QED BY <2>3, <2>4, <2>7
<1> QED BY <1>3, <1>4, <1>5 DEF F

\* read_entries() has an entry for each id, the one that is intended.
LEMMA DedupedIsIntended ==
  ASSUME NEW w \in Seq(Entry)
  PROVE  /\ Deduped(w) \in Seq(Entry)
         /\ \A m, n \in DOMAIN Deduped(w) : Deduped(w)[m].id = Deduped(w)[n].id => m = n
         /\ \A e \in Intended(w) : \E n \in DOMAIN Deduped(w) : Deduped(w)[n] = e
<1> DEFINE size == Cardinality(Firsts(w))
           entry(n) == LastEntry(w, w[Place(w, n)].id)
<1>1. Deduped(w) = [n \in 1 .. size |-> entry(n)]
  BY DEF Deduped, Place, Rank
<1>2. ASSUME NEW n \in 1 .. size
      PROVE  Place(w, n) \in Firsts(w) /\ Place(w, n) \in DOMAIN w
  BY Places DEF Firsts
<1>3. ASSUME NEW n \in 1 .. size
      PROVE  entry(n) \in Entry /\ entry(n).id = w[Place(w, n)].id
  BY <1>2, LastEntryIsIntended
<1>4. size \in Nat
  BY Places
<1> HIDE DEF entry
<1>5. Deduped(w) \in Seq(Entry) /\ DOMAIN Deduped(w) = 1 .. size
  BY <1>1, <1>3, <1>4
<1>6. ASSUME NEW m \in 1 .. size, NEW n \in 1 .. size, entry(m).id = entry(n).id
      PROVE  m = n
  <2>1. w[Place(w, m)].id = w[Place(w, n)].id
    BY <1>3, <1>6
  <2>2. Place(w, m) <= Place(w, n) /\ Place(w, n) <= Place(w, m)
    BY <1>2, <2>1 DEF Firsts
  <2>3. Place(w, m) = Place(w, n)
    BY <1>2, <2>2
  <2> QED BY <1>4, <2>3, Places
<1>7. ASSUME NEW e \in Intended(w) PROVE \E n \in 1 .. size : entry(n) = e
  <2>1. PICK k \in DOMAIN w : e = w[k]
    BY DEF Intended
  <2>2. PICK i \in Lines(w, e.id) : \A j \in Lines(w, e.id) : i <= j
    BY <2>1, FirstAndLast
  <2>3. i \in Firsts(w) /\ w[i].id = e.id
    BY <2>2 DEF Lines, Firsts
  <2>4. PICK n \in 1 .. size : Place(w, n) = i
    BY <2>3, Places
  <2>5. e = LastEntry(w, w[i].id)
    BY <2>3, LastEntryIsIntended DEF Firsts
  <2> QED BY <2>4, <2>5 DEF entry
<1> QED BY <1>1, <1>5, <1>6, <1>7

-----------------------------------------------------------------------------
(* The invariant *)

Calls ==
  [pc : {"none", "read", "append", "index", "replace", "rebuild", "fill", "save"},
   op : {"none", "insert", "update", "delete", "compact"},
   id : Ids \cup {NoDoc}, doc : Values, old : Values,
   live : [Ids -> Values], since : SUBSET Ids]

TypeInv ==
  /\ docs \in [Ids -> Values]
  /\ idx \in [Specs -> Postings \cup {Garbled}] /\ mem \in [Specs -> Postings]
  /\ wal \in [Txns -> Seq(Entry) \cup {NoFile, CorruptFile}]
  /\ phase \in {"down", "recovering", "up"}
  /\ pc \in [Txns -> {"open", "next", "append", "index", "save"}]
  /\ todo \in [Txns -> Seq(Entry)]
  /\ old \in [Txns -> Values]
  /\ call \in Calls
  /\ at \in [Writers -> 0 .. NIdx + 1]
  /\ dumped \subseteq Writers /\ clash \subseteq Writers
  /\ owes \in [Txns -> SUBSET Entry]
  /\ stale \subseteq Ids

\* Where a commit or a replay is, and what it has then.
TxnInv ==
  \A x \in Txns :
    /\ pc[x] = "open" => todo[x] = <<>>
    /\ pc[x] # "open" => IsFile(x)
    /\ pc[x] \in {"append", "index", "save"} => todo[x] # <<>>
    /\ pc[x] \in {"open", "next"} => old[x] = NoDoc
    /\ pc[x] = "append" => Current(x).op # "insert"
    /\ pc[x] = "index" /\ Current(x).op = "insert" => old[x] = NoDoc

\* The call that has the lock, and what it has.
CallInv ==
  /\ phase # "up" => call = NoCall
  /\ call.pc = "none" => call = NoCall
  /\ call.pc \in {"read", "append", "index"} =>
       /\ call.op \in {"insert", "update", "delete"} /\ call.id \in Ids
       /\ IF call.op = "delete" THEN call.doc = NoDoc ELSE call.doc \in Docs
  /\ call.pc = "read" => call.op # "insert"
  /\ call.pc \in {"replace", "rebuild", "fill"} => call.op = "compact"
  /\ call.pc = "save" => call.op = "compact" \/ call.id \in Ids
  /\ call.op = "insert" => call.old = NoDoc

\* Who is at a save, and what is dumped of an index that is being filled
SaveInv ==
  /\ at[Single] # 0 <=> call.pc = "save"
  /\ \A x \in Txns : at[x] # 0 <=> pc[x] = "save"
  /\ \A w \in dumped : at[w] \in Specs
  /\ call.pc = "fill" => dumped \subseteq clash

DownInv ==
  phase = "down" => /\ Idle
                    /\ (\E k \in Specs : idx[k] = Garbled) => stale = Ids

\* A compaction has the documents but for those that commits wrote since.
LiveInv ==
  call.op = "compact" =>
    /\ \A id \in Ids \ call.since : call.live[id] = docs[id]
    /\ call.pc \in {"rebuild", "fill"} => call.since \subseteq stale

\* The entries of a commit or a replay after the current one
Rest(x) == {todo[x][n] : n \in 2 .. Len(todo[x])}

\* those it has not appended yet
Waiting(x) == {todo[x][n] : n \in (IF pc[x] \in {"index", "save"} THEN 2 ELSE 1) .. Len(todo[x])}

Distinct(s) == \A m, n \in DOMAIN s : s[m].id = s[n].id => m = n

Holding(e) == docs[e.id] = e.doc

\* An id is there once, and an entry that is owed waits, or holds and is not
\* overwritten by one that waits.  What is not being applied holds, unless a
\* crash cut it off, and then its file is there.
OwedBy(x) ==
  /\ Distinct(todo[x])
  /\ pc[x] # "open" =>
       \A e \in owes[x] :
         e \in Waiting(x) \/ (Holding(e) /\ \A f \in Waiting(x) : f.id # e.id)
  /\ pc[x] = "open" /\ (phase = "up" \/ ~IsFile(x)) => \A e \in owes[x] : Holding(e)

OwesInv == \A x \in Txns : OwedBy(x)

AtIndex(x, id) == pc[x] = "index" /\ Current(x).id = id

CallAtIndex(id) == call.pc = "index" /\ call.id = id

\* id is under no keys but those of its document.
Within(ix, id, doc) == \A k \in Specs : KeysFor(ix[k], id) \subseteq ProperKeys(k, doc)

\* One write at most has an id half indexed, and knows what to take out; if none
\* has, the index in memory is exact, or on the way to it.
Right(id) ==
  /\ \A x \in Txns :
       AtIndex(x, id) =>
         /\ \A y \in Txns : AtIndex(y, id) => y = x
         /\ ~CallAtIndex(id)
         /\ docs[id] = Current(x).doc
         /\ Near(mem, id, old[x], docs[id])
  /\ CallAtIndex(id) => docs[id] = call.doc /\ Near(mem, id, call.old, docs[id])
  /\ ~HalfIndexed(id) /\ phase # "down" =>
       IF call.pc = "fill" THEN Within(mem, id, docs[id]) ELSE Indexed(mem, id, docs[id])

RightInv == \A id \in Ids \ stale : Right(id)

\* The save of a writer has still to come to id in index k.
Saves(w, id, k) == at[w] # 0 /\ at[w] <= k /\ id \in IdsOf(w)

Busy(id, k) == HalfIndexed(id) \/ \E w \in Writers : Saves(w, id, k)

\* If nobody is at id or has still to save it, the file is exact.
OnDisk(id) ==
  \A k \in Specs :
    idx[k] # Garbled /\ ~Busy(id, k) => KeysFor(idx[k], id) = ProperKeys(k, docs[id])

DiskInv == \A id \in Ids \ stale : OnDisk(id)

CommitInv ==
  TypeInv /\ TxnInv /\ CallInv /\ SaveInv /\ DownInv /\ LiveInv /\ OwesInv

IInv == CommitInv /\ RightInv /\ DiskInv

-----------------------------------------------------------------------------
(* The entries of a transaction *)

\* What an entry is.
LEMMA EntryFields ==
  ASSUME NEW e \in Entry
  PROVE  /\ e.id \in Ids /\ e.doc \in Values
         /\ e.op \in {"insert", "update", "delete"}
         /\ e.op = "delete" => e.doc = NoDoc
         /\ e.op # "delete" => e.doc \in Docs
  BY DEF Entry, Values

\* The current entry and the rest of them
LEMMA CurrentEntry ==
  ASSUME TypeInv, NEW x \in Txns, todo[x] # <<>>
  PROVE  /\ Current(x) \in Entry
         /\ pc[x] \in {"index", "save"} => Waiting(x) = Rest(x)
         /\ pc[x] \notin {"index", "save"} => Waiting(x) = Rest(x) \cup {Current(x)}
         /\ Distinct(todo[x]) => \A f \in Rest(x) : f.id # Current(x).id
<1>1. todo[x] \in Seq(Entry)
  BY DEF TypeInv
<1>2. Len(todo[x]) \in Nat /\ Len(todo[x]) >= 1 /\ Current(x) = todo[x][1]
  BY <1>1 DEF Current
<1>3. todo[x][1] \in Entry
  BY <1>1, <1>2
<1>4. Waiting(x) = IF pc[x] \in {"index", "save"} THEN Rest(x) ELSE Rest(x) \cup {todo[x][1]}
  BY <1>2 DEF Waiting, Rest
<1>5. ASSUME Distinct(todo[x]), NEW n \in 2 .. Len(todo[x])
      PROVE  todo[x][n].id # todo[x][1].id
  BY <1>1, <1>2, <1>5 DEF Distinct
<1> QED BY <1>2, <1>3, <1>4, <1>5 DEF Rest

\* Going on with the next entry leaves the rest.
LEMMA NextEntryLeaves ==
  ASSUME TypeInv, NEW x \in Txns, todo[x] # <<>>, NextEntry(x)
  PROVE  /\ pc' \in [Txns -> {"open", "next", "append", "index", "save"}]
         /\ todo' \in [Txns -> Seq(Entry)]
         /\ old' \in [Txns -> Values]
         /\ pc'[x] = "next" /\ old'[x] = NoDoc
         /\ Waiting(x)' = Rest(x)
         /\ Distinct(todo[x]) => Distinct(todo'[x])
         /\ \A y \in Txns \ {x} :
              /\ pc'[y] = pc[y] /\ todo'[y] = todo[y] /\ old'[y] = old[y]
              /\ Waiting(y)' = Waiting(y) /\ Current(y)' = Current(y)
<1> DEFINE s == todo[x]
<1>1. s \in Seq(Entry) /\ s # <<>>
  BY DEF TypeInv
<1> HIDE DEF s
<1>2. /\ Tail(s) \in Seq(Entry) /\ Len(Tail(s)) = Len(s) - 1 /\ Len(s) \in Nat
      /\ \A n \in 1 .. Len(s) - 1 : Tail(s)[n] = s[n + 1]
  BY <1>1
<1>3. /\ pc' \in [Txns -> {"open", "next", "append", "index", "save"}]
      /\ old' \in [Txns -> Values]
      /\ pc'[x] = "next" /\ old'[x] = NoDoc
  BY DEF TypeInv, NextEntry, Values
<1>4. todo' \in [Txns -> Seq(Entry)] /\ todo'[x] = Tail(s)
  BY <1>2 DEF TypeInv, NextEntry, s
<1>5. {Tail(s)[n] : n \in 1 .. Len(s) - 1} = {s[n] : n \in 2 .. Len(s)}
  <2>1. ASSUME NEW n \in 2 .. Len(s) PROVE \E m \in 1 .. Len(s) - 1 : Tail(s)[m] = s[n]
    <3>1. n - 1 \in 1 .. Len(s) - 1 /\ (n - 1) + 1 = n
      BY <1>2
    <3> QED BY <1>2, <3>1
  <2>2. ASSUME NEW n \in 1 .. Len(s) - 1 PROVE \E m \in 2 .. Len(s) : Tail(s)[n] = s[m]
    <3>1. n + 1 \in 2 .. Len(s)
      BY <1>2
    <3> QED BY <1>2, <3>1
  <2> DEFINE A == {Tail(s)[n] : n \in 1 .. Len(s) - 1}
             B == {s[n] : n \in 2 .. Len(s)}
  <2>3. \A e \in A : e \in B
    BY <2>2
  <2>4. \A e \in B : e \in A
    BY <2>1
  <2> HIDE DEF A, B
  <2>5. A = B
    BY <2>3, <2>4
  <2> QED BY <2>5 DEF A, B
<1>6. Waiting(x)' = Rest(x)
  BY <1>2, <1>3, <1>4, <1>5 DEF Waiting, Rest, s
<1>7. ASSUME Distinct(s) PROVE Distinct(Tail(s))
  BY <1>1, <1>2, <1>7 DEF Distinct
<1>8. ASSUME NEW y \in Txns \ {x}
      PROVE  pc'[y] = pc[y] /\ todo'[y] = todo[y] /\ old'[y] = old[y]
  BY DEF TypeInv, NextEntry
<1>9. ASSUME NEW y \in Txns \ {x}
      PROVE  Waiting(y)' = Waiting(y) /\ Current(y)' = Current(y)
  BY <1>8 DEF Waiting, Current
<1> QED BY <1>3, <1>4, <1>6, <1>7, <1>8, <1>9 DEF s

-----------------------------------------------------------------------------
(* Calls and indexes *)

\* The local variables of a call, assigned one at a time.
LEMMA EditCall ==
  ASSUME call \in Calls
  PROVE  /\ \A p \in {"append", "index", "rebuild", "fill", "save"} : [call EXCEPT !.pc = p] \in Calls
         /\ \A v \in Values : [call EXCEPT !.pc = "append", !.old = v] \in Calls
         /\ \A ids \in SUBSET Ids : [call EXCEPT !.since = ids] \in Calls
         /\ [call EXCEPT !.since = call.since] = call
  BY DEF Calls

\* No call is a call.
LEMMA NoCallType == NoCall \in Calls
  BY DEF NoCall, Calls, Values

\* Reindexed is TakenInto, of the indexes in memory.
LEMMA ReindexedIsTakenInto ==
  ASSUME NEW op, NEW id, NEW before, NEW doc
  PROVE  Reindexed(op, id, before, doc) = TakenInto(mem, op, id, before, doc)
BY DEF Reindexed, TakenInto

SameKeys(ix, jx, id) == \A k \in Specs : KeysFor(ix[k], id) = KeysFor(jx[k], id)

\* An id stays right when a step changes neither its document, nor its keys, nor
\* what is at it.
LEMMA StaysRight ==
  ASSUME NEW id \in Ids, Right(id), docs'[id] = docs[id],
         \A x \in Txns : AtIndex(x, id)' <=> AtIndex(x, id),
         \A x \in Txns : AtIndex(x, id) => old'[x] = old[x] /\ Current(x)' = Current(x),
         CallAtIndex(id)' <=> CallAtIndex(id),
         CallAtIndex(id) => call'.old = call.old /\ call'.doc = call.doc,
         call'.pc = "fill" <=> call.pc = "fill",
         phase' # "down" => phase # "down",
         SameKeys(mem', mem, id)
  PROVE  Right(id)'
<1>1. HalfIndexed(id)' <=> HalfIndexed(id)
  BY DEF HalfIndexed, AtIndex, CallAtIndex
<1>2. \A before, doc : Near(mem, id, before, doc) => Near(mem', id, before, doc)
  BY DEF SameKeys, Near
<1>3. \A doc : /\ Indexed(mem, id, doc) => Indexed(mem', id, doc)
               /\ Within(mem, id, doc) => Within(mem', id, doc)
  BY DEF SameKeys, Indexed, Within
<1> QED BY <1>1, <1>2, <1>3 DEF Right

\* A file stays exact for an id as long as nobody ceases to be at the id.
LEMMA StaysOnDisk ==
  ASSUME NEW id \in Ids, OnDisk(id), docs'[id] = docs[id], idx' = idx,
         \A x \in Txns : AtIndex(x, id) => AtIndex(x, id)',
         CallAtIndex(id) => CallAtIndex(id)',
         \A w \in Writers : at[w] # 0 /\ id \in IdsOf(w) =>
           at[w] = NIdx + 1 \/ (at'[w] = at[w] /\ id \in IdsOf(w)')
  PROVE  OnDisk(id)'
<1>1. ASSUME NEW k \in Specs, Busy(id, k) PROVE Busy(id, k)'
  <2>1. HalfIndexed(id) => HalfIndexed(id)'
    BY DEF HalfIndexed, AtIndex, CallAtIndex
  <2>2. ASSUME NEW w \in Writers, Saves(w, id, k) PROVE Saves(w, id, k)'
    <3>1. ~(NIdx + 1 <= k)
      BY NIdxAssumption DEF Specs
    <3> QED BY <2>2, <3>1 DEF Saves
  <2> QED BY <1>1, <2>1, <2>2 DEF Busy
<1> QED BY <1>1 DEF OnDisk

\* What _apply_entry and a call at their postings make of an index
LEMMA EntryReindexed ==
  ASSUME TypeInv, TxnInv, NEW x \in Txns, pc[x] = "index"
  PROVE  LET e   == Current(x)
             new == Reindexed(e.op, e.id, old[x], e.doc)
         IN  /\ e \in Entry
             /\ new \in [Specs -> Postings]
             /\ Near(mem, e.id, old[x], e.doc) => Indexed(new, e.id, e.doc)
             /\ \A id \in Ids : id # e.id => SameKeys(new, mem, id)
<1> DEFINE e == Current(x)
<1>1. e \in Entry /\ (e.op = "insert" => old[x] = NoDoc)
  BY CurrentEntry DEF TxnInv
<1>2. /\ e.id \in Ids /\ e.doc \in Values /\ old[x] \in Values
      /\ e.op \in {"insert", "update", "delete"}
      /\ IF e.op = "delete" THEN e.doc = NoDoc ELSE e.doc \in Docs
  BY <1>1, EntryFields DEF TypeInv
<1>3. mem \in [Specs -> Postings]
  BY DEF TypeInv
<1> HIDE DEF e
<1> DEFINE new == TakenInto(mem, e.op, e.id, old[x], e.doc)
<1>4. /\ new \in [Specs -> Postings]
      /\ Near(mem, e.id, old[x], e.doc) => Indexed(new, e.id, e.doc)
      /\ \A id \in Ids : id # e.id => \A k \in Specs : KeysFor(new[k], id) = KeysFor(mem[k], id)
  BY <1>1, <1>2, <1>3, TakenIntoKeys
<1>5. Reindexed(e.op, e.id, old[x], e.doc) = new
  BY ReindexedIsTakenInto
<1> HIDE DEF new
<1> QED BY <1>1, <1>4, <1>5 DEF SameKeys, e

\* The same of a call that has the lock
LEMMA CallReindexed ==
  ASSUME TypeInv, CallInv, call.pc = "index"
  PROVE  LET new == Reindexed(call.op, call.id, call.old, call.doc)
         IN  /\ call.id \in Ids
             /\ new \in [Specs -> Postings]
             /\ Near(mem, call.id, call.old, call.doc) => Indexed(new, call.id, call.doc)
             /\ \A id \in Ids : id # call.id => SameKeys(new, mem, id)
<1>1. /\ call.id \in Ids /\ call.doc \in Values /\ call.old \in Values
      /\ call.op \in {"insert", "update", "delete"}
      /\ call.op = "insert" => call.old = NoDoc
      /\ IF call.op = "delete" THEN call.doc = NoDoc ELSE call.doc \in Docs
  BY DEF TypeInv, CallInv, Calls
<1>2. mem \in [Specs -> Postings]
  BY DEF TypeInv
<1> DEFINE new == TakenInto(mem, call.op, call.id, call.old, call.doc)
<1>3. /\ new \in [Specs -> Postings]
      /\ Near(mem, call.id, call.old, call.doc) => Indexed(new, call.id, call.doc)
      /\ \A id \in Ids : id # call.id => \A k \in Specs : KeysFor(new[k], id) = KeysFor(mem[k], id)
  BY <1>1, <1>2, TakenIntoKeys
<1>4. Reindexed(call.op, call.id, call.old, call.doc) = new
  BY ReindexedIsTakenInto
<1> HIDE DEF new
<1> QED BY <1>1, <1>3, <1>4 DEF SameKeys

\* The documents of a compaction entered into an index: each is under its keys,
\* and under no other if it was under no other.
LEMMA FilledKeys ==
  ASSUME TypeInv
  PROVE  /\ Filled \in [Specs -> Postings]
         /\ \A id \in Ids, k \in Specs :
              KeysFor(Filled[k], id) = KeysFor(mem[k], id) \cup ProperKeys(k, call.live[id])
<1>1. call.live \in [Ids -> Values] /\ mem \in [Specs -> Postings]
  BY DEF TypeInv, Calls
<1>2. ASSUME NEW k \in Specs, NEW id \in Ids, call.live[id] # NoDoc
      PROVE  KeyOf[k][call.live[id]] \in Keys
  BY <1>1, <1>2, KeyOfAssumption DEF Values
<1>3. Filled \in [Specs -> Postings]
  BY <1>1, <1>2 DEF Filled, Postings
<1>4. ASSUME NEW k \in Specs, NEW id \in Ids
      PROVE  KeysFor(Filled[k], id) = KeysFor(mem[k], id) \cup ProperKeys(k, call.live[id])
  BY <1>2 DEF KeysFor, Filled, ProperKeys
<1> QED BY <1>3, <1>4

-----------------------------------------------------------------------------
(* Changes and saves of the indexes *)

\* The ids that a writer has at heart are ids.
LEMMA IdsOfIds ==
  ASSUME TypeInv, TxnInv, CallInv, NEW w \in Writers,
         IF w = Single THEN call.pc \in {"index", "fill", "save"}
                       ELSE pc[w] \in {"index", "save"}
  PROVE  IdsOf(w) \subseteq Ids
<1>1. CASE w = Single
  BY <1>1 DEF IdsOf, CallInv
<1>2. CASE w # Single
  <2>1. w \in Txns /\ todo[w] # <<>>
    BY <1>2 DEF Writers, TxnInv
  <2>2. Current(w).id \in Ids
    BY <2>1, CurrentEntry, EntryFields
  <2> QED BY <1>2, <2>2 DEF IdsOf
<1> QED BY <1>1, <1>2

\* A change comes out as it should for every id that is not stale afterwards.
LEMMA ChangeKeys ==
  ASSUME TypeInv, TxnInv, CallInv, NEW w \in Writers, Indexing(w),
         NEW proper \in [Specs -> Postings], Change(w, proper)
  PROVE  /\ mem' \in [Specs -> Postings]
         /\ stale \subseteq stale' /\ stale' \subseteq Ids
         /\ clash' \subseteq Writers /\ dumped \ {w} \subseteq clash'
         /\ \A id \in Ids \ stale' : SameKeys(mem', proper, id)
<1>1. \A v \in Met(w) \cup {w} : v \in Writers /\ Indexing(v)
  BY DEF Met
<1>2. \A v \in Met(w) \cup {w} : IdsOf(v) \subseteq Ids
  BY <1>1, IdsOfIds DEF Indexing
<1>3. Spoiled(w) \subseteq Ids
  BY <1>2 DEF Spoiled
<1>4. stale \subseteq Ids
  BY DEF TypeInv
<1>5. clash' \subseteq Writers /\ dumped \ {w} \subseteq clash'
  BY <1>1 DEF Change, Disturbed, TypeInv
<1>6. CASE Met(w) = {} /\ w \notin clash
  BY <1>4, <1>5, <1>6 DEF Change, SameKeys
<1>7. CASE ~(Met(w) = {} /\ w \notin clash)
  BY <1>3, <1>4, <1>5, <1>7 DEF Change, SameKeys
<1> QED BY <1>6, <1>7

\* Where a save begins, goes on and ends
LEMMA SaveMoves ==
  ASSUME TypeInv, NEW w \in Writers
  PROVE  /\ StartSave(w) => /\ at' \in [Writers -> 0 .. NIdx + 1] /\ dumped' = dumped
                            /\ at'[w] = 1 /\ \A v \in Writers \ {w} : at'[v] = at[v]
         /\ EndSave(w) => /\ at' \in [Writers -> 0 .. NIdx + 1] /\ dumped' = dumped \ {w}
                          /\ at'[w] = 0 /\ \A v \in Writers \ {w} : at'[v] = at[v]
         /\ Replace(w) /\ at[w] \in Specs =>
              /\ at' \in [Writers -> 0 .. NIdx + 1] /\ dumped' = dumped \ {w}
              /\ at'[w] = at[w] + 1 /\ \A v \in Writers \ {w} : at'[v] = at[v]
<1>1. 1 \in 0 .. NIdx + 1 /\ 0 \in 0 .. NIdx + 1 /\ \A k \in Specs : k + 1 \in 0 .. NIdx + 1
  BY NIdxAssumption DEF Specs
<1>2. ASSUME NEW n \in 0 .. NIdx + 1, at' = [at EXCEPT ![w] = n]
      PROVE  /\ at' \in [Writers -> 0 .. NIdx + 1]
             /\ at'[w] = n /\ \A v \in Writers \ {w} : at'[v] = at[v]
  BY <1>2 DEF TypeInv
<1>3. StartSave(w) => at' = [at EXCEPT ![w] = 1] /\ dumped' = dumped
  BY DEF StartSave
<1>4. EndSave(w) => at' = [at EXCEPT ![w] = 0] /\ dumped' = dumped \ {w}
  BY DEF EndSave
<1>5. Replace(w) => at' = [at EXCEPT ![w] = at[w] + 1] /\ dumped' = dumped \ {w}
  BY DEF Replace
<1> QED BY <1>1, <1>2, <1>3, <1>4, <1>5

\* What commit() and a replay find in the file
LEMMA FileRead ==
  ASSUME TypeInv, NEW x \in Txns, Begin(x)
  PROVE  /\ Deduped(wal[x]) \in Seq(Entry)
         /\ Distinct(Deduped(wal[x]))
         /\ Intended(wal[x]) \in SUBSET Entry
         /\ \A e \in Intended(wal[x]) : \E n \in DOMAIN Deduped(wal[x]) : Deduped(wal[x])[n] = e
<1>1. wal[x] \in Seq(Entry)
  BY DEF TypeInv, Begin, IsFile
<1>2. Intended(wal[x]) \in SUBSET Entry
  BY <1>1 DEF Intended
<1> QED BY <1>1, <1>2, DedupedIsIntended DEF Distinct

-----------------------------------------------------------------------------
(* The invariant is kept, part by part *)

\* The types
LEMMA TypeKept ==
  ASSUME IInv, Next
  PROVE  TypeInv'
<1> USE DEF IInv, CommitInv, store, saves, progress
<1>1. ASSUME NEW x \in Txns, NEW e \in Entry, Buffer(x, e) PROVE TypeInv'
  BY <1>1 DEF Buffer, Counted, TypeInv
<1>2. ASSUME NEW x \in Txns, BufferFails(x) \/ Rollback(x) \/ Discard(x) \/ Finish(x)
      PROVE  TypeInv'
  BY <1>2 DEF BufferFails, Rollback, Discard, Finish, Counted, TypeInv
<1>3. ASSUME NEW x \in Txns, Commit(x) \/ Replay(x) PROVE TypeInv'
  <2>1. Begin(x)
    BY <1>3 DEF Commit, Replay
  <2>2. todo' \in [Txns -> Seq(Entry)] /\ owes' \in [Txns -> SUBSET Entry]
    BY <2>1, FileRead DEF Begin, TypeInv
  <2> QED BY <2>1, <2>2 DEF Begin, TypeInv
<1>4. ASSUME NEW x \in Txns, ReadOld(x) PROVE TypeInv'
  <2>1. Current(x).id \in Ids
    BY <1>4, CurrentEntry, EntryFields DEF ReadOld
  <2>2. docs[Current(x).id] \in Values /\ NoDoc \in Values
    BY <2>1 DEF TypeInv, Values
  <2>3. old' \in [Txns -> Values]
    BY <1>4, <2>2 DEF ReadOld, TypeInv
  <2> QED BY <1>4, <2>3 DEF ReadOld, TypeInv
<1>5. ASSUME NEW x \in Txns, AppendEntry(x) PROVE TypeInv'
  <2>1. todo[x] # <<>>
    BY <1>5 DEF AppendEntry, AtAppend, TxnInv
  <2>2. Current(x) \in Entry /\ Current(x).id \in Ids /\ Current(x).doc \in Values
    BY <2>1, CurrentEntry, EntryFields
  <2>3. docs' \in [Ids -> Values] /\ stale' \in SUBSET Ids
    BY <1>5, <2>2 DEF AppendEntry, Put, TypeInv
  <2>4. owes' \in [Txns -> SUBSET Entry]
    BY <1>5, <2>2 DEF AppendEntry, TypeInv
  <2>5. call' \in Calls
    <3> DEFINE ids == IF call.op = "compact" THEN call.since \cup {Current(x).id} ELSE call.since
    <3>1. call' = [call EXCEPT !.since = ids]
      BY <1>5 DEF AppendEntry
    <3>2. ids \in SUBSET Ids
      BY <2>2 DEF TypeInv, Calls
    <3> QED BY <3>1, <3>2, EditCall DEF TypeInv
  <2> QED BY <1>5, <2>3, <2>4, <2>5 DEF AppendEntry, Put, TypeInv
<1>6. ASSUME NEW x \in Txns, pc[x] # "open", todo[x] # <<>>,
             AppendEntryFails(x) \/ IndexEntry(x) \/ IndexEntryFails(x) \/ EntrySaved(x)
               \/ SaveEntryFails(x)
      PROVE  TypeInv'
  <2>1. NextEntry(x) => /\ pc' \in [Txns -> {"open", "next", "append", "index", "save"}]
                        /\ todo' \in [Txns -> Seq(Entry)] /\ old' \in [Txns -> Values]
    BY <1>6, NextEntryLeaves
  <2>2. GiveUpEntry(x) => /\ pc' \in [Txns -> {"open", "next", "append", "index", "save"}]
                          /\ todo' \in [Txns -> Seq(Entry)] /\ old' \in [Txns -> Values]
                          /\ owes' \in [Txns -> SUBSET Entry]
    <3>1. NoDoc \in Values
      BY DEF Values
    <3>2. GiveUpEntry(x) => owes' \in [Txns -> SUBSET Entry]
      BY DEF GiveUpEntry, TypeInv
    <3>3. <<>> \in Seq(Entry)
      OBVIOUS
    <3>4. CASE phase = "up"
      BY <3>1, <3>2, <3>3, <3>4 DEF GiveUpEntry, TypeInv
    <3>5. CASE phase # "up"
      BY <2>1, <3>2, <3>5 DEF GiveUpEntry
    <3> QED BY <3>4, <3>5
  <2>3. x \in Writers /\ x # Single
    BY SingleAssumption DEF Writers
  <2>4. IndexEntry(x) \/ IndexEntryFails(x) =>
          /\ mem' \in [Specs -> Postings] /\ stale' \subseteq Ids /\ clash' \subseteq Writers
    BY <2>3, EntryReindexed, ChangeKeys DEF IndexEntry, IndexEntryFails, Indexing
  <2>5. CASE AppendEntryFails(x)
    BY <2>2, <2>5 DEF AppendEntryFails, TypeInv
  <2>6. CASE IndexEntry(x)
    <3>1. pc' \in [Txns -> {"open", "next", "append", "index", "save"}]
      BY <2>6 DEF IndexEntry, TypeInv
    <3>2. at' \in [Writers -> 0 .. NIdx + 1] /\ dumped' = dumped
      BY <2>3, <2>6, SaveMoves DEF IndexEntry
    <3> QED BY <2>4, <2>6, <3>1, <3>2 DEF IndexEntry, TypeInv
  <2>7. CASE IndexEntryFails(x)
    BY <2>2, <2>4, <2>7 DEF IndexEntryFails, TypeInv
  <2>8. CASE EntrySaved(x)
    <3>1. at' \in [Writers -> 0 .. NIdx + 1] /\ dumped' = dumped \ {x}
      BY <2>3, <2>8, SaveMoves DEF EntrySaved
    <3> QED BY <2>1, <2>8, <3>1 DEF EntrySaved, TypeInv
  <2>9. CASE SaveEntryFails(x)
    <3>1. at' \in [Writers -> 0 .. NIdx + 1] /\ dumped' = dumped \ {x}
      BY <2>3, <2>9, SaveMoves DEF SaveEntryFails, SaveFails
    <3>2. IdsOf(x) \subseteq Ids
      BY <2>3, <2>9, IdsOfIds DEF SaveEntryFails
    <3>3. clash' \subseteq Writers
      BY <2>9 DEF SaveEntryFails, SaveFails, Sharing, TypeInv
    <3> QED BY <2>2, <2>9, <3>1, <3>2, <3>3 DEF SaveEntryFails, SaveFails, TypeInv
  <2> QED BY <1>6, <2>5, <2>6, <2>7, <2>8, <2>9
<1>7. ASSUME NEW e \in Entry, StartCall(e.op, e.id, e.doc) PROVE TypeInv'
  <2>1. call' \in Calls
    BY <1>7, NoCallType, EntryFields DEF StartCall, Calls
  <2> QED BY <1>7, <2>1 DEF StartCall, Counted, TypeInv
<1>8. CASE ReadCall
  <2>1. docs[call.id] \in Values
    BY <1>8 DEF ReadCall, CallInv, TypeInv
  <2>2. call' \in Calls
    BY <1>8, <2>1, EditCall DEF ReadCall, TypeInv
  <2> QED BY <1>8, <2>2 DEF ReadCall, TypeInv
<1>9. CASE AppendCall
  <2>1. call.id \in Ids /\ call.doc \in Values
    BY <1>9 DEF AppendCall, CallInv, TypeInv, Calls
  <2>2. call' \in Calls
    BY <1>9, EditCall DEF AppendCall, TypeInv
  <2>3. docs' \in [Ids -> Values] /\ stale' \in SUBSET Ids
    BY <1>9, <2>1 DEF AppendCall, Put, TypeInv
  <2>4. owes' \in [Txns -> SUBSET Entry]
    BY <1>9 DEF AppendCall, TypeInv
  <2> QED BY <1>9, <2>2, <2>3, <2>4 DEF AppendCall, Put, TypeInv
<1>10. CASE IndexCall \/ IndexCallFails \/ CompactFills
  <2>1. Single \in Writers
    BY DEF Writers
  <2>2. PICK proper \in [Specs -> Postings] : Indexing(Single) /\ Change(Single, proper)
    BY <1>10, CallReindexed, FilledKeys
    DEF IndexCall, IndexCallFails, CompactFills, Indexing
  <2>3. mem' \in [Specs -> Postings] /\ stale' \subseteq Ids /\ clash' \subseteq Writers
    BY <2>1, <2>2, ChangeKeys
  <2>4. IndexCall \/ CompactFills => at' \in [Writers -> 0 .. NIdx + 1] /\ dumped' = dumped
    BY <2>1, SaveMoves DEF IndexCall, CompactFills
  <2>5. call' \in Calls
    BY <1>10, EditCall, NoCallType DEF IndexCall, IndexCallFails, CompactFills, TypeInv
  <2> QED BY <1>10, <2>3, <2>4, <2>5 DEF IndexCall, IndexCallFails, CompactFills, TypeInv
<1>11. CASE CompactScan
  <2>1. call' \in Calls
    BY <1>11, NoCallType DEF CompactScan, Calls, TypeInv
  <2> QED BY <1>11, <2>1 DEF CompactScan, Counted, TypeInv
<1>12. CASE CompactReplace
  <2>1. call' \in Calls /\ call.live \in [Ids -> Values] /\ call.since \in SUBSET Ids
    BY <1>12, EditCall DEF CompactReplace, TypeInv, Calls
  <2>2. owes' \in [Txns -> SUBSET Entry]
    BY <1>12 DEF CompactReplace, TypeInv
  <2> QED BY <1>12, <2>1, <2>2 DEF CompactReplace, TypeInv
<1>13. CASE CallSaved \/ SaveCallFails
  <2>1. Single \in Writers
    BY DEF Writers
  <2>2. EndSave(Single)
    BY <1>13 DEF CallSaved, SaveCallFails, SaveFails
  <2>3. at' \in [Writers -> 0 .. NIdx + 1] /\ dumped' \subseteq Writers
    BY <2>1, <2>2, SaveMoves DEF TypeInv
  <2>4. stale' \subseteq Ids
    BY <1>13, <2>1, IdsOfIds DEF CallSaved, SaveCallFails, SaveFails, TypeInv
  <2>5. clash' \subseteq Writers
    BY <1>13 DEF CallSaved, SaveCallFails, SaveFails, Sharing, TypeInv
  <2> QED BY <1>13, <2>3, <2>4, <2>5, NoCallType DEF CallSaved, SaveCallFails, SaveFails, TypeInv
<1>14. CASE CompactEmpties
  <2>1. call' \in Calls
    BY <1>14, EditCall DEF CompactEmpties, TypeInv
  <2>2. mem' \in [Specs -> Postings]
    BY <1>14 DEF CompactEmpties, NoPostings, Postings
  <2> QED BY <1>14, <2>1, <2>2 DEF CompactEmpties, TypeInv
<1>15. ASSUME NEW w \in Writers, Dump(w) \/ Replace(w) PROVE TypeInv'
  <2>1. CASE Dump(w)
    BY <2>1 DEF Dump, Sharing, TypeInv
  <2>2. CASE Replace(w)
    <3>1. at[w] \in Specs
      BY <2>2 DEF Replace, SaveInv
    <3>2. at' \in [Writers -> 0 .. NIdx + 1] /\ dumped' = dumped \ {w}
      BY <2>2, <3>1, SaveMoves
    <3>3. idx' \in [Specs -> Postings \cup {Garbled}]
      BY <2>2, <3>1 DEF Replace, TypeInv
    <3> QED BY <2>2, <3>2, <3>3 DEF Replace, TypeInv
  <2> QED BY <1>15, <2>1, <2>2
<1>16. CASE Crash
  <2>1. <<>> \in Seq(Entry) /\ NoDoc \in Values
    BY DEF Values
  <2>2. mem' \in [Specs -> Postings]
    BY <1>16 DEF Crash, NoPostings, Postings
  <2>3. /\ pc' \in [Txns -> {"open", "next", "append", "index", "save"}]
        /\ todo' \in [Txns -> Seq(Entry)] /\ old' \in [Txns -> Values]
    BY <1>16, <2>1 DEF Crash
  <2>4. at' \in [Writers -> 0 .. NIdx + 1] /\ dumped' = {} /\ clash' = {}
    BY <1>16, NIdxAssumption DEF Crash
  <2>5. stale' \subseteq Ids
    <3>1. \A w \in Writers : at[w] # 0 => IdsOf(w) \subseteq Ids
      BY IdsOfIds DEF SaveInv, Writers
    <3> QED BY <1>16, <3>1 DEF Crash, CutOff, TypeInv
  <2> QED BY <1>16, <2>2, <2>3, <2>4, <2>5, NoCallType DEF Crash, TypeInv
<1>17. CASE Open \/ Recovered
  BY <1>17 DEF Open, Recovered, TypeInv
<1>18. ASSUME NEW x \in Txns,
              AppendEntryFails(x) \/ IndexEntry(x) \/ IndexEntryFails(x) \/ EntrySaved(x)
                \/ SaveEntryFails(x)
       PROVE  pc[x] # "open" /\ todo[x] # <<>>
  BY <1>18 DEF AppendEntryFails, IndexEntry, IndexEntryFails, EntrySaved, SaveEntryFails,
               AtAppend, TxnInv
<1> QED BY <1>1, <1>2, <1>3, <1>4, <1>5, <1>6, <1>7, <1>8, <1>9, <1>10, <1>11, <1>12,
           <1>13, <1>14, <1>15, <1>16, <1>17, <1>18 DEF Next, TxnNext, CallNext

\* Where the commits and the replays are
LEMMA TxnKept ==
  ASSUME IInv, Next
  PROVE  TxnInv'
<1> USE FileAssumption DEF IInv, CommitInv, store, saves, progress, TypeInv, TxnInv, IsFile, Current
<1>1. ASSUME NEW x \in Txns, NEW e \in Entry, Buffer(x, e) PROVE TxnInv'
  BY <1>1 DEF Buffer
<1>2. ASSUME NEW x \in Txns, BufferFails(x) \/ Rollback(x) \/ Discard(x) \/ Finish(x)
      PROVE  TxnInv'
  BY <1>2 DEF BufferFails, Rollback, Discard, Idle, Finish
<1>3. ASSUME NEW x \in Txns, Commit(x) \/ Replay(x) PROVE TxnInv'
  BY <1>3 DEF Commit, Replay, Begin, Idle
<1>4. ASSUME NEW x \in Txns, ReadOld(x) PROVE TxnInv'
  BY <1>4 DEF ReadOld
<1>5. ASSUME NEW x \in Txns, AppendEntry(x) PROVE TxnInv'
  BY <1>5 DEF AppendEntry, AtAppend, Put
<1>6. ASSUME NEW x \in Txns,
             AppendEntryFails(x) \/ IndexEntryFails(x) \/ EntrySaved(x) \/ SaveEntryFails(x)
      PROVE  TxnInv'
  <2>1. todo[x] # <<>> /\ pc[x] # "open" /\ wal' = wal
    BY <1>6 DEF AppendEntryFails, IndexEntryFails, EntrySaved, SaveEntryFails, AtAppend
  <2>2. CASE NextEntry(x)
    <3>1. /\ pc'[x] = "next" /\ old'[x] = NoDoc
          /\ \A y \in Txns \ {x} : /\ pc'[y] = pc[y] /\ todo'[y] = todo[y] /\ old'[y] = old[y]
                                   /\ Current(y)' = Current(y)
      BY <2>1, <2>2, NextEntryLeaves
    <3> QED BY <2>1, <3>1
  <2>3. CASE phase = "up" /\ GiveUpEntry(x)
    <3>1. /\ pc'[x] = "open" /\ todo'[x] = <<>> /\ old'[x] = NoDoc
          /\ \A y \in Txns \ {x} : pc'[y] = pc[y] /\ todo'[y] = todo[y] /\ old'[y] = old[y]
      BY <2>3 DEF GiveUpEntry
    <3> QED BY <2>1, <3>1
  <2> QED BY <1>6, <2>2, <2>3
          DEF AppendEntryFails, IndexEntryFails, EntrySaved, SaveEntryFails, GiveUpEntry
<1>7. ASSUME NEW x \in Txns, IndexEntry(x) PROVE TxnInv'
  BY <1>7 DEF IndexEntry
<1>8. CASE CallNext
  BY <1>8 DEF CallNext, StartCall, ReadCall, AppendCall, IndexCall, IndexCallFails, CallSaved,
              SaveCallFails, CompactScan, CompactReplace, CompactEmpties, CompactFills
<1>9. ASSUME NEW w \in Writers, Dump(w) \/ Replace(w) PROVE TxnInv'
  BY <1>9 DEF Dump, Replace
<1>10. CASE Crash
  BY <1>10 DEF Crash
<1>11. CASE Open \/ Recovered
  BY <1>11 DEF Open, Recovered
<1> QED BY <1>1, <1>2, <1>3, <1>4, <1>5, <1>6, <1>7, <1>8, <1>9, <1>10, <1>11 DEF Next, TxnNext

\* A transaction's step leaves the call alone, but that a compaction learns what
\* it wrote.
LEMMA TxnLeavesCall ==
  ASSUME TypeInv, NEW x \in Txns, TxnNext(x)
  PROVE  /\ call.op # "compact" => call' = call
         /\ \A f \in {"pc", "op", "id", "doc", "old", "live"} : call'[f] = call[f]
         /\ call.since \subseteq call'.since
<1>1. CASE AppendEntry(x)
  <2>1. call' = [call EXCEPT !.since = IF call.op = "compact" THEN @ \cup {Current(x).id} ELSE @]
    BY <1>1 DEF AppendEntry
  <2> QED BY <2>1, EditCall DEF TypeInv, Calls
<1>2. CASE call' = call
  BY <1>2
<1> QED BY <1>1, <1>2 DEF TxnNext, Buffer, BufferFails, Rollback, Commit, Replay, Begin, Discard,
           ReadOld, AppendEntryFails, IndexEntry, IndexEntryFails, EntrySaved, SaveEntryFails,
           Finish

\* The process is not going down or up in a transaction's step.
LEMMA TxnLeavesPhase ==
  ASSUME NEW x \in Txns, TxnNext(x)
  PROVE  phase' = phase
BY DEF TxnNext, Buffer, BufferFails, Rollback, Commit, Replay, Begin, Discard, ReadOld,
       AppendEntry, AppendEntryFails, IndexEntry, IndexEntryFails, EntrySaved, SaveEntryFails,
       Finish

\* No step makes a posting surely right again.
LEMMA StaleGrows ==
  ASSUME TypeInv, Next
  PROVE  stale \subseteq stale'
<1> USE DEF store, saves, progress
<1>1. ASSUME NEW x \in Txns, TxnNext(x) PROVE stale \subseteq stale'
  BY <1>1 DEF TxnNext, Buffer, BufferFails, Rollback, Commit, Replay, Begin, Discard, ReadOld,
       AppendEntry, Put, AppendEntryFails, IndexEntry, IndexEntryFails, Change, EntrySaved,
       SaveEntryFails, SaveFails, Finish
<1>2. CASE CallNext
  BY <1>2 DEF CallNext, StartCall, ReadCall, AppendCall, Put, IndexCall, IndexCallFails, Change,
       CallSaved, SaveCallFails, SaveFails, CompactScan, CompactReplace, CompactEmpties,
       CompactFills
<1>3. ASSUME NEW w \in Writers, Dump(w) \/ Replace(w) PROVE stale \subseteq stale'
  BY <1>3 DEF Dump, Replace
<1>4. CASE Crash \/ Open \/ Recovered
  BY <1>4 DEF Crash, Open, Recovered, TypeInv
<1> QED BY <1>1, <1>2, <1>3, <1>4 DEF Next

\* A call and a save are under way only while the process is up, or recovering.
LEMMA DownStill ==
  ASSUME IInv, phase = "down"
  PROVE  /\ \A x \in Txns : pc[x] = "open"
         /\ call = NoCall
         /\ \A w \in Writers : at[w] = 0
         /\ \A x \in Txns : ~TxnNext(x)
         /\ ~CallNext
         /\ \A w \in Writers : ~(Dump(w) \/ Replace(w))
<1> USE DEF IInv, CommitInv
<1>1. (\A x \in Txns : pc[x] = "open") /\ call = NoCall /\ call.pc = "none"
  BY DEF DownInv, Idle, CallInv, NoCall
<1>2. \A w \in Writers : at[w] = 0
  BY <1>1 DEF SaveInv, Writers
<1>3. ASSUME NEW x \in Txns PROVE ~TxnNext(x)
  BY <1>1 DEF TxnNext, Buffer, BufferFails, Rollback, Commit, Replay, Discard, ReadOld,
       AtAppend, AppendEntry, AppendEntryFails, IndexEntry, IndexEntryFails, EntrySaved,
       SaveEntryFails, Finish
<1>4. ~CallNext
  BY <1>1 DEF CallNext, StartCall, ReadCall, AppendCall, IndexCall, IndexCallFails, CallSaved,
       SaveCallFails, CompactScan, CompactReplace, CompactEmpties, CompactFills
<1>5. 0 \notin Specs
  BY NIdxAssumption DEF Specs
<1>6. ASSUME NEW w \in Writers PROVE ~(Dump(w) \/ Replace(w))
  BY <1>2, <1>5 DEF Dump, Replace, SaveInv
<1> QED BY <1>1, <1>2, <1>3, <1>4, <1>6

\* The call, and that nothing runs while the process is down
LEMMA CallKept ==
  ASSUME IInv, Next
  PROVE  CallInv' /\ DownInv'
<1> USE DEF IInv, CommitInv, store, saves, progress, TypeInv, CallInv
<1>1. ASSUME NEW x \in Txns, TxnNext(x) PROVE CallInv' /\ DownInv'
  <2>1. phase # "down" /\ phase' = phase
    BY <1>1, DownStill, TxnLeavesPhase
  <2>2. CASE call.op # "compact"
    <3>1. call' = call
      BY <1>1, <2>2, TxnLeavesCall
    <3> QED BY <2>1, <3>1 DEF DownInv
  <2>3. CASE call.op = "compact"
    <3>1. call.pc \notin {"none", "read", "append", "index"}
      BY <2>3 DEF NoCall
    <3>2. call'.pc = call.pc /\ call'.op = call.op
      BY <1>1, TxnLeavesCall
    <3>3. phase = "up"
      BY <2>3 DEF NoCall
    <3> QED BY <2>1, <2>3, <3>1, <3>2, <3>3 DEF DownInv
  <2> QED BY <2>2, <2>3
<1>2. ASSUME NEW e \in Entry, StartCall(e.op, e.id, e.doc) PROVE CallInv' /\ DownInv'
  <2>1. /\ call'.pc = (IF e.op = "insert" THEN "append" ELSE "read")
        /\ call'.op = e.op /\ call'.id = e.id /\ call'.doc = e.doc /\ call'.old = NoDoc
    BY <1>2 DEF StartCall, NoCall
  <2> QED BY <1>2, <2>1, EntryFields DEF StartCall, DownInv
<1>3. CASE ReadCall
  <2>1. /\ call'.pc = "append" /\ call'.op = call.op /\ call'.id = call.id
        /\ call'.doc = call.doc
    BY <1>3 DEF ReadCall, Calls
  <2>2. call.pc = "read" /\ phase' = phase
    BY <1>3 DEF ReadCall
  <2>3. phase = "up"
    BY <2>2 DEF NoCall
  <2> QED BY <2>1, <2>2, <2>3 DEF DownInv
<1>4. CASE AppendCall \/ IndexCall \/ CompactReplace \/ CompactEmpties \/ CompactFills
  <2>1. /\ call'.pc = CASE call.pc = "append"  -> "index"
                        [] call.pc = "replace" -> "rebuild"
                        [] call.pc = "rebuild" -> "fill"
                        [] OTHER               -> "save"
        /\ call'.op = call.op /\ call'.id = call.id /\ call'.doc = call.doc
        /\ call'.old = call.old
    BY <1>4 DEF AppendCall, IndexCall, CompactReplace, CompactEmpties, CompactFills, Calls
  <2>2. /\ call.pc \in {"append", "index", "replace", "rebuild", "fill"}
        /\ phase' = phase
    BY <1>4 DEF AppendCall, IndexCall, CompactReplace, CompactEmpties, CompactFills
  <2>3. phase = "up"
    BY <2>2 DEF NoCall
  <2>4. CallInv'
    BY <2>1, <2>2, <2>3
  <2> QED BY <2>2, <2>3, <2>4 DEF DownInv
<1>5. CASE CompactScan
  BY <1>5 DEF CompactScan, NoCall, DownInv
<1>6. CASE IndexCallFails \/ CallSaved \/ SaveCallFails
  <2>1. call' = NoCall /\ phase' = phase /\ phase = "up"
    BY <1>6 DEF IndexCallFails, CallSaved, SaveCallFails, NoCall
  <2> QED BY <2>1 DEF NoCall, DownInv
<1>7. CASE Crash
  <2>1. CallInv'
    BY <1>7 DEF Crash, NoCall
  <2>2. Idle' /\ idx' = idx /\ ((\E k \in Specs : idx[k] = Garbled) => stale' = Ids)
    BY <1>7 DEF Crash, Idle
  <2> QED BY <2>1, <2>2 DEF DownInv
<1>8. ASSUME NEW w \in Writers, Dump(w) \/ Replace(w) PROVE CallInv' /\ DownInv'
  <2>1. phase # "down" /\ phase' = phase /\ call' = call
    BY <1>8, DownStill DEF Dump, Replace
  <2> QED BY <2>1 DEF DownInv
<1>9. CASE Open \/ Recovered
  BY <1>9 DEF Open, Recovered, NoCall, DownInv
<1> QED BY <1>1, <1>2, <1>3, <1>4, <1>5, <1>6, <1>7, <1>8, <1>9 DEF Next, CallNext

\* Where the saves are
LEMMA SaveKept ==
  ASSUME IInv, Next
  PROVE  SaveInv'
<1> USE DEF IInv, CommitInv, store, saves, progress, SaveInv
<1>1. Single \in Writers /\ \A x \in Txns : x \in Writers /\ x # Single
  BY SingleAssumption DEF Writers
<1>2. 0 \notin Specs /\ 1 # 0 /\ \A k \in Specs : k + 1 # 0
  BY NIdxAssumption DEF Specs
<1>3. \A w \in Writers : at[w] = 0 => w \notin dumped
  BY <1>2
<1>4. ASSUME NEW x \in Txns, IndexEntry(x) \/ IndexEntryFails(x) PROVE SaveInv'
  <2>1. pc[x] = "index" /\ at[x] = 0 /\ x \notin dumped /\ dumped' = dumped /\ call' = call
    BY <1>1, <1>3, <1>4 DEF IndexEntry, IndexEntryFails, StartSave
  <2>2. dumped \ {x} \subseteq clash'
    BY <1>1, <1>4, <2>1, EntryReindexed, ChangeKeys DEF IndexEntry, IndexEntryFails, Indexing
  <2>3. CASE IndexEntry(x)
    <3>1. at'[x] = 1 /\ \A v \in Writers \ {x} : at'[v] = at[v]
      BY <1>1, <2>3, SaveMoves DEF IndexEntry
    <3>2. pc'[x] = "save" /\ \A y \in Txns \ {x} : pc'[y] = pc[y]
      BY <2>3 DEF IndexEntry, TypeInv
    <3>3. \A w \in dumped : w \in Writers \ {x}
      BY <2>1 DEF TypeInv
    <3> QED BY <1>1, <1>2, <2>1, <2>2, <3>1, <3>2, <3>3
  <2>4. CASE IndexEntryFails(x)
    <3>1. at' = at /\ pc'[x] # "save" /\ \A y \in Txns \ {x} : pc'[y] = pc[y]
      BY <2>4 DEF IndexEntryFails, GiveUpEntry, NextEntry, TypeInv
    <3> QED BY <1>1, <2>1, <2>2, <3>1
  <2> QED BY <1>4, <2>3, <2>4
<1>5. ASSUME NEW x \in Txns, EntrySaved(x) \/ SaveEntryFails(x) PROVE SaveInv'
  <2>1. /\ at'[x] = 0 /\ dumped' = dumped \ {x}
        /\ \A v \in Writers \ {x} : at'[v] = at[v]
    BY <1>1, <1>5, SaveMoves DEF EntrySaved, SaveEntryFails, SaveFails
  <2>2. call' = call /\ clash \ {x} \subseteq clash'
    BY <1>5 DEF EntrySaved, SaveEntryFails, SaveFails
  <2>3. pc'[x] # "save" /\ \A y \in Txns \ {x} : pc'[y] = pc[y]
    BY <1>5 DEF EntrySaved, SaveEntryFails, GiveUpEntry, NextEntry, TypeInv
  <2>4. \A w \in dumped' : w \in Writers \ {x} /\ w \in dumped
    BY <2>1 DEF TypeInv
  <2> QED BY <1>1, <2>1, <2>2, <2>3, <2>4
<1>6. ASSUME NEW x \in Txns, TxnNext(x),
             ~(IndexEntry(x) \/ IndexEntryFails(x) \/ EntrySaved(x) \/ SaveEntryFails(x))
      PROVE  SaveInv'
  <2>1. at' = at /\ dumped' = dumped /\ clash' = clash
    BY <1>6 DEF TxnNext, Buffer, BufferFails, Rollback, Commit, Replay, Begin, Discard, ReadOld,
         AppendEntry, Put, AppendEntryFails, Finish
  <2>2. \A y \in Txns : pc'[y] = "save" <=> pc[y] = "save"
    <3>1. CASE (\E e \in Entry : Buffer(x, e)) \/ BufferFails(x) \/ Rollback(x) \/ Discard(x)
      BY <3>1 DEF Buffer, BufferFails, Rollback, Discard
    <3>2. CASE Commit(x) \/ Replay(x)
      BY <3>2 DEF Commit, Replay, Begin, Idle, TypeInv
    <3>3. CASE ReadOld(x) \/ AppendEntry(x) \/ Finish(x)
      BY <3>3 DEF ReadOld, AppendEntry, AtAppend, Finish, TypeInv
    <3>4. CASE AppendEntryFails(x)
      BY <3>4 DEF AppendEntryFails, AtAppend, GiveUpEntry, NextEntry, TypeInv
    <3> QED BY <1>6, <3>1, <3>2, <3>3, <3>4 DEF TxnNext
  <2>3. call'.pc = call.pc
    BY <1>6, TxnLeavesCall
  <2> QED BY <1>1, <2>1, <2>2, <2>3
<1>7. CASE IndexCall \/ CompactFills
  <2>1. /\ at'[Single] = 1 /\ dumped' = dumped
        /\ \A v \in Writers \ {Single} : at'[v] = at[v]
    BY <1>1, <1>7, SaveMoves DEF IndexCall, CompactFills
  <2>2. call.pc # "save" /\ call'.pc = "save" /\ pc' = pc
    BY <1>7 DEF IndexCall, CompactFills, TypeInv, Calls
  <2>3. Single \notin dumped
    BY <1>1, <1>3, <2>2
  <2>4. \A w \in dumped : w \in Writers \ {Single}
    BY <2>3 DEF TypeInv
  <2> QED BY <1>1, <1>2, <2>1, <2>2, <2>4
<1>8. CASE CallSaved \/ SaveCallFails
  <2>1. /\ at'[Single] = 0 /\ dumped' = dumped \ {Single}
        /\ \A v \in Writers \ {Single} : at'[v] = at[v]
    BY <1>1, <1>8, SaveMoves DEF CallSaved, SaveCallFails, SaveFails
  <2>2. call'.pc = "none" /\ pc' = pc
    BY <1>8 DEF CallSaved, SaveCallFails, NoCall
  <2>3. \A w \in dumped' : w \in Writers \ {Single} /\ w \in dumped
    BY <2>1 DEF TypeInv
  <2> QED BY <1>1, <2>1, <2>2, <2>3
<1>9. CASE IndexCallFails \/ CompactEmpties
  <2>1. at' = at /\ dumped' = dumped /\ pc' = pc /\ call.pc # "save" /\ call'.pc # "save"
    BY <1>9 DEF IndexCallFails, CompactEmpties, NoCall, TypeInv, Calls
  <2>2. call'.pc = "fill" => dumped \subseteq clash'
    BY <1>9 DEF IndexCallFails, CompactEmpties, NoCall
  <2> QED BY <2>1, <2>2
<1>10. CASE (\E e \in Entry : StartCall(e.op, e.id, e.doc)) \/ ReadCall \/ AppendCall
              \/ CompactScan \/ CompactReplace
  <2>1. at' = at /\ dumped' = dumped /\ pc' = pc
    BY <1>10 DEF StartCall, ReadCall, AppendCall, Put, CompactScan, CompactReplace
  <2>2. call.pc # "save" /\ call'.pc \notin {"save", "fill"}
    <3>1. CASE \E e \in Entry : StartCall(e.op, e.id, e.doc)
      BY <3>1 DEF StartCall, NoCall
    <3>2. CASE ReadCall \/ AppendCall \/ CompactReplace
      BY <3>2 DEF ReadCall, AppendCall, CompactReplace, TypeInv, Calls
    <3>3. CASE CompactScan
      BY <3>3 DEF CompactScan, NoCall
    <3> QED BY <1>10, <3>1, <3>2, <3>3
  <2> QED BY <2>1, <2>2
<1>11. ASSUME NEW w \in Writers, Dump(w) PROVE SaveInv'
  <2>1. at' = at /\ pc' = pc /\ call' = call /\ at[w] \in Specs /\ dumped' = dumped \cup {w}
    BY <1>11 DEF Dump
  <2>2. call.pc = "fill" => w \in clash' /\ clash \subseteq clash'
    BY <1>11 DEF Dump
  <2> QED BY <2>1, <2>2
<1>12. ASSUME NEW w \in Writers, Replace(w) PROVE SaveInv'
  <2>1. at[w] \in Specs
    BY <1>12 DEF Replace
  <2>2. /\ at'[w] = at[w] + 1 /\ dumped' = dumped \ {w}
        /\ \A v \in Writers \ {w} : at'[v] = at[v]
    BY <1>12, <2>1, SaveMoves
  <2>3. pc' = pc /\ call' = call /\ clash' = clash \ {w}
    BY <1>12 DEF Replace
  <2>4. at[w] # 0 /\ at'[w] # 0
    BY <1>2, <2>1, <2>2
  <2>5. \A v \in Writers : at'[v] = 0 <=> at[v] = 0
    BY <2>2, <2>4
  <2>6. \A v \in dumped' : v \in Writers \ {w} /\ v \in dumped
    BY <2>2 DEF TypeInv
  <2> QED BY <1>1, <2>2, <2>3, <2>5, <2>6
<1>13. CASE Crash
  BY <1>1, <1>13 DEF Crash, NoCall
<1>14. CASE Open \/ Recovered
  BY <1>14 DEF Open, Recovered
<1> QED BY <1>4, <1>5, <1>6, <1>7, <1>8, <1>9, <1>10, <1>11, <1>12, <1>13, <1>14
        DEF Next, CallNext

\* The documents of a compaction
LEMMA LiveKept ==
  ASSUME IInv, Next
  PROVE  LiveInv'
<1> USE DEF IInv, CommitInv, store, saves, progress, TypeInv, CallInv, LiveInv
<1>0. stale \subseteq stale'
  BY StaleGrows
<1>1. ASSUME NEW x \in Txns, TxnNext(x) PROVE LiveInv'
  <2>1. /\ call'.op = call.op /\ call'.live = call.live /\ call'.pc = call.pc
        /\ call.since \subseteq call'.since
    BY <1>1, TxnLeavesCall
  <2>2. CASE AppendEntry(x)
    <3>1. call.op = "compact" => call'.since = call.since \cup {Current(x).id}
      BY <2>2 DEF AppendEntry, Calls
    <3>2. /\ \A id \in Ids : id # Current(x).id => docs'[id] = docs[id]
          /\ call.pc \in {"rebuild", "fill"} => Current(x).id \in stale'
      BY <2>2 DEF AppendEntry, Put
    <3> QED BY <1>0, <2>1, <3>1, <3>2
  <2>3. CASE docs' = docs /\ call' = call
    BY <1>0, <2>1, <2>3
  <2> QED BY <1>1, <2>2, <2>3
          DEF TxnNext, Buffer, BufferFails, Rollback, Commit, Replay, Begin, Discard, ReadOld,
              AppendEntryFails, IndexEntry, IndexEntryFails, EntrySaved, SaveEntryFails,
              SaveFails, Finish
<1>2. ASSUME NEW e \in Entry, StartCall(e.op, e.id, e.doc) PROVE LiveInv'
  <2>1. call'.op = e.op
    BY <1>2 DEF StartCall, NoCall
  <2> QED BY <2>1, EntryFields
<1>3. CASE ReadCall \/ AppendCall \/ IndexCall
  BY <1>3 DEF ReadCall, AppendCall, IndexCall, Calls
<1>4. CASE CompactScan
  BY <1>4 DEF CompactScan, NoCall
<1>5. CASE CompactReplace
  BY <1>5 DEF CompactReplace, Calls
<1>6. CASE CompactEmpties \/ CompactFills
  <2>1. /\ call'.op = call.op /\ call'.live = call.live /\ call'.since = call.since
        /\ call.pc \in {"rebuild", "fill"} /\ docs' = docs
    BY <1>6 DEF CompactEmpties, CompactFills, Calls
  <2> QED BY <1>0, <2>1
<1>7. CASE IndexCallFails \/ CallSaved \/ SaveCallFails \/ Crash
  BY <1>7 DEF IndexCallFails, CallSaved, SaveCallFails, Crash, NoCall
<1>8. ASSUME NEW w \in Writers, Dump(w) \/ Replace(w) PROVE LiveInv'
  BY <1>8 DEF Dump, Replace
<1>9. CASE Open \/ Recovered
  BY <1>9 DEF Open, Recovered
<1> QED BY <1>1, <1>2, <1>3, <1>4, <1>5, <1>6, <1>7, <1>8, <1>9 DEF Next, CallNext

\* What is owed stays so in a step that does not touch the transaction, and
\* overwrites no document that is still owed.
LEMMA StaysOwed ==
  ASSUME NEW x \in Txns, OwedBy(x), pc'[x] = pc[x], todo'[x] = todo[x],
         \A e \in owes'[x] : e \in owes[x] /\ docs'[e.id] = docs[e.id],
         (phase' = "up" \/ ~IsFile(x)') => (phase = "up" \/ ~IsFile(x))
  PROVE  OwedBy(x)'
<1>1. Waiting(x)' = Waiting(x)
  BY DEF Waiting
<1>2. \A e \in owes'[x] : Holding(e) => Holding(e)'
  BY DEF Holding
<1> QED BY <1>1, <1>2 DEF OwedBy

\* What the transactions owe
LEMMA OwesKept ==
  ASSUME IInv, Next
  PROVE  OwesInv'
<1> USE DEF IInv, CommitInv, store, saves, progress, OwesInv
<1>1. ASSUME NEW x \in Txns,
             (\E e \in Entry : Buffer(x, e)) \/ BufferFails(x) \/ Rollback(x) \/ Discard(x)
      PROVE  OwesInv'
  <2>1. pc' = pc /\ todo' = todo /\ owes' = owes /\ docs' = docs
    BY <1>1 DEF Buffer, BufferFails, Rollback, Discard
  <2>2. ASSUME NEW y \in Txns, phase' = "up" \/ ~IsFile(y)'
        PROVE  phase = "up" \/ ~IsFile(y)
    BY <1>1, <2>2 DEF Buffer, BufferFails, Rollback, Discard, IsFile, TypeInv
  <2> QED BY <2>1, <2>2, StaysOwed
<1>2. ASSUME NEW x \in Txns, Commit(x) \/ Replay(x) PROVE OwesInv'
  <2>1. Begin(x) /\ docs' = docs /\ phase' = phase /\ wal' = wal
    BY <1>2 DEF Commit, Replay, Begin
  <2>2. ASSUME NEW y \in Txns \ {x} PROVE OwedBy(y)'
    <3>1. pc'[y] = pc[y] /\ todo'[y] = todo[y] /\ owes'[y] = owes[y]
      BY <2>1 DEF Begin, TypeInv
    <3> QED BY <2>1, <3>1, StaysOwed DEF IsFile
  <2>3. OwedBy(x)'
    <3> DEFINE s == Deduped(wal[x])
    <3>1. pc'[x] = "next" /\ todo'[x] = s /\ owes'[x] = Intended(wal[x])
      BY <2>1 DEF Begin, TypeInv
    <3>2. /\ s \in Seq(Entry) /\ Distinct(s)
          /\ \A e \in Intended(wal[x]) : \E n \in DOMAIN s : s[n] = e
      BY <2>1, FileRead
    <3> HIDE DEF s
    <3>3. Waiting(x)' = {s[n] : n \in 1 .. Len(s)}
      BY <3>1 DEF Waiting
    <3>4. \A e \in owes'[x] : e \in Waiting(x)'
      BY <3>1, <3>2, <3>3
    <3> QED BY <3>1, <3>2, <3>4 DEF OwedBy
  <2> QED BY <2>2, <2>3
<1>3. ASSUME NEW x \in Txns, ReadOld(x) PROVE OwesInv'
  <2>1. pc[x] = "next" /\ pc'[x] = "append"
    BY <1>3 DEF ReadOld, TypeInv
  <2>2. /\ todo' = todo /\ owes' = owes /\ docs' = docs /\ phase' = phase /\ wal' = wal
        /\ \A y \in Txns \ {x} : pc'[y] = pc[y]
    BY <1>3 DEF ReadOld, TypeInv
  <2>3. ASSUME NEW y \in Txns \ {x} PROVE OwedBy(y)'
    BY <2>2, StaysOwed DEF IsFile
  <2>4. Waiting(x)' = Waiting(x)
    BY <2>1, <2>2 DEF Waiting
  <2>5. OwedBy(x)'
    BY <2>1, <2>2, <2>4 DEF OwedBy, Holding
  <2> QED BY <2>3, <2>5
<1>4. ASSUME NEW x \in Txns, AppendEntry(x) PROVE OwesInv'
  <2> DEFINE e == Current(x)
  <2>1. todo[x] # <<>> /\ pc[x] \notin {"open", "index", "save"}
    BY <1>4 DEF AppendEntry, AtAppend, TxnInv
  <2>2. /\ e \in Entry /\ e.id \in Ids
        /\ Waiting(x) = Rest(x) \cup {e}
        /\ \A f \in Rest(x) : f.id # e.id
    BY <2>1, CurrentEntry, EntryFields DEF OwedBy
  <2>3. /\ docs'[e.id] = e.doc
        /\ \A id : id # e.id => docs'[id] = docs[id]
    BY <1>4, <2>2 DEF AppendEntry, Put, TypeInv
  <2>4. /\ todo' = todo /\ phase' = phase /\ wal' = wal
        /\ pc'[x] = "index" /\ owes'[x] = owes[x] \cup {e}
    BY <1>4 DEF AppendEntry, TypeInv
  <2>5. ASSUME NEW y \in Txns \ {x} PROVE OwedBy(y)'
    <3>1. pc'[y] = pc[y] /\ owes'[y] = {f \in owes[y] : f.id # e.id}
      BY <1>4 DEF AppendEntry, TypeInv
    <3> QED BY <2>3, <2>4, <3>1, StaysOwed DEF IsFile
  <2>6. Waiting(x)' = Rest(x)
    BY <2>4 DEF Waiting, Rest
  <2> HIDE DEF e
  <2>7. ASSUME NEW f \in owes'[x]
        PROVE  f \in Waiting(x)' \/ (Holding(f)' /\ \A g \in Waiting(x)' : g.id # f.id)
    <3>1. CASE f = e
      BY <2>2, <2>3, <2>6, <3>1 DEF Holding
    <3>2. CASE f \in owes[x] /\ f # e
      <4>1. f \in Waiting(x) \/ (Holding(f) /\ \A g \in Waiting(x) : g.id # f.id)
        BY <2>1, <3>2 DEF OwedBy
      <4> QED BY <2>2, <2>3, <2>6, <3>2, <4>1 DEF Holding
    <3> QED BY <2>4, <3>1, <3>2
  <2>8. OwedBy(x)'
    BY <2>4, <2>7 DEF OwedBy
  <2> QED BY <2>5, <2>8
<1>5. ASSUME NEW x \in Txns,
             AppendEntryFails(x) \/ IndexEntryFails(x) \/ EntrySaved(x) \/ SaveEntryFails(x)
      PROVE  OwesInv'
  <2> DEFINE e == Current(x)
  <2>1. todo[x] # <<>> /\ pc[x] # "open"
    BY <1>5 DEF AppendEntryFails, IndexEntryFails, EntrySaved, SaveEntryFails, AtAppend, TxnInv
  <2>2. docs' = docs /\ phase' = phase /\ wal' = wal
    BY <1>5 DEF AppendEntryFails, IndexEntryFails, EntrySaved, SaveEntryFails, SaveFails
  <2>3. CASE NextEntry(x) /\ owes' \in {owes, [owes EXCEPT ![x] = @ \ {e}]}
             /\ (pc[x] \notin {"index", "save"} => owes' # owes \/ e \notin owes[x])
    <3>1. /\ pc'[x] = "next" /\ Waiting(x)' = Rest(x) /\ Distinct(todo'[x])
          /\ \A y \in Txns \ {x} : pc'[y] = pc[y] /\ todo'[y] = todo[y]
      BY <2>1, <2>3, NextEntryLeaves DEF OwedBy
    <3>2. \A y \in Txns \ {x} : owes'[y] = owes[y]
      BY <2>3 DEF TypeInv
    <3>3. ASSUME NEW y \in Txns \ {x} PROVE OwedBy(y)'
      BY <2>2, <3>1, <3>2, StaysOwed DEF IsFile
    <3>4. Waiting(x) \in {Rest(x), Rest(x) \cup {e}} /\ (pc[x] \in {"index", "save"} => Waiting(x) = Rest(x))
      BY <2>1, CurrentEntry
    <3>5. owes'[x] \subseteq owes[x] /\ (pc[x] \in {"index", "save"} \/ e \notin owes'[x])
      BY <2>3 DEF TypeInv
    <3> HIDE DEF e
    <3>6. ASSUME NEW f \in owes'[x]
          PROVE  f \in Rest(x) \/ (Holding(f) /\ \A g \in Rest(x) : g.id # f.id)
      <4>1. f \in Waiting(x) \/ (Holding(f) /\ \A g \in Waiting(x) : g.id # f.id)
        BY <2>1, <3>5 DEF OwedBy
      <4> QED BY <3>4, <3>5, <4>1
    <3>7. OwedBy(x)'
      BY <2>2, <3>1, <3>6 DEF OwedBy, Holding
    <3> QED BY <3>3, <3>7
  <2>4. CASE phase = "up" /\ GiveUpEntry(x)
    <3>1. pc'[x] = "open" /\ todo'[x] = <<>> /\ owes'[x] = {}
      BY <2>4 DEF GiveUpEntry, TypeInv
    <3>2. OwedBy(x)'
      BY <3>1 DEF OwedBy, Distinct
    <3>3. ASSUME NEW y \in Txns \ {x} PROVE OwedBy(y)'
      <4>1. pc'[y] = pc[y] /\ todo'[y] = todo[y] /\ owes'[y] = owes[y]
        BY <2>4 DEF GiveUpEntry, TypeInv
      <4> QED BY <2>2, <4>1, StaysOwed DEF IsFile
    <3> QED BY <3>2, <3>3
  <2>5. CASE phase # "up" /\ GiveUpEntry(x)
    <3>1. NextEntry(x) /\ owes' = [owes EXCEPT ![x] = @ \ {e}]
      BY <2>5 DEF GiveUpEntry
    <3>2. owes' = owes => e \notin owes[x]
      BY <3>1 DEF TypeInv
    <3> QED BY <2>3, <3>1, <3>2
  <2>6. CASE EntrySaved(x)
    BY <2>3, <2>6 DEF EntrySaved
  <2> QED BY <1>5, <2>4, <2>5, <2>6 DEF AppendEntryFails, IndexEntryFails, SaveEntryFails
<1>6. ASSUME NEW x \in Txns, Finish(x) PROVE OwesInv'
  <2>1. /\ pc[x] = "next" /\ todo[x] = <<>> /\ pc'[x] = "open"
        /\ todo' = todo /\ owes' = owes /\ docs' = docs /\ phase' = phase
        /\ \A y \in Txns \ {x} : pc'[y] = pc[y] /\ wal'[y] = wal[y]
    BY <1>6 DEF Finish, TypeInv
  <2>2. ASSUME NEW y \in Txns \ {x} PROVE OwedBy(y)'
    BY <2>1, StaysOwed DEF IsFile
  <2>3. Waiting(x) = {}
    BY <2>1 DEF Waiting
  <2>4. OwedBy(x)'
    BY <2>1, <2>3 DEF OwedBy, Holding
  <2> QED BY <2>2, <2>4
<1>7. CASE AppendCall
  <2>1. /\ pc' = pc /\ todo' = todo /\ phase' = phase /\ wal' = wal
        /\ \A x \in Txns : owes'[x] = {e \in owes[x] : e.id # call.id}
        /\ \A id : id # call.id => docs'[id] = docs[id]
    BY <1>7 DEF AppendCall, Put, TypeInv
  <2> QED BY <2>1, StaysOwed DEF IsFile
<1>8. CASE CompactReplace
  <2>1. call.op = "compact"
    BY <1>8 DEF CompactReplace, CallInv
  <2>2. /\ pc' = pc /\ todo' = todo /\ phase' = phase /\ wal' = wal
        /\ \A x \in Txns : owes'[x] = {e \in owes[x] : e.id \notin call.since}
    BY <1>8 DEF CompactReplace
  <2>3. \A x \in Txns : \A e \in owes[x] : e.id \in Ids
    BY EntryFields DEF TypeInv
  <2>4. \A id \in Ids : id \notin call.since => docs'[id] = docs[id]
    BY <1>8, <2>1 DEF CompactReplace, LiveInv
  <2> QED BY <2>2, <2>3, <2>4, StaysOwed DEF IsFile
<1>9. ASSUME \/ \E e \in Entry : StartCall(e.op, e.id, e.doc)
             \/ ReadCall \/ IndexCall \/ IndexCallFails \/ CallSaved \/ SaveCallFails
             \/ CompactScan \/ CompactEmpties \/ CompactFills
             \/ \E w \in Writers : Dump(w) \/ Replace(w)
      PROVE  OwesInv'
  <2>1. /\ pc' = pc /\ todo' = todo /\ owes' = owes /\ docs' = docs /\ phase' = phase
        /\ wal' = wal
    BY <1>9 DEF StartCall, ReadCall, IndexCall, IndexCallFails, CallSaved, SaveCallFails,
         SaveFails, CompactScan, CompactEmpties, CompactFills, Dump, Replace
  <2> QED BY <2>1, StaysOwed DEF IsFile
<1>12. ASSUME NEW x \in Txns, IndexEntry(x) PROVE OwesInv'
  <2>1. pc[x] = "index" /\ pc'[x] = "save"
    BY <1>12 DEF IndexEntry, TypeInv
  <2>2. /\ todo' = todo /\ owes' = owes /\ docs' = docs /\ phase' = phase /\ wal' = wal
        /\ \A y \in Txns \ {x} : pc'[y] = pc[y]
    BY <1>12 DEF IndexEntry, TypeInv
  <2>3. ASSUME NEW y \in Txns \ {x} PROVE OwedBy(y)'
    BY <2>2, StaysOwed DEF IsFile
  <2>4. Waiting(x)' = Waiting(x)
    BY <2>1, <2>2 DEF Waiting
  <2>5. OwedBy(x)'
    BY <2>1, <2>2, <2>4 DEF OwedBy, Holding
  <2> QED BY <2>3, <2>5
<1>10. CASE Crash
  <2>1. ASSUME NEW x \in Txns PROVE OwedBy(x)'
    <3>1. /\ pc'[x] = "open" /\ todo'[x] = <<>> /\ phase' = "down" /\ docs' = docs
          /\ owes' = owes /\ wal' = wal
      BY <1>10 DEF Crash
    <3>2. ~IsFile(x)' => pc[x] = "open" /\ ~IsFile(x)
      BY <3>1 DEF TxnInv, IsFile
    <3>3. Distinct(todo'[x])
      BY <3>1 DEF Distinct
    <3> QED BY <3>1, <3>2, <3>3 DEF OwedBy, Holding
  <2> QED BY <2>1
<1>11. CASE Open \/ Recovered
  <2>1. pc' = pc /\ todo' = todo /\ owes' = owes /\ docs' = docs /\ wal' = wal
    BY <1>11 DEF Open, Recovered
  <2>2. \A x \in Txns : (phase' = "up" \/ ~IsFile(x)') => ~IsFile(x)
    BY <1>11 DEF Open, Recovered, IsFile
  <2> QED BY <2>1, <2>2, StaysOwed
<1> QED BY <1>1, <1>2, <1>3, <1>4, <1>5, <1>6, <1>7, <1>8, <1>9, <1>10, <1>11, <1>12
        DEF Next, TxnNext, CallNext

\* An index that is exact is near.
LEMMA IndexedIsNear ==
  ASSUME NEW ix, NEW id, NEW before, NEW doc, Indexed(ix, id, before) \/ Indexed(ix, id, doc)
  PROVE  Near(ix, id, before, doc)
BY DEF Indexed, Near

\* A step that leaves the documents and the indexes, and is not at any postings
\* before it or after it, leaves every id right.
LEMMA LeavesRight ==
  ASSUME RightInv, docs' = docs, mem' = mem, stale \subseteq stale',
         \A x \in Txns : pc'[x] = "index" <=> pc[x] = "index",
         \A x \in Txns : pc[x] = "index" => old'[x] = old[x] /\ Current(x)' = Current(x),
         \/ call' = call
         \/ call.pc \notin {"index", "fill"} /\ call'.pc \notin {"index", "fill"},
         phase # "down", phase' # "down"
  PROVE  RightInv'
<1>1. ASSUME NEW id \in Ids \ stale' PROVE Right(id)'
  <2>1. Right(id)
    BY DEF RightInv
  <2>2. \A x \in Txns : AtIndex(x, id)' <=> AtIndex(x, id)
    BY DEF AtIndex
  <2>3. \A x \in Txns : AtIndex(x, id) => old'[x] = old[x] /\ Current(x)' = Current(x)
    BY DEF AtIndex
  <2>4. CallAtIndex(id)' <=> CallAtIndex(id)
    BY DEF CallAtIndex
  <2>5. CallAtIndex(id) => call'.old = call.old /\ call'.doc = call.doc
    BY DEF CallAtIndex
  <2>6. SameKeys(mem', mem, id)
    BY DEF SameKeys
  <2> QED BY <2>1, <2>2, <2>3, <2>4, <2>5, <2>6, StaysRight
<1> QED BY <1>1 DEF RightInv

\* An id that nobody is at is right when the index in memory is.
LEMMA RightAtRest ==
  ASSUME NEW id, \A x \in Txns : ~AtIndex(x, id), ~CallAtIndex(id), Indexed(mem, id, docs[id])
  PROVE  Right(id)
BY DEF Right, Indexed, Within

\* The index in memory
LEMMA RightKept ==
  ASSUME IInv, Next
  PROVE  RightInv'
<1> USE DEF IInv, CommitInv, store, saves, progress
<1>0. stale \subseteq stale'
  BY StaleGrows
<1>1. ASSUME NEW x \in Txns, TxnNext(x),
             ~(AppendEntry(x) \/ IndexEntry(x) \/ IndexEntryFails(x))
      PROVE  RightInv'
  <2>1. docs' = docs /\ mem' = mem /\ call' = call
    BY <1>1 DEF TxnNext, Buffer, BufferFails, Rollback, Discard, Commit, Replay, Begin, ReadOld,
                AppendEntryFails, EntrySaved, SaveEntryFails, SaveFails, Finish
  <2>2. phase # "down" /\ phase' # "down"
    BY <1>1, DownStill, TxnLeavesPhase
  <2>3. pc[x] # "index" /\ pc'[x] # "index"
        /\ \A y \in Txns \ {x} : /\ pc'[y] = pc[y] /\ todo'[y] = todo[y] /\ old'[y] = old[y]
    <3>1. CASE \/ \E e \in Entry : Buffer(x, e)
               \/ BufferFails(x) \/ Rollback(x) \/ Discard(x) \/ Finish(x)
      BY <3>1 DEF Buffer, BufferFails, Rollback, Discard, Idle, Finish, TypeInv
    <3>2. CASE Commit(x) \/ Replay(x) \/ ReadOld(x)
      BY <3>2 DEF Commit, Replay, Begin, Idle, ReadOld, TypeInv
    <3>3. CASE AppendEntryFails(x) \/ EntrySaved(x) \/ SaveEntryFails(x)
      BY <3>3 DEF AppendEntryFails, AtAppend, EntrySaved, SaveEntryFails, GiveUpEntry,
                  NextEntry, TypeInv
    <3> QED BY <1>1, <3>1, <3>2, <3>3 DEF TxnNext
  <2>4. \A y \in Txns \ {x} : Current(y)' = Current(y)
    BY <2>3 DEF Current
  <2> QED BY <1>0, <2>1, <2>2, <2>3, <2>4, LeavesRight
<1>2. ASSUME NEW x \in Txns, AppendEntry(x) PROVE RightInv'
  <2> DEFINE e == Current(x)
  <2>1. todo[x] # <<>> /\ pc[x] # "index" /\ pc[x] # "open" /\ phase # "down"
    BY <1>2 DEF AppendEntry, AtAppend, TxnInv, DownInv, Idle
  <2>2. e.id \in Ids
    BY <2>1, CurrentEntry, EntryFields
  <2>3. /\ phase' = phase /\ mem' = mem /\ todo' = todo /\ old' = old
        /\ pc'[x] = "index" /\ \A y \in Txns \ {x} : pc'[y] = pc[y]
        /\ stale' = IF \/ old[x] # docs[e.id] \/ HalfIndexed(e.id)
                       \/ call.pc \in {"rebuild", "fill"}
                    THEN stale \cup {e.id} ELSE stale
        /\ docs'[e.id] = e.doc /\ \A id \in Ids : id # e.id => docs'[id] = docs[id]
    BY <1>2, <2>2 DEF AppendEntry, Put, TypeInv
  <2>4. \A y \in Txns : Current(y)' = Current(y)
    BY <2>3 DEF Current
  <2>5. \A f \in {"pc", "op", "id", "doc", "old", "live"} : call'[f] = call[f]
    BY <1>2, TxnLeavesCall DEF TxnNext
  <2>6. call'.pc = call.pc /\ call'.id = call.id /\ call'.old = call.old /\ call'.doc = call.doc
    BY <2>5
  <2> HIDE DEF e
  <2>7. ASSUME NEW id \in Ids \ stale', id # e.id PROVE Right(id)'
    <3>1. Right(id)
      BY <1>0, <2>7 DEF RightInv
    <3>2. \A y \in Txns : AtIndex(y, id)' <=> AtIndex(y, id)
      BY <2>1, <2>3, <2>4, <2>7 DEF AtIndex, e
    <3>3. CallAtIndex(id)' <=> CallAtIndex(id)
      BY <2>6 DEF CallAtIndex
    <3>4. SameKeys(mem', mem, id)
      BY <2>3 DEF SameKeys
    <3> QED BY <2>1, <2>3, <2>4, <2>6, <2>7, <3>1, <3>2, <3>3, <3>4, StaysRight
  <2>8. ASSUME NEW id \in Ids \ stale', id = e.id PROVE Right(id)'
    <3>1. id \notin stale /\ old[x] = docs[id] /\ ~HalfIndexed(id) /\ call.pc # "fill"
      BY <2>2, <2>3, <2>8
    <3>2. Indexed(mem, id, docs[id])
      BY <2>1, <3>1 DEF RightInv, Right
    <3>3. AtIndex(x, id)' /\ \A y \in Txns : AtIndex(y, id)' => y = x
      BY <2>3, <2>4, <2>8, <3>1 DEF AtIndex, HalfIndexed, e
    <3>4. ~CallAtIndex(id)'
      BY <2>6, <3>1 DEF CallAtIndex, HalfIndexed
    <3>5. Near(mem, id, old[x], docs'[id])
      BY <3>1, <3>2, IndexedIsNear
    <3>6. HalfIndexed(id)'
      BY <3>3 DEF AtIndex, HalfIndexed
    <3>7. docs'[id] = Current(x)'.doc
      BY <2>3, <2>4, <2>8 DEF e
    <3>8. Near(mem, id, old[x], docs[id])'
      BY <2>3, <3>5
    <3> QED BY <3>3, <3>4, <3>6, <3>7, <3>8 DEF Right
  <2> QED BY <2>7, <2>8 DEF RightInv
<1>3. ASSUME NEW x \in Txns, IndexEntry(x) \/ IndexEntryFails(x) PROVE RightInv'
  <2> DEFINE e == Current(x)
             new == Reindexed(e.op, e.id, old[x], e.doc)
  <2>1. pc[x] = "index" /\ x \in Writers /\ Indexing(x) /\ Change(x, new)
    BY <1>3, SingleAssumption DEF IndexEntry, IndexEntryFails, Indexing, Writers
  <2>2. /\ new \in [Specs -> Postings]
        /\ Near(mem, e.id, old[x], e.doc) => Indexed(new, e.id, e.doc)
        /\ \A id \in Ids : id # e.id => SameKeys(new, mem, id)
    BY <2>1, EntryReindexed
  <2> HIDE DEF new
  <2>3. \A id \in Ids \ stale' : SameKeys(mem', new, id)
    BY <2>1, <2>2, ChangeKeys
  <2>4. phase # "down" /\ phase' = phase
    BY <1>3, DownStill, TxnLeavesPhase DEF TxnNext
  <2>5. docs' = docs /\ call' = call
    BY <1>3 DEF IndexEntry, IndexEntryFails
  <2>6. pc'[x] # "index"
        /\ \A y \in Txns \ {x} : /\ pc'[y] = pc[y] /\ old'[y] = old[y] /\ todo'[y] = todo[y]
    BY <1>3 DEF IndexEntry, IndexEntryFails, GiveUpEntry, NextEntry, TypeInv
  <2>7. \A y \in Txns \ {x} : Current(y)' = Current(y)
    BY <2>6 DEF Current
  <2> HIDE DEF e
  <2>8. ASSUME NEW id \in Ids \ stale', id # e.id PROVE Right(id)'
    <3>1. Right(id) /\ ~AtIndex(x, id) /\ ~AtIndex(x, id)'
      BY <1>0, <2>6, <2>8 DEF RightInv, AtIndex, e
    <3>2. \A y \in Txns \ {x} : AtIndex(y, id)' <=> AtIndex(y, id)
      BY <2>6, <2>7 DEF AtIndex
    <3>3. CallAtIndex(id)' <=> CallAtIndex(id)
      BY <2>5 DEF CallAtIndex
    <3>4. SameKeys(mem', mem, id)
      BY <2>2, <2>3, <2>8 DEF SameKeys
    <3> QED BY <2>4, <2>5, <2>6, <2>7, <3>1, <3>2, <3>3, <3>4, StaysRight
  <2>9. ASSUME NEW id \in Ids \ stale', id = e.id PROVE Right(id)'
    <3>1. Right(id) /\ AtIndex(x, id)
      BY <1>0, <2>1, <2>9 DEF RightInv, AtIndex, e
    <3>2. /\ \A y \in Txns : AtIndex(y, id) => y = x
          /\ ~CallAtIndex(id) /\ docs[id] = e.doc /\ Near(mem, id, old[x], docs[id])
      BY <3>1 DEF Right, e
    <3>3. Indexed(mem', id, docs'[id])
      BY <2>2, <2>3, <2>5, <2>9, <3>2 DEF Indexed, SameKeys
    <3>4. (\A y \in Txns : ~AtIndex(y, id))' /\ ~CallAtIndex(id)'
      BY <2>5, <2>6, <2>7, <3>2 DEF AtIndex, CallAtIndex
    <3>5. Indexed(mem, id, docs[id])'
      BY <3>3
    <3> QED BY <3>4, <3>5 DEF Right, Indexed, Within
  <2> QED BY <2>8, <2>9 DEF RightInv
<1>4. CASE \/ \E e \in Entry : StartCall(e.op, e.id, e.doc)
           \/ ReadCall \/ CallSaved \/ SaveCallFails \/ CompactScan
  <2>1. docs' = docs /\ mem' = mem /\ pc' = pc /\ old' = old /\ todo' = todo /\ phase' = phase
    BY <1>4 DEF StartCall, ReadCall, CallSaved, SaveCallFails, SaveFails, CompactScan
  <2>2. call.pc \notin {"index", "fill"} /\ call'.pc \notin {"index", "fill"}
    <3>1. CASE \E e \in Entry : StartCall(e.op, e.id, e.doc)
      BY <3>1 DEF StartCall, NoCall
    <3>2. CASE ReadCall
      BY <3>2 DEF ReadCall, TypeInv, Calls
    <3>3. CASE CallSaved \/ SaveCallFails
      <4>1. call.pc = "save" /\ call' = NoCall
        BY <3>3 DEF CallSaved, SaveCallFails
      <4> QED BY <4>1 DEF NoCall
    <3>4. CASE CompactScan
      BY <3>4 DEF CompactScan, NoCall
    <3> QED BY <1>4, <3>1, <3>2, <3>3, <3>4
  <2>3. phase # "down"
    <3>1. CASE \E e \in Entry : StartCall(e.op, e.id, e.doc)
      BY <3>1 DEF StartCall
    <3>2. CASE ReadCall \/ CallSaved \/ SaveCallFails \/ CompactScan
      BY <3>2, DownStill DEF CallNext
    <3> QED BY <1>4, <3>1, <3>2
  <2>4. \A x \in Txns : Current(x)' = Current(x)
    BY <2>1 DEF Current
  <2> QED BY <1>0, <2>1, <2>2, <2>3, <2>4, LeavesRight
<1>5. ASSUME NEW w \in Writers, Dump(w) \/ Replace(w) PROVE RightInv'
  <2>1. /\ docs' = docs /\ mem' = mem /\ pc' = pc /\ old' = old /\ todo' = todo
        /\ phase' = phase /\ call' = call
    BY <1>5 DEF Dump, Replace
  <2>2. phase # "down"
    BY <1>5, DownStill
  <2>3. \A x \in Txns : Current(x)' = Current(x)
    BY <2>1 DEF Current
  <2> QED BY <1>0, <2>1, <2>2, <2>3, LeavesRight
<1>6. CASE AppendCall
  <2>1. call.pc = "append" /\ call.id \in Ids /\ phase # "down"
    BY <1>6 DEF AppendCall, CallInv, NoCall
  <2>2. /\ call'.pc = "index" /\ call'.id = call.id /\ call'.old = call.old
        /\ call'.doc = call.doc
    BY <1>6 DEF AppendCall, TypeInv, Calls
  <2>3. /\ phase' = phase /\ mem' = mem /\ todo' = todo /\ old' = old /\ pc' = pc
        /\ stale' = IF call.old # docs[call.id] \/ HalfIndexed(call.id)
                    THEN stale \cup {call.id} ELSE stale
        /\ docs'[call.id] = call.doc /\ \A id \in Ids : id # call.id => docs'[id] = docs[id]
    BY <1>6, <2>1 DEF AppendCall, Put, TypeInv
  <2>4. \A x \in Txns : Current(x)' = Current(x)
    BY <2>3 DEF Current
  <2>5. \A id : \A x \in Txns : AtIndex(x, id)' <=> AtIndex(x, id)
    BY <2>3, <2>4 DEF AtIndex
  <2>6. ASSUME NEW id \in Ids \ stale', id # call.id PROVE Right(id)'
    <3>1. Right(id)
      BY <1>0, <2>6 DEF RightInv
    <3>2. ~CallAtIndex(id)' /\ ~CallAtIndex(id)
      BY <2>2, <2>6 DEF CallAtIndex
    <3>3. SameKeys(mem', mem, id)
      BY <2>3 DEF SameKeys
    <3> QED BY <2>1, <2>2, <2>3, <2>4, <2>5, <2>6, <3>1, <3>2, <3>3, StaysRight
  <2>7. ASSUME NEW id \in Ids \ stale', id = call.id PROVE Right(id)'
    <3>1. id \notin stale /\ call.old = docs[id] /\ ~HalfIndexed(id)
      BY <2>1, <2>3, <2>7
    <3>2. Indexed(mem, id, docs[id])
      BY <2>1, <3>1 DEF RightInv, Right
    <3>3. \A x \in Txns : ~AtIndex(x, id)'
      BY <2>5, <3>1 DEF AtIndex, HalfIndexed
    <3>4. CallAtIndex(id)' /\ HalfIndexed(id)'
      BY <2>2, <2>7 DEF CallAtIndex, HalfIndexed
    <3>5. Near(mem, id, call.old, docs'[id])
      BY <3>1, <3>2, IndexedIsNear
    <3>6. Near(mem, id, call.old, docs[id])'
      BY <2>2, <2>3, <3>5
    <3>7. (docs[id] = call.doc)'
      BY <2>2, <2>3, <2>7
    <3> QED BY <3>3, <3>4, <3>6, <3>7 DEF Right
  <2> QED BY <2>6, <2>7 DEF RightInv
<1>7. CASE call.pc = "index" /\ (IndexCall \/ IndexCallFails)
  <2> DEFINE new == Reindexed(call.op, call.id, call.old, call.doc)
  <2>1. Single \in Writers /\ Indexing(Single) /\ Change(Single, new)
    BY <1>7 DEF IndexCall, IndexCallFails, Indexing, Writers
  <2>2. /\ new \in [Specs -> Postings]
        /\ Near(mem, call.id, call.old, call.doc) => Indexed(new, call.id, call.doc)
        /\ \A id \in Ids : id # call.id => SameKeys(new, mem, id)
    BY <1>7, CallReindexed
  <2> HIDE DEF new
  <2>3. \A id \in Ids \ stale' : SameKeys(mem', new, id)
    BY <2>1, <2>2, ChangeKeys
  <2>4. /\ docs' = docs /\ phase' = phase /\ pc' = pc /\ todo' = todo /\ old' = old
        /\ call'.pc \notin {"index", "fill"}
    BY <1>7 DEF IndexCall, IndexCallFails, NoCall, TypeInv, Calls
  <2>5. phase # "down"
    BY <1>7, DownStill DEF NoCall
  <2>6. \A x \in Txns : Current(x)' = Current(x)
    BY <2>4 DEF Current
  <2>7. \A id : \A x \in Txns : AtIndex(x, id)' <=> AtIndex(x, id)
    BY <2>4, <2>6 DEF AtIndex
  <2>8. ASSUME NEW id \in Ids \ stale', id # call.id PROVE Right(id)'
    <3>1. Right(id) /\ ~CallAtIndex(id) /\ ~CallAtIndex(id)'
      BY <1>0, <2>4, <2>8 DEF RightInv, CallAtIndex
    <3>2. SameKeys(mem', mem, id)
      BY <2>2, <2>3, <2>8 DEF SameKeys
    <3> QED BY <1>7, <2>4, <2>5, <2>6, <2>7, <3>1, <3>2, StaysRight
  <2>9. ASSUME NEW id \in Ids \ stale', id = call.id PROVE Right(id)'
    <3>1. Right(id) /\ CallAtIndex(id)
      BY <1>0, <1>7, <2>9 DEF RightInv, CallAtIndex
    <3>2. /\ \A x \in Txns : ~AtIndex(x, id)
          /\ docs[id] = call.doc /\ Near(mem, id, call.old, docs[id])
      BY <3>1 DEF Right
    <3>3. Indexed(mem', id, docs'[id])
      BY <2>2, <2>3, <2>4, <2>9, <3>2 DEF Indexed, SameKeys
    <3>4. (\A x \in Txns : ~AtIndex(x, id))' /\ ~CallAtIndex(id)'
      BY <2>4, <2>7, <3>2 DEF CallAtIndex
    <3>5. Indexed(mem, id, docs[id])'
      BY <3>3
    <3> QED BY <3>4, <3>5 DEF Right, Indexed, Within
  <2> QED BY <2>8, <2>9 DEF RightInv
<1>8. CASE call.pc = "fill" /\ (CompactFills \/ IndexCallFails)
  <2>1. Single \in Writers /\ Indexing(Single) /\ Change(Single, Filled)
    BY <1>8 DEF CompactFills, IndexCallFails, Indexing, Writers
  <2>2. \A id \in Ids \ stale' : SameKeys(mem', Filled, id)
    BY <2>1, FilledKeys, ChangeKeys
  <2>3. /\ docs' = docs /\ phase' = phase /\ pc' = pc /\ todo' = todo /\ old' = old
        /\ call'.pc \notin {"index", "fill"}
    BY <1>8 DEF CompactFills, IndexCallFails, NoCall, TypeInv, Calls
  <2>4. \A x \in Txns : Current(x)' = Current(x)
    BY <2>3 DEF Current
  <2>5. phase # "down"
    BY <1>8, DownStill DEF NoCall
  <2>6. ASSUME NEW id \in Ids \ stale' PROVE Right(id)'
    <3>1. Right(id) /\ id \notin stale
      BY <1>0, <2>6 DEF RightInv
    <3>2. call.live[id] = docs[id]
      BY <1>8, <3>1 DEF CallInv, LiveInv
    <3>3. \A k \in Specs : KeysFor(mem'[k], id) = KeysFor(mem[k], id) \cup ProperKeys(k, docs[id])
      BY <2>2, <2>6, <3>2, FilledKeys DEF SameKeys
    <3>4. ~CallAtIndex(id) /\ ~CallAtIndex(id)'
      BY <1>8, <2>3 DEF CallAtIndex
    <3>5. \A x \in Txns : AtIndex(x, id)' <=> AtIndex(x, id)
      BY <2>3, <2>4 DEF AtIndex
    <3>6. ASSUME NEW x \in Txns, AtIndex(x, id)
          PROVE  /\ \A y \in Txns : AtIndex(y, id) => y = x
                 /\ docs[id] = Current(x).doc /\ Near(mem', id, old[x], docs[id])
      <4>1. /\ \A y \in Txns : AtIndex(y, id) => y = x
            /\ docs[id] = Current(x).doc /\ Near(mem, id, old[x], docs[id])
        BY <3>1, <3>6 DEF Right
      <4> QED BY <3>3, <4>1 DEF Near
    <3>7. ASSUME \A x \in Txns : ~AtIndex(x, id) PROVE Indexed(mem', id, docs[id])
      <4>1. ~HalfIndexed(id)
        BY <3>4, <3>7 DEF HalfIndexed, AtIndex, CallAtIndex
      <4>2. Within(mem, id, docs[id])
        BY <1>8, <2>5, <3>1, <4>1 DEF Right
      <4> QED BY <3>3, <4>2 DEF Within, Indexed
    <3>8. \A x \in Txns : AtIndex(x, id)' =>
            /\ \A y \in Txns : AtIndex(y, id)' => y = x
            /\ docs'[id] = Current(x)'.doc /\ Near(mem', id, old'[x], docs'[id])
      BY <2>3, <2>4, <3>5, <3>6
    <3>9. (\A x \in Txns : ~AtIndex(x, id))' => Indexed(mem', id, docs'[id])
      BY <2>3, <3>5, <3>7
    <3>10. ~HalfIndexed(id)' => (\A x \in Txns : ~AtIndex(x, id))'
      BY DEF HalfIndexed, AtIndex
    <3> QED BY <2>3, <3>4, <3>8, <3>9, <3>10 DEF Right
  <2> QED BY <2>6 DEF RightInv
<1>9. CASE CompactReplace
  <2>1. call.op = "compact" /\ call.pc = "replace" /\ phase # "down" /\ call'.pc = "rebuild"
    BY <1>9 DEF CompactReplace, CallInv, NoCall, TypeInv, Calls
  <2>2. /\ stale' = stale \cup call.since /\ mem' = mem /\ phase' = phase
        /\ pc' = pc /\ todo' = todo /\ old' = old
        /\ \A id \in Ids \ call.since : docs'[id] = docs[id]
    BY <1>9, <2>1 DEF CompactReplace, LiveInv
  <2>3. \A x \in Txns : Current(x)' = Current(x)
    BY <2>2 DEF Current
  <2>4. ASSUME NEW id \in Ids \ stale' PROVE Right(id)'
    <3>1. Right(id) /\ docs'[id] = docs[id]
      BY <2>2, <2>4 DEF RightInv
    <3>2. \A x \in Txns : AtIndex(x, id)' <=> AtIndex(x, id)
      BY <2>2, <2>3 DEF AtIndex
    <3>3. ~CallAtIndex(id) /\ ~CallAtIndex(id)'
      BY <2>1 DEF CallAtIndex
    <3>4. SameKeys(mem', mem, id)
      BY <2>2 DEF SameKeys
    <3> QED BY <2>1, <2>2, <2>3, <3>1, <3>2, <3>3, <3>4, StaysRight
  <2> QED BY <2>4 DEF RightInv
<1>10. CASE CompactEmpties
  <2>1. call.pc = "rebuild" /\ call'.pc = "fill"
    BY <1>10 DEF CompactEmpties, TypeInv, Calls
  <2>2. /\ mem' = NoPostings /\ docs' = docs /\ pc' = pc /\ todo' = todo /\ old' = old
    BY <1>10 DEF CompactEmpties
  <2>3. \A x \in Txns : Current(x)' = Current(x)
    BY <2>2 DEF Current
  <2>4. ASSUME NEW id PROVE \A k \in Specs : KeysFor(mem'[k], id) = {}
    BY <2>2 DEF NoPostings, KeysFor
  <2>5. ASSUME NEW id \in Ids \ stale' PROVE Right(id)'
    <3>1. Right(id)
      BY <1>0, <2>5 DEF RightInv
    <3>2. \A x \in Txns : AtIndex(x, id)' <=> AtIndex(x, id)
      BY <2>2, <2>3 DEF AtIndex
    <3>3. ~CallAtIndex(id) /\ ~CallAtIndex(id)'
      BY <2>1 DEF CallAtIndex
    <3>4. \A x \in Txns : AtIndex(x, id)' =>
            /\ \A y \in Txns : AtIndex(y, id)' => y = x
            /\ docs'[id] = Current(x)'.doc
      BY <2>2, <2>3, <3>1, <3>2 DEF Right
    <3>5. /\ \A before, doc : Near(mem', id, before, doc)
          /\ \A doc : Within(mem', id, doc)
      BY <2>4 DEF Near, Within
    <3> QED BY <2>1, <3>3, <3>4, <3>5 DEF Right
  <2> QED BY <2>5 DEF RightInv
<1>11. CASE Crash
  <2>1. phase' = "down" /\ call'.pc # "index" /\ \A x \in Txns : pc'[x] # "index"
    BY <1>11 DEF Crash, NoCall
  <2> QED BY <2>1 DEF RightInv, Right, AtIndex, CallAtIndex
<1>12. CASE Open
  <2>1. phase = "down"
    BY <1>12 DEF Open
  <2>2. (\A x \in Txns : pc[x] = "open") /\ call = NoCall /\ \A w \in Writers : at[w] = 0
    BY <2>1, DownStill
  <2>3. pc' = pc /\ call' = call /\ docs' = docs /\ stale' = stale
    BY <1>12 DEF Open
  <2>4. ASSUME NEW id \in Ids \ stale' PROVE Right(id)'
    <3>1. \A k \in Specs : idx[k] # Garbled /\ mem'[k] = idx[k]
      BY <1>12, <2>1, <2>3, <2>4 DEF DownInv, Open
    <3>2. \A k \in Specs : ~Busy(id, k)
      BY <2>2 DEF Busy, HalfIndexed, Saves, NoCall
    <3>3. Indexed(mem', id, docs'[id])
      BY <2>3, <2>4, <3>1, <3>2 DEF DiskInv, OnDisk, Indexed
    <3>4. (\A x \in Txns : ~AtIndex(x, id))' /\ ~CallAtIndex(id)'
      BY <2>2, <2>3 DEF AtIndex, CallAtIndex, NoCall
    <3>5. Indexed(mem, id, docs[id])'
      BY <3>3
    <3> QED BY <3>4, <3>5 DEF Right, Indexed, Within
  <2> QED BY <2>4 DEF RightInv
<1>13. CASE Recovered
  <2>1. /\ mem' = mem /\ docs' = docs /\ pc' = pc /\ call' = call
        /\ old' = old /\ todo' = todo /\ phase # "down" /\ phase' # "down"
    BY <1>13 DEF Recovered
  <2>2. \A x \in Txns : Current(x)' = Current(x)
    BY <2>1 DEF Current
  <2> QED BY <1>0, <2>1, <2>2, LeavesRight
<1> QED BY <1>1, <1>2, <1>3, <1>4, <1>5, <1>6, <1>7, <1>8, <1>9, <1>10, <1>11, <1>12, <1>13
        DEF Next, CallNext, IndexCall, IndexCallFails, CompactFills

\* The .idx files
LEMMA DiskKept ==
  ASSUME IInv, Next
  PROVE  DiskInv'
<1> USE DEF IInv, CommitInv, store, saves, progress
<1>0. stale \subseteq stale' /\ \A id \in Ids \ stale' : OnDisk(id)
  BY StaleGrows DEF DiskInv
<1>1. Single \in Writers /\ \A x \in Txns : x \in Writers /\ x # Single
  BY SingleAssumption DEF Writers
<1>2. ASSUME NEW x \in Txns, TxnNext(x),
             ~(AppendEntry(x) \/ IndexEntry(x) \/ IndexEntryFails(x) \/ SaveEntryFails(x))
      PROVE  DiskInv'
  <2>1. docs' = docs /\ idx' = idx /\ call' = call
    BY <1>2 DEF TxnNext, Buffer, BufferFails, Rollback, Discard, Commit, Replay, Begin, ReadOld,
                AppendEntryFails, EntrySaved, Finish
  <2>2. /\ pc[x] # "index" /\ at[x] \in {0, NIdx + 1}
        /\ \A y \in Txns \ {x} : pc'[y] = pc[y] /\ todo'[y] = todo[y]
    <3>1. CASE \/ \E e \in Entry : Buffer(x, e)
               \/ BufferFails(x) \/ Rollback(x) \/ Discard(x) \/ Finish(x)
      BY <3>1 DEF Buffer, BufferFails, Rollback, Discard, Idle, Finish, SaveInv, TypeInv
    <3>2. CASE Commit(x) \/ Replay(x) \/ ReadOld(x)
      BY <3>2 DEF Commit, Replay, Begin, Idle, ReadOld, SaveInv, TypeInv
    <3>3. CASE AppendEntryFails(x) \/ EntrySaved(x)
      BY <3>3 DEF AppendEntryFails, AtAppend, EntrySaved, GiveUpEntry, NextEntry, SaveInv,
                  TypeInv
    <3> QED BY <1>2, <3>1, <3>2, <3>3 DEF TxnNext
  <2>3. \A w \in Writers \ {x} : at'[w] = at[w]
    <3>1. CASE EntrySaved(x)
      BY <1>1, <3>1, SaveMoves DEF EntrySaved
    <3>2. CASE ~EntrySaved(x)
      BY <1>2, <3>2
      DEF TxnNext, Buffer, BufferFails, Rollback, Discard, Commit, Replay, Begin, ReadOld,
          AppendEntryFails, Finish
    <3> QED BY <3>1, <3>2
  <2>4. /\ \A y \in Txns \ {x} : Current(y)' = Current(y)
        /\ \A w \in Writers \ {x} : IdsOf(w)' = IdsOf(w)
    BY <2>1, <2>2 DEF Current, IdsOf, Writers
  <2>5. ASSUME NEW id \in Ids \ stale' PROVE OnDisk(id)'
    <3>1. \A y \in Txns : AtIndex(y, id) => AtIndex(y, id)'
      BY <2>2, <2>4 DEF AtIndex
    <3>2. CallAtIndex(id) => CallAtIndex(id)'
      BY <2>1 DEF CallAtIndex
    <3>3. \A w \in Writers : at[w] # 0 /\ id \in IdsOf(w) =>
            at[w] = NIdx + 1 \/ (at'[w] = at[w] /\ id \in IdsOf(w)')
      BY <2>2, <2>3, <2>4
    <3> QED BY <1>0, <2>1, <3>1, <3>2, <3>3, StaysOnDisk
  <2> QED BY <2>5 DEF DiskInv
<1>3. ASSUME NEW x \in Txns, AppendEntry(x) PROVE DiskInv'
  <2>1. /\ pc[x] # "index" /\ pc'[x] = "index" /\ todo' = todo /\ at' = at /\ idx' = idx
        /\ \A y \in Txns \ {x} : pc'[y] = pc[y]
        /\ \A id \in Ids : id # Current(x).id => docs'[id] = docs[id]
    BY <1>3 DEF AppendEntry, AtAppend, Put, TypeInv
  <2>2. \A f \in {"pc", "op", "id", "doc", "old", "live"} : call'[f] = call[f]
    BY <1>3, TxnLeavesCall DEF TxnNext
  <2>3. call'.pc = call.pc /\ call'.id = call.id /\ call'.op = call.op
    BY <2>2
  <2>4. /\ \A y \in Txns : Current(y)' = Current(y)
        /\ \A w \in Writers : IdsOf(w)' = IdsOf(w)
    BY <2>1, <2>3 DEF Current, IdsOf
  <2>5. ASSUME NEW id \in Ids \ stale', id # Current(x).id PROVE OnDisk(id)'
    <3>1. \A y \in Txns : AtIndex(y, id) => AtIndex(y, id)'
      BY <2>1, <2>4 DEF AtIndex
    <3>2. CallAtIndex(id) => CallAtIndex(id)'
      BY <2>3 DEF CallAtIndex
    <3> QED BY <1>0, <2>1, <2>4, <2>5, <3>1, <3>2, StaysOnDisk
  <2>6. ASSUME NEW id \in Ids \ stale', id = Current(x).id PROVE OnDisk(id)'
    <3>1. HalfIndexed(id)'
      BY <2>1, <2>4, <2>6 DEF HalfIndexed
    <3> QED BY <3>1 DEF OnDisk, Busy
  <2> QED BY <2>5, <2>6 DEF DiskInv
<1>4. ASSUME NEW x \in Txns, IndexEntry(x) \/ IndexEntryFails(x) PROVE DiskInv'
  <2>1. /\ pc[x] = "index" /\ at[x] = 0 /\ docs' = docs /\ idx' = idx /\ call' = call
        /\ \A y \in Txns \ {x} : pc'[y] = pc[y] /\ todo'[y] = todo[y]
    BY <1>4 DEF IndexEntry, IndexEntryFails, GiveUpEntry, NextEntry, SaveInv, TypeInv
  <2>2. \A w \in Writers \ {x} : at'[w] = at[w]
    BY <1>1, <1>4, SaveMoves DEF IndexEntry, IndexEntryFails
  <2>3. /\ \A y \in Txns \ {x} : Current(y)' = Current(y)
        /\ \A w \in Writers \ {x} : IdsOf(w)' = IdsOf(w)
    BY <2>1 DEF Current, IdsOf, Writers
  <2>4. ASSUME NEW id \in Ids \ stale', id # Current(x).id PROVE OnDisk(id)'
    <3>1. \A y \in Txns : AtIndex(y, id) => AtIndex(y, id)'
      BY <2>1, <2>3, <2>4 DEF AtIndex
    <3>2. CallAtIndex(id) => CallAtIndex(id)'
      BY <2>1 DEF CallAtIndex
    <3>3. \A w \in Writers : at[w] # 0 => at'[w] = at[w] /\ IdsOf(w)' = IdsOf(w)
      BY <2>1, <2>2, <2>3
    <3> QED BY <1>0, <2>1, <3>1, <3>2, <3>3, StaysOnDisk
  <2>5. ASSUME NEW id \in Ids \ stale', id = Current(x).id PROVE OnDisk(id)'
    <3>1. IdsOf(x) = {id}
      BY <1>1, <2>5 DEF IdsOf
    <3>2. CASE IndexEntry(x)
      <4>1. at'[x] = 1
        BY <1>1, <3>2, SaveMoves DEF IndexEntry
      <4>2. IdsOf(x)' = {id}
        BY <1>1, <3>1, <3>2 DEF IndexEntry, IdsOf, Current
      <4>3. \A k \in Specs : Saves(x, id, k)'
        BY <4>1, <4>2, NIdxAssumption DEF Saves, Specs
      <4> QED BY <1>1, <4>3 DEF OnDisk, Busy
    <3>3. CASE IndexEntryFails(x)
      <4>1. stale' = stale \cup Spoiled(x)
        BY <3>3 DEF IndexEntryFails, Change
      <4>2. id \in Spoiled(x)
        BY <3>1 DEF Spoiled
      <4> QED BY <2>5, <4>1, <4>2
    <3> QED BY <1>4, <3>2, <3>3
  <2> QED BY <2>4, <2>5 DEF DiskInv
<1>5. ASSUME NEW x \in Txns, SaveEntryFails(x) PROVE DiskInv'
  <2>1. /\ pc[x] = "save" /\ docs' = docs /\ idx' = idx /\ call' = call
        /\ stale' = stale \cup IdsOf(x)
        /\ \A y \in Txns \ {x} : pc'[y] = pc[y] /\ todo'[y] = todo[y]
    BY <1>5 DEF SaveEntryFails, SaveFails, GiveUpEntry, NextEntry, TypeInv
  <2>2. \A w \in Writers \ {x} : at'[w] = at[w]
    BY <1>1, <1>5, SaveMoves DEF SaveEntryFails, SaveFails
  <2>3. /\ \A y \in Txns \ {x} : Current(y)' = Current(y)
        /\ \A w \in Writers \ {x} : IdsOf(w)' = IdsOf(w)
    BY <2>1 DEF Current, IdsOf, Writers
  <2>4. ASSUME NEW id \in Ids \ stale' PROVE OnDisk(id)'
    <3>1. \A y \in Txns : AtIndex(y, id) => AtIndex(y, id)'
      BY <2>1, <2>3 DEF AtIndex
    <3>2. CallAtIndex(id) => CallAtIndex(id)'
      BY <2>1 DEF CallAtIndex
    <3>3. id \notin IdsOf(x)
      BY <2>1, <2>4
    <3>4. \A w \in Writers : at[w] # 0 /\ id \in IdsOf(w) => at'[w] = at[w] /\ IdsOf(w)' = IdsOf(w)
      BY <2>2, <2>3, <3>3
    <3> QED BY <1>0, <2>1, <3>1, <3>2, <3>4, StaysOnDisk
  <2> QED BY <2>4 DEF DiskInv
<1>6. ASSUME \/ \E e \in Entry : StartCall(e.op, e.id, e.doc)
             \/ ReadCall \/ AppendCall \/ CallSaved
             \/ CompactScan \/ CompactReplace \/ CompactEmpties
      PROVE  DiskInv'
  <2>1. call.pc # "index" /\ (call.pc # "save" \/ CallSaved)
    <3>1. CASE (\E e \in Entry : StartCall(e.op, e.id, e.doc)) \/ CompactScan
      <4>1. call = NoCall
        BY <3>1 DEF StartCall, CompactScan
      <4> QED BY <4>1 DEF NoCall
    <3>2. CASE CallSaved
      BY <3>2 DEF CallSaved
    <3>3. CASE ReadCall \/ AppendCall \/ CompactReplace \/ CompactEmpties
      BY <3>3 DEF ReadCall, AppendCall, CompactReplace, CompactEmpties
    <3> QED BY <1>6, <3>1, <3>2, <3>3
  <2>2. idx' = idx /\ pc' = pc /\ todo' = todo /\ at[Single] \in {0, NIdx + 1}
    <3>1. idx' = idx /\ pc' = pc /\ todo' = todo
      BY <1>6 DEF StartCall, ReadCall, AppendCall, Put, CallSaved, CompactScan, CompactReplace,
           CompactEmpties
    <3> QED BY <2>1, <3>1 DEF CallSaved, SaveInv
  <2>3. \A w \in Writers \ {Single} : at'[w] = at[w]
    <3>1. CASE CallSaved
      BY <1>1, <3>1, SaveMoves DEF CallSaved
    <3>2. CASE ~CallSaved
      BY <1>6, <3>2 DEF StartCall, ReadCall, AppendCall, Put, CompactScan, CompactReplace,
         CompactEmpties
    <3> QED BY <3>1, <3>2
  <2>4. /\ \A x \in Txns : Current(x)' = Current(x)
        /\ \A w \in Writers \ {Single} : IdsOf(w)' = IdsOf(w)
    <3>1. \A w : Current(w)' = Current(w)
      BY <2>2 DEF Current
    <3> QED BY <3>1 DEF IdsOf
  <2>5. ASSUME NEW id \in Ids \ stale', docs'[id] = docs[id] PROVE OnDisk(id)'
    <3>1. \A x \in Txns : AtIndex(x, id) => AtIndex(x, id)'
      BY <2>2, <2>4 DEF AtIndex
    <3>2. CallAtIndex(id) => CallAtIndex(id)'
      BY <2>1 DEF CallAtIndex
    <3>3. \A w \in Writers : at[w] # 0 /\ id \in IdsOf(w) =>
            at[w] = NIdx + 1 \/ (at'[w] = at[w] /\ id \in IdsOf(w)')
      BY <2>2, <2>3, <2>4
    <3> QED BY <1>0, <2>2, <2>5, <3>1, <3>2, <3>3, StaysOnDisk
  <2>6. ASSUME NEW id \in Ids \ stale', docs'[id] # docs[id] PROVE OnDisk(id)'
    <3>1. CASE AppendCall
      <4>1. call'.pc = "index" /\ call'.id = call.id
        BY <3>1 DEF AppendCall, TypeInv, Calls
      <4>2. id = call.id
        BY <2>6, <3>1 DEF AppendCall, Put, TypeInv
      <4> QED BY <4>1, <4>2 DEF OnDisk, Busy, HalfIndexed
    <3>2. CASE CompactReplace
      BY <2>6, <3>2 DEF CompactReplace, CallInv, LiveInv
    <3> QED BY <1>6, <2>6, <3>1, <3>2
            DEF StartCall, ReadCall, CallSaved, CompactScan, CompactEmpties
  <2> QED BY <2>5, <2>6 DEF DiskInv
<1>7. CASE IndexCall \/ IndexCallFails \/ CompactFills
  <2>1. /\ idx' = idx /\ docs' = docs /\ pc' = pc /\ todo' = todo /\ at[Single] = 0
        /\ call.pc \in {"index", "fill"}
    BY <1>7 DEF IndexCall, IndexCallFails, CompactFills, SaveInv
  <2>2. \A w \in Writers \ {Single} : at'[w] = at[w]
    BY <1>1, <1>7, SaveMoves DEF IndexCall, IndexCallFails, CompactFills
  <2>3. /\ \A x \in Txns : Current(x)' = Current(x)
        /\ \A w \in Writers \ {Single} : IdsOf(w)' = IdsOf(w)
    <3>1. \A w : Current(w)' = Current(w)
      BY <2>1 DEF Current
    <3> QED BY <3>1 DEF IdsOf
  <2>4. ASSUME NEW id \in Ids \ stale', id \notin IdsOf(Single) PROVE OnDisk(id)'
    <3>1. \A x \in Txns : AtIndex(x, id) => AtIndex(x, id)'
      BY <2>1, <2>3 DEF AtIndex
    <3>2. ~CallAtIndex(id)
      BY <2>4 DEF CallAtIndex, IdsOf, CallInv
    <3>3. \A w \in Writers : at[w] # 0 => at'[w] = at[w] /\ IdsOf(w)' = IdsOf(w)
      BY <2>1, <2>2, <2>3
    <3> QED BY <1>0, <2>1, <3>1, <3>2, <3>3, StaysOnDisk
  <2>5. ASSUME NEW id \in Ids \ stale', id \in IdsOf(Single) PROVE OnDisk(id)'
    <3>1. CASE IndexCall \/ CompactFills
      <4>1. at'[Single] = 1
        BY <1>1, <3>1, SaveMoves DEF IndexCall, CompactFills
      <4>2. call'.op = call.op /\ call'.id = call.id
        BY <3>1 DEF IndexCall, CompactFills, TypeInv, Calls
      <4>3. id \in IdsOf(Single)'
        BY <2>5, <4>2 DEF IdsOf
      <4>4. \A k \in Specs : Saves(Single, id, k)'
        BY <4>1, <4>3, NIdxAssumption DEF Saves, Specs
      <4> QED BY <1>1, <4>4 DEF OnDisk, Busy
    <3>2. CASE IndexCallFails
      <4>1. stale' = stale \cup Spoiled(Single)
        BY <3>2 DEF IndexCallFails, Change
      <4>2. id \in Spoiled(Single)
        BY <2>5 DEF Spoiled
      <4> QED BY <2>5, <4>1, <4>2
    <3> QED BY <1>7, <3>1, <3>2
  <2> QED BY <2>4, <2>5 DEF DiskInv
<1>8. CASE SaveCallFails
  <2>1. /\ idx' = idx /\ docs' = docs /\ pc' = pc /\ todo' = todo /\ call.pc = "save"
        /\ stale' = stale \cup IdsOf(Single)
    BY <1>8 DEF SaveCallFails, SaveFails
  <2>2. \A w \in Writers \ {Single} : at'[w] = at[w]
    BY <1>1, <1>8, SaveMoves DEF SaveCallFails, SaveFails
  <2>3. /\ \A x \in Txns : Current(x)' = Current(x)
        /\ \A w \in Writers \ {Single} : IdsOf(w)' = IdsOf(w)
    <3>1. \A w : Current(w)' = Current(w)
      BY <2>1 DEF Current
    <3> QED BY <3>1 DEF IdsOf
  <2>4. ASSUME NEW id \in Ids \ stale' PROVE OnDisk(id)'
    <3>1. \A x \in Txns : AtIndex(x, id) => AtIndex(x, id)'
      BY <2>1, <2>3 DEF AtIndex
    <3>2. ~CallAtIndex(id) /\ id \notin IdsOf(Single)
      BY <2>1, <2>4 DEF CallAtIndex
    <3>3. \A w \in Writers : at[w] # 0 /\ id \in IdsOf(w) => at'[w] = at[w] /\ IdsOf(w)' = IdsOf(w)
      BY <2>2, <2>3, <3>2
    <3> QED BY <1>0, <2>1, <3>1, <3>2, <3>3, StaysOnDisk
  <2> QED BY <2>4 DEF DiskInv
<1>9. ASSUME NEW w \in Writers, Dump(w) \/ Open \/ Recovered PROVE DiskInv'
  <2>1. docs' = docs /\ idx' = idx /\ pc' = pc /\ todo' = todo /\ call' = call /\ at' = at
    BY <1>9 DEF Dump, Open, Recovered
  <2>2. \A x : Current(x)' = Current(x)
    BY <2>1 DEF Current
  <2>3. \A v \in Writers : IdsOf(v)' = IdsOf(v)
    BY <2>1, <2>2 DEF IdsOf
  <2>4. ASSUME NEW id \in Ids \ stale' PROVE OnDisk(id)'
    BY <1>0, <2>1, <2>2, <2>3, <2>4, StaysOnDisk DEF AtIndex, CallAtIndex
  <2> QED BY <2>4 DEF DiskInv
<1>10. ASSUME NEW w \in Writers, Replace(w) PROVE DiskInv'
  <2>1. w \in dumped /\ at[w] \in Specs /\ phase # "down"
    BY <1>10, DownStill DEF Replace, SaveInv
  <2>2. /\ at'[w] = at[w] + 1 /\ \A v \in Writers \ {w} : at'[v] = at[v]
    BY <1>10, <2>1, SaveMoves
  <2>3. /\ docs' = docs /\ pc' = pc /\ todo' = todo /\ call' = call
        /\ idx' = [idx EXCEPT ![at[w]] = IF w \in clash THEN Garbled ELSE mem[at[w]]]
    BY <1>10 DEF Replace
  <2>4. \A x : Current(x)' = Current(x)
    BY <2>3 DEF Current
  <2>5. \A v \in Writers : IdsOf(v)' = IdsOf(v)
    BY <2>3, <2>4 DEF IdsOf
  <2>6. ASSUME NEW id, HalfIndexed(id) PROVE HalfIndexed(id)'
    BY <2>3, <2>4, <2>6 DEF HalfIndexed
  <2>7. ASSUME NEW id \in Ids \ stale', NEW k \in Specs, idx'[k] # Garbled, ~Busy(id, k)'
        PROVE  KeysFor(idx'[k], id) = ProperKeys(k, docs'[id])
    <3>1. ~HalfIndexed(id)
      BY <2>6, <2>7 DEF Busy
    <3>2. CASE k = at[w]
      <4>1. w \notin clash /\ idx'[k] = mem[k]
        BY <2>1, <2>3, <2>7, <3>2 DEF TypeInv
      <4>2. call.pc # "fill"
        BY <2>1, <4>1 DEF SaveInv
      <4>3. Right(id)
        BY <1>0, <2>7 DEF RightInv
      <4>4. Indexed(mem, id, docs[id])
        BY <2>1, <3>1, <4>2, <4>3 DEF Right
      <4> QED BY <2>3, <4>1, <4>4 DEF Indexed
    <3>3. CASE k # at[w]
      <4>1. idx'[k] = idx[k]
        BY <2>3, <3>3 DEF TypeInv
      <4>2. ASSUME NEW v \in Writers, Saves(v, id, k) PROVE Saves(v, id, k)'
        <5>1. at[v] # 0 /\ at[v] <= k /\ id \in IdsOf(v)'
          BY <2>5, <4>2 DEF Saves
        <5>2. CASE v # w
          BY <2>2, <5>1, <5>2 DEF Saves
        <5>3. CASE v = w
          <6>1. at[w] + 1 # 0 /\ at[w] + 1 <= k
            BY <2>1, <3>3, <5>1, <5>3, NIdxAssumption DEF Specs
          <6> QED BY <2>2, <5>1, <5>3, <6>1 DEF Saves
        <5> QED BY <5>2, <5>3
      <4>3. ~Busy(id, k)
        BY <2>7, <3>1, <4>2 DEF Busy
      <4> QED BY <1>0, <2>3, <2>7, <4>1, <4>3 DEF OnDisk
    <3> QED BY <3>2, <3>3
  <2> QED BY <2>7 DEF DiskInv, OnDisk
<1>11. CASE Crash
  <2>1. docs' = docs /\ idx' = idx
    BY <1>11 DEF Crash
  <2>2. ASSUME NEW id \in Ids \ stale' PROVE OnDisk(id)'
    <3>1. stale' = stale \cup CutOff
      BY <1>11, <2>2 DEF Crash
    <3>2. \A k \in Specs : ~Busy(id, k)
      BY <2>2, <3>1 DEF CutOff, Busy, Saves
    <3>3. \A k \in Specs : idx[k] # Garbled => KeysFor(idx[k], id) = ProperKeys(k, docs[id])
      BY <1>0, <2>2, <3>2 DEF OnDisk
    <3> QED BY <2>1, <3>3 DEF OnDisk
  <2> QED BY <2>2 DEF DiskInv
<1> QED BY <1>1, <1>2, <1>3, <1>4, <1>5, <1>6, <1>7, <1>8, <1>9, <1>10, <1>11 DEF Next, CallNext

-----------------------------------------------------------------------------
(* The theorems *)

\* The invariant holds at first ...
LEMMA InitHolds == Init => IInv
<1> SUFFICES ASSUME Init PROVE IInv
  OBVIOUS
<1> USE DEF Init
<1>1. TypeInv
  <2>1. <<>> \in Seq(Entry) /\ NoDoc \in Values
    BY DEF Values
  <2>2. /\ idx \in [Specs -> Postings \cup {Garbled}] /\ mem \in [Specs -> Postings]
        /\ at \in [Writers -> 0 .. NIdx + 1]
    BY NIdxAssumption DEF NoPostings, Postings
  <2> QED BY <2>1, <2>2, NoCallType DEF TypeInv
<1>2. TxnInv /\ DownInv
  BY DEF TxnInv, DownInv
<1>3. CallInv /\ LiveInv
  BY DEF CallInv, LiveInv, NoCall
<1>4. SaveInv
  BY DEF SaveInv, NoCall, Writers
<1>5. OwesInv
  BY DEF OwesInv, OwedBy, Distinct
<1>6. ASSUME NEW id \in Ids
      PROVE  Indexed(idx, id, docs[id]) /\ Indexed(mem, id, docs[id])
  BY DEF Indexed, NoPostings, KeysFor, ProperKeys
<1>7. RightInv
  <2>1. \A id : (\A x \in Txns : ~AtIndex(x, id)) /\ ~CallAtIndex(id)
    BY DEF AtIndex, CallAtIndex, NoCall
  <2> QED BY <1>6, <2>1, RightAtRest DEF RightInv
<1>8. DiskInv
  BY <1>6 DEF DiskInv, OnDisk, Indexed
<1> QED BY <1>1, <1>2, <1>3, <1>4, <1>5, <1>7, <1>8 DEF IInv, CommitInv

\* ... and every step keeps it.
LEMMA Inductive == Spec => []IInv
<1>1. IInv /\ [Next]_vars => IInv'
  <2> SUFFICES ASSUME IInv, [Next]_vars PROVE IInv'
    OBVIOUS
  <2>1. CASE Next
    BY <2>1, TypeKept, TxnKept, CallKept, SaveKept, LiveKept, OwesKept, RightKept, DiskKept
       DEF IInv, CommitInv
  <2>2. CASE UNCHANGED vars
    <3> USE <2>2 DEF vars, IInv, CommitInv
    <3>1. TypeInv' /\ TxnInv' /\ CallInv' /\ SaveInv' /\ DownInv' /\ LiveInv'
      BY DEF TypeInv, TxnInv, CallInv, SaveInv, DownInv, LiveInv, IsFile, Idle, Current
    <3>2. OwesInv'
      BY DEF OwesInv, IsFile, OwedBy, Waiting, Holding
    <3>3. \A id \in Ids : (Right(id) => Right(id)') /\ (OnDisk(id) => OnDisk(id)')
      BY DEF Right, OnDisk, Busy, Saves, IdsOf, AtIndex, CallAtIndex, HalfIndexed, Current
    <3> QED BY <3>1, <3>2, <3>3 DEF RightInv, DiskInv
  <2> QED BY <2>1, <2>2
<1> QED BY <1>1, InitHolds, PTL DEF Spec

\* The variables keep their types: an entry waits only in a commit or a replay,
\* none is lost from the list that commit() and _recover_wal() go through, and a
\* save is under way only where a commit, a replay, a call or a compaction is at it
\* (engine.py:363-381, 496-551).
THEOREM TypeCorrect == Spec => []TypeOK
<1>1. IInv => TypeOK
  <2> SUFFICES ASSUME IInv PROVE TypeOK
    OBVIOUS
  <2>1. /\ docs \in [Ids -> Values]
        /\ idx \in [Specs -> Postings \cup {Garbled}] /\ mem \in [Specs -> Postings]
        /\ \A x \in Txns : IsFile(x) => wal[x] \in Seq(Entry)
        /\ phase \in {"down", "recovering", "up"}
        /\ pc \in [Txns -> {"open", "next", "append", "index", "save"}]
        /\ \A x \in Txns : todo[x] \in Seq(Entry) /\ (pc[x] = "open" => todo[x] = <<>>)
        /\ old \in [Txns -> Values]
    BY DEF IInv, CommitInv, TypeInv, TxnInv, IsFile
  <2>2. call.pc \in {"none", "read", "append", "index", "replace", "rebuild", "fill", "save"}
    BY DEF IInv, CommitInv, TypeInv, Calls
  <2>3. /\ at \in [Writers -> 0 .. NIdx + 1]
        /\ at[Single] # 0 <=> call.pc = "save"
        /\ \A x \in Txns : at[x] # 0 <=> pc[x] = "save"
        /\ dumped \subseteq {w \in Writers : at[w] \in Specs} /\ clash \subseteq Writers
        /\ \A x \in Txns : owes[x] \subseteq Entry
        /\ stale \subseteq Ids
    BY DEF IInv, CommitInv, TypeInv, SaveInv
  <2> QED BY <2>1, <2>2, <2>3 DEF TypeOK
<1> QED BY <1>1, Inductive, PTL

\* A commit that began is applied whole, by itself or by the recovery after a
\* crash, for any lines, ids, other commits, calls and compactions: an entry that
\* is owed waits in the list, or its document is in the file, and read_entries()
\* (wal.py:130) has every entry that is intended.
THEOREM CommitsAreWhole == Spec => []CommitsHold
<1>1. IInv => CommitsHold
  BY DEF IInv, CommitInv, OwesInv, OwedBy, Holding, CommitsHold
<1> QED BY <1>1, Inductive, PTL

\* The saves of commits, calls and compactions, which no lock keeps apart from one
\* another or from changes of the index (engine.py:92-97, 380-381), a crash at any
\* point of them and the replay after it leave the index in memory right, and each
\* file that no save still has to come to, for the ids that nothing of what stale
\* lists has happened to (engine.py:520-551; index_manager.py:123-184, 442-446).
THEOREM RecoveryIsExact == Spec => []IndexExact
<1>1. IInv => IndexExact
  <2> SUFFICES ASSUME IInv, NEW id \in Ids \ stale, ~HalfIndexed(id), NEW k \in Specs
               PROVE  /\ phase # "down" /\ call.pc # "fill" =>
                           KeysFor(mem[k], id) = ProperKeys(k, docs[id])
                      /\ idx[k] # Garbled /\ ~Unsaved(id, k) =>
                           KeysFor(idx[k], id) = ProperKeys(k, docs[id])
    BY DEF IndexExact
  <2>1. Right(id) /\ OnDisk(id)
    BY DEF IInv, RightInv, DiskInv
  <2>2. ~Unsaved(id, k) => ~Busy(id, k)
    BY DEF Unsaved, Busy, Saves
  <2> QED BY <2>1, <2>2 DEF Right, Indexed, OnDisk
<1> QED BY <1>1, Inductive, PTL
=============================================================================
