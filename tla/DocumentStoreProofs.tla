------------------------ MODULE DocumentStoreProofs ------------------------
(***************************************************************************)
(* DocumentStore for any ids, documents and file lengths: reads never      *)
(* return what a write superseded, whatever writes and compactions fail    *)
(* half way; no step of a compaction shows in a scan, and a finished one   *)
(* leaves a line for each live document; lost lines do not come back.      *)
(***************************************************************************)
EXTENDS DocumentStore, StorageLemmas, FiniteSetTheorems

-----------------------------------------------------------------------------
(* The loops of get() and scan() *)

\* Max of a set is the number in it that no other exceeds.
LEMMA MaxIs ==
  ASSUME NEW S \in SUBSET Nat, NEW n \in S, \A m \in S : m <= n
  PROVE  Max(S) = n
<1>1. \A y \in S : n >= y
  OBVIOUS
<1>2. Max(S) \in S /\ \A y \in S : Max(S) >= y
  BY <1>1 DEF Max
<1>3. Max(S) >= n /\ n >= Max(S) /\ Max(S) \in Nat /\ n \in Nat
  BY <1>1, <1>2
<1> QED BY <1>3

\* ... which is its Max; that of the first n is n.
LEMMA MaxPosition ==
  ASSUME NEW N \in Nat
  PROVE  /\ \A S \in SUBSET (1 .. N) : S # {} => Max(S) \in S
         /\ \A n \in 1 .. N : Max(1 .. n) = n
<1>1. ASSUME NEW S \in SUBSET (1 .. N), S # {} PROVE Max(S) \in S
  <2>1. PICK n \in S : \A m \in S : m <= n
    BY <1>1, LastOf
  <2>2. Max(S) = n
    <3>1. S \in SUBSET Nat
      OBVIOUS
    <3> QED BY <2>1, <3>1, MaxIs
  <2> QED BY <2>2
<1>2. ASSUME NEW n \in 1 .. N PROVE Max(1 .. n) = n
  <2>1. 1 .. n \in SUBSET Nat /\ n \in 1 .. n /\ \A m \in 1 .. n : m <= n
    OBVIOUS
  <2> QED BY <2>1, MaxIs
<1> QED BY <1>1, <1>2

\* g has, for each set of positions of seq, the result of step F over it.
FoldValues(g, N, base, F, seq) ==
  \A s \in SUBSET (1 .. N) :
     g[s] = IF s = {} THEN base ELSE F[<<g[s \ {Max(s)}], seq[Max(s)]>>]

\* A fold over a list is defined for every list and step F: the function that
\* MapThenFoldSet names with CHOOSE, one value for each set of positions, exists.
LEMMA FoldExists ==
  ASSUME NEW N \in Nat, NEW A, NEW base \in A, NEW B, NEW seq \in [1 .. N -> B],
         NEW F \in [A \X B -> A]
  PROVE  \E g \in [SUBSET (1 .. N) -> A] : FoldValues(g, N, base, F, seq)
<1> DEFINE P == SUBSET (1 .. N)
           Step(g, s) == IF s = {} THEN base ELSE F[<<g[s \ {Max(s)}], seq[Max(s)]>>]
           T == {n \in 0 .. N : \E g \in [P -> A] : \A s \in P :
                   s \subseteq 1 .. n => g[s] = Step(g, s)}
<1>1. 0 \in T
  <2> DEFINE g == [s \in P |-> base]
  <2>1. g \in [P -> A]
    OBVIOUS
  <2>2. ASSUME NEW s \in P, s \subseteq 1 .. 0 PROVE g[s] = Step(g, s)
    <3>1. s = {}
      BY <2>2
    <3> QED BY <3>1
  <2> HIDE DEF g, Step, P
  <2>3. \E f \in [P -> A] : \A s \in P : s \subseteq 1 .. 0 => f[s] = Step(f, s)
    BY <2>1, <2>2
  <2>4. 0 \in 0 .. N
    OBVIOUS
  <2> QED BY <2>3, <2>4
<1>2. ASSUME NEW n \in 1 .. N, n - 1 \in T PROVE n \in T
  <2>1. PICK g \in [P -> A] : \A s \in P : s \subseteq 1 .. (n - 1) => g[s] = Step(g, s)
    BY <1>2
  <2> DEFINE h == [s \in P |-> IF n \in s THEN F[<<g[s \ {n}], seq[n]>>] ELSE g[s]]
  <2>2. h \in [P -> A]
    <3> SUFFICES ASSUME NEW s \in P, n \in s PROVE F[<<g[s \ {n}], seq[n]>>] \in A
      OBVIOUS
    <3>1. s \ {n} \in P
      OBVIOUS
    <3>2. g[s \ {n}] \in A /\ seq[n] \in B
      BY <3>1
    <3> QED BY <3>2
  <2>3. ASSUME NEW s \in P, s \subseteq 1 .. n PROVE h[s] = Step(h, s)
    <3>1. CASE n \in s
      <4>1. Max(s) = n
        <5>1. s \in SUBSET Nat /\ \A m \in s : m <= n
          BY <2>3
        <5> QED BY <3>1, <5>1, MaxIs
      <4>2. s \ {n} \in P /\ n \notin s \ {n}
        OBVIOUS
      <4>3. h[s \ {n}] = g[s \ {n}] /\ h[s] = F[<<g[s \ {n}], seq[n]>>]
        BY <3>1, <4>2
      <4> HIDE DEF h
      <4> QED BY <3>1, <4>1, <4>3
    <3>2. CASE n \notin s
      <4>1. s \subseteq 1 .. (n - 1)
        BY <2>3, <3>2
      <4>2. s \ {Max(s)} \in P /\ n \notin s \ {Max(s)}
        BY <3>2
      <4>3. h[s] = g[s] /\ h[s \ {Max(s)}] = g[s \ {Max(s)}]
        BY <3>2, <4>2
      <4>4. g[s] = Step(g, s)
        BY <2>1, <4>1
      <4> HIDE DEF h
      <4> QED BY <4>3, <4>4
    <3> QED BY <3>1, <3>2
  <2> HIDE DEF h, Step, P
  <2>4. \E f \in [P -> A] : \A s \in P : s \subseteq 1 .. n => f[s] = Step(f, s)
    BY <2>2, <2>3
  <2> QED BY <2>4
<1> HIDE DEF T
<1>3. N \in T
  <2>1. 0 .. N \subseteq T
    BY <1>1, <1>2, Induction
  <2> QED BY <2>1
<1>4. PICK g \in [P -> A] : \A s \in P : s \subseteq 1 .. N => g[s] = Step(g, s)
  BY <1>3 DEF T
<1> QED BY <1>4 DEF FoldValues

-----------------------------------------------------------------------------
\* GetLoop is the last of the values that `result' has, one for each line read.
LEMMA GetLoopPasses ==
  ASSUME NEW log \in Seq(Line), NEW id
  PROVE  \E result :
            /\ result[0] = NoDoc
            /\ \A n \in 1 .. Len(log) :
                 result[n] = IF log[n].id # id THEN result[n - 1] ELSE log[n].doc
            /\ result[Len(log)] = GetLoop(log, id)
<1> DEFINE N == Len(log)
           P == SUBSET (1 .. N)
           Step(g, s) == IF s = {} THEN NoDoc
                         ELSE IF log[Max(s)].id # id THEN g[s \ {Max(s)}]
                                                     ELSE log[Max(s)].doc
           IsFold(g) == g = [s \in P |-> Step(g, s)]
           F == [p \in Values \X Line |-> IF p[2].id # id THEN p[1] ELSE p[2].doc]
<1>1. N \in Nat /\ DOMAIN log = 1 .. N /\ log \in [1 .. N -> Line]
  OBVIOUS
<1>2. \E g : IsFold(g)
  <2>1. F \in [Values \X Line -> Values]
    BY DEF Line
  <2>2. NoDoc \in Values
    BY DEF Values
  <2>3. \A p \in Values \X Line : F[p] = IF p[2].id # id THEN p[1] ELSE p[2].doc
    OBVIOUS
  <2> HIDE DEF F, N
  <2>4. PICK g \in [P -> Values] : FoldValues(g, N, NoDoc, F, log)
    BY <1>1, <2>1, <2>2, FoldExists
  <2>5. ASSUME NEW s \in P PROVE g[s] = Step(g, s)
    <3>1. CASE s = {}
      BY <2>4, <3>1 DEF FoldValues
    <3>2. CASE s # {}
      <4>1. Max(s) \in s
        BY <1>1, <3>2, MaxPosition
      <4>2. s \ {Max(s)} \in P /\ log[Max(s)] \in Line
        BY <1>1, <4>1
      <4>3. <<g[s \ {Max(s)}], log[Max(s)]>> \in Values \X Line
        BY <2>4, <4>2
      <4>4. F[<<g[s \ {Max(s)}], log[Max(s)]>>]
              = IF log[Max(s)].id # id THEN g[s \ {Max(s)}] ELSE log[Max(s)].doc
        BY <2>3, <4>3
      <4> QED BY <2>4, <3>2, <4>4 DEF FoldValues
    <3> QED BY <3>1, <3>2
  <2>6. IsFold(g)
    BY <2>4, <2>5
  <2> QED BY <2>6
<1> DEFINE h == CHOOSE g : IsFold(g)
           result == [n \in 0 .. N |-> h[1 .. n]]
<1>3. GetLoop(log, id) = h[1 .. N]
  BY <1>1 DEF GetLoop, FoldLeft, MapThenFoldSet
<1>4. IsFold(h)
  BY <1>2
<1> HIDE DEF h
<1>5. \A s \in P : h[s] = Step(h, s)
  BY <1>4
<1>6. result[0] = NoDoc
  <2>1. 1 .. 0 \in P /\ 1 .. 0 = {} /\ 0 \in 0 .. N
    BY <1>1
  <2>2. h[1 .. 0] = NoDoc
    BY <1>5, <2>1
  <2> QED BY <2>1, <2>2
<1>7. ASSUME NEW n \in 1 .. N
      PROVE  result[n] = IF log[n].id # id THEN result[n - 1] ELSE log[n].doc
  <2>1. 1 .. n \in P /\ 1 .. n # {} /\ (1 .. n) \ {n} = 1 .. (n - 1)
    BY <1>1
  <2>2. Max(1 .. n) = n
    BY <1>1, MaxPosition
  <2>3. h[1 .. n] = IF log[n].id # id THEN h[1 .. (n - 1)] ELSE log[n].doc
    BY <1>5, <2>1, <2>2
  <2>4. n \in 0 .. N /\ n - 1 \in 0 .. N
    BY <1>1
  <2> QED BY <2>3, <2>4
<1>8. result[N] = h[1 .. N]
  BY <1>1
<1> HIDE DEF result
<1> QED BY <1>3, <1>6, <1>7, <1>8

\* The dict of scan() after the lines read so far
SeenType == [keys : Seq(Ids), value : [Ids -> Values]]

\* has a key for each id and a value for each.
LEMMA SeenTyped ==
  ASSUME NEW seen \in SeenType, NEW rec \in Line
  PROVE  Seen(seen, rec) \in SeenType
<1>1. rec.id \in Ids /\ rec.doc \in Values
  BY DEF Line
<1>2. Append(seen.keys, rec.id) \in Seq(Ids) /\ seen.keys \in Seq(Ids)
  BY <1>1 DEF SeenType
<1>3. [seen.value EXCEPT ![rec.id] = rec.doc] \in [Ids -> Values]
  BY <1>1 DEF SeenType
<1> QED BY <1>2, <1>3 DEF Seen, SeenType

\* SeenDict is the last of the dicts, one for each line read.
LEMMA SeenPasses ==
  ASSUME NEW log \in Seq(Line)
  PROVE  \E seen :
            /\ seen[0] = [keys |-> <<>>, value |-> [id \in Ids |-> NoDoc]]
            /\ \A n \in 1 .. Len(log) : seen[n] = Seen(seen[n - 1], log[n])
            /\ seen[Len(log)] = SeenDict(log)
<1> DEFINE N == Len(log)
           P == SUBSET (1 .. N)
           none == [keys |-> <<>>, value |-> [id \in Ids |-> NoDoc]]
           Step(g, s) == IF s = {} THEN none ELSE Seen(g[s \ {Max(s)}], log[Max(s)])
           IsFold(g) == g = [s \in P |-> Step(g, s)]
           F == [p \in SeenType \X Line |-> Seen(p[1], p[2])]
<1>1. N \in Nat /\ DOMAIN log = 1 .. N /\ log \in [1 .. N -> Line]
  OBVIOUS
<1>2. \E g : IsFold(g)
  <2>1. F \in [SeenType \X Line -> SeenType]
    BY SeenTyped
  <2>2. none \in SeenType
    BY DEF Values, SeenType
  <2>3. \A p \in SeenType \X Line : F[p] = Seen(p[1], p[2])
    OBVIOUS
  <2> HIDE DEF F, N, none
  <2>4. PICK g \in [P -> SeenType] : FoldValues(g, N, none, F, log)
    BY <1>1, <2>1, <2>2, FoldExists
  <2>5. ASSUME NEW s \in P PROVE g[s] = Step(g, s)
    <3>1. CASE s = {}
      BY <2>4, <3>1 DEF FoldValues
    <3>2. CASE s # {}
      <4>1. Max(s) \in s
        BY <1>1, <3>2, MaxPosition
      <4>2. s \ {Max(s)} \in P /\ log[Max(s)] \in Line
        BY <1>1, <4>1
      <4>3. <<g[s \ {Max(s)}], log[Max(s)]>> \in SeenType \X Line
        BY <2>4, <4>2
      <4>4. F[<<g[s \ {Max(s)}], log[Max(s)]>>] = Seen(g[s \ {Max(s)}], log[Max(s)])
        BY <2>3, <4>3
      <4> QED BY <2>4, <3>2, <4>4 DEF FoldValues
    <3> QED BY <3>1, <3>2
  <2>6. IsFold(g)
    BY <2>4, <2>5
  <2> QED BY <2>6
<1> DEFINE h == CHOOSE g : IsFold(g)
           seen == [n \in 0 .. N |-> h[1 .. n]]
<1>3. SeenDict(log) = h[1 .. N]
  BY <1>1 DEF SeenDict, FoldLeft, MapThenFoldSet
<1>4. IsFold(h)
  BY <1>2
<1> HIDE DEF h, none
<1>5. \A s \in P : h[s] = Step(h, s)
  BY <1>4
<1>6. seen[0] = none
  <2>1. 1 .. 0 \in P /\ 1 .. 0 = {} /\ 0 \in 0 .. N
    BY <1>1
  <2>2. h[1 .. 0] = none
    BY <1>5, <2>1
  <2> QED BY <2>1, <2>2
<1>7. ASSUME NEW n \in 1 .. N PROVE seen[n] = Seen(seen[n - 1], log[n])
  <2>1. 1 .. n \in P /\ 1 .. n # {} /\ (1 .. n) \ {n} = 1 .. (n - 1)
    BY <1>1
  <2>2. Max(1 .. n) = n
    BY <1>1, MaxPosition
  <2>3. h[1 .. n] = Seen(h[1 .. (n - 1)], log[n])
    BY <1>5, <2>1, <2>2
  <2>4. n \in 0 .. N /\ n - 1 \in 0 .. N
    BY <1>1
  <2> QED BY <2>3, <2>4
<1>8. seen[N] = h[1 .. N]
  BY <1>1
<1> HIDE DEF seen
<1> QED BY <1>3, <1>6, <1>7, <1>8 DEF none

\* The loop over the items makes a list of lines.
LEMMA YieldTyped ==
  ASSUME NEW seen \in SeenType, NEW list \in Seq(Line), NEW id \in Ids
  PROVE  Yield(seen, list, id) \in Seq(Line)
<1>1. DocLine(id, seen.value[id]) \in Line
  BY DEF DocLine, Line, SeenType
<1>2. Append(list, DocLine(id, seen.value[id])) \in Seq(Line)
  BY <1>1
<1> QED BY <1>2 DEF Yield

\* ScanLoop is the last of the lists, one for each item of the dict.
LEMMA ScanPasses ==
  ASSUME NEW log, SeenDict(log) \in SeenType
  PROVE  \E list :
            /\ list[0] = <<>>
            /\ \A n \in 1 .. Len(SeenDict(log).keys) :
                 list[n] = Yield(SeenDict(log), list[n - 1], SeenDict(log).keys[n])
            /\ list[Len(SeenDict(log).keys)] = ScanLoop(log)
<1> DEFINE seen == SeenDict(log)
           keys == seen.keys
           N == Len(keys)
           P == SUBSET (1 .. N)
           Step(g, s) == IF s = {} THEN <<>> ELSE Yield(seen, g[s \ {Max(s)}], keys[Max(s)])
           IsFold(g) == g = [s \in P |-> Step(g, s)]
           F == [p \in Seq(Line) \X Ids |-> Yield(seen, p[1], p[2])]
<1>1. N \in Nat /\ DOMAIN keys = 1 .. N /\ keys \in [1 .. N -> Ids]
  BY DEF SeenType
<1>2. \E g : IsFold(g)
  <2>1. F \in [Seq(Line) \X Ids -> Seq(Line)]
    BY YieldTyped
  <2>2. <<>> \in Seq(Line)
    OBVIOUS
  <2>3. \A p \in Seq(Line) \X Ids : F[p] = Yield(seen, p[1], p[2])
    OBVIOUS
  <2> HIDE DEF F, N
  <2>4. PICK g \in [P -> Seq(Line)] : FoldValues(g, N, <<>>, F, keys)
    BY <1>1, <2>1, <2>2, FoldExists
  <2>5. ASSUME NEW s \in P PROVE g[s] = Step(g, s)
    <3>1. CASE s = {}
      BY <2>4, <3>1 DEF FoldValues
    <3>2. CASE s # {}
      <4>1. Max(s) \in s
        BY <1>1, <3>2, MaxPosition
      <4>2. s \ {Max(s)} \in P /\ keys[Max(s)] \in Ids
        BY <1>1, <4>1
      <4>3. <<g[s \ {Max(s)}], keys[Max(s)]>> \in Seq(Line) \X Ids
        BY <2>4, <4>2
      <4>4. F[<<g[s \ {Max(s)}], keys[Max(s)]>>] = Yield(seen, g[s \ {Max(s)}], keys[Max(s)])
        BY <2>3, <4>3
      <4> QED BY <2>4, <3>2, <4>4 DEF FoldValues
    <3> QED BY <3>1, <3>2
  <2>6. IsFold(g)
    BY <2>4, <2>5
  <2> QED BY <2>6
<1> DEFINE h == CHOOSE g : IsFold(g)
           list == [n \in 0 .. N |-> h[1 .. n]]
<1>3. ScanLoop(log) = h[1 .. N]
  BY <1>1 DEF ScanLoop, FoldLeft, MapThenFoldSet
<1>4. IsFold(h)
  BY <1>2
<1> HIDE DEF h
<1>5. \A s \in P : h[s] = Step(h, s)
  BY <1>4
<1>6. list[0] = <<>>
  <2>1. 1 .. 0 \in P /\ 1 .. 0 = {} /\ 0 \in 0 .. N
    BY <1>1
  <2>2. h[1 .. 0] = <<>>
    BY <1>5, <2>1
  <2> QED BY <2>1, <2>2
<1>7. ASSUME NEW n \in 1 .. N PROVE list[n] = Yield(seen, list[n - 1], keys[n])
  <2>1. 1 .. n \in P /\ 1 .. n # {} /\ (1 .. n) \ {n} = 1 .. (n - 1)
    <3> HIDE DEF N
    <3> QED BY <1>1
  <2>2. Max(1 .. n) = n
    BY <1>1, MaxPosition
  <2>3. h[1 .. n] = Yield(seen, h[1 .. (n - 1)], keys[n])
    BY <1>5, <2>1, <2>2
  <2>4. n \in 0 .. N /\ n - 1 \in 0 .. N
    BY <1>1
  <2> QED BY <2>3, <2>4
<1>8. list[N] = h[1 .. N]
  BY <1>1
<1> HIDE DEF list
<1> QED BY <1>3, <1>6, <1>7, <1>8

-----------------------------------------------------------------------------
\* v is what the first n lines say of id.
Newest(log, n, id, v) ==
  IF \E i \in 1 .. n : log[i].id = id
  THEN \E i \in 1 .. n : /\ log[i].id = id /\ log[i].doc = v
                         /\ \A j \in 1 .. n : log[j].id = id => j <= i
  ELSE v = NoDoc

\* One line more replaces it if the line is of the id.
LEMMA NewestNext ==
  ASSUME NEW log, NEW n \in Nat \ {0}, NEW id, NEW v, Newest(log, n - 1, id, v)
  PROVE  Newest(log, n, id, IF log[n].id # id THEN v ELSE log[n].doc)
<1>1. 1 .. n = (1 .. (n - 1)) \cup {n} /\ n \in 1 .. n /\ \A j \in 1 .. n : j <= n
  OBVIOUS
<1>2. CASE log[n].id = id
  BY <1>1, <1>2 DEF Newest
<1>3. CASE log[n].id # id
  <2>1. CASE \E i \in 1 .. (n - 1) : log[i].id = id
    <3>1. PICK i \in 1 .. (n - 1) : /\ log[i].id = id /\ log[i].doc = v
                                    /\ \A j \in 1 .. (n - 1) : log[j].id = id => j <= i
      BY <2>1 DEF Newest
    <3>2. \A j \in 1 .. n : log[j].id = id => j <= i
      BY <1>1, <1>3, <3>1
    <3> QED BY <1>1, <1>3, <3>1, <3>2 DEF Newest
  <2>2. CASE ~ \E i \in 1 .. (n - 1) : log[i].id = id
    <3>1. ~ \E i \in 1 .. n : log[i].id = id
      BY <1>1, <1>3, <2>2
    <3> QED BY <1>3, <2>2, <3>1 DEF Newest
  <2> QED BY <2>1, <2>2
<1> QED BY <1>2, <1>3

\* After the last line it is what get() is to return.
LEMMA NewestIsGet ==
  ASSUME NEW log \in Seq(Line), NEW id, NEW v, Newest(log, Len(log), id, v)
  PROVE  v = Get(log, id)
<1>1. DOMAIN log = 1 .. Len(log)
  OBVIOUS
<1>2. CASE Occurs(log, id)
  <2>1. PICK i \in DOMAIN log : /\ log[i].id = id /\ log[i].doc = v
                                /\ \A j \in DOMAIN log : log[j].id = id => j <= i
    BY <1>1, <1>2 DEF Newest, Occurs
  <2>2. IsLast(log, i)
    BY <2>1 DEF IsLast
  <2> QED BY <2>1, <2>2, GetLast
<1>3. CASE ~Occurs(log, id)
  BY <1>1, <1>3, GetNothing DEF Newest, Occurs
<1> QED BY <1>2, <1>3

\* The loop of get() returns what Get says, for every file and id.
LEMMA GetLoopIsGet ==
  ASSUME NEW log \in Seq(Line), NEW id
  PROVE  GetLoop(log, id) = Get(log, id)
<1> DEFINE N == Len(log)
<1>1. N \in Nat
  OBVIOUS
<1>2. PICK result :
         /\ result[0] = NoDoc
         /\ \A n \in 1 .. N : result[n] = IF log[n].id # id THEN result[n - 1] ELSE log[n].doc
         /\ result[N] = GetLoop(log, id)
  BY GetLoopPasses
<1> DEFINE T == {n \in 0 .. N : Newest(log, n, id, result[n])}
<1>3. 0 \in T
  <2>1. 0 \in 0 .. N /\ 1 .. 0 = {}
    BY <1>1
  <2> QED BY <1>2, <2>1 DEF Newest
<1>4. ASSUME NEW n \in 1 .. N, n - 1 \in T PROVE n \in T
  <2>1. n \in Nat \ {0} /\ n \in 0 .. N
    BY <1>1
  <2>2. Newest(log, n - 1, id, result[n - 1])
    BY <1>4
  <2>3. Newest(log, n, id, IF log[n].id # id THEN result[n - 1] ELSE log[n].doc)
    BY <2>1, <2>2, NewestNext
  <2> QED BY <1>2, <2>1, <2>3
<1> HIDE DEF T
<1>5. 0 .. N \subseteq T
  BY <1>1, <1>3, <1>4, Induction
<1>6. Newest(log, N, id, result[N])
  BY <1>1, <1>5 DEF T
<1> QED BY <1>2, <1>6, NewestIsGet

-----------------------------------------------------------------------------
\* The dict of scan() after n lines: its keys are the ids of these lines in the
\* order in which they first occur, the values what the lines say of each.
SeenInv(log, n, seen) ==
  /\ seen \in SeenType
  /\ \A i \in 1 .. n : \E a \in DOMAIN seen.keys : seen.keys[a] = log[i].id
  /\ \A a \in DOMAIN seen.keys : \E i \in 1 .. n : log[i].id = seen.keys[a]
  /\ \A a, b \in DOMAIN seen.keys :
        a < b => FirstBefore(log, seen.keys[a], seen.keys[b])
  /\ \A id \in Ids : Newest(log, n, id, seen.value[id])

\* No line before the first.
LEMMA SeenInvFirst ==
  ASSUME NEW log
  PROVE  SeenInv(log, 0, [keys |-> <<>>, value |-> [id \in Ids |-> NoDoc]])
<1>1. 1 .. 0 = {} /\ DOMAIN <<>> = {} /\ <<>> \in Seq(Ids)
  OBVIOUS
<1>2. [id \in Ids |-> NoDoc] \in [Ids -> Values]
  BY DEF Values
<1> QED BY <1>1, <1>2 DEF SeenInv, SeenType, Newest

\* A line more keeps it.
LEMMA SeenInvNext ==
  ASSUME NEW log \in Seq(Line), NEW n \in DOMAIN log, NEW seen, SeenInv(log, n - 1, seen)
  PROVE  SeenInv(log, n, Seen(seen, log[n]))
<1> DEFINE rec == log[n]
           next == Seen(seen, rec)
           keys == seen.keys
<1>1. /\ rec \in Line /\ rec.id \in Ids /\ n \in Nat \ {0} /\ n \in 1 .. n
      /\ 1 .. n = (1 .. (n - 1)) \cup {n} /\ DOMAIN log = 1 .. Len(log)
      /\ \A i \in 1 .. (n - 1) : i \in DOMAIN log /\ i < n
  <2>1. DOMAIN log = 1 .. Len(log) /\ Len(log) \in Nat /\ rec \in Line
    OBVIOUS
  <2>2. rec.id \in Ids
    BY <2>1 DEF Line
  <2>3. n \in Nat \ {0} /\ n <= Len(log)
    BY <2>1
  <2> HIDE DEF rec
  <2> QED BY <2>1, <2>2, <2>3
<1>2. seen \in SeenType /\ keys \in Seq(Ids) /\ DOMAIN keys = 1 .. Len(keys)
  BY DEF SeenInv, SeenType
<1>3. next \in SeenType
  BY <1>1, <1>2, SeenTyped
<1>4. ASSUME NEW id \in Ids PROVE Newest(log, n, id, next.value[id])
  <2>1. Newest(log, n - 1, id, seen.value[id])
    BY DEF SeenInv
  <2>2. Newest(log, n, id, IF rec.id # id THEN seen.value[id] ELSE rec.doc)
    BY <1>1, <2>1, NewestNext
  <2>3. next.value[id] = IF rec.id # id THEN seen.value[id] ELSE rec.doc
    BY <1>1, <1>2 DEF Seen, SeenType
  <2> HIDE DEF rec, next
  <2> QED BY <2>2, <2>3
<1>5. CASE Contains(keys, rec.id)
  <2>1. next.keys = keys
    BY <1>5 DEF Seen
  <2>2. \E a \in DOMAIN keys : keys[a] = rec.id
    BY <1>2, <1>5 DEF Contains
  <2> HIDE DEF next, keys
  <2>3. \A i \in 1 .. n : \E a \in DOMAIN next.keys : next.keys[a] = log[i].id
    BY <1>1, <2>1, <2>2 DEF SeenInv, keys
  <2>4. \A a \in DOMAIN next.keys : \E i \in 1 .. n : log[i].id = next.keys[a]
    BY <1>1, <2>1 DEF SeenInv, keys
  <2>5. \A a, b \in DOMAIN next.keys : a < b => FirstBefore(log, next.keys[a], next.keys[b])
    BY <2>1 DEF SeenInv, keys
  <2> QED BY <1>3, <1>4, <2>3, <2>4, <2>5 DEF SeenInv, next
<1>6. CASE ~Contains(keys, rec.id)
  <2> DEFINE m == Len(keys) + 1
  <2>1. next.keys = Append(keys, rec.id)
    BY <1>6 DEF Seen
  <2>2. \A a \in DOMAIN keys : keys[a] # rec.id
    BY <1>2, <1>6 DEF Contains
  <2>3. /\ DOMAIN next.keys = DOMAIN keys \cup {m} /\ next.keys[m] = rec.id
        /\ \A a \in DOMAIN keys : next.keys[a] = keys[a] /\ a < m
        /\ m \in Nat /\ \A a \in DOMAIN keys : a \in Nat
    BY <1>1, <1>2, <2>1
  <2> HIDE DEF next, keys, m, rec
  <2>4. \A i \in 1 .. n : \E a \in DOMAIN next.keys : next.keys[a] = log[i].id
    BY <1>1, <2>3 DEF SeenInv, keys, rec
  <2>5. \A a \in DOMAIN next.keys : \E i \in 1 .. n : log[i].id = next.keys[a]
    BY <1>1, <2>3 DEF SeenInv, keys, rec
  <2>6. ASSUME NEW a \in DOMAIN keys PROVE FirstBefore(log, keys[a], rec.id)
    <3>1. PICK i \in 1 .. (n - 1) : log[i].id = keys[a]
      BY DEF SeenInv, keys
    <3>2. ASSUME NEW j \in DOMAIN log, log[j].id = rec.id PROVE i < j
      <4>1. j \notin 1 .. (n - 1)
        BY <2>2, <3>2 DEF SeenInv, keys
      <4> QED BY <1>1, <3>1, <4>1
    <3> QED BY <1>1, <3>1, <3>2 DEF FirstBefore
  <2>7. ASSUME NEW a \in DOMAIN next.keys, NEW b \in DOMAIN next.keys, a < b
        PROVE  FirstBefore(log, next.keys[a], next.keys[b])
    <3>1. a \in DOMAIN keys
      BY <2>3, <2>7
    <3>2. CASE b \in DOMAIN keys
      BY <2>3, <2>7, <3>1, <3>2 DEF SeenInv, keys
    <3>3. CASE b = m
      BY <2>3, <2>6, <3>1, <3>3
    <3> QED BY <2>3, <3>2, <3>3
  <2> QED BY <1>3, <1>4, <2>4, <2>5, <2>7 DEF SeenInv, next, rec
<1> QED BY <1>5, <1>6

\* After the last line the dict has the ids of the file and what it says of each.
LEMMA SeenDictIs ==
  ASSUME NEW log \in Seq(Line)
  PROVE  SeenInv(log, Len(log), SeenDict(log))
<1> DEFINE N == Len(log)
<1>1. N \in Nat /\ DOMAIN log = 1 .. N
  OBVIOUS
<1>2. PICK seen :
         /\ seen[0] = [keys |-> <<>>, value |-> [id \in Ids |-> NoDoc]]
         /\ \A n \in 1 .. N : seen[n] = Seen(seen[n - 1], log[n])
         /\ seen[N] = SeenDict(log)
  BY SeenPasses
<1> DEFINE T == {n \in 0 .. N : SeenInv(log, n, seen[n])}
<1>3. 0 \in T
  <2>1. 0 \in 0 .. N
    BY <1>1
  <2> QED BY <1>2, <2>1, SeenInvFirst
<1>4. ASSUME NEW n \in 1 .. N, n - 1 \in T PROVE n \in T
  <2>1. n \in DOMAIN log /\ n \in 0 .. N
    BY <1>1
  <2>2. SeenInv(log, n - 1, seen[n - 1])
    BY <1>4
  <2>3. SeenInv(log, n, Seen(seen[n - 1], log[n]))
    BY <2>1, <2>2, SeenInvNext
  <2> QED BY <1>2, <2>1, <2>3
<1> HIDE DEF T
<1>5. 0 .. N \subseteq T
  BY <1>1, <1>3, <1>4, Induction
<1>6. SeenInv(log, N, seen[N])
  BY <1>1, <1>5 DEF T
<1> QED BY <1>2, <1>6

-----------------------------------------------------------------------------
\* The list that scan() yielded from the first n items of the dict: a line for
\* each that is no tombstone, in the order of the items.
YieldInv(seen, n, list) ==
  /\ list \in Seq(Line)
  /\ \A i \in DOMAIN list : /\ list[i].doc # NoDoc
                            /\ list[i].doc = seen.value[list[i].id]
                            /\ \E a \in 1 .. n : seen.keys[a] = list[i].id
  /\ \A a \in 1 .. n : seen.value[seen.keys[a]] # NoDoc => Occurs(list, seen.keys[a])

\* ... which is the order in which the ids first occur in the file.
Ordered(log, list) ==
  \A i, j \in DOMAIN list : i < j => FirstBefore(log, list[i].id, list[j].id)

\* One item more
LEMMA YieldNext ==
  ASSUME NEW log, NEW seen, SeenInv(log, Len(log), seen),
         NEW n \in DOMAIN seen.keys, NEW list,
         YieldInv(seen, n - 1, list), Ordered(log, list)
  PROVE  /\ YieldInv(seen, n, Yield(seen, list, seen.keys[n]))
         /\ Ordered(log, Yield(seen, list, seen.keys[n]))
<1> DEFINE id == seen.keys[n]
           doc == seen.value[id]
           next == Yield(seen, list, id)
<1>1. seen \in SeenType /\ id \in Ids /\ list \in Seq(Line) /\ DOMAIN list = 1 .. Len(list)
  BY DEF SeenInv, SeenType, YieldInv
<1>2. /\ n \in Nat /\ 1 .. n = (1 .. (n - 1)) \cup {n}
      /\ \A a \in 1 .. (n - 1) : a \in DOMAIN seen.keys /\ a < n
  <2>1. DOMAIN seen.keys = 1 .. Len(seen.keys) /\ Len(seen.keys) \in Nat
    BY <1>1 DEF SeenType
  <2> QED BY <2>1
<1>3. CASE doc = NoDoc
  <2>1. next = list
    BY <1>3 DEF Yield
  <2> HIDE DEF next
  <2>2. YieldInv(seen, n, next)
    BY <1>2, <1>3, <2>1 DEF YieldInv
  <2> QED BY <2>1, <2>2 DEF next
<1>4. CASE doc # NoDoc
  <2> DEFINE m == Len(list) + 1
             new == DocLine(id, doc)
  <2>1. next = Append(list, new)
    BY <1>4 DEF Yield
  <2>2. new \in Line /\ new.id = id /\ new.doc = doc
    <3>1. doc \in Values
      BY <1>1 DEF SeenType
    <3> QED BY <1>1, <3>1 DEF DocLine, Line
  <2> HIDE DEF next, new
  <2>3. /\ next \in Seq(Line)
        /\ DOMAIN next = DOMAIN list \cup {m} /\ next[m] = new
        /\ \A i \in DOMAIN list : next[i] = list[i] /\ i < m
        /\ m \in Nat /\ \A i \in DOMAIN list : i \in Nat
    BY <1>1, <2>1, <2>2
  <2> HIDE DEF m
  <2>4. YieldInv(seen, n, next)
    <3>1. ASSUME NEW i \in DOMAIN next
          PROVE  /\ next[i].doc # NoDoc
                 /\ next[i].doc = seen.value[next[i].id]
                 /\ \E a \in 1 .. n : seen.keys[a] = next[i].id
      BY <1>2, <1>4, <2>2, <2>3 DEF YieldInv
    <3>2. ASSUME NEW a \in 1 .. n, seen.value[seen.keys[a]] # NoDoc
          PROVE  Occurs(next, seen.keys[a])
      <4>1. CASE a = n
        BY <2>2, <2>3, <4>1 DEF Occurs
      <4>2. CASE a \in 1 .. (n - 1)
        <5>1. PICK i \in DOMAIN list : list[i].id = seen.keys[a]
          BY <3>2, <4>2 DEF YieldInv, Occurs
        <5> QED BY <2>3, <5>1 DEF Occurs
      <4> QED BY <1>2, <4>1, <4>2
    <3> QED BY <2>3, <3>1, <3>2 DEF YieldInv
  <2>5. ASSUME NEW i \in DOMAIN list PROVE FirstBefore(log, list[i].id, id)
    <3>1. PICK a \in 1 .. (n - 1) : seen.keys[a] = list[i].id
      BY DEF YieldInv
    <3> QED BY <1>2, <3>1 DEF SeenInv
  <2>6. ASSUME NEW i \in DOMAIN next, NEW j \in DOMAIN next, i < j
        PROVE  FirstBefore(log, next[i].id, next[j].id)
    <3>1. i \in DOMAIN list
      BY <2>3, <2>6
    <3>2. CASE j \in DOMAIN list
      BY <2>3, <2>6, <3>1, <3>2 DEF Ordered
    <3>3. CASE j = m
      BY <2>2, <2>3, <2>5, <3>1, <3>3
    <3> QED BY <2>3, <3>2, <3>3
  <2> QED BY <2>4, <2>6 DEF Ordered, next
<1> QED BY <1>3, <1>4

\* What scan() yields is the live documents of the file, in order.
LEMMA ScanLoopIsScan ==
  ASSUME NEW log \in Seq(Line)
  PROVE  IsScan(ScanLoop(log), log)
<1> DEFINE seen == SeenDict(log)
           N == Len(seen.keys)
<1>1. SeenInv(log, Len(log), seen)
  BY SeenDictIs
<1>2. seen \in SeenType /\ N \in Nat /\ DOMAIN seen.keys = 1 .. N
  BY <1>1 DEF SeenInv, SeenType
<1>3. PICK list :
         /\ list[0] = <<>>
         /\ \A n \in 1 .. N : list[n] = Yield(seen, list[n - 1], seen.keys[n])
         /\ list[N] = ScanLoop(log)
  BY <1>2, ScanPasses
<1> HIDE DEF seen, N
<1> DEFINE T == {n \in 0 .. N : YieldInv(seen, n, list[n]) /\ Ordered(log, list[n])}
<1>4. 0 \in T
  <2>1. 0 \in 0 .. N /\ 1 .. 0 = {} /\ <<>> \in Seq(Line) /\ DOMAIN <<>> = {}
    BY <1>2
  <2> QED BY <1>3, <2>1 DEF YieldInv, Ordered
<1>5. ASSUME NEW n \in 1 .. N, n - 1 \in T PROVE n \in T
  <2>1. n \in DOMAIN seen.keys /\ n \in 0 .. N
    BY <1>2
  <2>2. YieldInv(seen, n - 1, list[n - 1]) /\ Ordered(log, list[n - 1])
    BY <1>5
  <2>3. /\ YieldInv(seen, n, Yield(seen, list[n - 1], seen.keys[n]))
        /\ Ordered(log, Yield(seen, list[n - 1], seen.keys[n]))
    BY <1>1, <2>1, <2>2, YieldNext
  <2> QED BY <1>3, <2>1, <2>3
<1> HIDE DEF T
<1>6. 0 .. N \subseteq T
  BY <1>2, <1>4, <1>5, Induction
<1> DEFINE s == ScanLoop(log)
<1>7. YieldInv(seen, N, s) /\ Ordered(log, s)
  <2>1. N \in T
    BY <1>2, <1>6
  <2> QED BY <1>3, <2>1 DEF T
<1> HIDE DEF s
<1>8. s \in Seq(Line) /\ \A i \in DOMAIN s : s[i].id \in Ids
  <2>1. s \in Seq(Line) /\ \A i \in DOMAIN s : s[i] \in Line
    BY <1>7 DEF YieldInv
  <2> QED BY <2>1 DEF Line
<1>9. \A id \in Ids : seen.value[id] = Get(log, id)
  BY <1>1, NewestIsGet DEF SeenInv
<1>10. \A i \in DOMAIN s : s[i].doc # NoDoc /\ s[i].doc = Get(log, s[i].id)
  BY <1>7, <1>8, <1>9 DEF YieldInv
<1>11. ASSUME NEW id \in LiveIds(log) PROVE Occurs(s, id)
  <2>1. id \in Ids /\ Get(log, id) # NoDoc /\ Occurs(log, id)
    BY GetNothing DEF LiveIds
  <2>2. PICK i \in 1 .. Len(log) : log[i].id = id
    BY <2>1 DEF Occurs
  <2>3. PICK a \in 1 .. N : seen.keys[a] = id
    BY <1>1, <1>2, <2>2 DEF SeenInv
  <2> QED BY <1>7, <1>9, <2>1, <2>3 DEF YieldInv
<1>12. ASSUME NEW i \in DOMAIN s, NEW j \in DOMAIN s, i < j
       PROVE  s[i].id # s[j].id /\ FirstBefore(log, s[i].id, s[j].id)
  BY <1>7, <1>12, FirstBeforeStrict DEF Ordered
<1> QED BY <1>8, <1>10, <1>11, <1>12 DEF IsScan, s

\* A file has no two scans.
LEMMA OneScan ==
  ASSUME NEW log \in Seq(Line), NEW s \in Scans(log), NEW r \in Scans(log)
  PROVE  s = r
<1> DEFINE N == Len(s)
<1>1. /\ IsScan(s, log) /\ IsScan(r, log) /\ DOMAIN s = DOMAIN r
  BY DEF Scans
<1>2. /\ s \in Seq(Line) /\ r \in Seq(Line) /\ N \in Nat
      /\ DOMAIN s = 1 .. N /\ DOMAIN r = 1 .. N
  BY <1>1 DEF IsScan
<1> DEFINE T == {n \in 0 .. N : \A i \in 1 .. n : s[i] = r[i]}
<1>3. 0 \in T
  BY <1>2
<1>4. ASSUME NEW n \in 1 .. N, n - 1 \in T PROVE n \in T
  <2>1. \A i \in 1 .. (n - 1) : s[i] = r[i]
    BY <1>4
  <2>2. s[n] \in Line /\ r[n] \in Line /\ n \in DOMAIN s /\ n \in DOMAIN r
    BY <1>2
  <2>3. ASSUME NEW t, NEW u, IsScan(t, log), IsScan(u, log),
               DOMAIN t = 1 .. N, DOMAIN u = 1 .. N,
               \A i \in 1 .. (n - 1) : t[i] = u[i],
               t[n].id # u[n].id
        PROVE  FirstBefore(log, u[n].id, t[n].id)
    <3>1. t[n].id \in LiveIds(log)
      <4>1. t[n] \in Line /\ t[n].doc # NoDoc /\ t[n].doc = Get(log, t[n].id)
        BY <2>3 DEF IsScan
      <4> QED BY <4>1 DEF Line, LiveIds
    <3>2. PICK j \in 1 .. N : u[j].id = t[n].id
      BY <2>3, <3>1 DEF IsScan, Occurs
    <3>3. ~(j < n)
      <4> SUFFICES ASSUME j < n PROVE FALSE
        OBVIOUS
      <4>1. t[j] = u[j]
        BY <1>2, <2>3
      <4>2. t[j].id # t[n].id
        BY <2>3 DEF IsScan
      <4> QED BY <3>2, <4>1, <4>2
    <3>4. n < j
      BY <1>2, <2>3, <3>2, <3>3
    <3> QED BY <2>3, <3>2, <3>4 DEF IsScan
  <2>4. s[n].id = r[n].id
    <3>1. s[n].id # r[n].id => FirstBefore(log, r[n].id, s[n].id)
      BY <1>1, <1>2, <2>1, <2>3
    <3>2. s[n].id # r[n].id => FirstBefore(log, s[n].id, r[n].id)
      BY <1>1, <1>2, <2>1, <2>3
    <3> QED BY <3>1, <3>2, FirstBeforeStrict
  <2>5. s[n].doc = r[n].doc
    BY <1>1, <2>2, <2>4 DEF IsScan
  <2>6. s[n] = r[n]
    BY <2>2, <2>4, <2>5 DEF Line
  <2>7. n \in 0 .. N /\ 1 .. n = (1 .. (n - 1)) \cup {n}
    BY <1>2
  <2> QED BY <2>1, <2>6, <2>7
<1> HIDE DEF T
<1>5. N \in T
  <2>1. 0 .. N \subseteq T
    BY <1>2, <1>3, <1>4, Induction
  <2> QED BY <1>2, <2>1
<1>6. \A i \in 1 .. N : s[i] = r[i]
  BY <1>5 DEF T
<1> QED BY <1>2, <1>6

\* A scan has one line for each live document.
LEMMA ScanSize ==
  ASSUME NEW log, NEW s, IsScan(s, log)
  PROVE  Len(s) = Cardinality(LiveIds(log)) /\ TombstoneLines(s) = {}
<1>1. /\ s \in Seq(Line)
      /\ \A i \in DOMAIN s : s[i].doc # NoDoc /\ s[i].doc = Get(log, s[i].id)
      /\ \A id \in LiveIds(log) : Occurs(s, id)
      /\ \A i, j \in DOMAIN s : i < j => s[i].id # s[j].id
  BY DEF IsScan
<1>2. DOMAIN s = 1 .. Len(s) /\ Len(s) \in Nat /\ \A i \in 1 .. Len(s) : s[i].id \in Ids
  <2>1. DOMAIN s = 1 .. Len(s) /\ Len(s) \in Nat /\ \A i \in 1 .. Len(s) : s[i] \in Line
    BY <1>1
  <2> QED BY <2>1 DEF Line
<1> DEFINE S == 1 .. Len(s)
           T == LiveIds(log)
           f == [i \in S |-> s[i].id]
<1>3. \A i \in S : f[i] \in T
  BY <1>1, <1>2 DEF LiveIds
<1>4. \A id \in T : \E i \in S : f[i] = id
  BY <1>1, <1>2 DEF Occurs
<1>5. \A i, j \in S : f[i] = f[j] => i = j
  <2>1. \A i, j \in S : f[i] = f[j] => ~(i < j) /\ ~(j < i)
    BY <1>1, <1>2
  <2> QED BY <1>2, <2>1
<1>6. f \in [S -> T]
  BY <1>3
<1> HIDE DEF f, S, T
<1>7. f \in Surjection(S, T) /\ f \in Injection(S, T)
  BY <1>4, <1>5, <1>6 DEF Surjection, Injection, IsInjective
<1>8. IsFiniteSet(S) /\ Cardinality(S) = Len(s)
  BY <1>2, FS_Interval DEF S
<1>9. Cardinality(T) = Cardinality(S)
  BY <1>7, <1>8, FS_Surjection
<1>10. TombstoneLines(s) = {}
  BY <1>1 DEF TombstoneLines
<1> QED BY <1>8, <1>9, <1>10 DEF T

\* So scan() has one result, for every file.
LEMMA ScanLoopOnly ==
  ASSUME NEW log \in Seq(Line)
  PROVE  Scans(log) = {ScanLoop(log)}
<1> DEFINE s == ScanLoop(log)
<1>1. IsScan(s, log)
  BY ScanLoopIsScan
<1> HIDE DEF s
<1>2. Len(s) = Cardinality(LiveIds(log)) /\ s \in Seq(Line)
  BY <1>1, ScanSize DEF IsScan
<1>3. ASSUME NEW i \in DOMAIN s PROVE s[i] \in LiveLines(log)
  <2>1. s[i] \in Line /\ s[i].doc # NoDoc /\ s[i].doc = Get(log, s[i].id)
    BY <1>1 DEF IsScan
  <2>2. s[i] = DocLine(s[i].id, Get(log, s[i].id)) /\ s[i].id \in LiveIds(log)
    BY <2>1 DEF Line, DocLine, LiveIds
  <2> QED BY <2>2 DEF LiveLines
<1>4. s \in [1 .. Cardinality(LiveIds(log)) -> LiveLines(log)]
  BY <1>2, <1>3
<1>5. s \in Scans(log)
  BY <1>1, <1>4 DEF Scans
<1> QED BY <1>5, OneScan DEF s

-----------------------------------------------------------------------------
(* The inductive invariant *)

\* No line was cut off: get() and scan() do not raise on the file.
Clean(log) == \A i \in DOMAIN log : log[i] # Garbage

\* A compaction in progress holds a scan of the file, which nothing changed
\* since, and has written a beginning of it.
CompactionInv ==
  phase = "compacting" =>
    /\ exists /\ Clean(lines)
    /\ IsScan(live, lines)
    /\ Len(tmp) <= Len(live)
    /\ \A i \in 1 .. Len(tmp) : tmp[i] = live[i]

\* The inductive invariant.  Expected values are stated of the lines alone:
\* a missing file has none.
IInv ==
  /\ TypeOK
  /\ Clean(lines) => \A id \in Ids : Get(lines, id) \in expected[id]
  /\ CompactionInv

\* What a cut-off write leaves is none of the lines that the code writes.
LEMMA GarbageIsNoLine == Garbage \notin Line
  BY NoIdAssumption DEF Garbage, Line

\* A file without garbage consists of lines that the code wrote.
LEMMA LinesType ==
  ASSUME TypeOK
  PROVE  /\ lines \in Seq(Line \cup {Garbage})
         /\ Clean(lines) => lines \in Seq(Line)
<1>1. lines \in Seq(Line \cup {Garbage})
  BY DEF TypeOK
<1>2. ASSUME Clean(lines) PROVE \A i \in 1 .. Len(lines) : lines[i] \in Line
  BY <1>1, <1>2 DEF Clean
<1> QED
  BY <1>1, <1>2

\* Before create() there is no file and nothing to read.
LEMMA InitIInv == Init => IInv
<1> SUFFICES ASSUME Init PROVE IInv
  OBVIOUS
<1>1. TypeOK
  <2>1. /\ lines = <<>> /\ live = <<>> /\ tmp = <<>>
        /\ exists = FALSE /\ unended = FALSE /\ phase = "idle"
    BY DEF Init
  <2>2. expected \in [Ids -> SUBSET Values]
    BY DEF Init, Values
  <2>3. <<>> \in Seq(Line) /\ <<>> \in Seq(Line \cup {Garbage})
    OBVIOUS
  <2> QED BY <2>1, <2>2, <2>3 DEF TypeOK
<1>2. \A id \in Ids : Get(lines, id) \in expected[id]
  <2>1. lines = <<>>
    BY DEF Init
  <2>2. \A id : ~Occurs(lines, id)
    BY <2>1 DEF Occurs
  <2> QED BY <2>2, GetNothing DEF Init
<1>3. CompactionInv
  BY DEF Init, CompactionInv
<1> QED
  BY <1>1, <1>2, <1>3 DEF IInv

-----------------------------------------------------------------------------
(* Writes *)

\* The file after a write, cut off or not, keeps its type; what was Garbage
\* stays, and if nothing is Garbage the text is one more line.
LEMMA WrittenLines ==
  ASSUME TypeOK, NEW text \in Line \cup {Garbage}
  PROVE  /\ Written(text) \in Seq(Line \cup {Garbage})
         /\ Written(text) # <<>>
         /\ Clean(Written(text)) =>
              Clean(lines) /\ text # Garbage /\ Written(text) = Append(lines, text)
<1>0. lines \in Seq(Line \cup {Garbage}) /\ Len(lines) \in Nat
  BY DEF TypeOK
<1>1. CASE unended
  <2>1. Len(lines) \in 1 .. Len(lines)
    BY <1>0, <1>1 DEF TypeOK
  <2>2. Written(text) = [lines EXCEPT ![Len(lines)] = Garbage]
    BY <1>1 DEF Written
  <2>3. /\ Written(text) \in Seq(Line \cup {Garbage})
        /\ Len(Written(text)) = Len(lines)
        /\ Written(text)[Len(lines)] = Garbage
    BY <1>0, <2>1, <2>2
  <2>4. ~Clean(Written(text))
    BY <2>1, <2>3 DEF Clean
  <2> QED BY <1>0, <2>1, <2>3, <2>4
<1>2. CASE ~unended
  <2>1. Written(text) = Append(lines, text)
    BY <1>2 DEF Written
  <2>2. /\ Written(text) \in Seq(Line \cup {Garbage})
        /\ Len(Written(text)) = Len(lines) + 1
        /\ Written(text)[Len(lines) + 1] = text
        /\ \A i \in 1 .. Len(lines) : Written(text)[i] = lines[i]
    BY <1>0, <2>1
  <2>3. Clean(Written(text)) => Clean(lines) /\ text # Garbage
    BY <1>0, <2>2 DEF Clean
  <2> QED BY <1>0, <2>1, <2>2, <2>3
<1> QED
  BY <1>1, <1>2

\* Any write whose text may be read afterwards is among the expected values.
LEMMA WriteStep ==
  ASSUME IInv, NEW id \in Ids, NEW doc \in Values, NEW text \in {Garbage, DocLine(id, doc)},
         phase = "idle", exists' = TRUE, lines' = Written(text), unended' \in BOOLEAN,
         NEW more \in SUBSET Values,
         doc \in more,
         expected' = [expected EXCEPT ![id] = more],
         UNCHANGED <<phase, live, tmp>>
  PROVE  IInv'
<1>1. text \in Line \cup {Garbage}
  BY DEF DocLine, Line
<1>2. TypeOK'
  <2>1. lines' \in Seq(Line \cup {Garbage}) /\ lines' # <<>>
    BY <1>1, WrittenLines DEF IInv
  <2>2. expected' \in [Ids -> SUBSET Values]
    BY DEF IInv, TypeOK
  <2> QED BY <2>1, <2>2 DEF IInv, TypeOK
<1>3. ASSUME Clean(lines')
      PROVE  \A x \in Ids : Get(lines', x) \in expected'[x]
  <2>1. Clean(lines) /\ text = DocLine(id, doc) /\ lines' = Append(lines, text)
    BY <1>1, <1>3, WrittenLines DEF IInv
  <2>2. lines \in Seq(Line) /\ text \in Line
    BY <1>1, <2>1, LinesType, GarbageIsNoLine DEF IInv, DocLine, Line
  <2>3. \A x : Get(lines', x) = IF x = text.id THEN text.doc ELSE Get(lines, x)
    <3>1. \A x : Get(Append(lines, text), x)
                   = IF x = text.id THEN text.doc ELSE Get(lines, x)
      BY <2>2, GetAppend
    <3> QED BY <2>1, <3>1
  <2>4. text.id = id /\ text.doc = doc
    BY <2>1 DEF DocLine
  <2>5. ASSUME NEW x \in Ids PROVE Get(lines', x) \in expected'[x]
    <3>1. CASE x = id
      BY <2>3, <2>4, <3>1 DEF IInv, TypeOK
    <3>2. CASE x # id
      BY <2>1, <2>3, <2>4, <3>2 DEF IInv, TypeOK
    <3> QED BY <3>1, <3>2
  <2> QED BY <2>3, <2>5
<1>4. CompactionInv'
  BY DEF CompactionInv
<1> QED
  BY <1>2, <1>3, <1>4 DEF IInv, Clean

-----------------------------------------------------------------------------
(* Compaction *)

\* When the .tmp file is complete it is the scan of the file it replaces.
LEMMA TmpIsScan ==
  ASSUME IInv, CompactReplace
  PROVE  lines' = live /\ IsScan(lines', lines) /\ lines \in Seq(Line) /\ lines' \in Seq(Line)
<1>1. /\ phase = "compacting" /\ Len(tmp) = Len(live) /\ lines' = tmp
      /\ tmp \in Seq(Line) /\ live \in Seq(Line)
  BY DEF CompactReplace, IInv, TypeOK
<1>2. tmp = live
  <2>1. \A i \in 1 .. Len(tmp) : tmp[i] = live[i]
    BY <1>1 DEF IInv, CompactionInv
  <2> QED BY <1>1, <2>1
<1> QED
  BY <1>1, <1>2, LinesType DEF IInv, CompactionInv

\* tmp.replace(path): the new file reads like the old one.
LEMMA ReplaceStep == IInv /\ CompactReplace => IInv'
<1> SUFFICES ASSUME IInv, CompactReplace PROVE IInv'
  OBVIOUS
<1>1. IsScan(lines', lines) /\ lines' \in Seq(Line)
  BY TmpIsScan
<1>2. TypeOK'
  <2>1. lines' \in Seq(Line \cup {Garbage})
    BY <1>1
  <2>2. exists' \in BOOLEAN /\ (~exists' => lines' = <<>>)
    BY DEF IInv, TypeOK, CompactionInv, CompactReplace
  <2>3. /\ unended' = FALSE /\ phase' = "idle"
        /\ live' \in Seq(Line) /\ tmp' \in Seq(Line)
        /\ expected' \in [Ids -> SUBSET Values]
    BY DEF CompactReplace, IInv, TypeOK
  <2> QED BY <2>1, <2>2, <2>3 DEF TypeOK
<1>3. \A id \in Ids : Get(lines', id) = Get(lines, id)
  BY <1>1, GetScan
<1>4. \A id \in Ids : Get(lines', id) \in expected'[id]
  BY <1>3 DEF CompactReplace, IInv, CompactionInv
<1>5. CompactionInv'
  BY DEF CompactReplace, CompactionInv
<1> QED
  BY <1>2, <1>3, <1>4, <1>5 DEF IInv

\* live = list(store.scan()): the list is a scan of the file.
LEMMA StartStep == IInv /\ CompactStart => IInv'
<1> SUFFICES ASSUME IInv, CompactStart PROVE IInv'
  OBVIOUS
<1>1. IsScan(live', lines)
  BY DEF CompactStart, Scans
<1>2. live' \in Seq(Line)
  BY <1>1 DEF IsScan
<1>3. TypeOK'
  BY <1>2 DEF CompactStart, IInv, TypeOK
<1>4. CompactionInv'
  BY <1>1, <1>2 DEF CompactStart, CompactionInv, Readable, Clean
<1> QED
  BY <1>3, <1>4 DEF CompactStart, IInv, Clean

\* A line more in the .tmp file.
LEMMA TmpStep == IInv /\ CompactWrite => IInv'
<1> SUFFICES ASSUME IInv, CompactWrite PROVE IInv'
  OBVIOUS
<1> DEFINE n == Len(tmp) + 1
<1>1. /\ tmp \in Seq(Line) /\ live \in Seq(Line)
      /\ n \in 1 .. Len(live)
      /\ tmp' = Append(tmp, live[n])
      /\ live[n] \in Line
  BY DEF CompactWrite, IInv, TypeOK
<1>2. /\ tmp' \in Seq(Line) /\ Len(tmp') = n
      /\ tmp'[n] = live[n]
      /\ \A i \in 1 .. Len(tmp) : tmp'[i] = tmp[i]
  BY <1>1
<1>3. TypeOK'
  BY <1>2 DEF CompactWrite, IInv, TypeOK
<1>4. CompactionInv'
  <2>1. \A i \in 1 .. n : tmp'[i] = live[i]
    BY <1>1, <1>2 DEF CompactWrite, IInv, CompactionInv
  <2> QED BY <1>1, <1>2, <2>1 DEF CompactWrite, IInv, CompactionInv, Clean
<1> QED
  BY <1>3, <1>4 DEF CompactWrite, IInv, Clean

-----------------------------------------------------------------------------

\* Every step keeps the inductive invariant.
LEMMA InvStep == IInv /\ [Next]_vars => IInv'
<1> SUFFICES ASSUME IInv, [Next]_vars PROVE IInv'
  OBVIOUS
<1>1. CASE Create
  BY <1>1 DEF Create, IInv, TypeOK, CompactionInv, Clean
<1>2. CASE Destroy
  <2>1. lines' = <<>> /\ phase' = "idle"
    BY <1>2 DEF Destroy
  <2>2. \A id : ~Occurs(lines', id)
    BY <2>1 DEF Occurs
  <2>3. \A id \in Ids : Get(lines', id) \in expected'[id]
    BY <1>2, <2>2, GetNothing DEF Destroy
  <2>4. TypeOK'
    <3>1. <<>> \in Seq(Line \cup {Garbage})
      OBVIOUS
    <3>2. expected' \in [Ids -> SUBSET Values]
      BY <1>2 DEF Destroy, Values
    <3>3. exists' = FALSE /\ unended' = FALSE /\ UNCHANGED <<phase, live, tmp>>
      BY <1>2 DEF Destroy
    <3> QED BY <2>1, <3>1, <3>2, <3>3 DEF IInv, TypeOK
  <2> QED BY <2>1, <2>3, <2>4 DEF IInv, CompactionInv
<1>3. ASSUME NEW id \in Ids, NEW doc \in Values, WriteLine(id, doc) PROVE IInv'
  <2>1. phase = "idle" /\ exists' = TRUE /\ unended' \in BOOLEAN /\ UNCHANGED <<phase, live, tmp>>
    BY <1>3 DEF WriteLine
  <2>2. lines' = Written(DocLine(id, doc)) /\ expected' = [expected EXCEPT ![id] = {doc}]
    BY <1>3 DEF WriteLine
  <2> QED BY <2>1, <2>2, WriteStep
<1>4. ASSUME NEW id \in Ids, NEW doc \in Values, WriteFails(id, doc) PROVE IInv'
  <2>1. phase = "idle" /\ exists' = TRUE /\ unended' \in BOOLEAN /\ UNCHANGED <<phase, live, tmp>>
    BY <1>4 DEF WriteFails
  <2>2. PICK text \in {Garbage, DocLine(id, doc)} : lines' = Written(text)
    BY <1>4 DEF WriteFails
  <2>3. expected' = [expected EXCEPT ![id] = expected[id] \cup {doc}]
    BY <1>4 DEF WriteFails
  <2>4. expected[id] \cup {doc} \in SUBSET Values
    BY DEF IInv, TypeOK
  <2>5. doc \in expected[id] \cup {doc}
    OBVIOUS
  <2> QED BY <2>1, <2>2, <2>3, <2>4, <2>5, WriteStep
<1>5. CASE CompactStart
  BY <1>5, StartStep
<1>6. CASE CompactWrite
  BY <1>6, TmpStep
<1>7. CASE CompactReplace
  BY <1>7, ReplaceStep
<1>8. CASE CompactFails
  BY <1>8 DEF CompactFails, IInv, TypeOK, CompactionInv, Clean
<1>9. CASE Crash
  BY <1>9 DEF Crash, IInv, TypeOK, CompactionInv, Clean
<1>10. CASE UNCHANGED vars
  BY <1>10 DEF vars, IInv, TypeOK, CompactionInv, Clean
<1> QED
  BY <1>1, <1>2, <1>3, <1>4, <1>5, <1>6, <1>7, <1>8, <1>9, <1>10 DEF Next

\* The invariant holds in every state of the store.
THEOREM Invariance == Spec => []IInv
  BY InitIInv, InvStep, PTL DEF Spec

\* The variables keep their types, for any ids, documents and lengths.
THEOREM TypeCorrect == Spec => []TypeOK
  BY Invariance, PTL DEF IInv

\* A file that reads at all shows the last acknowledged write of each id, or
\* a failed one after it.
THEOREM NoLies == Spec => []ReadsNeverLie
<1>1. IInv => ReadsNeverLie
  BY DEF IInv, ReadsNeverLie, Readable, Clean
<1> QED
  BY Invariance, <1>1, PTL

\* The loops of get() and scan() return what Get and Scans say, and scan() has
\* one result, of every file that can be read.
THEOREM LoopsAlwaysAgree == Spec => []LoopsAgree
<1>1. IInv => LoopsAgree
  <2> SUFFICES ASSUME IInv, Readable PROVE LoopsAgree
    BY DEF LoopsAgree
  <2>1. lines \in Seq(Line)
    BY LinesType DEF IInv, Readable, Clean
  <2> QED BY <2>1, ScanLoopOnly, GetLoopIsGet DEF LoopsAgree
<1> QED
  BY Invariance, <1>1, PTL

\* No step of a compaction shows in a scan, order included.
THEOREM InvisibleCompaction == Spec => CompactionInvisible
<1>1. IInv /\ [Next]_vars => [phase = "compacting" => Scans(lines') = Scans(lines)]_vars
  <2> SUFFICES ASSUME IInv, Next, phase = "compacting"
               PROVE  Scans(lines') = Scans(lines)
    OBVIOUS
  <2>1. CASE CompactReplace
    BY <2>1, TmpIsScan, SameScans
  <2>2. CASE UNCHANGED lines
    BY <2>2
  <2> QED
    BY <2>1, <2>2 DEF Next, Create, Destroy, WriteLine, WriteFails, CompactStart,
                      CompactWrite, CompactFails, Crash
<1> QED
  BY Invariance, <1>1, PTL DEF Spec, CompactionInvisible

\* The file that replaces the old one has a line for each live document and no
\* other, so that get_stats counts what is there.
THEOREM MinimalCompaction == Spec => CompactionMinimal
<1>1. IInv /\ [Next]_vars =>
        [phase = "compacting" /\ lines' # lines =>
           DocumentCount(lines') = Cardinality(LiveIds(lines))
           /\ Len(lines') = Cardinality(LiveIds(lines))]_vars
  <2> SUFFICES ASSUME IInv, Next, phase = "compacting", lines' # lines
               PROVE  DocumentCount(lines') = Cardinality(LiveIds(lines))
                      /\ Len(lines') = Cardinality(LiveIds(lines))
    OBVIOUS
  <2>1. CompactReplace
    BY DEF Next, Create, Destroy, WriteLine, WriteFails, CompactStart, CompactWrite,
           CompactFails, Crash
  <2>2. IsScan(lines', lines) /\ lines' \in Seq(Line)
    BY <2>1, TmpIsScan
  <2>3. Len(lines') = Cardinality(LiveIds(lines)) /\ TombstoneLines(lines') = {}
    BY <2>2, ScanSize
  <2>4. DocumentCount(lines') = Len(lines')
    <3>1. Len(lines') \in Nat /\ Cardinality({}) = 0
      BY <2>2, FS_EmptySet
    <3> QED BY <2>3, <3>1 DEF DocumentCount
  <2> QED BY <2>3, <2>4
<1> QED
  BY Invariance, <1>1, PTL DEF Spec, CompactionMinimal

\* What cut-off writes made unreadable stays so until the file is destroyed.
THEOREM UnreadableStays == Spec => UnreadableIsForGood
<1>1. IInv /\ [Next]_vars => [exists /\ ~Readable => ~Readable']_vars
  <2> SUFFICES ASSUME IInv, Next, exists, ~Readable
               PROVE  ~Readable'
    OBVIOUS
  <2>1. ~Clean(lines) /\ phase # "compacting"
    BY DEF Readable, Clean, IInv, CompactionInv
  <2>2. ASSUME NEW id \in Ids, NEW doc \in Values, WriteLine(id, doc) \/ WriteFails(id, doc)
        PROVE  ~Clean(lines')
    <3>1. PICK text \in {Garbage, DocLine(id, doc)} : lines' = Written(text)
      BY <2>2 DEF WriteLine, WriteFails
    <3>2. text \in Line \cup {Garbage}
      BY DEF DocLine, Line
    <3> QED BY <2>1, <3>1, <3>2, WrittenLines DEF IInv
  <2>3. exists' /\ Clean(lines') => FALSE
    BY <2>1, <2>2 DEF Next, Create, Destroy, CompactStart, CompactWrite, CompactReplace,
                      CompactFails, Crash
  <2> QED BY <2>3 DEF Readable, Clean
<1> QED
  BY Invariance, <1>1, PTL DEF Spec, UnreadableIsForGood
=============================================================================
