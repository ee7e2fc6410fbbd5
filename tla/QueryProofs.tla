---------------------------- MODULE QueryProofs ----------------------------
(***************************************************************************)
(* Query for any values, ids and queries: what a query yields while the    *)
(* collection is written, and what it can miss, repeat or break on.        *)
(***************************************************************************)
EXTENDS Query, FiniteSetTheorems, SequenceTheorems, TLAPS

-----------------------------------------------------------------------------
(* The planner *)

Scans == {"full", "lookup", "range"}

\* A plan names keys in order, and a lookup one key of the index.
LEMMA PlanType ==
  ASSUME NEW q \in Queries
  PROVE  /\ Plan(q) \in [scan : Scans, low : Nat, high : Nat]
         /\ Plan(q).scan = "lookup" => Plan(q).low \in Keys /\ Plan(q).high = Plan(q).low
<1>1. CASE q = <<>>
  BY <1>1 DEF Plan, FullScan, Scans
<1>2. CASE q # <<>>
  <2>1. 1 \in DOMAIN q /\ q[1] \in Seq(Clauses) /\ q[1] # <<>>
    BY <1>2, QueriesAssumption
  <2> DEFINE clause == q[1][1]
  <2>2. clause \in Clauses
    BY <2>1
  <2> HIDE DEF clause
  <2>3. Plan(q) = Parse(q[1]) /\ clause = q[1][1]
    BY <1>2 DEF Plan, clause
  <2>4. CASE clause.op = "=="
    <3>1. clause.value \in Values
      BY <2>2, <2>4 DEF Clauses
    <3> QED BY <2>3, <2>4, <3>1, ValuesAssumption DEF Parse, Lookup, Keys, Scans
  <2>5. CASE clause.op \in {">=", ">", "<=", "<"}
    <3>1. clause.value \in Values
      BY <2>2, <2>5 DEF Clauses
    <3>2. Key[clause.value] \in Nat /\ LastKey \in Nat
      BY <3>1, ValuesAssumption
    <3> QED BY <2>3, <2>5, <3>2 DEF Parse, RangeScan, Scans
  <2>6. CASE clause.op = "between"
    <3>1. clause.low \in Values /\ clause.high \in Values
      BY <2>2, <2>6 DEF Clauses
    <3>2. Key[clause.low] \in Nat /\ Key[clause.high] \in Nat
      BY <3>1, ValuesAssumption
    <3> QED BY <2>3, <2>6, <3>2 DEF Parse, RangeScan, Scans
  <2>7. CASE clause.op = "opaque"
    BY <2>3, <2>7 DEF Parse, FullScan, Scans
  <2> QED BY <2>2, <2>4, <2>5, <2>6, <2>7 DEF Clauses
<1> QED BY <1>1, <1>2

\* A value that satisfies the query lies within the keys of its plan, when
\* strings order it as numbers do (planner.py _parse_predicate).
LEMMA PlanCovers ==
  ASSUME NEW q \in Queries, NEW v \in Values, Matches(q, v), InOrder(q, v),
         Plan(q).scan # "full"
  PROVE  Key[v] \in Plan(q).low .. Plan(q).high
<1>1. q # <<>>
  BY DEF Plan, FullScan
<1>2. 1 \in DOMAIN q /\ q[1] \in Seq(Clauses) /\ q[1] # <<>>
  BY <1>1, QueriesAssumption
<1> DEFINE clause == q[1][1]
<1>3. clause \in Clauses /\ Holds(clause, v)
  <2>1. Satisfies(q[1], v)
    BY <1>2 DEF Matches
  <2>2. 1 \in DOMAIN q[1]
    BY <1>2
  <2> QED BY <1>2, <2>1, <2>2 DEF Satisfies
<1>4. Plan(q) = Parse(q[1])
  BY <1>1 DEF Plan
<1>5. Literals(q) = CASE clause.op = "opaque"  -> {}
                      [] clause.op = "between" -> {clause.low, clause.high}
                      [] OTHER                 -> {clause.value}
  BY <1>1 DEF Literals
<1>6. clause = q[1][1]
  OBVIOUS
<1> HIDE DEF clause
<1>7. /\ Key[v] \in Nat /\ Key[v] <= LastKey /\ LastKey \in Nat
      /\ \A w \in Values : Number[w] \in Nat /\ Key[w] \in Nat
      /\ Number[v] \in Nat
  BY ValuesAssumption DEF InOrder
<1>8. CASE clause.op \in {"==", ">=", ">", "<=", "<"}
  <2>1. clause.value \in Values
    BY <1>3, <1>8 DEF Clauses
  <2>2. /\ Number[v] < Number[clause.value] <=> Key[v] < Key[clause.value]
        /\ Number[v] = Number[clause.value] <=> Key[v] = Key[clause.value]
    BY <1>5, <1>8 DEF InOrder
  <2>3. Number[clause.value] \in Nat /\ Key[clause.value] \in Nat
    BY <1>7, <2>1
  <2>4. CASE clause.op = "=="
    BY <1>3, <1>4, <1>6, <1>7, <2>2, <2>3, <2>4 DEF Holds, Parse, Lookup
  <2>5. CASE clause.op \in {">=", ">"}
    <3>1. Number[v] >= Number[clause.value]
      <4>1. CASE clause.op = ">="
        BY <1>3, <4>1 DEF Holds
      <4>2. CASE clause.op = ">"
        <5>1. Number[v] > Number[clause.value]
          BY <1>3, <4>2 DEF Holds
        <5> QED BY <1>7, <2>3, <5>1
      <4> QED BY <2>5, <4>1, <4>2
    <3>2. Key[clause.value] <= Key[v]
      BY <1>7, <2>2, <2>3, <3>1
    <3> QED BY <1>4, <1>6, <1>7, <2>3, <2>5, <3>2 DEF Parse, RangeScan
  <2>6. CASE clause.op \in {"<=", "<"}
    <3>1. Number[v] <= Number[clause.value]
      <4>1. CASE clause.op = "<="
        BY <1>3, <4>1 DEF Holds
      <4>2. CASE clause.op = "<"
        <5>1. Number[v] < Number[clause.value]
          BY <1>3, <4>2 DEF Holds
        <5> QED BY <1>7, <2>3, <5>1
      <4> QED BY <2>6, <4>1, <4>2
    <3>2. Key[v] <= Key[clause.value]
      BY <1>7, <2>2, <2>3, <3>1
    <3> QED BY <1>4, <1>6, <1>7, <2>3, <2>6, <3>2 DEF Parse, RangeScan
  <2> QED BY <1>8, <2>4, <2>5, <2>6
<1>9. CASE clause.op = "between"
  <2>1. clause.low \in Values /\ clause.high \in Values
    BY <1>3, <1>9 DEF Clauses
  <2>2. /\ Number[v] < Number[clause.low] <=> Key[v] < Key[clause.low]
        /\ Number[v] < Number[clause.high] <=> Key[v] < Key[clause.high]
        /\ Number[v] = Number[clause.high] <=> Key[v] = Key[clause.high]
    BY <1>5, <1>9 DEF InOrder
  <2>3. /\ Number[clause.low] \in Nat /\ Key[clause.low] \in Nat
        /\ Number[clause.high] \in Nat /\ Key[clause.high] \in Nat
    BY <1>7, <2>1
  <2>4. Number[v] \in Number[clause.low] .. Number[clause.high]
    BY <1>3, <1>9 DEF Holds
  <2>5. Key[v] \in Key[clause.low] .. Key[clause.high]
    BY <1>7, <2>2, <2>3, <2>4
  <2> QED BY <1>4, <1>6, <1>9, <2>5 DEF Parse, RangeScan
<1>10. CASE clause.op = "opaque"
  BY <1>4, <1>6, <1>10 DEF Parse, FullScan
<1> QED BY <1>3, <1>8, <1>9, <1>10 DEF Clauses

-----------------------------------------------------------------------------
(* The lists of ids *)

\* What an iteration that has come to position n of a list has read of it
First(list, n) == {list[m] : m \in {x \in DOMAIN list : x <= n}}

\* Reading the next id adds it, and it is not read before.
LEMMA FirstGrows ==
  ASSUME NEW list \in Seq(Ids), NEW n \in Nat
  PROVE  /\ First(list, 0) = {}
         /\ First(list, n) \subseteq ToSet(list)
         /\ n >= Len(list) => First(list, n) = ToSet(list)
         /\ n < Len(list) =>
              /\ list[n + 1] \in Ids /\ list[n + 1] \in ToSet(list)
              /\ First(list, n + 1) = First(list, n) \cup {list[n + 1]}
              /\ IsInjective(list) => list[n + 1] \notin First(list, n)
<1>1. DOMAIN list = 1 .. Len(list) /\ Len(list) \in Nat
  OBVIOUS
<1>2. ASSUME n < Len(list)
      PROVE  /\ list[n + 1] \in Ids /\ list[n + 1] \in ToSet(list)
             /\ First(list, n + 1) = First(list, n) \cup {list[n + 1]}
             /\ IsInjective(list) => list[n + 1] \notin First(list, n)
  <2>1. n + 1 \in DOMAIN list /\ ~(n + 1 <= n) /\ n + 1 <= n + 1
    BY <1>1, <1>2
  <2>2. \A x \in DOMAIN list : x <= n + 1 <=> x <= n \/ x = n + 1
    BY <1>1
  <2>3. list[n + 1] \in Ids /\ list[n + 1] \in ToSet(list)
    BY <2>1 DEF ToSet
  <2>4. First(list, n + 1) = First(list, n) \cup {list[n + 1]}
    BY <2>1, <2>2 DEF First
  <2>5. IsInjective(list) => list[n + 1] \notin First(list, n)
    BY <2>1 DEF First, IsInjective
  <2> QED BY <2>3, <2>4, <2>5
<1>3. First(list, 0) = {} /\ First(list, n) \subseteq ToSet(list)
  BY <1>1 DEF First, ToSet
<1>4. n >= Len(list) => First(list, n) = ToSet(list)
  BY <1>1 DEF First, ToSet
<1> QED BY <1>2, <1>3, <1>4

\* An id that is taken out moves those behind it one forward.
LEMMA TakenOut ==
  ASSUME NEW list \in Seq(Ids), IsInjective(list), NEW i \in Ids
  PROVE  /\ TakeOut(list, i) \in Seq(Ids)
         /\ IsInjective(TakeOut(list, i))
         /\ ToSet(TakeOut(list, i)) = ToSet(list) \ {i}
         /\ \A n \in Nat : /\ First(list, n) \ {i} \subseteq First(TakeOut(list, i), n)
                           /\ First(TakeOut(list, i), n) \subseteq First(list, n + 1)
<1>1. DOMAIN list = 1 .. Len(list) /\ Len(list) \in Nat
  OBVIOUS
<1>2. CASE i \notin ToSet(list)
  <2>1. TakeOut(list, i) = list
    BY <1>1, <1>2 DEF TakeOut, RemoveFirst, ToSet
  <2>2. \A n \in Nat : First(list, n) \subseteq First(list, n + 1)
    BY <1>1 DEF First
  <2> QED BY <1>2, <2>1, <2>2
<1>3. CASE i \in ToSet(list)
  <2>1. PICK p \in 1 .. Len(list) : list[p] = i
    BY <1>1, <1>3 DEF ToSet
  <2>2. {m \in 1 .. Len(list) : list[m] = i} = {p}
    BY <1>1, <2>1 DEF IsInjective
  <2>3. SelectInSeq(list, LAMBDA v : v = i) = p
    <3>1. Min({p}) = p
      BY <2>1 DEF Min
    <3> QED BY <2>2, <3>1 DEF SelectInSeq
  <2> DEFINE rest == SubSeq(list, 1, p - 1) \o SubSeq(list, p + 1, Len(list))
  <2>4. TakeOut(list, i) = rest
    BY <2>1, <2>3 DEF TakeOut, RemoveFirst, RemoveAt
  <2>5. /\ rest \in Seq(Ids)
        /\ Len(rest) = Len(list) - 1
        /\ \A m \in 1 .. Len(list) - 1 : rest[m] = IF m < p THEN list[m] ELSE list[m + 1]
    <3>1. /\ SubSeq(list, 1, p - 1) \in Seq(Ids) /\ Len(SubSeq(list, 1, p - 1)) = p - 1
          /\ \A m \in 1 .. p - 1 : SubSeq(list, 1, p - 1)[m] = list[m]
      BY <1>1, <2>1
    <3>2. /\ SubSeq(list, p + 1, Len(list)) \in Seq(Ids)
          /\ Len(SubSeq(list, p + 1, Len(list))) = Len(list) - p
          /\ \A m \in 1 .. Len(list) - p : SubSeq(list, p + 1, Len(list))[m] = list[p + m]
      <4> DEFINE tail == SubSeq(list, p + 1, Len(list))
      <4>1. /\ p + 1 \in Int /\ Len(list) \in Int /\ p \in 1 .. Len(list)
            /\ \A m \in p + 1 .. Len(list) : list[m] \in Ids
        BY <1>1, <2>1
      <4>2. /\ tail \in Seq(Ids)
            /\ Len(tail) = IF p + 1 <= Len(list) THEN Len(list) - (p + 1) + 1 ELSE 0
            /\ \A m \in 1 .. Len(list) - (p + 1) + 1 : tail[m] = list[p + 1 + m - 1]
        BY <4>1, SubSeqProperties
      <4> HIDE DEF tail
      <4>3. Len(tail) = Len(list) - p
        <5>1. CASE p + 1 <= Len(list)
          <6>1. Len(tail) = Len(list) - (p + 1) + 1
            BY <4>2, <5>1
          <6> QED BY <1>1, <4>1, <6>1
        <5>2. CASE ~(p + 1 <= Len(list))
          <6>1. Len(tail) = 0
            BY <4>2, <5>2
          <6>2. p \in Int /\ Len(list) \in Int /\ p <= Len(list)
            BY <1>1
          <6>3. Len(list) - p = 0
            BY <5>2, <6>2
          <6> QED BY <6>1, <6>3
        <5> QED BY <5>1, <5>2
      <4>4. ASSUME NEW m \in 1 .. Len(list) - p PROVE tail[m] = list[p + m]
        <5>1. m \in 1 .. Len(list) - (p + 1) + 1 /\ p + 1 + m - 1 = p + m
          BY <1>1, <4>1
        <5> QED BY <4>2, <5>1
      <4> QED BY <4>2, <4>3, <4>4 DEF tail
    <3> HIDE DEF rest
    <3> DEFINE s == SubSeq(list, 1, p - 1)
               t == SubSeq(list, p + 1, Len(list))
    <3>3. rest = s \o t
      BY DEF rest
    <3> HIDE DEF s, t
    <3>4. /\ s \in Seq(Ids) /\ Len(s) = p - 1 /\ \A m \in 1 .. p - 1 : s[m] = list[m]
          /\ t \in Seq(Ids) /\ Len(t) = Len(list) - p
          /\ \A m \in 1 .. Len(list) - p : t[m] = list[p + m]
      BY <3>1, <3>2 DEF s, t
    <3>5. /\ s \o t \in Seq(Ids) /\ Len(s \o t) = Len(s) + Len(t)
          /\ \A m \in 1 .. Len(s) + Len(t) :
               (s \o t)[m] = IF m <= Len(s) THEN s[m] ELSE t[m - Len(s)]
      BY <3>4, ConcatProperties
    <3>6. ASSUME NEW m \in 1 .. Len(list) - 1
          PROVE  rest[m] = IF m < p THEN list[m] ELSE list[m + 1]
      <4>1. CASE m < p
        BY <1>1, <2>1, <3>3, <3>4, <3>5, <4>1
      <4>2. CASE ~(m < p)
        <5>1. m - Len(s) \in 1 .. Len(list) - p /\ p + (m - Len(s)) = m + 1
          BY <1>1, <2>1, <3>4, <4>2
        <5>2. rest[m] = t[m - Len(s)]
          BY <1>1, <2>1, <3>3, <3>4, <3>5, <4>2
        <5> QED BY <3>4, <4>2, <5>1, <5>2
      <4> QED BY <4>1, <4>2
    <3> QED BY <1>1, <2>1, <3>3, <3>4, <3>5, <3>6
  <2> HIDE DEF rest
  <2>6. DOMAIN rest = 1 .. Len(list) - 1 /\ p \in Nat /\ 1 <= p /\ p <= Len(list)
    BY <1>1, <2>1, <2>5
  <2>7. \A m \in DOMAIN rest : m \in 1 .. Len(list) /\ m + 1 \in 1 .. Len(list)
    BY <1>1, <2>6
  <2>8. IsInjective(rest)
    <3> SUFFICES ASSUME NEW m \in DOMAIN rest, NEW n \in DOMAIN rest, rest[m] = rest[n]
                 PROVE  m = n
      BY DEF IsInjective
    <3>1. \A x, y \in 1 .. Len(list) : list[x] = list[y] => x = y
      BY <1>1 DEF IsInjective
    <3>2. m \in Nat /\ n \in Nat
      BY <2>6
    <3> QED BY <2>5, <2>6, <2>7, <3>1, <3>2
  <2>9. ASSUME NEW m \in DOMAIN rest PROVE rest[m] \in ToSet(list) \ {i}
    <3>1. \A x \in 1 .. Len(list) : list[x] = i => x = p
      BY <2>2
    <3>2. m \in Nat
      BY <2>6
    <3> QED BY <1>1, <2>5, <2>6, <2>7, <3>1, <3>2 DEF ToSet
  <2>10. ASSUME NEW n \in Nat, NEW x \in First(list, n) \ {i}
         PROVE  x \in First(rest, n)
    <3>1. PICK m \in 1 .. Len(list) : m <= n /\ list[m] = x
      BY <1>1, <2>10 DEF First
    <3>2. m # p /\ m \in Nat
      BY <2>1, <2>10, <3>1
    <3>3. CASE m < p
      <4>1. m \in DOMAIN rest /\ rest[m] = x
        BY <1>1, <2>5, <2>6, <3>1, <3>2, <3>3
      <4> QED BY <3>1, <4>1 DEF First
    <3>4. CASE ~(m < p)
      <4>1. m - 1 \in DOMAIN rest /\ ~(m - 1 < p) /\ m - 1 + 1 = m /\ m - 1 <= n
        BY <1>1, <2>6, <3>1, <3>2, <3>4
      <4>2. rest[m - 1] = x
        BY <2>5, <2>6, <3>1, <4>1
      <4> QED BY <4>1, <4>2 DEF First
    <3> QED BY <3>3, <3>4
  <2>11. ASSUME NEW n \in Nat, NEW x \in First(rest, n)
         PROVE  x \in First(list, n + 1)
    <3>1. PICK m \in DOMAIN rest : m <= n /\ rest[m] = x
      BY <2>11 DEF First
    <3>2. m \in Nat /\ m <= n + 1 /\ m + 1 <= n + 1
      BY <2>6, <3>1
    <3> QED BY <1>1, <2>5, <2>6, <2>7, <3>1, <3>2 DEF First
  <2>12. ToSet(rest) = ToSet(list) \ {i}
    <3>1. ASSUME NEW x \in ToSet(list) \ {i} PROVE x \in ToSet(rest)
      <4>1. x \in First(list, Len(list))
        BY <1>1, <3>1 DEF First, ToSet
      <4>2. x \in First(rest, Len(list))
        BY <1>1, <2>10, <3>1, <4>1
      <4> QED BY <4>2 DEF First, ToSet
    <3> QED BY <2>9, <3>1 DEF ToSet
  <2> QED BY <2>4, <2>5, <2>8, <2>10, <2>11, <2>12
<1> QED BY <1>2, <1>3

\* An id that is added comes behind all others.
LEMMA Added ==
  ASSUME NEW list \in Seq(Ids), IsInjective(list), NEW i \in Ids, i \notin ToSet(list)
  PROVE  /\ Add(list, i) \in Seq(Ids)
         /\ IsInjective(Add(list, i))
         /\ ToSet(Add(list, i)) = ToSet(list) \cup {i}
         /\ \A n \in Nat : /\ First(list, n) \subseteq First(Add(list, i), n)
                           /\ First(Add(list, i), n) \subseteq First(list, n) \cup {i}
<1> DEFINE long == Append(list, i)
           n == Len(list) + 1
<1>1. Add(list, i) = long
  BY DEF Add
<1>2. /\ long \in Seq(Ids) /\ DOMAIN long = 1 .. n /\ DOMAIN list = 1 .. Len(list)
      /\ n \in Nat /\ Len(list) \in Nat /\ n = Len(list) + 1
      /\ long[n] = i
      /\ \A m \in 1 .. Len(list) : long[m] = list[m]
  OBVIOUS
<1> HIDE DEF long, n
<1>3. \A m \in 1 .. n : m \in 1 .. Len(list) \/ m = n
  BY <1>2
<1>4. \A m \in 1 .. Len(list) : m \in 1 .. n /\ list[m] # i /\ m # n
  BY <1>2 DEF ToSet
<1>5. IsInjective(long)
  BY <1>2, <1>3, <1>4 DEF IsInjective
<1>6. ToSet(long) = ToSet(list) \cup {i}
  <2>1. n \in DOMAIN long
    BY <1>2
  <2> QED BY <1>2, <1>3, <1>4, <2>1 DEF ToSet
<1>7. ASSUME NEW m \in Nat
      PROVE  /\ First(list, m) \subseteq First(long, m)
             /\ First(long, m) \subseteq First(list, m) \cup {i}
  BY <1>2, <1>3, <1>4 DEF First
<1> QED BY <1>1, <1>2, <1>5, <1>6, <1>7

\* A list that is filled from a scan has each id once.
LEMMA Filled ==
  ASSUME NEW S \in SUBSET Ids, NEW list \in SetToSeqs(S)
  PROVE  list \in Seq(Ids) /\ IsInjective(list) /\ ToSet(list) = S
<1> DEFINE D == 1 .. Cardinality(S)
<1>1. IsFiniteSet(S)
  BY IdsAssumption, FS_Subset
<1>2. Cardinality(S) \in Nat
  BY <1>1, FS_CardinalityType
<1>3. list \in [D -> S] /\ \A i, j \in D : i # j => list[i] # list[j]
  BY DEF SetToSeqs
<1>4. list \in Seq(Ids)
  BY <1>2, <1>3
<1>5. IsFiniteSet(D) /\ Cardinality(D) = Cardinality(S)
  BY <1>2, FS_Interval
<1>6. DOMAIN list = D
  BY <1>3
<1>7. IsInjective(list)
  BY <1>3, <1>6 DEF IsInjective
<1> HIDE DEF D
<1>8. list \in Injection(D, S)
  BY <1>3, <1>7 DEF Injection
<1>9. list \in Surjection(D, S)
  BY <1>1, <1>5, <1>8, FS_Injection
<1>10. ToSet(list) = S
  BY <1>3, <1>6, <1>9 DEF Surjection, ToSet
<1> QED BY <1>4, <1>7, <1>10

-----------------------------------------------------------------------------
(* The list of keys *)

\* An index as the code builds it: an id once in a list, and in one list.
Proper(index) ==
  /\ index \in [Keys -> Seq(Ids)]
  /\ \A k \in Keys : IsInjective(index[k])
  /\ \A j, k \in Keys : ToSet(index[j]) \cap ToSet(index[k]) # {} => j = k

\* Keys are numbers other than 0, which stands for no key.
LEMMA KeysType == Keys \in SUBSET (Nat \ {0}) /\ \A v \in Values : Key[v] \in Keys
  BY ValuesAssumption DEF Keys

\* An index has finitely many keys, since it has finitely many ids.
LEMMA KeysFinite ==
  ASSUME NEW index, Proper(index)
  PROVE  IsFiniteSet(KeysOf(index)) /\ KeysOf(index) \in SUBSET Nat
<1> DEFINE S == {i \in Ids : \E k \in Keys : i \in ToSet(index[k])}
           owner == [i \in S |-> CHOOSE k \in Keys : i \in ToSet(index[k])]
<1>1. IsFiniteSet(S)
  BY IdsAssumption, FS_Subset
<1>2. ASSUME NEW i \in S, NEW k \in Keys, i \in ToSet(index[k])
      PROVE  owner[i] = k
  BY <1>2 DEF Proper
<1>3. ASSUME NEW i \in S
      PROVE  owner[i] \in KeysOf(index)
  <2>1. PICK k \in Keys : i \in ToSet(index[k])
    OBVIOUS
  <2>2. index[k] # <<>>
    BY <2>1 DEF ToSet
  <2> QED BY <1>2, <2>1, <2>2 DEF KeysOf
<1>4. ASSUME NEW k \in KeysOf(index)
      PROVE  \E i \in S : owner[i] = k
  <2>1. k \in Keys /\ index[k] \in Seq(Ids) /\ index[k] # <<>>
    BY DEF KeysOf, Proper
  <2>2. 1 \in DOMAIN index[k] /\ index[k][1] \in Ids
    BY <2>1
  <2>3. index[k][1] \in ToSet(index[k])
    BY <2>2 DEF ToSet
  <2>4. index[k][1] \in S
    BY <2>1, <2>2, <2>3
  <2> QED BY <1>2, <2>1, <2>3, <2>4
<1>5. owner \in Surjection(S, KeysOf(index))
  BY <1>3, <1>4 DEF Surjection
<1>6. IsFiniteSet(KeysOf(index))
  BY <1>1, <1>5, FS_Surjection
<1> QED BY <1>6, KeysType DEF KeysOf

\* The number of keys below k is at most that of all keys, and grows with k.
LEMMA BelowType ==
  ASSUME NEW index, Proper(index), NEW k \in Nat
  PROVE  /\ Below(index, k) \in Nat /\ Cardinality(KeysOf(index)) \in Nat
         /\ Below(index, k) <= Cardinality(KeysOf(index))
         /\ \A j \in KeysOf(index) : j < k => Below(index, j) < Below(index, k)
         /\ \A j \in Nat : j <= k => Below(index, j) <= Below(index, k)
<1> DEFINE K == KeysOf(index)
           B == {j \in K : j < k}
<1>1. IsFiniteSet(K) /\ K \in SUBSET Nat
  BY KeysFinite
<1>2. IsFiniteSet(B) /\ Cardinality(B) <= Cardinality(K)
  BY <1>1, FS_Subset
<1>3. Cardinality(B) \in Nat /\ Cardinality(K) \in Nat
  BY <1>1, <1>2, FS_CardinalityType
<1>4. ASSUME NEW j \in K, j < k PROVE Below(index, j) < Below(index, k)
  <2> DEFINE A == {m \in K : m < j}
  <2>1. j \in Nat /\ \A m \in K : m \in Nat
    BY <1>1
  <2>2. A \in SUBSET B
    <3>1. \A m \in K : m < j => m < k
      BY <1>4, <2>1
    <3> HIDE DEF K
    <3> QED BY <3>1
  <2>3. j \in B /\ j \notin A
    BY <1>4, <2>1
  <2>4. IsFiniteSet(A) /\ Cardinality(A) <= Cardinality(B) /\ Cardinality(A) # Cardinality(B)
    BY <1>2, <2>2, <2>3, FS_Subset
  <2>5. Cardinality(A) \in Nat
    BY <2>4, FS_CardinalityType
  <2>6. Below(index, j) = Cardinality(A) /\ Below(index, k) = Cardinality(B)
    BY DEF Below
  <2> QED BY <1>3, <2>4, <2>5, <2>6
<1>5. ASSUME NEW j \in Nat, j <= k PROVE Below(index, j) <= Below(index, k)
  <2> DEFINE A == {m \in K : m < j}
  <2>1. \A m \in K : m < j => m < k
    BY <1>1, <1>5
  <2>2. A \in SUBSET B
    <3> HIDE DEF K
    <3> QED BY <2>1
  <2>3. Cardinality(A) <= Cardinality(B)
    BY <1>2, <2>2, FS_Subset
  <2> QED BY <2>3 DEF Below
<1> QED BY <1>2, <1>3, <1>4, <1>5 DEF Below

\* Of fewer keys, fewer are below k.
LEMMA BelowFewer ==
  ASSUME NEW index, Proper(index), NEW fewer, Proper(fewer),
         KeysOf(fewer) \subseteq KeysOf(index), NEW k \in Nat
  PROVE  /\ Below(fewer, k) <= Below(index, k)
         /\ Cardinality(KeysOf(fewer)) <= Cardinality(KeysOf(index))
<1> DEFINE A == {j \in KeysOf(fewer) : j < k}
           B == {j \in KeysOf(index) : j < k}
<1>1. IsFiniteSet(KeysOf(index))
  BY KeysFinite
<1>2. IsFiniteSet(B) /\ A \in SUBSET B
  BY <1>1, FS_Subset
<1>3. Cardinality(A) <= Cardinality(B)
  BY <1>2, FS_Subset
<1>4. Cardinality(KeysOf(fewer)) <= Cardinality(KeysOf(index))
  BY <1>1, FS_Subset
<1> QED BY <1>3, <1>4 DEF Below

\* There is a key at each position of the list of keys.
LEMMA KeyAt ==
  ASSUME NEW index, Proper(index), NEW n \in 1 .. Cardinality(KeysOf(index))
  PROVE  NthKey(index, n) \in KeysOf(index) /\ Below(index, NthKey(index, n)) = n - 1
<1> DEFINE K == KeysOf(index)
           size == Cardinality(K)
           rank == [k \in K |-> Below(index, k)]
           T == {rank[k] : k \in K}
<1>1. IsFiniteSet(K) /\ K \in SUBSET Nat /\ size \in Nat
  BY KeysFinite, FS_CardinalityType
<1>2. ASSUME NEW k \in K PROVE Below(index, k) \in 0 .. size - 1
  <2> DEFINE A == {j \in K : j < k}
  <2>1. k \in Nat
    BY <1>1
  <2>2. IsFiniteSet(A) /\ Cardinality(A) <= size /\ (Cardinality(A) = size => A = K)
    BY <1>1, FS_Subset
  <2>3. k \notin A
    BY <2>1
  <2>4. Cardinality(A) \in Nat /\ Cardinality(A) # size
    BY <2>2, <2>3, FS_CardinalityType
  <2>5. Below(index, k) = Cardinality(A)
    BY DEF Below
  <2> HIDE DEF A, size
  <2> QED BY <1>1, <2>2, <2>4, <2>5
<1>3. ASSUME NEW j \in K, NEW k \in K, rank[j] = rank[k] PROVE j = k
  <2>1. j \in Nat /\ k \in Nat
    BY <1>1
  <2>2. Below(index, j) = Below(index, k)
    BY <1>3
  <2>3. Below(index, j) \in Nat
    BY <1>2
  <2>4. ~(j < k) /\ ~(k < j)
    BY <2>1, <2>2, <2>3, BelowType
  <2> QED BY <2>1, <2>4
<1>4. rank \in Surjection(K, T) /\ rank \in Injection(K, T)
  BY <1>3 DEF Surjection, Injection, IsInjective
<1>5. IsFiniteSet(T) /\ Cardinality(T) = size
  BY <1>1, <1>4, FS_Surjection
<1>6. IsFiniteSet(0 .. size - 1) /\ Cardinality(0 .. size - 1) = size
  <2> HIDE DEF size
  <2>1. size - 1 \in Int /\ 0 \in Int
    BY <1>1
  <2>2. /\ IsFiniteSet(0 .. size - 1)
        /\ Cardinality(0 .. size - 1) = IF 0 > size - 1 THEN 0 ELSE size - 1 - 0 + 1
    BY <2>1, FS_Interval
  <2> QED BY <1>1, <2>2
<1>7. T \in SUBSET (0 .. size - 1)
  BY <1>2
<1>8. T = 0 .. size - 1
  BY <1>5, <1>6, <1>7, FS_Subset
<1>9. n - 1 \in T
  BY <1>1, <1>8
<1>10. \E k \in K : Below(index, k) = n - 1
  BY <1>9
<1> QED BY <1>10 DEF NthKey

-----------------------------------------------------------------------------
(* The index *)

Rebuilding == [Idle EXCEPT !.pc = "rebuild"]

Writing == [pc : {"unlist", "list"}, id : Ids,
            before : Values \cup {NoDoc}, after : Values \cup {NoDoc}]

\* The document under which the index has an id: the writer takes the old one's
\* posting out and then adds the new one's, and a rebuild starts with none.
Posted(i) ==
  CASE writer.pc = "rebuild" -> NoDoc
    [] writer.pc = "unlist" /\ i = writer.id -> writer.before
    [] writer.pc = "list" /\ i = writer.id -> NoDoc
    [] OTHER -> docs[i]

\* The index has each id under the key of the document it is posted under.
ListsInv ==
  /\ lists \in [Keys -> Seq(Ids)]
  /\ \A k \in Keys : /\ IsInjective(lists[k])
                     /\ ToSet(lists[k]) = {i \in Ids : Posted(i) # NoDoc /\ Key[Posted(i)] = k}

WriterInv ==
  \/ writer \in {Idle, Rebuilding}
  \/ writer \in Writing /\ writer.after = docs[writer.id]

StoreInv ==
  /\ docs \in [Ids -> Values \cup {NoDoc}]
  /\ WriterInv
  /\ ListsInv

\* Then no id is in two lists.
LEMMA ListsProper ==
  ASSUME ListsInv
  PROVE  Proper(lists)
BY DEF ListsInv, Proper

\* The index is empty before the first document.
LEMMA StoreInit == Init => StoreInv
<1> SUFFICES ASSUME Init PROVE StoreInv
  OBVIOUS
<1>1. docs \in [Ids -> Values \cup {NoDoc}]
  BY DEF Init
<1>2. WriterInv
  BY DEF Init, WriterInv
<1>3. ListsInv
  <2>1. \A k \in Keys : lists[k] = <<>>
    BY DEF Init, Empty
  <2>2. lists \in [Keys -> Seq(Ids)]
    BY DEF Init, Empty
  <2>3. \A k \in Keys : IsInjective(lists[k]) /\ ToSet(lists[k]) = {}
    BY <2>1 DEF IsInjective, ToSet
  <2>4. \A i \in Ids : Posted(i) = NoDoc
    BY DEF Posted, Init, Idle
  <2> QED BY <2>2, <2>3, <2>4 DEF ListsInv
<1> QED BY <1>1, <1>2, <1>3 DEF StoreInv

\* The line of a write is appended: the index is one posting behind.
LEMMA StoreAppendLine ==
  ASSUME StoreInv, NEW i \in Ids, NEW after \in Values \cup {NoDoc}, AppendLine(i, after)
  PROVE  StoreInv'
<1>1. writer = Idle /\ docs' = [docs EXCEPT ![i] = after] /\ lists' = lists
      /\ writer' = [pc |-> "unlist", id |-> i, after |-> after, before |-> docs[i]]
  BY DEF AppendLine, Unlocked
<1>2. docs' \in [Ids -> Values \cup {NoDoc}]
  BY <1>1 DEF StoreInv
<1>3. WriterInv'
  <2>1. docs[i] \in Values \cup {NoDoc} /\ docs'[i] = after
    BY <1>1 DEF StoreInv
  <2> QED BY <1>1, <2>1 DEF WriterInv, Writing
<1>4. \A j \in Ids : Posted(j)' = Posted(j)
  BY <1>1 DEF StoreInv, Posted, Idle
<1> QED BY <1>1, <1>2, <1>3, <1>4 DEF StoreInv, ListsInv

\* The old posting is taken out.
LEMMA StoreUnlist ==
  ASSUME StoreInv, Unlist
  PROVE  StoreInv'
<1> PICK i : i = writer.id
  OBVIOUS
<1> PICK k : k = Key[writer.before]
  OBVIOUS
<1>1. /\ writer.pc = "unlist" /\ writer' = [writer EXCEPT !.pc = "list"] /\ docs' = docs
      /\ IF writer.before = NoDoc THEN lists' = lists
                                  ELSE lists' = [lists EXCEPT ![k] = TakeOut(@, i)]
  BY DEF Unlist
<1>2. writer \in Writing /\ writer.after = docs[i]
  BY <1>1 DEF StoreInv, WriterInv, Idle, Rebuilding
<1>3. WriterInv'
  BY <1>1, <1>2 DEF WriterInv, Writing
<1>4. /\ \A j \in Ids : j # i => Posted(j)' = Posted(j)
      /\ Posted(i)' = NoDoc /\ Posted(i) = writer.before
  BY <1>1, <1>2 DEF Posted, Writing
<1>5. ListsInv'
  <2>1. CASE writer.before = NoDoc
    <3>1. \A j \in Ids : Posted(j)' = Posted(j)
      BY <1>4, <2>1
    <3> QED BY <1>1, <2>1, <3>1 DEF StoreInv, ListsInv
  <2>2. CASE writer.before # NoDoc
    <3>1. k \in Keys /\ i \in Ids
      BY <1>2, <2>2, KeysType DEF Writing
    <3>2. lists[k] \in Seq(Ids) /\ IsInjective(lists[k])
      BY <3>1 DEF StoreInv, ListsInv
    <3>3. /\ TakeOut(lists[k], i) \in Seq(Ids)
          /\ IsInjective(TakeOut(lists[k], i))
          /\ ToSet(TakeOut(lists[k], i)) = ToSet(lists[k]) \ {i}
      BY <3>1, <3>2, TakenOut
    <3>4. /\ lists' \in [Keys -> Seq(Ids)]
          /\ \A m \in Keys : lists'[m] = IF m = k THEN TakeOut(lists[k], i) ELSE lists[m]
      BY <1>1, <2>2, <3>1, <3>3 DEF StoreInv, ListsInv
    <3>5. ASSUME NEW m \in Keys
          PROVE  /\ IsInjective(lists'[m])
                 /\ ToSet(lists'[m]) = {j \in Ids : Posted(j)' # NoDoc /\ Key[Posted(j)'] = m}
      <4>1. IsInjective(lists[m]) /\
            ToSet(lists[m]) = {j \in Ids : Posted(j) # NoDoc /\ Key[Posted(j)] = m}
        BY DEF StoreInv, ListsInv
      <4>2. ToSet(lists'[m]) = ToSet(lists[m]) \ {i}
        <5>1. CASE m = k
          BY <3>3, <3>4, <5>1
        <5>2. CASE m # k
          BY <1>4, <3>4, <4>1, <5>2
        <5> QED BY <5>1, <5>2
      <4>3. IsInjective(lists'[m])
        BY <3>3, <3>4, <4>1
      <4> QED BY <1>4, <4>1, <4>2, <4>3
    <3> QED BY <3>4, <3>5 DEF ListsInv
  <2> QED BY <2>1, <2>2
<1> QED BY <1>1, <1>3, <1>5 DEF StoreInv

\* The new posting is added.
LEMMA StoreList ==
  ASSUME StoreInv, List
  PROVE  StoreInv'
<1> PICK i : i = writer.id
  OBVIOUS
<1> PICK k : k = Key[writer.after]
  OBVIOUS
<1>1. /\ writer.pc = "list" /\ writer' = Idle /\ docs' = docs
      /\ IF writer.after = NoDoc THEN lists' = lists
                                 ELSE lists' = [lists EXCEPT ![k] = Add(@, i)]
  BY DEF List
<1>2. writer \in Writing /\ writer.after = docs[i]
  BY <1>1 DEF StoreInv, WriterInv, Idle, Rebuilding
<1>3. WriterInv'
  BY <1>1 DEF WriterInv
<1>4. /\ \A j \in Ids : j # i => Posted(j)' = Posted(j)
      /\ Posted(i)' = writer.after /\ Posted(i) = NoDoc
  BY <1>1, <1>2 DEF Posted, Writing, Idle
<1>5. ListsInv'
  <2>1. CASE writer.after = NoDoc
    <3>1. \A j \in Ids : Posted(j)' = Posted(j)
      BY <1>4, <2>1
    <3> QED BY <1>1, <2>1, <3>1 DEF StoreInv, ListsInv
  <2>2. CASE writer.after # NoDoc
    <3>1. k \in Keys /\ i \in Ids
      BY <1>2, <2>2, KeysType DEF Writing
    <3>2. lists[k] \in Seq(Ids) /\ IsInjective(lists[k]) /\ i \notin ToSet(lists[k])
      BY <1>4, <3>1 DEF StoreInv, ListsInv
    <3>3. /\ Add(lists[k], i) \in Seq(Ids)
          /\ IsInjective(Add(lists[k], i))
          /\ ToSet(Add(lists[k], i)) = ToSet(lists[k]) \cup {i}
      BY <3>1, <3>2, Added
    <3>4. /\ lists' \in [Keys -> Seq(Ids)]
          /\ \A m \in Keys : lists'[m] = IF m = k THEN Add(lists[k], i) ELSE lists[m]
      BY <1>1, <2>2, <3>1, <3>3 DEF StoreInv, ListsInv
    <3>5. ASSUME NEW m \in Keys
          PROVE  /\ IsInjective(lists'[m])
                 /\ ToSet(lists'[m]) = {j \in Ids : Posted(j)' # NoDoc /\ Key[Posted(j)'] = m}
      <4>1. IsInjective(lists[m]) /\
            ToSet(lists[m]) = {j \in Ids : Posted(j) # NoDoc /\ Key[Posted(j)] = m}
        BY DEF StoreInv, ListsInv
      <4>2. Key[writer.after] = k
        OBVIOUS
      <4>3. ToSet(lists'[m]) = IF m = k THEN ToSet(lists[m]) \cup {i} ELSE ToSet(lists[m])
        BY <3>3, <3>4
      <4>4. IsInjective(lists'[m])
        BY <3>3, <3>4, <4>1
      <4> QED BY <1>4, <2>2, <3>1, <4>1, <4>2, <4>3, <4>4
    <3> QED BY <3>4, <3>5 DEF ListsInv
  <2> QED BY <2>1, <2>2
<1> QED BY <1>1, <1>3, <1>5 DEF StoreInv

\* A rebuild starts with no posting and ends with all.
LEMMA StoreRebuild ==
  ASSUME StoreInv, Compact \/ Fill
  PROVE  StoreInv'
<1>1. CASE Compact
  <2>1. writer' = Rebuilding /\ lists' = Empty /\ docs' = docs
    BY <1>1 DEF Compact, Rebuilding
  <2>2. WriterInv'
    BY <2>1 DEF WriterInv
  <2>3. lists' \in [Keys -> Seq(Ids)] /\ \A k \in Keys : lists'[k] = <<>>
    BY <2>1 DEF Empty
  <2>4. \A k \in Keys : IsInjective(lists'[k]) /\ ToSet(lists'[k]) = {}
    BY <2>3 DEF IsInjective, ToSet
  <2>5. \A i \in Ids : Posted(i)' = NoDoc
    BY <2>1 DEF Posted, Rebuilding, Idle
  <2>6. ListsInv'
    BY <2>3, <2>4, <2>5 DEF ListsInv
  <2> QED BY <2>1, <2>2, <2>6 DEF StoreInv
<1>2. CASE Fill
  <2>1. /\ writer' = Idle /\ docs' = docs
        /\ \E order \in [Keys -> UNION {SetToSeqs(S) : S \in SUBSET Ids}] :
             /\ \A k \in Keys : order[k] \in SetToSeqs(Under(k))
             /\ lists' = order
    BY <1>2 DEF Fill
  <2>2. DOMAIN lists' = Keys /\ lists' = [k \in Keys |-> lists'[k]]
        /\ \A k \in Keys : lists'[k] \in SetToSeqs(Under(k))
    BY <2>1
  <2>3. \A k \in Keys : Under(k) \in SUBSET Ids
    BY DEF Under
  <2>4. \A k \in Keys : lists'[k] \in Seq(Ids) /\ IsInjective(lists'[k])
                        /\ ToSet(lists'[k]) = Under(k)
    BY <2>2, <2>3, Filled
  <2>5. lists' \in [Keys -> Seq(Ids)]
    BY <2>2, <2>4
  <2>6. \A i \in Ids : Posted(i)' = docs[i]
    BY <2>1 DEF Posted, Idle
  <2>7. ListsInv'
    BY <2>4, <2>5, <2>6 DEF ListsInv, Under
  <2>8. WriterInv'
    BY <2>1 DEF WriterInv
  <2> QED BY <2>1, <2>7, <2>8 DEF StoreInv
<1> QED BY <1>1, <1>2

\* The steps of a query, and the writes, leave the index as it should be.
LEMMA StoreStep ==
  ASSUME StoreInv, [Next]_vars
  PROVE  StoreInv'
<1>1. CASE UNCHANGED store
  BY <1>1 DEF store, StoreInv, WriterInv, ListsInv, Posted
<1>2. CASE Write
  BY <1>2, StoreAppendLine, StoreUnlist, StoreList, StoreRebuild DEF Write
<1>3. CASE Read \/ Close \/ \E q \in Queries : Start(q)
  <2>1. UNCHANGED store
    BY <1>3 DEF Read, NextKey, Take, Fetch, ListEnds, ScanAll, Finish, Close, Dispose, Start
  <2> QED BY <1>1, <2>1
<1>4. CASE UNCHANGED vars
  BY <1>1, <1>4 DEF vars
<1> QED BY <1>2, <1>3, <1>4 DEF Next

-----------------------------------------------------------------------------
(* What a write does to a query that is suspended *)

Scanning == Running /\ plan.scan # "full"

\* The documents that the query owes or has yielded, and that were not written
Unwritten == due \cup had

\* The query's own variables: what each place of the reader goes with.
ControlInv ==
  /\ reader \in {"idle", "scan", "keys", "take", "get", "last"}
  /\ at \in Nat /\ end \in Nat /\ pos \in Nat /\ key \in Keys \cup {0}
  /\ id \in Ids \cup {NoDoc}
  /\ gone \in BOOLEAN /\ keysGone \in BOOLEAN /\ shrunk \in BOOLEAN
  /\ results \subseteq [id : Ids, value : Values, hasId : BOOLEAN]
  /\ due \subseteq Ids /\ had \subseteq Ids \ due
  /\ removals \in 0 .. Cardinality(Ids)
  /\ Running => query \in Queries /\ plan = Plan(query) /\ at >= 1
  /\ ~Running => /\ query = <<>> /\ plan = FullScan
                 /\ old = {} /\ Unwritten = {} /\ results = {}
  /\ plan.scan = "full" => /\ reader \in {"idle", "scan", "last"}
                           /\ old = {} /\ had = {}
                           /\ reader = "last" => due = {}
  /\ plan.scan = "lookup" => reader \in {"take", "get"} /\ key = plan.low
  /\ plan.scan = "range" => reader \in {"keys", "take", "get"} /\ (reader = "keys" <=> key = 0)
  /\ reader = "get" => id \in Ids

\* The index that is read is in order, and has what the query is still to find,
\* under its key.
TrackedInv ==
  /\ old = {} \/ old = {Index}
  /\ Proper(Index)
  /\ \A i \in due : docs[i] \in Values /\ Matches(query, docs[i]) /\ InOrder(query, docs[i])
  /\ Scanning => \A i \in Unwritten : docs[i] \in Values /\ i \in ToSet(Index[Key[docs[i]]])
  /\ Scanning /\ writer.pc = "rebuild" /\ old = {} => Unwritten = {}
  /\ writer.pc \in {"unlist", "list"} => writer.id \notin Unwritten

\* What each write does to what a scan of the index depends on: it moves no
\* unwritten document behind the position of the query, unless it counts.
WriteEffect ==
  /\ \A k \in Keys, n \in Nat :
       First(Index[k], n) \cap Unwritten' \subseteq First(Index'[k], n)
  /\ \A i \in Unwritten' : i \in ToSet(Index'[Key[docs[i]]])
  /\ gone' => gone \/ (key \in Keys /\ Index'[key] = <<>>)
  /\ removals' >= removals
  /\ key \in Keys /\ key \in plan.low .. plan.high =>
       \/ First(Index'[key], pos) \cap due' \subseteq First(Index[key], pos)
       \/ /\ First(Index'[key], pos) \subseteq First(Index[key], pos + 1)
          /\ removals' = removals + 1 \/ removals' = Cardinality(Ids)
  /\ plan.scan = "range" =>
       /\ Unwritten' # {} => KeysOf(Index') \subseteq KeysOf(Index)
       /\ due' # {} => KeysOf(Index') = KeysOf(Index)
       /\ ~shrunk' => /\ ~shrunk /\ KeysOf(Index) \subseteq KeysOf(Index')
                      /\ keysGone' => keysGone \/ KeysOf(Index') = {}

\* The index of a query, whether it is the current one or one that was replaced.
LEMMA IndexIs ==
  /\ old = {} => Index = lists
  /\ \A x : old = {x} => Index = x
BY DEF Index

\* ... and after a step
LEMMA IndexIsNext ==
  /\ old' = {} => Index' = lists'
  /\ \A x : old' = {x} => Index' = x
BY DEF Index


\* What it does to any query
WriteFrame ==
  /\ UNCHANGED <<reader, cursor, results>>
  /\ due' \subseteq due /\ had' \subseteq had
  /\ \A i \in Unwritten' : docs'[i] = docs[i]
  /\ removals' \in 0 .. Cardinality(Ids)
  /\ gone' \in BOOLEAN /\ keysGone' \in BOOLEAN /\ shrunk' \in BOOLEAN
  /\ writer'.pc \in {"unlist", "list"} => writer'.id \notin Unwritten'
  /\ Scanning /\ writer'.pc = "rebuild" /\ old' = {} => Unwritten' = {}
  /\ ~Scanning => old' = old
  /\ old' = {} \/ old' = {Index'}
  /\ Proper(Index')

\* A write that does not touch the index of the query has no effect on it.
LEMMA NoEffect ==
  ASSUME ControlInv, TrackedInv, Scanning, Index' = Index,
         due' \subseteq due, had' \subseteq had,
         gone' = gone, keysGone' = keysGone, shrunk' = shrunk, removals' = removals
  PROVE  WriteEffect
<1>1. /\ \A k \in Keys, n \in Nat :
            First(Index[k], n) \cap Unwritten' \subseteq First(Index'[k], n)
      /\ First(Index'[key], pos) \cap due' \subseteq First(Index[key], pos)
      /\ KeysOf(Index') = KeysOf(Index)
  OBVIOUS
<1>2. \A i \in Unwritten' : i \in Unwritten
  BY DEF Unwritten
<1>3. \A i \in Unwritten' : i \in ToSet(Index'[Key[docs[i]]])
  BY <1>2 DEF TrackedInv
<1>4. removals' >= removals
  BY DEF ControlInv
<1> QED BY <1>1, <1>3, <1>4 DEF WriteEffect

\* Index' is what the step leaves of old and lists.
LEMMA IndexNext ==
  ASSUME TrackedInv
  PROVE  /\ old' = {} => Index' = lists'
         /\ old' = old /\ (old # {} \/ lists' = lists) => Index' = Index
<1>1. old' = {} => Index' = lists'
  BY DEF Index
<1>2. ASSUME old' = old, old # {} \/ lists' = lists PROVE Index' = Index
  <2>1. CASE old = {}
    BY <1>2, <2>1 DEF Index
  <2>2. CASE old # {}
    BY <1>2, <2>2 DEF Index
  <2> QED BY <2>1, <2>2
<1> QED BY <1>1, <1>2

\* The appended line ends what the query knew of the id.
LEMMA EffectAppendLine ==
  ASSUME StoreInv, ControlInv, TrackedInv,
         NEW i \in Ids, NEW after \in Values \cup {NoDoc}, AppendLine(i, after)
  PROVE  WriteFrame /\ (Scanning => WriteEffect)
<1>1. /\ UNCHANGED <<reader, cursor, results, removals, gone, keysGone, shrunk, old, lists>>
      /\ due' = due \ {i} /\ had' = had \ {i}
      /\ docs' = [docs EXCEPT ![i] = after]
      /\ writer' = [pc |-> "unlist", id |-> i, after |-> after, before |-> docs[i]]
  BY DEF AppendLine, held
<1>2. Index' = Index
  BY <1>1, IndexNext
<1>3. \A j \in Unwritten' : docs'[j] = docs[j]
  BY <1>1 DEF Unwritten, StoreInv
<1>4. writer'.id \notin Unwritten' /\ writer'.pc = "unlist"
  BY <1>1 DEF Unwritten
<1>5. Proper(Index') /\ (old' = {} \/ old' = {Index'})
  BY <1>1, <1>2 DEF TrackedInv
<1>6. WriteFrame
  BY <1>1, <1>3, <1>4, <1>5 DEF WriteFrame, ControlInv
<1> QED BY <1>1, <1>2, <1>6, NoEffect

\* The posting of the old document is taken out of the list that the query may
\* be iterating over.
LEMMA EffectUnlist ==
  ASSUME StoreInv, ControlInv, TrackedInv, Unlist
  PROVE  WriteFrame /\ (Scanning => WriteEffect)
<1> PICK i : i = writer.id
  OBVIOUS
<1> PICK k : k = Key[writer.before]
  OBVIOUS
<1>1. /\ writer.pc = "unlist" /\ writer' = [writer EXCEPT !.pc = "list"]
      /\ UNCHANGED <<docs, reader, cursor, old, results>>
  BY DEF Unlist
<1>2. writer \in Writing /\ i \notin Unwritten
  BY <1>1 DEF StoreInv, WriterInv, Idle, Rebuilding, TrackedInv
<1>3. writer'.pc = "list" /\ writer'.id = i
  BY <1>1, <1>2 DEF Writing
<1>4. CASE writer.before = NoDoc
  <2>1. UNCHANGED <<lists, gone, keysGone, due, had, removals, shrunk>>
    BY <1>4 DEF Unlist, history
  <2>2. Index' = Index
    BY <1>1, <2>1, IndexNext
  <2>3. WriteFrame
    BY <1>1, <1>2, <1>3, <2>1, <2>2 DEF WriteFrame, ControlInv, TrackedInv, Unwritten
  <2> QED BY <2>1, <2>2, <2>3, NoEffect
<1>5. CASE writer.before # NoDoc
  <2>1. i \in Ids /\ k \in Keys
    BY <1>2, <1>5, KeysType DEF Writing
  <2>2. /\ lists' = [lists EXCEPT ![k] = TakeOut(@, i)]
        /\ removals' = IF Live /\ k \in plan.low .. plan.high /\ removals < Cardinality(Ids)
                       THEN removals + 1 ELSE removals
        /\ Notice(lists')
    BY <1>5 DEF Unlist
  <2>3. removals \in 0 .. Cardinality(Ids) /\ Cardinality(Ids) \in Nat
    BY IdsAssumption, FS_CardinalityType DEF ControlInv
  <2>4. removals' \in 0 .. Cardinality(Ids) /\ removals' >= removals
    BY <2>2, <2>3
  <2>5. /\ due' \subseteq due /\ had' \subseteq had
        /\ gone' \in BOOLEAN /\ keysGone' \in BOOLEAN /\ shrunk' \in BOOLEAN
    BY <2>2 DEF Notice, ControlInv
  <2>6. Proper(lists')
    <3>1. ListsInv'
      BY StoreUnlist DEF StoreInv
    <3> QED BY <3>1 DEF ListsInv, Proper
  <2>7. Proper(Index') /\ (old' = {} \/ old' = {Index'})
    <3>1. CASE old = {}
      BY <1>1, <2>6, <3>1, IndexNext
    <3>2. CASE old # {}
      BY <1>1, <3>2, IndexNext DEF TrackedInv
    <3> QED BY <3>1, <3>2
  <2>8. WriteFrame
    BY <1>1, <1>2, <1>3, <2>4, <2>5, <2>7 DEF WriteFrame, Unwritten
  <2>9. CASE ~Live /\ Scanning
    <3>1. old # {}
      BY <2>9 DEF Live, Scanning
    <3>2. Index' = Index
      BY <1>1, <3>1, IndexNext
    <3>3. UNCHANGED <<gone, keysGone, due, had, shrunk, removals>>
      BY <2>2, <2>9 DEF Notice, ControlInv
    <3> QED BY <2>8, <3>2, <3>3, <2>9, NoEffect
  <2>10. CASE Live
    <3>1. Index = lists /\ Index' = lists'
      BY <1>1, <2>10, IndexNext DEF Live, Index
    <3>2. /\ lists \in [Keys -> Seq(Ids)]
          /\ \A m \in Keys : IsInjective(lists[m])
      BY DEF StoreInv, ListsInv
    <3>3. /\ TakeOut(lists[k], i) \in Seq(Ids)
          /\ ToSet(TakeOut(lists[k], i)) = ToSet(lists[k]) \ {i}
          /\ \A n \in Nat : /\ First(lists[k], n) \ {i} \subseteq First(TakeOut(lists[k], i), n)
                            /\ First(TakeOut(lists[k], i), n) \subseteq First(lists[k], n + 1)
      BY <2>1, <3>2, TakenOut
    <3>4. \A m \in Keys : lists'[m] = IF m = k THEN TakeOut(lists[k], i) ELSE lists[m]
      BY <2>1, <2>2, <3>2
    <3>5. \A j \in Unwritten' : j # i /\ j \in Unwritten
      BY <1>2, <2>5 DEF Unwritten
    <3>6. \A m \in Keys, n \in Nat : First(lists[m], n) \cap Unwritten' \subseteq First(lists'[m], n)
      BY <3>3, <3>4, <3>5
    <3>7. ASSUME NEW j \in Unwritten' PROVE j \in ToSet(lists'[Key[docs[j]]])
      <4>1. docs[j] \in Values /\ j \in ToSet(lists[Key[docs[j]]]) /\ j # i
        BY <2>10, <3>1, <3>5 DEF TrackedInv, Scanning, Live
      <4>2. Key[docs[j]] \in Keys
        BY <4>1, KeysType
      <4> QED BY <3>3, <3>4, <4>1, <4>2
    <3>8. gone' => gone \/ (key \in Keys /\ lists'[key] = <<>>)
      BY <2>2 DEF Notice, ControlInv
    <3>9. ASSUME key \in Keys, key \in plan.low .. plan.high
          PROVE  \/ First(lists'[key], pos) \cap due' \subseteq First(lists[key], pos)
                 \/ /\ First(lists'[key], pos) \subseteq First(lists[key], pos + 1)
                    /\ removals' = removals + 1 \/ removals' = Cardinality(Ids)
      <4>1. pos \in Nat
        BY DEF ControlInv
      <4>2. CASE key # k
        BY <3>4, <3>9, <4>2
      <4>3. CASE key = k
        <5>1. removals' = removals + 1 \/ removals' = Cardinality(Ids)
          BY <2>2, <2>3, <2>10, <3>9, <4>3
        <5> QED BY <3>3, <3>4, <3>9, <4>1, <4>3, <5>1
      <4> QED BY <4>2, <4>3
    <3>10. KeysOf(lists') \subseteq KeysOf(lists)
      <4>1. lists'[k] # <<>> => lists[k] # <<>>
        <5>1. ASSUME lists[k] = <<>> PROVE TakeOut(lists[k], i) = <<>>
          BY <5>1 DEF TakeOut, RemoveFirst
        <5> QED BY <2>1, <3>4, <5>1
      <4> QED BY <3>4, <4>1 DEF KeysOf
    <3>11. ASSUME plan.scan = "range"
           PROVE  /\ due' # {} => KeysOf(lists') = KeysOf(lists)
                  /\ ~shrunk' => /\ ~shrunk /\ KeysOf(lists) \subseteq KeysOf(lists')
                                 /\ keysGone' => keysGone \/ KeysOf(lists') = {}
      BY <2>2, <2>10, <3>10, <3>11 DEF Notice
    <3>12. WriteEffect
      BY <2>4, <3>1, <3>6, <3>7, <3>8, <3>9, <3>10, <3>11 DEF WriteEffect
    <3> QED BY <2>8, <3>12
  <2> QED BY <2>8, <2>9, <2>10
<1> QED BY <1>4, <1>5

\* The posting of the new document comes behind all others of its list, and may
\* bring a new key.
LEMMA EffectList ==
  ASSUME StoreInv, ControlInv, TrackedInv, List
  PROVE  WriteFrame /\ (Scanning => WriteEffect)
<1> PICK i : i = writer.id
  OBVIOUS
<1> PICK k : k = Key[writer.after]
  OBVIOUS
<1>1. /\ writer.pc = "list" /\ writer' = Idle
      /\ UNCHANGED <<docs, reader, cursor, old, results, removals>>
  BY DEF List
<1>2. writer \in Writing /\ i \notin Unwritten
  BY <1>1 DEF StoreInv, WriterInv, Idle, Rebuilding, TrackedInv
<1>3. writer'.pc = "idle"
  BY <1>1 DEF Idle
<1>4. CASE writer.after = NoDoc
  <2>1. UNCHANGED <<lists, gone, keysGone, due, had, shrunk>>
    BY <1>4 DEF List
  <2>2. Index' = Index
    BY <1>1, <2>1, IndexNext
  <2>3. WriteFrame
    BY <1>1, <1>2, <1>3, <2>1, <2>2 DEF WriteFrame, ControlInv, TrackedInv, Unwritten
  <2> QED BY <1>1, <2>1, <2>2, <2>3, NoEffect
<1>5. CASE writer.after # NoDoc
  <2>1. i \in Ids /\ k \in Keys
    BY <1>2, <1>5, KeysType DEF Writing
  <2>2. lists' = [lists EXCEPT ![k] = Add(@, i)] /\ Notice(lists')
    BY <1>5 DEF List
  <2>3. removals \in 0 .. Cardinality(Ids) /\ removals >= removals
    BY DEF ControlInv
  <2>4. /\ due' \subseteq due /\ had' \subseteq had
        /\ gone' \in BOOLEAN /\ keysGone' \in BOOLEAN /\ shrunk' \in BOOLEAN
    BY <2>2 DEF Notice, ControlInv
  <2>5. Proper(lists')
    <3>1. ListsInv'
      BY StoreList DEF StoreInv
    <3> QED BY <3>1 DEF ListsInv, Proper
  <2>6. Proper(Index') /\ (old' = {} \/ old' = {Index'})
    <3>1. CASE old = {}
      BY <1>1, <2>5, <3>1, IndexNext
    <3>2. CASE old # {}
      BY <1>1, <3>2, IndexNext DEF TrackedInv
    <3> QED BY <3>1, <3>2
  <2>7. WriteFrame
    BY <1>1, <1>2, <1>3, <2>3, <2>4, <2>6 DEF WriteFrame, Unwritten
  <2>8. CASE ~Live /\ Scanning
    <3>1. old # {}
      BY <2>8 DEF Live, Scanning
    <3>2. Index' = Index
      BY <1>1, <3>1, IndexNext
    <3>3. UNCHANGED <<gone, keysGone, due, had, shrunk>>
      BY <2>2, <2>8 DEF Notice, ControlInv
    <3> QED BY <1>1, <2>7, <3>2, <3>3, <2>8, NoEffect
  <2>9. CASE Live
    <3>1. Index = lists /\ Index' = lists'
      BY <1>1, <2>9, IndexNext DEF Live, Index
    <3>2. /\ lists \in [Keys -> Seq(Ids)]
          /\ \A m \in Keys : IsInjective(lists[m])
          /\ i \notin ToSet(lists[k])
      <4>1. Posted(i) = NoDoc
        BY <1>1 DEF Posted
      <4> QED BY <2>1, <4>1 DEF StoreInv, ListsInv
    <3>3. /\ Add(lists[k], i) \in Seq(Ids)
          /\ ToSet(Add(lists[k], i)) = ToSet(lists[k]) \cup {i}
          /\ \A n \in Nat : /\ First(lists[k], n) \subseteq First(Add(lists[k], i), n)
                            /\ First(Add(lists[k], i), n) \subseteq First(lists[k], n) \cup {i}
      BY <2>1, <3>2, Added
    <3>4. \A m \in Keys : lists'[m] = IF m = k THEN Add(lists[k], i) ELSE lists[m]
      BY <2>1, <2>2, <3>2
    <3>5. \A j \in Unwritten' : j # i /\ j \in Unwritten
      BY <1>2, <2>4 DEF Unwritten
    <3>6. \A m \in Keys, n \in Nat : First(lists[m], n) \cap Unwritten' \subseteq First(lists'[m], n)
      BY <3>3, <3>4
    <3>7. ASSUME NEW j \in Unwritten' PROVE j \in ToSet(lists'[Key[docs[j]]])
      <4>1. docs[j] \in Values /\ j \in ToSet(lists[Key[docs[j]]])
        BY <2>9, <3>1, <3>5 DEF TrackedInv, Scanning, Live
      <4>2. Key[docs[j]] \in Keys
        BY <4>1, KeysType
      <4> QED BY <3>3, <3>4, <4>1, <4>2
    <3>8. gone' => gone \/ (key \in Keys /\ lists'[key] = <<>>)
      BY <2>2 DEF Notice, ControlInv
    <3>9. ASSUME key \in Keys
          PROVE  First(lists'[key], pos) \cap due' \subseteq First(lists[key], pos)
      <4>1. pos \in Nat /\ i \notin due'
        BY <3>5 DEF ControlInv, Unwritten
      <4> QED BY <3>3, <3>4, <3>9, <4>1
    <3>10. KeysOf(lists) \subseteq KeysOf(lists')
      <4>1. lists'[k] # <<>>
        <5>1. i \in ToSet(lists'[k])
          BY <2>1, <3>3, <3>4
        <5> QED BY <5>1 DEF ToSet
      <4> QED BY <3>4, <4>1 DEF KeysOf
    <3>11. ASSUME plan.scan = "range"
           PROVE  /\ Unwritten' # {} => KeysOf(lists') \subseteq KeysOf(lists)
                  /\ due' # {} => KeysOf(lists') = KeysOf(lists)
                  /\ ~shrunk' => ~shrunk /\ (keysGone' => keysGone \/ KeysOf(lists') = {})
      BY <2>2, <2>9, <3>10, <3>11 DEF Notice, Unwritten
    <3>12. WriteEffect
      BY <1>1, <2>3, <3>1, <3>6, <3>7, <3>8, <3>9, <3>10, <3>11 DEF WriteEffect
    <3> QED BY <2>7, <3>12
  <2> QED BY <2>7, <2>8, <2>9
<1> QED BY <1>4, <1>5

\* A compaction leaves a query the index that it has; the rebuilt one is seen by
\* a query that started during the rebuild, and that one is owed nothing.
LEMMA EffectRebuild ==
  ASSUME StoreInv, ControlInv, TrackedInv, Compact \/ Fill
  PROVE  WriteFrame /\ (Scanning => WriteEffect)
<1>1. /\ UNCHANGED <<docs, reader, cursor, gone, keysGone, results, due, had, removals, shrunk>>
      /\ writer' \in {Idle, Rebuilding}
  BY DEF Compact, Fill, held, history, Rebuilding
<1>2. Proper(lists')
  <2>1. ListsInv'
    BY StoreRebuild DEF StoreInv
  <2> QED BY <2>1 DEF ListsInv, Proper
<1>3. /\ \A i \in Unwritten' : docs'[i] = docs[i]
      /\ writer'.pc \in {"idle", "rebuild"}
  BY <1>1 DEF Idle, Rebuilding
<1>4. CASE Compact
  <2>1. old' = IF Live THEN {lists} ELSE old
    BY <1>4 DEF Compact
  <2>2. CASE Live
    <3>1. Index = lists /\ old' = {lists} /\ Index' = lists
      BY <2>1, <2>2, IndexIs, IndexIsNext DEF Live
    <3>2. Proper(Index') /\ old' = {Index'} /\ old' # {}
      BY <3>1 DEF TrackedInv
    <3>3. WriteFrame
      BY <1>1, <1>3, <2>2, <3>2 DEF WriteFrame, ControlInv, Live, Scanning
    <3> QED BY <1>1, <3>1, <3>3, NoEffect
  <2>3. CASE ~Live
    <3>1. old' = old
      BY <2>1, <2>3
    <3>2. Proper(Index') /\ (old' = {} \/ old' = {Index'})
      <4>1. CASE old = {}
        BY <1>2, <3>1, <4>1, IndexNext
      <4>2. CASE old # {}
        BY <3>1, <4>2, IndexNext DEF TrackedInv
      <4> QED BY <4>1, <4>2
    <3>3. Scanning => old # {}
      BY <2>3 DEF Live, Scanning
    <3>4. WriteFrame
      BY <1>1, <1>3, <3>1, <3>2, <3>3 DEF WriteFrame, ControlInv
    <3>5. Scanning => Index' = Index
      BY <3>1, <3>3, IndexNext
    <3> QED BY <1>1, <3>4, <3>5, NoEffect
  <2> QED BY <2>2, <2>3
<1>5. CASE Fill
  <2>1. old' = old /\ writer.pc = "rebuild" /\ writer' = Idle
    BY <1>5 DEF Fill, held
  <2>2. Proper(Index') /\ (old' = {} \/ old' = {Index'})
    <3>1. CASE old = {}
      BY <1>2, <2>1, <3>1, IndexNext
    <3>2. CASE old # {}
      BY <2>1, <3>2, IndexNext DEF TrackedInv
    <3> QED BY <3>1, <3>2
  <2>3. WriteFrame
    BY <1>1, <1>3, <2>1, <2>2 DEF WriteFrame, ControlInv, Idle
  <2>4. CASE old # {}
    BY <1>1, <2>1, <2>3, <2>4, IndexNext, NoEffect
  <2>5. CASE old = {} /\ Scanning
    <3>1. Unwritten = {} /\ Unwritten' = {} /\ due' = {}
      BY <1>1, <2>1, <2>5 DEF TrackedInv, Unwritten
    <3>2. Index = lists
      BY <2>5, IndexIs
    <3>3. KeysOf(Index) = {}
      <4>1. \A i \in Ids : Posted(i) = NoDoc
        BY <2>1 DEF Posted
      <4>2. ASSUME NEW k \in Keys PROVE lists[k] = <<>>
        <5>1. ToSet(lists[k]) = {} /\ lists[k] \in Seq(Ids)
          BY <4>1 DEF StoreInv, ListsInv
        <5>2. 1 \notin DOMAIN lists[k]
          BY <5>1 DEF ToSet
        <5> QED BY <5>1, <5>2
      <4> QED BY <3>2, <4>2 DEF KeysOf
    <3>4. removals' >= removals
      BY <1>1 DEF ControlInv
    <3>5. /\ \A k \in Keys, n \in Nat :
               First(Index[k], n) \cap Unwritten' \subseteq First(Index'[k], n)
          /\ First(Index'[key], pos) \cap due' \subseteq First(Index[key], pos)
      BY <3>1
    <3>6. WriteEffect
      BY <1>1, <3>1, <3>3, <3>4, <3>5 DEF WriteEffect
    <3> QED BY <2>3, <3>6
  <2> QED BY <2>3, <2>4, <2>5
<1> QED BY <1>4, <1>5

\* All writes
LEMMA WriteEffects ==
  ASSUME StoreInv, ControlInv, TrackedInv, Write
  PROVE  WriteFrame /\ (Scanning => WriteEffect)
BY EffectAppendLine, EffectUnlist, EffectList, EffectRebuild DEF Write

-----------------------------------------------------------------------------
(* The query's own steps *)

\* Nothing runs at first.
LEMMA ControlInit == Init => ControlInv /\ TrackedInv
<1> SUFFICES ASSUME Init PROVE ControlInv /\ TrackedInv
  OBVIOUS
<1>1. 0 \in 0 .. Cardinality(Ids)
  BY IdsAssumption, FS_CardinalityType
<1>2. ControlInv
  BY <1>1 DEF Init, ControlInv, Running, Unwritten, FullScan
<1>3. Proper(lists) /\ Index = lists
  <2>1. StoreInv
    BY StoreInit
  <2>2. old = {}
    BY DEF Init
  <2> QED BY <2>1, <2>2, ListsProper, IndexIs DEF StoreInv
<1>4. TrackedInv
  BY <1>3 DEF Init, TrackedInv, Scanning, Running, Unwritten, Idle
<1> QED BY <1>2, <1>4

\* A write leaves the query where it is.
LEMMA ControlWrite ==
  ASSUME ControlInv, WriteFrame
  PROVE  ControlInv'
<1>1. UNCHANGED <<reader, query, plan, at, end, key, pos, id, results>>
  BY DEF WriteFrame, cursor
<1>2. /\ due' \subseteq Ids /\ had' \subseteq Ids \ due'
      /\ Unwritten = {} => Unwritten' = {}
      /\ had = {} => had' = {}
      /\ due = {} => due' = {}
  BY DEF WriteFrame, ControlInv, Unwritten
<1>3. /\ plan.scan = "full" => old' = old
      /\ ~Running => old' = old
  BY DEF WriteFrame, Scanning
<1> QED BY <1>1, <1>2, <1>3 DEF ControlInv, WriteFrame, Running

\* The first result is asked for.
LEMMA ControlStart ==
  ASSUME StoreInv, ControlInv, NEW q \in Queries, Start(q)
  PROVE  ControlInv'
<1> DEFINE p == Plan(q)
<1>1. /\ p \in [scan : Scans, low : Nat, high : Nat]
      /\ p.scan = "lookup" => p.low \in Keys /\ p.high = p.low
  BY PlanType
<1> HIDE DEF p
<1>2. /\ query' = q /\ plan' = p
      /\ reader' = CASE p.scan = "full" -> "scan"
                      [] p.scan = "range" -> "keys"
                      [] p.scan = "lookup" -> "take"
      /\ at' = Below(lists, p.low) + 1
      /\ end' = LastPosition(p.high)
      /\ key' = IF p.scan = "lookup" THEN p.low ELSE 0
      /\ pos' = 0 /\ id' = NoDoc
      /\ gone' = (p.scan = "lookup" /\ lists[p.low] = <<>>)
      /\ keysGone' = FALSE /\ old' = {}
      /\ results' = {}
      /\ due' \subseteq Ids /\ had' = {} /\ removals' = 0 /\ shrunk' = FALSE
  BY DEF Start, p
<1>3. p.low \in Nat /\ p.high \in Nat /\ p.high + 1 \in Nat /\ p.scan \in Scans
  BY <1>1
<1>4. at' \in Nat /\ at' >= 1 /\ end' \in Nat
  <2>1. Proper(lists)
    BY ListsProper DEF StoreInv
  <2>2. Below(lists, p.low) \in Nat /\ Below(lists, p.high + 1) \in Nat
    BY <1>3, <2>1, BelowType
  <2> QED BY <1>2, <2>2 DEF LastPosition
<1>5. 0 \in 0 .. Cardinality(Ids)
  BY IdsAssumption, FS_CardinalityType
<1>6. CASE p.scan = "full"
  BY <1>2, <1>4, <1>5, <1>6 DEF ControlInv, Running, p
<1>7. CASE p.scan = "range"
  BY <1>2, <1>4, <1>5, <1>7 DEF ControlInv, Running, p
<1>8. CASE p.scan = "lookup"
  BY <1>1, <1>2, <1>4, <1>5, <1>8, KeysType DEF ControlInv, Running, p
<1> QED BY <1>3, <1>6, <1>7, <1>8 DEF Scans

\* The steps of a query that runs leave the store and its plan.
LEMMA Reading ==
  ASSUME NextKey \/ Take \/ Fetch \/ ListEnds \/ ScanAll
  PROVE  /\ UNCHANGED <<docs, lists, writer, query, plan, end, keysGone, old, removals, shrunk>>
         /\ Running /\ Running'
         /\ due' \subseteq due /\ Unwritten' \subseteq Unwritten
<1>1. /\ UNCHANGED <<docs, lists, writer, query, plan, end, keysGone, old, removals, shrunk>>
      /\ Running /\ Running'
  BY DEF NextKey, Take, Fetch, ListEnds, ScanAll, store, cursor, held, history, Running
<1>2. due' \subseteq due /\ Unwritten' \subseteq Unwritten
  BY DEF NextKey, Take, Fetch, ListEnds, ScanAll, store, cursor, held, history, Unwritten
<1> QED BY <1>1, <1>2

\* A key to iterate over is a key of the index.
LEMMA NextKeyIs ==
  ASSUME ControlInv, TrackedInv, NextKey
  PROVE  /\ key' \in Keys /\ key' # 0 /\ key' \in KeysOf(Index)
         /\ key' = NthKey(Index, at) /\ Below(Index, key') + 1 = at
         /\ plan.scan = "range" /\ key = 0
<1>1. reader = "keys" /\ at <= Cardinality(KeysOf(Index)) /\ key' = NthKey(Index, at)
  BY DEF NextKey
<1>2. at \in Nat /\ at >= 1 /\ plan.scan = "range" /\ key = 0
  <2>1. Running /\ plan = Plan(query) /\ query \in Queries
    BY <1>1 DEF ControlInv, Running
  <2>2. plan.scan \in Scans
    BY <2>1, PlanType
  <2> QED BY <1>1, <2>1, <2>2 DEF ControlInv, Scans
<1>3. Proper(Index) /\ Cardinality(KeysOf(Index)) \in Nat
  BY KeysFinite, FS_CardinalityType DEF TrackedInv
<1>4. at \in 1 .. Cardinality(KeysOf(Index))
  BY <1>1, <1>2, <1>3
<1>5. key' \in KeysOf(Index) /\ Below(Index, key') = at - 1
  BY <1>1, <1>3, <1>4, KeyAt
<1> QED BY <1>1, <1>2, <1>5, KeysType DEF KeysOf

\* The next id is the one behind those that were read.
LEMMA TakeIs ==
  ASSUME ControlInv, TrackedInv, Take
  PROVE  /\ Scanning /\ key \in Keys /\ key # 0 /\ ~gone
         /\ id' \in Ids /\ id' \in ToSet(Index[key])
         /\ id' \notin First(Index[key], pos)
         /\ First(Index[key], pos + 1) = First(Index[key], pos) \cup {id'}
<1>1. /\ reader = "take" /\ ~gone /\ ~(pos >= Len(Index[key]))
      /\ id' = Index[key][pos + 1]
  BY DEF Take, ListAtEnd
<1>2. Running /\ query \in Queries /\ plan = Plan(query) /\ pos \in Nat
  BY <1>1 DEF ControlInv, Running
<1>3. plan.scan \in Scans /\ (plan.scan = "lookup" => plan.low \in Keys)
  BY <1>2, PlanType
<1>4. plan.scan # "full" /\ key \in Keys /\ key # 0
  BY <1>1, <1>3, KeysType DEF ControlInv, Scans
<1>5. Index[key] \in Seq(Ids) /\ IsInjective(Index[key])
  BY <1>4 DEF TrackedInv, Proper
<1>6. pos < Len(Index[key])
  <2>1. Len(Index[key]) \in Nat
    BY <1>5
  <2> QED BY <1>1, <1>2, <2>1
<1> QED BY <1>1, <1>2, <1>4, <1>5, <1>6, FirstGrows DEF Scanning

\* A result has an id and a document.
LEMMA ResultType ==
  \A i \in Ids : docs[i] \in Values =>
     \A hasId \in BOOLEAN : Result(i, hasId) \in [id : Ids, value : Values, hasId : BOOLEAN]
BY DEF Result

\* Each step of the query goes from one place to the next.
LEMMA ControlRead ==
  ASSUME StoreInv, ControlInv, TrackedInv, NextKey \/ Take \/ Fetch \/ ListEnds \/ ScanAll
  PROVE  ControlInv'
<1>1. /\ UNCHANGED <<docs, query, plan, end, keysGone, old, removals, shrunk>>
      /\ Running /\ Running' /\ due' \subseteq due
  BY Reading
<1>2. CASE NextKey
  <2>1. /\ reader' = "take" /\ pos' = 0 /\ gone' = FALSE /\ at' = at + 1
        /\ UNCHANGED <<id, results, due, had>>
    BY <1>2 DEF NextKey, history
  <2>2. key' \in Keys /\ key' # 0 /\ plan.scan = "range"
    BY <1>2, NextKeyIs
  <2>3. at' \in Nat /\ at' >= 1
    BY <1>1, <2>1 DEF ControlInv
  <2> QED BY <1>1, <2>1, <2>2, <2>3 DEF ControlInv
<1>3. CASE Take
  <2>1. /\ reader = "take" /\ reader' = "get" /\ pos' = pos + 1 /\ results' = {}
        /\ UNCHANGED <<at, key, gone, due, had>>
    BY <1>3 DEF Take, held, history
  <2>2. id' \in Ids /\ plan.scan # "full" /\ key # 0
    BY <1>3, TakeIs DEF Scanning
  <2> QED BY <1>1, <2>1, <2>2 DEF ControlInv
<1>4. CASE Fetch
  <2>1. /\ reader = "get" /\ reader' = "take" /\ id' = NoDoc
        /\ UNCHANGED <<at, key, pos, gone>>
        /\ IF Passes(docs[id])
           THEN /\ results' = {Result(id, FALSE)}
                /\ due' = due \ {id}
                /\ had' = had \cup ({id} \cap due)
           ELSE UNCHANGED <<results, due, had>>
    BY <1>4 DEF Fetch, held
  <2>2. id \in Ids /\ plan.scan # "full"
    BY <1>1, <2>1 DEF ControlInv
  <2>3. due' \subseteq Ids /\ had' \subseteq Ids \ due'
    BY <2>1, <2>2 DEF ControlInv
  <2>4. results' \subseteq [id : Ids, value : Values, hasId : BOOLEAN]
    <3>1. docs[id] \in Values \cup {NoDoc}
      BY <2>2 DEF StoreInv
    <3>2. Passes(docs[id]) => docs[id] # NoDoc
      BY DEF Passes
    <3> QED BY <2>1, <2>2, <3>1, <3>2, ResultType DEF ControlInv
  <2> QED BY <1>1, <2>1, <2>2, <2>3, <2>4 DEF ControlInv
<1>5. CASE ListEnds
  <2>1. /\ reader = "take" /\ reader' = "keys" /\ plan.scan = "range"
        /\ key' = 0 /\ pos' = 0 /\ gone' = FALSE /\ results' = {}
        /\ UNCHANGED <<at, id, due, had>>
    BY <1>5 DEF ListEnds, history
  <2> QED BY <1>1, <2>1 DEF ControlInv
<1>6. CASE ScanAll
  <2>1. /\ reader = "scan" /\ reader' = "last"
        /\ results' = {Result(i, TRUE) : i \in {j \in Ids : Passes(docs[j])}}
        /\ due' = {i \in due : ~Passes(docs[i])}
        /\ UNCHANGED <<at, key, pos, id, gone, had>>
    BY <1>6 DEF ScanAll, cursor, held
  <2>2. due' = {}
    BY <2>1, NoDocAssumption DEF TrackedInv, Passes
  <2>3. results' \subseteq [id : Ids, value : Values, hasId : BOOLEAN]
    <3>1. \A j \in Ids : Passes(docs[j]) => docs[j] \in Values
      BY DEF StoreInv, Passes
    <3> QED BY <2>1, <3>1, ResultType
  <2>4. plan.scan = "full"
    <3>1. plan.scan \in Scans
      BY <1>1, PlanType DEF ControlInv
    <3> QED BY <2>1, <3>1 DEF ControlInv, Scans
  <2> QED BY <1>1, <2>1, <2>2, <2>3, <2>4 DEF ControlInv
<1> QED BY <1>2, <1>3, <1>4, <1>5, <1>6

\* A query that ends leaves nothing.
LEMMA ControlDispose ==
  ASSUME Dispose
  PROVE  ControlInv'
<1>1. 0 \in 0 .. Cardinality(Ids)
  BY IdsAssumption, FS_CardinalityType
<1> QED BY <1>1 DEF Dispose, ControlInv, Running, Unwritten, FullScan

\* What the query is owed stays in the index that it reads.
LEMMA TrackedStep ==
  ASSUME StoreInv, ControlInv, TrackedInv, [Next]_vars
  PROVE  TrackedInv'
<1>1. CASE Write
  <2>1. WriteFrame /\ (Scanning => WriteEffect)
    BY <1>1, WriteEffects
  <2>2. UNCHANGED <<reader, query, plan>>
    BY <2>1 DEF WriteFrame, cursor
  <2>3. Scanning' = Scanning
    BY <2>2 DEF Scanning, Running
  <2>4. Unwritten' \subseteq Unwritten /\ due' \subseteq due /\ \A i \in Unwritten' : docs'[i] = docs[i]
    BY <2>1 DEF WriteFrame, Unwritten
  <2>5. \A i \in due' : docs'[i] \in Values /\ Matches(query', docs'[i]) /\ InOrder(query', docs'[i])
    BY <2>2, <2>4 DEF TrackedInv, Unwritten
  <2>6. Scanning' => \A i \in Unwritten' : docs'[i] \in Values /\ i \in ToSet(Index'[Key[docs'[i]]])
    BY <2>1, <2>3, <2>4 DEF TrackedInv, WriteEffect
  <2> QED BY <2>1, <2>3, <2>5, <2>6 DEF TrackedInv, WriteFrame
<1>2. ASSUME NEW q \in Queries, Start(q) PROVE TrackedInv'
  <2>1. /\ query' = q /\ old' = {} /\ had' = {}
        /\ due' = IF writer.pc = "rebuild" THEN {}
                  ELSE {i \in Ids \ {writer.id} :
                          docs[i] # NoDoc /\ Matches(q, docs[i]) /\ InOrder(q, docs[i])}
        /\ UNCHANGED <<docs, lists, writer>>
    BY <1>2 DEF Start, store
  <2>2. Index' = lists /\ Proper(lists)
    BY <2>1, IndexNext, ListsProper DEF StoreInv
  <2>3. Unwritten' = due'
    BY <2>1 DEF Unwritten
  <2>4. ASSUME NEW i \in due'
        PROVE  /\ docs[i] \in Values /\ Matches(q, docs[i]) /\ InOrder(q, docs[i])
               /\ i \in ToSet(lists[Key[docs[i]]])
               /\ i # writer.id /\ writer.pc # "rebuild"
    <3>1. /\ i \in Ids /\ i # writer.id /\ writer.pc # "rebuild"
          /\ docs[i] # NoDoc /\ Matches(q, docs[i]) /\ InOrder(q, docs[i])
      BY <2>1, <2>4
    <3>2. docs[i] \in Values /\ Posted(i) = docs[i]
      BY <3>1 DEF StoreInv, Posted
    <3>3. Key[docs[i]] \in Keys
      BY <3>2, KeysType
    <3> QED BY <3>1, <3>2, <3>3 DEF StoreInv, ListsInv
  <2> QED BY <2>1, <2>2, <2>3, <2>4 DEF TrackedInv
<1>3. CASE NextKey \/ Take \/ Fetch \/ ListEnds \/ ScanAll
  <2>1. /\ UNCHANGED <<docs, lists, writer, query, plan, old>>
        /\ Running /\ Running' /\ due' \subseteq due /\ Unwritten' \subseteq Unwritten
    BY <1>3, Reading
  <2>2. Index' = Index
    BY <2>1, IndexNext
  <2> QED BY <2>1, <2>2 DEF TrackedInv, Scanning
<1>4. CASE Dispose
  <2>1. /\ reader' = "idle" /\ due' = {} /\ had' = {} /\ old' = {}
        /\ UNCHANGED <<lists, writer>>
    BY <1>4 DEF Dispose, store
  <2>2. Index' = lists /\ Proper(lists)
    BY <2>1, IndexNext, ListsProper DEF StoreInv
  <2> QED BY <2>1, <2>2 DEF TrackedInv, Scanning, Running, Unwritten
<1>5. CASE UNCHANGED vars
  <2>1. /\ UNCHANGED <<docs, lists, writer, reader, query, plan, old, due, had>>
    BY <1>5 DEF vars, store, cursor, held, history
  <2>2. Index' = Index
    BY <2>1, IndexNext
  <2> QED BY <2>1, <2>2 DEF TrackedInv, Scanning, Running, Unwritten
<1> QED BY <1>1, <1>2, <1>3, <1>4, <1>5 DEF Next, Read, Finish, Close

-----------------------------------------------------------------------------
(* Where the unwritten documents are, as the query sees it *)

\* The list that was emptied under the query had none of them.
GoneInv == Scanning /\ gone => \A i \in Unwritten : Key[docs[i]] # key

\* A document that was yielded lies behind the query, in its list or under a key
\* that it has passed.
HadInv ==
  Scanning =>
    /\ \A i \in had :
         \/ Key[docs[i]] = key /\ i \in First(Index[key], pos)
         \/ /\ Key[docs[i]] # key /\ plan.scan = "range"
            /\ Below(Index, Key[docs[i]]) + 1 < at
    /\ plan.scan = "range" /\ key # 0 /\ Unwritten # {} => Below(Index, key) + 1 < at
    /\ reader = "get" => /\ id \notin had
                         /\ id \in due => Key[docs[id]] = key /\ id \in First(Index[key], pos)

\* As long as the keys of a range are those of its start, its last position is
\* that of the last of them.
RangeInv == plan.scan = "range" /\ due # {} => end = Below(Index, plan.high + 1)

\* The query has the document still before it.
Ahead(i) ==
  \/ reader = "get" /\ i = id
  \/ Key[docs[i]] = key /\ i \notin First(Index[key], pos)
  \/ plan.scan = "range" /\ Below(Index, Key[docs[i]]) + 1 >= at

Missed == {i \in due : ~Ahead(i)}

\* It passes by no more documents than were taken out of the lists it reads.
MissedInv == Scanning => Cardinality(Missed) <= removals

\* The keys reach to the last position of a range, until one is removed.
ShrunkInv ==
  plan.scan = "range" /\ ~shrunk =>
    /\ end <= Cardinality(KeysOf(Index))
    /\ keysGone => end = 0

\* A range or a lookup scans the index.
LEMMA ScanningIs ==
  ASSUME ControlInv
  PROVE  /\ plan.scan \in {"range", "lookup"} => Scanning
         /\ Scanning => plan.scan \in {"range", "lookup"} /\ query \in Queries /\ plan = Plan(query)
                        /\ plan.low \in Nat /\ plan.high \in Nat
<1>1. plan.scan # "full" => Running
  BY DEF ControlInv, FullScan
<1>2. Running => query \in Queries /\ plan = Plan(query)
  BY DEF ControlInv
<1> QED BY <1>1, <1>2, PlanType DEF Scanning, Scans

\* A write does not change which documents are under a list that is gone.
LEMMA GoneStep ==
  ASSUME StoreInv, ControlInv, TrackedInv, TrackedInv', GoneInv, [Next]_vars
  PROVE  GoneInv'
<1>1. CASE Write
  <2>1. WriteFrame /\ (Scanning => WriteEffect)
    BY <1>1, WriteEffects
  <2>2. /\ Scanning' = Scanning /\ key' = key /\ Unwritten' \subseteq Unwritten
        /\ \A i \in Unwritten' : docs'[i] = docs[i]
    BY <2>1 DEF WriteFrame, cursor, Scanning, Running, Unwritten
  <2>3. ASSUME Scanning, gone', NEW i \in Unwritten', Key[docs[i]] = key
        PROVE  FALSE
    <3>1. ~gone
      BY <2>2, <2>3 DEF GoneInv
    <3>2. Index'[key] = <<>> /\ i \in ToSet(Index'[key])
      BY <2>1, <2>3, <3>1 DEF WriteEffect
    <3> QED BY <3>2 DEF ToSet
  <2> QED BY <2>2, <2>3 DEF GoneInv
<1>2. ASSUME NEW q \in Queries, Start(q) PROVE GoneInv'
  <2>1. /\ gone' = (plan'.scan = "lookup" /\ lists[plan'.low] = <<>>)
        /\ key' = IF plan'.scan = "lookup" THEN plan'.low ELSE 0
        /\ old' = {} /\ lists' = lists
    BY <1>2 DEF Start, store
  <2>2. Index' = lists
    BY <2>1, IndexNext
  <2>3. ASSUME Scanning', gone', NEW i \in Unwritten', Key[docs'[i]] = key'
        PROVE  FALSE
    <3>1. i \in ToSet(Index'[key']) /\ Index'[key'] = <<>>
      BY <2>1, <2>2, <2>3 DEF TrackedInv
    <3> QED BY <3>1 DEF ToSet
  <2> QED BY <2>3 DEF GoneInv
<1>3. CASE NextKey \/ ListEnds
  BY <1>3 DEF NextKey, ListEnds, GoneInv
<1>4. CASE Take \/ Fetch \/ ScanAll
  <2>1. /\ docs' = docs /\ plan' = plan /\ Running /\ Unwritten' \subseteq Unwritten
    BY <1>4, Reading
  <2>2. key' = key /\ gone' = gone
    BY <1>4 DEF Take, Fetch, ScanAll, cursor, held
  <2> QED BY <2>1, <2>2 DEF GoneInv, Scanning
<1>5. CASE Dispose
  BY <1>5 DEF Dispose, GoneInv, Scanning, Running
<1>6. CASE UNCHANGED vars
  BY <1>6 DEF vars, store, cursor, held, history, GoneInv, Scanning, Running, Unwritten
<1> QED BY <1>1, <1>2, <1>3, <1>4, <1>5, <1>6 DEF Next, Read, Finish, Close

\* What was yielded stays behind the query.
LEMMA HadStep ==
  ASSUME StoreInv, ControlInv, ControlInv', TrackedInv, TrackedInv', HadInv, [Next]_vars
  PROVE  HadInv'
<1>1. Proper(Index) /\ \A i \in Unwritten : Scanning => docs[i] \in Values /\ Key[docs[i]] \in Keys
  BY KeysType DEF TrackedInv
<1>2. \A k \in Nat : Below(Index, k) \in Nat
  BY <1>1, BelowType
<1>3. Keys \in SUBSET Nat /\ at \in Nat /\ at' \in Nat /\ pos \in Nat /\ key \in Nat
  BY KeysType DEF ControlInv
<1>4. CASE Write
  <2>1. WriteFrame /\ (Scanning => WriteEffect)
    BY <1>4, WriteEffects
  <2>2. UNCHANGED <<reader, plan, at, key, pos, id>>
    BY <2>1 DEF WriteFrame, cursor
  <2>3. Scanning' = Scanning
    BY <2>2 DEF Scanning, Running
  <2>4. due' \subseteq due /\ had' \subseteq had /\ Unwritten' \subseteq Unwritten
        /\ had' \subseteq Unwritten' /\ due' \subseteq Unwritten'
        /\ \A i \in Unwritten' : docs'[i] = docs[i]
    BY <2>1 DEF WriteFrame, Unwritten
  <2>5. ASSUME Scanning, plan.scan = "range", Unwritten' # {}, NEW k \in Nat
        PROVE  Below(Index', k) <= Below(Index, k) /\ Below(Index', k) \in Nat
    <3>1. KeysOf(Index') \subseteq KeysOf(Index) /\ Proper(Index')
      BY <2>1, <2>5 DEF WriteEffect, WriteFrame
    <3> QED BY <1>1, <3>1, BelowFewer, BelowType
  <2>6. ASSUME Scanning, NEW i \in had'
        PROVE  \/ Key[docs[i]] = key /\ i \in First(Index'[key], pos)
               \/ /\ Key[docs[i]] # key /\ plan.scan = "range"
                  /\ Below(Index', Key[docs[i]]) + 1 < at
    <3>1. i \in had /\ i \in Unwritten' /\ Key[docs[i]] \in Keys
      BY <1>1, <2>4, <2>6 DEF Unwritten
    <3>2. CASE Key[docs[i]] = key /\ i \in First(Index[key], pos)
      BY <1>3, <2>1, <2>6, <3>1, <3>2 DEF WriteEffect
    <3>3. CASE /\ Key[docs[i]] # key /\ plan.scan = "range"
               /\ Below(Index, Key[docs[i]]) + 1 < at
      <4>1. /\ Below(Index', Key[docs[i]]) <= Below(Index, Key[docs[i]])
            /\ Below(Index', Key[docs[i]]) \in Nat /\ Below(Index, Key[docs[i]]) \in Nat
        BY <1>2, <1>3, <2>5, <2>6, <3>1, <3>3
      <4> QED BY <1>3, <3>3, <4>1
    <3> QED BY <2>6, <3>1, <3>2, <3>3 DEF HadInv
  <2>7. ASSUME Scanning, plan.scan = "range", key # 0, Unwritten' # {}
        PROVE  Below(Index', key) + 1 < at
    <3>1. Below(Index, key) + 1 < at
      BY <2>4, <2>7 DEF HadInv
    <3>2. Below(Index', key) <= Below(Index, key) /\ Below(Index', key) \in Nat
      BY <1>3, <2>5, <2>7
    <3> QED BY <1>2, <1>3, <3>1, <3>2
  <2>8. ASSUME Scanning, reader = "get"
        PROVE  /\ id \notin had'
               /\ id \in due' => Key[docs[id]] = key /\ id \in First(Index'[key], pos)
    <3>1. /\ id \notin had
          /\ id \in due => Key[docs[id]] = key /\ id \in First(Index[key], pos)
      BY <2>8 DEF HadInv
    <3>2. id \in due => key \in Keys
      BY <1>1, <2>8, <3>1 DEF Unwritten
    <3> QED BY <1>3, <2>1, <2>4, <2>8, <3>1, <3>2 DEF WriteEffect
  <2> QED BY <2>2, <2>3, <2>4, <2>6, <2>7, <2>8 DEF HadInv
<1>5. ASSUME NEW q \in Queries, Start(q) PROVE HadInv'
  <2>1. had' = {} /\ reader' # "get" /\ (plan'.scan = "range" => key' = 0)
    <3>1. Plan(q).scan \in Scans
      BY PlanType
    <3> QED BY <1>5, <3>1 DEF Start, Scans
  <2> QED BY <2>1 DEF HadInv
<1>6. ASSUME NextKey \/ Take \/ Fetch \/ ListEnds \/ ScanAll
      PROVE  /\ UNCHANGED <<docs, lists, plan, old>> /\ Index' = Index
             /\ Scanning' = Scanning /\ due' \subseteq due /\ Unwritten' \subseteq Unwritten
  BY <1>6, Reading, IndexNext DEF Scanning
<1>7. CASE NextKey
  <2>1. reader' = "take" /\ pos' = 0 /\ at' = at + 1 /\ had' = had
    BY <1>7 DEF NextKey, history
  <2>2. /\ key' \in Keys /\ key' # 0 /\ Below(Index, key') + 1 = at
        /\ plan.scan = "range" /\ key = 0
    BY <1>7, NextKeyIs
  <2>3. \A i \in had : Scanning => /\ Key[docs[i]] # key' /\ Below(Index, Key[docs[i]]) + 1 < at + 1
                                   /\ plan.scan = "range"
    <3> SUFFICES ASSUME NEW i \in had, Scanning
                 PROVE  Key[docs[i]] # key' /\ Below(Index, Key[docs[i]]) + 1 < at + 1
      BY <2>2
    <3>1. Key[docs[i]] # key /\ Key[docs[i]] \in Nat
      BY <1>1, <2>2, KeysType DEF Unwritten
    <3>2. Below(Index, Key[docs[i]]) + 1 < at /\ Below(Index, Key[docs[i]]) \in Nat
      BY <1>2, <3>1 DEF HadInv
    <3> QED BY <1>3, <2>2, <3>2
  <2>4. Below(Index, key') + 1 < at'
    BY <1>3, <2>1, <2>2
  <2>5. Index' = Index /\ Scanning' = Scanning /\ docs' = docs /\ plan' = plan
    BY <1>6, <1>7
  <2>6. \A i \in had' : Scanning' => /\ Key[docs'[i]] # key' /\ plan'.scan = "range"
                                    /\ Below(Index', Key[docs'[i]]) + 1 < at'
    BY <2>1, <2>3, <2>5
  <2>7. Below(Index', key') + 1 < at'
    BY <2>4, <2>5
  <2> QED BY <2>1, <2>6, <2>7 DEF HadInv
<1>8. CASE Take
  <2>1. reader' = "get" /\ pos' = pos + 1 /\ UNCHANGED <<at, key, due, had>>
    BY <1>8 DEF Take, history
  <2>2. /\ Scanning /\ key \in Keys /\ id' \in ToSet(Index[key])
        /\ id' \notin First(Index[key], pos)
        /\ First(Index[key], pos + 1) = First(Index[key], pos) \cup {id'}
    BY <1>8, TakeIs
  <2>3. id' \in Unwritten => Key[docs[id']] = key
    BY <1>1, <2>2 DEF TrackedInv, Proper
  <2>4. id' \notin had
    <3> SUFFICES ASSUME id' \in had PROVE FALSE
      OBVIOUS
    <3>1. Key[docs[id']] = key
      BY <2>3 DEF Unwritten
    <3> QED BY <2>2, <3>1 DEF HadInv
  <2>5. id' \in due => Key[docs[id']] = key /\ id' \in First(Index[key], pos + 1)
    BY <2>2, <2>3 DEF Unwritten
  <2> QED BY <1>6, <1>8, <2>1, <2>2, <2>4, <2>5 DEF HadInv, Unwritten
<1>9. CASE Fetch
  <2>1. /\ reader = "get" /\ reader' = "take" /\ UNCHANGED <<at, key, pos>>
        /\ had' \subseteq had \cup ({id} \cap due)
    BY <1>9 DEF Fetch
  <2> QED BY <1>6, <1>9, <2>1 DEF HadInv
<1>10. CASE ListEnds
  <2>1. /\ reader' = "keys" /\ key' = 0 /\ pos' = 0 /\ UNCHANGED <<at, due, had>>
        /\ reader = "take" /\ plan.scan = "range"
    BY <1>10 DEF ListEnds, history
  <2>2. ASSUME NEW i \in had, Scanning
        PROVE  Key[docs[i]] # 0 /\ Below(Index, Key[docs[i]]) + 1 < at
    <3>1. Key[docs[i]] \in Keys /\ Key[docs[i]] # 0 /\ Unwritten # {}
      BY <1>1, <2>2, KeysType DEF Unwritten
    <3>2. CASE Key[docs[i]] = key
      BY <2>1, <2>2, <3>1, <3>2 DEF HadInv
    <3>3. CASE Key[docs[i]] # key
      BY <2>2, <3>1, <3>3 DEF HadInv
    <3> QED BY <3>1, <3>2, <3>3
  <2> QED BY <1>6, <1>10, <2>1, <2>2 DEF HadInv
<1>11. CASE ScanAll
  <2>1. ~Scanning
    <3>1. reader = "scan"
      BY <1>11 DEF ScanAll
    <3> QED BY <3>1, ScanningIs DEF ControlInv
  <2> QED BY <1>6, <1>11, <2>1 DEF HadInv
<1>12. CASE Dispose
  BY <1>12 DEF Dispose, HadInv, Scanning, Running
<1>13. CASE UNCHANGED vars
  <2>1. UNCHANGED <<docs, lists, reader, plan, at, key, pos, id, old, due, had>>
    BY <1>13 DEF vars, store, cursor, held, history
  <2>2. Index' = Index
    BY <2>1, IndexNext
  <2> QED BY <2>1, <2>2 DEF HadInv, Scanning, Running, Unwritten
<1> QED BY <1>4, <1>5, <1>7, <1>8, <1>9, <1>10, <1>11, <1>12, <1>13
        DEF Next, Read, Finish, Close

\* A range whose keys stay keeps its last position.
LEMMA RangeStep ==
  ASSUME StoreInv, ControlInv, TrackedInv, RangeInv, [Next]_vars
  PROVE  RangeInv'
<1>1. CASE Write
  <2>1. WriteFrame /\ (Scanning => WriteEffect)
    BY <1>1, WriteEffects
  <2>2. UNCHANGED <<plan, end>> /\ due' \subseteq due
    BY <2>1 DEF WriteFrame, cursor
  <2>3. ASSUME plan.scan = "range", due' # {}
        PROVE  Below(Index', plan.high + 1) = Below(Index, plan.high + 1)
    <3>1. Scanning
      BY <2>3, ScanningIs
    <3>2. KeysOf(Index') = KeysOf(Index)
      BY <2>1, <2>3, <3>1 DEF WriteEffect
    <3> QED BY <3>2 DEF Below
  <2> QED BY <2>2, <2>3 DEF RangeInv
<1>2. ASSUME NEW q \in Queries, Start(q) PROVE RangeInv'
  <2>1. end' = Below(lists, plan'.high + 1) /\ old' = {} /\ lists' = lists
    BY <1>2 DEF Start, LastPosition, store
  <2>2. Index' = lists
    BY <2>1, IndexNext
  <2> QED BY <2>1, <2>2 DEF RangeInv
<1>3. CASE NextKey \/ Take \/ Fetch \/ ListEnds \/ ScanAll
  <2>1. UNCHANGED <<lists, old, plan, end>> /\ due' \subseteq due
    BY <1>3, Reading
  <2>2. Index' = Index
    BY <2>1, IndexNext
  <2> QED BY <2>1, <2>2 DEF RangeInv
<1>4. CASE Dispose
  BY <1>4 DEF Dispose, RangeInv
<1>5. CASE UNCHANGED vars
  <2>1. UNCHANGED <<lists, old, plan, end, due>>
    BY <1>5 DEF vars, store, cursor, held, history
  <2>2. Index' = Index
    BY <2>1, IndexNext
  <2> QED BY <2>1, <2>2 DEF RangeInv
<1> QED BY <1>1, <1>2, <1>3, <1>4, <1>5 DEF Next, Read, Finish, Close

\* The keys of a range, of which none was removed, reach to its last position.
LEMMA ShrunkStep ==
  ASSUME StoreInv, ControlInv, TrackedInv, ShrunkInv, [Next]_vars
  PROVE  ShrunkInv'
<1>1. CASE Write
  <2>1. WriteFrame /\ (Scanning => WriteEffect)
    BY <1>1, WriteEffects
  <2>2. UNCHANGED <<plan, end>>
    BY <2>1 DEF WriteFrame, cursor
  <2>3. ASSUME plan.scan = "range", ~shrunk'
        PROVE  /\ end <= Cardinality(KeysOf(Index'))
               /\ keysGone' => end = 0
    <3>1. Scanning
      BY <2>3, ScanningIs
    <3>2. /\ ~shrunk /\ KeysOf(Index) \subseteq KeysOf(Index')
          /\ keysGone' => keysGone \/ KeysOf(Index') = {}
      BY <2>1, <2>3, <3>1 DEF WriteEffect
    <3>3. end <= Cardinality(KeysOf(Index)) /\ (keysGone => end = 0) /\ end \in Nat
      BY <2>3, <3>2 DEF ShrunkInv, ControlInv
    <3>4. Proper(Index) /\ Proper(Index')
      BY <2>1 DEF WriteFrame, TrackedInv
    <3>5. /\ Cardinality(KeysOf(Index)) <= Cardinality(KeysOf(Index'))
          /\ Cardinality(KeysOf(Index)) \in Nat /\ Cardinality(KeysOf(Index')) \in Nat
      <4>1. 0 \in Nat
        OBVIOUS
      <4> QED BY <3>2, <3>4, <4>1, BelowFewer, BelowType
    <3>6. KeysOf(Index') = {} => end = 0
      <4>1. ASSUME KeysOf(Index') = {} PROVE Cardinality(KeysOf(Index')) = 0
        BY <4>1, FS_EmptySet
      <4> QED BY <3>3, <3>5, <4>1
    <3>7. end <= Cardinality(KeysOf(Index'))
      BY <3>3, <3>5
    <3> QED BY <3>2, <3>3, <3>6, <3>7
  <2> QED BY <2>2, <2>3 DEF ShrunkInv
<1>2. ASSUME NEW q \in Queries, Start(q) PROVE ShrunkInv'
  <2>1. /\ end' = Below(lists, plan'.high + 1) /\ old' = {} /\ lists' = lists
        /\ keysGone' = FALSE /\ plan' = Plan(q)
    BY <1>2 DEF Start, LastPosition, store
  <2>2. Index' = lists
    BY <2>1, IndexNext
  <2>3. Plan(q).high + 1 \in Nat /\ Proper(lists)
    BY PlanType, ListsProper DEF StoreInv
  <2>4. Below(lists, Plan(q).high + 1) <= Cardinality(KeysOf(lists))
    BY <2>3, BelowType
  <2> QED BY <2>1, <2>2, <2>4 DEF ShrunkInv
<1>3. CASE NextKey \/ Take \/ Fetch \/ ListEnds \/ ScanAll
  <2>1. UNCHANGED <<lists, old, plan, end, keysGone, shrunk>>
    BY <1>3, Reading
  <2>2. Index' = Index
    BY <2>1, IndexNext
  <2> QED BY <2>1, <2>2 DEF ShrunkInv
<1>4. CASE Dispose
  BY <1>4 DEF Dispose, ShrunkInv, FullScan
<1>5. CASE UNCHANGED vars
  <2>1. UNCHANGED <<lists, old, plan, end, keysGone, shrunk>>
    BY <1>5 DEF vars, store, cursor, held, history
  <2>2. Index' = Index
    BY <2>1, IndexNext
  <2> QED BY <2>1, <2>2 DEF ShrunkInv
<1> QED BY <1>1, <1>2, <1>3, <1>4, <1>5 DEF Next, Read, Finish, Close

\* The query passes by a document only when an id leaves its list before it.
LEMMA MissedStep ==
  ASSUME StoreInv, ControlInv, ControlInv', TrackedInv, TrackedInv', GoneInv, MissedInv,
         [Next]_vars
  PROVE  MissedInv'
<1>1. Keys \in SUBSET (Nat \ {0}) /\ at \in Nat /\ pos \in Nat /\ key \in Nat
  BY KeysType DEF ControlInv
<1>2. ASSUME Scanning, NEW i \in due
      PROVE  /\ i \in Ids /\ docs[i] \in Values /\ i \in ToSet(Index[Key[docs[i]]])
             /\ Key[docs[i]] \in Keys /\ Key[docs[i]] \in KeysOf(Index)
             /\ Key[docs[i]] \in plan.low .. plan.high
  <2>1. docs[i] \in Values /\ i \in ToSet(Index[Key[docs[i]]]) /\ i \in Ids
    BY <1>2 DEF TrackedInv, ControlInv, Unwritten
  <2>2. Key[docs[i]] \in Keys /\ Index[Key[docs[i]]] # <<>>
    BY <2>1, KeysType DEF ToSet
  <2>3. Key[docs[i]] \in plan.low .. plan.high
    <3>1. query \in Queries /\ plan = Plan(query) /\ plan.scan # "full"
      BY <1>2, ScanningIs DEF Scanning
    <3> QED BY <2>1, <3>1, <1>2, PlanCovers DEF TrackedInv
  <2> QED BY <2>1, <2>2, <2>3 DEF KeysOf
<1>3. /\ IsFiniteSet(Missed) /\ Cardinality(Missed) \in Nat
      /\ removals \in Nat /\ removals' \in Nat /\ Cardinality(Ids) \in Nat
      /\ IsFiniteSet(Missed') /\ Cardinality(Missed') \in Nat
      /\ Cardinality(Missed') <= Cardinality(Ids)
  <2>1. Missed \in SUBSET Ids /\ Missed' \in SUBSET Ids
    BY DEF Missed, ControlInv
  <2>2. /\ IsFiniteSet(Missed) /\ IsFiniteSet(Missed')
        /\ Cardinality(Missed') <= Cardinality(Ids)
    BY <2>1, IdsAssumption, FS_Subset
  <2>3. /\ Cardinality(Missed) \in Nat /\ Cardinality(Missed') \in Nat
        /\ Cardinality(Ids) \in Nat
    BY <2>2, IdsAssumption, FS_CardinalityType
  <2> QED BY <2>2, <2>3 DEF ControlInv
<1>4. ASSUME Scanning, Missed' \subseteq Missed, removals' >= removals
      PROVE  MissedInv'
  <2>1. Cardinality(Missed') <= Cardinality(Missed)
    BY <1>3, <1>4, FS_Subset
  <2>2. Cardinality(Missed) <= removals
    BY <1>4 DEF MissedInv
  <2>3. Cardinality(Missed') <= removals'
    BY <1>3, <1>4, <2>1, <2>2
  <2> QED BY <2>3 DEF MissedInv
<1>5. CASE Write
  <2>1. WriteFrame /\ (Scanning => WriteEffect)
    BY <1>5, WriteEffects
  <2>2. UNCHANGED <<reader, plan, at, key, pos, id>>
    BY <2>1 DEF WriteFrame, cursor
  <2>3. Scanning' = Scanning
    BY <2>2 DEF Scanning, Running
  <2>4. due' \subseteq due /\ \A i \in due' : docs'[i] = docs[i]
    BY <2>1 DEF WriteFrame, Unwritten
  <2>5. ASSUME Scanning, plan.scan = "range", due' # {}, NEW k
        PROVE  Below(Index', k) = Below(Index, k)
    <3>1. KeysOf(Index') = KeysOf(Index)
      BY <2>1, <2>5 DEF WriteEffect
    <3> QED BY <3>1 DEF Below
  <2>6. ASSUME Scanning, NEW i \in Missed', i \notin Missed
        PROVE  /\ i \in due' /\ Key[docs[i]] = key
               /\ i \notin First(Index[key], pos) /\ i \in First(Index'[key], pos)
    <3>1. i \in due' /\ i \in due /\ ~Ahead(i)' /\ Ahead(i) /\ docs'[i] = docs[i]
      BY <2>4, <2>6 DEF Missed
    <3>2. ~(reader = "get" /\ i = id)
      BY <2>2, <3>1 DEF Ahead
    <3>3. ~(plan.scan = "range" /\ Below(Index, Key[docs[i]]) + 1 >= at)
      BY <2>2, <2>5, <2>6, <3>1 DEF Ahead
    <3>4. Key[docs[i]] = key /\ i \notin First(Index[key], pos)
      BY <3>1, <3>2, <3>3 DEF Ahead
    <3>5. i \in First(Index'[key], pos)
      BY <2>2, <3>1, <3>4 DEF Ahead
    <3> QED BY <3>1, <3>4, <3>5
  <2>7. CASE Scanning /\ Missed' \subseteq Missed
    BY <1>4, <2>1, <2>7 DEF WriteEffect
  <2>8. CASE Scanning /\ ~(Missed' \subseteq Missed)
    <3>1. PICK i \in Missed' : i \notin Missed
      BY <2>8
    <3>2. key \in Keys /\ key \in plan.low .. plan.high
      BY <1>2, <2>4, <2>6, <2>8, <3>1
    <3>3. /\ First(Index'[key], pos) \subseteq First(Index[key], pos + 1)
          /\ removals' = removals + 1 \/ removals' = Cardinality(Ids)
      <4>1. ~(First(Index'[key], pos) \cap due' \subseteq First(Index[key], pos))
        BY <2>6, <2>8, <3>1
      <4> QED BY <2>1, <2>8, <3>2, <4>1 DEF WriteEffect
    <3>4. Index[key] \in Seq(Ids) /\ Len(Index[key]) \in Nat
      BY <3>2 DEF TrackedInv, Proper
    <3> DEFINE next == Index[key][pos + 1]
    <3>5. First(Index[key], pos + 1) \subseteq First(Index[key], pos) \cup {next}
      <4>1. CASE pos < Len(Index[key])
        BY <1>1, <3>4, <4>1, FirstGrows
      <4>2. CASE pos >= Len(Index[key])
        <5>1. First(Index[key], pos) = ToSet(Index[key])
          BY <1>1, <3>4, <4>2, FirstGrows
        <5>2. First(Index[key], pos + 1) \subseteq ToSet(Index[key])
          BY <1>1, <3>4, FirstGrows
        <5> QED BY <5>1, <5>2
      <4> QED BY <1>1, <3>4, <4>1, <4>2
    <3> HIDE DEF next
    <3>6. Missed' \subseteq Missed \cup {next}
      BY <2>6, <2>8, <3>3, <3>5
    <3>7. /\ IsFiniteSet(Missed \cup {next})
          /\ Cardinality(Missed \cup {next}) <= Cardinality(Missed) + 1
          /\ Cardinality(Missed \cup {next}) \in Nat
      <4>1. /\ IsFiniteSet(Missed \cup {next})
            /\ Cardinality(Missed \cup {next})
                 = IF next \in Missed THEN Cardinality(Missed) ELSE Cardinality(Missed) + 1
        BY <1>3, FS_AddElement
      <4> QED BY <1>3, <4>1
    <3>8. Cardinality(Missed') <= Cardinality(Missed \cup {next})
      BY <3>6, <3>7, FS_Subset
    <3>9. Cardinality(Missed) <= removals
      BY <2>8 DEF MissedInv
    <3>10. Cardinality(Missed') <= removals'
      BY <1>3, <3>3, <3>7, <3>8, <3>9
    <3> QED BY <3>10 DEF MissedInv
  <2> QED BY <2>3, <2>7, <2>8 DEF MissedInv
<1>6. ASSUME NEW q \in Queries, Start(q) PROVE MissedInv'
  <2>1. /\ query' = q /\ plan' = Plan(q) /\ old' = {} /\ lists' = lists /\ docs' = docs
        /\ at' = Below(lists, plan'.low) + 1
        /\ key' = IF plan'.scan = "lookup" THEN plan'.low ELSE 0
        /\ pos' = 0 /\ removals' = 0
    BY <1>6 DEF Start, store
  <2>2. Index' = lists /\ Proper(lists)
    BY <2>1, IndexNext, ListsProper DEF StoreInv
  <2>3. ASSUME Scanning', NEW i \in due' PROVE Ahead(i)'
    <3>1. docs[i] \in Values /\ Matches(q, docs[i]) /\ InOrder(q, docs[i])
          /\ i \in ToSet(lists[Key[docs[i]]])
      BY <2>1, <2>2, <2>3 DEF TrackedInv, Unwritten
    <3>2. Plan(q).scan # "full"
      BY <2>1, <2>3 DEF Scanning
    <3>3. Key[docs[i]] \in Plan(q).low .. Plan(q).high /\ Key[docs[i]] \in Keys
      BY <3>1, <3>2, PlanCovers, KeysType
    <3>4. /\ Plan(q).scan \in Scans /\ Plan(q).low \in Nat /\ Plan(q).high \in Nat
          /\ Plan(q).scan = "lookup" => Plan(q).low \in Keys /\ Plan(q).high = Plan(q).low
      BY PlanType
    <3>5. CASE Plan(q).scan = "lookup"
      <4>1. key' = Key[docs[i]] /\ key' \in Keys
        BY <2>1, <3>3, <3>4, <3>5
      <4>2. lists[key'] \in Seq(Ids)
        BY <2>2, <4>1 DEF Proper
      <4>3. First(lists[key'], 0) = {}
        BY <4>2, FirstGrows
      <4> QED BY <2>1, <2>2, <4>1, <4>3 DEF Ahead
    <3>6. CASE Plan(q).scan = "range"
      <4>1. Key[docs[i]] \in Nat /\ Plan(q).low <= Key[docs[i]]
        BY <1>1, <3>3, <3>4
      <4>2. Below(lists, Plan(q).low) <= Below(lists, Key[docs[i]])
        BY <2>2, <3>4, <4>1, BelowType
      <4>3. Below(lists, Plan(q).low) \in Nat /\ Below(lists, Key[docs[i]]) \in Nat
        BY <2>2, <3>4, <4>1, BelowType
      <4>4. Below(Index', Key[docs'[i]]) + 1 >= at'
        BY <2>1, <2>2, <4>2, <4>3
      <4> QED BY <2>1, <3>6, <4>4 DEF Ahead
    <3> QED BY <3>2, <3>4, <3>5, <3>6 DEF Scans
  <2>4. Scanning' => Missed' = {}
    BY <2>3 DEF Missed
  <2>5. Scanning' => Cardinality(Missed') = 0
    BY <2>4, FS_EmptySet
  <2> QED BY <2>1, <2>5 DEF MissedInv
<1>7. ASSUME NextKey \/ Take \/ Fetch \/ ListEnds \/ ScanAll
      PROVE  /\ UNCHANGED <<docs, lists, plan, old, removals>> /\ Index' = Index
             /\ Scanning' = Scanning /\ due' \subseteq due
  BY <1>7, Reading, IndexNext DEF Scanning
<1>8. ASSUME NextKey \/ Take \/ Fetch \/ ListEnds \/ ScanAll,
             Scanning => \A i \in due' : Ahead(i) => Ahead(i)'
      PROVE  MissedInv'
  <2>1. CASE Scanning
    <3>1. Missed' \subseteq Missed
      BY <1>7, <1>8, <2>1 DEF Missed
    <3>2. removals' >= removals
      BY <1>3, <1>7, <1>8
    <3> QED BY <1>4, <2>1, <3>1, <3>2
  <2>2. CASE ~Scanning
    BY <1>7, <1>8, <2>2 DEF MissedInv
  <2> QED BY <2>1, <2>2
<1>9. CASE NextKey
  <2>1. reader = "keys" /\ reader' = "take" /\ pos' = 0 /\ at' = at + 1
    BY <1>9 DEF NextKey
  <2>2. /\ key' \in Keys /\ key' \in KeysOf(Index) /\ Below(Index, key') + 1 = at
        /\ plan.scan = "range" /\ key = 0
    BY <1>9, NextKeyIs
  <2>3. UNCHANGED <<docs, plan>> /\ Index' = Index /\ due' \subseteq due
    BY <1>7, <1>9
  <2>4. Proper(Index)
    BY DEF TrackedInv
  <2> SUFFICES ASSUME Scanning, NEW i \in due', Ahead(i) PROVE Ahead(i)'
    BY <1>8, <1>9
  <2>5. Key[docs[i]] \in Keys /\ Key[docs[i]] \in KeysOf(Index)
    BY <1>2, <2>3
  <2>6. Below(Index, Key[docs[i]]) + 1 >= at
    BY <1>1, <2>1, <2>2, <2>5 DEF Ahead
  <2>7. CASE Key[docs[i]] = key'
    <3>1. Index[key'] \in Seq(Ids)
      BY <2>2, <2>4 DEF Proper
    <3>2. First(Index[key'], 0) = {}
      BY <3>1, FirstGrows
    <3> QED BY <2>1, <2>3, <2>7, <3>2 DEF Ahead
  <2>8. CASE Key[docs[i]] # key'
    <3>1. Key[docs[i]] \in Nat /\ key' \in Nat
      BY <1>1, <2>2, <2>5
    <3>2. /\ Key[docs[i]] < key' => Below(Index, Key[docs[i]]) < Below(Index, key')
          /\ key' < Key[docs[i]] => Below(Index, key') < Below(Index, Key[docs[i]])
      BY <2>2, <2>4, <2>5, <3>1, BelowType
    <3>3. Below(Index, Key[docs[i]]) \in Nat /\ Below(Index, key') \in Nat
      BY <2>4, <3>1, BelowType
    <3>4. Below(Index, Key[docs[i]]) + 1 >= at + 1
      BY <1>1, <2>2, <2>6, <2>8, <3>1, <3>2, <3>3
    <3> QED BY <2>1, <2>2, <2>3, <3>4 DEF Ahead
  <2> QED BY <2>7, <2>8
<1>10. CASE Take
  <2>1. reader = "take" /\ reader' = "get" /\ pos' = pos + 1 /\ UNCHANGED <<at, key>>
    BY <1>10 DEF Take
  <2>2. First(Index[key], pos + 1) = First(Index[key], pos) \cup {id'}
    BY <1>10, TakeIs
  <2>3. UNCHANGED <<docs, plan>> /\ Index' = Index
    BY <1>7, <1>10
  <2>4. \A i \in due' : Ahead(i) => Ahead(i)'
    BY <2>1, <2>2, <2>3 DEF Ahead
  <2> QED BY <1>8, <1>10, <2>4
<1>11. CASE Fetch
  <2>1. /\ reader = "get" /\ reader' = "take" /\ UNCHANGED <<at, key, pos>>
        /\ due' = IF Passes(docs[id]) THEN due \ {id} ELSE due
    BY <1>11 DEF Fetch
  <2>2. UNCHANGED <<docs, plan>> /\ Index' = Index
    BY <1>7, <1>11
  <2>3. id \notin due'
    BY <2>1, NoDocAssumption DEF TrackedInv, Passes
  <2>4. \A i \in due' : Ahead(i) => Ahead(i)'
    BY <2>1, <2>2, <2>3 DEF Ahead
  <2> QED BY <1>8, <1>11, <2>4
<1>12. CASE ListEnds
  <2>1. /\ reader = "take" /\ reader' = "keys" /\ key' = 0 /\ UNCHANGED at
        /\ gone \/ pos >= Len(Index[key])
    BY <1>12 DEF ListEnds, ListAtEnd
  <2>2. UNCHANGED <<docs, plan>> /\ Index' = Index /\ due' \subseteq due
    BY <1>7, <1>12
  <2> SUFFICES ASSUME Scanning, NEW i \in due', Ahead(i) PROVE Ahead(i)'
    BY <1>8, <1>12
  <2>3. ~(Key[docs[i]] = key /\ i \notin First(Index[key], pos))
    <3> SUFFICES ASSUME Key[docs[i]] = key, i \notin First(Index[key], pos) PROVE FALSE
      OBVIOUS
    <3>1. i \in due /\ i \in ToSet(Index[key]) /\ key \in Keys
      BY <1>2, <2>2
    <3>2. ~gone
      BY <3>1 DEF GoneInv, Unwritten
    <3>3. Index[key] \in Seq(Ids)
      BY <3>1 DEF TrackedInv, Proper
    <3> QED BY <1>1, <2>1, <3>1, <3>2, <3>3, FirstGrows
  <2>4. plan.scan = "range" /\ Below(Index, Key[docs[i]]) + 1 >= at
    BY <2>1, <2>3 DEF Ahead
  <2> QED BY <2>1, <2>2, <2>4 DEF Ahead
<1>13. CASE ScanAll
  <2>1. ~Scanning
    <3>1. reader = "scan"
      BY <1>13 DEF ScanAll
    <3> QED BY <3>1, ScanningIs DEF ControlInv
  <2> QED BY <1>8, <1>13, <2>1
<1>14. CASE Dispose
  BY <1>14 DEF Dispose, MissedInv, Scanning, Running
<1>15. CASE UNCHANGED vars
  <2>1. UNCHANGED <<docs, lists, reader, plan, at, key, pos, id, old, due, removals>>
    BY <1>15 DEF vars, store, cursor, held, history
  <2>2. Index' = Index
    BY <2>1, IndexNext
  <2>3. Missed' = Missed /\ Scanning' = Scanning
    BY <2>1, <2>2 DEF Missed, Ahead, Scanning, Running
  <2> QED BY <2>1, <2>3 DEF MissedInv
<1> QED BY <1>5, <1>6, <1>9, <1>10, <1>11, <1>12, <1>13, <1>14, <1>15
        DEF Next, Read, Finish, Close

-----------------------------------------------------------------------------
(* The theorems *)

IInv ==
  /\ StoreInv /\ ControlInv /\ TrackedInv
  /\ GoneInv /\ HadInv /\ RangeInv /\ MissedInv /\ ShrunkInv

\* The invariant holds at first and is kept by every step.
LEMMA Inductive == Spec => []IInv
<1>1. Init => IInv
  <2> SUFFICES ASSUME Init PROVE IInv
    OBVIOUS
  <2>1. StoreInv /\ ControlInv /\ TrackedInv
    BY StoreInit, ControlInit
  <2>2. reader = "idle" /\ plan = FullScan
    BY DEF Init
  <2>3. ~Scanning /\ plan.scan # "range"
    BY <2>2 DEF Scanning, Running, FullScan
  <2> QED BY <2>1, <2>2, <2>3
          DEF IInv, GoneInv, HadInv, RangeInv, MissedInv, ShrunkInv
<1>2. IInv /\ [Next]_vars => IInv'
  <2> SUFFICES ASSUME IInv, [Next]_vars PROVE IInv'
    OBVIOUS
  <2>1. /\ StoreInv /\ ControlInv /\ TrackedInv
        /\ GoneInv /\ HadInv /\ RangeInv /\ MissedInv /\ ShrunkInv
    BY DEF IInv
  <2>2. StoreInv' /\ TrackedInv'
    BY <2>1, StoreStep, TrackedStep
  <2>3. ControlInv'
    <3>1. CASE Write
      BY <2>1, <3>1, WriteEffects, ControlWrite
    <3>2. CASE NextKey \/ Take \/ Fetch \/ ListEnds \/ ScanAll
      BY <2>1, <3>2, ControlRead
    <3>3. CASE Dispose
      BY <3>3, ControlDispose
    <3>4. CASE \E q \in Queries : Start(q)
      BY <2>1, <3>4, ControlStart
    <3>5. CASE UNCHANGED vars
      BY <2>1, <3>5 DEF vars, store, cursor, held, history, ControlInv, Running, Unwritten
    <3> QED BY <3>1, <3>2, <3>3, <3>4, <3>5 DEF Next, Read, Finish, Close
  <2>4. GoneInv' /\ HadInv' /\ RangeInv' /\ MissedInv' /\ ShrunkInv'
    BY <2>1, <2>2, <2>3, GoneStep, HadStep, RangeStep, MissedStep, ShrunkStep
  <2> QED BY <2>2, <2>3, <2>4 DEF IInv
<1> QED BY <1>1, <1>2, PTL DEF Spec

\* Between two writes the index has each live document once, under its key, and
\* the query's variables keep their types.
THEOREM TypeCorrect == Spec => []TypeOK
<1>1. IInv => TypeOK
  <2> SUFFICES ASSUME IInv PROVE TypeOK
    OBVIOUS
  <2>1. StoreInv /\ ControlInv
    BY DEF IInv
  <2>2. \A k \in Keys : lists[k] \in Seq(Ids) /\ IsInjective(lists[k])
    BY <2>1 DEF StoreInv, ListsInv
  <2>3. writer = Idle => \A k \in Keys : ToSet(lists[k]) = Under(k)
    <3>1. writer = Idle => \A i \in Ids : Posted(i) = docs[i]
      BY DEF Posted, Idle
    <3> QED BY <2>1, <3>1 DEF StoreInv, ListsInv, Under
  <2>4. writer.pc \in {"idle", "unlist", "list", "rebuild"}
    BY <2>1 DEF StoreInv, WriterInv, Writing, Idle, Rebuilding
  <2>5. query \in Queries \cup {<<>>}
    BY <2>1 DEF ControlInv
  <2> QED BY <2>1, <2>2, <2>3, <2>4, <2>5 DEF TypeOK, StoreInv, ControlInv
<1> QED BY <1>1, Inductive, PTL

\* An index scan looks at no id twice that was not written meanwhile, however
\* the lists move under it (index_manager.py lookup, range_scan).
THEOREM NoRepeats == Spec => []NotTwice
<1>1. IInv => NotTwice
  <2> SUFFICES ASSUME IInv, reader = "get" PROVE id \notin had
    BY DEF NotTwice
  <2>1. Scanning
    BY ScanningIs DEF IInv, ControlInv, Scanning, Running
  <2> QED BY <2>1 DEF IInv, HadInv
<1> QED BY <1>1, Inductive, PTL

\* A query that comes to its end has passed by no more documents than ids were
\* taken out of the lists it iterated over (index_manager.py lookup, range_scan).
THEOREM MissesAreCounted == Spec => []NothingMissed
<1>1. IInv => NothingMissed
  <2> SUFFICES ASSUME IInv, AtEnd PROVE Cardinality(due) <= removals
    BY DEF NothingMissed
  <2>1. ControlInv /\ TrackedInv /\ GoneInv /\ RangeInv /\ MissedInv
    BY DEF IInv
  <2>2. removals \in Nat
    <3>1. Cardinality(Ids) \in Nat
      BY IdsAssumption, FS_CardinalityType
    <3> QED BY <2>1, <3>1 DEF ControlInv
  <2>3. CASE due = {}
    BY <2>2, <2>3, FS_EmptySet
  <2>4. CASE due # {}
    <3>1. Scanning
      BY <2>1, <2>4, ScanningIs DEF AtEnd, ControlInv, Scanning, Running
    <3>2. ASSUME NEW i \in due
          PROVE  /\ docs[i] \in Values /\ i \in ToSet(Index[Key[docs[i]]])
                 /\ Key[docs[i]] \in Keys /\ Key[docs[i]] \in Nat /\ Key[docs[i]] # 0
                 /\ Key[docs[i]] \in KeysOf(Index)
                 /\ Key[docs[i]] \in plan.low .. plan.high
                 /\ plan.high \in Nat
      <4>1. docs[i] \in Values /\ i \in ToSet(Index[Key[docs[i]]])
        BY <2>1, <3>1 DEF TrackedInv, Unwritten
      <4>2. Key[docs[i]] \in Keys /\ Index[Key[docs[i]]] # <<>>
        BY <4>1, KeysType DEF ToSet
      <4>3. query \in Queries /\ plan = Plan(query) /\ plan.scan # "full" /\ plan.high \in Nat
        BY <2>1, <3>1, ScanningIs DEF Scanning
      <4>4. Key[docs[i]] \in plan.low .. plan.high
        BY <2>1, <4>1, <4>3, PlanCovers DEF TrackedInv
      <4> QED BY <4>1, <4>2, <4>3, <4>4, KeysType DEF KeysOf
    <3>3. ASSUME NEW i \in due PROVE ~Ahead(i)
      <4>1. CASE reader = "take" /\ ListAtEnd /\ plan.scan = "lookup"
        <5> SUFFICES ASSUME Key[docs[i]] = key, i \notin First(Index[key], pos) PROVE FALSE
          BY <4>1 DEF Ahead
        <5>1. ~gone
          BY <2>1, <3>1 DEF GoneInv, Unwritten
        <5>2. pos >= Len(Index[key]) /\ pos \in Nat
          BY <2>1, <4>1, <5>1 DEF ListAtEnd, ControlInv
        <5>3. Index[key] \in Seq(Ids) /\ i \in ToSet(Index[key])
          BY <2>1, <3>2 DEF TrackedInv, Proper
        <5> QED BY <5>2, <5>3, FirstGrows
      <4>2. CASE reader = "keys" /\ at > end
        <5>1. plan.scan = "range" /\ key = 0 /\ at \in Nat
          BY <2>1, <3>1, <4>2, ScanningIs DEF ControlInv
        <5>2. end = Below(Index, plan.high + 1) /\ Proper(Index)
          BY <2>1, <2>4, <5>1 DEF RangeInv, TrackedInv
        <5>3. Key[docs[i]] < plan.high + 1 /\ plan.high + 1 \in Nat
          BY <3>2
        <5>4. /\ Below(Index, Key[docs[i]]) < end
              /\ Below(Index, Key[docs[i]]) \in Nat /\ end \in Nat
          BY <3>2, <5>2, <5>3, BelowType
        <5>5. ~(Below(Index, Key[docs[i]]) + 1 >= at)
          BY <4>2, <5>1, <5>4
        <5> QED BY <3>2, <4>2, <5>1, <5>5 DEF Ahead
      <4>3. reader # "last"
        BY <2>1, <3>1, ScanningIs DEF ControlInv
      <4> QED BY <4>1, <4>2, <4>3 DEF AtEnd
    <3>4. Missed = due
      BY <3>3 DEF Missed
    <3> QED BY <2>1, <3>1, <3>4 DEF MissedInv
  <2> QED BY <2>3, <2>4
<1> QED BY <1>1, Inductive, PTL

\* A range raises an IndexError only after one of its keys was removed
\* (index_manager.py range_scan).
THEOREM BreaksAreExplained == Spec => []BreaksOnlyWhenShrunk
<1>1. IInv => BreaksOnlyWhenShrunk
  <2> SUFFICES ASSUME IInv, Broken, ~shrunk PROVE FALSE
    BY DEF BreaksOnlyWhenShrunk
  <2>1. /\ reader = "keys" /\ at <= end
        /\ keysGone \/ at > Cardinality(KeysOf(Index))
    BY DEF Broken
  <2>2. at \in Nat /\ end \in Nat /\ at >= 1 /\ plan.scan = "range"
    <3>1. ControlInv /\ Running
      BY <2>1 DEF IInv, Running
    <3>2. plan.scan # "full" /\ plan.scan # "lookup"
      BY <2>1, <3>1 DEF ControlInv
    <3>3. plan.scan \in Scans
      BY <3>1, PlanType DEF ControlInv
    <3> QED BY <3>1, <3>2, <3>3 DEF ControlInv, Scans
  <2>3. end <= Cardinality(KeysOf(Index)) /\ (keysGone => end = 0)
    BY <2>2 DEF IInv, ShrunkInv
  <2>4. Cardinality(KeysOf(Index)) \in Nat
    BY KeysFinite, FS_CardinalityType DEF IInv, TrackedInv
  <2> QED BY <2>1, <2>2, <2>3, <2>4
<1> QED BY <1>1, Inductive, PTL
=============================================================================
