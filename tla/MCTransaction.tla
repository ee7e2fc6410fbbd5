--------------------------- MODULE MCTransaction ---------------------------
EXTENDS Transaction, TLC

CONSTANTS d1, k1, k2

\* The empty document has a key of its own (None).
KeyOfDef ==
  [k \in 1 .. NIdx |-> [d \in {d1, EmptyDoc} |-> IF d = d1 THEN k1 ELSE k2]]

\* Transactions and ids are interchangeable, and every property is safety.
Symmetry == Permutations(Txns) \cup Permutations(Ids)

\* Bound: two writers at a time.
Busy == {x \in Txns : pc[x] # "open"} \cup (IF call = NoCall THEN {} ELSE {Single})
TwoAtATime == Cardinality(Busy) <= 2

\* There is an id of which IndexExact says something.
SomethingToSay == stale # Ids

\* begun serves ReplaysOnlyCommits only.
View == <<docs, idx, mem, wal, phase, pc, todo, old, call, at, dumped, clash, owes, stale,
          writes>>
=============================================================================
