-------------------------- MODULE MCStorageEngine --------------------------
EXTENDS StorageEngine, TLC

CONSTANTS d1, d2, k1, k2

\* The two documents differ in the key of every index.
KeyOfDef ==
  [k \in 1 .. NIdx |->
     [d \in {d1, d2} |-> IF (d = d1) = (k = 1) THEN k1 ELSE k2]]

\* KeyOfDef stays what it is when the documents and the keys trade places.
Mirror == (d1 :> d2) @@ (d2 :> d1) @@ (k1 :> k2) @@ (k2 :> k1)

\* Threads and ids are interchangeable too, and every property is safety.
Symmetry == Permutations(Threads) \cup Permutations(Ids) \cup {Mirror}
=============================================================================
