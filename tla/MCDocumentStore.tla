-------------------------- MODULE MCDocumentStore --------------------------
EXTENDS DocumentStore, TLC

\* Ids and documents are interchangeable, and every property is safety.
Symmetry == Permutations(Ids) \cup Permutations(Docs)
=============================================================================
