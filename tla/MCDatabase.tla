----------------------------- MODULE MCDatabase -----------------------------
EXTENDS Database, TLC

\* Names and functions are interchangeable, and every property is safety.
Symmetry == Permutations(Names) \cup Permutations(Slots)

\* A write and the registration of a function touch nothing in common: no write
\* is under way once a function was registered.
WritesBeforeFunctions ==
  (\E s \in Slots : mem[s] # NoFn \/ pkl[s] # NoFn \/ s \in raised)
    => \A w \in Writers : writer[w].pc = "idle"
=============================================================================
