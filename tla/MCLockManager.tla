--------------------------- MODULE MCLockManager ---------------------------
EXTENDS LockManager

CONSTANTS c1, c2, c3, t1, t2

\* t1 can have a suspended scan and a second call; t2 makes one call.
OwnerDef == [c \in {c1, c2, c3} |-> IF c = c3 THEN t2 ELSE t1]
=============================================================================
