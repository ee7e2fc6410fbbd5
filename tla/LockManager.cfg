SPECIFICATION FairSpec
CONSTANTS
  c1 = c1
  c2 = c2
  c3 = c3
  t1 = t1
  t2 = t2
  Calls = {c1, c2, c3}
  Threads = {t1, t2}
  Owner <- OwnerDef
  MaxInode = 2
INVARIANTS
  TypeOK
  NoLeakedLock
  InodeExclusion
PROPERTIES
  InodeLock
  EveryCallAnswered
  SelfWaitTimesOut
