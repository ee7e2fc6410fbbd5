SPECIFICATION Spec
CONSTANTS
  Ids = {a, b}
  d1 = d1
  d2 = d2
  k1 = k1
  k2 = k2
  Docs = {d1, d2}
  NoDoc = NoDoc
  NIdx = 1
  Keys = {k1, k2}
  KeyOf <- KeyOfDef
  Threads = {t1, t2}
  Ops = {"insert", "update", "delete", "get", "compact"}
  Damage = {}
  Missing = Missing
  Corrupt = Corrupt
  MaxLines = 3
  MaxInode = 1
INVARIANTS
  IndexExact
