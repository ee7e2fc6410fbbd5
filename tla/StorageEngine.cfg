SPECIFICATION Spec
CONSTANTS
  Ids = {a, b}
  d1 = d1
  d2 = d2
  k1 = k1
  k2 = k2
  Docs = {d1, d2}
  NoDoc = NoDoc
  NIdx = 2
  Keys = {k1, k2}
  KeyOf <- KeyOfDef
  Threads = {t1, t2}
  Ops = {"insert", "update", "delete", "get", "compact"}
  Damage = {Missing}
  Missing = Missing
  Corrupt = Corrupt
  MaxLines = 2
  MaxInode = 1
INVARIANTS
  TypeOK
  ReadIsFresh
  IndexExact
  DiskIndexExact
PROPERTIES
  Durable
CONSTRAINT CompactsAlone
SYMMETRY Symmetry
