SPECIFICATION Spec
CONSTANTS
  Ids = {a, b}
  d1 = d1
  d2 = d2
  k1 = k1
  k2 = k2
  Docs = {d1, d2}
  NoDoc = NoDoc
  NIdx = 2
  Keys = {k1, k2}
  KeyOf <- KeyOfDef
  Threads = {t1}
  Ops = {"insert", "update", "delete"}
  Damage = {Missing, Corrupt}
  Missing = Missing
  Corrupt = Corrupt
  MaxLines = 3
  MaxInode = 1
PROPERTIES
  CorruptIsRebuilt
