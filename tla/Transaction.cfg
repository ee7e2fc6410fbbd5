SPECIFICATION Spec
CONSTANTS
  Ids = {a, b}
  d1 = d1
  EmptyDoc = e
  k1 = k1
  k2 = k2
  Docs = {d1, e}
  NoDoc = NoDoc
  NIdx = 1
  Keys = {k1, k2}
  KeyOf <- KeyOfDef
  Txns = {x, y}
  Single = Single
  NoFile = NoFile
  CorruptFile = CorruptFile
  Garbled = Garbled
  Ops = {"delete", "compact"}
  MaxWrites = 3
INVARIANTS
  TypeOK
  CommitsHold
  IndexExact
SYMMETRY Symmetry
CONSTRAINTS
  TwoAtATime
  SomethingToSay
VIEW View
