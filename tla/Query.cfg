SPECIFICATION Spec
CONSTANTS
  nine = nine
  ten = ten
  Values = {nine, ten}
  Number <- NumberDef
  Key <- KeyDef
  LastKey = 9
  Ids = {a, b}
  NoDoc = NoDoc
  Queries <- QueriesDef
INVARIANTS
  TypeOK
  NothingMissed
  NotTwice
  BreaksOnlyWhenShrunk
PROPERTIES
  EveryQueryEnds
