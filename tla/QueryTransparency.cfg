SPECIFICATION Spec
CONSTANTS
  nine = nine
  ten = ten
  Values = {nine, ten}
  Number <- NumberDef
  Key <- KeyDef
  LastKey = 9
  Ids = {a, b}
  NoDoc = NoDoc
  Queries <- QueriesDef
PROPERTIES
  IndexIsTransparent
