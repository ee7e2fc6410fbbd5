SPECIFICATION Spec
CONSTANTS
  Ids = {a, b}
  Docs = {d1, d2}
  NoDoc = NoDoc
  NoId = NoId
  MaxLines = 5
INVARIANTS
  TypeOK
  ReadsNeverLie
  LoopsAgree
PROPERTIES
  CompactionInvisible
  CompactionMinimal
  UnreadableIsForGood
SYMMETRY Symmetry
CHECK_DEADLOCK FALSE
