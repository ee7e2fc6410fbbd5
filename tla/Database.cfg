SPECIFICATION Spec
CONSTANTS
  Names = {m, n}
  Fields = {f}
  Specs = {{f}}
  Docs = {d}
  Writers = {w}
  NoFile = NoFile
  Absent = Absent
  Slots = {s, t}
  Callables = {g, bad}
  Unpicklable = {bad}
  NoFn = NoFn
  MaxFaults = 2
INVARIANTS
  TypeOK
  FunctionsSurvive
  AckedAreKept
  ManifestMatches
  FreeNamesAreFree
  NewIsEmpty
  CanBeOpened
CONSTRAINT WritesBeforeFunctions
SYMMETRY Symmetry
