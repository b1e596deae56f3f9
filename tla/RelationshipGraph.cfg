\* three files, and the copies of one relationship the list allows
SPECIFICATION Spec
CONSTANTS
  File = {a, b, c}
  Marker = {}
  Site = {imp}
  Detail = {x}
  Status = {analyzed}
  MaxRels = 3
SYMMETRY Symmetric
INVARIANTS TypeOK IndexMirror RestoreUndoesRemove TraversalIsReachability ReportsAreRight
PROPERTY RemovalForgets
