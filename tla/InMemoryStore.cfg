\* two files, lists of three relationships and gaps; what is rejected is so for a path, its line or its type
SPECIFICATION Spec
CONSTANTS
  a = a
  b = b
  imp = imp
  nokind = nokind
  x = x
  y = y
  none = none
  bad = bad
  File = {a, b}
  Malformed = {bad}
  Kind = {imp}
  NoKind = nokind
  Line <- MCLine
  Detail = {x, y}
  None = none
  MaxAdds = 3
  Listed = 1
SYMMETRY Symmetric
INVARIANT StoreAgrees
PROPERTY ImplementsStore
CHECK_DEADLOCK FALSE
