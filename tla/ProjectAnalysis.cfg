\* three files and room for two in the symbol cache, edited at any moment
SPECIFICATION Spec
CONSTANTS
  a = a
  b = b
  c = c
  File = {a, b, c}
  Marker = {Unresolved}
  Site = {"import"}
  Detail = {1, 2, NoLine}
  Status = {"analyzed", "unparseable"}
  Absent = Absent
  NoData = NoData
  Unresolved = Unresolved
  NoLine = NoLine
  Contents <- TrioContents
  MaxEntries = 2
  MaxEdits = 2
INVARIANTS TypeOK CachedIsCurrent FreshSymbolsCurrent LinesCurrent OnlyLaterStoresDropEdges
