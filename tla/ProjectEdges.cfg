\* a project analyzed once, in any order of its files
SPECIFICATION Spec
CONSTANTS
  a = a
  b = b
  c = c
  File = {a, b, c}
  Marker = {Unresolved}
  Site = {"import"}
  Detail = {1, 2, NoLine}
  Status = {"analyzed", "unparseable"}
  Absent = Absent
  NoData = NoData
  Unresolved = Unresolved
  NoLine = NoLine
  Contents <- TrioContents
  MaxEntries = 2
  MaxEdits = 0
INVARIANT EveryImportRelated
