\* three files that import each other, fail to parse, appear and vanish, edited at any moment
SPECIFICATION FairSpec
CONSTANTS
  a = a
  b = b
  c = c
  d = d
  File = {a, b, c}
  Marker = {Unresolved}
  Site = {"import"}
  Detail = {1, 2, NoLine}
  Status = {"analyzed", "unparseable"}
  NameOrder <- Names3
  Absent = Absent
  NoData = NoData
  Unresolved = Unresolved
  NoLine = NoLine
  Contents <- AnyContents
  Initial <- AnyInitial
  ReadTargets = {a, b, c}
  MaxEdits = 2
  EditDuringRead = TRUE
INVARIANTS NothingStaleBehindAnswer EdgesFromSymbolsOnce PendingTakenUp
PROPERTY ReadAnswered
