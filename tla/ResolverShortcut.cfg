\* a diamond read from its root; edits between reads move definitions or break a file
SPECIFICATION Spec
CONSTANTS
  a = a
  b = b
  c = c
  d = d
  File = {a, b, c, d}
  Marker = {Unresolved}
  Site = {"import"}
  Detail = {1, 2, NoLine}
  Status = {"analyzed", "unparseable"}
  NameOrder <- Names
  Absent = Absent
  NoData = NoData
  Unresolved = Unresolved
  NoLine = NoLine
  Contents <- ShortcutContents
  Initial <- ShortcutInitial
  ReadTargets = {a}
  MaxEdits = 1
  EditDuringRead = FALSE
INVARIANT NoEdgeSilentlyLost
