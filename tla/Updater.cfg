\* edits at any step but between the extraction of a file and its stamp, or between exists()
\* and the record of a deletion; events at any moment
SPECIFICATION FairSpec
CONSTANTS
  a = a
  b = b
  File = {a, b}
  Marker = {Unresolved}
  Site = {"import"}
  Detail = {1, 2, NoLine}
  Status = {"analyzed", "unparseable", "deleted"}
  Absent = Absent
  NoData = NoData
  Unresolved = Unresolved
  NoLine = NoLine
  Contents <- PairContents
  MaxEdits = 4
  EditAt = {"idle", "loop", "analyze", "clear"}
  HearAt = {"idle", "loop", "analyze", "store", "delete", "clear"}
INVARIANTS QuietMatchesDisk MtimeBacksUpEvents
PROPERTY ProcessingEnds
