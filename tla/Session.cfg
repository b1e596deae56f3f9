\* three dates, reads of up to three snippets from two files, up to two writes that fail
SPECIFICATION SessionSpec
CONSTANTS
  Source = {f, g}
  FirstDate = 1
  LastDate = 3
  NoHandle = NoHandle
  Unusable = Unusable
  MaxTracked = 1
  MaxEvents = 3
  MaxReads = 2
  MaxFaults = 2
SYMMETRY Symmetric
INVARIANT LogReadsBack
PROPERTIES OldFilesImmutable RecordComplete ShutdownReleases
CHECK_DEADLOCK FALSE
