\* first lines and a whole file, a limit that holds some: writes, events, callbacks, reads at any moment
SPECIFICATION FairSpec
CONSTANTS
  File = {f1, f2}
  Contents <- SomeContents
  Absent = Absent
  Whole = Whole
  Key <- SomeKeys
  SizeLimit = 2
  MaxRetries = 2
  CallbackRegistered = TRUE
  None = None
  MaxWrites = 2
INVARIANTS ServedIsCurrent WithinLimit
PROPERTY GetReturns
