\* a snippet served after its file was read again under another range
SPECIFICATION Spec
CONSTANTS
  File = {f1, f2}
  Contents <- SomeContents
  Absent = Absent
  Whole = Whole
  Key <- SomeKeys
  SizeLimit = 4
  MaxRetries = 1
  CallbackRegistered = FALSE
  None = None
  MaxWrites = 1
INVARIANT EveryRangeCurrent
