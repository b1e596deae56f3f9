\* a imports b, a test imports a; each with or without a pattern, broken or gone
SPECIFICATION Spec
CONSTANTS
  a = a
  b = b
  t = t
  File = {a, b, t}
  Imports <- SomeImports
  TestModule = {t}
  Pattern = {exec}
  Absent = Absent
  Broken = Broken
  MaxEdits = 1
  MaxWarnings = 2
INVARIANTS WarningsConserved PatternsNotMissed
PROPERTY ShownAfterAnalysis
CHECK_DEADLOCK FALSE
