\* every pure algorithm on every input of its set
SPECIFICATION AlgorithmsSpec
CONSTANTS
  File = {1, 2, 3}
  Marker = {}
  Site = {}
  Detail = {}
  Status = {}
  NameOrder <- MCNameOrder
  Orders <- MCOrders
  Contexts <- MCContexts
  Definitions <- MCDefinitions
  Suppressions <- MCSuppressions
  Imports <- MCImports
  Histories <- MCHistories
  Samples <- MCSamples
  Graphs <- MCGraphs
  Sessions <- MCSessions
INVARIANTS OrderIsRight ContextIsRight ExtentIsRight SuppressionIsRight ImportIsRight
           NamesAreRight MetricsAreRight
CHECK_DEADLOCK FALSE
