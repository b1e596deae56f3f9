\* a file analyzed again with another content, right after itself
SPECIFICATION AlgorithmsSpec
CONSTANTS
  File = {1, 2, 3}
  Marker = {}
  Site = {}
  Detail = {}
  Status = {}
  NameOrder <- MCNameOrder
  Orders <- MCOrders
  Contexts <- MCContexts
  Definitions <- MCDefinitions
  Suppressions <- MCSuppressions
  Imports <- MCImports
  Histories <- MCHistories
  Samples <- MCSamples
  Graphs <- MCGraphs
  Sessions <- MCSessions
INVARIANT NamesFollowTheFile
CHECK_DEADLOCK FALSE
