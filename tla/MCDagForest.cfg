SPECIFICATION Spec
CONSTANTS
  Nodes <- ForestNodes
  Edges <- MixedEdges
  Mocked <- MockedNodes
  FailFast = FALSE
  HangingPlugins = FALSE
INVARIANT StallExplained
INVARIANT AtMostOnce
INVARIANT QuietSuccess
INVARIANT WaitsForAll
PROPERTY ImplementsDagRun
