SPECIFICATION Spec
CONSTANTS
  Nodes <- ForestNodes
  Edges <- DecisionEdges
  Mocked = {}
  FailFast = TRUE
  HangingPlugins = FALSE
INVARIANT NoStall
