SPECIFICATION Spec
CONSTANTS
  Nodes <- GuideNodes
  Edges <- GuideEdges
  Mocked = {}
  FailFast = TRUE
  HangingPlugins = TRUE
INVARIANT AtMostOnce
