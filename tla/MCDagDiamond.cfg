SPECIFICATION FairSpec
CONSTANTS
  Nodes <- GuideNodes
  Edges <- GuideEdges
  Mocked = {}
  FailFast = TRUE
  HangingPlugins = TRUE
INVARIANT TypeOK
INVARIANT NoLostDependent
INVARIANT NoStall
INVARIANT CallsPerEdge
INVARIANT SuccessIsTotal
PROPERTY OnlyFirstCallsLate
PROPERTY Terminates
