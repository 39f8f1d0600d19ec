SPECIFICATION FairSpec
CONSTANTS
  MaxSockets = 2
  MaxObjects = 2
  MaxDepth = 2
  MaxNested = 2
  MaxReconnects = 1
  MaxCrashes = 1
  MaxRetry = 2
  InitialService = {"idle"}
  InOrder = TRUE
  NoProtocol = NoProtocol
INVARIANTS TypeOK ViewsSettle
PROPERTIES AttemptEnds
