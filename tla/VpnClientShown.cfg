SPECIFICATION Spec
CONSTANTS
  MaxSockets = 2
  MaxObjects = 2
  MaxDepth = 2
  MaxNested = 1
  MaxReconnects = 0
  MaxCrashes = 0
  MaxRetry = 2
  InitialService = {"idle"}
  InOrder = TRUE
  NoProtocol = NoProtocol
INVARIANTS ShowsLiveState
