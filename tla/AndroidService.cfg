SPECIFICATION Spec
CONSTANTS
  MaxRequests = 3
  Events = {"network", "unbind", "fail"}
INVARIANTS TypeOK NoTunnelLeft ConnectedIsReal DisconnectedIsDown NoLeak DisconnectionIsSettled NoCircularWait
CHECK_DEADLOCK FALSE
