SPECIFICATION Spec
CONSTANTS
  h1 = h1  site = site  lan = lan  api = api  other = other
  Hosts = {h1, site, lan, api, other}
  LanHosts = {lan}
  Gateways = {api}
  VpnConfigs <- AllConfigs
  MaxFaults = 2
  MaxQueued = 2
  NoSession = NoSession
INVARIANTS TypeOK StrictBlocks SoftUnblocks ExemptionsAreCurrent  ServerStaysReachable
PROPERTIES UpStaysClosed
