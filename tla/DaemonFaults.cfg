SPECIFICATION Spec
CONSTANTS
  Clients = {c1}
  c1 = c1  c2 = c2  h1 = h1  h2 = h2  site = site  geo = geo  all = all  net = net
  NoClient = NoClient  NoConfig = NoConfig
  Prefixes = {h1, site, geo}
  Ranges = {all, net}
  DefaultNets = {all}
  Identities = {"id1", "id2"}
  PubKeys = {"k1", "k2"}
  Configs <- FaultConfigs
  MaxDepth = 2  MaxRefs = 3  MaxDeaths = 1  MaxDrops = 1  MaxCrashes = 1
INVARIANTS ExclusionsAreHeld
