SPECIFICATION Spec
CONSTANTS
  Clients = {c1}
  c1 = c1  c2 = c2  h1 = h1  h2 = h2  site = site  geo = geo  all = all  net = net
  NoClient = NoClient  NoConfig = NoConfig
  Prefixes = {h1, h2, site, geo}
  Ranges = {all, net}
  DefaultNets = {all}
  Identities = {"id1", "id2"}
  PubKeys = {"k1", "k2"}
  Configs <- SeqConfigs
  MaxDepth = 2  MaxRefs = 3  MaxDeaths = 0  MaxDrops = 0  MaxCrashes = 0
INVARIANTS TypeOK ExclusionsMatchConnection CleanWhenOff ExclusionIsKnown
