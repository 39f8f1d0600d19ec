SPECIFICATION FairSpec
CONSTANTS
  Clients = {c1}
  c1 = c1  c2 = c2  h1 = h1  h2 = h2  site = site  geo = geo  all = all  net = net
  NoClient = NoClient  NoConfig = NoConfig
  Prefixes = {h1, geo}
  Ranges = {all}
  DefaultNets = {all}
  Identities = {"id1", "id2"}
  PubKeys = {"k1", "k2"}
  Configs <- KeyedConfigs
  MaxDepth = 2  MaxRefs = 2  MaxDeaths = 0  MaxDrops = 0  MaxCrashes = 0
PROPERTIES HandshakeIsReported ActsAsLedger
