CONSTANTS
  pods = pods
  services = services
  ingresses = ingresses
  n = n
  Resources = {pods, services}
  Names = {n}
  Versions <- MCVersions
  ClusterScoped = {}
  Unparsed = {}
  Irregular = {}
  BuiltIn = {pods, services}
  Stampless = {}
  NoType = NoType
  NoEntry = NoEntry
  Capacity = 1
  Filtered = {}
  MaxEvents = 0
  MaxRelists = 0
SPECIFICATION PFairSpec
PROPERTIES SettledClusterCached
CHECK_DEADLOCK FALSE
