CONSTANTS
  pods = pods
  services = services
  ingresses = ingresses
  n = n
  Resources = {pods}
  Names = {n}
  Versions <- MCVersions
  ClusterScoped = {}
  Unparsed = {}
  Irregular = {}
  BuiltIn = {pods}
  Stampless = {}
  NoType = NoType
  NoEntry = NoEntry
  Capacity = 1
  Filtered = {}
  MaxEvents = 1
  MaxRelists = 0
SPECIFICATION PFairSpec
PROPERTIES LatestStateCached
CHECK_DEADLOCK FALSE
