CONSTANTS
  pods = pods
  services = services
  ingresses = ingresses
  n = n
  Resources = {pods}
  Names = {n}
  Versions <- MCVersions
  ClusterScoped = {}
  Unparsed = {}
  Irregular = {}
  BuiltIn = {pods}
  Stampless = {}
  NoType = NoType
  NoEntry = NoEntry
  Capacity = 1
  Filtered = {pods}
  MaxEvents = 2
  MaxRelists = 1
SPECIFICATION PFairSpec
INVARIANTS PTypeOK Traced KeptObjectsNotLost
PROPERTIES OnlyGoneObjectsDropped IngestSpec GhostsPurged KeptObjectsCached QueueServed
CHECK_DEADLOCK FALSE
