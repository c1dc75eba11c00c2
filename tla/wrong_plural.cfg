CONSTANTS
  pods = pods
  services = services
  ingresses = ingresses
  n = n
  Resources = {ingresses}
  Names = {n}
  Versions <- MCVersions
  ClusterScoped = {}
  Unparsed = {}
  Irregular = {ingresses}
  BuiltIn = {ingresses}
  Stampless = {}
  NoType = NoType
  NoEntry = NoEntry
  Capacity = 1
  Filtered = {}
  MaxEvents = 1
  MaxRelists = 0
SPECIFICATION PSpec
PROPERTIES PurgesInactiveOnly
CHECK_DEADLOCK FALSE
