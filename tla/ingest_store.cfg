CONSTANTS
  pods = pods
  ingresses = ingresses
  nads = nads
  nodes = nodes
  bare = bare
  n = n
  m = m
  Resources = {pods, ingresses}
  Names = {n, m}
  Versions = {1}
  ClusterScoped = {}
  Unparsed = {}
  Irregular = {ingresses}
  BuiltIn = {pods, ingresses}
  Stampless = {}
  NoType = NoType
  NoEntry = NoEntry
  Capacity = 1
SPECIFICATION Spec
INVARIANTS PurgeVerdictsFresh
PROPERTIES ImplementsStore
CHECK_DEADLOCK FALSE
