CONSTANTS
  pods = pods
  ingresses = ingresses
  nads = nads
  nodes = nodes
  bare = bare
  n = n
  m = m
  Resources = {pods, nodes, nads, bare}
  Names = {n}
  Versions = {1}
  ClusterScoped = {nodes}
  Unparsed = {nads}
  Irregular = {nads}
  BuiltIn = {pods, nodes}
  Stampless = {bare}
  NoType = NoType
  NoEntry = NoEntry
  Capacity = 2
SPECIFICATION Spec
INVARIANTS TypeOK IInv LookupPairing PurgeVerdictsFresh MutexNeverPoisoned
CHECK_DEADLOCK FALSE
