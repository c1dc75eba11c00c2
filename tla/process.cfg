CONSTANTS
  core = core
  apps = apps
  metrics = metrics
  broken = broken
  pod = pod
  pods = pods
  node = node
  nodes = nodes
  sts = sts
  stss = stss
  podmetrics = podmetrics
  ns1 = ns1
  ns2 = ns2
  Groups = {core, apps, metrics, broken}
  Core = core
  Words = {pod, pods, node, nodes, sts, stss, podmetrics}
  Namespaces = {ns1, ns2}
  AnyGroup = AnyGroup
  All = All
  Apis <- MCApis
  MaxVersion = 10
  Configurations <- MCConfigurations
  Removable <- MCRemovable
  Hollow = {broken}
  NoVersion = NoVersion
  MaxChanges = 2
SPECIFICATION FairSpec
INVARIANTS TypeOK StableApisWatched WatchedIsAsked OneVersionWatched WatchesReceived
PROPERTIES StartsOrStops StopsOnSignal
CHECK_DEADLOCK FALSE
