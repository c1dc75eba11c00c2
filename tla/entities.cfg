CONSTANTS
  smf1 = smf1
  upf1 = upf1
  both = both
  s1 = s1
  s2 = s2
  p1 = p1
  NoLabel = NoLabel
  Caches <- MCCaches
  Names = {smf1, upf1, both, s1, s2, p1}
  Smf = {smf1, both}
  Upf = {upf1, both}
  Annotations = {"selector", "namespace", "k8s-cluster", "redis-status", "managed-by", "link"}
  Globals = {"managed-by", "selector"}
  Configured <- MCConfigured
SPECIFICATION Spec
INVARIANTS TypeOK PanicsExactly ClustersMerged VisibleInCatalog RefsResolve EntitiesApart
CHECK_DEADLOCK FALSE
