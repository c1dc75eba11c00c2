----------------------------- MODULE MCProcess ------------------------------
(***************************************************************************)
(* A cluster with pods, nodes, StatefulSets in a stable and a beta version *)
(* and, perhaps, the metrics of pods, whose plural is "pods" too.  The     *)
(* beta and the metrics may come and go.                                   *)
(***************************************************************************)
EXTENDS Process

CONSTANTS core, apps, metrics, broken,
          pod, pods, node, nodes, sts, stss, podmetrics,
          ns1, ns2

Api(group, version, kind, plural, scope) ==
  [group |-> group, version |-> version, kind |-> kind, plural |-> plural, scope |-> scope]

Pods == Api(core, 10, pod, pods, "Namespaced")
StableSets == Api(apps, 10, sts, stss, "Namespaced")
BetaSets == Api(apps, 5, sts, stss, "Namespaced")
Metrics == Api(metrics, 5, podmetrics, pods, "Namespaced")

MCApis == {Pods, Api(core, 10, node, nodes, "Cluster"), StableSets, BetaSets, Metrics}
MCRemovable == {StableSets, Metrics}

Entry(name, groups, namespaces) ==
  [name |-> name, api_groups |-> groups, namespaces |-> namespaces]

\* By kind and by plural, in any group, in one or in two, in all namespaces or
\* in two; a name that two groups have, two names of one API, a name twice.
MCResources ==
  { << Entry(sts, {AnyGroup}, {ns1, ns2}), Entry(nodes, {AnyGroup}, {ns1}) >>,
    << Entry(stss, {apps}, {}), Entry(podmetrics, {metrics, apps}, {ns1}) >>,
    << Entry(pods, {AnyGroup}, {}) >>,
    << Entry(pods, {metrics}, {}), Entry(sts, {AnyGroup}, {}) >>,
    << Entry(pods, {metrics}, {ns1}), Entry(pod, {AnyGroup}, {}) >>,
    << Entry(pods, {AnyGroup}, {ns1}), Entry(pods, {metrics}, {ns2}) >>,
    << >> }

Configuration(resources, poll, purge, sound) ==
  [resources |-> resources, poll_interval |-> poll, purge_interval |-> purge,
   sound |-> sound]

MCConfigurations ==
  {Configuration(r, 30, purge, TRUE) : r \in MCResources, purge \in {0, 45}}
  \cup {Configuration(<<>>, 0, 45, TRUE), Configuration(<<>>, 30, 45, FALSE),
        Configuration(<<Entry(pods, {core}, {})>>, 30, 45, TRUE)}
=============================================================================
