------------------------------ MODULE Discovery ------------------------------
(***************************************************************************)
(* Which APIs are watched: what the API server reports, narrowed down to   *)
(* the recommended version of every kind, is matched twice against the     *)
(* resources of the configuration.  resolve_api_resources looks an API up  *)
(* in a map from the configured names; dynamic_api goes through the list   *)
(* of the configured resources and builds one watch for each that bears    *)
(* the name and each of its namespaces.                                    *)
(*                                                                         *)
(* Kinds, plurals and configured names are words, compared in lower case.  *)
(* A version is the number of its priority: a stable one has a higher      *)
(* number than a beta.  A namespace listed twice counts once.              *)
(***************************************************************************)
EXTENDS Naturals, Sequences

CONSTANTS
  Groups,
  Core,         \* the group of the APIs under /api, named ""
  Words,
  Namespaces,
  AnyGroup,     \* api_groups is {AnyGroup} for None
  All,          \* all namespaces
  Apis,         \* the APIs the cluster may serve
  MaxVersion    \* the highest priority of a version

ApiResources == [group : Groups, version : 0..MaxVersion, kind : Words, plural : Words,
                 scope : {"Cluster", "Namespaced"}]

\* An entry of kube.resources.  Its selectors and event type go along with it
\* unread.
ConfigResources == [name : Words, api_groups : SUBSET Groups \cup {{AnyGroup}},
                    namespaces : SUBSET Namespaces]

ASSUME DiscoveryAssumption ==
  /\ MaxVersion \in Nat
  /\ Core \in Groups
  /\ AnyGroup \notin Groups
  /\ All \notin Namespaces
  /\ Apis \subseteq ApiResources

\* Of the APIs found of one kind in a group, the one of the most stable
\* version; of several in that version, the one listed first.
Versions(r, found) == {s \in found : s.group = r.group /\ s.kind = r.kind}

Recommended(r, found) ==
  CHOOSE s \in Versions(r, found) : \A t \in Versions(r, found) : s.version >= t.version

\* Mutant of RecommendedResources: every version is kept.
RecommendedResourcesAll(found) == found

RecommendedResources(found) == {Recommended(r, found) : r \in found}

Names(e, r) == e.name = r.kind \/ e.name = r.plural

Admits(e, group) == e.api_groups \cap {AnyGroup, group} # {}

\* The map from names to api_groups keeps the last entry of a name.
LastNamed(resources, word) ==
  {i \in DOMAIN resources :
     /\ resources[i].name = word
     /\ \A j \in DOMAIN resources : resources[j].name = word => j <= i}

\* The kind is looked up first; its plural counts only if no entry bears the
\* kind.
LookedUp(r, resources) ==
  IF LastNamed(resources, r.kind) # {} THEN LastNamed(resources, r.kind)
                                       ELSE LastNamed(resources, r.plural)

\* Mutant of Resolved: api_groups are not looked at.
ResolvedAnyGroup(r, resources) == LookedUp(r, resources) # {}

Resolved(r, resources) == \E i \in LookedUp(r, resources) : Admits(resources[i], r.group)

ResolveApiResources(found, resources) ==
  {r \in RecommendedResources(found) : Resolved(r, resources)}

\* Where an entry has an API watched.
Places(e, r) == IF r.scope = "Cluster" \/ e.namespaces = {} THEN {All} ELSE e.namespaces

Watch(r, i, place) == [api |-> r, entry |-> i, namespace |-> place]

\* Every entry that bears a name of the API, whatever groups it admits.
DynamicApi(r, resources) ==
  UNION {{Watch(r, i, place) : place \in Places(resources[i], r)} :
           i \in {j \in DOMAIN resources : Names(resources[j], r)}}

Watches(found, resources) ==
  UNION {DynamicApi(r, resources) : r \in ResolveApiResources(found, resources)}
-----------------------------------------------------------------------------
\* What the configuration asks for.
Asks(e, r) == Names(e, r) /\ Admits(e, r.group)

\* No API bears the names of two entries.
EntriesApart(resources) ==
  \A i, j \in DOMAIN resources : \A r \in Apis :
    Names(resources[i], r) /\ Names(resources[j], r) => i = j

\* All versions of a kind have one plural and one scope.
KindsAgree ==
  \A r, s \in Apis : r.group = s.group /\ r.kind = s.kind
                       => r.plural = s.plural /\ r.scope = s.scope
=============================================================================
