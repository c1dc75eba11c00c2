------------------------------ MODULE Entities ------------------------------
(***************************************************************************)
(* The handlers of /api/v1/entities and /api/v1/redis/status: one pass     *)
(* over the cache, under its mutex, that converts the cached objects into  *)
(* Backstage entities.  A StatefulSet becomes a shard Resource, a Resource *)
(* for its Redis cluster, merged with what earlier shards of that cluster  *)
(* left, and a System; a Pod becomes a node Resource; the entities of the  *)
(* configuration come last.                                                *)
(*                                                                         *)
(* Of an object the conversion tells apart its kind, its name and the      *)
(* labels below; a name stands for the value of a label too.  An annotation *)
(* is modelled by where its value comes from: "global" (the configuration), *)
(* "entity" (the configured entity) or the name of an object.  A reference  *)
(* "resource:default/<name>" is the name.                                  *)
(***************************************************************************)
EXTENDS Naturals, Sequences, SequencesExt, Functions

CONSTANTS
  Caches,          \* the contents the cache may have, each in the order of its keys
  Names,
  NoLabel,
  Smf, Upf,        \* names that contain "smf" and "upf", in any case
  Annotations,
  Globals,         \* annotations the configuration adds to every entity
  Configured       \* groups, users and domains of the configuration, in order

ObjectsToConvert ==
  [kind    : {"StatefulSet", "Pod", "Other"},   \* Other: and no TypeMeta at all
   name    : Names,
   cluster : Names \cup {NoLabel},     \* redis.acme.com/name
   shard   : Names \cup {NoLabel},     \* shard.acme.com/name
   redis   : BOOLEAN,                  \* app.kubernetes.io/component=redis-cluster
   labelled : BOOLEAN,                 \* it has some other label
   status  : {"none", "partial", "full"}]   \* none: absent or not a map

ASSUME EntitiesAssumption ==
  /\ Caches \subseteq Seq(ObjectsToConvert)
  /\ NoLabel \notin Names
  /\ Smf \subseteq Names /\ Upf \subseteq Names
  /\ {"selector", "namespace", "k8s-cluster", "redis-status"} \subseteq Annotations
  /\ Globals \subseteq Annotations
  /\ Configured \in Seq([kind : {"Group", "User", "Domain"}, name : Names,
                         anns : SUBSET Annotations])

VARIABLES
  request,      \* the handler that runs
  db,           \* the cache
  i,            \* the next object of db
  res,          \* the entities collected so far
  seen,         \* the cluster Resource collected for each cluster name
  seen_system,  \* the systems collected
  pc

vars == <<request, db, i, res, seen, seen_system, pc>>
-----------------------------------------------------------------------------
(***************************************************************************)
(* The conversions of one object.                                          *)
(***************************************************************************)
HasLabels(o) == \/ o.cluster # NoLabel \/ o.shard # NoLabel
                \/ o.redis \/ o.labelled

Entity(kind, type, name) ==
  [kind |-> kind, type |-> type, name |-> name, dependsOn |-> <<>>,
   dependencyOf |-> NoLabel, system |-> NoLabel,
   anns |-> [a \in Globals |-> "global"]]

\* Mutant of ShardAnnotations: what the object contributes is inserted last.
ShardAnnotationsOwn(o) ==
  LET own == {"k8s-cluster"}
               \cup (IF o.shard # NoLabel THEN {"selector", "namespace"} ELSE {})
               \cup (IF o.redis /\ o.status # "none" THEN {"redis-status"} ELSE {})
  IN  [a \in own \cup Globals |-> IF a \in own THEN o.name ELSE "global"]

\* The global annotations are inserted again at the end, over what the object
\* contributed.
ShardAnnotations(o) ==
  LET own == {"k8s-cluster"}
               \cup (IF o.shard # NoLabel THEN {"selector", "namespace"} ELSE {})
               \cup (IF o.redis /\ o.status # "none" THEN {"redis-status"} ELSE {})
  IN  [a \in own \cup Globals |-> IF a \in Globals THEN "global" ELSE o.name]

\* Mutant of ShardOf: the shard refers to itself.
ShardOfItself(o) ==
  [Entity("Resource", IF o.redis THEN "redis-cluster-shard" ELSE "statefulset", o.name)
     EXCEPT !.dependencyOf = o.name, !.anns = ShardAnnotations(o)]

ShardOf(o) ==
  [Entity("Resource", IF o.redis THEN "redis-cluster-shard" ELSE "statefulset", o.name)
     EXCEPT !.dependencyOf = o.cluster, !.anns = ShardAnnotations(o)]

\* Without the label of a cluster, the Resource made of a shard keeps the
\* shard's name.
ClusterName(o) == IF o.cluster # NoLabel THEN o.cluster ELSE o.name

\* The system a cluster Resource refers to: upf is looked for first.
SystemOfCluster(name) == CASE name \in Upf -> "upf"
                           [] name \in Smf \ Upf -> "smf"
                           [] OTHER -> NoLabel

\* Mutant of ClusterOf: the Resource keeps the name of the shard.
ClusterOfSameName(o) ==
  [Entity("Resource", "redis-cluster", o.name) EXCEPT
     !.system = IF o.cluster # NoLabel THEN SystemOfCluster(o.cluster) ELSE NoLabel,
     !.dependsOn = IF o.shard # NoLabel THEN <<o.shard>> ELSE <<>>,
     !.anns = ShardAnnotations(o)]

ClusterOf(o) ==
  [Entity("Resource", "redis-cluster", ClusterName(o)) EXCEPT
     !.system = IF o.cluster # NoLabel THEN SystemOfCluster(o.cluster) ELSE NoLabel,
     !.dependsOn = IF o.shard # NoLabel THEN <<o.shard>> ELSE <<>>,
     !.anns = ShardAnnotations(o)]

\* The System made of a StatefulSet, if any: here smf is looked for first.
SystemOf(o) == CASE o.cluster \in Smf -> "smf"
                 [] o.cluster \in Upf \ Smf -> "upf"
                 [] OTHER -> NoLabel

NodeOf(o) == [Entity("Resource", "redis-cluster-node", o.name)
                EXCEPT !.dependencyOf = o.shard]

\* The annotations of a configured entity are merged into a copy of the global
\* ones, and the global ones are used.
FromStaticConfig(e) == [Entity(e.kind, "configured", e.name)
                          EXCEPT !.anns = [a \in Globals |-> "global"]]

ConfiguredEntities == [n \in DOMAIN Configured |-> FromStaticConfig(Configured[n])]
-----------------------------------------------------------------------------
Init ==
  /\ request \in {"entities", "redis_status"}
  /\ db \in Caches
  /\ i = 1
  /\ res = <<>>
  /\ seen = [c \in {} |-> {}]
  /\ seen_system = {}
  /\ pc = "objects"

Object == db[i]
At(handler) == request = handler /\ pc = "objects" /\ i <= Len(db)
Proceed == i' = i + 1 /\ UNCHANGED <<request, db, pc>>
Panic == pc' = "panicked" /\ UNCHANGED <<request, db, i, res, seen, seen_system>>

\* Mutant of Unmergeable: the dependencies seen are taken to be there.
UnmergeableNew(o) ==
  ~HasLabels(o) \/ (ClusterName(o) \in DOMAIN seen /\ o.shard = NoLabel)

\* The labels of the shard are unwrapped, and so are the dependencies of both
\* Resources when a cluster is seen again.
Unmergeable(o) ==
  \/ ~HasLabels(o)
  \/ /\ ClusterName(o) \in DOMAIN seen
     /\ o.shard = NoLabel \/ seen[ClusterName(o)].dependsOn = <<>>

\* Mutant of Merge: the dependencies of a cluster are replaced.
MergeLatest(o) ==
  [c \in DOMAIN seen \cup {ClusterName(o)} |->
     IF c = ClusterName(o) THEN ClusterOf(o) ELSE seen[c]]

Merge(o) ==
  LET own == ClusterName(o)
  IN  IF own \in DOMAIN seen
      THEN [seen EXCEPT ![own].dependsOn = Append(@, o.shard)]
      ELSE [c \in DOMAIN seen \cup {own} |-> IF c = own THEN ClusterOf(o) ELSE seen[c]]

\* Mutant of ConvertStatefulSet: a System is served once for every shard.
ConvertStatefulSetTwice ==
  /\ At("entities")
  /\ Object.kind = "StatefulSet"
  /\ \/ Unmergeable(Object) /\ Panic
     \/ /\ ~Unmergeable(Object)
        /\ seen' = Merge(Object)
        /\ res' = res \o <<ShardOf(Object)>>
                      \o (IF SystemOf(Object) = NoLabel THEN <<>>
                          ELSE <<Entity("System", "service", SystemOf(Object))>>)
        /\ Proceed
        /\ UNCHANGED seen_system

ConvertStatefulSet ==
  /\ At("entities")
  /\ Object.kind = "StatefulSet"
  /\ \/ Unmergeable(Object) /\ Panic
     \/ /\ ~Unmergeable(Object)
        /\ seen' = Merge(Object)
        /\ LET system == SystemOf(Object)
               new == IF system \in {NoLabel} \cup seen_system THEN {} ELSE {system}
           IN  /\ seen_system' = seen_system \cup new
               /\ res' = res \o <<ShardOf(Object)>>
                             \o [n \in 1..IF new = {} THEN 0 ELSE 1 |->
                                   Entity("System", "service", system)]
        /\ Proceed

ConvertPod ==
  /\ At("entities")
  /\ Object.kind = "Pod"
  /\ res' = IF HasLabels(Object) THEN Append(res, NodeOf(Object)) ELSE res
  /\ Proceed
  /\ UNCHANGED <<seen, seen_system>>

SkipObject ==
  /\ At("entities")
  /\ Object.kind = "Other"
  /\ Proceed
  /\ UNCHANGED <<res, seen, seen_system>>

AddClusters ==
  /\ request = "entities" /\ pc = "objects" /\ i > Len(db)
  /\ pc' = "clusters"
  /\ UNCHANGED <<request, db, i, res, seen, seen_system>>

\* The clusters follow in the order of a hash map.
AddCluster(c) ==
  /\ pc = "clusters"
  /\ res' = Append(res, seen[c])
  /\ seen' = Restrict(seen, DOMAIN seen \ {c})
  /\ UNCHANGED <<request, db, i, seen_system, pc>>

AddConfigured ==
  /\ pc = "clusters"
  /\ DOMAIN seen = {}
  /\ res' = res \o ConfiguredEntities
  /\ pc' = "done"
  /\ UNCHANGED <<request, db, i, seen, seen_system>>

\* Nine fields of the status are unwrapped.
Reported(o) == o.kind = "StatefulSet" /\ o.redis /\ o.status # "none"

ReportStatus ==
  /\ At("redis_status")
  /\ \/ Reported(Object) /\ Object.status = "partial" /\ Panic
     \/ /\ ~(Reported(Object) /\ Object.status = "partial")
        /\ res' = IF Reported(Object)
                  THEN Append(res, Entity("RedisStatus", "status", Object.name)) ELSE res
        /\ Proceed
        /\ UNCHANGED <<seen, seen_system>>

StatusDone ==
  /\ request = "redis_status" /\ pc = "objects" /\ i > Len(db)
  /\ pc' = "done"
  /\ UNCHANGED <<request, db, i, res, seen, seen_system>>

Next == \/ ConvertStatefulSet \/ ConvertPod \/ SkipObject
        \/ AddClusters \/ AddConfigured
        \/ \E c \in DOMAIN seen : AddCluster(c)
        \/ ReportStatus \/ StatusDone

Spec == Init /\ [][Next]_vars
-----------------------------------------------------------------------------
Entities == {res[n] : n \in DOMAIN res}
Served == pc = "done" /\ request = "entities"
OfType(t) == {e \in Entities : e.kind = "Resource" /\ e.type = t}

TypeOK ==
  /\ request \in {"entities", "redis_status"}
  /\ db \in Caches
  /\ i \in 1..Len(db) + 1
  /\ DOMAIN seen \subseteq Names
  /\ \A c \in DOMAIN seen : seen[c].name = c
  /\ seen_system \subseteq {"smf", "upf"}
  /\ pc \in {"objects", "clusters", "done", "panicked"}

\* The sequence d holds the shard labels of the objects of s at the positions
\* in P, in their order.
InOrder(d, s, P) ==
  \E f \in [DOMAIN d -> P] :
    /\ Range(f) = P
    /\ \A k, l \in DOMAIN d : k < l => f[k] < f[l]
    /\ \A k \in DOMAIN d : d[k] = s[f[k]].shard

\* The shards that share a cluster are merged into one Resource, which depends
\* on each of them in the order of the cache, whatever lay between them; a
\* cluster without shards there depends on nothing.
ClustersMerged ==
  Served =>
    \A c \in Names :
      LET members == {m \in DOMAIN db : db[m].kind = "StatefulSet" /\ ClusterName(db[m]) = c}
          clusters == {n \in DOMAIN res : res[n].type = "redis-cluster" /\ res[n].name = c}
      IN  IF members = {} THEN clusters = {}
          ELSE \E n \in clusters :
                 /\ clusters = {n}
                 /\ InOrder(res[n].dependsOn, db, {m \in members : db[m].shard # NoLabel})

\* The handlers unwrap what an object may lack, with the mutex held.  They
\* panic on exactly these caches: a StatefulSet without any label, a cluster
\* of several StatefulSets one of which has no shard label; a Redis status
\* with a field missing.
Fatal ==
  IF request = "entities"
  THEN \/ \E n \in DOMAIN db : db[n].kind = "StatefulSet" /\ ~HasLabels(db[n])
       \/ \E n, m \in DOMAIN db :
            /\ n # m
            /\ db[n].kind = "StatefulSet" /\ db[m].kind = "StatefulSet"
            /\ ClusterName(db[n]) = ClusterName(db[m])
            /\ db[n].shard = NoLabel
  ELSE \E n \in DOMAIN db : Reported(db[n]) /\ db[n].status = "partial"

PanicsExactly ==
  /\ pc = "panicked" => Fatal
  /\ pc \in {"clusters", "done"} => ~Fatal

\* The shard labels are the names of StatefulSets.
ShardsNamed ==
  \A n \in DOMAIN db :
    db[n].shard # NoLabel =>
      \E m \in DOMAIN db : db[m].kind = "StatefulSet" /\ db[m].name = db[n].shard

\* Every reference of a Resource leads to a Resource that is served with it,
\* if the shard labels are the names of StatefulSets: shards to their cluster,
\* clusters to their shards, nodes to their shard.  So does a cluster's
\* reference to its System, unless the name has both "smf" and "upf": then the
\* two conversions choose different ones.
RefsResolve ==
  Served /\ ShardsNamed =>
    LET shards == {e.name : e \in OfType("redis-cluster-shard") \cup OfType("statefulset")}
        clusters == {e.name : e \in OfType("redis-cluster")}
    IN  \A e \in Entities :
          /\ Range(e.dependsOn) \subseteq shards
          /\ e.system # NoLabel /\ e.name \notin Smf \cap Upf =>
               \E s \in Entities : s.kind = "System" /\ s.name = e.system
          /\ e.dependencyOf # NoLabel =>
               e.dependencyOf \in IF e.type = "redis-cluster-node" THEN shards ELSE clusters

\* Backstage tells entities apart by kind and name.  No two entities made of
\* the cache are the same to it, however many shards share a cluster or a
\* system, as long as the names of the objects and clusters are different and
\* every StatefulSet names its cluster: the cluster of one that does not keeps
\* the name of its shard.
NamesApart ==
  \A n \in DOMAIN db :
    /\ db[n].kind = "StatefulSet" => db[n].cluster # NoLabel
    /\ \A m \in DOMAIN db : /\ m # n => db[m].name # db[n].name
                            /\ db[m].cluster # db[n].name

EntitiesApart ==
  Served /\ NamesApart =>
    \A n, m \in DOMAIN res :
      n # m /\ {res[n].kind, res[m].kind} \subseteq {"Resource", "System"}
        => res[n].kind # res[m].kind \/ res[n].name # res[m].name

\* "Backstage annotations requied to make Entities visible in the Catalog"
\* (config/base.yaml): every entity carries the global annotations, with their
\* global values, whatever the object or the configured entity brings along.
VisibleInCatalog ==
  Served => \A e \in Entities : \A a \in Globals :
              a \in DOMAIN e.anns /\ e.anns[a] = "global"
=============================================================================
