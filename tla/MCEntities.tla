----------------------------- MODULE MCEntities -----------------------------
(***************************************************************************)
(* Caches of up to two objects of any shape, and of up to three that are   *)
(* deployed together: enough for two shards of a cluster with something    *)
(* between them.  The names smf1, upf1 and both serve as names of objects  *)
(* and as values of the labels; "both" contains smf and upf.               *)
(***************************************************************************)
EXTENDS Entities

CONSTANTS smf1, upf1, both, s1, s2, p1

Obj(kind, name, cluster, shard, redis, labelled, status) ==
  [kind |-> kind, name |-> name, cluster |-> cluster, shard |-> shard,
   redis |-> redis, labelled |-> labelled, status |-> status]

\* StatefulSets of every shape, pods with and without a shard, anything else.
MCShapes ==
  {Obj("StatefulSet", n, c, s, r, l, st) :
     n \in {s1, s2}, c \in {NoLabel, smf1}, s \in {NoLabel, s1},
     r \in BOOLEAN, l \in BOOLEAN, st \in {"none", "partial", "full"}}
  \cup {Obj("Pod", p1, NoLabel, s, FALSE, l, "none") : s \in {NoLabel, s1}, l \in BOOLEAN}
  \cup {Obj("Other", p1, NoLabel, NoLabel, FALSE, FALSE, "none")}

\* Shards of Redis clusters as they are deployed, their pods, and StatefulSets
\* that are no shards.
MCShards ==
  {Obj("StatefulSet", n, c, s, TRUE, TRUE, "full") :
     n \in {s1, s2}, c \in {smf1, upf1}, s \in {s1, s2, NoLabel}}
  \cup {Obj("StatefulSet", n, NoLabel, NoLabel, FALSE, TRUE, "none") : n \in {s2, smf1}}
  \cup {Obj("Pod", p1, NoLabel, s, FALSE, TRUE, "none") : s \in {s1, s2}}

\* A single shard, of a cluster whose name contains both smf and upf.
MCBoth == {<<Obj("StatefulSet", s1, both, s1, TRUE, TRUE, "full")>>}

MCCaches == SeqOf(MCShapes, 2) \cup SeqOf(MCShards, 3) \cup MCBoth

MCConfigured == << [kind |-> "Group", name |-> s1, anns |-> {"link", "selector"}],
                   [kind |-> "User", name |-> s1, anns |-> {}] >>
=============================================================================
