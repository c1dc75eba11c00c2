--------------------------- MODULE EntitiesProofs ---------------------------
(***************************************************************************)
(* What holds of the two handlers for caches of any size and any           *)
(* configuration: when they panic, which annotations they serve, and which *)
(* entities with which references they make of the cache.                  *)
(***************************************************************************)
EXTENDS Entities, SequenceTheorems, TLAPS

\* The positions of the StatefulSets, and of those already converted.
Stateful == {n \in DOMAIN db : db[n].kind = "StatefulSet"}
Passed == {n \in Stateful : n < i}

Shape ==
  /\ request \in {"entities", "redis_status"}
  /\ db \in Seq(ObjectsToConvert)
  /\ i \in 1..Len(db) + 1
  /\ pc \in {"objects", "clusters", "done", "panicked"}

\* What seen says about the StatefulSets passed so far: which clusters they
\* belong to, and that a cluster without dependencies has one StatefulSet only,
\* which has no shard label.
SeenPassed ==
  /\ DOMAIN seen = {ClusterName(db[n]) : n \in Passed}
  /\ \A c \in DOMAIN seen : /\ "dependsOn" \in DOMAIN seen[c]
                            /\ seen[c].dependsOn \in Seq(Names)
  /\ \A n \in Passed : HasLabels(db[n])
  /\ \A n \in Passed :
       seen[ClusterName(db[n])].dependsOn = <<>> <=> db[n].shard = NoLabel
  /\ \A n, m \in Passed :
       n # m /\ ClusterName(db[n]) = ClusterName(db[m]) => db[n].shard # NoLabel

NoneFatal == \A n \in DOMAIN db : n < i => ~(Reported(db[n]) /\ db[n].status = "partial")

PanicInv ==
  /\ Shape
  /\ request = "entities" /\ pc = "objects" => SeenPassed
  /\ request = "redis_status" => pc # "clusters"
  /\ request = "redis_status" /\ pc = "objects" => NoneFatal
  /\ PanicsExactly

Everywhere(e) == \A a \in Globals : a \in DOMAIN e.anns /\ e.anns[a] = "global"

VisibleInv ==
  /\ \E S : res \in Seq(S) /\ \A e \in S : Everywhere(e)
  /\ \A c \in DOMAIN seen : Everywhere(seen[c])
-----------------------------------------------------------------------------
LEMMA Converted ==
  ASSUME NEW o \in ObjectsToConvert
  PROVE  /\ o \in ObjectsToConvert
         /\ Everywhere(ShardOf(o)) /\ Everywhere(ClusterOf(o)) /\ Everywhere(NodeOf(o))
         /\ "dependsOn" \in DOMAIN ClusterOf(o)
         /\ ClusterOf(o).dependsOn \in Seq(Names)
         /\ ClusterOf(o).dependsOn = <<>> <=> o.shard = NoLabel
         /\ ClusterName(o) \in Names
<1>1. o \in ObjectsToConvert
  BY EntitiesAssumption
<1>2. \A a \in Globals : a \in DOMAIN ShardAnnotations(o) /\ ShardAnnotations(o)[a] = "global"
  BY DEF ShardAnnotations
<1>3. ShardOf(o).anns = ShardAnnotations(o) /\ ClusterOf(o).anns = ShardAnnotations(o)
  BY DEF ShardOf, ClusterOf, Entity
<1>4. NodeOf(o).anns = [a \in Globals |-> "global"]
  BY DEF NodeOf, Entity
<1>5. ClusterOf(o).dependsOn = IF o.shard # NoLabel THEN <<o.shard>> ELSE <<>>
  BY DEF ClusterOf, Entity
<1>6. o.shard \in Names \cup {NoLabel}
  BY <1>1 DEF ObjectsToConvert
<1>7. ClusterOf(o).dependsOn \in Seq(Names) /\ "dependsOn" \in DOMAIN ClusterOf(o)
  BY <1>5, <1>6 DEF ClusterOf, Entity
<1>8. ClusterOf(o).dependsOn = <<>> <=> o.shard = NoLabel
  BY <1>5
<1>9. ClusterName(o) \in Names
  BY <1>1 DEF ObjectsToConvert, ClusterName
<1> QED
  BY <1>1, <1>2, <1>3, <1>4, <1>7, <1>8, <1>9 DEF Everywhere

LEMMA InitShape == Init => Shape
<1> SUFFICES ASSUME Init PROVE Shape
  OBVIOUS
<1>2. db \in Seq(ObjectsToConvert)
  BY EntitiesAssumption DEF Init
<1> QED
  BY <1>2 DEF Init, Shape

LEMMA NextShape == Shape /\ [Next]_vars => Shape'
<1> SUFFICES ASSUME Shape, [Next]_vars PROVE Shape'
  OBVIOUS
<1>1. Len(db) \in Nat
  BY DEF Shape
<1>2. CASE i <= Len(db) /\ Proceed
  BY <1>1, <1>2 DEF Shape, Proceed
<1>3. CASE Panic
  BY <1>3 DEF Shape, Panic
<1>4. CASE UNCHANGED <<request, db, i>> /\ pc' \in {pc, "clusters", "done"}
  BY <1>4 DEF Shape
<1>5. \/ i <= Len(db) /\ Proceed
      \/ Panic
      \/ UNCHANGED <<request, db, i>> /\ pc' \in {pc, "clusters", "done"}
  BY DEF Next, vars, ConvertStatefulSet, ConvertPod, SkipObject, AddClusters,
         AddConfigured, AddCluster, ReportStatus, StatusDone, At
<1> QED
  BY <1>2, <1>3, <1>4, <1>5

LEMMA InitVisible == Init => VisibleInv
<1> SUFFICES ASSUME Init PROVE VisibleInv
  OBVIOUS
<1>1. res \in Seq({})
  BY DEF Init
<1> QED
  BY <1>1 DEF Init, VisibleInv

LEMMA NextVisible == Shape /\ VisibleInv /\ [Next]_vars => VisibleInv'
<1> SUFFICES ASSUME Shape, VisibleInv, [Next]_vars PROVE VisibleInv'
  OBVIOUS
<1>s. PICK S : res \in Seq(S) /\ \A e \in S : Everywhere(e)
  BY DEF VisibleInv
<1>e. \A kind, type, name : Everywhere(Entity(kind, type, name))
  BY DEF Everywhere, Entity
<1>o. i <= Len(db) => Object \in ObjectsToConvert
  BY DEF Shape, Object
<1>1. CASE ConvertStatefulSet /\ ~Unmergeable(Object)
  <2>1. Object \in ObjectsToConvert
    BY <1>1, <1>o DEF ConvertStatefulSet, At
  <2> DEFINE x == ShardOf(Object)
             y == Entity("System", "service", SystemOf(Object))
             T == S \cup {x, y}
  <2>2. \A e \in T : Everywhere(e)
    BY <1>s, <1>e, <2>1, Converted
  <2>3. \A k \in Nat : [n \in 1..k |-> y] \in Seq(T)
    OBVIOUS
  <2>4. res \in Seq(T) /\ <<x>> \in Seq(T)
    BY <1>s
  <2>5. \E k \in {0, 1} : res' = res \o <<x>> \o [n \in 1..k |-> y]
    BY <1>1 DEF ConvertStatefulSet, Panic
  <2>6. res' \in Seq(T)
    <3> HIDE DEF T, x, y
    <3>1. PICK k \in {0, 1} : res' = res \o <<x>> \o [n \in 1..k |-> y]
      BY <2>5
    <3>2. res \o <<x>> \in Seq(T) /\ [n \in 1..k |-> y] \in Seq(T)
      BY <2>3, <2>4
    <3> QED
      BY <3>1, <3>2
  <2>7. seen' = Merge(Object)
    BY <1>1 DEF ConvertStatefulSet
  <2>8. Everywhere(ClusterOf(Object))
    BY <2>1, Converted
  <2>9. ASSUME NEW c \in DOMAIN seen' PROVE Everywhere(seen'[c])
    <3>1. CASE ClusterName(Object) \in DOMAIN seen
      <4>1. c \in DOMAIN seen /\ Everywhere(seen[c])
        BY <2>7, <2>9, <3>1 DEF Merge, VisibleInv
      <4>2. seen'[c] = IF c = ClusterName(Object)
                       THEN [seen[c] EXCEPT !.dependsOn = Append(@, Object.shard)]
                       ELSE seen[c]
        BY <2>7, <3>1, <4>1 DEF Merge
        <4> QED
        BY <4>1, <4>2 DEF Everywhere
    <3>2. CASE ClusterName(Object) \notin DOMAIN seen
      BY <2>7, <2>8, <2>9, <3>2 DEF Merge, VisibleInv
    <3> QED
      BY <3>1, <3>2
  <2> QED
    BY <2>2, <2>6, <2>9 DEF VisibleInv
<1>2. CASE ConvertPod
  <2>1. Object \in ObjectsToConvert
    BY <1>2, <1>o DEF ConvertPod, At
  <2>2. res' \in Seq(S \cup {NodeOf(Object)})
    BY <1>2, <1>s DEF ConvertPod
  <2>3. \A e \in S \cup {NodeOf(Object)} : Everywhere(e)
    BY <1>s, <2>1, Converted
  <2>4. seen' = seen
    BY <1>2 DEF ConvertPod
  <2> QED
    BY <2>2, <2>3, <2>4 DEF VisibleInv
<1>3. CASE AddConfigured
  <2> DEFINE T == S \cup {FromStaticConfig(Configured[n]) : n \in DOMAIN Configured}
             added == [n \in DOMAIN Configured |-> FromStaticConfig(Configured[n])]
  <2>1. \A n \in DOMAIN Configured : Everywhere(FromStaticConfig(Configured[n]))
    BY DEF Everywhere, FromStaticConfig, Entity
  <2>2. \A e \in T : Everywhere(e)
    BY <2>1, <1>s
  <2>3. DOMAIN Configured = 1..Len(Configured) /\ Len(Configured) \in Nat
    BY EntitiesAssumption
  <2>4. added \in Seq(T)
    BY <2>3
  <2>5. res' = res \o added /\ seen' = seen
    BY <1>3 DEF AddConfigured, ConfiguredEntities
  <2>6. res' \in Seq(T)
    <3>1. res \in Seq(T)
      BY <1>s
    <3> QED
      BY <3>1, <2>4, <2>5
  <2> QED
    BY <2>2, <2>5, <2>6 DEF VisibleInv
<1>4. ASSUME NEW c \in DOMAIN seen, AddCluster(c) PROVE VisibleInv'
  <2>1. Everywhere(seen[c])
    BY DEF VisibleInv
  <2>2. res' \in Seq(S \cup {seen[c]})
    BY <1>4, <1>s DEF AddCluster
  <2>3. \A d \in DOMAIN seen' : d \in DOMAIN seen /\ seen'[d] = seen[d]
    BY <1>4 DEF AddCluster, Restrict
  <2> QED
    BY <1>s, <2>1, <2>2, <2>3 DEF VisibleInv
<1>5. CASE ReportStatus
  <2> DEFINE x == Entity("RedisStatus", "status", Object.name)
  <2>1. seen' = seen /\ (res' = res \/ res' = Append(res, x))
    BY <1>5 DEF ReportStatus, Panic
  <2>2. res' \in Seq(S \cup {x})
    <3> HIDE DEF x
    <3> QED
      BY <2>1, <1>s
  <2>3. \A e \in S \cup {x} : Everywhere(e)
    BY <1>s, <1>e
  <2> QED
    BY <2>1, <2>2, <2>3 DEF VisibleInv
<1>6. CASE UNCHANGED <<res, seen>>
  BY <1>6 DEF VisibleInv
<1> QED
  BY <1>1, <1>2, <1>3, <1>4, <1>5, <1>6
  DEF Next, vars, ConvertStatefulSet, SkipObject, AddClusters, StatusDone, Panic

\* Whatever the cache and the configuration hold, every entity is served with
\* the global annotations that make it visible in the catalog.
THEOREM AlwaysVisible == Spec => []VisibleInCatalog
<1>1. VisibleInv => VisibleInCatalog
  <2> SUFFICES ASSUME VisibleInv, NEW e \in Entities PROVE Everywhere(e)
    BY DEF VisibleInCatalog, Everywhere
  <2>1. PICK S : res \in Seq(S) /\ \A f \in S : Everywhere(f)
    BY DEF VisibleInv
  <2> QED
    BY <2>1 DEF Entities
<1> QED
  BY InitShape, NextShape, InitVisible, NextVisible, <1>1, PTL DEF Spec
-----------------------------------------------------------------------------
LEMMA InitPanic == Init => PanicInv
<1> SUFFICES ASSUME Init PROVE PanicInv
  OBVIOUS
<1>1. Shape
  BY InitShape
<1>2. Passed = {} /\ NoneFatal
  BY <1>1 DEF Passed, Stateful, NoneFatal, Init, Shape
<1>3. SeenPassed
  BY <1>2 DEF SeenPassed, Init
<1> QED
  BY <1>1, <1>2, <1>3 DEF PanicInv, PanicsExactly, Init

\* One more StatefulSet is passed without a panic.
LEMMA StatefulSetPassed ==
  ASSUME PanicInv, Shape, ConvertStatefulSet, ~Unmergeable(Object)
  PROVE  SeenPassed'
<1> DEFINE o == Object
           own == ClusterName(o)
<1>0. SeenPassed /\ i \in DOMAIN db /\ o = db[i] /\ o.kind = "StatefulSet"
  BY DEF PanicInv, ConvertStatefulSet, At, Shape, Object
<1>1. o \in ObjectsToConvert /\ own \in Names
  <2>1. o \in ObjectsToConvert
    BY <1>0 DEF Shape
  <2> QED
    BY <2>1, Converted
<1>2. UNCHANGED db /\ i' = i + 1 /\ seen' = Merge(o)
  BY DEF ConvertStatefulSet, Proceed, Panic
<1>3. Stateful' = Stateful /\ Passed' = Passed \cup {i} /\ i \in Stateful /\ i \notin Passed
  BY <1>0, <1>2 DEF Passed, Stateful, Shape
<1>4. HasLabels(o)
  BY DEF Unmergeable
<1>5. own \in DOMAIN seen => o.shard # NoLabel /\ seen[own].dependsOn # <<>>
  BY DEF Unmergeable
<1>6. o.shard \in Names \cup {NoLabel}
  BY <1>1, EntitiesAssumption DEF ObjectsToConvert
<1>7. DOMAIN seen' = DOMAIN seen \cup {own}
  BY <1>2 DEF Merge
<1>8. \A c \in DOMAIN seen : c # own => seen'[c] = seen[c]
  BY <1>2 DEF Merge
<1>9. /\ "dependsOn" \in DOMAIN seen'[own]
      /\ seen'[own].dependsOn \in Seq(Names)
      /\ seen'[own].dependsOn = <<>> <=> o.shard = NoLabel
  <2>1. CASE own \in DOMAIN seen
    <3>1. seen'[own] = [seen[own] EXCEPT !.dependsOn = Append(@, o.shard)]
      BY <1>2, <2>1 DEF Merge
    <3>2. "dependsOn" \in DOMAIN seen[own] /\ seen[own].dependsOn \in Seq(Names) /\ o.shard \in Names
      BY <1>0, <1>5, <1>6, <2>1 DEF SeenPassed
    <3> QED
      BY <3>1, <3>2, <1>5, <2>1
  <2>2. CASE own \notin DOMAIN seen
    <3>1. seen'[own] = ClusterOf(o)
      BY <1>2, <2>2 DEF Merge
    <3> QED
      BY <3>1, <1>1, Converted
  <2> QED
    BY <2>1, <2>2
<1>10. \A n \in Passed : ClusterName(db[n]) \in DOMAIN seen
  BY <1>0 DEF SeenPassed
<1>11. \A n \in Passed : ClusterName(db[n]) = own => db[n].shard # NoLabel /\ o.shard # NoLabel
  BY <1>0, <1>5, <1>10 DEF SeenPassed
<1>a. DOMAIN seen' = {ClusterName(db'[n]) : n \in Passed'}
  BY <1>0, <1>2, <1>3, <1>7 DEF SeenPassed
<1>b. \A c \in DOMAIN seen' : "dependsOn" \in DOMAIN seen'[c] /\ seen'[c].dependsOn \in Seq(Names)
  BY <1>0, <1>7, <1>8, <1>9 DEF SeenPassed
<1>c. \A n \in Passed' : HasLabels(db'[n])
  BY <1>0, <1>2, <1>3, <1>4 DEF SeenPassed
<1>d. \A n \in Passed' : seen'[ClusterName(db'[n])].dependsOn = <<>> <=> db'[n].shard = NoLabel
  <2> SUFFICES ASSUME NEW n \in Passed'
               PROVE  seen'[ClusterName(db[n])].dependsOn = <<>> <=> db[n].shard = NoLabel
    BY <1>2
  <2>1. CASE n = i
    BY <2>1, <1>0, <1>9
  <2>2. CASE n \in Passed /\ ClusterName(db[n]) = own
    BY <2>2, <1>9, <1>11
  <2>3. CASE n \in Passed /\ ClusterName(db[n]) # own
    BY <2>3, <1>0, <1>8, <1>10 DEF SeenPassed
  <2> QED
    BY <1>3, <2>1, <2>2, <2>3
<1>e. \A n, m \in Passed' :
        n # m /\ ClusterName(db'[n]) = ClusterName(db'[m]) => db'[n].shard # NoLabel
  BY <1>0, <1>2, <1>3, <1>11 DEF SeenPassed
<1> QED
  BY <1>a, <1>b, <1>c, <1>d, <1>e DEF SeenPassed

\* A StatefulSet that cannot be converted makes the cache one the handler
\* panics on.
LEMMA UnmergeableFatal ==
  ASSUME PanicInv, Shape, At("entities"), Object.kind = "StatefulSet", Unmergeable(Object)
  PROVE  Fatal
<1>0. SeenPassed /\ i \in DOMAIN db /\ Object = db[i] /\ request = "entities"
  BY DEF PanicInv, At, Shape, Object
<1>1. CASE ~HasLabels(Object)
  BY <1>0, <1>1 DEF Fatal
<1>2. CASE /\ ClusterName(Object) \in DOMAIN seen
           /\ Object.shard = NoLabel \/ seen[ClusterName(Object)].dependsOn = <<>>
  <2>1. PICK n \in Passed : ClusterName(db[n]) = ClusterName(Object)
    BY <1>0, <1>2 DEF SeenPassed
  <2>2. n \in DOMAIN db /\ n # i /\ db[n].kind = "StatefulSet"
    BY <2>1 DEF Passed, Stateful, Shape
  <2>3. db[n].shard = NoLabel \/ db[i].shard = NoLabel
    BY <1>0, <1>2, <2>1 DEF SeenPassed
  <2> QED
    BY <1>0, <2>1, <2>2, <2>3 DEF Fatal
<1> QED
  BY <1>1, <1>2 DEF Unmergeable

\* Past the last object nothing fatal was met.
LEMMA PassedAll ==
  ASSUME PanicInv, Shape, pc = "objects", i > Len(db)
  PROVE  ~Fatal
<1>1. \A n \in DOMAIN db : n < i
  BY DEF Shape
<1>2. CASE request = "entities"
  BY <1>1, <1>2 DEF PanicInv, SeenPassed, Passed, Stateful, Fatal
<1>3. CASE request = "redis_status"
  BY <1>1, <1>3 DEF PanicInv, NoneFatal, Fatal
<1> QED
  BY <1>2, <1>3 DEF Shape

LEMMA NextPanic == PanicInv /\ [Next]_vars => PanicInv'
<1> SUFFICES ASSUME PanicInv, [Next]_vars PROVE PanicInv'
  OBVIOUS
<1>s. Shape /\ Shape'
  BY NextShape DEF PanicInv
<1>f. UNCHANGED <<request, db>> => Fatal' = Fatal
  BY DEF Fatal
<1>1. CASE ConvertStatefulSet /\ ~Unmergeable(Object)
  <2>1. SeenPassed'
    BY <1>1, <1>s, StatefulSetPassed
  <2> QED
    BY <1>1, <1>s, <2>1 DEF ConvertStatefulSet, At, Proceed, Panic, PanicInv, PanicsExactly
<1>2. CASE ConvertStatefulSet /\ Unmergeable(Object)
  <2>1. Fatal
    BY <1>2, <1>s, UnmergeableFatal DEF ConvertStatefulSet
  <2> QED
    BY <1>2, <1>s, <1>f, <2>1 DEF ConvertStatefulSet, Panic, At, PanicInv, PanicsExactly
<1>3. CASE ConvertPod \/ SkipObject
  <2>1. /\ request = "entities" /\ pc = "objects" /\ i \in DOMAIN db
        /\ db[i].kind # "StatefulSet"
        /\ i' = i + 1 /\ UNCHANGED <<request, db, pc, seen>>
    BY <1>3, <1>s DEF ConvertPod, SkipObject, At, Proceed, Object, Shape
  <2>2. Passed' = Passed
    BY <2>1, <1>s DEF Passed, Stateful, Shape
  <2>3. SeenPassed'
    BY <2>1, <2>2 DEF SeenPassed, PanicInv
  <2> QED
    BY <2>1, <2>3, <1>s DEF PanicInv, PanicsExactly
<1>4. CASE AddClusters
  BY <1>4, <1>s, <1>f, PassedAll DEF AddClusters, PanicInv, PanicsExactly
<1>5. CASE AddConfigured
  BY <1>5, <1>s, <1>f DEF AddConfigured, PanicInv, PanicsExactly
<1>6. ASSUME NEW c \in DOMAIN seen, AddCluster(c) PROVE PanicInv'
  BY <1>6, <1>s, <1>f DEF AddCluster, PanicInv, PanicsExactly
<1>7. CASE ReportStatus
  <2>1. request = "redis_status" /\ pc = "objects" /\ i \in DOMAIN db /\ Object = db[i]
    BY <1>7, <1>s DEF ReportStatus, At, Object, Shape
  <2>2. CASE Panic
    <3>1. Fatal
      BY <1>7, <2>1, <2>2 DEF ReportStatus, Panic, Fatal, Proceed
    <3> QED
      BY <1>s, <1>f, <2>1, <2>2, <3>1 DEF Panic, PanicInv, PanicsExactly
  <2>3. CASE Proceed /\ ~(Reported(Object) /\ Object.status = "partial")
    <3>1. NoneFatal'
      BY <2>1, <2>3, <1>s DEF NoneFatal, Proceed, PanicInv, Shape
    <3> QED
      BY <1>s, <2>1, <2>3, <3>1 DEF Proceed, PanicInv, PanicsExactly
  <2> QED
    BY <1>7, <2>2, <2>3 DEF ReportStatus
<1>8. CASE StatusDone
  BY <1>8, <1>s, <1>f, PassedAll DEF StatusDone, PanicInv, PanicsExactly
<1>9. CASE UNCHANGED vars
  BY <1>9, <1>s DEF vars, PanicInv, PanicsExactly, Fatal, SeenPassed, NoneFatal, Passed, Stateful
<1> QED
  BY <1>1, <1>2, <1>3, <1>4, <1>5, <1>6, <1>7, <1>8, <1>9 DEF Next

\* The handlers panic on the fatal caches and on no other, at any size.
THEOREM PanicsCharacterised == Spec => []PanicsExactly
<1>1. PanicInv => PanicsExactly
  BY DEF PanicInv
<1> QED
  BY InitPanic, NextPanic, <1>1, PTL DEF Spec
-----------------------------------------------------------------------------
LEMMA InitType == Init => TypeOK
<1> SUFFICES ASSUME Init PROVE TypeOK
  OBVIOUS
<1>1. db \in Seq(ObjectsToConvert)
  BY EntitiesAssumption DEF Init
<1> QED
  BY <1>1 DEF Init, TypeOK

LEMMA NextType == Shape /\ TypeOK /\ [Next]_vars => TypeOK'
<1> SUFFICES ASSUME Shape, TypeOK, [Next]_vars PROVE TypeOK'
  OBVIOUS
<1>s. Shape'
  BY NextShape
<1>1. CASE UNCHANGED <<db, seen, seen_system>>
  BY <1>1, <1>s DEF Shape, TypeOK
<1>2. CASE ConvertStatefulSet /\ ~Unmergeable(Object)
  <2>1. UNCHANGED db /\ seen' = Merge(Object) /\ Object \in ObjectsToConvert
    BY <1>2 DEF ConvertStatefulSet, Panic, Proceed, At, Object, Shape
  <2>2. seen_system' \subseteq {"smf", "upf"}
    <3>1. SystemOf(Object) \in {"smf", "upf", NoLabel}
      BY DEF SystemOf
    <3> QED
      BY <1>2, <3>1 DEF ConvertStatefulSet, TypeOK
  <2> DEFINE own == ClusterName(Object)
  <2>3. own \in Names
    BY <2>1, Converted
  <2>4. ClusterOf(Object).name = own
    BY DEF ClusterOf, Entity
  <2>5. /\ DOMAIN seen' \subseteq Names
        /\ \A c \in DOMAIN seen' : seen'[c].name = c
    <3>1. CASE own \in DOMAIN seen
      <4> DEFINE grown == [seen[own] EXCEPT !.dependsOn = Append(@, Object.shard)]
      <4>1. seen' = [seen EXCEPT ![own] = grown]
        BY <2>1, <3>1 DEF Merge
      <4>2. grown.name = seen[own].name
        OBVIOUS
      <4> HIDE DEF grown
      <4> QED
        BY <4>1, <4>2 DEF TypeOK
    <3>2. CASE own \notin DOMAIN seen
      <4>1. seen' = [c \in DOMAIN seen \cup {own} |->
                      IF c = own THEN ClusterOf(Object) ELSE seen[c]]
        BY <2>1, <3>2 DEF Merge
      <4> QED
        BY <4>1, <2>3, <2>4 DEF TypeOK
    <3> QED
      BY <3>1, <3>2
  <2> QED
    BY <1>s, <2>1, <2>2, <2>5 DEF Shape, TypeOK
<1>3. ASSUME NEW c \in DOMAIN seen, AddCluster(c) PROVE TypeOK'
  <2>1. seen' = [d \in DOMAIN seen \ {c} |-> seen[d]]
    BY <1>3 DEF AddCluster, Restrict
  <2>2. UNCHANGED <<db, seen_system>>
    BY <1>3 DEF AddCluster
  <2> QED
    BY <1>s, <2>1, <2>2 DEF Shape, TypeOK
<1> QED
  BY <1>1, <1>2, <1>3
  DEF Next, vars, ConvertStatefulSet, ConvertPod, SkipObject, AddClusters,
      AddConfigured, ReportStatus, StatusDone, Proceed, Panic

\* Whatever the cache holds, the handlers stay within their state, and a cluster
\* is collected under its own name.
THEOREM EntitiesTypeCorrect == Spec => []TypeOK
  BY InitShape, NextShape, InitType, NextType, PTL DEF Spec
-----------------------------------------------------------------------------
(***************************************************************************)
(* What is collected, object by object.  The clusters of the StatefulSets  *)
(* passed are in seen until they are moved to res.                         *)
(***************************************************************************)
Clusters == {ClusterName(db[n]) : n \in Passed}

IsShard(e) == \E n \in Passed : e = ShardOf(db[n])
IsNode(e) == \E n \in DOMAIN db : /\ n < i /\ db[n].kind = "Pod" /\ HasLabels(db[n])
                                 /\ e = NodeOf(db[n])
IsSystem(e) == \E s \in seen_system : e = Entity("System", "service", s)
IsConfigured(e) == \E n \in DOMAIN Configured : e = FromStaticConfig(Configured[n])

\* e is the Resource of the cluster c, made of the StatefulSets of s in P.
Labelled(s, P, c) == {n \in P : ClusterName(s[n]) = c /\ s[n].shard # NoLabel}

ClusterFrom(s, P, e, c) ==
  /\ e.kind = "Resource" /\ e.type = "redis-cluster" /\ e.name = c
  /\ e.dependencyOf = NoLabel
  /\ InOrder(e.dependsOn, s, Labelled(s, P, c))
  /\ e.system # NoLabel => /\ e.system = SystemOfCluster(c)
                           /\ \E n \in P : s[n].cluster = c

IsCluster(e, c) == ClusterFrom(db, Passed, e, c)

\* Every entity collected was made of something met so far ...
Sources ==
  \A k \in DOMAIN res :
    \/ IsShard(res[k]) \/ IsNode(res[k]) \/ IsSystem(res[k])
    \/ \E c \in Clusters \ DOMAIN seen : IsCluster(res[k], c)
    \/ pc = "done" /\ IsConfigured(res[k])

\* ... and nothing that was met is missing.
Collected ==
  /\ \A n \in Passed : \E k \in DOMAIN res : res[k] = ShardOf(db[n])
  /\ \A n \in Passed : SystemOf(db[n]) \in {NoLabel} \cup seen_system
  /\ \A s \in seen_system : \E k \in DOMAIN res : res[k] = Entity("System", "service", s)
  /\ \A c \in DOMAIN seen : IsCluster(seen[c], c)
  /\ \A c \in Clusters \ DOMAIN seen : \E k \in DOMAIN res : IsCluster(res[k], c)

ClustersOnce ==
  \A k, l \in DOMAIN res :
    res[k].type = "redis-cluster" /\ res[l].type = "redis-cluster" /\ res[k].name = res[l].name
      => k = l

ApartFrom(e, f) ==
  {e.kind, f.kind} \subseteq {"Resource", "System"} => e.kind # f.kind \/ e.name # f.name

Apart == \A k, l \in DOMAIN res : k # l => ApartFrom(res[k], res[l])

CollectedInv ==
  request = "entities" =>
    /\ \E S : res \in Seq(S)
    /\ DOMAIN seen \subseteq Clusters
    /\ pc \in {"clusters", "done"} => i = Len(db) + 1
    /\ pc = "done" => DOMAIN seen = {}
    /\ Sources /\ Collected /\ ClustersOnce
    /\ NamesApart => Apart
-----------------------------------------------------------------------------
LEMMA EntityFields ==
  ASSUME NEW kind, NEW type, NEW name
  PROVE  LET e == Entity(kind, type, name)
         IN  /\ e.kind = kind /\ e.type = type /\ e.name = name
             /\ e.dependsOn = <<>> /\ e.dependencyOf = NoLabel /\ e.system = NoLabel
  BY DEF Entity

LEMMA ShardFields ==
  ASSUME NEW o
  PROVE  /\ ShardOf(o).kind = "Resource" /\ ShardOf(o).name = o.name
         /\ ShardOf(o).type \in {"redis-cluster-shard", "statefulset"}
         /\ ShardOf(o).dependsOn = <<>> /\ ShardOf(o).dependencyOf = o.cluster
         /\ ShardOf(o).system = NoLabel
  BY DEF ShardOf, Entity

LEMMA NodeFields ==
  ASSUME NEW o
  PROVE  /\ NodeOf(o).kind = "Resource" /\ NodeOf(o).name = o.name
         /\ NodeOf(o).type = "redis-cluster-node"
         /\ NodeOf(o).dependsOn = <<>> /\ NodeOf(o).dependencyOf = o.shard
         /\ NodeOf(o).system = NoLabel
  BY DEF NodeOf, Entity

LEMMA ClusterFields ==
  ASSUME NEW o
  PROVE  /\ ClusterOf(o).kind = "Resource" /\ ClusterOf(o).name = ClusterName(o)
         /\ ClusterOf(o).type = "redis-cluster"
         /\ ClusterOf(o).dependsOn = IF o.shard # NoLabel THEN <<o.shard>> ELSE <<>>
         /\ ClusterOf(o).dependencyOf = NoLabel
         /\ ClusterOf(o).system = IF o.cluster # NoLabel THEN SystemOfCluster(o.cluster)
                                                         ELSE NoLabel
<1>1. ClusterOf(o).kind = "Resource" /\ ClusterOf(o).type = "redis-cluster"
  BY DEF ClusterOf, Entity
<1>2. ClusterOf(o).name = ClusterName(o) /\ ClusterOf(o).dependencyOf = NoLabel
  BY DEF ClusterOf, Entity
<1>3. ClusterOf(o).dependsOn = IF o.shard # NoLabel THEN <<o.shard>> ELSE <<>>
  BY DEF ClusterOf, Entity
<1>4. ClusterOf(o).system = IF o.cluster # NoLabel THEN SystemOfCluster(o.cluster) ELSE NoLabel
  BY DEF ClusterOf, Entity
<1> QED
  BY <1>1, <1>2, <1>3, <1>4

LEMMA ConfiguredFields ==
  ASSUME NEW e
  PROVE  /\ FromStaticConfig(e).kind = e.kind /\ FromStaticConfig(e).name = e.name
         /\ FromStaticConfig(e).type = "configured"
         /\ FromStaticConfig(e).dependsOn = <<>>
         /\ FromStaticConfig(e).dependencyOf = NoLabel
         /\ FromStaticConfig(e).system = NoLabel
  BY DEF FromStaticConfig, Entity

\* What is appended to a sequence leaves what was there in its place.
LEMMA Extended ==
  ASSUME NEW S, NEW s \in Seq(S), NEW T, NEW t \in Seq(T)
  PROVE  /\ s \o t \in Seq(S \cup T)
         /\ DOMAIN (s \o t) = 1..Len(s) + Len(t)
         /\ \A k \in DOMAIN s : k \in DOMAIN (s \o t) /\ (s \o t)[k] = s[k]
         /\ \A k \in DOMAIN t : /\ Len(s) + k \in DOMAIN (s \o t)
                                /\ (s \o t)[Len(s) + k] = t[k]
         /\ \A k \in DOMAIN (s \o t) : k \notin DOMAIN s => k - Len(s) \in DOMAIN t
<1>1. s \in Seq(S \cup T) /\ t \in Seq(S \cup T)
  OBVIOUS
<1>2. Len(s) \in Nat /\ Len(t) \in Nat /\ DOMAIN s = 1..Len(s) /\ DOMAIN t = 1..Len(t)
  OBVIOUS
<1>3. s \o t \in Seq(S \cup T) /\ Len(s \o t) = Len(s) + Len(t)
  BY <1>1
<1>4. \A k \in 1..Len(s) + Len(t) : (s \o t)[k] = IF k <= Len(s) THEN s[k] ELSE t[k - Len(s)]
  BY <1>1
<1> QED
  BY <1>2, <1>3, <1>4

LEMMA NothingInOrder == \A s : InOrder(<<>>, s, {})
<1> SUFFICES ASSUME NEW s PROVE InOrder(<<>>, s, {})
  OBVIOUS
<1> DEFINE f == [k \in {} |-> k]
<1>1. DOMAIN <<>> = {} /\ f \in [{} -> {}] /\ Range(f) = {}
  BY DEF Range
<1> QED
  BY <1>1 DEF InOrder

LEMMA OneMoreInOrder ==
  ASSUME NEW S, NEW d \in Seq(S), NEW s, NEW P \in SUBSET Nat, NEW n \in Nat,
         \A p \in P : p < n, InOrder(d, s, P), s[n].shard \in S
  PROVE  InOrder(Append(d, s[n].shard), s, P \cup {n})
<1>1. PICK f \in [DOMAIN d -> P] :
        /\ Range(f) = P
        /\ \A k, l \in DOMAIN d : k < l => f[k] < f[l]
        /\ \A k \in DOMAIN d : d[k] = s[f[k]].shard
  BY DEF InOrder
<1> DEFINE L == Len(d) + 1
           e == Append(d, s[n].shard)
           g == [k \in 1..L |-> IF k = L THEN n ELSE f[k]]
<1>2. Len(d) \in Nat /\ DOMAIN d = 1..Len(d)
  OBVIOUS
<1>3. DOMAIN e = 1..L /\ e[L] = s[n].shard /\ \A k \in DOMAIN d : e[k] = d[k]
  <2>1. e \in Seq(S) /\ Len(e) = L
    OBVIOUS
  <2> QED
    BY <2>1
<1>4. DOMAIN e = DOMAIN d \cup {L} /\ L \notin DOMAIN d /\ \A k \in DOMAIN d : k < L
  BY <1>2, <1>3
<1>5. g \in [DOMAIN e -> P \cup {n}] /\ g[L] = n /\ \A k \in DOMAIN d : g[k] = f[k]
  BY <1>1, <1>2, <1>3, <1>4
<1> HIDE DEF e, g, L
<1>6. Range(g) = P \cup {n}
  <2>1. DOMAIN g = DOMAIN d \cup {L}
    BY <1>4, <1>5
  <2>2. \A p \in P : \E k \in DOMAIN d : f[k] = p
    BY <1>1 DEF Range
  <2>3. \A p \in P \cup {n} : \E k \in DOMAIN g : g[k] = p
    BY <1>5, <2>1, <2>2
  <2>4. \A k \in DOMAIN g : g[k] \in P \cup {n}
    BY <1>5
  <2> QED
    BY <2>3, <2>4 DEF Range
<1>7. \A k, l \in DOMAIN e : k < l => g[k] < g[l]
  <2> SUFFICES ASSUME NEW k \in DOMAIN e, NEW l \in DOMAIN e, k < l
               PROVE  g[k] < g[l]
    OBVIOUS
  <2>1. k \in DOMAIN d
    <3>1. l \in Nat /\ l <= L /\ k \in Nat
      BY <1>2, <1>3 DEF L
    <3> QED
      BY <1>4, <3>1 DEF L
  <2>2. CASE l \in DOMAIN d
    BY <1>1, <1>5, <2>1, <2>2
  <2>3. CASE l = L
    BY <1>1, <1>5, <2>1, <2>3
  <2> QED
    BY <1>4, <2>2, <2>3
<1>8. ASSUME NEW k \in DOMAIN e PROVE e[k] = s[g[k]].shard
  <2>1. CASE k \in DOMAIN d
    <3>1. e[k] = d[k] /\ g[k] = f[k]
      BY <1>3, <1>5, <2>1
    <3>2. d[k] = s[f[k]].shard
      BY <1>1, <2>1
    <3> QED
      BY <3>1, <3>2
  <2>2. CASE k = L
    BY <1>3, <1>5, <2>2
  <2> QED
    BY <1>4, <2>1, <2>2
<1>9. InOrder(e, s, P \cup {n})
  BY <1>5, <1>6, <1>7, <1>8 DEF InOrder
<1> QED
  BY <1>9 DEF e
-----------------------------------------------------------------------------
LEMMA SystemFields ==
  ASSUME NEW s
  PROVE  /\ Entity("System", "service", s).kind = "System"
         /\ Entity("System", "service", s).type = "service"
         /\ Entity("System", "service", s).name = s
  BY DEF Entity

\* What there is in res before the configuration is added.
LEMMA KindsCollected ==
  ASSUME Sources, pc # "done", NEW k \in DOMAIN res
  PROVE  \/ /\ res[k].kind = "Resource" /\ res[k].type # "redis-cluster"
            /\ \E n \in DOMAIN db : n < i /\ res[k].name = db[n].name
         \/ res[k].kind = "System" /\ res[k].type # "redis-cluster" /\ res[k].name \in seen_system
         \/ /\ res[k].kind = "Resource" /\ res[k].type = "redis-cluster"
            /\ res[k].name \in Clusters \ DOMAIN seen
<1>1. CASE IsShard(res[k])
  <2>1. PICK n \in Passed : res[k] = ShardOf(db[n])
    BY <1>1 DEF IsShard
  <2>2. n \in DOMAIN db /\ n < i
    BY DEF Passed, Stateful
  <2>3. res[k].kind = "Resource" /\ res[k].type # "redis-cluster" /\ res[k].name = db[n].name
    BY <2>1, ShardFields
  <2> QED
    BY <2>2, <2>3
<1>2. CASE IsNode(res[k])
  <2>1. PICK n \in DOMAIN db : n < i /\ res[k] = NodeOf(db[n])
    BY <1>2 DEF IsNode
  <2>2. res[k].kind = "Resource" /\ res[k].type # "redis-cluster" /\ res[k].name = db[n].name
    BY <2>1, NodeFields
  <2> QED
    BY <2>1, <2>2
<1>3. CASE IsSystem(res[k])
  <2>1. PICK s \in seen_system : res[k] = Entity("System", "service", s)
    BY <1>3 DEF IsSystem
  <2> QED
    BY <2>1, SystemFields
<1>4. CASE \E c \in Clusters \ DOMAIN seen : IsCluster(res[k], c)
  BY <1>4 DEF IsCluster, ClusterFrom
<1> QED
  BY <1>1, <1>2, <1>3, <1>4 DEF Sources

\* The new entities come after the old ones: a shard, and perhaps a System.
LEMMA StatefulSetGrows ==
  ASSUME NEW S, res \in Seq(S), ConvertStatefulSet, ~Unmergeable(Object)
  PROVE  LET new == SystemOf(Object) \notin {NoLabel} \cup seen_system
             p == Len(res) + 1
             q == Len(res) + 2
         IN  /\ Len(res) \in Nat /\ DOMAIN res = 1..Len(res)
             /\ \E U : res' \in Seq(U)
             /\ \A k \in DOMAIN res : k \in DOMAIN res' /\ res'[k] = res[k]
             /\ p \in DOMAIN res' /\ res'[p] = ShardOf(Object)
             /\ new => q \in DOMAIN res' /\ res'[q] = Entity("System", "service", SystemOf(Object))
             /\ \A k \in DOMAIN res' : k \in DOMAIN res \/ k = p \/ (k = q /\ new)
             /\ seen_system' = IF new THEN seen_system \cup {SystemOf(Object)} ELSE seen_system
<1> DEFINE new == SystemOf(Object) \notin {NoLabel} \cup seen_system
           x == ShardOf(Object)
           y == Entity("System", "service", SystemOf(Object))
           tail == [n \in 1..IF new THEN 1 ELSE 0 |-> y]
<1>1. res' = res \o <<x>> \o tail
  <2>1. (IF SystemOf(Object) \in {NoLabel} \cup seen_system THEN {} ELSE {SystemOf(Object)}) = {}
          <=> ~new
    OBVIOUS
  <2> QED
    BY <2>1 DEF ConvertStatefulSet, Panic
<1>2. seen_system' = IF new THEN seen_system \cup {SystemOf(Object)} ELSE seen_system
  BY DEF ConvertStatefulSet, Panic
<1> HIDE DEF x, y, new
<1>3. tail \in Seq({y}) /\ Len(tail) = IF new THEN 1 ELSE 0
  BY DEF new
<1>4. new => tail[1] = y
  OBVIOUS
<1>5. Len(res) \in Nat /\ DOMAIN res = 1..Len(res)
  OBVIOUS
<1>6. res \o <<x>> \in Seq(S \cup {x}) /\ Len(res \o <<x>>) = Len(res) + 1
  OBVIOUS
<1>7. /\ \A k \in DOMAIN res : (res \o <<x>>)[k] = res[k]
      /\ (res \o <<x>>)[Len(res) + 1] = x
  BY <1>5
<1> DEFINE r == res \o <<x>>
<1>8. DOMAIN r = 1..Len(res) + 1
  BY <1>5, <1>6
<1> HIDE DEF tail, r
<1>9. /\ r \o tail \in Seq(S \cup {x} \cup {y})
      /\ DOMAIN (r \o tail) = 1..Len(r) + Len(tail)
      /\ \A k \in DOMAIN r : (r \o tail)[k] = r[k]
      /\ \A k \in DOMAIN tail : (r \o tail)[Len(r) + k] = tail[k]
  BY <1>3, <1>6, Extended DEF r
<1>10. res' = r \o tail /\ Len(r) = Len(res) + 1
  BY <1>1, <1>6 DEF r
<1>11. DOMAIN res' = 1..Len(res) + 1 + (IF new THEN 1 ELSE 0)
  BY <1>3, <1>9, <1>10
<1>12. \A k \in DOMAIN res : k \in DOMAIN res' /\ res'[k] = res[k]
  BY <1>5, <1>7, <1>8, <1>9, <1>10, <1>11 DEF r
<1>13. Len(res) + 1 \in DOMAIN res' /\ res'[Len(res) + 1] = x
  BY <1>5, <1>7, <1>8, <1>9, <1>10, <1>11 DEF r
<1>14. new => Len(res) + 2 \in DOMAIN res' /\ res'[Len(res) + 2] = y
  <2> SUFFICES ASSUME new PROVE Len(res) + 2 \in DOMAIN res' /\ res'[Len(res) + 2] = y
    OBVIOUS
  <2>1. 1 \in DOMAIN tail /\ (Len(res) + 1) + 1 = Len(res) + 2
    BY <1>3, <1>5
  <2>2. res'[Len(res) + 2] = tail[1]
    BY <1>9, <1>10, <2>1
  <2> QED
    BY <1>4, <1>5, <1>11, <2>2
<1>15. \A k \in DOMAIN res' : k \in DOMAIN res \/ k = Len(res) + 1 \/ (k = Len(res) + 2 /\ new)
  BY <1>5, <1>11
<1>16. \E U : res' \in Seq(U)
  BY <1>9, <1>10
<1> QED
  BY <1>2, <1>5, <1>12, <1>13, <1>14, <1>15, <1>16 DEF x, y, new

LEMMA PassedOne ==
  ASSUME PanicInv, ConvertStatefulSet, ~Unmergeable(Object)
  PROVE  /\ request = "entities" /\ pc = "objects" /\ SeenPassed /\ DOMAIN seen = Clusters
         /\ i \in DOMAIN db /\ i \in Nat /\ Object = db[i] /\ db[i].kind = "StatefulSet"
         /\ Object \in ObjectsToConvert /\ ClusterName(Object) \in Names
         /\ UNCHANGED <<request, db, pc>> /\ i' = i + 1 /\ seen' = Merge(Object)
         /\ Passed' = Passed \cup {i} /\ i \notin Passed /\ Passed \in SUBSET Nat
         /\ \A n \in Passed : n < i /\ n \in DOMAIN db
         /\ Clusters' = Clusters \cup {ClusterName(Object)}
<1>s. Shape
  BY DEF PanicInv
<1>1. /\ request = "entities" /\ pc = "objects" /\ i \in DOMAIN db /\ i \in Nat
      /\ Object = db[i] /\ db[i].kind = "StatefulSet"
  BY <1>s DEF ConvertStatefulSet, At, Shape, Object
<1>2. SeenPassed /\ DOMAIN seen = Clusters
  BY <1>1 DEF PanicInv, SeenPassed, Clusters
<1>3. Object \in ObjectsToConvert
  BY <1>s, <1>1 DEF Shape
<1>4. ClusterName(Object) \in Names
  BY <1>3, Converted
<1>5. UNCHANGED <<request, db, pc>> /\ i' = i + 1 /\ seen' = Merge(Object)
  BY DEF ConvertStatefulSet, Proceed, Panic
<1>6. /\ Passed' = Passed \cup {i} /\ i \notin Passed /\ Passed \in SUBSET Nat
      /\ \A n \in Passed : n < i /\ n \in DOMAIN db
  BY <1>1, <1>5, <1>s DEF Passed, Stateful, Shape
<1>7. Clusters' = Clusters \cup {ClusterName(Object)}
  BY <1>1, <1>5, <1>6 DEF Clusters
<1> QED
  BY <1>1, <1>2, <1>3, <1>4, <1>5, <1>6, <1>7

\* One more StatefulSet is merged into its cluster, behind those before it.
LEMMA ClustersMerge ==
  ASSUME PanicInv, ConvertStatefulSet, ~Unmergeable(Object),
         \A c \in DOMAIN seen : IsCluster(seen[c], c),
         NEW c \in DOMAIN seen'
  PROVE  ClusterFrom(db, Passed \cup {i}, seen'[c], c)
<1> DEFINE o == Object
           own == ClusterName(o)
           P == Passed \cup {i}
<1>1. /\ SeenPassed /\ DOMAIN seen = Clusters /\ seen' = Merge(o)
      /\ o = db[i] /\ o \in ObjectsToConvert /\ own \in Names /\ i \in Nat /\ i \notin Passed
      /\ Passed \in SUBSET Nat /\ \A n \in Passed : n < i
  BY PassedOne
<1>2. \A d \in DOMAIN seen : ClusterFrom(db, Passed, seen[d], d)
  BY DEF IsCluster
<1>3. o.shard \in Names \cup {NoLabel}
  BY <1>1 DEF ObjectsToConvert
<1>4. Labelled(db, P, own) = Labelled(db, Passed, own) \cup (IF o.shard = NoLabel THEN {} ELSE {i})
  BY <1>1 DEF Labelled
<1>5. Labelled(db, Passed, own) \in SUBSET Nat /\ \A n \in Labelled(db, Passed, own) : n < i
  BY <1>1 DEF Labelled
<1>6. CASE c # own
  <2>1. c \in DOMAIN seen /\ seen'[c] = seen[c]
    BY <1>1, <1>6 DEF Merge
  <2>2. Labelled(db, P, c) = Labelled(db, Passed, c)
    BY <1>1, <1>6 DEF Labelled
  <2> QED
    BY <1>2, <2>1, <2>2 DEF ClusterFrom
<1>7. CASE c = own /\ own \in DOMAIN seen
  <2> DEFINE d == seen[own].dependsOn
  <2>1. o.shard # NoLabel /\ o.shard \in Names
    BY <1>3, <1>7 DEF Unmergeable
  <2>2. "dependsOn" \in DOMAIN seen[own] /\ d \in Seq(Names)
    BY <1>1, <1>7 DEF SeenPassed
  <2>3. seen'[own] = [seen[own] EXCEPT !.dependsOn = Append(@, o.shard)]
    BY <1>1, <1>7 DEF Merge
  <2>4. ClusterFrom(db, Passed, seen[own], own)
    BY <1>2, <1>7
  <2>5. /\ seen'[own].kind = seen[own].kind /\ seen'[own].type = seen[own].type
        /\ seen'[own].name = seen[own].name /\ seen'[own].system = seen[own].system
        /\ seen'[own].dependencyOf = seen[own].dependencyOf
    BY <2>3
  <2>6. seen'[own].dependsOn = Append(d, o.shard)
    BY <2>2, <2>3
  <2>7. InOrder(d, db, Labelled(db, Passed, own))
    BY <2>4 DEF ClusterFrom
  <2>8. InOrder(Append(d, db[i].shard), db, Labelled(db, Passed, own) \cup {i})
    <3> HIDE DEF d
    <3>1. db[i].shard \in Names
      BY <1>1, <2>1
    <3> QED
      BY <1>1, <1>5, <2>2, <2>7, <3>1, OneMoreInOrder
  <2>9. InOrder(seen'[own].dependsOn, db, Labelled(db, P, own))
    BY <1>1, <1>4, <2>1, <2>6, <2>8
  <2> QED
    BY <1>7, <2>4, <2>5, <2>9 DEF ClusterFrom
<1>8. CASE c = own /\ own \notin DOMAIN seen
  <2>1. seen'[own] = ClusterOf(o)
    BY <1>1, <1>8 DEF Merge
  <2>2. Labelled(db, Passed, own) = {}
    BY <1>1, <1>8 DEF Labelled, Clusters
  <2>3. InOrder(seen'[own].dependsOn, db, Labelled(db, P, own))
    <3>1. CASE o.shard = NoLabel
      <4>1. Labelled(db, P, own) = {} /\ seen'[own].dependsOn = <<>>
        BY <1>4, <2>1, <2>2, <3>1, ClusterFields
      <4> QED
        BY <4>1, NothingInOrder
    <3>2. CASE o.shard # NoLabel
      <4>1. <<>> \in Seq(Names) /\ {} \in SUBSET Nat /\ db[i].shard \in Names
        BY <1>1, <1>3, <3>2
      <4>2. InOrder(Append(<<>>, db[i].shard), db, {} \cup {i})
        BY <1>1, <4>1, NothingInOrder, OneMoreInOrder
      <4>3. Append(<<>>, db[i].shard) = <<o.shard>> /\ Labelled(db, P, own) = {} \cup {i}
        BY <1>1, <1>4, <2>2, <3>2
      <4>4. seen'[own].dependsOn = <<o.shard>>
        BY <2>1, <3>2, ClusterFields
      <4> QED
        BY <4>2, <4>3, <4>4
    <3> QED
      BY <3>1, <3>2
  <2>4. /\ seen'[own].kind = "Resource" /\ seen'[own].type = "redis-cluster"
        /\ seen'[own].name = own /\ seen'[own].dependencyOf = NoLabel
        /\ seen'[own].system = IF o.cluster # NoLabel THEN SystemOfCluster(o.cluster) ELSE NoLabel
    BY <2>1, ClusterFields
  <2>5. seen'[own].system # NoLabel =>
          seen'[own].system = SystemOfCluster(own) /\ \E n \in P : db[n].cluster = own
    BY <1>1, <2>4 DEF ClusterName
  <2> QED
    BY <1>8, <2>3, <2>4, <2>5 DEF ClusterFrom
<1> QED
  BY <1>6, <1>7, <1>8

LEMMA ApartOrdered ==
  ASSUME DOMAIN res' \subseteq Nat,
         \A k, l \in DOMAIN res' : k < l => ApartFrom(res'[k], res'[l])
  PROVE  Apart'
<1>1. \A e, f : ApartFrom(e, f) <=> ApartFrom(f, e)
  BY DEF ApartFrom
<1>2. ASSUME NEW k \in DOMAIN res', NEW l \in DOMAIN res', k # l
      PROVE  ApartFrom(res'[k], res'[l])
  <2>1. k < l \/ l < k
    BY <1>2
  <2> QED
    BY <1>1, <2>1
<1> QED
  BY <1>2 DEF Apart, ApartFrom

LEMMA CollectedStatefulSet ==
  ASSUME PanicInv, CollectedInv, ConvertStatefulSet, ~Unmergeable(Object)
  PROVE  CollectedInv'
<1> DEFINE o == Object
           own == ClusterName(o)
           new == SystemOf(o) \notin {NoLabel} \cup seen_system
           p == Len(res) + 1
           q == Len(res) + 2
           system == Entity("System", "service", SystemOf(o))
<1>1. /\ request = "entities" /\ pc = "objects" /\ SeenPassed /\ DOMAIN seen = Clusters
      /\ i \in DOMAIN db /\ i \in Nat /\ o = db[i] /\ db[i].kind = "StatefulSet"
      /\ UNCHANGED <<request, db, pc>> /\ i' = i + 1 /\ seen' = Merge(o)
      /\ Passed' = Passed \cup {i} /\ i \notin Passed
      /\ \A n \in Passed : n < i /\ n \in DOMAIN db
      /\ Clusters' = Clusters \cup {own}
  BY PassedOne
<1>2. Sources /\ Collected /\ ClustersOnce /\ (NamesApart => Apart)
  BY <1>1 DEF CollectedInv
<1>3. PICK S : res \in Seq(S)
  BY <1>1 DEF CollectedInv
<1>4. /\ Len(res) \in Nat /\ DOMAIN res = 1..Len(res)
      /\ \E U : res' \in Seq(U)
      /\ \A k \in DOMAIN res : k \in DOMAIN res' /\ res'[k] = res[k]
      /\ p \in DOMAIN res' /\ res'[p] = ShardOf(o)
      /\ new => q \in DOMAIN res' /\ res'[q] = system
      /\ \A k \in DOMAIN res' : k \in DOMAIN res \/ k = p \/ (k = q /\ new)
      /\ seen_system' = IF new THEN seen_system \cup {SystemOf(o)} ELSE seen_system
  BY <1>3, StatefulSetGrows
<1>5. DOMAIN seen' = Clusters'
  BY <1>1 DEF Merge
<1>6. ASSUME NEW k \in DOMAIN res
      PROVE  /\ res[k].type # "redis-cluster"
             /\ \/ /\ res[k].kind = "Resource"
                   /\ \E n \in DOMAIN db : n < i /\ res[k].name = db[n].name
                \/ res[k].kind = "System" /\ res[k].name \in seen_system
  BY <1>1, <1>2, KindsCollected
<1>7. /\ ShardOf(o).kind = "Resource" /\ ShardOf(o).name = o.name
      /\ ShardOf(o).type # "redis-cluster"
  BY ShardFields
<1>8. system.kind = "System" /\ system.type # "redis-cluster" /\ system.name = SystemOf(o)
  BY SystemFields
<1>a. Sources'
  <2> SUFFICES ASSUME NEW k \in DOMAIN res'
               PROVE  \/ \E n \in Passed' : res'[k] = ShardOf(db'[n])
                      \/ \E n \in DOMAIN db' : /\ n < i' /\ db'[n].kind = "Pod"
                                              /\ HasLabels(db'[n]) /\ res'[k] = NodeOf(db'[n])
                      \/ \E s \in seen_system' : res'[k] = Entity("System", "service", s)
    BY DEF Sources, IsShard, IsNode, IsSystem
  <2>1. CASE k \in DOMAIN res
    <3>1. IsShard(res[k]) \/ IsNode(res[k]) \/ IsSystem(res[k])
      BY <1>1, <1>2, <2>1 DEF Sources
    <3>2. res'[k] = res[k]
      BY <1>4, <2>1
    <3>3. CASE IsShard(res[k])
      BY <1>1, <3>2, <3>3 DEF IsShard
    <3>4. CASE IsNode(res[k])
      <4>1. PICK n \in DOMAIN db : /\ n < i /\ db[n].kind = "Pod" /\ HasLabels(db[n])
                                  /\ res[k] = NodeOf(db[n])
        BY <3>4 DEF IsNode
      <4>2. n < i'
        BY <1>1, <4>1 DEF PanicInv, Shape
      <4> QED
        BY <1>1, <3>2, <4>1, <4>2
    <3>5. CASE IsSystem(res[k])
      BY <1>4, <3>2, <3>5 DEF IsSystem
    <3> QED
      BY <3>1, <3>3, <3>4, <3>5
  <2>2. CASE k = p
    BY <1>1, <1>4, <2>2
  <2>3. CASE k = q /\ new
    BY <1>4, <2>3
  <2> QED
    BY <1>4, <2>1, <2>2, <2>3
<1>b. Collected'
  <2>1. \A n \in Passed' : \E k \in DOMAIN res' : res'[k] = ShardOf(db'[n])
    <3>1. \A n \in Passed : \E k \in DOMAIN res : res[k] = ShardOf(db[n])
      BY <1>2 DEF Collected
    <3> QED
      BY <1>1, <1>4, <3>1
  <2>2. \A n \in Passed' : SystemOf(db'[n]) \in {NoLabel} \cup seen_system'
    <3>1. \A n \in Passed : SystemOf(db[n]) \in {NoLabel} \cup seen_system
      BY <1>2 DEF Collected
    <3>2. SystemOf(o) \in {NoLabel} \cup seen_system'
      BY <1>4
    <3> QED
      BY <1>1, <1>4, <3>1, <3>2
  <2>3. \A s \in seen_system' : \E k \in DOMAIN res' : res'[k] = Entity("System", "service", s)
    <3>1. \A s \in seen_system : \E k \in DOMAIN res : res[k] = Entity("System", "service", s)
      BY <1>2 DEF Collected
    <3> QED
      BY <1>4, <3>1
  <2>4. \A c \in DOMAIN seen' : ClusterFrom(db', Passed', seen'[c], c)
    <3> SUFFICES ASSUME NEW c \in DOMAIN seen'
                 PROVE  ClusterFrom(db, Passed \cup {i}, seen'[c], c)
      BY <1>1
    <3>1. \A d \in DOMAIN seen : IsCluster(seen[d], d)
      BY <1>2 DEF Collected
    <3> QED
      BY <3>1, ClustersMerge
  <2>5. Clusters' \ DOMAIN seen' = {}
    BY <1>5
  <2> QED
    BY <2>1, <2>2, <2>3, <2>4, <2>5 DEF Collected, IsCluster
<1>c. ClustersOnce'
  <2>1. \A k \in DOMAIN res' : res'[k].type # "redis-cluster"
    BY <1>4, <1>6, <1>7, <1>8
  <2> QED
    BY <2>1 DEF ClustersOnce
<1>d. NamesApart' => Apart'
  <2> SUFFICES ASSUME NamesApart, NEW k \in DOMAIN res', NEW l \in DOMAIN res', k < l
               PROVE  ApartFrom(res'[k], res'[l])
    <3>1. DOMAIN res' \subseteq Nat
      BY <1>4
    <3>2. NamesApart' => NamesApart
      BY <1>1 DEF NamesApart
    <3> QED
      BY <3>1, <3>2, ApartOrdered
  <2>1. CASE l \in DOMAIN res
    <3>1. k \in DOMAIN res
      BY <1>4, <2>1
    <3> QED
      BY <1>2, <1>4, <2>1, <3>1 DEF Apart
  <2>2. CASE k \in DOMAIN res /\ l = p
    <3>1. \A n \in DOMAIN db : n < i => db[n].name # o.name
      BY <1>1 DEF NamesApart
    <3>2. res'[l] = ShardOf(o) /\ res'[k] = res[k]
      BY <1>4, <2>2
    <3> QED
      BY <1>6, <1>7, <2>2, <3>1, <3>2 DEF ApartFrom
  <2>3. CASE k \in DOMAIN res /\ l = q /\ new
    <3>1. res'[l] = system /\ res'[k] = res[k]
      BY <1>4, <2>3
    <3> QED
      BY <1>6, <1>8, <2>3, <3>1 DEF ApartFrom
  <2>4. CASE k = p /\ l = q /\ new
    <3>1. res'[l] = system /\ res'[k] = ShardOf(o)
      BY <1>4, <2>4
    <3> QED
      BY <1>7, <1>8, <3>1 DEF ApartFrom
  <2>5. \/ l \in DOMAIN res
        \/ l = p /\ k \in DOMAIN res
        \/ l = q /\ new /\ (k \in DOMAIN res \/ k = p)
    BY <1>4
  <2> QED
    BY <2>1, <2>2, <2>3, <2>4, <2>5
<1> QED
  BY <1>1, <1>4, <1>5, <1>a, <1>b, <1>c, <1>d DEF CollectedInv

\* A Resource or nothing is made of a Pod; nothing of any other object.
LEMMA CollectedOther ==
  ASSUME PanicInv, CollectedInv, ConvertPod \/ SkipObject
  PROVE  CollectedInv'
<1>s. Shape
  BY DEF PanicInv
<1>1. /\ request = "entities" /\ pc = "objects" /\ SeenPassed /\ DOMAIN seen = Clusters
      /\ i \in DOMAIN db /\ i \in Nat /\ Object = db[i] /\ db[i].kind # "StatefulSet"
      /\ UNCHANGED <<request, db, pc, seen, seen_system>> /\ i' = i + 1
      /\ Passed' = Passed /\ Clusters' = Clusters
  <2>1. /\ request = "entities" /\ pc = "objects" /\ i \in DOMAIN db /\ i \in Nat
        /\ Object = db[i] /\ db[i].kind # "StatefulSet"
        /\ UNCHANGED <<request, db, pc, seen, seen_system>> /\ i' = i + 1
    BY <1>s DEF ConvertPod, SkipObject, At, Proceed, Object, Shape
  <2>2. SeenPassed /\ DOMAIN seen = Clusters
    BY <2>1 DEF PanicInv, SeenPassed, Clusters
  <2>3. Passed' = Passed
    BY <2>1, <1>s DEF Passed, Stateful, Shape
  <2> QED
    BY <2>1, <2>2, <2>3 DEF Clusters
<1>2. Sources /\ Collected /\ ClustersOnce /\ (NamesApart => Apart)
  BY <1>1 DEF CollectedInv
<1>3. PICK S : res \in Seq(S)
  BY <1>1 DEF CollectedInv
<1> DEFINE p == Len(res) + 1
<1>4. Len(res) \in Nat /\ DOMAIN res = 1..Len(res)
  BY <1>3
<1> DEFINE node == NodeOf(Object)
           added == res' # res
<1>5. /\ \E U : res' \in Seq(U)
      /\ \A k \in DOMAIN res : k \in DOMAIN res' /\ res'[k] = res[k]
      /\ \A k \in DOMAIN res' :
           \/ k \in DOMAIN res
           \/ /\ k = p /\ res'[k] = node /\ Object.kind = "Pod" /\ HasLabels(Object)
  <2>1. CASE res' = res
    BY <1>3, <2>1
  <2>2. CASE res' = Append(res, node) /\ Object.kind = "Pod" /\ HasLabels(Object)
    <3> HIDE DEF node
    <3>1. res' \in Seq(S \cup {node}) /\ DOMAIN res' = 1..p
      BY <1>3, <2>2
    <3>2. \A k \in DOMAIN res : res'[k] = res[k]
      BY <1>3, <1>4, <2>2
    <3>3. res'[p] = node
      BY <1>3, <1>4, <2>2
    <3> QED
      BY <1>4, <2>2, <3>1, <3>2, <3>3
  <2> QED
    BY <2>1, <2>2 DEF ConvertPod, SkipObject
<1>6. ASSUME NEW k \in DOMAIN res
      PROVE  /\ res[k].type # "redis-cluster"
             /\ \/ /\ res[k].kind = "Resource"
                   /\ \E n \in DOMAIN db : n < i /\ res[k].name = db[n].name
                \/ res[k].kind = "System" /\ res[k].name \in seen_system
  BY <1>1, <1>2, KindsCollected
<1>7. node.kind = "Resource" /\ node.name = Object.name /\ node.type = "redis-cluster-node"
  BY NodeFields
<1> HIDE DEF node
<1>a. Sources'
  <2> SUFFICES ASSUME NEW k \in DOMAIN res'
               PROVE  \/ \E n \in Passed : res'[k] = ShardOf(db[n])
                      \/ \E n \in DOMAIN db : /\ n < i + 1 /\ db[n].kind = "Pod"
                                             /\ HasLabels(db[n]) /\ res'[k] = NodeOf(db[n])
                      \/ \E s \in seen_system : res'[k] = Entity("System", "service", s)
    BY <1>1 DEF Sources, IsShard, IsNode, IsSystem
  <2>1. CASE k \in DOMAIN res
    <3>1. IsShard(res[k]) \/ IsNode(res[k]) \/ IsSystem(res[k])
      BY <1>1, <1>2, <2>1 DEF Sources
    <3>2. res'[k] = res[k]
      BY <1>5, <2>1
    <3>3. \A n \in DOMAIN db : n < i => n < i + 1
      BY <1>1, <1>s DEF Shape
    <3> QED
      BY <3>1, <3>2, <3>3 DEF IsShard, IsNode, IsSystem
  <2>2. CASE k \notin DOMAIN res
    <3>1. res'[k] = NodeOf(db[i]) /\ db[i].kind = "Pod" /\ HasLabels(db[i])
      BY <1>1, <1>5, <2>2 DEF node
    <3> QED
      BY <1>1, <3>1
  <2> QED
    BY <2>1, <2>2
<1>b. Collected'
  <2>1. \A n \in Passed : \E k \in DOMAIN res' : res'[k] = ShardOf(db[n])
    <3>1. \A n \in Passed : \E k \in DOMAIN res : res[k] = ShardOf(db[n])
      BY <1>2 DEF Collected
    <3> QED
      BY <1>5, <3>1
  <2>2. \A s \in seen_system : \E k \in DOMAIN res' : res'[k] = Entity("System", "service", s)
    <3>1. \A s \in seen_system : \E k \in DOMAIN res : res[k] = Entity("System", "service", s)
      BY <1>2 DEF Collected
    <3> QED
      BY <1>5, <3>1
  <2>3. Clusters \ DOMAIN seen = {}
    BY <1>1
  <2> QED
    BY <1>1, <1>2, <2>1, <2>2, <2>3 DEF Collected, IsCluster
<1>c. ClustersOnce'
  <2>1. \A k \in DOMAIN res' : res'[k].type # "redis-cluster"
    BY <1>5, <1>6, <1>7
  <2> QED
    BY <2>1 DEF ClustersOnce
<1>d. NamesApart' => Apart'
  <2> SUFFICES ASSUME NamesApart, NEW k \in DOMAIN res', NEW l \in DOMAIN res', k < l
               PROVE  ApartFrom(res'[k], res'[l])
    <3>1. DOMAIN res' \subseteq Nat
      BY <1>5
    <3>2. NamesApart' => NamesApart
      BY <1>1 DEF NamesApart
    <3> QED
      BY <3>1, <3>2, ApartOrdered
  <2>1. k \in DOMAIN res
    BY <1>4, <1>5
  <2>2. CASE l \in DOMAIN res
    BY <1>2, <1>5, <2>1, <2>2 DEF Apart
  <2>3. CASE l \notin DOMAIN res
    <3>1. \A n \in DOMAIN db : n < i => db[n].name # db[i].name
      BY <1>1 DEF NamesApart
    <3>2. res'[l] = node /\ res'[k] = res[k]
      BY <1>5, <2>1, <2>3
    <3> QED
      BY <1>1, <1>6, <1>7, <2>1, <3>1, <3>2 DEF ApartFrom
  <2> QED
    BY <2>2, <2>3
<1> QED
  BY <1>1, <1>5, <1>a, <1>b, <1>c, <1>d DEF CollectedInv

\* A cluster is moved from seen to res.
LEMMA CollectedCluster ==
  ASSUME PanicInv, CollectedInv, NEW c \in DOMAIN seen, AddCluster(c)
  PROVE  CollectedInv'
<1>1. /\ request = "entities" /\ pc = "clusters"
      /\ UNCHANGED <<request, db, i, seen_system, pc>> /\ res' = Append(res, seen[c])
  BY DEF AddCluster, PanicInv, Shape
<1>2. seen' = [d \in DOMAIN seen \ {c} |-> seen[d]]
  BY DEF AddCluster, Restrict
<1>3. Passed' = Passed /\ Clusters' = Clusters
  BY <1>1 DEF Passed, Stateful, Clusters
<1>4. /\ Sources /\ Collected /\ ClustersOnce /\ (NamesApart => Apart)
      /\ DOMAIN seen \subseteq Clusters /\ i = Len(db) + 1
  BY <1>1 DEF CollectedInv
<1>5. PICK S : res \in Seq(S)
  BY <1>1 DEF CollectedInv
<1> DEFINE p == Len(res) + 1
           e == seen[c]
<1>6. Len(res) \in Nat /\ DOMAIN res = 1..Len(res)
  BY <1>5
<1>7. IsCluster(e, c) /\ e.kind = "Resource" /\ e.type = "redis-cluster" /\ e.name = c
  BY <1>4 DEF Collected, IsCluster, ClusterFrom
<1> HIDE DEF e
<1>8. /\ \E U : res' \in Seq(U)
      /\ \A k \in DOMAIN res : k \in DOMAIN res' /\ res'[k] = res[k]
      /\ p \in DOMAIN res' /\ res'[p] = e
      /\ \A k \in DOMAIN res' : k \in DOMAIN res \/ k = p
  <2>1. res' = Append(res, e)
    BY <1>1 DEF e
  <2>2. res' \in Seq(S \cup {e}) /\ DOMAIN res' = 1..p
    BY <1>5, <2>1
  <2>3. \A k \in DOMAIN res : res'[k] = res[k]
    BY <1>5, <1>6, <2>1
  <2>4. res'[p] = e
    BY <1>5, <1>6, <2>1
  <2> QED
    BY <1>6, <2>2, <2>3, <2>4
<1>9. DOMAIN seen' = DOMAIN seen \ {c} /\ \A d \in DOMAIN seen' : seen'[d] = seen[d]
  BY <1>2
<1>10. c \in Clusters \ DOMAIN seen'
  BY <1>4, <1>9
<1>a. Sources'
  <2> SUFFICES ASSUME NEW k \in DOMAIN res'
               PROVE  \/ IsShard(res'[k]) \/ IsNode(res'[k]) \/ IsSystem(res'[k])
                      \/ \E d \in Clusters \ DOMAIN seen' : IsCluster(res'[k], d)
    BY <1>1, <1>3 DEF Sources, IsShard, IsNode, IsSystem, IsCluster
  <2>1. CASE k \in DOMAIN res
    <3>1. \/ IsShard(res[k]) \/ IsNode(res[k]) \/ IsSystem(res[k])
          \/ \E d \in Clusters \ DOMAIN seen : IsCluster(res[k], d)
      BY <1>1, <1>4, <2>1 DEF Sources
    <3> QED
      BY <1>8, <1>9, <2>1, <3>1
  <2>2. CASE k = p
    BY <1>7, <1>8, <1>10, <2>2
  <2> QED
    BY <1>8, <2>1, <2>2
<1>b. Collected'
  <2>1. \A n \in Passed : \E k \in DOMAIN res' : res'[k] = ShardOf(db[n])
    <3>1. \A n \in Passed : \E k \in DOMAIN res : res[k] = ShardOf(db[n])
      BY <1>4 DEF Collected
    <3> QED
      BY <1>8, <3>1
  <2>2. \A s \in seen_system : \E k \in DOMAIN res' : res'[k] = Entity("System", "service", s)
    <3>1. \A s \in seen_system : \E k \in DOMAIN res : res[k] = Entity("System", "service", s)
      BY <1>4 DEF Collected
    <3> QED
      BY <1>8, <3>1
  <2>3. \A d \in DOMAIN seen' : IsCluster(seen'[d], d)
    BY <1>4, <1>9 DEF Collected
  <2>4. \A d \in Clusters \ DOMAIN seen' : \E k \in DOMAIN res' : IsCluster(res'[k], d)
    <3>1. \A d \in Clusters \ DOMAIN seen : \E k \in DOMAIN res : IsCluster(res[k], d)
      BY <1>4 DEF Collected
    <3> QED
      BY <1>7, <1>8, <1>9, <3>1
  <2> QED
    BY <1>1, <1>3, <1>4, <2>1, <2>2, <2>3, <2>4 DEF Collected, IsCluster
<1>11. \A k \in DOMAIN res :
         \/ /\ res[k].kind = "Resource" /\ res[k].type # "redis-cluster"
            /\ \E n \in DOMAIN db : n < i /\ res[k].name = db[n].name
         \/ res[k].kind = "System" /\ res[k].type # "redis-cluster"
         \/ res[k].type = "redis-cluster" /\ res[k].name # c
  BY <1>1, <1>4, KindsCollected
<1>c. ClustersOnce'
  <2> SUFFICES ASSUME NEW k \in DOMAIN res', NEW l \in DOMAIN res',
                      res'[k].type = "redis-cluster", res'[l].type = "redis-cluster",
                      res'[k].name = res'[l].name
               PROVE  k = l
    BY DEF ClustersOnce
  <2>1. CASE k \in DOMAIN res /\ l \in DOMAIN res
    BY <1>4, <1>8, <2>1 DEF ClustersOnce
  <2>2. CASE k = p /\ l = p
    BY <2>2
  <2>3. \A m \in DOMAIN res : res[m].type = "redis-cluster" => res[m].name # e.name
    BY <1>7, <1>11
  <2>4. CASE k = p /\ l \in DOMAIN res
    BY <1>8, <2>3, <2>4
  <2>5. CASE l = p /\ k \in DOMAIN res
    BY <1>8, <2>3, <2>5
  <2> QED
    BY <1>8, <2>1, <2>2, <2>4, <2>5
<1>d. NamesApart' => Apart'
  <2> SUFFICES ASSUME NamesApart, NEW k \in DOMAIN res', NEW l \in DOMAIN res', k < l
               PROVE  ApartFrom(res'[k], res'[l])
    <3>1. DOMAIN res' \subseteq Nat
      BY <1>8
    <3>2. NamesApart' => NamesApart
      BY <1>1 DEF NamesApart
    <3> QED
      BY <3>1, <3>2, ApartOrdered
  <2>1. k \in DOMAIN res
    BY <1>6, <1>8
  <2>2. CASE l \in DOMAIN res
    BY <1>4, <1>8, <2>1, <2>2 DEF Apart
  <2>3. CASE l = p
    <3>1. PICK m \in Passed : c = ClusterName(db[m])
      BY <1>4 DEF Clusters
    <3>2. m \in DOMAIN db /\ db[m].kind = "StatefulSet"
      BY DEF Passed, Stateful
    <3>3. c = db[m].cluster
      BY <3>1, <3>2 DEF NamesApart, ClusterName
    <3>4. \A n \in DOMAIN db : n # m => db[n].name # c
      BY <3>2, <3>3 DEF NamesApart
    <3>5. db[m].name # c
      BY <1>1, <3>2, <3>3 DEF NamesApart
    <3>6. res'[l] = e /\ res'[k] = res[k]
      BY <1>8, <2>1, <2>3
    <3> QED
      BY <1>7, <1>11, <2>1, <3>4, <3>5, <3>6 DEF ApartFrom
  <2> QED
    BY <1>8, <2>2, <2>3
<1> QED
  BY <1>1, <1>3, <1>4, <1>8, <1>9, <1>a, <1>b, <1>c, <1>d DEF CollectedInv

LEMMA CollectedConfigured ==
  ASSUME PanicInv, CollectedInv, AddConfigured
  PROVE  CollectedInv'
<1>1. /\ request = "entities" /\ pc = "clusters" /\ DOMAIN seen = {} /\ pc' = "done"
      /\ UNCHANGED <<request, db, i, seen, seen_system>> /\ res' = res \o ConfiguredEntities
  BY DEF AddConfigured, PanicInv, Shape
<1>2. Passed' = Passed /\ Clusters' = Clusters
  BY <1>1 DEF Passed, Stateful, Clusters
<1>3. /\ Sources /\ Collected /\ ClustersOnce /\ (NamesApart => Apart)
      /\ DOMAIN seen \subseteq Clusters /\ i = Len(db) + 1
  BY <1>1 DEF CollectedInv
<1>4. PICK S : res \in Seq(S)
  BY <1>1 DEF CollectedInv
<1> DEFINE t == ConfiguredEntities
<1>5. /\ \E T : t \in Seq(T)
      /\ \A k \in DOMAIN t : IsConfigured(t[k])
  <2>1. DOMAIN Configured = 1..Len(Configured) /\ Len(Configured) \in Nat
    BY EntitiesAssumption
  <2>2. t \in Seq({FromStaticConfig(Configured[n]) : n \in DOMAIN Configured})
    BY <2>1 DEF ConfiguredEntities
  <2>3. \A k \in DOMAIN t : IsConfigured(t[k])
    BY DEF ConfiguredEntities, IsConfigured
  <2> QED
    BY <2>2, <2>3
<1> HIDE DEF t
<1>6. /\ \E U : res' \in Seq(U)
      /\ DOMAIN res' \subseteq Nat
      /\ \A k \in DOMAIN res : k \in DOMAIN res' /\ res'[k] = res[k]
      /\ \A k \in DOMAIN res' : k \in DOMAIN res \/ IsConfigured(res'[k])
  <2>1. PICK T : t \in Seq(T)
    BY <1>5
  <2>2. /\ res \o t \in Seq(S \cup T)
        /\ DOMAIN (res \o t) = 1..Len(res) + Len(t)
        /\ \A k \in DOMAIN res : k \in DOMAIN (res \o t) /\ (res \o t)[k] = res[k]
        /\ \A k \in DOMAIN t : (res \o t)[Len(res) + k] = t[k]
        /\ \A k \in DOMAIN (res \o t) : k \notin DOMAIN res => k - Len(res) \in DOMAIN t
    BY <1>4, <2>1, Extended
  <2>3. res' = res \o t /\ Len(res) \in Nat
    BY <1>1, <1>4 DEF t
  <2>4. ASSUME NEW k \in DOMAIN res', k \notin DOMAIN res PROVE IsConfigured(res'[k])
    <3>1. k - Len(res) \in DOMAIN t /\ k \in Nat
      BY <2>2, <2>3, <2>4
    <3>2. Len(res) + (k - Len(res)) = k
      BY <2>3, <3>1
    <3>3. res'[k] = t[k - Len(res)]
      BY <2>2, <2>3, <3>1, <3>2
    <3> QED
      BY <1>5, <3>1, <3>3
  <2> QED
    BY <2>2, <2>3, <2>4
<1>7. ASSUME NEW e, IsConfigured(e)
      PROVE  e.type = "configured" /\ e.kind \in {"Group", "User", "Domain"}
  <2>1. PICK n \in DOMAIN Configured : e = FromStaticConfig(Configured[n])
    BY <1>7 DEF IsConfigured
  <2>2. Configured[n].kind \in {"Group", "User", "Domain"}
    <3>1. Configured[n] \in [kind : {"Group", "User", "Domain"}, name : Names,
                            anns : SUBSET Annotations]
      BY EntitiesAssumption, ElementOfSeq, LenProperties
    <3> QED
      BY <3>1
  <2> QED
    BY <2>1, <2>2, ConfiguredFields
<1>a. Sources'
  <2> SUFFICES ASSUME NEW k \in DOMAIN res'
               PROVE  \/ IsShard(res'[k]) \/ IsNode(res'[k]) \/ IsSystem(res'[k])
                      \/ \E d \in Clusters \ DOMAIN seen : IsCluster(res'[k], d)
                      \/ IsConfigured(res'[k])
    BY <1>1, <1>2 DEF Sources, IsShard, IsNode, IsSystem, IsCluster, IsConfigured
  <2>1. CASE k \in DOMAIN res
    BY <1>1, <1>3, <1>6, <2>1 DEF Sources
  <2> QED
    BY <1>6, <2>1
<1>b. Collected'
  <2>1. \A n \in Passed : \E k \in DOMAIN res' : res'[k] = ShardOf(db[n])
    <3>1. \A n \in Passed : \E k \in DOMAIN res : res[k] = ShardOf(db[n])
      BY <1>3 DEF Collected
    <3> QED
      BY <1>6, <3>1
  <2>2. \A s \in seen_system : \E k \in DOMAIN res' : res'[k] = Entity("System", "service", s)
    <3>1. \A s \in seen_system : \E k \in DOMAIN res : res[k] = Entity("System", "service", s)
      BY <1>3 DEF Collected
    <3> QED
      BY <1>6, <3>1
  <2>3. \A d \in Clusters \ DOMAIN seen : \E k \in DOMAIN res' : IsCluster(res'[k], d)
    <3>1. \A d \in Clusters \ DOMAIN seen : \E k \in DOMAIN res : IsCluster(res[k], d)
      BY <1>3 DEF Collected
    <3> QED
      BY <1>6, <3>1
  <2> QED
    BY <1>1, <1>2, <1>3, <2>1, <2>2, <2>3 DEF Collected, IsCluster
<1>c. ClustersOnce'
  <2> SUFFICES ASSUME NEW k \in DOMAIN res', NEW l \in DOMAIN res',
                      res'[k].type = "redis-cluster", res'[l].type = "redis-cluster",
                      res'[k].name = res'[l].name
               PROVE  k = l
    BY DEF ClustersOnce
  <2>1. k \in DOMAIN res /\ l \in DOMAIN res
    BY <1>6, <1>7
  <2> QED
    BY <1>3, <1>6, <2>1 DEF ClustersOnce
<1>d. NamesApart' => Apart'
  <2> SUFFICES ASSUME NamesApart, NEW k \in DOMAIN res', NEW l \in DOMAIN res', k < l
               PROVE  ApartFrom(res'[k], res'[l])
    <3>2. NamesApart' => NamesApart
      BY <1>1 DEF NamesApart
    <3> QED
      BY <1>6, <3>2, ApartOrdered
  <2>1. CASE k \in DOMAIN res /\ l \in DOMAIN res
    <3>1. k # l
      BY <1>6
    <3> QED
      BY <1>3, <1>6, <2>1, <3>1 DEF Apart
  <2>2. CASE IsConfigured(res'[k]) \/ IsConfigured(res'[l])
    BY <1>7, <2>2 DEF ApartFrom
  <2> QED
    BY <1>6, <2>1, <2>2
<1> QED
  BY <1>1, <1>2, <1>3, <1>6, <1>a, <1>b, <1>c, <1>d DEF CollectedInv

LEMMA InitCollected == Init => CollectedInv
<1> SUFFICES ASSUME Init PROVE CollectedInv
  OBVIOUS
<1>1. res = <<>> /\ DOMAIN seen = {} /\ seen_system = {} /\ pc = "objects" /\ i = 1
  BY DEF Init
<1>2. res \in Seq({}) /\ DOMAIN res = {}
  BY <1>1
<1>3. Passed = {} /\ Clusters = {}
  BY <1>1, InitShape DEF Passed, Stateful, Clusters, Shape
<1> QED
  BY <1>1, <1>2, <1>3 DEF CollectedInv, Sources, Collected, ClustersOnce, Apart

LEMMA NextCollected == PanicInv /\ CollectedInv /\ [Next]_vars => CollectedInv'
<1> SUFFICES ASSUME PanicInv, CollectedInv, [Next]_vars PROVE CollectedInv'
  OBVIOUS
<1>s. Shape
  BY DEF PanicInv
<1>1. CASE ConvertStatefulSet /\ ~Unmergeable(Object)
  BY <1>1, CollectedStatefulSet
<1>2. CASE ConvertPod \/ SkipObject
  BY <1>2, CollectedOther
<1>3. ASSUME NEW c \in DOMAIN seen, AddCluster(c) PROVE CollectedInv'
  BY <1>3, CollectedCluster
<1>4. CASE AddConfigured
  BY <1>4, CollectedConfigured
<1>5. CASE request = "redis_status" /\ request' = request
  BY <1>5 DEF CollectedInv
<1>6. CASE /\ UNCHANGED <<request, db, i, res, seen, seen_system>>
           /\ \/ pc' = "panicked" \/ pc' = pc
              \/ request = "entities" /\ pc' = "clusters" /\ i > Len(db)
           /\ pc' # pc => pc = "objects"
  <2>1. Passed' = Passed /\ Clusters' = Clusters
    BY <1>6 DEF Passed, Stateful, Clusters
  <2>2. pc' = "clusters" => i = Len(db) + 1 \/ pc = "clusters"
    BY <1>6, <1>s DEF Shape
  <2> SUFFICES ASSUME request = "entities" PROVE CollectedInv'
    BY <1>6 DEF CollectedInv
  <2>3. /\ \E S : res \in Seq(S)
        /\ DOMAIN seen \subseteq Clusters
        /\ pc \in {"clusters", "done"} => i = Len(db) + 1
        /\ pc = "done" => DOMAIN seen = {}
        /\ Sources /\ Collected /\ ClustersOnce
        /\ NamesApart => Apart
    BY DEF CollectedInv
  <2>4. Sources'
    BY <1>6, <2>1, <2>3 DEF Sources, IsShard, IsNode, IsSystem, IsCluster, IsConfigured
  <2>5. Collected' /\ ClustersOnce' /\ (NamesApart => Apart)'
    BY <1>6, <2>1, <2>3 DEF Collected, IsCluster, ClustersOnce, NamesApart, Apart
  <2> QED
    BY <1>6, <2>1, <2>2, <2>3, <2>4, <2>5 DEF CollectedInv
<1> QED
  BY <1>1, <1>2, <1>3, <1>4, <1>5, <1>6
  DEF Next, vars, ConvertStatefulSet, AddClusters, ReportStatus, StatusDone, At, Panic, Proceed
-----------------------------------------------------------------------------
\* Once everything is served, all StatefulSets were passed.
LEMMA AllPassed ==
  ASSUME PanicInv, CollectedInv, Served
  PROVE  /\ Passed = Stateful /\ DOMAIN seen = {} /\ pc = "done"
         /\ Sources /\ Collected /\ ClustersOnce /\ (NamesApart => Apart)
<1>1. request = "entities" /\ pc = "done"
  BY DEF Served
<1>2. i = Len(db) + 1 /\ Shape
  BY <1>1 DEF CollectedInv, PanicInv
<1>3. Passed = Stateful
  BY <1>2 DEF Passed, Stateful, Shape
<1> QED
  BY <1>1, <1>3 DEF CollectedInv

\* Who has the type of a cluster is the Resource of one.
LEMMA ClusterEntities ==
  ASSUME Sources, DOMAIN seen = {}, NEW k \in DOMAIN res, res[k].type = "redis-cluster"
  PROVE  \E c \in Clusters : IsCluster(res[k], c)
<1>1. ASSUME IsShard(res[k]) PROVE FALSE
  BY <1>1, ShardFields DEF IsShard
<1>2. ASSUME IsNode(res[k]) PROVE FALSE
  BY <1>2, NodeFields DEF IsNode
<1>3. ASSUME IsSystem(res[k]) PROVE FALSE
  BY <1>3, SystemFields DEF IsSystem
<1>4. ASSUME IsConfigured(res[k]) PROVE FALSE
  BY <1>4, ConfiguredFields DEF IsConfigured
<1> QED
  BY <1>1, <1>2, <1>3, <1>4 DEF Sources

\* In a cache of any size the StatefulSets of a cluster are merged into a single
\* Resource that depends on each of their shards, once and in their order.
THEOREM ClustersAlwaysMerged == Spec => []ClustersMerged
<1>1. PanicInv /\ CollectedInv => ClustersMerged
  <2> SUFFICES ASSUME PanicInv, CollectedInv, Served, NEW c \in Names
               PROVE  LET members == {m \in DOMAIN db : db[m].kind = "StatefulSet"
                                                       /\ ClusterName(db[m]) = c}
                          clusters == {n \in DOMAIN res : res[n].type = "redis-cluster"
                                                        /\ res[n].name = c}
                      IN  IF members = {} THEN clusters = {}
                          ELSE \E n \in clusters :
                                 /\ clusters = {n}
                                 /\ InOrder(res[n].dependsOn, db,
                                            {m \in members : db[m].shard # NoLabel})
    BY DEF ClustersMerged
  <2> DEFINE members == {m \in DOMAIN db : db[m].kind = "StatefulSet"
                                          /\ ClusterName(db[m]) = c}
             clusters == {n \in DOMAIN res : res[n].type = "redis-cluster" /\ res[n].name = c}
  <2>1. /\ Passed = Stateful /\ DOMAIN seen = {}
        /\ Sources /\ Collected /\ ClustersOnce
    BY AllPassed
  <2>2. members = {m \in Passed : ClusterName(db[m]) = c}
    BY <2>1 DEF Stateful
  <2>3. CASE members = {}
    <3>1. c \notin Clusters
      BY <2>2, <2>3 DEF Clusters
    <3>2. ASSUME NEW n \in clusters PROVE FALSE
      <4>1. PICK d \in Clusters : IsCluster(res[n], d)
        BY <2>1, ClusterEntities
      <4>2. res[n].name = d
        BY <4>1 DEF IsCluster, ClusterFrom
      <4> QED
        BY <3>1, <4>2
    <3> QED
      BY <2>3, <3>2
  <2>4. CASE members # {}
    <3>1. c \in Clusters
      BY <2>2, <2>4 DEF Clusters
    <3>2. PICK n \in DOMAIN res : IsCluster(res[n], c)
      BY <2>1, <3>1 DEF Collected
    <3>3. /\ res[n].type = "redis-cluster" /\ res[n].name = c
          /\ InOrder(res[n].dependsOn, db, Labelled(db, Passed, c))
      BY <3>2 DEF IsCluster, ClusterFrom
    <3>4. Labelled(db, Passed, c) = {m \in members : db[m].shard # NoLabel}
      BY <2>2 DEF Labelled
    <3>5. clusters = {n}
      BY <2>1, <3>3 DEF ClustersOnce
    <3> QED
      BY <2>4, <3>3, <3>4, <3>5
  <2> QED
    BY <2>3, <2>4
<1> QED
  BY InitPanic, NextPanic, InitCollected, NextCollected, <1>1, PTL DEF Spec

\* Of a cache of any size, no two Resources or Systems have the same kind and name
\* as long as its objects and clusters have names of their own and no StatefulSet
\* is without a cluster label; one that is, is served as two Resources of one name.
THEOREM EntitiesAlwaysApart == Spec => []EntitiesApart
<1>1. PanicInv /\ CollectedInv => EntitiesApart
  <2> SUFFICES ASSUME PanicInv, CollectedInv, Served, NamesApart PROVE EntitiesApart
    BY DEF EntitiesApart
  <2>1. Apart
    BY AllPassed
  <2> QED
    BY <2>1 DEF Apart, ApartFrom, EntitiesApart
<1> QED
  BY InitPanic, NextPanic, InitCollected, NextCollected, <1>1, PTL DEF Spec

\* Of a cache of any size, no entity is served that refers to one that is not, as
\* long as its shard labels are names of StatefulSets, but for a cluster whose name
\* has both "smf" and "upf".
THEOREM RefsAlwaysResolve == Spec => []RefsResolve
<1> DEFINE shards == {e.name : e \in OfType("redis-cluster-shard") \cup OfType("statefulset")}
           clusters == {e.name : e \in OfType("redis-cluster")}
<1>1. PanicInv /\ CollectedInv => RefsResolve
  <2> SUFFICES ASSUME PanicInv, CollectedInv, Served, ShardsNamed, NEW k \in DOMAIN res
               PROVE  LET e == res[k]
                      IN  /\ Range(e.dependsOn) \subseteq shards
                          /\ e.system # NoLabel /\ e.name \notin Smf \cap Upf =>
                               \E s \in Entities : s.kind = "System" /\ s.name = e.system
                          /\ e.dependencyOf # NoLabel =>
                               e.dependencyOf \in IF e.type = "redis-cluster-node"
                                                  THEN shards ELSE clusters
    BY DEF RefsResolve, Entities
  <2> DEFINE e == res[k]
  <2>1. Passed = Stateful /\ DOMAIN seen = {} /\ Sources /\ Collected
    BY AllPassed
  <2>2. \A l \in DOMAIN res : res[l] \in Entities
    BY DEF Entities
  <2>3. ASSUME NEW n \in Stateful PROVE db[n].name \in shards
    <3>1. PICK l \in DOMAIN res : res[l] = ShardOf(db[n])
      BY <2>1, <2>3 DEF Collected
    <3>2. res[l] \in OfType("redis-cluster-shard") \cup OfType("statefulset")
      BY <2>2, <3>1, ShardFields DEF OfType
    <3>3. res[l].name = db[n].name
      BY <3>1, ShardFields
    <3> QED
      BY <3>2, <3>3
  <2>4. ASSUME NEW c \in Clusters PROVE c \in clusters
    <3>1. PICK l \in DOMAIN res : IsCluster(res[l], c)
      BY <2>1, <2>4 DEF Collected
    <3>2. res[l] \in OfType("redis-cluster") /\ res[l].name = c
      BY <2>2, <3>1 DEF IsCluster, ClusterFrom, OfType
    <3> QED
      BY <3>2
  <2>5. ASSUME NEW n \in DOMAIN db, db[n].shard # NoLabel PROVE db[n].shard \in shards
    <3>1. PICK m \in DOMAIN db : db[m].kind = "StatefulSet" /\ db[m].name = db[n].shard
      BY <2>5 DEF ShardsNamed
    <3> QED
      BY <2>3, <3>1 DEF Stateful
  <2> HIDE DEF shards, clusters
  <2>6. ASSUME e.dependsOn = <<>> PROVE Range(e.dependsOn) = {}
    BY <2>6 DEF Range
  <2>7. CASE IsShard(e)
    <3>1. PICK n \in Passed : e = ShardOf(db[n])
      BY <2>7 DEF IsShard
    <3>2. /\ e.dependsOn = <<>> /\ e.system = NoLabel /\ e.dependencyOf = db[n].cluster
          /\ e.type # "redis-cluster-node"
      BY <3>1, ShardFields
    <3>3. db[n].cluster # NoLabel => db[n].cluster \in Clusters
      BY DEF Clusters, ClusterName
    <3> QED
      BY <2>4, <2>6, <3>2, <3>3
  <2>8. CASE IsNode(e)
    <3>1. PICK n \in DOMAIN db : e = NodeOf(db[n])
      BY <2>8 DEF IsNode
    <3>2. /\ e.dependsOn = <<>> /\ e.system = NoLabel /\ e.dependencyOf = db[n].shard
          /\ e.type = "redis-cluster-node"
      BY <3>1, NodeFields
    <3> QED
      BY <2>5, <2>6, <3>2
  <2>9. CASE IsSystem(e) \/ IsConfigured(e)
    <3>1. e.dependsOn = <<>> /\ e.system = NoLabel /\ e.dependencyOf = NoLabel
      BY <2>9, EntityFields, ConfiguredFields DEF IsSystem, IsConfigured
    <3> QED
      BY <2>6, <3>1
  <2>10. CASE \E c \in Clusters : IsCluster(e, c)
    <3>1. PICK c \in Clusters : IsCluster(e, c)
      BY <2>10
    <3>2. /\ e.name = c /\ e.dependencyOf = NoLabel
          /\ InOrder(e.dependsOn, db, Labelled(db, Passed, c))
          /\ e.system # NoLabel => /\ e.system = SystemOfCluster(c)
                                   /\ \E n \in Passed : db[n].cluster = c
      BY <3>1 DEF IsCluster, ClusterFrom
    <3>3. Range(e.dependsOn) \subseteq shards
      <4> DEFINE d == e.dependsOn
      <4>1. PICK f \in [DOMAIN d -> Labelled(db, Passed, c)] :
              \A l \in DOMAIN d : d[l] = db[f[l]].shard
        BY <3>2 DEF InOrder
      <4>2. ASSUME NEW l \in DOMAIN d PROVE d[l] \in shards
        <5>1. f[l] \in Labelled(db, Passed, c)
          BY <4>1, <4>2
        <5>2. f[l] \in DOMAIN db /\ db[f[l]].shard # NoLabel
          BY <5>1 DEF Labelled, Passed, Stateful
        <5>3. db[f[l]].shard \in shards
          BY <2>5, <5>2
        <5> QED
          BY <4>1, <4>2, <5>3
      <4> QED
        BY <4>2 DEF Range
    <3>4. ASSUME e.system # NoLabel, e.name \notin Smf \cap Upf
          PROVE  \E s \in Entities : s.kind = "System" /\ s.name = e.system
      <4>1. PICK n \in Passed : db[n].cluster = c
        BY <3>2, <3>4
      <4>2. SystemOf(db[n]) = e.system
        BY <3>2, <3>4, <4>1 DEF SystemOf, SystemOfCluster
      <4>3. e.system \in seen_system
        BY <2>1, <3>4, <4>2 DEF Collected
      <4>4. PICK l \in DOMAIN res : res[l] = Entity("System", "service", e.system)
        BY <2>1, <4>3 DEF Collected
      <4>5. res[l].kind = "System" /\ res[l].name = e.system
        BY <4>4, SystemFields
      <4> QED
        BY <2>2, <4>5
    <3> QED
      BY <3>2, <3>3, <3>4
  <2> QED
    BY <2>1, <2>7, <2>8, <2>9, <2>10 DEF Sources
<1> QED
  BY InitPanic, NextPanic, InitCollected, NextCollected, <1>1, PTL DEF Spec
=============================================================================
