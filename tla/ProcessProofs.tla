---------------------------- MODULE ProcessProofs ----------------------------
(***************************************************************************)
(* What the watch tasks watch, for every cluster, every configuration and  *)
(* every failure: nothing that is not asked for, and everything that is,   *)
(* where no two entries bear names of one API.                             *)
(***************************************************************************)
EXTENDS Process, Induction

USE DiscoveryAssumption

-----------------------------------------------------------------------------
(***************************************************************************)
(* Discovery.                                                              *)
(***************************************************************************)
LEMMA HighestVersion ==
  ASSUME NEW F \in SUBSET Apis, NEW r \in F
  PROVE  /\ Recommended(r, F) \in Versions(r, F)
         /\ \A t \in Versions(r, F) : Recommended(r, F).version >= t.version
<1> DEFINE V == {s.version : s \in Versions(r, F)}
<1>1. r \in Versions(r, F) /\ \A s \in Versions(r, F) : s.version \in 0..MaxVersion
  BY DEF Versions, ApiResources
<1>2. V \in SUBSET Nat /\ V # {} /\ \A n \in V : n <= MaxVersion
  BY <1>1
<1> HIDE DEF V
<1>3. PICK v \in V : \A n \in V : n <= v
  BY <1>2, GreatestNumber
<1> USE DEF V
<1>4. PICK s \in Versions(r, F) : v = s.version
  BY <1>3
<1>5. \A t \in Versions(r, F) : s.version >= t.version
  BY <1>1, <1>3, <1>4
<1> QED
  BY <1>4, <1>5 DEF Recommended

\* One version is recommended for a kind of a group.
LEMMA OneRecommended ==
  ASSUME NEW F \in SUBSET Apis,
         NEW s \in RecommendedResources(F), NEW t \in RecommendedResources(F),
         s.group = t.group, s.kind = t.kind
  PROVE  s = t
<1>1. PICK r \in F : s = Recommended(r, F)
  BY DEF RecommendedResources
<1>2. PICK q \in F : t = Recommended(q, F)
  BY DEF RecommendedResources
<1>3. r.group = q.group /\ r.kind = q.kind
  BY <1>1, <1>2, HighestVersion DEF Versions
<1>4. Versions(r, F) = Versions(q, F)
  BY <1>3 DEF Versions
<1> QED
  BY <1>1, <1>2, <1>4 DEF Recommended

\* A watch is of an API found, for an entry that bears its name, and some entry
\* asks for the API.
LEMMA WatchAsked ==
  ASSUME NEW F \in SUBSET Apis, NEW C \in Seq(ConfigResources), NEW w \in Watches(F, C)
  PROVE  /\ w.api \in RecommendedResources(F) /\ w.api \in F
         /\ w.entry \in DOMAIN C /\ Names(C[w.entry], w.api)
         /\ w.namespace \in Namespaces \cup {All}
         /\ \E j \in DOMAIN C : Asks(C[j], w.api)
<1>1. PICK r \in ResolveApiResources(F, C) : w \in DynamicApi(r, C)
  BY DEF Watches
<1>2. PICK i \in {j \in DOMAIN C : Names(C[j], r)} :
         w \in {Watch(r, i, place) : place \in Places(C[i], r)}
  BY <1>1 DEF DynamicApi
<1>3. PICK place \in Places(C[i], r) : w = Watch(r, i, place)
  BY <1>2
<1>4. w.api = r /\ w.entry = i /\ w.namespace = place
  BY <1>3 DEF Watch
<1>5. r \in RecommendedResources(F) /\ Resolved(r, C)
  BY DEF ResolveApiResources
<1>6. r \in F
  BY <1>5, HighestVersion DEF RecommendedResources, Versions
<1>7. PICK j \in LookedUp(r, C) : Admits(C[j], r.group)
  BY <1>5 DEF Resolved
<1>8. j \in DOMAIN C /\ Asks(C[j], r)
  BY <1>7 DEF LookedUp, LastNamed, Asks, Names
<1>9. place \in Namespaces \cup {All}
  <2>1. C[i] \in ConfigResources
    BY <1>2
  <2>2. C[i].namespaces \subseteq Namespaces
    BY <2>1 DEF ConfigResources
  <2> QED
    BY <1>3, <2>2 DEF Places
<1> QED
  BY <1>2, <1>4, <1>5, <1>6, <1>8, <1>9

\* An entry that asks for an API found gets its kind watched wherever it wants.
LEMMA AskedWatched ==
  ASSUME NEW F \in SUBSET Apis, NEW C \in Seq(ConfigResources),
         EntriesApart(C), KindsAgree,
         NEW r \in F, NEW i \in DOMAIN C, Asks(C[i], r)
  PROVE  \E s \in F : /\ WatchedInstead(r, s)
                      /\ \A place \in Places(C[i], r) : Watch(s, i, place) \in Watches(F, C)
<1> DEFINE s == Recommended(r, F)
<1>1. s \in Versions(r, F) /\ WatchedInstead(r, s)
  BY HighestVersion DEF Versions, WatchedInstead
<1>2. s \in F /\ s \in Apis /\ s.group = r.group /\ s.kind = r.kind
  BY <1>1 DEF Versions
<1>3. s.plural = r.plural /\ s.scope = r.scope
  BY <1>2 DEF KindsAgree
<1>4. Names(C[i], s) /\ Admits(C[i], s.group)
  BY <1>2, <1>3 DEF Asks, Names
<1>5. \A j \in DOMAIN C : Names(C[j], s) => j = i
  BY <1>2, <1>4 DEF EntriesApart
<1>6. i \in LookedUp(s, C)
  <2>0. i \in Nat
    OBVIOUS
  <2>1. CASE C[i].name = s.kind
    <3>1. i \in LastNamed(C, s.kind)
      BY <2>0, <2>1, <1>5 DEF LastNamed, Names
    <3> QED
      BY <3>1 DEF LookedUp
  <2>2. CASE C[i].name # s.kind
    <3>1. LastNamed(C, s.kind) = {}
      BY <2>2, <1>5 DEF LastNamed, Names
    <3>2. i \in LastNamed(C, s.plural)
      BY <2>0, <2>2, <1>4, <1>5 DEF LastNamed, Names
    <3> QED
      BY <3>1, <3>2 DEF LookedUp
  <2> QED
    BY <2>1, <2>2
<1>7. s \in ResolveApiResources(F, C)
  BY <1>4, <1>6 DEF ResolveApiResources, Resolved, RecommendedResources
<1>8. \A place \in Places(C[i], r) : Watch(s, i, place) \in DynamicApi(s, C)
  BY <1>3, <1>4 DEF DynamicApi, Places
<1> QED
  BY <1>1, <1>2, <1>7, <1>8 DEF Watches
-----------------------------------------------------------------------------
(***************************************************************************)
(* The inductive invariant.  Until the last answer of discovery, a stable  *)
(* API is found or its version is still to be queried: the versions are    *)
(* listed first and queried later, and what went in between fails.         *)
(***************************************************************************)
FoundOrListed(r) == r \in found \/ <<r.group, r.version>> \in todo

StableFound ==
  /\ stable \subseteq served /\ served \subseteq ever /\ found \subseteq ever
  /\ pc \in {"query", "core"} =>
       \A r \in stable : r.group # Core => FoundOrListed(r)
  /\ pc = "core" => todo = {}
  /\ pc = "querycore" => \A r \in stable : FoundOrListed(r)
  /\ pc = "spawned" \/ ingest => stable \subseteq found

WatchesChosen ==
  /\ pc \notin {"load", "panicked"} => Valid(config)
  /\ pc \in {"load", "version", "client"} \cup Discovering => watches = {} /\ ~ingest
  /\ watches # {} => ingest \/ pc = "spawned"
  /\ pc = "spawned" \/ ingest => watches = Watches(found, config.resources)

PInv == TypeOK /\ StableFound /\ WatchesChosen

USE ProcessAssumption

LEMMA InitPInv == Init => PInv
<1> SUFFICES ASSUME Init PROVE PInv
  OBVIOUS
<1>0. served \subseteq Apis /\ 0 \in 0..MaxChanges
  BY DEF Init
<1>1. TypeOK
  BY <1>0 DEF Init, TypeOK, WatchesTyped, Discovering, NoRequest, NoStatus
<1>2. StableFound
  BY DEF Init, StableFound
<1>3. WatchesChosen
  BY DEF Init, WatchesChosen
<1> QED
  BY <1>1, <1>2, <1>3 DEF PInv

LEMMA NextType == PInv /\ [Next]_vars => TypeOK'
<1> SUFFICES ASSUME PInv, [Next]_vars PROVE TypeOK'
  OBVIOUS
<1> USE DEF Discovering, NoRequest, NoStatus, cluster, discovery, request, Goto
<1>t. TypeOK
  BY DEF PInv
<1>g. GroupsServed \subseteq GroupVersions
  <2> SUFFICES ASSUME NEW r \in served PROVE <<r.group, r.version>> \in GroupVersions
    BY DEF GroupsServed
  <2>1. r \in ApiResources
    BY <1>t DEF TypeOK
  <2>2. r.group \in Groups /\ r.version \in Nat
    BY <2>1 DEF ApiResources
  <2> QED
    BY <2>2 DEF GroupVersions
<1>w. UNCHANGED <<config, watches>> => WatchesTyped'
  BY <1>t DEF TypeOK, WatchesTyped
<1>1. CASE Load
  BY <1>1, <1>t, <1>w DEF Load, TypeOK
<1>2. CASE GetClient
  BY <1>2, <1>t, <1>w DEF GetClient, TypeOK
<1>3. CASE ClientFails \/ DiscoveryFails
  BY <1>3, <1>t, <1>w DEF ClientFails, DiscoveryFails, Fail, TypeOK
<1>4. ASSUME NEW b \in BOOLEAN, GetVersion(b) PROVE TypeOK'
  BY <1>4, <1>t, <1>w DEF GetVersion, TypeOK
<1>5. ASSUME NEW b \in BOOLEAN, Bind(b) PROVE TypeOK'
  BY <1>5, <1>t, <1>w DEF Bind, TypeOK
<1>6. CASE ListApiGroups
  <2>1. todo' \subseteq GroupVersions
    BY <1>6, <1>g DEF ListApiGroups, GroupVersions
  <2> QED
    BY <1>6, <1>t, <1>w, <2>1 DEF ListApiGroups, TypeOK
<1>7. CASE ListCore
  BY <1>7, <1>t, <1>w DEF ListCore, TypeOK
<1>8. CASE ListCoreVersions
  <2>1. todo' \subseteq GroupVersions
    BY <1>8, <1>g DEF ListCoreVersions
  <2> QED
    BY <1>8, <1>t, <1>w, <2>1 DEF ListCoreVersions, TypeOK
<1>9. ASSUME NEW gv \in todo, Query(gv) PROVE TypeOK'
  <2>1. found' \subseteq Apis /\ todo' \subseteq GroupVersions
    BY <1>9, <1>t, <1>w DEF Query, Listed, TypeOK
  <2>2. pc' \in {"query", "querycore", "panicked"} /\ ~ingest
    BY <1>9, <1>t, <1>w DEF Query, TypeOK
  <2> QED
    BY <1>9, <1>t, <1>w, <2>1, <2>2 DEF Query, TypeOK
<1>10. CASE SpawnWatches
  <2>1. WatchesTyped'
    <3>1. found \in SUBSET Apis /\ config.resources \in Seq(ConfigResources)
      BY <1>t DEF TypeOK
    <3>2. watches' = Watches(found, config.resources) /\ config' = config
      BY <1>10 DEF SpawnWatches
    <3> QED
      BY <3>1, <3>2, WatchAsked DEF WatchesTyped
  <2> QED
    BY <1>10, <1>t, <2>1 DEF SpawnWatches, TypeOK
<1>11. CASE StartIngest
  <2>1. ~(path # NoRequest /\ status = NoStatus)
    BY <1>11, <1>t DEF StartIngest, TypeOK
  <2>2. UNCHANGED <<config, cluster, discovery, request>> /\ WatchesTyped'
    BY <1>11, <1>w DEF StartIngest
  <2>3. CASE pc' = "bind" /\ ingest' = TRUE
    BY <1>t, <2>1, <2>2, <2>3 DEF TypeOK
  <2>4. CASE pc' = "panicked" /\ UNCHANGED ingest
    <3>1. ~ingest
      BY <1>11, <1>t DEF StartIngest, TypeOK
    <3> QED
      BY <1>t, <2>1, <2>2, <2>4, <3>1 DEF TypeOK
  <2> QED
    BY <1>11, <2>3, <2>4 DEF StartIngest
<1>12. ASSUME NEW p \in Paths, Accept(p) PROVE TypeOK'
  BY <1>12, <1>t, <1>w DEF Accept, TypeOK
<1>13. CASE Answer
  <2>1. status' \in {200, 404, 500}
    BY <1>13 DEF Answer, Respond
  <2> QED
    BY <1>13, <1>t, <1>w, <2>1 DEF Answer, TypeOK
<1>14. ASSUME NEW s \in {"TERM", "INT"}, Signal(s) PROVE TypeOK'
  BY <1>14, <1>t, <1>w DEF Signal, Exit, TypeOK
<1>15. CASE Drained \/ DrainTimeout
  BY <1>15, <1>t, <1>w DEF Drained, DrainTimeout, Exit, TypeOK
<1>16. ASSUME NEW r \in Removable, ChangeApi(r) PROVE TypeOK'
  BY <1>16, <1>t, <1>w DEF ChangeApi, TypeOK
<1>17. CASE UNCHANGED vars
  BY <1>17, <1>t, <1>w DEF vars, TypeOK
<1> QED
  BY <1>1, <1>2, <1>3, <1>4, <1>5, <1>6, <1>7, <1>8, <1>9, <1>10, <1>11, <1>12, <1>13,
     <1>14, <1>15, <1>16, <1>17 DEF Next, StartUp, Serve

\* What is not a step of discovery leaves its results as they are, or drops
\* them all.
LEMMA NextFound == PInv /\ [Next]_vars => StableFound'
<1> SUFFICES ASSUME PInv, [Next]_vars PROVE StableFound'
  OBVIOUS
<1> USE DEF cluster, discovery, Goto
<1>t. TypeOK /\ StableFound
  BY DEF PInv
<1>1. CASE Load \/ GetClient \/ (\E b \in BOOLEAN : GetVersion(b) \/ Bind(b))
  BY <1>1, <1>t DEF Load, GetClient, GetVersion, Bind, StableFound, FoundOrListed
<1>2. CASE ClientFails \/ DiscoveryFails
  <2>1. ~ingest
    BY <1>2, <1>t DEF ClientFails, DiscoveryFails, Discovering, TypeOK
  <2> QED
    BY <1>2, <1>t, <2>1 DEF ClientFails, DiscoveryFails, Fail, StableFound
<1>3. CASE ListApiGroups
  <2>1. ASSUME NEW r \in stable, r.group # Core PROVE <<r.group, r.version>> \in todo'
    <3>1. <<r.group, r.version>> \in GroupsServed
      BY <1>t DEF StableFound, GroupsServed
    <3> QED
      BY <1>3, <2>1, <3>1 DEF ListApiGroups
  <2> QED
    BY <1>3, <1>t, <2>1 DEF ListApiGroups, StableFound, FoundOrListed, TypeOK
<1>4. CASE ListCore
  BY <1>4, <1>t DEF ListCore, StableFound, FoundOrListed
<1>5. CASE ListCoreVersions
  <2>1. ASSUME NEW r \in stable PROVE r \in found \/ <<r.group, r.version>> \in todo'
    <3>1. <<r.group, r.version>> \in GroupsServed
      BY <1>t DEF StableFound, GroupsServed
    <3>2. r.group # Core => r \in found
      BY <1>5, <1>t DEF ListCoreVersions, StableFound, FoundOrListed
    <3> QED
      BY <1>5, <3>1, <3>2 DEF ListCoreVersions
  <2> QED
    BY <1>5, <1>t, <2>1 DEF ListCoreVersions, StableFound, FoundOrListed, TypeOK
<1>6. ASSUME NEW gv \in todo, Query(gv) PROVE StableFound'
  <2>1. CASE pc' = "panicked"
    BY <1>6, <1>t, <2>1 DEF Query, StableFound, TypeOK
  <2>2. CASE pc' # "panicked"
    <3>1. /\ gv \in GroupsServed
          /\ found' = found \cup Listed(gv)
          /\ todo' = todo \ {gv}
          /\ UNCHANGED <<served, ever, stable, pc, ingest>>
      BY <1>6, <2>2 DEF Query
    <3>2. ASSUME NEW r \in stable, FoundOrListed(r) PROVE FoundOrListed(r)'
      <4>1. CASE <<r.group, r.version>> = gv
        <5>1. r \in served
          BY <1>t DEF StableFound
        <5> QED
          BY <3>1, <4>1, <5>1 DEF FoundOrListed, Listed
      <4>2. CASE <<r.group, r.version>> # gv
        BY <3>1, <3>2, <4>2 DEF FoundOrListed
      <4> QED
        BY <4>1, <4>2
    <3>3. ~ingest /\ pc \in {"query", "querycore"}
      BY <1>6, <1>t DEF Query, TypeOK
    <3> QED
      BY <1>t, <3>1, <3>2, <3>3 DEF StableFound, Listed
  <2> QED
    BY <2>1, <2>2
<1>7. CASE SpawnWatches
  BY <1>7, <1>t DEF SpawnWatches, StableFound, FoundOrListed, TypeOK
<1>8. CASE StartIngest
  BY <1>8, <1>t DEF StartIngest, StableFound, FoundOrListed
<1>9. CASE Serve
  <2>1. UNCHANGED <<cluster, discovery, ingest>>
    BY <1>9 DEF Serve, Answer, Drained, DrainTimeout, Accept, Signal
  <2>2. pc' = pc \/ pc' \in {"draining", "exited"}
    BY <1>9 DEF Serve, Answer, Drained, DrainTimeout, Accept, Signal, Exit
  <2> QED
    BY <1>t, <2>1, <2>2 DEF StableFound, FoundOrListed
<1>10. ASSUME NEW r \in Removable, ChangeApi(r) PROVE StableFound'
  <2>1. stable' \subseteq served' /\ served' \subseteq ever' /\ found' \subseteq ever'
    BY <1>10, <1>t DEF ChangeApi, StableFound
  <2>2. stable' \subseteq stable
    BY <1>10 DEF ChangeApi
  <2> QED
    BY <1>10, <1>t, <2>1, <2>2 DEF ChangeApi, StableFound, FoundOrListed
<1>11. CASE UNCHANGED vars
  BY <1>11, <1>t DEF vars, StableFound, FoundOrListed
<1>12. CASE StartUp
  BY <1>1, <1>2, <1>3, <1>4, <1>5, <1>6, <1>7, <1>8, <1>12 DEF StartUp
<1> QED
  BY <1>9, <1>10, <1>11, <1>12 DEF Next

\* The watch tasks are chosen once, and only of a configuration that passed
\* validation, so the timers start.
LEMMA NextChosen == PInv /\ [Next]_vars => WatchesChosen'
<1> SUFFICES ASSUME PInv, [Next]_vars PROVE WatchesChosen'
  OBVIOUS
<1> USE DEF cluster, discovery, Goto, Discovering
<1>t. TypeOK /\ WatchesChosen
  BY DEF PInv
<1>v. UNCHANGED config => Valid(config)' = Valid(config)
  BY DEF Valid, ValidKube, ValidCache
<1>1. CASE Load
  BY <1>1, <1>t, <1>v DEF Load, WatchesChosen
<1>2. CASE GetClient \/ (\E b \in BOOLEAN : GetVersion(b) \/ Bind(b))
  BY <1>2, <1>t, <1>v DEF GetClient, GetVersion, Bind, WatchesChosen, TypeOK
<1>3. CASE ClientFails \/ DiscoveryFails
  BY <1>3, <1>t, <1>v DEF ClientFails, DiscoveryFails, Fail, WatchesChosen
<1>4. CASE ListApiGroups \/ ListCore \/ ListCoreVersions \/ \E gv \in todo : Query(gv)
  <2>1. UNCHANGED <<config, watches, ingest>> /\ pc' \in Discovering \cup {"panicked"}
    BY <1>4 DEF ListApiGroups, ListCore, ListCoreVersions, Query
  <2>2. pc \in Discovering
    BY <1>4 DEF ListApiGroups, ListCore, ListCoreVersions, Query
  <2> QED
    BY <1>t, <1>v, <2>1, <2>2 DEF WatchesChosen
<1>5. CASE SpawnWatches
  BY <1>5, <1>t, <1>v DEF SpawnWatches, WatchesChosen
<1>6. CASE StartIngest
  <2>1. config.poll_interval > 0 /\ config.purge_interval > 0
    BY <1>6, <1>t DEF StartIngest, WatchesChosen, Valid, ValidCache
  <2> QED
    BY <1>6, <1>t, <1>v, <2>1 DEF StartIngest, WatchesChosen
<1>7. CASE Serve
  <2>1. UNCHANGED <<config, discovery, ingest>>
    BY <1>7 DEF Serve, Answer, Drained, DrainTimeout, Accept, Signal
  <2>2. \/ pc' = pc
        \/ pc \in {"serving", "draining"} /\ pc' \in {"draining", "exited"}
    BY <1>7 DEF Serve, Answer, Drained, DrainTimeout, Accept, Signal, Exit
  <2> QED
    BY <1>t, <1>v, <2>1, <2>2 DEF WatchesChosen
<1>8. CASE \E r \in Removable : ChangeApi(r)
  BY <1>8, <1>t, <1>v DEF ChangeApi, WatchesChosen
<1>9. CASE UNCHANGED vars
  BY <1>9, <1>t, <1>v DEF vars, WatchesChosen
<1>10. CASE StartUp
  BY <1>1, <1>2, <1>3, <1>4, <1>5, <1>6, <1>10 DEF StartUp
<1> QED
  BY <1>7, <1>8, <1>9, <1>10 DEF Next

LEMMA PInvariant == Spec => []PInv
<1>1. PInv /\ [Next]_vars => PInv'
  BY NextType, NextFound, NextChosen DEF PInv
<1> QED
  BY InitPInv, <1>1, PTL DEF Spec
-----------------------------------------------------------------------------
\* The state of the process and what it knows of the cluster are well-typed; a
\* request is in flight only while the server runs.
THEOREM ProcessTypeCorrect == Spec => []TypeOK
<1>1. PInv => TypeOK
  BY DEF PInv
<1> QED
  BY PInvariant, <1>1, PTL

\* Every API asked for that was there all the time is watched, if the ingest
\* task runs at all: discovery is complete or has failed.
THEOREM NothingOverlooked == Spec => []StableApisWatched
<1>1. PInv => StableApisWatched
  <2> SUFFICES ASSUME PInv, ingest, EntriesApart(config.resources), KindsAgree,
                      NEW r \in stable, NEW i \in DOMAIN config.resources,
                      Asks(config.resources[i], r)
               PROVE  \E s \in ever :
                        /\ WatchedInstead(r, s)
                        /\ \A place \in Places(config.resources[i], r) :
                             Watch(s, i, place) \in watches
    BY DEF StableApisWatched
  <2>1. found \in SUBSET Apis /\ config.resources \in Seq(ConfigResources)
    BY DEF PInv, TypeOK
  <2>2. r \in found /\ found \subseteq ever /\ watches = Watches(found, config.resources)
    BY DEF PInv, StableFound, WatchesChosen
  <2> QED
    BY <2>1, <2>2, AskedWatched
<1> QED
  BY PInvariant, <1>1, PTL

LEMMA WatchesDiscovered ==
  ASSUME PInv, NEW w \in watches
  PROVE  /\ found \in SUBSET Apis /\ found \subseteq ever
         /\ config.resources \in Seq(ConfigResources)
         /\ w \in Watches(found, config.resources)
BY DEF PInv, TypeOK, StableFound, WatchesChosen

\* Nothing is watched that was never served or that no entry asks for, and
\* nothing under another entry's selectors unless two entries bear its names.
THEOREM NothingUnasked == Spec => []WatchedIsAsked
<1>1. PInv => WatchedIsAsked
  <2> SUFFICES ASSUME PInv, NEW w \in watches
               PROVE  /\ w.api \in ever
                      /\ Names(config.resources[w.entry], w.api)
                      /\ \E j \in DOMAIN config.resources : Asks(config.resources[j], w.api)
                      /\ EntriesApart(config.resources)
                           => Asks(config.resources[w.entry], w.api)
    BY DEF WatchedIsAsked
  <2>1. /\ w.api \in found /\ found \subseteq ever /\ w.api \in Apis
        /\ w.entry \in DOMAIN config.resources
        /\ Names(config.resources[w.entry], w.api)
    BY WatchesDiscovered, WatchAsked
  <2>2. PICK j \in DOMAIN config.resources : Asks(config.resources[j], w.api)
    BY WatchesDiscovered, WatchAsked
  <2>3. EntriesApart(config.resources) => j = w.entry
    BY <2>1, <2>2 DEF EntriesApart, Asks
  <2> QED
    BY <2>1, <2>2, <2>3
<1> QED
  BY PInvariant, <1>1, PTL

\* No kind of a group is watched in two versions, whatever versions came and
\* went while discovery ran.
THEOREM VersionsApart == Spec => []OneVersionWatched
<1>1. PInv => OneVersionWatched
  <2> SUFFICES ASSUME PInv, NEW t \in watches, NEW w \in watches,
                      t.api.group = w.api.group, t.api.kind = w.api.kind
               PROVE  t.api = w.api
    BY DEF OneVersionWatched
  <2>1. /\ found \in SUBSET Apis
        /\ t.api \in RecommendedResources(found) /\ w.api \in RecommendedResources(found)
    BY WatchesDiscovered, WatchAsked
  <2> QED
    BY <2>1, OneRecommended
<1> QED
  BY PInvariant, <1>1, PTL

\* Watch tasks run only with an ingest task that receives what they send:
\* validation leaves nothing on which the start of the timers could panic.
THEOREM ReceiverThere == Spec => []WatchesReceived
<1>1. PInv => WatchesReceived
  BY DEF PInv, WatchesChosen, WatchesReceived
<1> QED
  BY PInvariant, <1>1, PTL
=============================================================================
