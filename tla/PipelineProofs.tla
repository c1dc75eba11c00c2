--------------------------- MODULE PipelineProofs ---------------------------
(***************************************************************************)
(* The pipeline's steps are steps of Ingest, so Ingest's theorems hold of  *)
(* it; and the cache drops an object only after one of its namespace and   *)
(* name was removed from the cluster, or left the selection, or because it *)
(* is asked for at a wrong URL.                                            *)
(***************************************************************************)
EXTENDS Pipeline, IngestProofs

USE BoundAssumption

-----------------------------------------------------------------------------
(***************************************************************************)
(* Steps of the pipeline as steps of Ingest.                               *)
(***************************************************************************)
LEMMA ForwardedObject ==
  ASSUME PTypeOK, NEW w \in Watchers, NEW r \in Resources, NEW i \in Nearest(w, r)
  PROVE  /\ Object(history[i].id, i, OwnType(r)) \in Delivered
         /\ history[i] \in Changes
         /\ i \in 1..Len(history)
         /\ i \in Ahead(w, r)
  <1>1. i \in Ahead(w, r)
    BY DEF Nearest
  <1>2. seen[w][r] \in 0..Len(history)
    BY DEF PTypeOK
  <1>3. Len(history) \in Nat /\ Len(history) <= MaxEvents
    BY DEF PTypeOK
  <1>4. i \in 1..Len(history)
    BY <1>1, <1>2, <1>3 DEF Ahead
  <1>6. history[i] \in Changes /\ history[i].id.res = r
    BY <1>1, <1>4 DEF PTypeOK, Ahead
  <1> QED BY <1>1, <1>3, <1>4, <1>6
      DEF Delivered, DynamicObjects, TypeMetas, Object, OwnType, Changes

LEMMA PipelineStep ==
  PTypeOK /\ IInv /\ [PNext]_pvars => [Next]_vars
  <1> SUFFICES ASSUME PTypeOK, IInv, [PNext]_pvars PROVE Next \/ UNCHANGED vars
    OBVIOUS
  <1>1. ASSUME NEW r \in Resources, ForwardItem(r) PROVE Next
    BY <1>1 DEF ForwardItem, PTypeOK, Next
  <1>2. ASSUME NEW r \in Resources, ForwardApplied(r) PROVE Next
    BY <1>2, ForwardedObject DEF ForwardApplied, Watchers, Next
  <1>3. ASSUME NEW r \in Resources, ForwardDeleted(r) PROVE Next
    BY <1>3, ForwardedObject DEF ForwardDeleted, Watchers, Next
  <1>4. ASSUME NEW r \in Resources, NEW w \in Watchers, List(w, r) \/ Desync(w, r)
        PROVE  UNCHANGED vars
    BY <1>4 DEF List, Desync
  <1>a. ASSUME SetLive(live), UNCHANGED <<queues, task, cache, poisoned, watchers>>
        PROVE  UNCHANGED vars
    <2>1. live' = live
      BY <1>a DEF SetLive
    <2>2. wasAbsent' = wasAbsent
      BY <1>a DEF SetLive, IInv, Stored
    <2> QED BY <1>a, <2>1, <2>2 DEF queues, task, vars
  <1>5. ASSUME NEW id \in Objects, Apply(id) PROVE Next \/ UNCHANGED vars
    <2>1. SetLive(live \cup {id}) /\ UNCHANGED <<queues, task, cache, poisoned, watchers>>
      BY <1>5 DEF Apply, Change
    <2>2. CASE id \in live
      <3>1. live \cup {id} = live
        BY <2>2
      <3> QED BY <1>a, <2>1, <3>1
    <2>3. CASE id \notin live
      BY <2>1, <2>3 DEF ClusterChange, Next
    <2> QED BY <2>2, <2>3
  <1>6. ASSUME NEW id \in Objects, Remove(id) PROVE Next
    <2>1. id \in live
      BY <1>6 DEF Remove, PTypeOK
    <2> QED BY <1>6, <2>1 DEF Remove, Change, ClusterChange, Next
  <1>7. ASSUME NEW id \in Objects, Deselect(id) PROVE UNCHANGED vars
    BY <1>7, <1>a DEF Deselect, Change
  <1>8. ASSUME NEW id \in Objects, ChangeUnselected(id) PROVE Next
    BY <1>8 DEF ChangeUnselected, Next
  <1>9. CASE UNCHANGED pvars
    BY <1>9 DEF pvars
  <1> QED BY <1>1, <1>2, <1>3, <1>4, <1>5, <1>6, <1>7, <1>8, <1>9 DEF PNext, Next

\* Only changes of the cluster and of the selection show in live and history.
LEMMA ClusterKept ==
  ASSUME [PNext]_pvars
  PROVE  \/ \E id \in Objects : Apply(id) \/ Remove(id) \/ Deselect(id) \/ ChangeUnselected(id)
         \/ UNCHANGED <<history, live, selected>>
  <1>1. ASSUME NEW r \in Resources,
               ForwardItem(r) \/ ForwardApplied(r) \/ ForwardDeleted(r)
        PROVE  UNCHANGED <<history, live, selected>>
    BY <1>1 DEF ForwardItem, ForwardApplied, ForwardDeleted, WatcherSend
  <1>2. ASSUME NEW r \in Resources, NEW w \in Watchers, List(w, r) \/ Desync(w, r)
        PROVE  UNCHANGED <<history, live, selected>>
    BY <1>2 DEF List, Desync, vars
  <1>3. ASSUME IngestStep PROVE live' = live
    BY <1>3 DEF IngestStep, RecvTyped, RecvUntyped, RecvTypeMeta, RecvDelete,
       RecvPrintAll, PurgeBegin, CheckAnswered, CheckFailed, PurgeCommit
  <1>4. ASSUME HelperReply \/ PollTick \/ PurgeTick PROVE live' = live
    BY <1>4 DEF HelperReply, PollTick, PurgeTick, TimerSend
  <1>5. CASE UNCHANGED pvars
    BY <1>5 DEF pvars, vars
  <1> QED BY <1>1, <1>2, <1>3, <1>4, <1>5 DEF PNext, Unchanged

LEMMA PTypeStep ==
  PTypeOK /\ IInv /\ [PNext]_pvars => PTypeOK'
  <1> SUFFICES ASSUME PTypeOK, IInv, [PNext]_pvars PROVE PTypeOK'
    OBVIOUS
  <1>a. TypeOK'
    BY PipelineStep, TypeStep DEF PTypeOK
  <1>b. selected' \subseteq live'
    <2>1. ASSUME NEW id \in Objects, Apply(id) \/ Remove(id) \/ Deselect(id)
          PROVE  selected' \subseteq live'
      BY <2>1 DEF Apply, Remove, Deselect, Change, SetLive, PTypeOK
    <2>2. ASSUME NEW id \in Objects, ChangeUnselected(id) PROVE selected' \subseteq live'
      BY <2>2 DEF ChangeUnselected, ClusterChange, SetLive, PTypeOK
    <2> QED BY <2>1, <2>2, ClusterKept DEF PTypeOK
  <1>0. TypeOK' /\ selected' \subseteq live'
    BY <1>a, <1>b
  <1>1. ASSUME NEW r \in Resources, ForwardItem(r) PROVE PTypeOK'
    BY <1>0, <1>1 DEF ForwardItem, PTypeOK
  <1>2. ASSUME NEW r \in Resources, NEW w \in {"applied", "deleted"}, NEW i \in Nearest(w, r),
               seen' = [seen EXCEPT ![w][r] = i],
               UNCHANGED <<history, version, listed, items, relists>>
        PROVE  PTypeOK'
    <2>1. seen' \in [Watchers -> [Resources -> 0..Len(history)]]
      BY <1>2, ForwardedObject DEF PTypeOK, Watchers
    <2> QED BY <1>0, <1>2, <2>1 DEF PTypeOK
  <1>3. ASSUME NEW r \in Resources, ForwardApplied(r) PROVE PTypeOK'
    BY <1>2, <1>3 DEF ForwardApplied
  <1>4. ASSUME NEW r \in Resources, ForwardDeleted(r) PROVE PTypeOK'
    BY <1>2, <1>4 DEF ForwardDeleted
  <1>5. ASSUME NEW r \in Resources, NEW w \in Watchers, List(w, r) PROVE PTypeOK'
    <2>1. Len(history) \in Nat
      BY DEF PTypeOK
    <2>2. \A id \in selected : id.res = r => Object(id, version[id], NoType) \in Delivered
      BY DEF PTypeOK, TypeOK, Object, Delivered, DynamicObjects
    <2>3. items' \in [Resources -> SUBSET Delivered]
      BY <1>5, <2>2 DEF List, PTypeOK
    <2>4. /\ listed' \in [Watchers -> [Resources -> Unlisted..Len(history)]]
          /\ seen' \in [Watchers -> [Resources -> 0..Len(history)]]
      BY <1>5, <2>1 DEF List, PTypeOK, Unlisted
    <2> QED BY <1>0, <1>5, <2>3, <2>4 DEF List, PTypeOK
  <1>6. ASSUME NEW r \in Resources, NEW w \in Watchers, Desync(w, r) PROVE PTypeOK'
    <2>1. /\ listed' \in [Watchers -> [Resources -> Unlisted..Len(history)]]
          /\ relists' \in 0..MaxRelists
      BY <1>6 DEF Desync, PTypeOK, Unlisted
    <2> QED BY <1>0, <1>6, <2>1 DEF Desync, PTypeOK
  <1>7. ASSUME NEW id \in Objects, NEW type \in {"Apply", "Delete"}, NEW l,
               Change(type, id, l)
        PROVE  PTypeOK'
    <2>1. /\ history' \in Seq(Changes)
          /\ Len(history') = Len(history) + 1
          /\ Len(history') <= MaxEvents
          /\ Len(history) \in Nat
      BY <1>7 DEF Change, PTypeOK, Changes
    <2>2. /\ version' \in [Objects -> 0..Len(history')]
          /\ listed' \in [Watchers -> [Resources -> Unlisted..Len(history')]]
          /\ seen' \in [Watchers -> [Resources -> 0..Len(history')]]
      BY <1>7, <2>1 DEF Change, PTypeOK, Unlisted, watching
    <2> QED BY <1>0, <1>7, <2>1, <2>2 DEF Change, PTypeOK, watching
  <1>8. ASSUME UNCHANGED <<history, version, watching, relists>> PROVE PTypeOK'
    BY <1>0, <1>8 DEF PTypeOK, watching
  <1>9. CASE UNCHANGED pvars
    BY <1>8, <1>9 DEF pvars
  <1> QED BY <1>1, <1>3, <1>4, <1>5, <1>6, <1>7, <1>8, <1>9
      DEF PNext, Apply, Remove, Deselect, ChangeUnselected, Unchanged

LEMMA PTypeInit == PInit => PTypeOK
  <1> SUFFICES ASSUME PInit PROVE PTypeOK
    OBVIOUS
  <1>1. TypeOK
    BY TypeInit DEF PInit
  <1>2. history \in Seq(Changes) /\ Len(history) = 0
    BY DEF PInit
  <1> QED BY <1>1, <1>2 DEF PInit, PTypeOK, Unlisted

\* Types and the ingest task's invariant hold behind the watch tasks too.
THEOREM PipelineInvariance == PSpec => [](PTypeOK /\ IInv)
  <1>1. PInit => PTypeOK /\ IInv
    BY PTypeInit, InvInit DEF PInit
  <1>2. (PTypeOK /\ IInv) /\ [PNext]_pvars => (PTypeOK /\ IInv)'
    BY PTypeStep, PipelineStep, InvStep DEF PTypeOK
  <1> QED BY <1>1, <1>2, PTL DEF PSpec

\* The watch tasks and the cluster do nothing that Ingest does not allow.
THEOREM PipelineImplementsIngest == PSpec => IngestSpec
  <1>1. PInit => Init
    BY DEF PInit
  <1> QED BY <1>1, PipelineStep, PipelineInvariance, PTL DEF PSpec, Spec, IngestSpec

\* So they implement the store too: behind three watchers, selectors and relists
\* each command takes effect on the cache in one step and in its turn.
THEOREM PipelineImplementsStore == PSpec => ImplementsStore
  BY PipelineImplementsIngest, Refinement DEF IngestSpec

-----------------------------------------------------------------------------
(***************************************************************************)
(* An object leaves the cache only after it was removed, or when a purge   *)
(* asks for it at a wrong URL.                                             *)
(***************************************************************************)
LEMMA TracedInit == PInit => Traced
  BY DEF PInit, Init, Traced, ChanTraced, CacheTraced

\* What has been selected or was removed stays so, whatever happens next.
LEMMA ExistedGrows ==
  ASSUME PTypeOK, [PNext]_pvars
  PROVE  /\ Removed \subseteq Removed'
         /\ Existed \subseteq Existed'
  <1>1. ASSUME UNCHANGED <<history, selected>>
        PROVE  Removed' = Removed /\ Existed' = Existed
    BY <1>1 DEF Removed, Existed
  <1>2. ASSUME NEW id \in Objects, NEW type \in {"Apply", "Delete"}, NEW l,
               Change(type, id, l)
        PROVE  Removed \subseteq Removed' /\ Existed \subseteq Existed'
    <2>1. history \in Seq(Changes) /\ history' = Append(history, [type |-> type, id |-> id])
      BY <1>2 DEF PTypeOK, Change
    <2>2. /\ Len(history') = Len(history) + 1
          /\ \A j \in 1..Len(history) : history'[j] = history[j]
          /\ history'[Len(history) + 1] = [type |-> type, id |-> id]
      BY <2>1
    <2>3. Removed \subseteq Removed'
      BY <2>1, <2>2 DEF Removed
    <2>4. type = "Delete" => id \in Removed'
      BY <2>1, <2>2 DEF Removed
    <2> QED BY <1>2, <2>3, <2>4 DEF Change, Existed
  <1> QED BY <1>1, <1>2, ClusterKept DEF Apply, Remove, Deselect, ChangeUnselected

LEMMA TakenTraced ==
  ASSUME PTypeOK, ChanTraced, chan # <<>>,
         chan' = Tail(chan), UNCHANGED <<history, live, selected>>
  PROVE  /\ ChanTraced'
         /\ Head(chan).command = "Add" => Head(chan).obj.id \in Existed
         /\ Head(chan).command = "Delete" => Head(chan).obj.id \in Removed
  <1>1. chan \in Seq(WatchEvents)
    BY DEF PTypeOK, TypeOK
  <1>2. /\ Len(chan') = Len(chan) - 1 /\ Len(chan) \in Nat \ {0}
        /\ \A i \in 1..Len(chan') : chan'[i] = chan[i + 1]
        /\ Head(chan) = chan[1]
    BY <1>1
  <1> QED BY <1>2, SMTT(60) DEF ChanTraced, Existed, Removed

LEMMA SentTraced ==
  ASSUME PTypeOK, ChanTraced, NEW e, chan' = Append(chan, e),
         UNCHANGED <<history, live, selected>>,
         e.command = "Add" => e.obj.id \in Existed,
         e.command = "Delete" => e.obj.id \in Removed
  PROVE  ChanTraced'
  <1>1. chan \in Seq(WatchEvents)
    BY DEF PTypeOK, TypeOK
  <1>2. /\ Len(chan') = Len(chan) + 1 /\ Len(chan) \in Nat
        /\ \A i \in 1..Len(chan) : chan'[i] = chan[i]
        /\ chan'[Len(chan) + 1] = e
    BY <1>1
  <1> QED BY <1>2 DEF ChanTraced, Existed, Removed

\* An object that is cached while it is not in the cluster was removed before.
LEMMA InsertTraced ==
  ASSUME PTypeOK, CacheTraced, NEW o \in DynamicObjects, Insert(o),
         o.id \in Existed, UNCHANGED <<history, live, selected>>
  PROVE  CacheTraced'
  <1>1. \A k \in Keys : cache'[k] = cache[k] \/ cache'[k] = o
    BY DEF PTypeOK, TypeOK, Insert
  <1>2. \A k \in wasAbsent' : k \in wasAbsent \/ (k = KeyOf(o.id) /\ o.id \in Removed)
    BY DEF Insert, Existed, PTypeOK
  <1> QED BY <1>1, <1>2 DEF CacheTraced, Existed, Removed

LEMMA RemoveTraced ==
  ASSUME CacheTraced, NEW os, RemoveAll(os), UNCHANGED <<history, live, selected>>
  PROVE  CacheTraced'
  <1>1. \A k \in Keys : cache'[k] = cache[k] \/ cache'[k] = NoEntry
    BY DEF RemoveAll
  <1>2. wasAbsent' \subseteq wasAbsent
    BY DEF RemoveAll
  <1> QED BY <1>1, <1>2 DEF CacheTraced, Existed, Removed

LEMMA TracedStep ==
  PTypeOK /\ IInv /\ Traced /\ [PNext]_pvars => Traced'
  <1> SUFFICES ASSUME PTypeOK, IInv, Traced, [PNext]_pvars PROVE Traced'
    OBVIOUS
  <1>a. TypeOK
    BY DEF PTypeOK
  <1>b. ASSUME UNCHANGED <<history, live, selected, items>>, ChanTraced', CacheTraced',
               (pc = "typing" => held.id \in Existed)'
        PROVE  Traced'
    BY <1>b DEF Traced, Existed, Removed
  <1>c. ASSUME Die, UNCHANGED <<history, live, selected, items, cache, wasAbsent>>
        PROVE  Traced'
    BY <1>b, <1>c DEF Traced, Die, ChanTraced, CacheTraced, Existed, Removed
  <1>1. CASE RecvTyped /\ Unchanged
    <2> DEFINE o == Head(chan).obj
    <2>1. /\ pc = "recv" /\ chan # <<>> /\ Head(chan).command = "Add"
          /\ o \in DynamicObjects
      BY <1>1, <1>a, TakenType, EventObject DEF RecvTyped, Receives
    <2>2. CASE HasAge(o)
      <3>1. /\ Insert(o) /\ chan' = Tail(chan)
            /\ pc' = "recv" /\ UNCHANGED <<history, live, selected, items>>
        BY <1>1, <2>1, <2>2 DEF RecvTyped, task, Unchanged, watching
      <3>2. ChanTraced' /\ o.id \in Existed
        BY <2>1, <3>1, TakenTraced DEF Traced
      <3>3. CacheTraced'
        BY <2>1, <3>1, <3>2, InsertTraced DEF Traced
      <3> QED BY <1>b, <3>1, <3>2, <3>3
    <2>3. CASE ~HasAge(o)
      BY <1>1, <1>c, <2>3 DEF RecvTyped, Unchanged, watching
    <2> QED BY <2>2, <2>3
  <1>2. CASE RecvUntyped /\ Unchanged
    <2>1. /\ chan # <<>> /\ Head(chan).command = "Add"
          /\ chan' = Tail(chan) /\ held' = Head(chan).obj
          /\ UNCHANGED <<history, live, selected, items, cache, wasAbsent>>
      BY <1>2 DEF RecvUntyped, Receives, Unchanged, watching
    <2>2. ChanTraced' /\ held'.id \in Existed
      BY <2>1, TakenTraced DEF Traced
    <2> QED BY <1>b, <2>1, <2>2 DEF Traced, CacheTraced, Existed, Removed
  <1>3. CASE RecvTypeMeta /\ Unchanged
    <2> DEFINE o == [held EXCEPT !.types = Head(rxType)]
    <2>0. /\ pc = "typing" /\ held \in DynamicObjects
          /\ Head(rxType) \in TypeMetas \cup {NoType}
      BY <1>3, <1>a DEF RecvTypeMeta, TypeOK
    <2>1. /\ o \in DynamicObjects /\ o.id = held.id
          /\ pc = "typing"
      BY <2>0, RetypedType
    <2>2. CASE HasAge(o)
      <3>1. /\ Insert(o) /\ chan' = chan
            /\ pc' = "recv" /\ UNCHANGED <<history, live, selected, items>>
        BY <1>3, <2>2 DEF RecvTypeMeta, Unchanged, watching
      <3>2. o.id \in Existed
        BY <2>1 DEF Traced
      <3> HIDE DEF o
      <3>3. CacheTraced'
        BY <2>1, <3>1, <3>2, InsertTraced DEF Traced
      <3>4. ChanTraced'
        BY <3>1 DEF Traced, ChanTraced, Existed, Removed
      <3> QED BY <1>b, <3>1, <3>3, <3>4
    <2>3. CASE ~HasAge(o)
      BY <1>3, <1>c, <2>3 DEF RecvTypeMeta, Unchanged, watching
    <2> QED BY <2>2, <2>3
  <1>4. CASE RecvDelete /\ Unchanged
    <2> DEFINE o == Head(chan).obj
    <2>1. pc = "recv" /\ chan # <<>>
      BY <1>4 DEF RecvDelete, Receives
    <2>2. CASE HasAge(o)
      <3>1. /\ RemoveAll({o}) /\ chan' = Tail(chan)
            /\ pc' = "recv" /\ UNCHANGED <<history, live, selected, items>>
        BY <1>4, <2>1, <2>2 DEF RecvDelete, task, Unchanged, watching
      <3>2. ChanTraced' /\ CacheTraced'
        BY <2>1, <3>1, TakenTraced, RemoveTraced DEF Traced
      <3> QED BY <1>b, <3>1, <3>2
    <2>3. CASE ~HasAge(o)
      BY <1>4, <1>c, <2>3 DEF RecvDelete, Unchanged, watching
    <2> QED BY <2>2, <2>3
  <1>5. ASSUME Unchanged, RecvPrintAll \/ \E connected \in BOOLEAN : PurgeBegin(connected)
        PROVE  Traced'
    <2>1. /\ chan # <<>> /\ chan' = Tail(chan) /\ pc' # "typing"
          /\ UNCHANGED <<history, live, selected, items, cache, wasAbsent>>
      BY <1>5, Zenon DEF RecvPrintAll, PurgeBegin, Receives, task, Unchanged, watching
    <2>2. ChanTraced'
      BY <2>1, TakenTraced DEF Traced
    <2> QED BY <1>b, <2>1, <2>2 DEF Traced, CacheTraced, Existed, Removed
  <1>6. ASSUME UNCHANGED <<history, live, selected, items, chan, pc, held, cache, wasAbsent>>
        PROVE  Traced'
    <2>1. ChanTraced'
      BY <1>6 DEF Traced, ChanTraced, Existed, Removed
    <2>2. CacheTraced'
      BY <1>6 DEF Traced, CacheTraced, Existed, Removed
    <2> QED BY <1>b, <1>6, <2>1, <2>2 DEF Traced, Existed, Removed
  <1>7. ASSUME NEW o \in todo, Unchanged, CheckAnswered(o) \/ CheckFailed(o) PROVE Traced'
    BY <1>6, <1>7 DEF CheckAnswered, CheckFailed, queues, Unchanged, watching
  <1>8. CASE PurgeCommit /\ Unchanged
    <2>1. PICK removed \in SUBSET missing : RemoveAll(removed)
      BY <1>8 DEF PurgeCommit
    <2>2. UNCHANGED <<history, live, selected, items>>
      BY <1>8 DEF PurgeCommit, Unchanged, watching
    <2>3. CacheTraced'
      BY <2>1, <2>2, RemoveTraced DEF Traced
    <2>4. pc' # "typing" /\ (chan' = <<>> \/ chan' = chan)
      BY <1>8, Zenon DEF PurgeCommit, Die, queues
    <2>5. ChanTraced'
      BY <2>2, <2>4, SMTT(60) DEF Traced, ChanTraced, Existed, Removed
    <2> QED BY <1>b, <2>2, <2>3, <2>4, <2>5
  <1>9. CASE HelperReply /\ Unchanged
    BY <1>6, <1>9 DEF HelperReply, task, Unchanged, watching
  <1>10. CASE (PollTick \/ PurgeTick) /\ Unchanged
    <2>1. PICK e \in {PrintAll, Purge} : TimerSend(e)
      BY <1>10 DEF PollTick, PurgeTick
    <2>2. UNCHANGED <<history, live, selected, items, pc, held, cache, wasAbsent>>
      BY <1>10, <2>1 DEF TimerSend, task, Unchanged, watching
    <2>3. chan' = chan \/ chan' = Append(chan, e)
      BY <2>1 DEF TimerSend
    <2>4. ChanTraced'
      <3>1. CASE chan' = chan
        BY <2>2, <3>1 DEF Traced, ChanTraced, Existed, Removed
      <3>2. CASE chan' = Append(chan, e)
        BY <2>2, <3>2, SentTraced DEF Traced, PrintAll, Purge
      <3> QED BY <2>3, <3>1, <3>2
    <2> QED BY <1>b, <2>2, <2>4 DEF Traced, CacheTraced, Existed, Removed
  <1>11. ASSUME NEW e \in WatchEvents, WatcherSend(e), UNCHANGED <<history, selected>>,
                \A r \in Resources : items'[r] \subseteq items[r],
                e.command = "Add" => e.obj.id \in Existed,
                e.command = "Delete" => e.obj.id \in Removed
         PROVE  Traced'
    <2>1. UNCHANGED <<history, live, selected, pc, held, cache, wasAbsent>>
      BY <1>11 DEF WatcherSend, task
    <2>2. chan' = chan \/ chan' = Append(chan, e)
      BY <1>11 DEF WatcherSend
    <2>3. ChanTraced'
      <3>1. CASE chan' = chan
        BY <2>1, <3>1 DEF Traced, ChanTraced, Existed, Removed
      <3>2. CASE chan' = Append(chan, e)
        BY <1>11, <2>1, <3>2, SentTraced DEF Traced
      <3> QED BY <2>2, <3>1, <3>2
    <2> QED BY <1>11, <2>1, <2>3 DEF Traced, CacheTraced, Existed, Removed
  <1>12. ASSUME NEW r \in Resources, ForwardItem(r) PROVE Traced'
    <2>1. PICK o \in items[r] : /\ WatcherSend(Add(o))
                                /\ items' = [items EXCEPT ![r] = @ \ {o}]
      BY <1>12 DEF ForwardItem
    <2>2. o \in Delivered /\ o.id \in Existed
      BY <2>1 DEF PTypeOK, Traced
    <2>3. \A s \in Resources : items'[s] \subseteq items[s]
      BY <2>1 DEF PTypeOK
    <2>4. Add(o) \in WatchEvents /\ Add(o).command = "Add" /\ Add(o).obj = o
      BY <2>2, EventTypes DEF Add
    <2> QED BY <1>11, <1>12, <2>1, <2>2, <2>3, <2>4 DEF ForwardItem
  <1>13. ASSUME NEW r \in Resources, ForwardApplied(r) PROVE Traced'
    <2>1. PICK i \in Nearest("applied", r) :
            WatcherSend(Add(Object(history[i].id, i, OwnType(r))))
      BY <1>13 DEF ForwardApplied
    <2> DEFINE o == Object(history[i].id, i, OwnType(r))
    <2>2. o \in Delivered /\ i \in 1..Len(history) /\ o.id = history[i].id
      BY ForwardedObject DEF Watchers, Object
    <2>3. Add(o) \in WatchEvents /\ Add(o).command = "Add" /\ Add(o).obj = o
      BY <2>2, EventTypes DEF Add
    <2>4. o.id \in Existed
      BY <2>2 DEF Traced
    <2> HIDE DEF o
    <2> QED BY <1>11, <1>13, <2>1, <2>3, <2>4 DEF ForwardApplied, o
  <1>14. ASSUME NEW r \in Resources, ForwardDeleted(r) PROVE Traced'
    <2>1. PICK i \in Nearest("deleted", r) :
            WatcherSend(Delete(Object(history[i].id, i, OwnType(r))))
      BY <1>14 DEF ForwardDeleted
    <2> DEFINE o == Object(history[i].id, i, OwnType(r))
    <2>2. /\ o \in Delivered /\ i \in 1..Len(history) /\ o.id = history[i].id
          /\ i \in Ahead("deleted", r)
      BY ForwardedObject DEF Watchers, Object
    <2>3. Delete(o) \in WatchEvents /\ Delete(o).command = "Delete" /\ Delete(o).obj = o
      BY <2>2, EventTypes DEF Delete
    <2>4. o.id \in Removed
      BY <2>2 DEF Ahead, Forwarded, Removed
    <2> HIDE DEF o
    <2> QED BY <1>11, <1>14, <2>1, <2>3, <2>4 DEF ForwardDeleted, o
  <1>15. ASSUME NEW r \in Resources, NEW w \in Watchers, List(w, r) PROVE Traced'
    <2>1. UNCHANGED <<history, live, selected, chan, pc, held, cache, wasAbsent>>
      BY <1>15 DEF List, vars
    <2>2. \A s \in Resources : \A o \in items'[s] : o \in items[s] \/ o.id \in selected
      BY <1>15 DEF List, PTypeOK, Object
    <2> QED BY <2>1, <2>2, SMTT(60) DEF Traced, ChanTraced, CacheTraced, Existed, Removed
  <1>16. ASSUME NEW r \in Resources, NEW w \in Watchers, Desync(w, r) PROVE Traced'
    BY <1>6, <1>16 DEF Desync, vars
  <1>17. ASSUME UNCHANGED <<chan, pc, held, cache, items>>,
                SetLive(live'), history' \in Seq(Changes),
                \A j \in 1..Len(history') : history'[j].id \in Existed'
         PROVE  Traced'
    <2>1. Removed \subseteq Removed' /\ Existed \subseteq Existed'
      BY ExistedGrows
    <2>2. ChanTraced'
      BY <1>17, <2>1 DEF Traced, ChanTraced
    <2>3. \A k \in Keys : cache[k] # NoEntry /\ cache[k].id \notin live'
            => cache[k].id \in Removed'
      <3>1. PTypeOK'
        BY PTypeStep
      <3> QED BY <2>1, <3>1 DEF Traced, CacheTraced, Existed, PTypeOK
    <2>4. \A k \in Keys : cache[k] # NoEntry => KeyOf(cache[k].id) = k
      BY DEF IInv, Stored
    <2>5. CacheTraced'
      BY <1>17, <2>1, <2>3, <2>4 DEF Traced, CacheTraced, SetLive
    <2> QED BY <1>17, <2>1, <2>2, <2>5 DEF Traced
  <1>21. ASSUME NEW id \in Objects, NEW type \in {"Apply", "Delete"}, NEW l,
                Change(type, id, l), type = "Delete" => id \in selected
         PROVE  Traced'
    <2>1. /\ history \in Seq(Changes) /\ history' = Append(history, [type |-> type, id |-> id])
          /\ UNCHANGED <<chan, pc, held, cache, items>>
          /\ SetLive(live')
      BY <1>21 DEF PTypeOK, Change, SetLive, queues, task, watching
    <2>2. /\ Len(history') = Len(history) + 1
          /\ history' \in Seq(Changes)
          /\ \A j \in 1..Len(history) : history'[j] = history[j]
          /\ history'[Len(history) + 1] = [type |-> type, id |-> id]
      BY <2>1 DEF Changes
    <2>3. Existed \subseteq Existed'
      BY ExistedGrows
    <2>4. id \in Existed'
      BY <1>21, <2>3 DEF Existed, Change
    <2>5. \A j \in 1..Len(history') : history'[j].id \in Existed'
      BY <2>1, <2>2, <2>3, <2>4 DEF Traced
    <2> QED BY <1>17, <2>1, <2>2, <2>5
  <1>22. ASSUME NEW id \in Objects, ChangeUnselected(id) PROVE Traced'
    <2>1. /\ UNCHANGED <<chan, pc, held, cache, items, history>>
          /\ SetLive(live')
      BY <1>22 DEF ChangeUnselected, ClusterChange, SetLive, queues, task, watching
    <2>2. history' \in Seq(Changes)
      BY <2>1 DEF PTypeOK
    <2>3. \A j \in 1..Len(history') : history'[j].id \in Existed'
      BY <2>1, ExistedGrows DEF Traced
    <2> QED BY <1>17, <2>1, <2>2, <2>3
  <1>18. CASE UNCHANGED pvars
    BY <1>6, <1>18 DEF pvars, vars, watching
  <1>19. CASE IngestStep /\ Unchanged
    BY <1>1, <1>2, <1>3, <1>4, <1>5, <1>7, <1>8, <1>19 DEF IngestStep
  <1>20. ASSUME NEW id \in Objects, Apply(id) \/ Remove(id) \/ Deselect(id) PROVE Traced'
    BY <1>20, <1>21 DEF Apply, Remove, Deselect
  <1> QED BY <1>9, <1>10, <1>12, <1>13, <1>14, <1>15, <1>16, <1>18, <1>19, <1>20, <1>22
      DEF PNext

LEMMA DropStep ==
  ASSUME PTypeOK, IInv, Traced, [PNext]_pvars,
         NEW k \in Keys, cache[k] # NoEntry, cache'[k] = NoEntry
  PROVE  \/ \E id \in Removed : KeyOf(id) = k
         \/ Misaddressed(cache[k])
  <1>a. TypeOK
    BY DEF PTypeOK
  <1>1. \/ RecvTyped \/ RecvTypeMeta \/ RecvDelete \/ PurgeCommit
        \/ cache' = cache
    <2>1. ASSUME NEW r \in Resources,
                 ForwardItem(r) \/ ForwardApplied(r) \/ ForwardDeleted(r)
          PROVE  cache' = cache
      BY <2>1 DEF ForwardItem, ForwardApplied, ForwardDeleted, WatcherSend
    <2>2. ASSUME NEW r \in Resources, NEW w \in Watchers, List(w, r) \/ Desync(w, r)
          PROVE  cache' = cache
      BY <2>2 DEF List, Desync, vars
    <2>3. ASSUME NEW id \in Objects,
                 Apply(id) \/ Remove(id) \/ Deselect(id) \/ ChangeUnselected(id)
          PROVE  cache' = cache
      BY <2>3 DEF Apply, Remove, Deselect, Change, ChangeUnselected, ClusterChange
    <2>4. ASSUME HelperReply \/ PollTick \/ PurgeTick PROVE cache' = cache
      BY <2>4 DEF HelperReply, PollTick, PurgeTick, TimerSend
    <2>5. ASSUME IngestStep
          PROVE  RecvTyped \/ RecvTypeMeta \/ RecvDelete \/ PurgeCommit \/ cache' = cache
      BY <2>5 DEF IngestStep, RecvUntyped, RecvPrintAll, PurgeBegin, CheckAnswered,
         CheckFailed
    <2>6. CASE UNCHANGED pvars
      BY <2>6 DEF pvars, vars
    <2> QED BY <2>1, <2>2, <2>3, <2>4, <2>5, <2>6 DEF PNext
  <1>2. ASSUME NEW o \in DynamicObjects, Insert(o) PROVE FALSE
    <2>1. cache'[k] = cache[k] \/ cache'[k] = o
      BY <1>2, <1>a DEF TypeOK, Insert
    <2> QED BY <2>1, NilAssumption
  <1>3. CASE RecvTyped
    <2>1. Head(chan).obj \in DynamicObjects
      BY <1>3, <1>a, TakenType, EventObject DEF RecvTyped, Receives
    <2> QED BY <1>2, <1>3, <2>1 DEF RecvTyped
  <1>4. CASE RecvTypeMeta
    <2>1. /\ held \in DynamicObjects
          /\ Head(rxType) \in TypeMetas \cup {NoType}
      BY <1>4, <1>a DEF RecvTypeMeta, TypeOK
    <2>2. [held EXCEPT !.types = Head(rxType)] \in DynamicObjects
      BY <2>1, RetypedType
    <2> QED BY <1>2, <1>4, <2>2 DEF RecvTypeMeta
  <1>5. CASE RecvDelete
    <2> DEFINE o == Head(chan).obj
    <2>1. chan # <<>> /\ Head(chan).command = "Delete"
      BY <1>5 DEF RecvDelete, Receives
    <2>2. o.id \in Removed
      <3>1. chan \in Seq(WatchEvents)
        BY <1>a DEF TypeOK
      <3>2. Head(chan) = chan[1] /\ 1 \in 1..Len(chan)
        BY <2>1, <3>1
      <3> QED BY <2>1, <3>2 DEF Traced, ChanTraced
    <2>3. RemoveAll({o})
      BY <1>5 DEF RecvDelete
    <2>4. k = KeyOf(o.id)
      BY <2>3 DEF RemoveAll
    <2> QED BY <2>2, <2>4
  <1>6. CASE PurgeCommit
    <2>1. PICK removed \in SUBSET missing : RemoveAll(removed)
      BY <1>6 DEF PurgeCommit
    <2>2. \E o \in missing : KeyOf(o.id) = k
      BY <2>1 DEF RemoveAll
    <2>3. k \in wasAbsent \/ Misaddressed(cache[k])
      BY <2>2 DEF IInv, PurgeVerdictsFresh
    <2> QED BY <2>3 DEF Traced, CacheTraced
  <1> QED BY <1>1, <1>3, <1>4, <1>5, <1>6

\* Everything on its way into the cache was created once, every Delete and every
\* absence a purge noticed is that of an object that was removed.
THEOREM TracedInvariance == PSpec => []Traced
  <1> QED BY TracedInit, TracedStep, PipelineInvariance, PTL DEF PSpec

\* The cache never drops the entry of an object unless one of its namespace and
\* name has been removed from the cluster or has left the selection, or the purge
\* asks for it at a plural its API does not have, whatever the watchers miss,
\* repeat or reorder and whenever a purge runs.
THEOREM DropsOnlyGoneObjects == PSpec => OnlyGoneObjectsDropped
  <1>1. PTypeOK /\ IInv /\ Traced /\ [PNext]_pvars
          => [\A k \in Keys : cache[k] # NoEntry /\ cache'[k] = NoEntry
                                => \/ \E id \in Removed : KeyOf(id) = k
                                   \/ Misaddressed(cache[k])]_pvars
    BY DropStep
  <1> QED BY <1>1, PipelineInvariance, TracedInvariance, PTL
      DEF PSpec, OnlyGoneObjectsDropped
=============================================================================
