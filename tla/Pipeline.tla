------------------------------ MODULE Pipeline ------------------------------
(***************************************************************************)
(* The whole path from the cluster to the cache.  Each watched API has one *)
(* task, which merges three watchers of kube's over the same API:          *)
(*   applied    forwards the Apply events only,                            *)
(*   deleted    forwards the Delete events only,                           *)
(*   restarted  forwards the items of its lists only.                      *)
(* The three list and follow the API independently of each other, so what  *)
(* each of them saw when it started differs.  A watcher that falls too far *)
(* behind (410 Gone) lists again and goes on from there.                   *)
(*                                                                         *)
(* An API may be watched with label and field selectors.  Its watchers see *)
(* only the objects selected, and an object that leaves the selection as a *)
(* Delete; a purge asks for objects without the selectors.                 *)
(*                                                                         *)
(* A task that holds an event while the channel is full is modelled as not *)
(* having taken it from its watcher yet: the event is the same, the log    *)
(* and the items of a list being immutable.                                *)
(***************************************************************************)
EXTENDS Ingest, Integers, FiniteSetsExt

CONSTANTS Filtered,     \* APIs watched with selectors
          MaxEvents,    \* bound on the changes the watchers can see
          MaxRelists    \* bound on the times a watcher starts anew

ASSUME FilteredAssumption == Filtered \subseteq Resources

\* An object's version is the number of the change that produced it, 0 at the
\* start.
ASSUME BoundAssumption ==
  /\ MaxEvents \in Nat
  /\ MaxRelists \in Nat
  /\ Versions = 0..MaxEvents

VARIABLES
  selected,   \* objects of the cluster that the selectors match
  history,    \* the changes of the selection so far, in order
  version,    \* the current version of each object
  listed,     \* where in history each watcher last listed, or Unlisted
  seen,       \* the last change each following watcher went past
  items,      \* items of the last list not forwarded yet, by API
  relists

Watchers == {"applied", "deleted", "restarted"}
Unlisted == -1

watching == <<listed, seen, items>>
pvars == <<vars, selected, history, version, watching, relists>>

Changes == [type : {"Apply", "Delete"}, id : Objects]

Object(id, ver, types) == [id |-> id, ver |-> ver, types |-> types]

PTypeOK ==
  /\ TypeOK
  /\ selected \subseteq live
  /\ history \in Seq(Changes) /\ Len(history) <= MaxEvents
  /\ version \in [Objects -> 0..Len(history)]
  /\ listed \in [Watchers -> [Resources -> Unlisted..Len(history)]]
  /\ seen \in [Watchers -> [Resources -> 0..Len(history)]]
  /\ items \in [Resources -> SUBSET Delivered]
  /\ relists \in 0..MaxRelists

PInit ==
  /\ Init
  /\ selected \in SUBSET live
  /\ \A id \in live \ selected : id.res \in Filtered
  /\ history = <<>>
  /\ version = [id \in Objects |-> 0]
  /\ listed = [w \in Watchers |-> [r \in Resources |-> Unlisted]]
  /\ seen = [w \in Watchers |-> [r \in Resources |-> 0]]
  /\ items = [r \in Resources |-> {}]
  /\ relists = 0
-----------------------------------------------------------------------------
(***************************************************************************)
(* The cluster.  An Apply of an object that is selected modifies it; an    *)
(* Apply of any other creates it or brings it into the selection.          *)
(***************************************************************************)
Change(type, id, l) ==
  /\ Len(history) < MaxEvents
  /\ history' = Append(history, [type |-> type, id |-> id])
  /\ version' = [version EXCEPT ![id] = Len(history) + 1]
  /\ selected' = IF type = "Apply" THEN selected \cup {id} ELSE selected \ {id}
  /\ SetLive(l)
  /\ UNCHANGED <<queues, task, cache, poisoned, watchers, watching, relists>>

Apply(id) == Change("Apply", id, live \cup {id})
Remove(id) == id \in selected /\ Change("Delete", id, live \ {id})

\* The selectors no longer match the object.
Deselect(id) == /\ id \in selected
                /\ id.res \in Filtered
                /\ Change("Delete", id, live)

\* An object the selectors do not match comes or goes unseen.
ChangeUnselected(id) ==
  /\ id \notin selected
  /\ id.res \in Filtered
  /\ ClusterChange(id)
  /\ UNCHANGED <<selected, history, version, watching, relists>>
-----------------------------------------------------------------------------
(***************************************************************************)
(* The watch tasks.                                                        *)
(***************************************************************************)
List(w, r) ==
  /\ r \in watchers
  /\ listed[w][r] = Unlisted
  /\ listed' = [listed EXCEPT ![w][r] = Len(history)]
  /\ seen' = [seen EXCEPT ![w][r] = Len(history)]
  /\ items' = IF w = "restarted"
              THEN [items EXCEPT ![r] = {Object(id, version[id], NoType) :
                                           id \in {i \in selected : i.res = r}}]
              ELSE items
  /\ UNCHANGED <<vars, selected, history, version, relists>>

\* Mutant of ForwardItem: the channel is not bounded.
ForwardItemUnbounded(r) ==
  /\ \E o \in items[r] :
       /\ chan' = Append(chan, Add(o))
       /\ items' = [items EXCEPT ![r] = @ \ {o}]
  /\ UNCHANGED <<rxApi, rxType, task, cache, poisoned, watchers, live, wasAbsent,
                 selected, history, version, listed, seen, relists>>

\* Mutant of ForwardItem: an item is dropped when the channel is full.
ForwardItemLossy(r) ==
  /\ \E o \in items[r] :
       /\ chan' = IF Len(chan) < Capacity THEN Append(chan, Add(o)) ELSE chan
       /\ items' = [items EXCEPT ![r] = @ \ {o}]
  /\ UNCHANGED <<rxApi, rxType, task, cache, poisoned, watchers, live, wasAbsent,
                 selected, history, version, listed, seen, relists>>

ForwardItem(r) ==
  /\ \E o \in items[r] :
       /\ WatcherSend(Add(o))
       /\ items' = [items EXCEPT ![r] = @ \ {o}]
  /\ UNCHANGED <<selected, history, version, listed, seen, relists>>

\* Mutant of Forwarded: the arms of the watchers are swapped.
ForwardedSwapped(w) == IF w = "applied" THEN "Delete" ELSE "Apply"

\* The changes a watcher has yet to forward: those past the ones it has seen
\* that its API made and that are of the type it forwards.
Forwarded(w) == IF w = "applied" THEN "Apply" ELSE "Delete"
Ahead(w, r) == {i \in seen[w][r] + 1 .. Len(history) :
                  history[i].type = Forwarded(w) /\ history[i].id.res = r}
Nearest(w, r) == {i \in Ahead(w, r) : \A j \in Ahead(w, r) : i <= j}

\* Mutant of ForwardApplied: the event takes its TypeMeta from the URL.
ForwardAppliedByURL(r) ==
  /\ listed["applied"][r] # Unlisted
  /\ \E i \in Nearest("applied", r) :
       /\ WatcherSend(Add(Object(history[i].id, i, ParseTypeMeta(r))))
       /\ seen' = [seen EXCEPT !["applied"][r] = i]
  /\ UNCHANGED <<selected, history, version, listed, items, relists>>

ForwardApplied(r) ==
  /\ listed["applied"][r] # Unlisted
  /\ \E i \in Nearest("applied", r) :
       /\ WatcherSend(Add(Object(history[i].id, i, OwnType(r))))
       /\ seen' = [seen EXCEPT !["applied"][r] = i]
  /\ UNCHANGED <<selected, history, version, listed, items, relists>>

ForwardDeleted(r) ==
  /\ listed["deleted"][r] # Unlisted
  /\ \E i \in Nearest("deleted", r) :
       /\ WatcherSend(Delete(Object(history[i].id, i, OwnType(r))))
       /\ seen' = [seen EXCEPT !["deleted"][r] = i]
  /\ UNCHANGED <<selected, history, version, listed, items, relists>>

\* The API server no longer has the changes the watcher would go on from.
Desync(w, r) ==
  /\ r \in watchers
  /\ relists < MaxRelists
  /\ listed[w][r] # Unlisted
  /\ w = "restarted" => items[r] = {}
  /\ listed' = [listed EXCEPT ![w][r] = Unlisted]
  /\ relists' = relists + 1
  /\ UNCHANGED <<vars, selected, history, version, seen, items>>
-----------------------------------------------------------------------------
Unchanged == UNCHANGED <<selected, history, version, watching, relists>>

PNext ==
  \/ (IngestStep \/ HelperReply \/ PollTick \/ PurgeTick) /\ Unchanged
  \/ \E r \in Resources :
       \/ ForwardItem(r) \/ ForwardApplied(r) \/ ForwardDeleted(r)
       \/ \E w \in Watchers : List(w, r) \/ Desync(w, r)
  \/ \E id \in Objects : Apply(id) \/ Remove(id) \/ Deselect(id) \/ ChangeUnselected(id)

PSpec == PInit /\ [][PNext]_pvars

\* Senders that wait for a place in a channel get it in turn (tokio's
\* semaphore is FIFO), and select_all polls all the watchers of a task: strong
\* fairness of every send.  A list that fails is tried again; the client has
\* timeouts.  A purge finds the client connected again and again, and no GET
\* fails for ever.
PFairness ==
  /\ WF_pvars(IngestStep /\ Unchanged)
  /\ WF_pvars(HelperReply /\ Unchanged)
  /\ SF_pvars(PurgeTick /\ Unchanged)
  /\ SF_pvars(PurgeBegin(TRUE) /\ Unchanged)
  /\ SF_pvars((\E o \in todo : CheckAnswered(o)) /\ Unchanged)
  /\ \A r \in Resources :
       /\ SF_pvars(ForwardItem(r))
       /\ SF_pvars(ForwardApplied(r))
       /\ SF_pvars(ForwardDeleted(r))
       /\ \A w \in Watchers : WF_pvars(List(w, r))

PFairSpec == PSpec /\ PFairness

\* Every step of the pipeline is one of Ingest's, so that everything proved
\* and checked of the ingest task holds of it behind these watch tasks.
IngestSpec == Spec
-----------------------------------------------------------------------------
Cached(id) == cache[KeyOf(id)] # NoEntry /\ cache[KeyOf(id)].id = id

Removed == {history[i].id : i \in {j \in 1..Len(history) : history[j].type = "Delete"}}

\* Every task of the path may forget, repeat and reorder what it forwards, but
\* the cache drops an object only when one of that namespace and name did get
\* removed from the cluster or from the selection, or when a purge asks for it at
\* a plural its API does not have (see PurgesInactiveOnly).
OnlyGoneObjectsDropped ==
  [][\A k \in Keys : cache[k] # NoEntry /\ cache'[k] = NoEntry
                       => \/ \E id \in Removed : KeyOf(id) = k
                          \/ Misaddressed(cache[k])]_pvars

\* Why: every object in the pipeline was selected at some time, every Delete event
\* is of an object that was removed, and so is what a purge may find missing.
Existed == selected \cup Removed

ChanTraced == \A i \in 1..Len(chan) :
                /\ chan[i].command = "Add" => chan[i].obj.id \in Existed
                /\ chan[i].command = "Delete" => chan[i].obj.id \in Removed

CacheTraced ==
  /\ \A k \in Keys : cache[k] # NoEntry => cache[k].id \in Existed
  /\ \A k \in wasAbsent : \E id \in Removed : KeyOf(id) = k

Traced ==
  /\ \A i \in 1..Len(history) : history[i].id \in Existed
  /\ \A r \in Resources : \A o \in items[r] : o.id \in Existed
  /\ ChanTraced
  /\ pc = "typing" => held.id \in Existed
  /\ CacheTraced

\* A purge asks for the object by the TypeMeta it was cached with.  It cannot
\* find out about an object without a namespace or a TypeMeta, or of a custom
\* kind whose plural it does not know.
Purgeable(id) == id.res \notin ClusterScoped \cup Unparsed \cup (Irregular \ BuiltIn)

\* Whatever Delete events the watchers missed or overtook, an object that is
\* gone for good is out of the cache for good at last.
GhostsPurged ==
  \A id \in Objects :
    Purgeable(id) /\ <>[](id \notin live) => <>[]~Cached(id)

\* The applied watcher listed no later than the restarted one, so no change
\* fell between what the one listed and what the other follows.
NoGap(r) == /\ listed["applied"][r] # Unlisted
            /\ listed["applied"][r] <= listed["restarted"][r]

\* The version of an object after the first n changes.
VersionAt(id, n) == Max({0} \cup {i \in 1..n : history[i].id = id})

UpToList(id) ==
  /\ Cached(id)
  /\ relists = 0 => cache[KeyOf(id)].ver >= VersionAt(id, listed["restarted"][id.res])

\* No other object has its namespace and name.
KeyAlone(id) == \A other \in Objects : KeyOf(other) = KeyOf(id) => other = id

\* No purge takes the object for gone because it asks at a wrong plural.
PurgeSafe(id) == id.res \notin Irregular \cap BuiltIn

\* Something of the object is on its way: an item of a list, an event the applied
\* watcher has yet to forward, a command in the channel or the one worked on.
Underway(id) ==
  \/ \E o \in items[id.res] : o.id = id
  \/ \E i \in Ahead("applied", id.res) : history[i].id = id
  \/ \E n \in DOMAIN chan : chan[n].command = "Add" /\ chan[n].obj.id = id
  \/ pc = "typing" /\ held.id = id

\* An object that is never removed and shares its key with no other is never lost
\* between the watchers, the channel, the helper and a purge, if a purge asks for
\* its kind at the right plural and the two watchers that report it started
\* without a gap: what is no longer on its way is cached;
\* and in a state no older than the list, though the older events of the applied
\* watcher may have come after it, if no watcher had to start anew.
KeptObjectsNotLost ==
  \A id \in Objects :
    KeyAlone(id) /\ PurgeSafe(id) /\ id \in selected \ Removed /\ NoGap(id.res) =>
      pc = "dead" \/ Underway(id) \/ UpToList(id)

\* Such an object is cached at last.
KeptObjectsCached ==
  \A id \in Objects :
    KeyAlone(id) /\ PurgeSafe(id) /\ (<>[](id \in selected /\ id \notin Removed /\ NoGap(id.res)))
      => <>[]UpToList(id)
-----------------------------------------------------------------------------
(***************************************************************************)
(* "Based on filtering rules BEP starts watching desired k8s resources and *)
(* creates various Backstage Entities" (README.md:3), "Starts threads to   *)
(* track configured resources" (watch.rs:30): an object the rules select   *)
(* for good is cached, and no other.  Five ways in which it is not so.     *)
(***************************************************************************)
\* An object that was removed and created again under the eyes of all three
\* watchers is cached at last.
RecreatedObjectsCached ==
  \A id \in Objects :
    <>[](id \in selected /\ \A w \in Watchers : listed[w][id.res] = 0) => <>[]Cached(id)

\* In a cluster that never changes, every object is cached at last.
SettledClusterCached == (<>[](history = <<>>)) => \A id \in Objects : <>[](id \in selected => Cached(id))

\* "insert or update DynamicObject in the cash" (ingest.rs:150): the state that
\* stays in the cache is the latest one.
LatestStateCached ==
  \A id \in Objects :
    <>[](/\ id \in selected /\ id \notin Removed
         /\ \A w \in Watchers : listed[w][id.res] = 0)
      => <>[](Cached(id) => cache[KeyOf(id)].ver = version[id])

\* An object that stays, but that the selectors do not match any more, leaves
\* the cache at last.
DeselectedDropped ==
  \A id \in Objects : <>[](id \in live \ selected) => <>[]~Cached(id)

\* "find inactive objects" (ingest.rs:195), "Check if k8s resources is still
\* ready in the cluster" (watch.rs:161): what a purge removes was absent from the
\* cluster at some time since it was stored.
PurgesInactiveOnly ==
  [][pc = "checking" => \A k \in Keys : cache[k] # NoEntry /\ cache'[k] = NoEntry
                                           => k \in wasAbsent]_pvars
=============================================================================
