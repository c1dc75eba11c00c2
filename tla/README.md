# A TLA+ verification of k8s-entity-provider

The provider (a Rust program on tokio, kube and actix-web) watches selected APIs of a
Kubernetes cluster, keeps the objects they report in a shared cache, and serves
[Backstage](https://backstage.io) entities made of that cache over HTTP. This directory
models the program, model-checks the models on small instances with TLC, and proves the
results that matter most with TLAPS for every value of the constants.

1. [The system](#1-the-system)
2. [Modules and code](#2-modules-and-code)
3. [What is checked](#3-what-is-checked)
4. [What the checks found](#4-what-the-checks-found)
5. [Fairness](#5-fairness)
6. [What is proved](#6-what-is-proved)
7. [What is not modelled](#7-what-is-not-modelled)
8. [Plan](#8-plan)

Paths such as `watch.rs:93` are relative to `src/src/` and its subdirectories
`ax_kube/`, `backstage/` and `routes/api/v1/`.

## 1. The system

```
 API server            watch task, one per watched API               ingest task         HTTP handlers
 ----------    +---------------------------------------------+      +-------------+
   list/watch->| applied   (Apply events)  \                 |      |             |lock
   list/watch->| deleted   (Delete events)  > select_all ----+----->| command     +---> BTreeMap <--- /entities
   list/watch->| restarted (items of lists)/                 | (32) | loop        |     in a Mutex    /redis/status
               +---------------------------------------------+  ^   +--+-------+--+
                                            poll timer ---------+      |URL    ^TypeMeta
                                            purge timer --------+      v (32)  | (32)
   GET of each cached object, during a purge <-----------------     TypeMeta helper task
```

| component | source | state | operations | interacts with |
|---|---|---|---|---|
| Kubernetes client | `client.rs` | `KUBE_CLIENT`, a static `OnceCell` over a mutex over an optional client | `client()`, `initialize()`, `cleanup()`, the retry loop and its back-off | called by start-up and by every purge |
| Discovery | `discovery.rs`, `apigroup.rs` | the groups and versions listed, the APIs reported so far | one request for the groups, one for each version, the same for the core group; `resolve_api_resources`, `dynamic_api` | called once, before the watch tasks are spawned; decides which do run |
| Watch tasks | `watch.rs` | the position of three watchers in the history of one API | list, forward an Apply, a Delete, an item of a list, start anew after 410 Gone | API server; send `WatchEvent`s to the ingest task |
| Ingest task | `ingest.rs`, `watch_event.rs`, `mod.rs` | its place in the command loop, the copy a purge works on | Add, Delete, PrintAll, Purge | the helper over two channels, the API server in a purge, the cache |
| TypeMeta helper | `ingest.rs:71-98, 309-358` | two channels | match a URL with four patterns, answer | ingest task |
| Timers | `ingest.rs:27-66` | none | send PrintAll, send Purge | ingest task |
| Cache | `ax_types.rs` | `Arc<Mutex<BTreeMap<String, DynamicObject>>>` | insert, remove, iterate | ingest task, handlers |
| Entity conversion and handlers | `entities.rs` (two files) | per request: entities collected, clusters and systems seen | convert a StatefulSet, a Pod, a configured entity; merge clusters; report Redis status | cache |
| Server and process | `main.rs`, `startup.rs`, `health_check.rs`, `version.rs`, `utils.rs` | what was started, the requests in flight | load, ask for the version, discover, spawn, bind, serve, drain, exit | everything |
| Configuration | `configuration.rs` | settings, read once | load, validate | everything |
| Errors, telemetry | `errors.rs`, `telemetry.rs` | none | | |

### What makes it hard, and what correct means

* **Three watchers, one API.** The watch task builds three independent kube watchers over
  one API and merges them in any order (`watch.rs:89-105`). They list at different
  moments, lag behind one another and start anew independently. *Correct:* an object that
  stays is cached at last; one that is gone is out at last; the cache drops nothing that
  was never removed; what stays is the latest state.
* **A purge works on a copy.** It clones the cache, releases the mutex, awaits one GET for
  each object, locks again and removes (`ingest.rs:198-221`). *Correct:* a verdict must be
  about what is cached when it is carried out; a failed GET removes nothing, nor does one
  that asks for something else than the object.
* **Answers are paired by order alone.** The helper's replies carry no name
  (`ingest.rs:100-118`). *Correct:* one answer for one question, always, also when a URL
  matches no pattern.
* **Panics.** A missing `creationTimestamp` kills the ingest task (`mod.rs:19`), the watch
  tasks then panic on their next send (`watch.rs:149`); a panic with the mutex held would
  poison it for every reader. *Correct:* the readers survive.
* **Back-pressure.** Watch tasks and timers block on a channel of 32 places while the
  ingest task awaits the helper or a purge. *Correct:* nobody waits for ever.
* **The client**: the cell is checked and filled in two steps (by one caller at a time in this
  program); the retry counter has two tests and its arithmetic saturates. *Correct:* a pooled client is
  never replaced, a failing call makes exactly the attempts configured, the delay is the
  documented formula.
* **Merging shards.** The Resource of a Redis cluster is put together from StatefulSets
  that arrive with others between them; labels and status fields are unwrapped with the
  mutex held. *Correct:* every shard counted once, references lead somewhere, no two
  entities are the same to Backstage, and exactly which caches panic is known.

* **What is listed is queried later.** Discovery lists the groups with their versions and
  queries them one by one, while APIs come and go; any request may fail, and each failure
  ends the discovery (`discovery.rs:54-78`). *Correct:* what is watched is chosen from
  all the answers or nothing is watched; what was there all the time is not overlooked,
  no kind is watched in two versions.
* **Two matches with the configuration.** An API is looked up in a map of the configured
  names, then the list of entries is gone through by either name, without the groups
  (`discovery.rs:80-145`, `apigroup.rs:124-232`). *Correct:* an API is watched with the
  selectors of the entry that asks for it.
* **A process that goes on without its parts.** Start-up takes the version request's and
  discovery's failures and serves all the same (`main.rs:20-45`). *Correct:* no watch task
  without the ingest task behind it; the port is bound or the process ends; it ends on a
  signal.
* **Arguments found at run time.** actix looks up what a handler takes in what was
  registered, by type. *Correct:* the entities are served.

`PROJECT.json` lists these hazards one by one at the line where they bite, with the
properties that would catch them.

## 2. Modules and code

| module | models |
|---|---|
| `Objects` | the data: objects, TypeMetas, the four commands, the cache key, how a purge addresses an object |
| `Ingest` | ingest task, TypeMeta helper, timers, cache, panics; the watch tasks may send anything |
| `CacheStore` | the abstract specification: a queue of commands that take effect one at a time |
| `Pipeline` | extends `Ingest` by the real watch tasks and the cluster behind them |
| `KubeClient` | the client cell, the retry loop, the back-off |
| `Entities` | both handlers as one pass over a cache, object by object |
| `Discovery` | operators: which APIs are watched, given what was reported and what is configured |
| `Process` | the life of the process: start-up, discovery request by request, server, signals |
| `MC...` | constants for TLC |
| `...Proofs` | theorems and proofs; `PipelineProofs` has the drops from the cache, `KeptProofs` builds on it for what is kept |
| `Induction` | lemmas on natural numbers the proofs share: least and greatest elements, induction over a set |

`Pipeline` composes with `Ingest` by sharing its variables: a step of a watch task is
`Ingest!WatcherSend` with an event that the three watchers really have to forward, and the
change of the cluster that moves the watchers also moves what the GETs of a purge see.
`Ingest` refines `CacheStore` (instance `Store`), `Pipeline` refines `Ingest`
(property `IngestSpec`), and so the whole path refines `CacheStore`.
`Process` extends `Discovery`. Its `watches` are what `Pipeline` takes for granted as the
constant `Resources`: the two modules meet where `watch()` returns, after which start-up
has no say in the pipeline and the pipeline none in the server.

### Ingest

One action per arm of the command loop and per await inside it.

| action | code |
|---|---|
| `RecvTyped` | Add of an object with a TypeMeta, `ingest.rs:126-158` |
| `RecvUntyped`, `RecvTypeMeta` | Add of an object without: ask the helper, await its answer, insert |
| `RecvDelete`, `RecvPrintAll` | the arms at `ingest.rs:163-196` |
| `PurgeBegin(connected)` | copy of the cache; `check_objects` filters it, or fails for want of a client |
| `CheckAnswered(o)`, `CheckFailed(o)` | one GET of `check_objects`, `watch.rs:222-243`. The code asks in the order of the map; the model in any order |
| `PurgeCommit` | lock again and remove what was missing |
| `HelperReply` | the helper task |
| `WatcherSend`, `PollTick`, `PurgeTick` | the senders. A watch task unwraps the result and dies with the receiver, a timer ignores it |
| `ClusterChange` | an object comes or goes on the API server |

What there is to know of an API is five bits: whether it is cluster-scoped (its keys are
`none/<name>` and a purge skips it), whether its URL matches no pattern (`Unparsed`: a
group or plural with a dash does that), whether its plural is not `lower(kind) + "s"`
(`Irregular`: a purge then asks for an object that came in a watch event at a URL that does
not exist), whether its group is `BuiltIn`, and whether its objects lack a timestamp
(`Stampless`; no served API is known to be so, the code unwraps an optional field).
What an irregular kind is answered depends on `BuiltIn`. A group that the API server or an
aggregated one serves with its own code answers an unknown plural with a Status whose reason
is `NotFound`; kube's `get_opt` turns that into `None`, and the object counts as missing while
it exists (`Misaddressed`: Ingress, Endpoints, NetworkPolicy). For a group of custom
resources the 404 is a plain page, which kube reports as an error, and the object is
kept for ever (not `Answerable`). An object that came in a list is typed from its URL, whose
plural comes back as it was. `wasAbsent` is a history variable:
the keys whose object was absent from the cluster at some time since it was stored.

`WatchCommand::Update` and `None` are matched by the loop but built nowhere.

### Pipeline

`history` is the log of what the watchers can see; each watcher has the place where it
listed and the place it has followed to. A channel send that
blocks is a watch task that has not taken the event yet. `Filtered` APIs are watched with
selectors: an object that leaves the selection is a Delete to the watchers while it goes
on existing for the GETs of a purge. `Desync` is 410 Gone: the watcher lists again, and the
applied and deleted watchers lose what lay between.

### KubeClient

A call is one invocation of `client()` or `initialize()`. The check of the cell
(`client.rs:50-58`) and its filling (lines 75-79) are separate actions, with the
connection between them; the second check, at line 75, and `set` are one action, since a
`OnceCell` that is filled refuses another value. The retry settings are chosen at the start. In the program as it is
built start-up and the ingest task call `client()` in turn, and nothing calls
`initialize()` or `cleanup()`; the module models the functions as they may be called.
The end of the `while` loop and the last `unwrap_or_else` are unreachable and
have no action.

### Entities

A handler is a pass over the objects of the cache in the order of their keys, one action
per object, so that a panic in the middle leaves a state to look at. The object is
reduced to what the conversion branches on. The mutex is held from the first object to the last,
so no other task interleaves, and the model has none. `AddCluster` is nondeterministic: the
clusters come out of a hash map. Titles, links, the text of the status report
and copied labels are left out. The handlers are modelled as functions called with their
arguments; whether the server can supply them is a question to `Process`.

### Discovery

Of an API there are its group, its version (as the number of its priority), kind, plural
and scope; of a configured entry its name, its groups and its namespaces. Names are words,
compared in lower case as the code does.

| definition | code |
|---|---|
| `RecommendedResources` | `recommended_resources` of kube's `ApiGroup`: the most stable version of each kind, `CHOOSE` where the code takes the first listed |
| `LookedUp`, `Resolved` | the two `get`s on the map of names, kind before plural; the map keeps the last entry of a name |
| `Places`, `DynamicApi` | one watch in all namespaces for a cluster-scoped API or an entry without namespaces, else one in each |
| `Watches` | the two matches, one after the other |

`Asks` is not in the code: it is what the entry says, name and group together, and the
yardstick of `WatchedIsAsked` and `StableApisWatched`.

### Process

| action | code |
|---|---|
| `Load` | `get_configuration().expect(..)`: a refused configuration is a panic |
| `GetVersion`, `GetClient`, `ClientFails` | the first connection may fail and leave the cell empty; a failed client ends `watch()` only |
| `ListApiGroups`, `Query`, `ListCore`, `ListCoreVersions` | the requests of `discovery.rs` in their order. The versions of a stage are queried in any order, the code takes them as listed |
| `DiscoveryFails` | any of these fails, in particular because the version is no longer served; nothing found so far is kept |
| `SpawnWatches`, `StartIngest` | the watch tasks; then the ingest task, whose intervals panic on zero |
| `Bind` | the port is free, or the process ends |
| `Accept`, `Answer` | a request, answered by 200, by 404 for no route, by 500 for want of an argument |
| `Signal`, `Drained`, `DrainTimeout` | actix's own handling: SIGTERM waits for the requests in flight, 30 s at most, SIGINT for none |
| `ChangeApi` | an API comes or goes; those of the core group do neither |

A group that the API server lists without any version (`Hollow`) panics the code that takes the
first one; no server is known to send one, and the type of the answer allows it.
`graceful_shutdown` has no action: `run()` awaits the server before it returns that future,
and `main` drops it. `ever` and `stable` are history variables.

## 3. What is checked

| run | instance | question and answer |
|---|---|---|
| `ingest_kinds` | one object each of four APIs: ordinary, cluster-scoped, custom with an unmatched URL and an irregular plural, without timestamp; two places per channel; 1.7 million states | Can helper, purge and panics get the ingest task's state out of step? No: `LookupPairing`, `PurgeVerdictsFresh`, `MutexNeverPoisoned`, and the inductive invariant `IInv` the proofs use |
| `ingest_store` | two built-in APIs, one of them irregular, two names: keys are shared, a purge has two objects to look up and asks for some at a wrong URL; one place per channel; 227 thousand states | Does any interleaving show through to the cache? No: `ImplementsStore` |
| `pipeline` | one filtered API and object, two changes, one relist, with fairness; 83 thousand states | What do three watchers and a purge guarantee? `OnlyGoneObjectsDropped`, `KeptObjectsNotLost`, `GhostsPurged`, `KeptObjectsCached`, `QueueServed`, `IngestSpec`, and `Traced` |
| `client` | two calls, `cleanup()`, 19 settings, words of five bits; 11 thousand states | Pool, retry budget, delay, return of every call: `PoolNeverReplaced`, `HandedOutPooled`, `RetryBudget`, `DelayFormula`, `CallsReturn` |
| `entities` | every cache of two objects of any shape, of three as deployed; 162 thousand states | `ClustersMerged`, `PanicsExactly`, `VisibleInCatalog`, `RefsResolve`, `EntitiesApart` |
| `process` | seventeen configurations; five APIs, a stable version and a group of which come and go, twice; every request may fail; 27 thousand states | What is watched, and what runs without it? `StableApisWatched`, `WatchedIsAsked`, `OneVersionWatched`, `WatchesReceived`, `StartsOrStops`, `StopsOnSignal` |
| `late_delete`, `key_collision`, `stale_item`, `deselected`, `wrong_plural`, `unserved` | small ones | what the documentation says and the code does not do: section 4 |

Every property of a passing run has a mutant (operators commented "Mutant of ...": a
plausible mistake in the code) under which TLC finds the property violated in that run.

### Bounds and why they are enough

* **Capacity** 1 or 2 for the channels of 32. A channel of one place is full more often
  than one of 32, so every block of a sender occurs; order in the queue needs two. The proofs hold for every capacity.
* **Objects.** One key can be contended by two APIs only if there are two, and a purge
  can answer for one object while another is stored only if there are two names;
  `ingest_store` has both, and an irregular built-in API. Which kind of API an object is of
  matters to each object on its own; `ingest_kinds` has one of each other kind. `pipeline` has an
  ordinary API, since what it says of objects that are kept would be empty for an irregular
  one. With the irregular built-in API in its place TLC found `Traced`,
  `OnlyGoneObjectsDropped` and `GhostsPurged` to hold too (92 thousand states); the first two
  are proved for any APIs.
* **MaxEvents = 2, MaxRelists = 1.** An object that is removed and comes back needs two
  changes; each of the three watchers may list before, between or after them, and one may
  do so again. Three changes took the run past its time without a new kind of behaviour:
  the two watchers that follow the log forward one type of event each, so what can pass
  what is already there with two. The safety results are proved for any number.
* **MaxWord = 31**, a `u64` of five bits. Base delays 0, 1, 5 and 31 and caps 0, 8, 30
  and 31 put the product, the power and the jitter's sum below, at and past its end within
  three retries. `SaturationHarmless` is proved for every word.
* **Names in `Entities`:** two shards, one pod, and three cluster names: with "smf",
  with "upf", with both.
* **Configurations in `Process`:** entries by kind and by plural, in any group, in one and in
  two, for all namespaces and for two; a name two groups have, two names of one API, one
  name twice, no entry at all; and one configuration for each way to be refused.
  **MaxChanges = 2** lets an API that was listed be gone when it is queried and be back
  later, or one version go and another come between two requests. The violation run needs
  no change. The proofs hold for any number, and for any cluster and configuration.
* **One request at a time** in `Process`: handlers share only the cache there, and a
  second request in flight would be cut off or waited for like the first.
* CHECK_DEADLOCK is off: the pipeline may end with the ingest task dead, the client
  and the handlers end when they have answered, and the process ends.

## 4. What the checks found

Each violation run checks one sentence of the repository and finds it not to hold.

* `late_delete`: the deleted watcher lags; the cache loses an object that was deleted and
  created again. The item of a Delete is not compared with what is cached.
* `stale_item`: an item of a list reaches the cache after a later Apply and stays.
* `key_collision`: a StatefulSet and a Service of one namespace and name share a key, and
  in a cluster that never changes one of them is missing for good.
* `deselected`: an object that left the selection before the deleted watcher listed stays
  in the cache: the GET of a purge ignores selectors.
* `wrong_plural`: an Ingress that came in a watch event is asked for as `ingresss`; the API
  server has no such resource, the purge takes the object for gone and removes it alive
  (`watch.rs:219, 234-237`). It comes back with its next change or relist.
* `unserved`: `get_entities` takes five arguments of types that are not registered, so
  actix answers 500 to every request for the entities (`routes/api/v1/entities.rs:29-33`
  against `startup.rs:114-131`); `/api/v1/redis/status` and `/version` fare likewise.

Observations without a run of their own:

* An entry "pods" without groups is watched as Pod of the core group and as PodMetrics of
  `metrics.k8s.io`, whose plural is "pods" too (`Resolved` of `Discovery`). The comment at
  `discovery.rs:90-92` has the minimal group chosen, as kubectl does.
* A ghost of an irregular custom kind that came in a watch event is never purged: its GET
  fails each time. `Purgeable` leaves these kinds out of `GhostsPurged`.
* A StatefulSet without a cluster label is served as two Resources of one name, the shard
  and the cluster made of it (`backstage/entities.rs:428-441`). `NamesApart` leaves such caches
  out of `EntitiesApart`.
* Cluster and System look for "upf" and "smf" in different orders (`backstage/entities.rs`):
  a cluster whose name has both refers to a System that is not served. `RefsResolve`
  leaves such names out.
* Annotations configured for a group, user or domain are merged into a copy that is not
  used; `FromStaticConfig` does as the code does.
* `WatchedIsAsked` needs `EntriesApart` in its last part: with entries "pods" (group
  `metrics.k8s.io`) and "pod" (any), each is watched with the other's selectors too.
* The checks on the configuration refuse the default of `server.cors` (enabled, no
  origins, not all of them), so the key is mandatory, which the deployment's config map
  leaves out; it also nests `backstage` under `server`, and `annotations` is misspelt in
  three files. An empty group is refused, so no entry can ask for the core group alone.
  Environment variables are split at "_", so they do not reach a key that has one in it.
* `/healthz` answers 200 with nothing watched, and both probes of the deployment ask it.

`KeptObjectsNotLost` (what is not on its way any more is cached) and `KeptObjectsCached` (it
is cached at last) hold only under conditions that are part of their statements, and that
are observations in their own right: the object is not of an irregular built-in kind
(`PurgeSafe`; see `wrong_plural`), the applied watcher listed no later than the
restarted one (`NoGap`; a change in the gap is reported by nobody), no other object has
the namespace and name (`KeyAlone`; see `key_collision`), and, for the claim about
versions, that no watcher had to start anew (a relist of the applied watcher skips the
changes it would have forwarded). The version cached is then at least the one listed and
not always the latest (`stale_item`): a later event of the applied watcher may have been
forwarded before the item.

## 5. Fairness

* The runtime polls a task that can run: weak fairness of the ingest task's step and of
  the helper. A GET returns because the client has connect, read and write
  timeouts of 30 s (`client.rs:172-176`).
* Senders wait for a place in the channel in turn, tokio's semaphore being FIFO; the
  channel is full again and again, so this is strong fairness of each send.
  `select_all` polls all the watchers of a task.
* kube's watcher tries a failed list again: weak fairness of `List`. Nothing is assumed
  of `Desync`, of the cluster or of the panics.
* `GhostsPurged` needs the API server to answer: strong fairness of a connected purge and
  of some GET being answered. Neither is assumed for safety, and `QueueServed` does not
  need them.
* A connection attempt ends (the timeouts), and a sleep does: weak fairness of a call's
  progress in `KubeClient`. The API server may refuse for ever.
* The same timeouts end every request of start-up, one way or another: weak fairness of
  `StartUp` in `Process`. That is all `StartsOrStops` needs, `DiscoveryFails` being an end
  like any other. The server's own time limit ends a drain: weak fairness of `Drained \/
  DrainTimeout`. Nothing is assumed of requests, of their being answered (a handler may
  hang), of signals, or of the cluster.

## 6. What is proved

The assumptions are the named ASSUMEs of the modules: the five sets are sets of APIs,
capacities are positive, the nil values are not objects. Nothing else is taken for granted, and the sets of APIs, names and
calls need not be finite.

**Ingest** (`IngestProofs`). `IInv` is inductive. `PurgeVerdictsFresh` alone is not: that a
verdict is about the object cached *now* needs that the task receives no command
while it checks (`PurgeScope`), and that a missing object is among `wasAbsent` needs
that objects are stored under their own keys and their absence was noticed (`Stored`).
A missing object that is not among `wasAbsent` is `Misaddressed`; the exception is part of
`PurgeVerdictsFresh`, of what `CacheStore` allows a purge, and of every theorem below that rests on them.
`MutexNeverPoisoned` needs that no object without a timestamp is cached.
With type correctness (`TypeCorrect`) it yields the invariant (`Invariance`) and its
parts by name (`LookupsPaired`, `VerdictsFresh`, `NeverPoisoned`), and that
every step is a step of `CacheStore` or a stutter (`Refinement`): questions to the helper
and GETs stutter; the answer, or the commit of the purge, is the command taking effect.

**Pipeline** (`PipelineProofs`). Every step is one of `Ingest` (`PipelineImplementsIngest`),
so the invariant carries over (`PipelineInvariance`). `DropsOnlyGoneObjects` is the safety
of the cache behind three watchers that forget, repeat and reorder: an entry leaves only
for an object of its key that was removed or deselected, or because a purge asks for it at
a wrong plural. The inductive argument
is `Traced`: everything in the pipeline was selected once, Delete events are of removed
objects, and whatever was absent since it was stored was removed (`TracedInvariance`).
With the refinement of `Ingest` the whole path implements `CacheStore`
(`PipelineImplementsStore`).

**What is kept** (`KeptProofs`). `KeptNeverLost` is the other half: an object that is never
removed does not get lost. `KeptObjectsNotLost` is not inductive, since it says nothing
while the object is on its way. `KeptInv` says where it is. `NotLost`: an object that stays
is an item not yet forwarded, or the ingest task has it (in the channel, in hand, cached),
or it came after the restarted watcher listed, and then, if there is no gap, the applied watcher
has its event still ahead. `NotStale`: of all that, what is going to be stored last is no older than the
last change listed. The order in which the commands come matters: an older event may be forwarded
after a newer item, and the proof shows that the event of the last change listed is then
still ahead of the applied watcher. For the moment the applied watcher lists, the
invariant also says that all that was sent before is in the state listed (`OnlyItemsSent`,
`ItemsFresh`, which need that no watcher has started anew). Presence in the cache is
stable because of `DropStep`: an entry goes only if its object was removed or is
`Misaddressed`, and since an entry has the TypeMeta of its own API (`LookupPairing`) an object that is
`PurgeSafe` is not. The step is
proved action by action, those of the ingest task by way of `FlowKept`: none of them loses
the object or changes which state of it is stored last. TLC checked `KeptInv` before it was proved (one
API with selectors, three changes, two relists: 1.4 million states).

**KubeClient** (`KubeClientProofs`). The attempts of a call go with its counter
(`AttemptCounted`), whence the budget (`BudgetKept`); once a call has a client the cell is
not unset (`Pooled`); the cell changes from unset only once (`PoolStays`);
the saturating arithmetic yields `min(max_delay, base * power)` for every word
(`SaturationHarmless`), and every sleep lies between that and a quarter above it
(`BackoffFormula`). That the powers of two of `DelayFormula` are positive numbers is proved of the
recursive function `PowerOfTwo` by induction over the set of the numbers for which it holds
(`Induction`); so `DelayDocumented` and `ClientTypeCorrect` hold for every attempt.

**Entities** (`EntitiesProofs`). The handlers panic on exactly the caches `Fatal` describes
(`PanicsCharacterised`): what `seen` holds is related to the objects passed, and a cluster
seen without dependencies to the one shard without a label. Every entity
carries the global annotations (`AlwaysVisible`), by an invariant over `res` and `seen`;
the state is well-typed for caches of any size (`EntitiesTypeCorrect`).

What is served is related to what was passed by `CollectedInv`: every entity comes from an
object, a cluster or the configuration (`Sources`), every object passed has left its
entities, and every cluster is still in `seen` or already served (`Collected`), once
(`ClustersOnce`), and nothing is served twice (`Apart`). `ClustersAlwaysMerged`,
`RefsAlwaysResolve` and `EntitiesAlwaysApart` follow from it. The last two have conditions
on the cache in their statements: shard labels are names of StatefulSets, and no reference to
a System from a name with both "smf" and "upf"; every StatefulSet has a cluster
label, and names of objects and clusters differ (`NamesApart`). `ClustersMerged` speaks of the order
of a list with the operator `InOrder`, positions and not selections, which keeps it within
the prover's reach.

**Process** (`ProcessProofs`). The assumptions are that versions are bounded (a maximum
must exist for `CHOOSE` to find it), that core APIs do not come and go, and that there is
at least one. Type correctness is `ProcessTypeCorrect`. `StableApisWatched` is not inductive: while discovery
runs nothing is watched and it says nothing. `StableFound` says what it rests on: every
API that was there all the time has been reported, or its version is on the list still
to be queried, or its stage has not begun. `WatchesChosen` says that
the watches are those chosen from all that was found, and that nothing is watched in a
configuration that was refused. Together with `TypeOK` they are the inductive `PInv`, from which
`NothingOverlooked`, `NothingUnasked`, `VersionsApart` and `ReceiverThere` follow by lemmas
about `Discovery` alone. The one about the highest version takes the greatest element of a
bounded set of numbers (`GreatestNumber` of `Induction`).

**Only model-checked:** liveness (`GhostsPurged`, `KeptObjectsCached`, `QueueServed`,
`CallsReturn`, `StartsOrStops`, `StopsOnSignal`), which the prover cannot do under
fairness, and the violations, which are counterexamples. Every invariant and every action
property of the passing runs, and both refinements, are theorems.

## 7. What is not modelled

* The configuration's two files, the environment variables and their merging, and most of
  the checks on them: one bit, `sound`, says whether the rest is in order. A model of
  the checks would restate them; those on which another part relies (the groups of an
  entry, the two intervals) are there. What was seen in reading is under 4.
* `graceful_shutdown` and the `cleanup()` it ends with: never polled. `cleanup()` itself is
  in `KubeClient`.
* Signals before the server runs: they have their default effect, the end of the process.
* Middleware: logging, compression, headers; settings that are validated and not used
  (rate limit, CORS, request timeout).
* The ingest pipeline together with requests that hold the mutex. Two handlers panic under
  the mutex on the caches `Fatal` of `Entities` describes, which would poison it for the
  ingest task. In the program as it is built no request gets that far (`unserved`).
* The texts: formatting of entities, titles, ages, logs.
* kube, tokio, actix-web: only as the code uses them. Definitions for them are marked
  external in `PROJECT.json`.
* `client2()`, errors and telemetry: no state.

## 8. Plan

Done: `Objects`, `Ingest`, `CacheStore`, `Pipeline`, `KubeClient`, `Entities`, `Discovery`
and `Process`, with their proofs. Left, in this order:

1. **Composition** of `Ingest` with several requests of `Entities`, once the server registers
   what the handlers take: poisoning by a handler, the readers after the ingest task is dead.
2. **Proofs:** what `stale_item` leaves: how far behind the latest version the cache
   may stay, and that it is the latest once the restarted watcher's items are all forwarded
   before the next change.
