------------------------------- MODULE Process -------------------------------
(***************************************************************************)
(* The life of the process: main loads and validates the configuration,    *)
(* asks the API server for its version, discovers what it serves with one  *)
(* request after the other, spawns the watch tasks and the ingest task,    *)
(* binds the port and serves until a signal.  The APIs of the cluster come *)
(* and go meanwhile, and every request may fail.                           *)
(*                                                                         *)
(* Of the configuration there is what the process can be told apart by:    *)
(* the resources to watch, the two intervals, and whether everything else  *)
(* in it passes validation.                                                *)
(***************************************************************************)
EXTENDS Discovery

CONSTANTS
  Configurations,   \* configurations to start with
  Removable,        \* APIs that may come and go
  Hollow,           \* groups the API server may list without a version
  NoVersion,
  MaxChanges        \* bound on the changes of the APIs

ASSUME ProcessAssumption ==
  /\ \A c \in Configurations :
       /\ c.resources \in Seq(ConfigResources)
       /\ c.poll_interval \in Nat /\ c.purge_interval \in Nat
       /\ c.sound \in BOOLEAN
  /\ Removable \subseteq Apis
  /\ \A r \in Removable : r.group # Core
  /\ \E r \in Apis : r.group = Core
  /\ Hollow \subseteq Groups \ {Core}
  /\ NoVersion \notin Nat
  /\ MaxChanges \in Nat

VARIABLES
  config,
  served,    \* the APIs the cluster serves
  ever,      \* history: those it has served since the process began
  stable,    \* history: those it has served all the time since then
  changes,
  pc,        \* where main is
  pooled,    \* the client cell is filled
  todo,      \* versions of groups listed and not yet queried
  found,     \* the APIs reported so far
  watches,   \* the watch tasks spawned
  ingest,    \* the ingest task and the timers were started
  path,      \* path of the last request, if any
  status     \* what it was answered with, if it was

cluster == <<served, ever, stable, changes>>
discovery == <<pooled, todo, found, watches>>
request == <<path, status>>
vars == <<config, cluster, pc, discovery, ingest, request>>

Paths == {"/", "/healthz", "/version", "/api/v1/entities", "/api/v1/redis/status", "other"}
NoRequest == "none"
NoStatus == 0

GroupVersions == Groups \X (Nat \cup {NoVersion})

Discovering == {"groups", "query", "core", "querycore"}

WatchesTyped ==
  \A w \in watches : /\ w.api \in Apis
                     /\ w.entry \in DOMAIN config.resources
                     /\ w.namespace \in Namespaces \cup {All}

TypeOK ==
  /\ config \in Configurations
  /\ served \subseteq Apis /\ ever \subseteq Apis /\ stable \subseteq Apis
  /\ changes \in 0..MaxChanges
  /\ pc \in {"load", "version", "client"} \cup Discovering
              \cup {"spawned", "bind", "serving", "draining", "exited", "panicked"}
  /\ pooled \in BOOLEAN
  /\ todo \subseteq GroupVersions
  /\ found \subseteq Apis
  /\ WatchesTyped
  /\ ingest \in BOOLEAN
  /\ path \in Paths \cup {NoRequest}
  /\ status \in {NoStatus, 200, 404, 500}
  /\ path # NoRequest /\ status = NoStatus => pc \in {"serving", "draining"}
  /\ ingest => pc \in {"bind", "serving", "draining", "exited"}

Init ==
  /\ config \in Configurations
  /\ \E gone \in SUBSET Removable : served = Apis \ gone
  /\ ever = served /\ stable = served
  /\ changes = 0
  /\ pc = "load"
  /\ pooled = FALSE /\ todo = {} /\ found = {} /\ watches = {}
  /\ ingest = FALSE
  /\ path = NoRequest /\ status = NoStatus
-----------------------------------------------------------------------------
(***************************************************************************)
(* The cluster.                                                            *)
(***************************************************************************)
ChangeApi(r) ==
  /\ changes < MaxChanges
  /\ served' = IF r \in served THEN served \ {r} ELSE served \cup {r}
  /\ ever' = ever \cup {r}
  /\ stable' = stable \ {r}
  /\ changes' = changes + 1
  /\ UNCHANGED <<config, pc, discovery, ingest, request>>

GroupsServed == {<<r.group, r.version>> : r \in served}
-----------------------------------------------------------------------------
(***************************************************************************)
(* Start-up.                                                               *)
(***************************************************************************)
\* An empty group is refused, so no entry can ask for the core APIs alone.
ValidResource(e) == Core \notin e.api_groups

ValidKube(c) == \A i \in DOMAIN c.resources : ValidResource(c.resources[i])

\* Mutant of ValidCache: one of the intervals is not looked at.
ValidCachePoll(c) == c.poll_interval > 0

ValidCache(c) == c.poll_interval > 0 /\ c.purge_interval > 0

Valid(c) == c.sound /\ ValidKube(c) /\ ValidCache(c)

Goto(label) == pc' = label

\* The process ends, and a request in flight is cut off.
Exit == /\ Goto("exited")
        /\ path' = NoRequest /\ status' = NoStatus

\* get_configuration().expect(...)
Load ==
  /\ pc = "load"
  /\ Goto(IF Valid(config) THEN "version" ELSE "panicked")
  /\ UNCHANGED <<config, cluster, discovery, ingest, request>>

\* main goes on without the version of the API server.
GetVersion(connected) ==
  /\ pc = "version"
  /\ pooled' = connected
  /\ Goto("client")
  /\ UNCHANGED <<config, cluster, todo, found, watches, ingest, request>>

GetClient ==
  /\ pc = "client"
  /\ pooled' = TRUE
  /\ Goto("groups")
  /\ UNCHANGED <<config, cluster, todo, found, watches, ingest, request>>

\* Mutant of Fail: discovery starts again.
FailRetried ==
  /\ Goto("groups")
  /\ todo' = {} /\ found' = {}
  /\ UNCHANGED <<config, cluster, pooled, watches, ingest, request>>

\* watch() returns an error, and what was discovered is lost.
Fail ==
  /\ Goto("bind")
  /\ todo' = {} /\ found' = {}
  /\ UNCHANGED <<config, cluster, pooled, watches, ingest, request>>

ClientFails == pc = "client" /\ ~pooled /\ Fail

ListApiGroups ==
  /\ pc = "groups"
  /\ \E hollow \in SUBSET Hollow :
       todo' = {gv \in GroupsServed : gv[1] # Core} \cup (hollow \X {NoVersion})
  /\ Goto("query")
  /\ UNCHANGED <<config, cluster, pooled, found, watches, ingest, request>>

\* The resources listed for a version of a group, less the subresources.
Listed(gv) == {r \in served : r.group = gv[1] /\ r.version = gv[2]}

\* The groups and their versions are queried one at a time, here in any order.
\* One that is not served any more is an error (DiscoveryFails), a group without
\* a version a panic.
Query(gv) ==
  /\ pc \in {"query", "querycore"}
  /\ gv \in todo
  /\ \/ /\ gv[2] = NoVersion
        /\ Goto("panicked")
        /\ UNCHANGED <<todo, found>>
     \/ /\ gv \in GroupsServed
        /\ found' = found \cup Listed(gv)
        /\ todo' = todo \ {gv}
        /\ UNCHANGED pc
  /\ UNCHANGED <<config, cluster, pooled, watches, ingest, request>>

ListCore ==
  /\ pc = "query" /\ todo = {}
  /\ Goto("core")
  /\ UNCHANGED <<config, cluster, discovery, ingest, request>>

ListCoreVersions ==
  /\ pc = "core"
  /\ todo' = {gv \in GroupsServed : gv[1] = Core}
  /\ Goto("querycore")
  /\ UNCHANGED <<config, cluster, pooled, found, watches, ingest, request>>

\* Mutant of DiscoveryFails: a version that cannot be had is passed over.
DiscoveryFailsPassed ==
  /\ pc \in {"query", "querycore"}
  /\ \E gv \in todo : gv[2] # NoVersion /\ todo' = todo \ {gv}
  /\ UNCHANGED <<config, cluster, pc, pooled, found, watches, ingest, request>>

\* Any request of discovery may fail.
DiscoveryFails ==
  /\ pc \in Discovering
  /\ pc \in {"query", "querycore"} => \E gv \in todo : gv[2] # NoVersion
  /\ Fail

\* There is no await between the last answer and the last watch task.
SpawnWatches ==
  /\ pc = "querycore" /\ todo = {}
  /\ watches' = Watches(found, config.resources)
  /\ Goto("spawned")
  /\ UNCHANGED <<config, cluster, pooled, todo, found, ingest, request>>

\* tokio's interval() panics on a period of zero.
StartIngest ==
  /\ pc = "spawned"
  /\ IF config.poll_interval > 0 /\ config.purge_interval > 0
     THEN Goto("bind") /\ ingest' = TRUE
     ELSE Goto("panicked") /\ UNCHANGED ingest
  /\ UNCHANGED <<config, cluster, discovery, request>>

Bind(free) ==
  /\ pc = "bind"
  /\ Goto(IF free THEN "serving" ELSE "exited")
  /\ UNCHANGED <<config, cluster, discovery, ingest, request>>
-----------------------------------------------------------------------------
(***************************************************************************)
(* The server.  actix looks up what a handler's arguments need in the data *)
(* registered, by type.                                                    *)
(***************************************************************************)
Registered == {"ApplicationState"}

Arguments(p) == CASE p = "/" -> {"ApplicationState"}
                  [] p = "/healthz" -> {}
                  [] p = "/version" -> {"Settings"}
                  [] p = "/api/v1/entities" -> {"Settings", "Groups", "Users", "Domains", "Db"}
                  [] p = "/api/v1/redis/status" -> {"Db"}

Respond(p) == IF p = "other" THEN 404
              ELSE IF Arguments(p) \subseteq Registered THEN 200 ELSE 500

InFlight == path # NoRequest /\ status = NoStatus

Accept(p) ==
  /\ pc = "serving" /\ ~InFlight
  /\ path' = p
  /\ status' = NoStatus
  /\ UNCHANGED <<config, cluster, pc, discovery, ingest>>

Answer ==
  /\ InFlight
  /\ status' = Respond(path)
  /\ UNCHANGED <<config, cluster, pc, discovery, ingest, path>>

\* The signals are actix's affair: it finishes what is in flight after SIGTERM
\* and cuts it off after SIGINT.
Signal(s) ==
  /\ pc = "serving"
  /\ \/ s = "TERM" /\ Goto("draining") /\ UNCHANGED request
     \/ s = "INT" /\ Exit
  /\ UNCHANGED <<config, cluster, discovery, ingest>>

\* Mutant of Drained: a request in flight is not waited for, nor cut off.
DrainedBusy ==
  /\ pc = "draining"
  /\ Goto("exited")
  /\ UNCHANGED <<config, cluster, discovery, ingest, request>>

Drained ==
  /\ pc = "draining" /\ ~InFlight
  /\ Exit
  /\ UNCHANGED <<config, cluster, discovery, ingest>>

\* Mutant of DrainTimeout: there is no time limit.
DrainTimeoutNever == FALSE /\ UNCHANGED vars

\* After shutdown_timeout.
DrainTimeout ==
  /\ pc = "draining" /\ InFlight
  /\ Exit
  /\ UNCHANGED <<config, cluster, discovery, ingest>>
-----------------------------------------------------------------------------
StartUp == \/ Load \/ GetClient \/ ClientFails
           \/ \E b \in BOOLEAN : GetVersion(b) \/ Bind(b)
           \/ ListApiGroups \/ ListCore \/ ListCoreVersions
           \/ \E gv \in todo : Query(gv)
           \/ DiscoveryFails
           \/ SpawnWatches \/ StartIngest

Serve == \/ \E p \in Paths : Accept(p)
         \/ Answer
         \/ \E s \in {"TERM", "INT"} : Signal(s)
         \/ Drained \/ DrainTimeout

Next == StartUp \/ Serve \/ \E r \in Removable : ChangeApi(r)

Spec == Init /\ [][Next]_vars

\* Every request of start-up ends, by the timeouts of the client at the latest,
\* and so does the grace period of a shutdown.  Nothing is assumed of the
\* cluster, of the requests that come in, or of their ever being answered.
FairSpec == Spec /\ WF_vars(StartUp) /\ WF_vars(Drained \/ DrainTimeout)
-----------------------------------------------------------------------------
\* The same kind of API, in as stable a version.
WatchedInstead(r, s) == s.group = r.group /\ s.kind = r.kind /\ s.version >= r.version

\* However the cluster changes between the requests of discovery, and whatever
\* fails in between: if the ingest task runs then each API that was there all
\* the time and is asked for is watched, wherever its entry wants it, in that
\* version or a more stable one.  Two entries that bear names of one API spoil
\* it, and so would versions of a kind that disagree.
StableApisWatched ==
  ingest /\ EntriesApart(config.resources) /\ KindsAgree =>
    \A r \in stable : \A i \in DOMAIN config.resources :
      Asks(config.resources[i], r) =>
        \E s \in ever : /\ WatchedInstead(r, s)
                        /\ \A place \in Places(config.resources[i], r) :
                             Watch(s, i, place) \in watches

\* What is watched was served, bears the name of the entry whose selectors it
\* is watched with, and is asked for by some entry.  By that entry itself only
\* if no other has a name of that API: dynamic_api does not look at api_groups.
WatchedIsAsked ==
  \A w \in watches :
    /\ w.api \in ever
    /\ Names(config.resources[w.entry], w.api)
    /\ \E j \in DOMAIN config.resources : Asks(config.resources[j], w.api)
    /\ EntriesApart(config.resources) => Asks(config.resources[w.entry], w.api)

\* An object has one key in all versions of its API, so two versions watched
\* would replace each other's objects in the cache for ever.
OneVersionWatched ==
  \A t, w \in watches :
    t.api.group = w.api.group /\ t.api.kind = w.api.kind => t.api = w.api

\* A watch task unwraps the result of its sends: watch tasks run only with an
\* ingest task behind them, but for the moment between the two spawns, and no
\* panic comes then.
WatchesReceived == watches # {} => ingest \/ pc = "spawned"

\* main waits for nothing in the cluster for ever: the port is bound, or the
\* process ends.
StartsOrStops == <>(pc \in {"serving", "draining", "exited", "panicked"})

\* The shutdown of the program itself never runs (run() awaits the server before
\* it hands the future on), and SIGTERM ends the process all the same, whether
\* or not a request in flight is answered.
StopsOnSignal == pc = "draining" ~> pc = "exited"
-----------------------------------------------------------------------------
\* "creates various Backstage Entities exposed over /api/v1/entities HTTP
\* endpoint" (README.md:3): a request for them gets them.
EntitiesExposed == path = "/api/v1/entities" /\ status # NoStatus => status = 200
=============================================================================
