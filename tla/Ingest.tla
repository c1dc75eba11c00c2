------------------------------- MODULE Ingest -------------------------------
(***************************************************************************)
(* The ingest pipeline: watch tasks and two timers send WatchEvents over a *)
(* bounded channel to one ingest task, which keeps the cache.  An object   *)
(* that arrives without a TypeMeta is typed by a helper task the ingest    *)
(* task asks over one channel and hears from over another.  A purge copies *)
(* the cache, releases the lock, asks the API server for every object of   *)
(* the copy, and locks again to remove the ones it did not find.           *)
(*                                                                         *)
(* Here the watch tasks send any object they could and the cluster changes *)
(* at will; Pipeline replaces both by what really drives them.             *)
(***************************************************************************)
EXTENDS Objects, Naturals, Sequences

CONSTANT Capacity   \* all three channels are channel(32)

ASSUME CapacityAssumption == Capacity \in Nat \ {0}

VARIABLES
  chan,       \* WatchEvents sent and not yet received
  rxApi,      \* URLs sent to the TypeMeta helper
  rxType,     \* the helper's replies
  pc,         \* where the ingest task is: at recv, awaiting a TypeMeta,
              \* awaiting a GET of a purge, or dead after a panic
  held,       \* the object being typed while pc = "typing"
  cache,      \* the shared BTreeMap behind the mutex
  todo,       \* objects of the purge's copy still to be looked up
  missing,    \* objects of the purge's copy the API server did not find
  poisoned,   \* a task panicked while it held the mutex
  watchers,   \* watch tasks still running
  live,       \* objects that exist in the cluster
  wasAbsent   \* history: keys whose object was absent from the cluster at
              \* some time since it was stored

queues == <<chan, rxApi, rxType>>
task == <<pc, held, todo, missing>>
vars == <<chan, rxApi, rxType, pc, held, cache, todo, missing, poisoned,
          watchers, live, wasAbsent>>

Entries == {cache[k] : k \in Keys} \ {NoEntry}

TypeOK ==
  /\ chan \in Seq(WatchEvents)
  /\ rxApi \in Seq(Resources)
  /\ rxType \in Seq(TypeMetas \cup {NoType})
  /\ pc \in {"recv", "typing", "checking", "dead"}
  /\ held \in DynamicObjects \cup {NoEntry}
  /\ pc = "typing" <=> held # NoEntry
  /\ cache \in [Keys -> DynamicObjects \cup {NoEntry}]
  /\ todo \subseteq DynamicObjects
  /\ missing \subseteq DynamicObjects
  /\ poisoned \in BOOLEAN
  /\ watchers \subseteq Resources
  /\ live \subseteq Objects
  /\ wasAbsent \subseteq Keys

Init ==
  /\ chan = <<>> /\ rxApi = <<>> /\ rxType = <<>>
  /\ pc = "recv" /\ held = NoEntry
  /\ cache = [k \in Keys |-> NoEntry]
  /\ todo = {} /\ missing = {}
  /\ poisoned = FALSE
  /\ watchers = Resources
  /\ live \in SUBSET Objects
  /\ wasAbsent = {}
-----------------------------------------------------------------------------
(***************************************************************************)
(* The cache.                                                              *)
(***************************************************************************)
\* Mutant of Insert: the key is made up without the case of no namespace.
InsertNamespaced(o) ==
  /\ cache' = [cache EXCEPT ![<<"namespace", o.id.name>>] = o]
  /\ wasAbsent' = IF o.id \in live THEN wasAbsent ELSE wasAbsent \cup {KeyOf(o.id)}

\* Mutant of Insert: an object that is cached is not updated.
InsertVacant(o) ==
  /\ cache' = [cache EXCEPT ![KeyOf(o.id)] = IF @ = NoEntry THEN o ELSE @]
  /\ wasAbsent' = IF o.id \in live THEN wasAbsent \ {KeyOf(o.id)}
                                   ELSE wasAbsent \cup {KeyOf(o.id)}

Insert(o) ==
  /\ cache' = [cache EXCEPT ![KeyOf(o.id)] = o]
  /\ wasAbsent' = IF o.id \in live THEN wasAbsent \ {KeyOf(o.id)}
                                   ELSE wasAbsent \cup {KeyOf(o.id)}

RemoveAll(os) ==
  LET gone == {KeyOf(o.id) : o \in os}
  IN  /\ cache' = [k \in Keys |-> IF k \in gone THEN NoEntry ELSE cache[k]]
      /\ wasAbsent' = wasAbsent \ gone

\* The task dies: its receivers and senders drop, what was queued is lost.
Die ==
  /\ pc' = "dead"
  /\ chan' = <<>> /\ rxApi' = <<>> /\ rxType' = <<>>
  /\ held' = NoEntry /\ todo' = {} /\ missing' = {}
-----------------------------------------------------------------------------
(***************************************************************************)
(* The ingest task.  There is no await between the receipt of a command    *)
(* and its effect on the cache, except for the TypeMeta helper and the     *)
(* GETs of a purge.                                                        *)
(***************************************************************************)
\* Mutant of Receives: a purge has a task of its own and blocks no command.
ReceivesAnyway(command) == /\ pc \in {"recv", "checking"}
                           /\ chan # <<>>
                           /\ Head(chan).command = command

Receives(command) == /\ pc = "recv"
                     /\ chan # <<>>
                     /\ Head(chan).command = command

\* Mutant of RecvTyped: the age is formatted after the insertion.
RecvTypedEarly ==
  /\ Receives("Add")
  /\ LET o == Head(chan).obj
     IN  /\ o.types # NoType
         /\ Insert(o)
         /\ IF HasAge(o) THEN chan' = Tail(chan) /\ UNCHANGED <<rxApi, rxType, task>>
                         ELSE Die
  /\ UNCHANGED <<poisoned, watchers, live>>

RecvTyped ==
  /\ Receives("Add")
  /\ LET o == Head(chan).obj
     IN  /\ o.types # NoType
         /\ \/ /\ HasAge(o)
               /\ Insert(o)
               /\ chan' = Tail(chan)
               /\ UNCHANGED <<rxApi, rxType, task>>
            \/ /\ ~HasAge(o)
               /\ Die
               /\ UNCHANGED <<cache, wasAbsent>>
  /\ UNCHANGED <<poisoned, watchers, live>>

\* Mutant of RecvUntyped: the task goes on without the answer of the helper.
RecvUntypedHasty ==
  /\ Receives("Add")
  /\ Head(chan).obj.types = NoType
  /\ Len(rxApi) < Capacity
  /\ rxApi' = Append(rxApi, Head(chan).obj.id.res)
  /\ held' = Head(chan).obj
  /\ chan' = Tail(chan)
  /\ UNCHANGED <<pc, rxType, cache, todo, missing, poisoned, watchers, live, wasAbsent>>

RecvUntyped ==
  /\ Receives("Add")
  /\ Head(chan).obj.types = NoType
  /\ Len(rxApi) < Capacity
  /\ rxApi' = Append(rxApi, Head(chan).obj.id.res)
  /\ held' = Head(chan).obj
  /\ pc' = "typing"
  /\ chan' = Tail(chan)
  /\ UNCHANGED <<rxType, cache, todo, missing, poisoned, watchers, live, wasAbsent>>

\* An object whose URL no pattern matched is cached without a TypeMeta.
RecvTypeMeta ==
  /\ pc = "typing"
  /\ rxType # <<>>
  /\ LET o == [held EXCEPT !.types = Head(rxType)]
     IN  \/ /\ HasAge(o)
            /\ Insert(o)
            /\ rxType' = Tail(rxType)
            /\ pc' = "recv" /\ held' = NoEntry
            /\ UNCHANGED <<chan, rxApi, todo, missing>>
         \/ /\ ~HasAge(o)
            /\ Die
            /\ UNCHANGED <<cache, wasAbsent>>
  /\ UNCHANGED <<poisoned, watchers, live>>

RecvDelete ==
  /\ Receives("Delete")
  /\ LET o == Head(chan).obj
     IN  \/ /\ HasAge(o)
            /\ RemoveAll({o})
            /\ chan' = Tail(chan)
            /\ UNCHANGED <<rxApi, rxType, task>>
         \/ /\ ~HasAge(o)
            /\ Die
            /\ UNCHANGED <<cache, wasAbsent>>
  /\ UNCHANGED <<poisoned, watchers, live>>

RecvPrintAll ==
  /\ Receives("PrintAll")
  /\ chan' = Tail(chan)
  /\ UNCHANGED <<rxApi, rxType, task, cache, poisoned, watchers, live, wasAbsent>>

\* Mutant of PurgeBegin: only objects that came with a TypeMeta are asked for.
PurgeBeginOwnTypes(connected) ==
  /\ Receives("Purge")
  /\ pc' = "checking"
  /\ todo' = {o \in Entries : connected /\ Checkable(o) /\ o.types = OwnType(o.id.res)}
  /\ missing' = {}
  /\ chan' = Tail(chan)
  /\ UNCHANGED <<rxApi, rxType, held, cache, poisoned, watchers, live, wasAbsent>>

\* Without a client check_objects returns an error, and the purge goes on with
\* an empty list.
PurgeBegin(connected) ==
  /\ Receives("Purge")
  /\ pc' = "checking"
  /\ todo' = IF connected THEN {o \in Entries : Checkable(o)} ELSE {}
  /\ missing' = {}
  /\ chan' = Tail(chan)
  /\ UNCHANGED <<rxApi, rxType, held, cache, poisoned, watchers, live, wasAbsent>>

\* Mutant of CheckAnswered: the arms for Some and None are swapped.
CheckAnsweredSwapped(o) ==
  /\ pc = "checking"
  /\ o \in todo
  /\ Answerable(o)
  /\ todo' = todo \ {o}
  /\ missing' = IF PluralKnown(o) /\ Addressed(o) \in live THEN missing \cup {o} ELSE missing
  /\ UNCHANGED <<queues, pc, held, cache, poisoned, watchers, live, wasAbsent>>

\* One GET, answered from the cluster as it is at that moment: Some(object) if
\* the plural is right and the object exists, else None.
CheckAnswered(o) ==
  /\ pc = "checking"
  /\ o \in todo
  /\ Answerable(o)
  /\ todo' = todo \ {o}
  /\ missing' = IF PluralKnown(o) /\ Addressed(o) \in live THEN missing ELSE missing \cup {o}
  /\ UNCHANGED <<queues, pc, held, cache, poisoned, watchers, live, wasAbsent>>

\* Mutant of CheckFailed: an object whose GET fails counts as missing.
CheckFailedMissing(o) ==
  /\ pc = "checking"
  /\ o \in todo
  /\ todo' = todo \ {o}
  /\ missing' = missing \cup {o}
  /\ UNCHANGED <<queues, pc, held, cache, poisoned, watchers, live, wasAbsent>>

\* One GET that fails (for an object that is not Answerable, every one): it is
\* logged and the object is kept.
CheckFailed(o) ==
  /\ pc = "checking"
  /\ o \in todo
  /\ todo' = todo \ {o}
  /\ UNCHANGED <<queues, pc, held, cache, missing, poisoned, watchers, live, wasAbsent>>

\* The age of every removed object is formatted with the mutex held: a panic
\* there would poison it, with the objects before it already removed.
PurgeCommit ==
  /\ pc = "checking"
  /\ todo = {}
  /\ poisoned' = (\E o \in missing : ~HasAge(o))
  /\ \E removed \in SUBSET missing :
       /\ poisoned' \/ removed = missing
       /\ RemoveAll(removed)
  /\ IF poisoned' THEN Die
                  ELSE /\ pc' = "recv" /\ missing' = {}
                       /\ UNCHANGED <<queues, held, todo>>
  /\ UNCHANGED <<watchers, live>>
-----------------------------------------------------------------------------
(***************************************************************************)
(* The other tasks.                                                        *)
(***************************************************************************)
\* Mutant of HelperReply: it answers only when a pattern matched.
HelperReplyMatched ==
  /\ rxApi # <<>>
  /\ Len(rxType) < Capacity
  /\ rxType' = LET t == ParseTypeMeta(Head(rxApi))
               IN  IF t = NoType THEN rxType ELSE Append(rxType, t)
  /\ rxApi' = Tail(rxApi)
  /\ UNCHANGED <<chan, task, cache, poisoned, watchers, live, wasAbsent>>

\* Mutant of HelperReply: a URL that was answered before is not answered again.
HelperReplyOnce ==
  /\ rxApi # <<>>
  /\ Len(rxType) < Capacity
  /\ rxType' = IF \E o \in Entries : o.types = ParseTypeMeta(Head(rxApi)) THEN rxType
               ELSE Append(rxType, ParseTypeMeta(Head(rxApi)))
  /\ rxApi' = Tail(rxApi)
  /\ UNCHANGED <<chan, task, cache, poisoned, watchers, live, wasAbsent>>

HelperReply ==
  /\ rxApi # <<>>
  /\ Len(rxType) < Capacity
  /\ rxType' = Append(rxType, ParseTypeMeta(Head(rxApi)))
  /\ rxApi' = Tail(rxApi)
  /\ UNCHANGED <<chan, task, cache, poisoned, watchers, live, wasAbsent>>

\* A watch task unwraps the result of its send: it panics once the receiver is
\* gone.
WatcherSend(e) ==
  /\ e.obj.id.res \in watchers
  /\ IF pc = "dead"
     THEN /\ watchers' = watchers \ {e.obj.id.res}
          /\ UNCHANGED chan
     ELSE /\ Len(chan) < Capacity
          /\ chan' = Append(chan, e)
          /\ UNCHANGED watchers
  /\ UNCHANGED <<rxApi, rxType, task, cache, poisoned, live, wasAbsent>>

\* A timer ignores the result of its send.
TimerSend(e) ==
  /\ IF pc = "dead" THEN UNCHANGED chan
                    ELSE Len(chan) < Capacity /\ chan' = Append(chan, e)
  /\ UNCHANGED <<rxApi, rxType, task, cache, poisoned, watchers, live, wasAbsent>>

PollTick == TimerSend(PrintAll)
PurgeTick == TimerSend(Purge)

\* The set of existing objects becomes l.
SetLive(l) ==
  /\ live' = l
  /\ wasAbsent' = wasAbsent \cup {k \in Keys : cache[k] # NoEntry /\ cache[k].id \notin l}

ClusterChange(id) ==
  /\ SetLive(IF id \in live THEN live \ {id} ELSE live \cup {id})
  /\ UNCHANGED <<queues, task, cache, poisoned, watchers>>
-----------------------------------------------------------------------------
IngestStep ==
  \/ RecvTyped \/ RecvUntyped \/ RecvTypeMeta \/ RecvDelete \/ RecvPrintAll
  \/ \E connected \in BOOLEAN : PurgeBegin(connected)
  \/ \E o \in todo : CheckAnswered(o) \/ CheckFailed(o)
  \/ PurgeCommit

Next ==
  \/ IngestStep
  \/ HelperReply
  \/ PollTick
  \/ PurgeTick
  \/ \E o \in Delivered : WatcherSend(Add(o)) \/ WatcherSend(Delete(o))
  \/ \E id \in Objects : ClusterChange(id)

Spec == Init /\ [][Next]_vars

\* The runtime polls a task that can run, and a GET returns: the client has
\* connect and read timeouts.
Fairness == WF_vars(IngestStep) /\ WF_vars(HelperReply)

FairSpec == Spec /\ Fairness
-----------------------------------------------------------------------------
\* The TypeMeta helper is asked for one object at a time, and what it answers
\* is about that object: the two channels between it and the ingest task never
\* get out of step, whatever URL matched no pattern before.  So no object is
\* ever cached with the TypeMeta of another API.
LookupPairing ==
  /\ IF pc = "typing"
     THEN \/ rxApi = <<held.id.res>> /\ rxType = <<>>
          \/ rxApi = <<>> /\ rxType = <<ParseTypeMeta(held.id.res)>>
     ELSE rxApi = <<>> /\ rxType = <<>>
  /\ \A o \in Entries : o.types # NoType => o.types.res = o.id.res

\* A purge decides on a copy of the cache it took before the first GET, with
\* the mutex released.  Every verdict it still holds is about the very object
\* that is cached under that key now, and an object it is going to remove did
\* not exist at some moment after it was cached, unless it was asked for at a
\* plural its API does not have.
PurgeVerdictsFresh ==
  /\ \A o \in todo \cup missing : cache[KeyOf(o.id)] = o
  /\ \A o \in missing : KeyOf(o.id) \in wasAbsent \/ Misaddressed(o)

\* The panic on a missing timestamp strikes before the mutex is taken, so the
\* readers of the cache survive it: no object that would make a purge panic
\* with the mutex held can have got into the cache.
MutexNeverPoisoned ==
  /\ ~poisoned
  /\ \A o \in Entries : HasAge(o)

\* What the two properties of a purge and the refinement rest on: an object is
\* stored under its own key, its absence is noticed, and a purge asks only for
\* objects it can address, and only while it runs.
Stored == \A k \in Keys : cache[k] # NoEntry =>
            /\ KeyOf(cache[k].id) = k
            /\ cache[k].id \in live \/ k \in wasAbsent

PurgeScope ==
  /\ \A o \in todo \cup missing : Checkable(o)
  /\ pc # "checking" => todo = {} /\ missing = {}

HeldUntyped == pc = "typing" => held.types = NoType

\* The invariants above, strengthened until every step preserves them.
IInv == /\ LookupPairing
        /\ PurgeVerdictsFresh
        /\ MutexNeverPoisoned
        /\ Stored
        /\ PurgeScope
        /\ HeldUntyped

\* The watch tasks and timers are never blocked for good on a full channel:
\* the ingest task always comes back for the next command, or dies.
QueueServed == []<>(Len(chan) < Capacity)

-----------------------------------------------------------------------------
(***************************************************************************)
(* The pipeline implements a store whose commands take effect one at a     *)
(* time: the command being worked on is still the head of its queue.       *)
(***************************************************************************)
InWork == CASE pc = "typing"   -> <<Add(held)>>
            [] pc = "checking" -> <<Purge>>
            [] OTHER           -> <<>>

Store == INSTANCE CacheStore WITH
  Bound   <- Capacity + 1,
  queue   <- InWork \o chan,
  store   <- cache,
  up      <- pc # "dead",
  exists  <- live,
  suspect <- wasAbsent

\* Every behaviour of the pipeline is one of the store's: no interleaving of
\* the helper, the GETs, the watch tasks and the cluster shows through.
ImplementsStore == Store!Spec
=============================================================================
