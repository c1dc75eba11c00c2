---------------------------- MODULE IngestProofs ----------------------------
(***************************************************************************)
(* Theorems about the ingest pipeline, for any APIs, names, versions and   *)
(* channel capacity.                                                       *)
(***************************************************************************)
EXTENDS Ingest, TLAPS

USE ApiAssumption, NilAssumption, CapacityAssumption

-----------------------------------------------------------------------------
(***************************************************************************)
(* Lemmas about the data.                                                  *)
(***************************************************************************)
LEMMA KeyOfType == ASSUME NEW id \in Objects PROVE KeyOf(id) \in Keys
  BY DEF KeyOf, Keys, Objects

LEMMA ParseType == ASSUME NEW r \in Resources
                   PROVE  ParseTypeMeta(r) \in TypeMetas \cup {NoType}
  BY DEF ParseTypeMeta, TypeMetas

\* The command of an event says whether it carries an object.
LEMMA EventObject ==
  ASSUME NEW e \in WatchEvents, e.command \in {"Add", "Delete"}
  PROVE  /\ e.obj \in DynamicObjects
         /\ e.obj.types # NoType => e.obj.types.res = e.obj.id.res
  BY DEF WatchEvents, Purge, PrintAll, Delivered, OwnType

LEMMA EventTypes ==
  ASSUME NEW o \in Delivered
  PROVE  /\ Add(o) \in WatchEvents
         /\ Delete(o) \in WatchEvents
         /\ Purge \in WatchEvents
         /\ PrintAll \in WatchEvents
  BY DEF WatchEvents, Add, Delete, Purge, PrintAll

LEMMA RetypedType ==
  ASSUME NEW o \in DynamicObjects, NEW t \in TypeMetas \cup {NoType}
  PROVE  /\ [o EXCEPT !.types = t] \in DynamicObjects
         /\ [o EXCEPT !.types = t].id = o.id
         /\ [o EXCEPT !.types = t].types = t
  BY DEF DynamicObjects

-----------------------------------------------------------------------------
(***************************************************************************)
(* Type correctness.                                                       *)
(***************************************************************************)
LEMMA InsertType ==
  ASSUME TypeOK, NEW o \in DynamicObjects, Insert(o)
  PROVE  /\ cache' \in [Keys -> DynamicObjects \cup {NoEntry}]
         /\ wasAbsent' \subseteq Keys
  BY KeyOfType DEF TypeOK, Insert, DynamicObjects

LEMMA RemoveType ==
  ASSUME TypeOK, NEW os \in SUBSET DynamicObjects, RemoveAll(os)
  PROVE  /\ cache' \in [Keys -> DynamicObjects \cup {NoEntry}]
         /\ wasAbsent' \subseteq Keys
  BY DEF TypeOK, RemoveAll

\* A command taken off the channel leaves a channel of commands.
LEMMA TakenType ==
  ASSUME TypeOK, chan # <<>>
  PROVE  /\ Tail(chan) \in Seq(WatchEvents)
         /\ Head(chan) \in WatchEvents
  BY DEF TypeOK

LEMMA DeathType ==
  ASSUME TypeOK, Die, UNCHANGED <<cache, wasAbsent, watchers, live>>,
         poisoned' \in BOOLEAN
  PROVE  TypeOK'
  <1>1. /\ chan' \in Seq(WatchEvents)
        /\ rxApi' \in Seq(Resources)
        /\ rxType' \in Seq(TypeMetas \cup {NoType})
    BY DEF Die
  <1> QED BY <1>1 DEF TypeOK, Die

LEMMA TypeInit == Init => TypeOK
  <1> SUFFICES ASSUME Init PROVE TypeOK
    OBVIOUS
  <1>1. /\ chan \in Seq(WatchEvents)
        /\ rxApi \in Seq(Resources)
        /\ rxType \in Seq(TypeMetas \cup {NoType})
    BY DEF Init
  <1> QED BY <1>1 DEF TypeOK, Init

LEMMA TypeStep == TypeOK /\ [Next]_vars => TypeOK'
  <1> SUFFICES ASSUME TypeOK, [Next]_vars PROVE TypeOK'
    OBVIOUS
  <1>1. CASE RecvTyped
    <2> DEFINE o == Head(chan).obj
    <2>1. /\ Tail(chan) \in Seq(WatchEvents)
          /\ o \in DynamicObjects
      BY <1>1, TakenType, EventObject DEF RecvTyped, Receives
    <2>2. CASE HasAge(o)
      <3>1. Insert(o) /\ chan' = Tail(chan) /\ UNCHANGED <<rxApi, rxType, task>>
        BY <1>1, <2>2 DEF RecvTyped
      <3> HIDE DEF o
      <3> QED BY <1>1, <2>1, <3>1, InsertType DEF RecvTyped, TypeOK, task
    <2>3. CASE ~HasAge(o)
      BY <1>1, <2>3, DeathType DEF RecvTyped, TypeOK
    <2> QED BY <2>2, <2>3
  <1>2. CASE RecvUntyped
    <2>1. /\ Tail(chan) \in Seq(WatchEvents)
          /\ Head(chan).obj \in DynamicObjects
      BY <1>2, TakenType, EventObject DEF RecvUntyped, Receives
    <2>2. rxApi' \in Seq(Resources)
      BY <1>2, <2>1 DEF RecvUntyped, TypeOK, DynamicObjects, Objects
    <2> QED BY <1>2, <2>1, <2>2 DEF RecvUntyped, TypeOK
  <1>3. CASE RecvTypeMeta
    <2> DEFINE o == [held EXCEPT !.types = Head(rxType)]
    <2>1. /\ held \in DynamicObjects
          /\ Head(rxType) \in TypeMetas \cup {NoType}
          /\ Tail(rxType) \in Seq(TypeMetas \cup {NoType})
      BY <1>3 DEF RecvTypeMeta, TypeOK
    <2>2. o \in DynamicObjects
      BY <2>1, RetypedType
    <2>3. CASE HasAge(o)
      <3>1. /\ Insert(o)
            /\ rxType' = Tail(rxType)
            /\ pc' = "recv" /\ held' = NoEntry
            /\ UNCHANGED <<chan, rxApi, todo, missing>>
        BY <1>3, <2>3 DEF RecvTypeMeta
      <3> HIDE DEF o
      <3> QED BY <1>3, <2>1, <2>2, <3>1, InsertType DEF RecvTypeMeta, TypeOK
    <2>4. CASE ~HasAge(o)
      BY <1>3, <2>4, DeathType DEF RecvTypeMeta, TypeOK
    <2> QED BY <2>3, <2>4
  <1>4. CASE RecvDelete
    <2> DEFINE o == Head(chan).obj
    <2>1. /\ Tail(chan) \in Seq(WatchEvents)
          /\ o \in DynamicObjects
      BY <1>4, TakenType, EventObject DEF RecvDelete, Receives
    <2>2. CASE HasAge(o)
      <3>1. RemoveAll({o}) /\ chan' = Tail(chan) /\ UNCHANGED <<rxApi, rxType, task>>
        BY <1>4, <2>2 DEF RecvDelete
      <3> HIDE DEF o
      <3> QED BY <1>4, <2>1, <3>1, RemoveType DEF RecvDelete, TypeOK, task
    <2>3. CASE ~HasAge(o)
      BY <1>4, <2>3, DeathType DEF RecvDelete, TypeOK
    <2> QED BY <2>2, <2>3
  <1>5. CASE RecvPrintAll
    BY <1>5, TakenType DEF RecvPrintAll, Receives, TypeOK, task
  <1>6. ASSUME NEW connected \in BOOLEAN, PurgeBegin(connected) PROVE TypeOK'
    <2>1. todo' \subseteq DynamicObjects
      BY <1>6 DEF PurgeBegin, TypeOK, Entries
    <2> QED BY <1>6, <2>1, TakenType DEF PurgeBegin, Receives, TypeOK
  <1>7. ASSUME NEW o \in todo, CheckAnswered(o) PROVE TypeOK'
    BY <1>7 DEF CheckAnswered, TypeOK, queues
  <1>8. ASSUME NEW o \in todo, CheckFailed(o) PROVE TypeOK'
    BY <1>8 DEF CheckFailed, TypeOK, queues
  <1>9. CASE PurgeCommit
    <2>1. PICK removed \in SUBSET missing : RemoveAll(removed)
      BY <1>9 DEF PurgeCommit
    <2>2. removed \subseteq DynamicObjects
      BY <2>1 DEF TypeOK
    <2>3. /\ cache' \in [Keys -> DynamicObjects \cup {NoEntry}]
          /\ wasAbsent' \subseteq Keys
      BY <2>1, <2>2, RemoveType
    <2>4. poisoned' \in BOOLEAN
      BY <1>9 DEF PurgeCommit
    <2>5. CASE poisoned'
      <3>1. Die /\ UNCHANGED <<watchers, live>>
        BY <1>9, <2>5, Zenon DEF PurgeCommit
      <3>2. /\ chan' \in Seq(WatchEvents)
            /\ rxApi' \in Seq(Resources)
            /\ rxType' \in Seq(TypeMetas \cup {NoType})
        BY <3>1 DEF Die
      <3> QED BY <2>3, <2>4, <3>1, <3>2 DEF Die, TypeOK
    <2>6. CASE ~poisoned'
      BY <1>9, <2>3, <2>4, <2>6 DEF PurgeCommit, TypeOK, queues
    <2> QED BY <2>5, <2>6
  <1>10. CASE HelperReply
    <2>1. /\ Head(rxApi) \in Resources
          /\ Tail(rxApi) \in Seq(Resources)
      BY <1>10 DEF HelperReply, TypeOK
    <2>2. rxType' \in Seq(TypeMetas \cup {NoType})
      BY <1>10, <2>1, ParseType DEF HelperReply, TypeOK
    <2> QED BY <1>10, <2>1, <2>2 DEF HelperReply, TypeOK, task
  <1>11. ASSUME NEW e \in WatchEvents, WatcherSend(e) PROVE TypeOK'
    <2>1. chan' \in Seq(WatchEvents)
      <3>1. CASE pc = "dead"
        BY <1>11, <3>1 DEF WatcherSend, TypeOK
      <3>2. CASE pc # "dead"
        BY <1>11, <3>2, SMTT(60) DEF WatcherSend, TypeOK
      <3> QED BY <3>1, <3>2
    <2>2. watchers' \subseteq Resources
      BY <1>11, Zenon DEF WatcherSend, TypeOK
    <2> QED BY <1>11, <2>1, <2>2 DEF WatcherSend, TypeOK, task
  <1>12. ASSUME NEW e \in WatchEvents, TimerSend(e) PROVE TypeOK'
    <2>1. chan' \in Seq(WatchEvents)
      <3>1. CASE pc = "dead"
        BY <1>12, <3>1 DEF TimerSend, TypeOK
      <3>2. CASE pc # "dead"
        BY <1>12, <3>2, SMTT(60) DEF TimerSend, TypeOK
      <3> QED BY <3>1, <3>2
    <2> QED BY <1>12, <2>1 DEF TimerSend, TypeOK, task
  <1>13. ASSUME NEW id \in Objects, ClusterChange(id) PROVE TypeOK'
    <2>1. live' \subseteq Objects /\ wasAbsent' \subseteq Keys
      BY <1>13 DEF ClusterChange, SetLive, TypeOK
    <2> QED BY <1>13, <2>1 DEF ClusterChange, SetLive, TypeOK, task, queues
  <1>14. CASE UNCHANGED vars
    BY <1>14 DEF vars, TypeOK
  <1>15. CASE PollTick \/ PurgeTick
    BY <1>12, <1>15, EventTypes DEF PollTick, PurgeTick, PrintAll, Purge, WatchEvents
  <1>16. CASE \E o \in Delivered : WatcherSend(Add(o)) \/ WatcherSend(Delete(o))
    <2> PICK o \in Delivered : WatcherSend(Add(o)) \/ WatcherSend(Delete(o))
      BY <1>16
    <2>1. Add(o) \in WatchEvents /\ Delete(o) \in WatchEvents
      BY EventTypes
    <2> QED BY <1>11, <2>1
  <1>17. CASE IngestStep
    BY <1>1, <1>2, <1>3, <1>4, <1>5, <1>6, <1>7, <1>8, <1>9, <1>17 DEF IngestStep
  <1> QED
    BY <1>10, <1>13, <1>14, <1>15, <1>16, <1>17 DEF Next

\* Every variable of the pipeline keeps its type, and an object is held exactly
\* while its TypeMeta is being looked up.
THEOREM TypeCorrect == Spec => []TypeOK
  BY TypeInit, TypeStep, PTL DEF Spec

-----------------------------------------------------------------------------
(***************************************************************************)
(* The inductive invariant.                                                *)
(***************************************************************************)
LEMMA InsertInv ==
  ASSUME TypeOK, Stored, NEW o \in DynamicObjects, Insert(o), UNCHANGED live
  PROVE  /\ Stored'
         /\ \A k \in Keys : \/ cache'[k] = cache[k]
                            \/ cache'[k] = o
  <1>1. KeyOf(o.id) \in Keys
    BY KeyOfType DEF DynamicObjects
  <1>2. cache' = [cache EXCEPT ![KeyOf(o.id)] = o]
    BY DEF Insert
  <1>3. \A k \in Keys : cache'[k] = IF k = KeyOf(o.id) THEN o ELSE cache[k]
    BY <1>1, <1>2 DEF TypeOK
  <1>4. \A k \in Keys : k # KeyOf(o.id) => (k \in wasAbsent' <=> k \in wasAbsent)
    BY DEF Insert
  <1>5. o.id \in live \/ KeyOf(o.id) \in wasAbsent'
    BY DEF Insert
  <1> QED BY <1>1, <1>3, <1>4, <1>5 DEF Stored

LEMMA RemoveInv ==
  ASSUME TypeOK, Stored, NEW os, RemoveAll(os), UNCHANGED live
  PROVE  /\ Stored'
         /\ \A k \in Keys : \/ cache'[k] = cache[k]
                            \/ cache'[k] = NoEntry
  <1>1. \A k \in Keys : /\ cache'[k] \in {cache[k], NoEntry}
                        /\ cache'[k] # NoEntry => (k \in wasAbsent' <=> k \in wasAbsent)
    BY DEF RemoveAll
  <1> QED BY <1>1 DEF Stored

\* Entries only ever lost or replaced by a well-formed one stay well-formed.
LEMMA EntriesInv ==
  ASSUME TypeOK, MutexNeverPoisoned, LookupPairing, NEW o \in DynamicObjects,
         HasAge(o), o.types # NoType => o.types.res = o.id.res,
         \A k \in Keys : cache'[k] \in {cache[k], o, NoEntry}
  PROVE  \A e \in Entries' : /\ HasAge(e)
                             /\ e.types # NoType => e.types.res = e.id.res
  BY DEF Entries, MutexNeverPoisoned, LookupPairing

LEMMA DeathInv ==
  ASSUME IInv, Die, UNCHANGED <<cache, wasAbsent, live, poisoned>>
  PROVE  IInv'
  BY DEF IInv, Die, LookupPairing, PurgeVerdictsFresh, MutexNeverPoisoned,
         Stored, PurgeScope, HeldUntyped, Entries

LEMMA InvInit == Init => IInv
  BY DEF Init, IInv, LookupPairing, PurgeVerdictsFresh, MutexNeverPoisoned,
         Stored, PurgeScope, HeldUntyped, Entries

LEMMA InvStep == TypeOK /\ IInv /\ [Next]_vars => IInv'
  <1> SUFFICES ASSUME TypeOK, IInv, [Next]_vars PROVE IInv'
    OBVIOUS
  <1> USE DEF IInv
  <1>1. CASE RecvTyped
    <2> DEFINE o == Head(chan).obj
    <2>1. /\ o \in DynamicObjects
          /\ o.types # NoType => o.types.res = o.id.res
      BY <1>1, TakenType, EventObject DEF RecvTyped, Receives
    <2>2. CASE HasAge(o)
      <3>1. Insert(o) /\ UNCHANGED <<rxApi, rxType, task, live, poisoned>>
        BY <1>1, <2>2 DEF RecvTyped
      <3>2. pc = "recv"
        BY <1>1 DEF RecvTyped, Receives
      <3> HIDE DEF o
      <3>3. /\ Stored'
            /\ \A k \in Keys : cache'[k] \in {cache[k], o, NoEntry}
        BY <2>1, <3>1, InsertInv
      <3>4. \A e \in Entries' : /\ HasAge(e)
                                /\ e.types # NoType => e.types.res = e.id.res
        BY <2>1, <2>2, <3>3, EntriesInv
      <3> QED BY <3>1, <3>2, <3>3, <3>4 DEF task, LookupPairing,
            PurgeVerdictsFresh, MutexNeverPoisoned, PurgeScope, HeldUntyped
    <2>3. CASE ~HasAge(o)
      BY <1>1, <2>3, DeathInv DEF RecvTyped
    <2> QED BY <2>2, <2>3
  <1>2. CASE RecvUntyped
    BY <1>2 DEF RecvUntyped, Receives, Entries, LookupPairing, Stored,
       PurgeVerdictsFresh, MutexNeverPoisoned, PurgeScope, HeldUntyped
  <1>3. CASE RecvTypeMeta
    <2> DEFINE o == [held EXCEPT !.types = Head(rxType)]
    <2>1. /\ held \in DynamicObjects
          /\ Head(rxType) \in TypeMetas \cup {NoType}
          /\ pc = "typing"
      BY <1>3 DEF RecvTypeMeta, TypeOK
    <2>2. rxApi = <<>> /\ rxType = <<ParseTypeMeta(held.id.res)>>
      BY <1>3, <2>1 DEF RecvTypeMeta, LookupPairing
    <2>3. /\ o \in DynamicObjects
          /\ o.types # NoType => o.types.res = o.id.res
      BY <2>1, <2>2, RetypedType DEF ParseTypeMeta
    <2>4. CASE HasAge(o)
      <3>1. /\ Insert(o)
            /\ rxType' = <<>>
            /\ pc' = "recv"
            /\ UNCHANGED <<rxApi, todo, missing, live, poisoned>>
        BY <1>3, <2>2, <2>4 DEF RecvTypeMeta
      <3> HIDE DEF o
      <3>2. /\ Stored'
            /\ \A k \in Keys : cache'[k] \in {cache[k], o, NoEntry}
        BY <2>3, <3>1, InsertInv
      <3>3. \A e \in Entries' : /\ HasAge(e)
                                /\ e.types # NoType => e.types.res = e.id.res
        BY <2>3, <2>4, <3>2, EntriesInv
      <3> QED BY <2>1, <2>2, <3>1, <3>2, <3>3 DEF LookupPairing,
            PurgeVerdictsFresh, MutexNeverPoisoned, PurgeScope, HeldUntyped
    <2>5. CASE ~HasAge(o)
      BY <1>3, <2>5, DeathInv DEF RecvTypeMeta
    <2> QED BY <2>4, <2>5
  <1>4. CASE RecvDelete
    <2> DEFINE o == Head(chan).obj
    <2>1. /\ o \in DynamicObjects
          /\ o.types # NoType => o.types.res = o.id.res
      BY <1>4, TakenType, EventObject DEF RecvDelete, Receives
    <2>2. CASE HasAge(o)
      <3>1. RemoveAll({o}) /\ UNCHANGED <<rxApi, rxType, task, live, poisoned>>
        BY <1>4, <2>2 DEF RecvDelete
      <3>2. pc = "recv"
        BY <1>4 DEF RecvDelete, Receives
      <3> HIDE DEF o
      <3>3. /\ Stored'
            /\ \A k \in Keys : cache'[k] \in {cache[k], o, NoEntry}
        BY <3>1, RemoveInv
      <3>4. \A e \in Entries' : /\ HasAge(e)
                                /\ e.types # NoType => e.types.res = e.id.res
        BY <2>1, <2>2, <3>3, EntriesInv
      <3> QED BY <3>1, <3>2, <3>3, <3>4 DEF task, LookupPairing,
            PurgeVerdictsFresh, MutexNeverPoisoned, PurgeScope, HeldUntyped
    <2>3. CASE ~HasAge(o)
      BY <1>4, <2>3, DeathInv DEF RecvDelete
    <2> QED BY <2>2, <2>3
  <1>5. CASE RecvPrintAll
    BY <1>5 DEF RecvPrintAll, Receives, task, Entries, LookupPairing, Stored,
       PurgeVerdictsFresh, MutexNeverPoisoned, PurgeScope, HeldUntyped
  <1>6. ASSUME NEW connected \in BOOLEAN, PurgeBegin(connected) PROVE IInv'
    <2>1. /\ todo' \subseteq {o \in Entries : Checkable(o)}
          /\ missing' = {}
          /\ pc = "recv" /\ pc' = "checking"
          /\ UNCHANGED <<rxApi, rxType, held, cache, poisoned, live, wasAbsent>>
      BY <1>6, Zenon DEF PurgeBegin, Receives
    <2>2. \A o \in todo' : cache[KeyOf(o.id)] = o
      BY <2>1 DEF Entries, Stored
    <2>3. PurgeVerdictsFresh' /\ PurgeScope'
      BY <2>1, <2>2 DEF PurgeVerdictsFresh, PurgeScope
    <2> QED BY <2>1, <2>3 DEF Entries, LookupPairing, Stored, MutexNeverPoisoned,
          HeldUntyped
  <1>7. ASSUME NEW o \in todo, CheckAnswered(o) PROVE IInv'
    <2>1. /\ o \in DynamicObjects
          /\ cache[KeyOf(o.id)] = o
          /\ o.types # NoType
          /\ KeyOf(o.id) \in Keys
      BY KeyOfType DEF TypeOK, PurgeVerdictsFresh, PurgeScope, Checkable, DynamicObjects
    <2>2. o.types.res = o.id.res
      BY <2>1 DEF LookupPairing, Entries
    <2>3. Addressed(o) = o.id
      BY <2>1, <2>2 DEF Addressed, DynamicObjects, Objects
    <2>4. o.id \in live \/ KeyOf(o.id) \in wasAbsent
      BY <2>1 DEF Stored
    <2>5. /\ \A e \in todo' \cup missing' : e \in todo \cup missing
          /\ \A e \in missing' : \/ e \in missing
                                 \/ e = o /\ (o.id \notin live \/ Misaddressed(o))
      <3>1. Checkable(o)
        BY DEF PurgeScope
      <3>2. ~PluralKnown(o) => Misaddressed(o)
        BY <1>7, <3>1 DEF CheckAnswered, Answerable, Misaddressed
      <3> QED BY <1>7, <2>3, <3>2 DEF CheckAnswered
    <2>6. PurgeVerdictsFresh' /\ PurgeScope'
      BY <1>7, <2>4, <2>5 DEF CheckAnswered, PurgeVerdictsFresh, PurgeScope
    <2> QED BY <1>7, <2>6 DEF CheckAnswered, queues, Entries, LookupPairing, Stored,
          MutexNeverPoisoned, HeldUntyped
  <1>8. ASSUME NEW o \in todo, CheckFailed(o) PROVE IInv'
    BY <1>8 DEF CheckFailed, queues, Entries, LookupPairing, Stored,
       PurgeVerdictsFresh, MutexNeverPoisoned, PurgeScope, HeldUntyped
  <1>9. CASE PurgeCommit
    <2>1. \A o \in missing : HasAge(o)
      BY KeyOfType DEF PurgeVerdictsFresh, MutexNeverPoisoned, Entries, TypeOK, DynamicObjects
    <2>2. ~poisoned'
      BY <1>9, <2>1, Zenon DEF PurgeCommit
    <2>3. /\ RemoveAll(missing)
          /\ pc = "checking" /\ pc' = "recv"
          /\ todo = {} /\ missing' = {}
          /\ UNCHANGED <<queues, held, todo, live>>
      BY <1>9, <2>2, Zenon DEF PurgeCommit
    <2>4. /\ Stored'
          /\ \A k \in Keys : cache'[k] \in {cache[k], NoEntry}
      BY <2>3, RemoveInv
    <2>5. \A e \in Entries' : e \in Entries
      BY <2>4 DEF Entries
    <2> QED BY <2>2, <2>3, <2>4, <2>5 DEF queues, LookupPairing, PurgeVerdictsFresh,
          MutexNeverPoisoned, PurgeScope, HeldUntyped
  <1>10. CASE HelperReply
    <2>1. /\ pc = "typing"
          /\ rxApi = <<held.id.res>> /\ rxType = <<>>
      BY <1>10 DEF HelperReply, LookupPairing
    <2>2. rxApi' = <<>> /\ rxType' = <<ParseTypeMeta(held.id.res)>>
      BY <1>10, <2>1 DEF HelperReply
    <2> QED BY <1>10, <2>1, <2>2 DEF HelperReply, task, Entries, LookupPairing, Stored,
          PurgeVerdictsFresh, MutexNeverPoisoned, PurgeScope, HeldUntyped
  <1>11. ASSUME NEW id \in Objects, ClusterChange(id) PROVE IInv'
    <2>1. /\ wasAbsent \subseteq wasAbsent'
          /\ Stored'
      BY <1>11 DEF ClusterChange, SetLive, Stored
    <2> QED BY <1>11, <2>1 DEF ClusterChange, queues, task, Entries, LookupPairing,
          PurgeVerdictsFresh, MutexNeverPoisoned, PurgeScope, HeldUntyped
  <1>12. ASSUME UNCHANGED <<rxApi, rxType, task, cache, poisoned, live, wasAbsent>>
         PROVE  IInv'
    BY <1>12 DEF task, Entries, LookupPairing, Stored, PurgeVerdictsFresh,
       MutexNeverPoisoned, PurgeScope, HeldUntyped
  <1>13. CASE PollTick \/ PurgeTick
    BY <1>12, <1>13 DEF PollTick, PurgeTick, TimerSend
  <1>14. CASE \E o \in Delivered : WatcherSend(Add(o)) \/ WatcherSend(Delete(o))
    BY <1>12, <1>14 DEF WatcherSend
  <1>15. CASE UNCHANGED vars
    BY <1>12, <1>15 DEF vars, task
  <1>16. CASE IngestStep
    BY <1>1, <1>2, <1>3, <1>4, <1>5, <1>6, <1>7, <1>8, <1>9, <1>16 DEF IngestStep
  <1> HIDE DEF IInv
  <1> QED
    BY <1>10, <1>11, <1>13, <1>14, <1>15, <1>16 DEF Next

THEOREM Invariance == Spec => []IInv
  BY TypeInit, TypeStep, InvInit, InvStep, PTL DEF Spec

\* The ingest task and the TypeMeta helper stay in step: no answer is taken for
\* another object, and nothing is cached with the TypeMeta of another API.
THEOREM LookupsPaired == Spec => []LookupPairing
<1>1. IInv => LookupPairing
  BY DEF IInv
<1> QED
  BY Invariance, <1>1, PTL

\* Every verdict of a purge is about the object that is still stored: no command
\* comes between the GETs and the removal.  And it was true of that object at some
\* time, or the object was asked for at a wrong URL.
THEOREM VerdictsFresh == Spec => []PurgeVerdictsFresh
<1>1. IInv => PurgeVerdictsFresh
  BY DEF IInv
<1> QED
  BY Invariance, <1>1, PTL

\* No panic strikes while the mutex of the cache is held: every object that got
\* in has the timestamp a purge unwraps.
THEOREM NeverPoisoned == Spec => []MutexNeverPoisoned
<1>1. IInv => MutexNeverPoisoned
  BY DEF IInv
<1> QED
  BY Invariance, <1>1, PTL

-----------------------------------------------------------------------------
(***************************************************************************)
(* The pipeline implements the store.                                      *)
(***************************************************************************)
LEMMA Prefixed ==
  ASSUME NEW S, NEW s \in Seq(S), NEW e \in S
  PROVE  /\ <<e>> \o s # <<>>
         /\ Head(<<e>> \o s) = e
         /\ Tail(<<e>> \o s) = s
         /\ Len(<<e>> \o s) = Len(s) + 1
         /\ \A f \in S : <<e>> \o Append(s, f) = Append(<<e>> \o s, f)
  OBVIOUS

LEMMA Unprefixed ==
  ASSUME NEW S, NEW s \in Seq(S)
  PROVE  <<>> \o s = s
  OBVIOUS

LEMMA Rejoined ==
  ASSUME NEW S, NEW s \in Seq(S), s # <<>>
  PROVE  <<Head(s)>> \o Tail(s) = s
  OBVIOUS

\* Commands are equal when they have the same name and object.
LEMMA EventForm ==
  ASSUME NEW e \in WatchEvents
  PROVE  /\ e.command = "Add" => e = Add(e.obj)
         /\ e.command = "Delete" => e = Delete(e.obj)
         /\ e.command = "Purge" => e = Purge
         /\ e.command = "PrintAll" => e = PrintAll
  BY DEF WatchEvents, Add, Delete, Purge, PrintAll

\* The store's queue, by where the ingest task is.
LEMMA QueueForm ==
  ASSUME TypeOK, IInv
  PROVE  /\ pc \in {"recv", "dead"} => InWork \o chan = chan
         /\ pc = "typing" =>
              /\ InWork \o chan # <<>>
              /\ Head(InWork \o chan) = Add(held)
              /\ Tail(InWork \o chan) = chan
         /\ pc = "checking" =>
              /\ InWork \o chan # <<>>
              /\ Head(InWork \o chan) = Purge
              /\ Tail(InWork \o chan) = chan
  <1>1. chan \in Seq(WatchEvents)
    BY DEF TypeOK
  <1>2. CASE pc \in {"recv", "dead"}
    BY <1>1, <1>2, Unprefixed DEF InWork
  <1>3. CASE pc = "typing"
    <2>1. Add(held) \in WatchEvents
      BY <1>3, EventTypes DEF TypeOK, IInv, HeldUntyped, Delivered
    <2> QED BY <1>1, <1>3, <2>1, Prefixed DEF InWork
  <1>4. CASE pc = "checking"
    <2>1. Purge \in WatchEvents
      BY DEF WatchEvents
    <2> QED BY <1>1, <1>4, <2>1, Prefixed DEF InWork
  <1> QED BY <1>2, <1>3, <1>4 DEF TypeOK

\* The store's own copy of Objects is the pipeline's.
LEMMA SameData ==
  /\ Store!Objects = Objects
  /\ Store!Keys = Keys
  /\ Store!WatchEvents = WatchEvents
  /\ \A id : Store!KeyOf(id) = KeyOf(id)
  /\ \A r : Store!ParseTypeMeta(r) = ParseTypeMeta(r)
  /\ \A o : Store!HasAge(o) <=> HasAge(o)
  /\ \A o : Store!Checkable(o) <=> Checkable(o)
  /\ \A o : Store!Misaddressed(o) <=> Misaddressed(o)
  BY DEF Store!Objects, Objects, Store!Keys, Keys, Store!KeyOf, KeyOf,
     Store!WatchEvents, WatchEvents, Store!Delivered, Delivered,
     Store!DynamicObjects, DynamicObjects, Store!TypeMetas, TypeMetas,
     Store!OwnType, OwnType, Store!Purge, Purge, Store!PrintAll, PrintAll,
     Store!ParseTypeMeta, ParseTypeMeta, Store!HasAge, HasAge,
     Store!Checkable, Checkable, Store!Misaddressed, Misaddressed,
     Store!PluralKnown, PluralKnown

LEMMA SubmitStep ==
  ASSUME TypeOK, IInv, NEW e \in WatchEvents, pc # "dead", Len(chan) < Capacity,
         chan' = Append(chan, e), UNCHANGED <<task, cache, live, wasAbsent>>
  PROVE  Store!Submit(e)
  <1>1. chan \in Seq(WatchEvents) /\ InWork' = InWork
    BY DEF TypeOK, task, InWork
  <1>2. /\ Len(InWork \o chan) < Capacity + 1
        /\ InWork' \o chan' = Append(InWork \o chan, e)
    <2>1. CASE pc = "recv"
      BY <1>1, <2>1 DEF InWork
    <2>2. CASE pc = "typing"
      <3>1. Add(held) \in WatchEvents
        BY <2>2, EventTypes DEF TypeOK, IInv, HeldUntyped, Delivered
      <3>2. InWork = <<Add(held)>>
        BY <2>2 DEF InWork
      <3> QED BY <1>1, <3>1, <3>2, Prefixed
    <2>3. CASE pc = "checking"
      <3>1. Purge \in WatchEvents
        BY DEF WatchEvents
      <3>2. InWork = <<Purge>>
        BY <2>3 DEF InWork
      <3> QED BY <1>1, <3>1, <3>2, Prefixed
    <2> QED BY <2>1, <2>2, <2>3 DEF TypeOK
  <1>3. pc' = pc
    BY DEF task
  <1> QED BY <1>2, <1>3 DEF Store!Submit

LEMMA RefineInit == Init => Store!Init
  BY SameData DEF Init, Store!Init, InWork

LEMMA RefineStep ==
  TypeOK /\ IInv /\ [Next]_vars => [Store!Next]_(Store!vars)
  <1> SUFFICES ASSUME TypeOK, IInv, [Next]_vars
               PROVE  Store!Next \/ UNCHANGED Store!vars
    OBVIOUS
  <1>1. CASE RecvTyped
    <2> DEFINE o == Head(chan).obj
    <2>1. /\ pc = "recv" /\ chan # <<>> /\ Head(chan).command = "Add"
          /\ InWork \o chan = chan
      BY <1>1, QueueForm DEF RecvTyped, Receives
    <2>2. CASE HasAge(o)
      <3>1. /\ Insert(o) /\ chan' = Tail(chan)
            /\ pc' = "recv" /\ live' = live
        BY <1>1, <2>1, <2>2 DEF RecvTyped, task
      <3>2. InWork' \o chan' = Tail(chan)
        BY <2>1, <3>1, TakenType, Unprefixed DEF InWork
      <3>3. Store!Typed(o) = o
        BY <1>1, SameData DEF RecvTyped, Store!Typed
      <3>4. Store!ApplyAdd
        BY <2>1, <2>2, <3>1, <3>2, <3>3, SameData DEF Store!ApplyAdd, Store!Pending, Insert
      <3> QED BY <3>4 DEF Store!Next
    <2>3. CASE ~HasAge(o)
      <3>1. Die /\ UNCHANGED <<cache, wasAbsent, live>>
        BY <1>1, <2>3 DEF RecvTyped
      <3>2. InWork' \o chan' = <<>>
        BY <3>1 DEF Die, InWork
      <3>3. Store!Crash
        BY <2>1, <2>3, <3>1, <3>2, SameData DEF Store!Crash, Die
      <3> QED BY <3>3 DEF Store!Next
    <2> QED BY <2>2, <2>3
  <1>2. CASE RecvUntyped
    <2>1. /\ pc = "recv" /\ chan # <<>> /\ Head(chan).command = "Add"
          /\ InWork \o chan = chan
      BY <1>2, QueueForm DEF RecvUntyped, Receives
    <2>2. Add(held') = Head(chan)
      BY <1>2, <2>1, TakenType, EventForm DEF RecvUntyped
    <2>3. InWork' \o chan' = chan
      BY <1>2, <2>1, <2>2, Rejoined DEF RecvUntyped, InWork, TypeOK
    <2>4. UNCHANGED Store!vars
      BY <1>2, <2>1, <2>3 DEF RecvUntyped, Store!vars
    <2> QED BY <2>4
  <1>3. CASE RecvTypeMeta
    <2> DEFINE o == [held EXCEPT !.types = Head(rxType)]
    <2>1. /\ pc = "typing"
          /\ held \in DynamicObjects /\ held.types = NoType
          /\ rxType = <<ParseTypeMeta(held.id.res)>>
      BY <1>3 DEF RecvTypeMeta, TypeOK, IInv, HeldUntyped, LookupPairing
    <2>2. /\ InWork \o chan # <<>>
          /\ Head(InWork \o chan) = Add(held)
          /\ Tail(InWork \o chan) = chan
      BY <2>1, QueueForm
    <2>3. /\ Add(held).command = "Add" /\ Add(held).obj = held
      BY DEF Add
    <2>4. o.id = held.id /\ Head(rxType) = ParseTypeMeta(held.id.res)
      BY <2>1
    <2>5. HasAge(o) <=> HasAge(held)
      BY <2>4 DEF HasAge
    <2>6. CASE HasAge(o)
      <3>1. /\ Insert(o) /\ UNCHANGED <<chan, live>>
            /\ pc' = "recv"
        BY <1>3, <2>6 DEF RecvTypeMeta
      <3>2. InWork' \o chan' = chan
        BY <3>1, Unprefixed DEF InWork, TypeOK
      <3>3. Store!Typed(held) = o
        BY <2>1, <2>4, SameData DEF Store!Typed
      <3>4. Store!ApplyAdd
        BY <2>1, <2>2, <2>3, <2>4, <2>5, <2>6, <3>1, <3>2, <3>3, SameData
        DEF Store!ApplyAdd, Store!Pending, Insert
      <3> QED BY <3>4 DEF Store!Next
    <2>7. CASE ~HasAge(o)
      <3>1. Die /\ UNCHANGED <<cache, wasAbsent, live>>
        BY <1>3, <2>7 DEF RecvTypeMeta
      <3>2. InWork' \o chan' = <<>>
        BY <3>1 DEF Die, InWork
      <3>3. Store!Crash
        BY <2>1, <2>2, <2>3, <2>5, <2>7, <3>1, <3>2, SameData DEF Store!Crash, Die
      <3> QED BY <3>3 DEF Store!Next
    <2> QED BY <2>6, <2>7
  <1>4. CASE RecvDelete
    <2> DEFINE o == Head(chan).obj
    <2>1. /\ pc = "recv" /\ chan # <<>> /\ Head(chan).command = "Delete"
          /\ InWork \o chan = chan
      BY <1>4, QueueForm DEF RecvDelete, Receives
    <2>2. CASE HasAge(o)
      <3>1. /\ RemoveAll({o}) /\ chan' = Tail(chan)
            /\ pc' = "recv" /\ live' = live
        BY <1>4, <2>1, <2>2 DEF RecvDelete, task
      <3>2. InWork' \o chan' = Tail(chan)
        BY <2>1, <3>1, TakenType, Unprefixed DEF InWork
      <3>3. cache' = [cache EXCEPT ![KeyOf(o.id)] = NoEntry]
        BY <3>1 DEF RemoveAll, TypeOK
      <3>4. wasAbsent' = wasAbsent \ {KeyOf(o.id)}
        BY <3>1 DEF RemoveAll
      <3>5. Store!ApplyDelete
        BY <2>1, <2>2, <3>1, <3>2, <3>3, <3>4, SameData DEF Store!ApplyDelete, Store!Pending
      <3> QED BY <3>5 DEF Store!Next
    <2>3. CASE ~HasAge(o)
      <3>1. Die /\ UNCHANGED <<cache, wasAbsent, live>>
        BY <1>4, <2>3 DEF RecvDelete
      <3>2. InWork' \o chan' = <<>>
        BY <3>1 DEF Die, InWork
      <3>3. Store!Crash
        BY <2>1, <2>3, <3>1, <3>2, SameData DEF Store!Crash, Die
      <3> QED BY <3>3 DEF Store!Next
    <2> QED BY <2>2, <2>3
  <1>5. CASE RecvPrintAll
    <2>1. /\ pc = "recv" /\ chan # <<>> /\ Head(chan).command = "PrintAll"
          /\ InWork \o chan = chan
      BY <1>5, QueueForm DEF RecvPrintAll, Receives
    <2>2. InWork' \o chan' = Tail(chan)
      BY <1>5, <2>1, TakenType, Unprefixed DEF RecvPrintAll, task, InWork
    <2>3. Store!ApplyPrintAll
      BY <1>5, <2>1, <2>2 DEF RecvPrintAll, task, Store!ApplyPrintAll, Store!Pending
    <2> QED BY <2>3 DEF Store!Next
  <1>6. ASSUME NEW connected \in BOOLEAN, PurgeBegin(connected)
        PROVE  UNCHANGED Store!vars
    <2>1. /\ pc = "recv" /\ chan # <<>> /\ Head(chan).command = "Purge"
          /\ InWork \o chan = chan
      BY <1>6, QueueForm DEF PurgeBegin, Receives
    <2>2. Head(chan) = Purge
      BY <2>1, TakenType, EventForm
    <2>3. InWork' \o chan' = chan
      BY <1>6, <2>1, <2>2, Rejoined DEF PurgeBegin, InWork, TypeOK
    <2> QED BY <1>6, <2>1, <2>3 DEF PurgeBegin, Store!vars
  <1>7. ASSUME NEW o \in todo, CheckAnswered(o) \/ CheckFailed(o)
        PROVE  UNCHANGED Store!vars
    BY <1>7 DEF CheckAnswered, CheckFailed, queues, InWork, Store!vars
  <1>8. CASE PurgeCommit
    <2> DEFINE gone == {KeyOf(o.id) : o \in missing}
    <2>1. \A o \in missing : HasAge(o)
      BY KeyOfType DEF IInv, PurgeVerdictsFresh, MutexNeverPoisoned, Entries, TypeOK, DynamicObjects
    <2>2. ~poisoned'
      BY <1>8, <2>1, Zenon DEF PurgeCommit
    <2>3. /\ RemoveAll(missing)
          /\ pc = "checking" /\ pc' = "recv"
          /\ chan' = chan /\ live' = live
      BY <1>8, <2>2, Zenon DEF PurgeCommit, queues
    <2>4. /\ gone \subseteq Keys
          /\ \A k \in gone : /\ cache[k] # NoEntry /\ Checkable(cache[k])
                             /\ k \in wasAbsent \/ Misaddressed(cache[k])
      BY KeyOfType DEF IInv, PurgeVerdictsFresh, PurgeScope, TypeOK, DynamicObjects
    <2>5. /\ InWork \o chan # <<>>
          /\ Head(InWork \o chan).command = "Purge"
          /\ Tail(InWork \o chan) = chan
      BY <2>3, QueueForm DEF Purge
    <2>6. InWork' \o chan' = chan
      BY <2>3, Unprefixed DEF InWork, TypeOK
    <2>7. Store!ApplyPurge
      BY <2>3, <2>4, <2>5, <2>6, SameData DEF RemoveAll, Store!ApplyPurge, Store!Pending
    <2> QED BY <2>7 DEF Store!Next
  <1>9. CASE HelperReply
    BY <1>9 DEF HelperReply, task, InWork, Store!vars
  <1>10. ASSUME NEW e \in WatchEvents, WatcherSend(e) \/ TimerSend(e)
         PROVE  Store!Next \/ UNCHANGED Store!vars
    <2>1. CASE pc = "dead"
      BY <1>10, <2>1 DEF WatcherSend, TimerSend, task, InWork, Store!vars
    <2>2. CASE pc # "dead"
      BY <1>10, <2>2, SubmitStep, SameData DEF WatcherSend, TimerSend, Store!Next
    <2> QED BY <2>1, <2>2
  <1>11. CASE PollTick \/ PurgeTick
    BY <1>10, <1>11 DEF PollTick, PurgeTick, PrintAll, Purge, WatchEvents
  <1>12. CASE \E o \in Delivered : WatcherSend(Add(o)) \/ WatcherSend(Delete(o))
    BY <1>10, <1>12, EventTypes
  <1>13. ASSUME NEW id \in Objects, ClusterChange(id) PROVE Store!Next
    <2>1. live' \in SUBSET Objects
      BY <1>13 DEF ClusterChange, SetLive, TypeOK
    <2>2. Store!World
      BY <1>13, <2>1, SameData DEF ClusterChange, SetLive, queues, task, InWork, Store!World
    <2> QED BY <2>2 DEF Store!Next
  <1>14. CASE UNCHANGED vars
    BY <1>14 DEF vars, InWork, Store!vars
  <1>15. CASE IngestStep
    BY <1>1, <1>2, <1>3, <1>4, <1>5, <1>6, <1>7, <1>8, <1>15 DEF IngestStep
  <1> QED
    BY <1>9, <1>11, <1>12, <1>13, <1>14, <1>15 DEF Next

\* The pipeline implements the store: the helper's answers, the GETs of a purge
\* and every interleaving with the tasks that send are invisible to the cache.
THEOREM Refinement == Spec => ImplementsStore
  BY TypeInit, TypeStep, InvInit, InvStep, RefineInit, RefineStep, PTL
  DEF Spec, ImplementsStore, Store!Spec
=============================================================================
