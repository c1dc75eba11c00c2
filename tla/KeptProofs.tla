----------------------------- MODULE KeptProofs -----------------------------
(***************************************************************************)
(* No object that stays in the cluster is lost on its way to the cache,    *)
(* and none is left there in a state older than its list, but for kinds a  *)
(* purge asks for at a wrong plural.                                       *)
(***************************************************************************)
EXTENDS PipelineProofs, Induction

(***************************************************************************)
(* Where an object is, and in which state.                                 *)
(***************************************************************************)
\* What the ingest task has of an object: an Add in the channel, the object it
\* works on, the entry of the cache.
IsAdd(n, id) == chan[n].command = "Add" /\ chan[n].obj.id = id
InHand(id) == pc = "typing" /\ held.id = id
InFlow(id) == \/ \E n \in 1..Len(chan) : IsAdd(n, id)
              \/ InHand(id) \/ Cached(id)

Carried == {chan[n].obj : n \in {m \in 1..Len(chan) : chan[m].command = "Add"}}
             \cup (IF pc = "typing" THEN {held} ELSE {}) \cup Entries

Item(id) == \E o \in items[id.res] : o.id = id

ListedAt(id) == listed["restarted"][id.res]
\* What is to be kept: never removed, alone under its key, asked for at its URL.
Lasting(id) == KeyAlone(id) /\ PurgeSafe(id) /\ id \in selected \ Removed
Changed(id, j) == j = 0 \/ history[j].id = id

\* No change the restarted watcher listed is newer than the object o.
UpToDate(o) == \A j \in 0..ListedAt(o.id) : Changed(o.id, j) => j <= o.ver

\* The version of an object is its last change, and items are of their own API.
Versioned ==
  /\ \A i \in 1..Len(history) : i <= version[history[i].id]
  /\ \A r \in Resources : \A o \in items[r] : o.id.res = r

\* Before any watcher starts anew, the items of a list are in the state listed,
\* and so is all that was sent before the applied watcher lists.
ItemsFresh ==
  \A r \in Resources : \A o \in items[r] : listed["restarted"][r] # Unlisted /\ UpToDate(o)

OnlyItemsSent ==
  \A o \in Carried :
    listed["applied"][o.id.res] = Unlisted => ListedAt(o.id) # Unlisted /\ UpToDate(o)

\* No Add of the object from the n-th command on is older than change j.
AddsFresh(id, j, n) ==
  \A m \in 1..Len(chan) : n <= m /\ IsAdd(m, id) => j <= chan[m].obj.ver

\* Of what the ingest task has of the object, the last is no older than change j.
LastFresh(id, j) ==
  \/ \E n \in 1..Len(chan) : IsAdd(n, id) /\ AddsFresh(id, j, n)
  \/ /\ AddsFresh(id, j, 1)
     /\ IF InHand(id) THEN j <= held.ver ELSE Cached(id) /\ j <= cache[KeyOf(id)].ver

Present(id) == Item(id) \/ InFlow(id)

\* An object that was there when the restarted watcher listed is on its way; so
\* is one that came since, if the applied watcher saw it come.
NotLost(id) ==
  /\ \/ Present(id)
     \/ \E i \in ListedAt(id) + 1 .. Len(history) : history[i].id = id
  /\ NoGap(id.res) => \/ Present(id)
                      \/ \E i \in Ahead("applied", id.res) : history[i].id = id

NotStale(id, j) ==
  \/ Item(id)
  \/ \E i \in Ahead("applied", id.res) : history[i].id = id /\ j <= i
  \/ LastFresh(id, j)

\* The inductive invariant.  Items and NotLost do not mention the order in which
\* the two watchers list; NoGap selects the orders that lose nothing.
KeptInv ==
  /\ Versioned
  /\ relists = 0 => ItemsFresh /\ OnlyItemsSent
  /\ \A id \in Objects :
       /\ Lasting(id) /\ ListedAt(id) # Unlisted => NotLost(id) \/ pc = "dead"
       /\ Lasting(id) /\ NoGap(id.res) /\ relists = 0 =>
            \/ \A j \in 0..ListedAt(id) : Changed(id, j) => NotStale(id, j)
            \/ pc = "dead"
-----------------------------------------------------------------------------
(***************************************************************************)
(* What the ingest task has of an object, when a command is sent to it and *)
(* when it takes one.                                                      *)
(***************************************************************************)
\* A command is sent: only an Add of the object itself matters, and that comes last.
LEMMA Sent ==
  ASSUME PTypeOK, NEW e \in WatchEvents, chan' = Append(chan, e),
         UNCHANGED <<pc, held, cache>>, NEW id
  PROVE  /\ InFlow(id) \/ (e.command = "Add" /\ e.obj.id = id) => InFlow(id)'
         /\ \A j \in Nat :
              IF e.command = "Add" /\ e.obj.id = id
              THEN j <= e.obj.ver => LastFresh(id, j)'
              ELSE LastFresh(id, j) => LastFresh(id, j)'
         /\ \A o \in Carried' : o \in Carried \/ (e.command = "Add" /\ o = e.obj)
  <1>1. chan \in Seq(WatchEvents)
    BY DEF PTypeOK, TypeOK
  <1>2. /\ Len(chan') = Len(chan) + 1 /\ Len(chan) \in Nat
        /\ \A i \in 1..Len(chan) : chan'[i] = chan[i]
        /\ chan'[Len(chan) + 1] = e
    BY <1>1
  <1>3. \A n \in 1..Len(chan) : IsAdd(n, id)' <=> IsAdd(n, id)
    BY <1>2 DEF IsAdd
  <1> PICK last \in Nat : last = Len(chan) + 1
    BY <1>2
  <1>4. IsAdd(last, id)' <=> e.command = "Add" /\ e.obj.id = id
    BY <1>2 DEF IsAdd
  <1>5. Cached(id)' <=> Cached(id)
    BY DEF Cached
  <1>6. InHand(id)' <=> InHand(id)
    BY DEF InHand
  <1>7. InFlow(id) \/ (e.command = "Add" /\ e.obj.id = id) => InFlow(id)'
    BY <1>2, <1>3, <1>4, <1>5, <1>6 DEF InFlow
  <1>8. ASSUME NEW j \in Nat, LastFresh(id, j), e.command # "Add" \/ e.obj.id # id
        PROVE  LastFresh(id, j)'
    <2>1. \A n \in Nat : AddsFresh(id, j, n) => AddsFresh(id, j, n)'
      BY <1>2, <1>3, <1>4, <1>8 DEF AddsFresh
    <2> QED BY <1>2, <1>3, <1>5, <1>6, <1>8, <2>1 DEF LastFresh
  <1>9. ASSUME NEW j \in Nat, e.command = "Add", e.obj.id = id, j <= e.obj.ver
        PROVE  LastFresh(id, j)'
    <2>1. AddsFresh(id, j, last)'
      BY <1>2, <1>9 DEF AddsFresh
    <2> QED BY <1>2, <1>4, <1>9, <2>1 DEF LastFresh
  <1>10. \A o \in Carried' : o \in Carried \/ (e.command = "Add" /\ o = e.obj)
    BY <1>2 DEF Carried, Entries
  <1> QED BY <1>7, <1>8, <1>9, <1>10

\* A command is taken: the object is still there, unless it is the one taken.
LEMMA Taken ==
  ASSUME PTypeOK, chan # <<>>, chan' = Tail(chan), pc = "recv", NEW id
  PROVE  /\ (\E n \in 1..Len(chan) : IsAdd(n, id))
              => \/ \E n \in 1..Len(chan') : IsAdd(n, id)'
                 \/ Head(chan).command = "Add" /\ Head(chan).obj.id = id
         /\ \A j \in Nat : LastFresh(id, j) =>
              \/ LastFresh(id, j)'
              \/ /\ AddsFresh(id, j, 1)'
                 /\ IF Head(chan).command = "Add" /\ Head(chan).obj.id = id
                    THEN j <= Head(chan).obj.ver
                    ELSE Cached(id) /\ j <= cache[KeyOf(id)].ver
         /\ \A n \in 1..Len(chan') :
              chan'[n].command = "Add" => chan'[n].obj \in Carried
         /\ Head(chan).command = "Add" => Head(chan).obj \in Carried
  <1>1. chan \in Seq(WatchEvents)
    BY DEF PTypeOK, TypeOK
  <1>2. /\ Len(chan') = Len(chan) - 1 /\ Len(chan) \in Nat \ {0}
        /\ \A i \in 1..Len(chan') : chan'[i] = chan[i + 1]
        /\ Head(chan) = chan[1]
    BY <1>1
  <1>3. \A n \in 1..Len(chan) : n # 1 => n - 1 \in 1..Len(chan') /\ chan'[n - 1] = chan[n]
    BY <1>2
  <1>4. \A n \in 1..Len(chan) : n # 1 => (IsAdd(n - 1, id)' <=> IsAdd(n, id))
    BY <1>3 DEF IsAdd
  <1>5. IsAdd(1, id) <=> Head(chan).command = "Add" /\ Head(chan).obj.id = id
    BY <1>2 DEF IsAdd
  <1>6. (\E n \in 1..Len(chan) : IsAdd(n, id))
          => \/ \E n \in 1..Len(chan') : IsAdd(n, id)'
             \/ Head(chan).command = "Add" /\ Head(chan).obj.id = id
    BY <1>2, <1>3, <1>4, <1>5
  <1>7. ASSUME NEW j \in Nat, NEW n \in 1..Len(chan), AddsFresh(id, j, n)
        PROVE  AddsFresh(id, j, n - 1)' /\ (n = 1 => AddsFresh(id, j, 1)')
    <2>1. ASSUME NEW m \in 1..Len(chan'), n - 1 <= m, IsAdd(m, id)'
          PROVE  j <= chan'[m].obj.ver
      <3>1. m + 1 \in 1..Len(chan) /\ n <= m + 1 /\ chan'[m] = chan[m + 1]
        BY <1>2, <2>1
      <3> QED BY <1>7, <2>1, <3>1 DEF AddsFresh, IsAdd
    <2> QED BY <2>1 DEF AddsFresh
  <1>8. ASSUME NEW j \in Nat, LastFresh(id, j), ~ LastFresh(id, j)'
        PROVE  /\ AddsFresh(id, j, 1)'
               /\ IF Head(chan).command = "Add" /\ Head(chan).obj.id = id
                  THEN j <= Head(chan).obj.ver
                  ELSE Cached(id) /\ j <= cache[KeyOf(id)].ver
    <2>1. ASSUME NEW n \in 1..Len(chan), IsAdd(n, id), AddsFresh(id, j, n) PROVE n = 1
      BY <1>3, <1>4, <1>7, <1>8, <2>1 DEF LastFresh
    <2>2. AddsFresh(id, j, 1)
      BY <1>8, <2>1 DEF LastFresh
    <2>3. ~ InHand(id)
      BY DEF InHand
    <2>4. IsAdd(1, id) => j <= Head(chan).obj.ver
      BY <1>2, <2>2 DEF AddsFresh
    <2>5. ~ IsAdd(1, id) => Cached(id) /\ j <= cache[KeyOf(id)].ver
      BY <1>8, <2>1, <2>3 DEF LastFresh
    <2> QED BY <1>2, <1>5, <1>7, <2>2, <2>4, <2>5
  <1>9. \A n \in 1..Len(chan') : chan'[n].command = "Add" => chan'[n].obj \in Carried
    BY <1>2, <1>3 DEF Carried
  <1>10. Head(chan).command = "Add" => Head(chan).obj \in Carried
    BY <1>2 DEF Carried
  <1> QED BY <1>6, <1>8, <1>9, <1>10

(***************************************************************************)
(* A step of the ingest task, its helper or a timer loses nothing of a     *)
(* lasting object, does not make it older, and brings no new object in.    *)
(***************************************************************************)
FlowKept ==
  /\ \A id \in Objects : Lasting(id) /\ InFlow(id) => InFlow(id)' \/ pc' = "dead"
  /\ \A id \in Objects : \A j \in Nat :
       Lasting(id) /\ LastFresh(id, j) => LastFresh(id, j)' \/ pc' = "dead"
  /\ \A o \in Carried' : \E p \in Carried : p.id = o.id /\ p.ver = o.ver

LEMMA RemovedObjects == PTypeOK => Removed \subseteq Objects
  <1> SUFFICES ASSUME PTypeOK, NEW j \in 1..Len(history) PROVE history[j].id \in Objects
    BY DEF Removed
  <1>1. history[j] \in Changes
    BY DEF PTypeOK
  <1> QED BY <1>1 DEF Changes

\* The entry of a lasting object is replaced by another of its own and not removed.
LEMMA EntryKept ==
  ASSUME PTypeOK, IInv, Traced, [PNext]_pvars, NEW id \in Objects,
         Lasting(id), Cached(id),
         \/ \E os : RemoveAll(os)
         \/ \E o \in DynamicObjects : o.id # id /\ Insert(o)
  PROVE  cache'[KeyOf(id)] = cache[KeyOf(id)] /\ Cached(id)'
  <1>1. KeyOf(id) \in Keys
    BY KeyOfType
  <1>2. CASE \E os : RemoveAll(os)
    <2>1. cache'[KeyOf(id)] \in {cache[KeyOf(id)], NoEntry}
      BY <1>1, <1>2 DEF RemoveAll
    <2>2. ASSUME cache'[KeyOf(id)] = NoEntry PROVE FALSE
      <3>1. ~ Misaddressed(cache[KeyOf(id)])
        <4> PICK o : o = cache[KeyOf(id)]
          OBVIOUS
        <4>1. o \in Entries /\ o.id = id
          BY <1>1 DEF Cached, Entries
        <4>2. o.types # NoType => o.types.res = id.res
          BY <4>1 DEF IInv, LookupPairing
        <4>3. ~ (id.res \in Irregular /\ id.res \in BuiltIn)
          BY DEF Lasting, PurgeSafe
        <4> QED BY <4>2, <4>3 DEF Misaddressed, Checkable, PluralKnown
      <3>2. PICK other \in Removed : KeyOf(other) = KeyOf(id)
        BY <1>1, <2>2, <3>1, DropStep DEF Cached
      <3>3. other \in Objects
        BY RemovedObjects
      <3> QED BY <3>2, <3>3 DEF Lasting, KeyAlone
    <2> QED BY <2>1, <2>2 DEF Cached
  <1>3. CASE \E o \in DynamicObjects : o.id # id /\ Insert(o)
    <2>1. PICK o \in DynamicObjects : o.id # id /\ Insert(o)
      BY <1>3
    <2>2. KeyOf(o.id) # KeyOf(id)
      BY <2>1 DEF Lasting, KeyAlone, DynamicObjects
    <2>3. cache'[KeyOf(id)] = cache[KeyOf(id)]
      BY <1>1, <2>1, <2>2 DEF Insert, PTypeOK, TypeOK
    <2> QED BY <2>3 DEF Cached
  <1> QED BY <1>2, <1>3

LEMMA EntryNew ==
  ASSUME PTypeOK, NEW o \in DynamicObjects, Insert(o)
  PROVE  /\ Cached(o.id)' /\ cache'[KeyOf(o.id)] = o
         /\ Entries' \subseteq Entries \cup {o}
  <1>1. KeyOf(o.id) \in Keys
    BY KeyOfType DEF DynamicObjects
  <1>2. cache'[KeyOf(o.id)] = o /\ o # NoEntry
    BY <1>1, NilAssumption DEF Insert, PTypeOK, TypeOK
  <1>3. \A k \in Keys : cache'[k] \in {cache[k], o}
    BY DEF Insert, PTypeOK, TypeOK
  <1> QED BY <1>2, <1>3 DEF Cached, Entries

\* The step keeps what is carried but for the types of an object.
LEMMA FlowUnchanged ==
  ASSUME UNCHANGED <<chan, pc, held, cache>> PROVE FlowKept
  <1>1. Carried' = Carried
    BY DEF Carried, Entries
  <1>2. ASSUME NEW id, NEW j
        PROVE  /\ InFlow(id) <=> InFlow(id)'
               /\ LastFresh(id, j) <=> LastFresh(id, j)'
    BY DEF InFlow, LastFresh, AddsFresh, IsAdd, InHand, Cached
  <1> QED BY <1>1, <1>2 DEF FlowKept

\* A command is taken that stores nothing, and what it removes did not last.
LEMMA FlowTaken ==
  ASSUME PTypeOK, IInv, Traced, [PNext]_pvars,
         chan # <<>>, Head(chan).command # "Add", chan' = Tail(chan),
         pc = "recv", pc' # "typing", cache' = cache \/ \E os : RemoveAll(os)
  PROVE  FlowKept
  <1>1. ASSUME NEW id \in Objects, Lasting(id), Cached(id)
        PROVE  cache'[KeyOf(id)] = cache[KeyOf(id)] /\ Cached(id)'
    BY <1>1, EntryKept DEF Cached
  <1>2. \A id : ~ InHand(id) /\ ~ InHand(id)'
    BY DEF InHand
  <1>3. ASSUME NEW id \in Objects, Lasting(id), InFlow(id) PROVE InFlow(id)'
    BY <1>1, <1>2, <1>3, Taken DEF InFlow
  <1>4. ASSUME NEW id \in Objects, NEW j \in Nat, Lasting(id), LastFresh(id, j)
        PROVE  LastFresh(id, j)'
    BY <1>1, <1>2, <1>4, Taken DEF LastFresh
  <1>5. Entries' \subseteq Entries
    BY DEF Entries, RemoveAll
  <1>6. Carried' \subseteq Carried
    BY <1>5, Taken DEF Carried
  <1> QED BY <1>3, <1>4, <1>6 DEF FlowKept

LEMMA FlowDead ==
  ASSUME Die, UNCHANGED cache PROVE FlowKept
  <1>1. Carried' \subseteq Carried
    BY DEF Die, Carried, Entries
  <1> QED BY <1>1 DEF Die, FlowKept

\* An Add is taken and its object stored.
LEMMA FlowStored ==
  ASSUME PTypeOK, IInv, Traced, [PNext]_pvars, RecvTyped
  PROVE  FlowKept
  <1>1. /\ chan # <<>> /\ Head(chan).command = "Add" /\ pc = "recv"
        /\ Head(chan).obj \in DynamicObjects
    BY TakenType, EventObject DEF RecvTyped, Receives, PTypeOK
  <1> PICK o \in DynamicObjects : o = Head(chan).obj
    BY <1>1
  <1>2. CASE ~ HasAge(o)
    BY <1>2, FlowDead DEF RecvTyped
  <1>3. CASE HasAge(o)
    <2>1. Insert(o) /\ chan' = Tail(chan) /\ pc' = "recv"
      BY <1>1, <1>3 DEF RecvTyped, task
    <2>2. /\ Cached(o.id)' /\ cache'[KeyOf(o.id)] = o
          /\ Entries' \subseteq Entries \cup {o}
      BY <1>1, <2>1, EntryNew
    <2>3. ASSUME NEW id \in Objects, Lasting(id), Cached(id), o.id # id
          PROVE  cache'[KeyOf(id)] = cache[KeyOf(id)] /\ Cached(id)'
      BY <1>1, <2>1, <2>3, EntryKept
    <2>4. \A id : ~ InHand(id) /\ ~ InHand(id)'
      BY <1>1, <2>1 DEF InHand
    <2>5. ASSUME NEW id \in Objects, Lasting(id), InFlow(id) PROVE InFlow(id)'
      <3>1. CASE o.id = id
        BY <2>2, <3>1 DEF InFlow
      <3>2. CASE o.id # id
        BY <1>1, <2>1, <2>3, <2>4, <2>5, <3>2, Taken DEF InFlow
      <3> QED BY <3>1, <3>2
    <2>6. ASSUME NEW id \in Objects, NEW j \in Nat, Lasting(id), LastFresh(id, j)
          PROVE  LastFresh(id, j)'
      <3> SUFFICES ASSUME AddsFresh(id, j, 1)',
                          IF o.id = id THEN j <= o.ver
                                       ELSE Cached(id) /\ j <= cache[KeyOf(id)].ver
                   PROVE  LastFresh(id, j)'
        BY <1>1, <2>1, <2>6, Taken
      <3>1. CASE o.id = id
        BY <2>2, <2>4, <3>1 DEF LastFresh
      <3>2. CASE o.id # id
        BY <2>3, <2>4, <2>6, <3>2 DEF LastFresh
      <3> QED BY <3>1, <3>2
    <2>7. Carried' \subseteq Carried
      BY <1>1, <2>1, <2>2, Taken DEF Carried
    <2> QED BY <2>5, <2>6, <2>7 DEF FlowKept
  <1> QED BY <1>2, <1>3

\* An Add is taken and its object held until its TypeMeta is known.
LEMMA FlowHeld ==
  ASSUME PTypeOK, RecvUntyped PROVE FlowKept
  <1>1. /\ chan # <<>> /\ Head(chan).command = "Add" /\ pc = "recv"
        /\ pc' = "typing" /\ held' = Head(chan).obj
        /\ chan' = Tail(chan) /\ cache' = cache
    BY DEF RecvUntyped, Receives
  <1> PICK o : o = Head(chan).obj
    OBVIOUS
  <1>2. ASSUME NEW id PROVE Cached(id) => Cached(id)'
    BY <1>1 DEF Cached
  <1>3. ASSUME NEW id
        PROVE  /\ ~ InHand(id)
               /\ IF o.id = id THEN InHand(id)' ELSE ~ InHand(id)'
    BY <1>1 DEF InHand
  <1>4. ASSUME NEW id \in Objects, InFlow(id) PROVE InFlow(id)'
    <2>1. CASE o.id = id
      BY <1>3, <2>1 DEF InFlow
    <2>2. CASE o.id # id
      BY <1>1, <1>2, <1>3, <1>4, <2>2, Taken DEF InFlow
    <2> QED BY <2>1, <2>2
  <1>5. ASSUME NEW id \in Objects, NEW j \in Nat, LastFresh(id, j) PROVE LastFresh(id, j)'
    <2> SUFFICES ASSUME AddsFresh(id, j, 1)',
                        IF o.id = id THEN j <= o.ver
                                     ELSE Cached(id) /\ j <= cache[KeyOf(id)].ver
                 PROVE  LastFresh(id, j)'
      BY <1>1, <1>5, Taken
    <2>1. CASE o.id = id
      BY <1>1, <1>3, <2>1 DEF LastFresh
    <2>2. CASE o.id # id
      BY <1>1, <1>2, <1>3, <2>2 DEF LastFresh
    <2> QED BY <2>1, <2>2
  <1>6. Carried' \subseteq Carried
    BY <1>1, Taken DEF Carried, Entries
  <1> QED BY <1>4, <1>5, <1>6 DEF FlowKept

\* The object held is stored with the TypeMeta the helper found for it.
LEMMA FlowTyped ==
  ASSUME PTypeOK, IInv, Traced, [PNext]_pvars, RecvTypeMeta
  PROVE  FlowKept
  <1> PICK o : o = [held EXCEPT !.types = Head(rxType)]
    OBVIOUS
  <1>1. /\ o \in DynamicObjects /\ o.id = held.id /\ o.ver = held.ver
        /\ pc = "typing"
    <2>1. /\ pc = "typing" /\ held \in DynamicObjects
          /\ Head(rxType) \in TypeMetas \cup {NoType}
      BY DEF RecvTypeMeta, PTypeOK, TypeOK
    <2> QED BY <2>1 DEF DynamicObjects
  <1>2. CASE ~ HasAge(o)
    BY <1>2, FlowDead DEF RecvTypeMeta
  <1>3. CASE HasAge(o)
    <2>1. Insert(o) /\ chan' = chan /\ pc' = "recv"
      BY <1>3 DEF RecvTypeMeta
    <2>2. /\ Cached(o.id)' /\ cache'[KeyOf(o.id)] = o
          /\ Entries' \subseteq Entries \cup {o}
      BY <1>1, <2>1, EntryNew
    <2>3. ASSUME NEW id \in Objects, Lasting(id), Cached(id), o.id # id
          PROVE  cache'[KeyOf(id)] = cache[KeyOf(id)] /\ Cached(id)'
      BY <1>1, <2>1, <2>3, EntryKept
    <2>4. ASSUME NEW id
          PROVE  /\ IF o.id = id THEN InHand(id) ELSE ~ InHand(id)
                 /\ ~ InHand(id)'
      BY <1>1, <2>1 DEF InHand
    <2>5. ASSUME NEW id \in Objects, Lasting(id), InFlow(id) PROVE InFlow(id)'
      BY <2>1, <2>2, <2>3, <2>4, <2>5 DEF InFlow, IsAdd
    <2>6. ASSUME NEW id \in Objects, NEW j \in Nat, Lasting(id), LastFresh(id, j)
          PROVE  LastFresh(id, j)'
      <3>1. ASSUME NEW n
            PROVE  /\ AddsFresh(id, j, n) => AddsFresh(id, j, n)'
                   /\ IsAdd(n, id) => IsAdd(n, id)'
        BY <2>1 DEF AddsFresh, IsAdd
      <3>2. CASE \E n \in 1..Len(chan) : IsAdd(n, id) /\ AddsFresh(id, j, n)
        BY <2>1, <3>1, <3>2 DEF LastFresh
      <3>3. CASE /\ AddsFresh(id, j, 1)
                 /\ IF o.id = id THEN j <= o.ver
                                 ELSE Cached(id) /\ j <= cache[KeyOf(id)].ver
        <4>1. CASE o.id = id
          BY <2>2, <2>4, <3>1, <3>3, <4>1 DEF LastFresh
        <4>2. CASE o.id # id
          BY <2>3, <2>4, <2>6, <3>1, <3>3, <4>2 DEF LastFresh
        <4> QED BY <4>1, <4>2
      <3> QED BY <1>1, <2>4, <2>6, <3>2, <3>3 DEF LastFresh
    <2>7. \A p \in Carried' : p \in Carried \/ p = o
      BY <2>1, <2>2 DEF Carried
    <2>8. held \in Carried
      BY <1>1 DEF Carried
    <2> QED BY <1>1, <2>5, <2>6, <2>7, <2>8 DEF FlowKept
  <1> QED BY <1>2, <1>3

LEMMA FlowStep ==
  ASSUME PTypeOK, IInv, Traced, [PNext]_pvars,
         IngestStep \/ HelperReply \/ PollTick \/ PurgeTick
  PROVE  FlowKept /\ (pc = "dead" => pc' = "dead")
  <1>1. CASE RecvTyped
    BY <1>1, FlowStored DEF RecvTyped, Receives
  <1>2. CASE RecvUntyped
    BY <1>2, FlowHeld DEF RecvUntyped, Receives
  <1>3. CASE RecvTypeMeta
    BY <1>3, FlowTyped DEF RecvTypeMeta
  <1>4. CASE RecvDelete
    <2>1. /\ chan # <<>> /\ Head(chan).command = "Delete" /\ pc = "recv"
          /\ \/ Die /\ cache' = cache
             \/ /\ chan' = Tail(chan) /\ pc' = pc
                /\ RemoveAll({Head(chan).obj})
      BY <1>4 DEF RecvDelete, Receives, task
    <2>2. "Delete" # "Add" /\ "recv" # "typing" /\ "recv" # "dead"
      OBVIOUS
    <2> QED BY <2>1, <2>2, FlowDead, FlowTaken
  <1>5. CASE RecvPrintAll \/ \E connected \in BOOLEAN : PurgeBegin(connected)
    <2>1. /\ chan # <<>> /\ Head(chan).command # "Add" /\ chan' = Tail(chan)
          /\ pc = "recv" /\ pc' \in {"recv", "checking"} /\ cache' = cache
      BY <1>5, Zenon DEF RecvPrintAll, PurgeBegin, Receives, task
    <2> QED BY <2>1, FlowTaken
  <1>6. ASSUME UNCHANGED <<chan, pc, held, cache>> PROVE FlowKept /\ (pc = "dead" => pc' = "dead")
    BY <1>6, FlowUnchanged
  <1>7. ASSUME NEW o \in todo, CheckAnswered(o) \/ CheckFailed(o)
        PROVE  UNCHANGED <<chan, pc, held, cache>>
    BY <1>7 DEF CheckAnswered, CheckFailed, queues
  <1>8. CASE PurgeCommit
    <2>1. PICK removed \in SUBSET missing : RemoveAll(removed)
      BY <1>8 DEF PurgeCommit
    <2>2. /\ pc = "checking" /\ pc' \in {"recv", "dead"}
          /\ pc' = "recv" => chan' = chan /\ held' = held
          /\ pc' = "dead" => chan' = <<>>
      BY <1>8, Zenon DEF PurgeCommit, Die, queues
    <2>3. ASSUME NEW id PROVE ~ InHand(id) /\ ~ InHand(id)'
      BY <2>2 DEF InHand
    <2>4. ASSUME NEW id \in Objects, Lasting(id), Cached(id)
          PROVE  cache'[KeyOf(id)] = cache[KeyOf(id)] /\ Cached(id)'
      BY <2>1, <2>4, EntryKept
    <2>5. ASSUME NEW id \in Objects, Lasting(id), InFlow(id), pc' # "dead" PROVE InFlow(id)'
      BY <2>2, <2>3, <2>4, <2>5 DEF InFlow, IsAdd
    <2>6. ASSUME NEW id \in Objects, NEW j \in Nat, Lasting(id), LastFresh(id, j), pc' # "dead"
          PROVE  LastFresh(id, j)'
      <3>1. ASSUME NEW n
            PROVE  /\ AddsFresh(id, j, n) => AddsFresh(id, j, n)'
                   /\ IsAdd(n, id) => IsAdd(n, id)'
        BY <2>2, <2>6 DEF AddsFresh, IsAdd
      <3> QED BY <2>2, <2>3, <2>4, <2>6, <3>1 DEF LastFresh
    <2>7. Carried' \subseteq Carried
      <3>1. Entries' \subseteq Entries
        BY <2>1 DEF Entries, RemoveAll
      <3> QED BY <2>2, <3>1 DEF Carried
    <2> QED BY <2>2, <2>5, <2>6, <2>7 DEF FlowKept
  <1>9. CASE HelperReply
    BY <1>6, <1>9 DEF HelperReply, task
  <1>10. CASE PollTick \/ PurgeTick
    <2>1. PICK e \in {PrintAll, Purge} : TimerSend(e)
      BY <1>10 DEF PollTick, PurgeTick
    <2>2. UNCHANGED <<pc, held, cache>> /\ (chan' = chan \/ chan' = Append(chan, e))
      BY <2>1 DEF TimerSend, task
    <2>3. e \in WatchEvents /\ e.command # "Add"
      BY DEF WatchEvents, PrintAll, Purge
    <2>4. CASE chan' = Append(chan, e)
      BY <2>2, <2>3, <2>4, Sent DEF FlowKept
    <2> QED BY <1>6, <2>2, <2>4
  <1> QED BY <1>1, <1>2, <1>3, <1>4, <1>5, <1>6, <1>7, <1>8, <1>9, <1>10 DEF IngestStep

-----------------------------------------------------------------------------
(***************************************************************************)
(* The inductive step, action by action.                                   *)
(***************************************************************************)
LEMMA KeptInit == PInit => KeptInv
  <1> SUFFICES ASSUME PInit PROVE KeptInv
    OBVIOUS
  <1>1. /\ chan = <<>> /\ pc = "recv" /\ Entries = {} /\ history = <<>>
        /\ \A r \in Resources : items[r] = {} /\ listed["applied"][r] = Unlisted
    BY DEF PInit, Init, Entries, Watchers
  <1>2. Carried = {}
    BY <1>1 DEF Carried
  <1>3. \A id \in Objects : ListedAt(id) = Unlisted /\ ~ NoGap(id.res)
    BY DEF PInit, ListedAt, NoGap, Watchers, Objects
  <1> QED BY <1>1, <1>2, <1>3 DEF KeptInv, Versioned, ItemsFresh, OnlyItemsSent

\* Nothing changes but what the ingest task has and what the deleted watcher saw.
LEMMA KeptByFlow ==
  ASSUME PTypeOK, KeptInv, FlowKept, pc = "dead" => pc' = "dead",
         UNCHANGED <<selected, history, version, items>>, relists' = 0 => relists = 0,
         seen'["applied"] = seen["applied"],
         \A w \in {"applied", "restarted"} : listed'[w] = listed[w]
  PROVE  KeptInv'
  <1>1. Versioned' /\ (relists' = 0 => ItemsFresh')
    BY DEF KeptInv, Versioned, ItemsFresh, UpToDate, ListedAt, Changed
  <1>2. ASSUME relists' = 0 PROVE OnlyItemsSent'
    BY <1>2 DEF KeptInv, FlowKept, OnlyItemsSent, UpToDate, ListedAt, Changed
  <1>3. ASSUME NEW id \in Objects
        PROVE  /\ Lasting(id)' = Lasting(id) /\ ListedAt(id)' = ListedAt(id)
               /\ NoGap(id.res)' = NoGap(id.res) /\ Item(id)' = Item(id)
               /\ Ahead("applied", id.res)' = Ahead("applied", id.res)
               /\ \A j : Changed(id, j)' = Changed(id, j)
    BY DEF Lasting, KeyAlone, PurgeSafe, Removed, ListedAt, NoGap, Item, Ahead, Forwarded, Changed
  <1>4. ASSUME NEW id \in Objects, Lasting(id), pc' # "dead", NotLost(id) PROVE NotLost(id)'
    BY <1>3, <1>4 DEF FlowKept, NotLost, Present
  <1>5. ASSUME NEW id \in Objects, NEW j \in Nat, Lasting(id), pc' # "dead", NotStale(id, j)
        PROVE  NotStale(id, j)'
    BY <1>3, <1>5 DEF FlowKept, NotStale
  <1>6. \A id \in Objects : \A j \in 0..ListedAt(id) : j \in Nat
    BY DEF PTypeOK, ListedAt, Watchers, Unlisted, Objects
  <1> QED BY <1>1, <1>2, <1>3, <1>4, <1>5, <1>6 DEF KeptInv

\* A watch task sends an object: nothing of the others changes, and the object is
\* as new as the list, or comes once more after this.
LEMMA KeptBySend ==
  ASSUME PTypeOK, KeptInv, NEW o \in Delivered, WatcherSend(Add(o)),
         UNCHANGED <<selected, history, version, listed, relists>>,
         \A r \in Resources : items'[r] \subseteq items[r],
         relists = 0 /\ listed["applied"][o.id.res] = Unlisted
           => ListedAt(o.id) # Unlisted /\ UpToDate(o),
         \A id \in Objects : id # o.id /\ Item(id) => Item(id)',
         \A id \in Objects : \A i \in Ahead("applied", id.res) :
           id # o.id /\ history[i].id = id => i \in Ahead("applied", id.res)',
         \A j \in 0..ListedAt(o.id) :
           Lasting(o.id) /\ NoGap(o.id.res) /\ relists = 0 /\ Changed(o.id, j)
             => j <= o.ver \/ (history[j].id = o.id /\ j \in Ahead("applied", o.id.res)')
  PROVE  KeptInv'
  <1>1. /\ Add(o) \in WatchEvents /\ Add(o).command = "Add" /\ Add(o).obj = o
        /\ o \in DynamicObjects /\ o.id \in Objects
    BY EventTypes DEF Add, Delivered, DynamicObjects
  <1>2. UNCHANGED <<pc, held, cache>>
    BY DEF WatcherSend, task
  <1>3. pc # "dead" => chan' = Append(chan, Add(o))
    BY DEF WatcherSend
  <1>4. pc = "dead" => chan' = chan
    BY DEF WatcherSend
  <1>5. \A p \in Carried' : p \in Carried \/ p = o
    <2>1. CASE pc = "dead"
      BY <1>2, <1>4, <2>1 DEF Carried, Entries
    <2>2. CASE pc # "dead"
      BY <1>1, <1>2, <1>3, <2>2, Sent
    <2> QED BY <2>1, <2>2
  <1>6. Versioned' /\ (relists' = 0 => ItemsFresh')
    BY DEF KeptInv, Versioned, ItemsFresh, UpToDate, ListedAt, Changed
  <1>7. ASSUME relists' = 0 PROVE OnlyItemsSent'
    BY <1>5, <1>7 DEF KeptInv, OnlyItemsSent, UpToDate, ListedAt, Changed
  <1>8. ASSUME NEW id \in Objects
        PROVE  /\ Lasting(id)' = Lasting(id) /\ ListedAt(id)' = ListedAt(id)
               /\ NoGap(id.res)' = NoGap(id.res)
               /\ \A j : Changed(id, j)' = Changed(id, j)
    BY DEF Lasting, KeyAlone, PurgeSafe, Removed, ListedAt, NoGap, Changed
  <1>9. ASSUME NEW id \in Objects, pc # "dead", NotLost(id) PROVE NotLost(id)'
    <2>1. InFlow(id) \/ id = o.id => InFlow(id)'
      BY <1>1, <1>2, <1>3, <1>9, Sent
    <2> QED BY <1>8, <1>9, <2>1 DEF NotLost, Present
  <1>10. ASSUME NEW id \in Objects, NEW j \in 0..ListedAt(id), j \in Nat, pc # "dead",
                Lasting(id), NoGap(id.res), relists = 0, Changed(id, j), NotStale(id, j)
         PROVE  NotStale(id, j)'
    <2>1. CASE id = o.id
      <3>1. CASE j <= o.ver
        BY <1>1, <1>2, <1>3, <1>10, <2>1, <3>1, Sent DEF NotStale
      <3>2. CASE history[j].id = o.id /\ j \in Ahead("applied", o.id.res)'
        BY <1>10, <2>1, <3>2 DEF NotStale
      <3> QED BY <1>10, <2>1, <3>1, <3>2
    <2>2. CASE id # o.id
      <3>1. LastFresh(id, j) => LastFresh(id, j)'
        BY <1>1, <1>2, <1>3, <1>10, <2>2, Sent
      <3> QED BY <1>10, <2>2, <3>1 DEF NotStale
    <2> QED BY <2>1, <2>2
  <1>11. \A id \in Objects : \A j \in 0..ListedAt(id) : j \in Nat
    BY DEF PTypeOK, ListedAt, Watchers, Unlisted, Objects
  <1> QED BY <1>2, <1>6, <1>7, <1>8, <1>9, <1>10, <1>11 DEF KeptInv

\* An item that is forwarded is on its way in the channel, in the state listed.
LEMMA KeptForwardItem ==
  ASSUME PTypeOK, KeptInv, NEW r \in Resources, ForwardItem(r) PROVE KeptInv'
  <1>1. PICK o \in items[r] : /\ WatcherSend(Add(o))
                              /\ items' = [items EXCEPT ![r] = @ \ {o}]
    BY DEF ForwardItem
  <1>2. o \in Delivered /\ o.id.res = r
    BY DEF PTypeOK, KeptInv, Versioned
  <1>3. UNCHANGED <<selected, history, version, listed, seen, relists>>
    BY DEF ForwardItem
  <1>4. \A s \in Resources : items'[s] = IF s = r THEN items[r] \ {o} ELSE items[s]
    BY <1>1 DEF PTypeOK
  <1>5. \A id \in Objects : id # o.id /\ Item(id) => Item(id)'
    BY <1>4 DEF Item, Objects
  <1>6. relists = 0 => ListedAt(o.id) # Unlisted /\ UpToDate(o)
    BY <1>2 DEF KeptInv, ItemsFresh, ListedAt
  <1>7. \A id \in Objects : Ahead("applied", id.res)' = Ahead("applied", id.res)
    BY <1>3 DEF Ahead, Forwarded
  <1>8. \A j \in 0..ListedAt(o.id) : relists = 0 /\ Changed(o.id, j) => j <= o.ver
    BY <1>6 DEF UpToDate
  <1> QED BY <1>1, <1>2, <1>3, <1>4, <1>5, <1>6, <1>7, <1>8, KeptBySend

\* An event that is forwarded is in the channel; if it is older than a change that
\* was listed, the event of that change is still ahead.
LEMMA KeptForwardApplied ==
  ASSUME PTypeOK, KeptInv, NEW r \in Resources, ForwardApplied(r) PROVE KeptInv'
  <1>1. PICK i \in Nearest("applied", r) :
          /\ WatcherSend(Add(Object(history[i].id, i, OwnType(r))))
          /\ seen' = [seen EXCEPT !["applied"][r] = i]
    BY DEF ForwardApplied
  <1> PICK o : o = Object(history[i].id, i, OwnType(r))
    OBVIOUS
  <1>2. /\ o \in Delivered /\ i \in 1..Len(history) /\ i \in Ahead("applied", r)
        /\ o.id = history[i].id /\ o.ver = i /\ o.id.res = r
    BY ForwardedObject DEF Watchers, Object, Ahead
  <1>3. UNCHANGED <<selected, history, version, listed, items, relists>>
    BY DEF ForwardApplied
  <1>4. seen["applied"][r] \in Nat /\ Len(history) \in Nat /\ history \in Seq(Changes)
    BY DEF PTypeOK, Watchers
  <1>5. \A s \in Resources : seen'["applied"][s] = IF s = r THEN i ELSE seen["applied"][s]
    BY <1>1 DEF PTypeOK, Watchers
  <1>6. ASSUME NEW s \in Resources, NEW k \in Ahead("applied", s), k # i
        PROVE  k \in Ahead("applied", s)'
    <2>1. CASE s = r
      <3>1. i <= k
        BY <2>1 DEF Nearest
      <3> QED BY <1>2, <1>3, <1>4, <1>5, <1>6, <2>1, <3>1 DEF Ahead, Forwarded
    <2>2. CASE s # r
      BY <1>3, <1>5, <2>2 DEF Ahead, Forwarded
    <2> QED BY <2>1, <2>2
  <1>7. ASSUME NEW j \in 0..ListedAt(o.id), Lasting(o.id), Changed(o.id, j), ~ (j <= o.ver)
        PROVE  history[j].id = o.id /\ j \in Ahead("applied", o.id.res)'
    <2>1. ListedAt(o.id) <= Len(history) /\ ListedAt(o.id) \in Int
      BY <1>2, <1>4 DEF ListedAt, PTypeOK, Watchers, Unlisted
    <2>2. j \in 1..Len(history) /\ i < j /\ history[j].id = o.id
      BY <1>2, <1>4, <1>7, <2>1 DEF Changed
    <2>3. history[j].type = "Apply"
      <3>1. history[j] \in Changes
        BY <1>4, <2>2
      <3>2. o.id \notin Removed
        BY <1>7 DEF Lasting
      <3> QED BY <2>2, <3>1, <3>2 DEF Changes, Removed
    <2> QED BY <1>2, <1>3, <1>4, <1>5, <2>2, <2>3 DEF Ahead, Forwarded
  <1>8. \A id \in Objects : Item(id) => Item(id)'
    BY <1>3 DEF Item
  <1>9. listed["applied"][o.id.res] # Unlisted
    BY <1>2 DEF ForwardApplied
  <1>10. \A id \in Objects : \A k \in Ahead("applied", id.res) :
           id # o.id /\ history[k].id = id => k \in Ahead("applied", id.res)'
    BY <1>2, <1>6 DEF Objects
  <1>11. WatcherSend(Add(o))
    BY <1>1
  <1> QED BY <1>2, <1>3, <1>7, <1>8, <1>9, <1>10, <1>11, KeptBySend

LEMMA KeptForwardDeleted ==
  ASSUME PTypeOK, KeptInv, NEW r \in Resources, ForwardDeleted(r) PROVE KeptInv'
  <1>1. PICK i \in Nearest("deleted", r) :
          /\ WatcherSend(Delete(Object(history[i].id, i, OwnType(r))))
          /\ seen' = [seen EXCEPT !["deleted"][r] = i]
    BY DEF ForwardDeleted
  <1> PICK e : e = Delete(Object(history[i].id, i, OwnType(r)))
    OBVIOUS
  <1>2. e \in WatchEvents /\ e.command # "Add"
    BY ForwardedObject, EventTypes DEF Watchers, Delete
  <1>3. /\ UNCHANGED <<pc, held, cache>>
        /\ chan' = chan \/ chan' = Append(chan, e)
    BY <1>1 DEF WatcherSend, task
  <1>4. FlowKept
    <2>1. CASE chan' = Append(chan, e)
      BY <1>2, <1>3, <2>1, Sent DEF FlowKept
    <2> QED BY <1>3, <2>1, FlowUnchanged
  <1>5. seen'["applied"] = seen["applied"]
    BY <1>1 DEF PTypeOK, Watchers
  <1> QED BY <1>3, <1>4, <1>5, KeptByFlow DEF ForwardDeleted

\* What the ingest task has is the same when the task and the cache are.
LEMMA SameFlow ==
  ASSUME UNCHANGED <<chan, pc, held, cache>>, NEW id
  PROVE  /\ InFlow(id) => InFlow(id)'
         /\ \A j : LastFresh(id, j) => LastFresh(id, j)'
         /\ Carried' = Carried
  BY DEF InFlow, LastFresh, AddsFresh, IsAdd, InHand, Cached, Carried, Entries

LEMMA CarriedType == PTypeOK => Carried \subseteq DynamicObjects
  <1> SUFFICES ASSUME PTypeOK PROVE Carried \subseteq DynamicObjects
    OBVIOUS
  <1>1. ASSUME NEW n \in 1..Len(chan), chan[n].command = "Add"
        PROVE  chan[n].obj \in DynamicObjects
    <2>1. chan[n] \in WatchEvents
      BY DEF PTypeOK, TypeOK
    <2> QED BY <1>1, <2>1, EventObject
  <1>2. pc = "typing" => held \in DynamicObjects
    BY DEF PTypeOK, TypeOK
  <1>3. Entries \subseteq DynamicObjects
    BY DEF PTypeOK, TypeOK, Entries
  <1> QED BY <1>1, <1>2, <1>3 DEF Carried

\* All that is carried of an object is in the state of change j or a later one.
LEMMA AllFresh ==
  ASSUME PTypeOK, NEW id \in Objects, NEW j \in Nat, InFlow(id),
         \A o \in Carried : o.id = id => j <= o.ver
  PROVE  LastFresh(id, j)
  <1>1. \A n \in Nat : AddsFresh(id, j, n)
    BY DEF AddsFresh, IsAdd, Carried
  <1>2. InHand(id) => j <= held.ver
    BY DEF InHand, Carried
  <1>3. Cached(id) => j <= cache[KeyOf(id)].ver
    <2>1. KeyOf(id) \in Keys
      BY KeyOfType
    <2> QED BY <2>1 DEF Cached, Carried, Entries
  <1>4. \A n \in 1..Len(chan) : n \in Nat
    BY DEF PTypeOK, TypeOK
  <1> QED BY <1>1, <1>2, <1>3, <1>4 DEF InFlow, LastFresh

\* The restarted watcher lists: every selected object of its API is an item, in
\* its current state.
LEMMA KeptListRestarted ==
  ASSUME PTypeOK, KeptInv, NEW r \in Resources, List("restarted", r) PROVE KeptInv'
  <1>1. /\ UNCHANGED <<chan, pc, held, cache, selected, history, version, relists>>
        /\ Len(history) \in Nat
    BY DEF List, vars, PTypeOK
  <1>2. /\ \A s \in Resources : listed'["restarted"][s] =
             IF s = r THEN Len(history) ELSE listed["restarted"][s]
        /\ listed'["applied"] = listed["applied"]
        /\ seen'["applied"] = seen["applied"]
    BY DEF List, PTypeOK, Watchers
  <1>3. /\ \A s \in Resources : s # r => items'[s] = items[s]
        /\ items'[r] = {Object(id, version[id], NoType) : id \in {i \in selected : i.res = r}}
    BY DEF List, PTypeOK
  <1>4. Versioned'
    BY <1>1, <1>3 DEF KeptInv, Versioned, Object
  <1>5. listed["restarted"][r] = Unlisted
    BY DEF List
  <1>6. ASSUME NEW o \in items'[r] PROVE UpToDate(o)'
    <2>1. PICK id \in selected : id.res = r /\ o = Object(id, version[id], NoType)
      BY <1>3, <1>6
    <2>2. o.id.res = r /\ o.id = id /\ o.ver = version[id] /\ id \in Objects
      BY <2>1 DEF Object, PTypeOK, TypeOK
    <2>3. version[id] \in Nat
      BY <1>1, <2>2 DEF PTypeOK
    <2>4. \A j \in 0..Len(history) : j = 0 \/ history[j].id = id => j <= version[id]
      BY <1>1, <2>3 DEF KeptInv, Versioned
    <2> QED BY <1>1, <1>2, <2>2, <2>4 DEF UpToDate, ListedAt, Changed
  <1>7. ASSUME relists' = 0 PROVE ItemsFresh'
    <2>1. ASSUME NEW s \in Resources, NEW o \in items'[s]
          PROVE  listed'["restarted"][s] # Unlisted /\ UpToDate(o)'
      <3>1. CASE s = r
        BY <1>1, <1>2, <1>6, <2>1, <3>1 DEF Unlisted
      <3>2. CASE s # r
        <4>1. o \in items[s] /\ o.id.res = s
          BY <1>3, <2>1, <3>2 DEF KeptInv, Versioned
        <4> QED BY <1>1, <1>2, <1>7, <3>2, <4>1
            DEF KeptInv, ItemsFresh, UpToDate, ListedAt, Changed
      <3> QED BY <3>1, <3>2
    <2> QED BY <2>1 DEF ItemsFresh
  <1>8. ASSUME relists' = 0 PROVE OnlyItemsSent'
    <2>1. ASSUME NEW o \in Carried, listed["applied"][o.id.res] = Unlisted
          PROVE  o.id.res # r /\ ListedAt(o.id)' # Unlisted /\ UpToDate(o)'
      <3>1. ListedAt(o.id) # Unlisted /\ UpToDate(o)
        BY <1>1, <1>8, <2>1 DEF KeptInv, OnlyItemsSent
      <3>2. o.id.res \in Resources
        BY CarriedType DEF DynamicObjects, Objects
      <3> QED BY <1>1, <1>2, <1>5, <3>1, <3>2 DEF UpToDate, ListedAt, Changed
    <2> QED BY <1>1, <1>2, <2>1, SameFlow DEF OnlyItemsSent
  <1>9. ASSUME NEW id \in Objects
        PROVE  /\ Lasting(id)' = Lasting(id)
               /\ id.res # r => /\ ListedAt(id)' = ListedAt(id)
                               /\ NoGap(id.res)' = NoGap(id.res)
                               /\ Item(id)' = Item(id)
               /\ id.res = r /\ Lasting(id) => Item(id)'
               /\ Ahead("applied", id.res)' = Ahead("applied", id.res)
               /\ \A j : Changed(id, j)' = Changed(id, j)
    <2>1. /\ Lasting(id)' = Lasting(id)
          /\ Ahead("applied", id.res)' = Ahead("applied", id.res)
          /\ \A j : Changed(id, j)' = Changed(id, j)
      BY <1>1, <1>2 DEF Lasting, KeyAlone, PurgeSafe, Removed, Ahead, Forwarded, Changed
    <2>2. ASSUME id.res # r
          PROVE  /\ ListedAt(id)' = ListedAt(id)
                 /\ NoGap(id.res)' = NoGap(id.res)
                 /\ Item(id)' = Item(id)
      <3>1. id.res \in Resources
        BY DEF Objects
      <3> QED BY <1>2, <1>3, <2>2, <3>1 DEF ListedAt, NoGap, Item
    <2>3. ASSUME id.res = r, Lasting(id) PROVE Item(id)'
      <3>1. Object(id, version[id], NoType) \in items'[id.res]
        BY <1>3, <2>3 DEF Lasting
      <3> QED BY <3>1 DEF Item, Object
    <2> QED BY <2>1, <2>2, <2>3
  <1>10. ASSUME NEW id \in Objects, Lasting(id)
         PROVE  /\ id.res = r => NotLost(id)'
                /\ id.res # r /\ NotLost(id) => NotLost(id)'
    BY <1>1, <1>9, <1>10, SameFlow DEF NotLost, Present
  <1>11. ASSUME NEW id \in Objects, Lasting(id), NEW j
         PROVE  /\ id.res = r => NotStale(id, j)'
                /\ id.res # r /\ NotStale(id, j) => NotStale(id, j)'
    BY <1>1, <1>9, <1>11, SameFlow DEF NotStale
  <1> QED BY <1>1, <1>4, <1>7, <1>8, <1>9, <1>10, <1>11 DEF KeptInv

\* The applied watcher lists: if it leaves no gap nothing came since the other
\* listed, so what lasts is there already, in the state of its items.
LEMMA KeptListApplied ==
  ASSUME PTypeOK, KeptInv, NEW r \in Resources, List("applied", r) PROVE KeptInv'
  <1>1. /\ UNCHANGED <<chan, pc, held, cache, selected, history, version, relists, items>>
        /\ Len(history) \in Nat
    BY DEF List, vars, PTypeOK
  <1>2. /\ \A s \in Resources :
             /\ listed'["applied"][s] = IF s = r THEN Len(history) ELSE listed["applied"][s]
             /\ seen'["applied"][s] = IF s = r THEN Len(history) ELSE seen["applied"][s]
        /\ listed'["restarted"] = listed["restarted"]
        /\ listed["applied"][r] = Unlisted
    BY DEF List, PTypeOK, Watchers
  <1>3. Versioned' /\ (relists' = 0 => ItemsFresh')
    BY <1>1, <1>2 DEF KeptInv, Versioned, ItemsFresh, UpToDate, ListedAt, Changed
  <1>4. ASSUME relists' = 0 PROVE OnlyItemsSent'
    <2>1. ASSUME NEW o \in Carried, listed'["applied"][o.id.res] = Unlisted
          PROVE  listed["applied"][o.id.res] = Unlisted
      <3>1. o.id.res \in Resources
        BY CarriedType DEF DynamicObjects, Objects
      <3> QED BY <1>2, <2>1, <3>1
    <2> QED BY <1>1, <1>2, <1>4, <2>1, SameFlow
        DEF KeptInv, OnlyItemsSent, UpToDate, ListedAt, Changed
  <1>5. ASSUME NEW id \in Objects
        PROVE  /\ Lasting(id)' = Lasting(id) /\ ListedAt(id)' = ListedAt(id)
               /\ Item(id)' = Item(id)
               /\ \A j : Changed(id, j)' = Changed(id, j)
    BY <1>1, <1>2 DEF Lasting, KeyAlone, PurgeSafe, Removed, ListedAt, Item, Changed
  <1>6. ASSUME NEW id \in Objects, id.res # r
        PROVE  /\ NoGap(id.res)' = NoGap(id.res)
               /\ Ahead("applied", id.res)' = Ahead("applied", id.res)
    <2>1. id.res \in Resources
      BY DEF Objects
    <2> QED BY <1>1, <1>2, <1>6, <2>1 DEF NoGap, Ahead, Forwarded
  <1>7. ASSUME NEW id \in Objects, id.res = r, NoGap(id.res)'
        PROVE  ListedAt(id) = Len(history) /\ ListedAt(id) # Unlisted
    <2>1. ListedAt(id) \in Unlisted..Len(history) /\ Len(history) <= ListedAt(id)
      BY <1>1, <1>2, <1>7 DEF NoGap, ListedAt, PTypeOK, Watchers
    <2> QED BY <1>1, <2>1 DEF Unlisted
  <1>8. ASSUME NEW id \in Objects, NotLost(id) PROVE NotLost(id)'
    <2>1. Present(id) => Present(id)'
      BY <1>1, <1>5, SameFlow DEF Present
    <2>2. Present(id)' \/ \E i \in (ListedAt(id) + 1 .. Len(history))' : history'[i].id = id
      BY <1>1, <1>5, <1>8, <2>1 DEF NotLost
    <2>3. CASE id.res = r
      <3>1. ASSUME NoGap(id.res)' PROVE Present(id)
        <4>1. ListedAt(id) + 1 .. Len(history) = {}
          BY <1>1, <1>7, <2>3, <3>1
        <4> QED BY <1>8, <4>1 DEF NotLost
      <3> QED BY <2>1, <2>2, <3>1 DEF NotLost
    <2>4. CASE id.res # r
      BY <1>1, <1>6, <1>8, <2>1, <2>2, <2>4 DEF NotLost
    <2> QED BY <2>3, <2>4
  <1>9. ASSUME NEW id \in Objects, NEW j \in 0..ListedAt(id), j \in Nat, Lasting(id), relists = 0,
               NoGap(id.res)', Changed(id, j), NotLost(id), id.res = r
        PROVE  NotStale(id, j)'
    <2>1. Present(id)
      <3>1. ListedAt(id) + 1 .. Len(history) = {}
        BY <1>1, <1>7, <1>9
      <3> QED BY <1>9, <3>1 DEF NotLost
    <2>2. ASSUME InFlow(id) PROVE LastFresh(id, j)
      <3>1. ASSUME NEW o \in Carried, o.id = id PROVE j <= o.ver
        BY <1>2, <1>9, <3>1 DEF KeptInv, OnlyItemsSent, UpToDate
      <3> QED BY <1>9, <2>2, <3>1, AllFresh
    <2> QED BY <1>1, <1>5, <2>1, <2>2, SameFlow DEF Present, NotStale
  <1>10. ASSUME NEW id \in Objects, id.res # r, NEW j, NotStale(id, j) PROVE NotStale(id, j)'
    BY <1>1, <1>5, <1>6, <1>10, SameFlow DEF NotStale
  <1>11. \A id \in Objects : \A j \in 0..ListedAt(id) : j \in Nat
    BY DEF PTypeOK, ListedAt, Watchers, Unlisted, Objects
  <1> QED BY <1>1, <1>3, <1>4, <1>5, <1>6, <1>7, <1>8, <1>9, <1>10, <1>11 DEF KeptInv

LEMMA KeptListDeleted ==
  ASSUME PTypeOK, KeptInv, NEW r \in Resources, List("deleted", r) PROVE KeptInv'
  <1>1. /\ UNCHANGED <<chan, pc, held, cache, selected, history, version, relists, items>>
        /\ seen'["applied"] = seen["applied"]
        /\ \A w \in {"applied", "restarted"} : listed'[w] = listed[w]
    BY DEF List, vars, PTypeOK, Watchers
  <1> QED BY <1>1, FlowUnchanged, KeptByFlow

LEMMA KeptDesync ==
  ASSUME PTypeOK, KeptInv, NEW r \in Resources, NEW w \in Watchers, Desync(w, r)
  PROVE  KeptInv'
  <1>1. /\ UNCHANGED <<chan, pc, held, cache, selected, history, version, seen, items>>
        /\ relists' # 0
    BY DEF Desync, vars, PTypeOK
  <1>2. \A v \in Watchers : \A s \in Resources :
          listed'[v][s] = IF v = w /\ s = r THEN Unlisted ELSE listed[v][s]
    BY DEF Desync, PTypeOK
  <1>3. Versioned'
    BY <1>1 DEF KeptInv, Versioned
  <1>4. ASSUME NEW id \in Objects
        PROVE  /\ Lasting(id)' = Lasting(id) /\ Item(id)' = Item(id)
               /\ Ahead("applied", id.res)' = Ahead("applied", id.res)
    BY <1>1 DEF Lasting, KeyAlone, PurgeSafe, Removed, Item, Ahead, Forwarded
  <1>5. ASSUME NEW id \in Objects, ListedAt(id)' # Unlisted
        PROVE  /\ ListedAt(id)' = ListedAt(id)
               /\ NoGap(id.res)' => NoGap(id.res)
    <2>1. id.res \in Resources
      BY DEF Objects
    <2> QED BY <1>2, <1>5, <2>1 DEF ListedAt, NoGap, Watchers
  <1>6. ASSUME NEW id \in Objects, ListedAt(id)' # Unlisted, NotLost(id) PROVE NotLost(id)'
    BY <1>1, <1>4, <1>5, <1>6, SameFlow DEF NotLost, Present
  <1> QED BY <1>1, <1>3, <1>4, <1>5, <1>6 DEF KeptInv

\* The selection changes: the log grows by one change, which the applied watcher
\* has yet to forward if it is an Apply.
LEMMA KeptChange ==
  ASSUME PTypeOK, KeptInv, NEW changed \in Objects, NEW type \in {"Apply", "Delete"}, NEW l,
         Change(type, changed, l)
  PROVE  KeptInv'
  <1>1. /\ UNCHANGED <<chan, pc, held, cache, relists, listed, seen, items>>
        /\ version' = [version EXCEPT ![changed] = Len(history) + 1]
        /\ selected' = IF type = "Apply" THEN selected \cup {changed} ELSE selected \ {changed}
    BY DEF Change, queues, task, watching
  <1> PICK last : last = Len(history) + 1
    OBVIOUS
  <1>2. /\ Len(history) \in Nat /\ last \in Nat /\ Len(history') = last
        /\ \A i \in 1..Len(history) : history'[i] = history[i]
        /\ history'[last].id = changed /\ history'[last].type = type
    <2>1. history \in Seq(Changes) /\ history' = Append(history, [type |-> type, id |-> changed])
      BY DEF Change, PTypeOK
    <2> QED BY <2>1
  <1>3. Versioned'
    <2>1. ASSUME NEW i \in 1..Len(history') PROVE i <= version'[history'[i].id]
      <3>1. CASE i = last
        BY <1>1, <1>2, <3>1 DEF PTypeOK
      <3>2. CASE i # last
        <4>1. i \in 1..Len(history) /\ history'[i] = history[i] /\ history[i] \in Changes
          BY <1>2, <3>2 DEF PTypeOK
        <4>2. i <= version[history[i].id] /\ history[i].id \in Objects
          BY <4>1 DEF KeptInv, Versioned, Changes
        <4> QED BY <1>1, <1>2, <4>1, <4>2 DEF PTypeOK
      <3> QED BY <3>1, <3>2
    <2> QED BY <1>1, <2>1 DEF KeptInv, Versioned
  <1>4. ASSUME NEW r \in Resources
        PROVE  /\ listed["restarted"][r] \in Int /\ listed["restarted"][r] <= Len(history)
               /\ seen["applied"][r] \in Nat /\ seen["applied"][r] < last
    BY <1>2 DEF PTypeOK, Watchers, Unlisted
  <1>5. ASSUME NEW id \in Objects, NEW j \in 0..ListedAt(id)
        PROVE  Changed(id, j)' = Changed(id, j) /\ j \in Nat
    <2>1. id.res \in Resources
      BY DEF Objects
    <2>2. j = 0 \/ j \in 1..Len(history)
      BY <1>2, <1>4, <2>1 DEF ListedAt
    <2> QED BY <1>2, <2>2 DEF Changed
  <1>6. ASSUME NEW o, o.id \in Objects, UpToDate(o) PROVE UpToDate(o)'
    BY <1>1, <1>5, <1>6 DEF UpToDate, ListedAt
  <1>7. ASSUME relists' = 0 PROVE ItemsFresh' /\ OnlyItemsSent'
    <2>1. \A r \in Resources : \A o \in items[r] : o.id \in Objects
      BY DEF PTypeOK, Delivered, DynamicObjects
    <2>2. \A o \in Carried : o.id \in Objects
      BY CarriedType DEF DynamicObjects
    <2> QED BY <1>1, <1>6, <1>7, <2>1, <2>2, SameFlow
        DEF KeptInv, ItemsFresh, OnlyItemsSent, ListedAt
  <1>8. ASSUME NEW id \in Objects
        PROVE  /\ Present(id) => Present(id)'
               /\ ListedAt(id)' = ListedAt(id) /\ NoGap(id.res)' = NoGap(id.res)
    BY <1>1, SameFlow DEF Present, Item, ListedAt, NoGap
  <1>9. ASSUME NEW id \in Objects, NEW i \in Ahead("applied", id.res)
        PROVE  i \in Ahead("applied", id.res)' /\ history'[i] = history[i]
    <2>1. id.res \in Resources
      BY DEF Objects
    <2>2. i \in 1..Len(history)
      BY <1>2, <1>4, <2>1 DEF Ahead
    <2> QED BY <1>1, <1>2, <1>4, <2>1, <2>2 DEF Ahead, Forwarded
  <1>10. ASSUME NEW id \in Objects, Lasting(id)', id # changed PROVE Lasting(id)
    BY <1>1, <1>2, <1>10 DEF Lasting, KeyAlone, PurgeSafe, Removed
  <1>11. ASSUME Lasting(changed)' PROVE last \in Ahead("applied", changed.res)'
    <2>1. changed.res \in Resources
      BY DEF Objects
    <2>2. type = "Apply"
      BY <1>2, <1>11 DEF Lasting, Removed
    <2> QED BY <1>1, <1>2, <1>4, <2>1, <2>2 DEF Ahead, Forwarded
  <1>12. ASSUME Lasting(changed)', ListedAt(changed) # Unlisted PROVE NotLost(changed)'
    <2>1. last \in (ListedAt(changed) + 1 .. Len(history))'
      <3>1. changed.res \in Resources
        BY DEF Objects
      <3> QED BY <1>2, <1>4, <1>8, <3>1 DEF ListedAt
    <2> QED BY <1>2, <1>11, <1>12, <2>1 DEF NotLost
  <1>13. ASSUME NEW j \in 0..ListedAt(changed), Lasting(changed)' PROVE NotStale(changed, j)'
    <2>1. changed.res \in Resources
      BY DEF Objects
    <2>2. j <= last
      BY <1>2, <1>4, <2>1 DEF ListedAt
    <2> QED BY <1>2, <1>11, <1>13, <2>2 DEF NotStale
  <1>14. ASSUME NEW id \in Objects, ListedAt(id) # Unlisted, NotLost(id) PROVE NotLost(id)'
    <2>1. ASSUME NEW i \in ListedAt(id) + 1 .. Len(history), history[i].id = id
          PROVE  \E k \in (ListedAt(id) + 1 .. Len(history))' : history'[k].id = id
      <3>1. id.res \in Resources
        BY DEF Objects
      <3>2. ListedAt(id) \in Unlisted..Len(history)
        BY <1>2, <3>1 DEF ListedAt, PTypeOK, Watchers
      <3>3. i \in 1..Len(history)
        BY <1>2, <1>14, <3>2 DEF Unlisted
      <3> QED BY <1>2, <1>8, <2>1, <3>2, <3>3 DEF Unlisted
    <2> QED BY <1>8, <1>9, <1>14, <2>1 DEF NotLost
  <1>15. ASSUME NEW id \in Objects, NEW j \in Nat, NotStale(id, j) PROVE NotStale(id, j)'
    BY <1>1, <1>9, <1>15, SameFlow DEF NotStale, Item
  <1> QED BY <1>1, <1>3, <1>5, <1>7, <1>8, <1>10, <1>12, <1>13, <1>14, <1>15 DEF KeptInv

LEMMA KeptStep ==
  PTypeOK /\ IInv /\ Traced /\ KeptInv /\ [PNext]_pvars => KeptInv'
  <1> SUFFICES ASSUME PTypeOK, IInv, Traced, KeptInv, [PNext]_pvars PROVE KeptInv'
    OBVIOUS
  <1>1. ASSUME FlowKept, pc = "dead" => pc' = "dead",
               UNCHANGED <<selected, history, version, watching, relists>>
        PROVE  KeptInv'
    BY <1>1, KeptByFlow DEF watching
  <1>2. CASE (IngestStep \/ HelperReply \/ PollTick \/ PurgeTick) /\ Unchanged
    BY <1>1, <1>2, FlowStep DEF Unchanged
  <1>3. ASSUME NEW r \in Resources, NEW w \in Watchers, List(w, r) PROVE KeptInv'
    BY <1>3, KeptListApplied, KeptListDeleted, KeptListRestarted DEF Watchers
  <1>4. ASSUME NEW id \in Objects, Apply(id) \/ Remove(id) \/ Deselect(id) PROVE KeptInv'
    BY <1>4, KeptChange DEF Apply, Remove, Deselect
  <1>5. ASSUME NEW id \in Objects, ChangeUnselected(id) PROVE KeptInv'
    BY <1>1, <1>5, FlowUnchanged DEF ChangeUnselected, ClusterChange, queues, task
  <1>6. CASE UNCHANGED pvars
    BY <1>1, <1>6, FlowUnchanged DEF pvars, vars
  <1> QED BY <1>2, <1>3, <1>4, <1>5, <1>6, KeptForwardItem, KeptForwardApplied,
             KeptForwardDeleted, KeptDesync DEF PNext

\* The invariant holds: every lasting object is an item, an event ahead of the applied
\* watcher, or what the ingest task has, and what is stored last of it is no older
\* than the list.
THEOREM KeptInvariance == PSpec => []KeptInv
  <1> QED BY KeptInit, KeptStep, PipelineInvariance, TracedInvariance, PTL DEF PSpec

\* The version of an object is 0 or the largest of its changes.
LEMMA VersionAtLast ==
  ASSUME PTypeOK, NEW id \in Objects, NEW n \in 0..Len(history)
  PROVE  VersionAt(id, n) \in 0..n /\ Changed(id, VersionAt(id, n))
  <1> DEFINE S == {0} \cup {i \in 1..n : history[i].id = id}
  <1>1. n \in Nat
    BY DEF PTypeOK
  <1>2. S \in SUBSET Nat /\ 0 \in S /\ \A i \in S : i <= n
    BY <1>1
  <1> HIDE DEF S
  <1>3. \E i \in S : \A j \in S : j <= i
    BY <1>1, <1>2, GreatestNumber
  <1>4. Max(S) \in S
    BY <1>3 DEF Max
  <1> QED BY <1>1, <1>4 DEF VersionAt, S, Changed

\* An object that is never removed, shares its key with no other and is not of a kind
\* that a purge asks for at a wrong plural (PurgeSafe) is on its way or cached, whatever the order of lists, events, purges and TypeMeta lookups, unless
\* its two watchers left a gap; and cached in no older state than the list reported
\* if no watcher started anew.
THEOREM KeptNeverLost == PSpec => []KeptObjectsNotLost
  <1>1. PTypeOK /\ KeptInv => KeptObjectsNotLost
    <2> SUFFICES ASSUME PTypeOK, KeptInv, NEW id \in Objects, Lasting(id), NoGap(id.res),
                        pc # "dead", ~ Underway(id)
                 PROVE  UpToList(id)
      BY DEF KeptObjectsNotLost, Lasting
    <2>1. ListedAt(id) \in 0..Len(history)
      <3>1. id.res \in Resources
        BY DEF Objects
      <3>2. /\ ListedAt(id) \in Unlisted..Len(history)
            /\ listed["applied"][id.res] \in Unlisted..Len(history)
            /\ Len(history) \in Nat
        BY <3>1 DEF ListedAt, PTypeOK, Watchers
      <3> QED BY <3>2 DEF NoGap, ListedAt, Unlisted
    <2>2. /\ ~ Item(id) /\ ~ InHand(id)
          /\ \A i \in Ahead("applied", id.res) : history[i].id # id
          /\ \A n \in 1..Len(chan) : ~ IsAdd(n, id)
      <3>1. DOMAIN chan = 1..Len(chan)
        BY DEF PTypeOK, TypeOK
      <3> QED BY <3>1 DEF Underway, Item, InHand, IsAdd
    <2>3. Cached(id)
      <3>1. NotLost(id)
        BY <2>1 DEF KeptInv, Unlisted
      <3> QED BY <2>2, <3>1 DEF NotLost, Present, InFlow
    <2>4. ASSUME relists = 0
          PROVE  cache[KeyOf(id)].ver >= VersionAt(id, ListedAt(id))
      <3> PICK j : j = VersionAt(id, ListedAt(id))
        OBVIOUS
      <3>1. j \in 0..ListedAt(id) /\ Changed(id, j)
        BY <2>1, VersionAtLast
      <3>2. NotStale(id, j)
        BY <2>4, <3>1 DEF KeptInv
      <3>3. LastFresh(id, j)
        BY <2>2, <3>2 DEF NotStale
      <3>4. j <= cache[KeyOf(id)].ver
        BY <2>2, <3>3 DEF LastFresh
      <3>5. j \in Int /\ cache[KeyOf(id)].ver \in Int
        <4>1. cache[KeyOf(id)] \in DynamicObjects
          BY <2>3, KeyOfType DEF PTypeOK, TypeOK, Cached
        <4> QED BY <2>1, <3>1, <4>1, BoundAssumption DEF DynamicObjects
      <3> QED BY <3>4, <3>5
    <2> QED BY <2>3, <2>4 DEF UpToList, ListedAt
  <1> QED BY <1>1, KeptInvariance, PipelineInvariance, PTL
=============================================================================
