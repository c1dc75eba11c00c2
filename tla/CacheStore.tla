----------------------------- MODULE CacheStore -----------------------------
(***************************************************************************)
(* What the ingest pipeline promises the tasks that feed it: a queue of    *)
(* commands, each of which takes effect on the store in one step, in the   *)
(* order they were submitted.  The lookup of a TypeMeta and the GETs of a  *)
(* purge are not visible; a purge removes only objects that did not exist  *)
(* at some time since they were stored, or that are asked for at a wrong   *)
(* URL.                                                                    *)
(***************************************************************************)
EXTENDS Objects, Naturals, Sequences

CONSTANT Bound   \* commands submitted and without effect yet

VARIABLES
  queue,    \* commands without effect yet
  store,    \* the object under each key
  up,       \* commands are taken
  exists,   \* objects that exist in the cluster
  suspect   \* keys whose object did not exist at some time since it was stored

vars == <<queue, store, up, exists, suspect>>

Init ==
  /\ queue = <<>>
  /\ store = [k \in Keys |-> NoEntry]
  /\ up = TRUE
  /\ exists \in SUBSET Objects
  /\ suspect = {}

Submit(e) ==
  /\ up
  /\ Len(queue) < Bound
  /\ queue' = Append(queue, e)
  /\ UNCHANGED <<store, up, exists, suspect>>

\* An object without a TypeMeta gets the one its API's URL yields.
Typed(o) == IF o.types = NoType
            THEN [o EXCEPT !.types = ParseTypeMeta(o.id.res)] ELSE o

Pending(command) == queue # <<>> /\ Head(queue).command = command

ApplyAdd ==
  /\ Pending("Add")
  /\ LET o == Head(queue).obj
         k == KeyOf(o.id)
     IN  /\ HasAge(o)
         /\ store' = [store EXCEPT ![k] = Typed(o)]
         /\ suspect' = IF o.id \in exists THEN suspect \ {k} ELSE suspect \cup {k}
  /\ queue' = Tail(queue)
  /\ UNCHANGED <<up, exists>>

ApplyDelete ==
  /\ Pending("Delete")
  /\ LET o == Head(queue).obj
         k == KeyOf(o.id)
     IN  /\ HasAge(o)
         /\ store' = [store EXCEPT ![k] = NoEntry]
         /\ suspect' = suspect \ {k}
  /\ queue' = Tail(queue)
  /\ UNCHANGED <<up, exists>>

\* Of the objects that may be gone, any number is removed: a GET can fail, and
\* some objects cannot be asked for.  So are objects asked for at a wrong URL,
\* gone or not.
ApplyPurge ==
  /\ Pending("Purge")
  /\ \E gone \in SUBSET Keys :
       /\ \A k \in gone : /\ store[k] # NoEntry /\ Checkable(store[k])
                          /\ k \in suspect \/ Misaddressed(store[k])
       /\ store' = [k \in Keys |-> IF k \in gone THEN NoEntry ELSE store[k]]
       /\ suspect' = suspect \ gone
  /\ queue' = Tail(queue)
  /\ UNCHANGED <<up, exists>>

ApplyPrintAll ==
  /\ Pending("PrintAll")
  /\ queue' = Tail(queue)
  /\ UNCHANGED <<store, up, exists, suspect>>

\* An object without a timestamp stops the service; what was stored stays.
Crash ==
  /\ queue # <<>>
  /\ Head(queue).command \in {"Add", "Delete"}
  /\ ~HasAge(Head(queue).obj)
  /\ up' = FALSE
  /\ queue' = <<>>
  /\ UNCHANGED <<store, exists, suspect>>

World ==
  /\ exists' \in SUBSET Objects
  /\ suspect' = suspect \cup {k \in Keys : store[k] # NoEntry /\ store[k].id \notin exists'}
  /\ UNCHANGED <<queue, store, up>>

Next == \/ \E e \in WatchEvents : Submit(e)
        \/ ApplyAdd \/ ApplyDelete \/ ApplyPurge \/ ApplyPrintAll
        \/ Crash \/ World

Spec == Init /\ [][Next]_vars
=============================================================================
