------------------------------ MODULE Objects ------------------------------
(***************************************************************************)
(* The data the provider moves around: Kubernetes objects as kube's        *)
(* DynamicObject, the commands the tasks exchange, the key an object is    *)
(* cached under and the way a cached object is addressed on the API server.*)
(*                                                                         *)
(* A watched API (one resource URL, one watch task) is a member of         *)
(* Resources.  What the code can tell apart about an API is which of these *)
(* sets it belongs to:                                                     *)
(*   ClusterScoped  its objects have no namespace;                         *)
(*   Unparsed       none of the four URL patterns matches its URL;         *)
(*   Irregular      its plural is not lower(kind) + "s";                   *)
(*   BuiltIn        its group is served by the API server itself, or by an *)
(*                  aggregated one, and is not one of custom resources;    *)
(*   Stampless      its objects come without a creationTimestamp.          *)
(* A name stands for a namespace and a name, or for a name alone when the  *)
(* API is cluster-scoped.                                                  *)
(***************************************************************************)
CONSTANTS Resources, Names, Versions,
          ClusterScoped, Unparsed, Irregular, BuiltIn, Stampless,
          NoType,   \* types: None
          NoEntry   \* the cache has no object under a key

ASSUME ApiAssumption ==
  /\ ClusterScoped \subseteq Resources
  /\ Unparsed \subseteq Resources
  /\ Irregular \subseteq Resources
  /\ BuiltIn \subseteq Resources
  /\ Stampless \subseteq Resources

Objects == [res : Resources, name : Names]

\* Where a TypeMeta came from matters: one carried by the object names the
\* object's kind, one parsed from a URL names the plural the URL ends with.
TypeMetas == [res : Resources, from : {"object", "url"}]

OwnType(r) == [res |-> r, from |-> "object"]

\* Result of matching a resource URL against the four patterns.
ParseTypeMeta(r) == IF r \in Unparsed THEN NoType
                                      ELSE [res |-> r, from |-> "url"]

DynamicObjects == [id : Objects, ver : Versions, types : TypeMetas \cup {NoType}]

\* What a watch delivers: the items of a list carry no TypeMeta, the objects
\* of watch events carry their own.
Delivered == {o \in DynamicObjects : o.types \in {NoType, OwnType(o.id.res)}}

ASSUME NilAssumption ==
  /\ NoType \notin TypeMetas
  /\ NoEntry \notin DynamicObjects

\* WatchCommand::Update and WatchCommand::None are matched by the ingest loop
\* but built nowhere; Update is handled by the arm of Add.
Add(o) == [command |-> "Add", obj |-> o]
Delete(o) == [command |-> "Delete", obj |-> o]
Purge == [command |-> "Purge"]
PrintAll == [command |-> "PrintAll"]

WatchEvents == [command : {"Add", "Delete"}, obj : Delivered]
                 \cup {Purge, PrintAll}

\* "<namespace>/<name>", or "none/<name>" without a namespace.  The kind of the
\* object is no part of its key.
KeyOf(id) == <<IF id.res \in ClusterScoped THEN "none" ELSE "namespace", id.name>>
Keys == {"none", "namespace"} \X Names

\* format_creation_since unwraps the timestamp: it panics on an object without.
HasAge(o) == o.id.res \notin Stampless

\* check_objects skips an object without a namespace or without a TypeMeta.
Checkable(o) == /\ o.id.res \notin ClusterScoped
                /\ o.types # NoType

\* The object check_objects asks the API server for is addressed by the cached
\* TypeMeta, and its plural is the kind in lower case followed by "s".  A kind
\* that was parsed from a URL gives back the plural it was cut from.
Addressed(o) == [res |-> o.types.res, name |-> o.id.name]
PluralKnown(o) == \/ o.types.from = "url"
                  \/ o.types.res \notin Irregular

\* What a GET at a plural that does not exist gives: the reason of the 404 is
\* NotFound in a group whose paths the server knows, and kube's get_opt makes
\* "no such object" of it; elsewhere it is a page kube cannot parse, an error.
Answerable(o) == PluralKnown(o) \/ o.types.res \in BuiltIn

\* The answer "no such object" says nothing about the object.
Misaddressed(o) == /\ Checkable(o)
                   /\ ~PluralKnown(o)
                   /\ o.types.res \in BuiltIn
=============================================================================
