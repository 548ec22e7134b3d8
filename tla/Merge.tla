------------------------------- MODULE Merge --------------------------------
(***************************************************************************)
(* internal/executor, the update of an object that exists: mergeForUpdate  *)
(* overlays the manifest on the live object, adoptImmutableFields takes    *)
(* back fields the API server would not let it change.  An object is       *)
(* applied twice, and stored in between.                                   *)
(*                                                                         *)
(* An object is a tree: a value is a leaf, null, or a map, which gives a   *)
(* value to every key, Missing to those that it does not have.  One field  *)
(* stands for each list of immutable fields.  The resourceVersion and the  *)
(* drift annotation are in module Executor.                                *)
(***************************************************************************)
EXTENDS Naturals, Sequences

CONSTANTS
    Key,        \* the keys of maps
    Atom,       \* strings, and whatever else mergeMap does not look into
    Depth,      \* bound: how deep maps are nested
    Cases,      \* pairs of a live object and a manifest
    Quantity,   \* ParseQuantity, on the strings that it accepts
    Paths       \* the paths at which the properties compare objects

VARIABLES live, desired, body, round

vars == <<live, desired, body, round>>

Leaf(x) == [leaf |-> x]
Map(m) == [map |-> m]
Null == [null |-> TRUE]
Missing == [missing |-> TRUE]
IsLeaf(v) == "leaf" \in DOMAIN v
IsMap(v) == "map" \in DOMAIN v

Scalar == {Missing, Null} \cup [leaf : Atom]

\* The values whose maps, if any, have their values in S.
Over(S) == Scalar \cup [map : [Key -> S]]

\* The values with at most n maps inside one another.
Level[n \in 0 .. Depth] == IF n = 0 THEN Scalar ELSE Over(Level[n - 1])

Values == Level[Depth]

-----------------------------------------------------------------------------
(* unstructured: NestedFieldNoCopy, NestedStringMap, SetNestedField. *)

\* The value of key k, of a value that may be no map.
Child(v, k) == IF IsMap(v) THEN v.map[k] ELSE Missing

\* A map with k set to w, the others as in v; a map is made if v is none.
With(v, k, w) == Map([j \in Key |-> IF j = k THEN w ELSE Child(v, j)])

\* The values that a path leads to, v first.
Along(v, path) ==
    LET at[n \in 0 .. Len(path)] == IF n = 0 THEN v ELSE Child(at[n - 1], path[n])
    IN  at

Nested(v, path) == Along(v, path)[Len(path)]

Empty == Map([k \in Key |-> Missing])

\* A map with a value that is not a string is an error, and counts as empty.
NestedStringMap(v, path) ==
    LET m == Nested(v, path)
    IN  IF IsMap(m) /\ \A k \in Key : m.map[k] = Missing \/ IsLeaf(m.map[k])
        THEN m ELSE Empty

\* For a path of four fields.  Nothing is set if it leads through a value that
\* is no map.
SetNested(v, path, w) ==
    LET v1 == Child(v, path[1])
        v2 == Child(v1, path[2])
        v3 == Child(v2, path[3])
    IN  IF \A u \in {v1, v2, v3} : u = Missing \/ IsMap(u)
        THEN With(v, path[1], With(v1, path[2], With(v2, path[3], With(v3, path[4], w))))
        ELSE v

-----------------------------------------------------------------------------
(* mergeMap and adoptImmutableFields. *)

\* Mutant: a map in the manifest replaces the live one.
MergeValueShallow(b, o, Merged) ==
    CASE o = Missing -> b
      [] o = Null -> Missing
      [] OTHER -> o

\* Mutant: a map that is left empty is removed.
MergeValuePruned(b, o, Merged) ==
    CASE o = Missing -> b
      [] o = Null -> Missing
      [] IsMap(o) /\ IsMap(b) ->
            LET m == Map([k \in Key |-> Merged[b.map[k]][o.map[k]]])
            IN  IF m = Empty THEN Missing ELSE m
      [] OTHER -> o

\* mergeMap: what it leaves of b, the value of a key in base, and of o, its value
\* in override; Merged is mergeMap for the maps inside.
MergeValue(b, o, Merged) ==
    CASE o = Missing -> b
      [] o = Null -> Missing
      [] IsMap(o) /\ IsMap(b) -> Map([k \in Key |-> Merged[b.map[k]][o.map[k]]])
      [] OTHER -> o

MergeMap[b \in Values] == [o \in Values |-> MergeValue(b, o, MergeMap)]

\* spec[f] = liveSpec[f], or the field is deleted.
Adopt(m, old, f) ==
    With(m, "spec", With(Child(m, "spec"), f, Nested(old, <<"spec", f>>)))

SelectorPath == <<"spec", "selector", "matchLabels">>
LabelsPath == <<"spec", "template", "metadata", "labels">>

\* reconcileSelectorLabels.
ReconcileSelectorLabels(m) ==
    LET selector == NestedStringMap(m, SelectorPath).map
        labels == NestedStringMap(m, LabelsPath).map
    IN  IF Map(selector) = Empty THEN m
        ELSE SetNested(m, LabelsPath, Map([k \in Key |->
                IF selector[k] # Missing THEN selector[k] ELSE labels[k]]))

RequestPath == <<"spec", "resources", "requests", "storage">>
CapacityPath == <<"status", "capacity", "storage">>
IsQuantity(v) == IsLeaf(v) /\ v.leaf \in DOMAIN Quantity

\* Mutant: only the live request is looked at.
FloorsRequest(old) == {v \in {Nested(old, RequestPath)} : IsQuantity(v)}

\* The quantities pvcStorageFloor compares.
Floors(old) == {v \in {Nested(old, RequestPath), Nested(old, CapacityPath)} : IsQuantity(v)}

\* pvcStorageFloor: of two equal quantities it takes the request's string.
Floor(old) ==
    LET largest == {v \in Floors(old) :
                       \A w \in Floors(old) : Quantity[v.leaf] >= Quantity[w.leaf]}
        request == Nested(old, RequestPath)
    IN  IF request \in largest THEN request ELSE CHOOSE v \in largest : TRUE

ClampPVCStorage(m, old) ==
    LET request == Nested(m, RequestPath)
    IN  IF \/ Floors(old) = {}
           \/ IsQuantity(request) /\ Quantity[request.leaf] >= Quantity[Floor(old).leaf]
        THEN m
        ELSE SetNested(m, RequestPath, Floor(old))

Kind(m) == Child(m, "kind").leaf
Workloads == {"Deployment", "StatefulSet", "DaemonSet", "ReplicaSet", "Job"}

\* adoptImmutableFields: volumeName stands for the six fields of a claim, and
\* clusterIP for the four of a service.
AdoptImmutableFields(m, old) ==
    IF ~(IsMap(Child(m, "spec")) /\ IsMap(Child(old, "spec"))) THEN m
    ELSE CASE Kind(m) = "PersistentVolumeClaim" ->
                 ClampPVCStorage(Adopt(m, old, "volumeName"), old)
           [] Kind(m) = "Service" -> Adopt(m, old, "clusterIP")
           [] Kind(m) \in Workloads ->
                 ReconcileSelectorLabels(Adopt(m, old, "selector"))
           [] OTHER -> m

-----------------------------------------------------------------------------
(* What the API server (external) makes sure of.                           *)

\* The server stores an object without its nulls.
StoredValue(v, Inner) ==
    CASE v = Null -> Missing
      [] IsMap(v) -> Map([k \in Key |-> Inner[v.map[k]]])
      [] OTHER -> v

Stored[v \in Values] == StoredValue(v, Stored)

\* The fields that are maps in the objects of a kind.
MapFields(kind) ==
    CASE kind = "PersistentVolumeClaim" ->
            {<<"spec">>, <<"spec", "resources">>, <<"spec", "resources", "requests">>}
      [] kind = "Service" -> {<<"spec">>}
      [] kind \in Workloads ->
            {<<"spec">>, <<"spec", "template">>, <<"spec", "template", "metadata">>, LabelsPath}
      [] OTHER -> {}

\* An object that the server has stored has them, and no nulls, and its labels
\* are strings.
WellFormed(v) ==
    /\ IsMap(v) /\ IsLeaf(Child(v, "kind")) /\ Stored[v] = v
    /\ \A path \in MapFields(Kind(v)) : IsMap(Nested(v, path))
    /\ Kind(v) \in Workloads => NestedStringMap(v, LabelsPath) = Nested(v, LabelsPath)

\* A manifest may omit or null them, but has nothing else in their place.
WellTyped(v) ==
    /\ IsMap(v) /\ IsLeaf(Child(v, "kind"))
    /\ \A path \in MapFields(Kind(v)) : ~IsLeaf(Nested(v, path))
    /\ Kind(v) \in Workloads => \A k \in Key : ~IsMap(Nested(v, Append(LabelsPath, k)))

\* An update does not change the status of an object of a built-in kind.
Accepted(v, old) ==
    IF Kind(v) \in Workloads \cup {"PersistentVolumeClaim", "Service"}
    THEN With(Stored[v], "status", Child(old, "status"))
    ELSE Stored[v]

FieldNames == {"kind", "spec", "status", "capacity", "resources", "requests", "storage",
               "volumeName", "clusterIP", "selector", "matchLabels", "template",
               "metadata", "labels"}

ASSUME MergeAssumption ==
    /\ Depth \in Nat /\ Depth >= 5
    /\ FieldNames \subseteq Key
    /\ Quantity \in [DOMAIN Quantity -> Nat]
    /\ Paths \subseteq Seq(Key)
    /\ \A c \in Cases :
          /\ c.live \in Values /\ WellFormed(c.live)
          /\ c.desired \in Values /\ WellTyped(c.desired)
          /\ Kind(c.live) = Kind(c.desired)

-----------------------------------------------------------------------------
Init ==
    /\ \E c \in Cases : live = c.live /\ desired = c.desired
    /\ body = Missing /\ round = 1

\* The branch of apply for an object that exists.
Update ==
    /\ body = Missing
    /\ body' = AdoptImmutableFields(MergeMap[live][desired], live)
    /\ UNCHANGED <<live, desired, round>>

Store ==
    /\ body # Missing /\ round = 1
    /\ WellFormed(Accepted(body, live))
    /\ live' = Accepted(body, live)
    /\ body' = Missing /\ round' = 2
    /\ UNCHANGED desired

Next == Update \/ Store

Spec == Init /\ [][Next]_vars

-----------------------------------------------------------------------------
(* Properties. *)

LeafAt(m, path) == LET v == Nested(m, path) IN IF IsLeaf(v) THEN v ELSE Missing

Within(path, field) == Len(field) <= Len(path) /\ \A i \in 1 .. Len(field) : path[i] = field[i]

\* What an overlay of o on b should have at a path: what o says, also by a leaf or
\* a null further up, and otherwise what b has.
Overlaid(b, o, path) ==
    LET said == Along(o, path)
    IN  IF \E n \in DOMAIN said : IsLeaf(said[n]) \/ said[n] = Null
        THEN LeafAt(o, path)
        ELSE IF IsMap(Nested(o, path)) THEN Missing ELSE LeafAt(b, path)

\* The paths that adoptImmutableFields may change.
MayAdopt(path) ==
    CASE Kind(desired) = "PersistentVolumeClaim" ->
            Within(path, <<"spec", "volumeName">>) \/ Within(path, RequestPath)
      [] Kind(desired) = "Service" -> Within(path, <<"spec", "clusterIP">>)
      [] Kind(desired) \in Workloads ->
            \/ Within(path, <<"spec", "selector">>)
            \/ \E k \in Key : Within(path, Append(LabelsPath, k)) /\ Nested(live, Append(SelectorPath, k)) # Missing
      [] OTHER -> FALSE

\* The body of an update is the live object with the manifest laid over it, leaf
\* by leaf: what the manifest sets is set, what it nulls is gone, what it omits
\* stays, and only the immutable fields are exempt.
OverlayIsExact ==
    body # Missing =>
        \A path \in Paths : MayAdopt(path) \/ LeafAt(body, path) = Overlaid(live, desired, path)

\* Whatever the manifest says about them, unless it nulls the whole spec, an update
\* has what adoptImmutableFields is there for: the field that stands for those it
\* lists for the kind is the live one, a claim asks for no less than its request and
\* its volume, and the template's labels agree with the selector's matchLabels.  It
\* does nothing for immutable fields that it does not list and for matchExpressions:
\* OverlayIsExact has them as in the manifest, and their update may not validate.
AdoptedFieldsKept ==
    body # Missing /\ Child(desired, "spec") # Null =>
        LET Same(path) == Nested(body, path) = Nested(live, path)
        IN  CASE Kind(desired) = "PersistentVolumeClaim" ->
                    /\ Same(<<"spec", "volumeName">>)
                    /\ \A path \in {RequestPath, CapacityPath} :
                          IsQuantity(Nested(live, path)) =>
                              /\ IsQuantity(Nested(body, RequestPath))
                              /\ Quantity[Nested(body, RequestPath).leaf]
                                     >= Quantity[Nested(live, path).leaf]
              [] Kind(desired) = "Service" -> Same(<<"spec", "clusterIP">>)
              [] Kind(desired) \in Workloads ->
                    /\ Same(<<"spec", "selector">>)
                    /\ LET selector == NestedStringMap(live, SelectorPath).map
                           labels == NestedStringMap(body, LabelsPath).map
                       IN  \A k \in Key : selector[k] # Missing => labels[k] = selector[k]
              [] OTHER -> TRUE

\* An apply settles: mergeForUpdate and adoptImmutableFields, given the same
\* manifest and what the server made of their first body, make a body that leaves
\* the object as it is.
Reapplied == round = 2 /\ body # Missing => Accepted(body, live) = live
=============================================================================
