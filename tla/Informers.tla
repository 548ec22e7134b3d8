----------------------------- MODULE Informers ------------------------------
(***************************************************************************)
(* internal/informers: the Manager runs one shared informer per watched    *)
(* resource.  client-go keeps the informer's cache in step with the API    *)
(* server and queues a notification for the Manager's handler after each   *)
(* change of the cache; the handler turns it into an inventory event.      *)
(*                                                                         *)
(* Every object stands for a resource of its own, so the notifications of  *)
(* two objects are delivered in any order and those of one object in the   *)
(* order of its changes.  Version 0 means that the object does not exist.  *)
(***************************************************************************)
EXTENDS Naturals, Sequences, FiniteSets, Functions

CONSTANTS
    Obj,             \* the watched objects
    InitialObjects,  \* those that exist when the agent is first started
    MaxVersion       \* bound: versions of all objects together

VARIABLES
    cluster,   \* the API server: the version of each object
    version,   \* the last version the API server has given out
    cache,     \* the informers' stores
    pending    \* notifications that the handler has not seen yet

informerVars == <<cluster, version, cache, pending>>

Delta == [op : {"add", "update", "delete"}, ref : Obj, ver : 1..MaxVersion]
Sync == [op : {"sync"}, ref : Obj, ver : 1..MaxVersion]

Init ==
    /\ version = 1
    /\ cluster = [o \in Obj |-> IF o \in InitialObjects THEN 1 ELSE 0]
    /\ cache = [o \in Obj |-> 0]
    /\ pending = [o \in Obj |-> << >>]

\* The API server (external): users and controllers write and delete objects.
ClusterWrite(o) ==
    /\ version < MaxVersion
    /\ version' = version + 1
    /\ cluster' = [cluster EXCEPT ![o] = version + 1]
    /\ UNCHANGED <<cache, pending>>

ClusterDelete(o) ==
    /\ cluster[o] # 0
    /\ cluster' = [cluster EXCEPT ![o] = 0]
    /\ UNCHANGED <<version, cache, pending>>

\* client-go (external): list or watch brings the store up to date; the store
\* changes before the handler is told.
Observe(o) ==
    /\ cache[o] # cluster[o]
    /\ cache' = [cache EXCEPT ![o] = cluster[o]]
    /\ pending' = [pending EXCEPT ![o] = Append(@,
          CASE cluster[o] = 0 -> [op |-> "delete", ver |-> cache[o]]
            [] cache[o] = 0   -> [op |-> "add", ver |-> cluster[o]]
            [] OTHER          -> [op |-> "update", ver |-> cluster[o]])]
    /\ UNCHANGED <<cluster, version>>

\* toEvent: the event of the oldest notification of o.
ToEvent(o) ==
    [op |-> Head(pending[o]).op, ref |-> o, ver |-> Head(pending[o]).ver]

\* handle, called back by client-go; the caller passes ToEvent(o) to the sink.
Handle(o) ==
    /\ pending[o] # << >>
    /\ pending' = [pending EXCEPT ![o] = Tail(@)]
    /\ UNCHANGED <<cluster, version, cache>>

\* Snapshot: one sync event per cached object, in the order of Go's maps.
Snapshot ==
    LET cached == {o \in Obj : cache[o] # 0}
        n == Cardinality(cached)
        Event(o) == [op |-> "sync", ref |-> o, ver |-> cache[o]]
    IN  {[i \in 1..n |-> Event(order[i])] : order \in Bijection(1..n, cached)}

\* A new process starts with empty stores.
Restart ==
    /\ cache' = [o \in Obj |-> 0]
    /\ pending' = [o \in Obj |-> << >>]
    /\ UNCHANGED <<cluster, version>>
=============================================================================
