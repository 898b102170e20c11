------------------------------ MODULE Informer ------------------------------
(***************************************************************************)
(* One object of the Kubernetes API server together with the copy of it    *)
(* that the operator's informer cache holds.  The manager's client         *)
(* (cmd/main.go: Client: mgr.GetClient()) reads from the cache and writes  *)
(* to the API server, so what a reconciliation reads may be older than     *)
(* what it has itself written.                                             *)
(*                                                                         *)
(* The module has no variables: a feed is a value the other modules keep   *)
(* in theirs, one per object.                                              *)
(*   obj   - the object as the API server stores it                        *)
(*   seen  - the cached copy, what Get and List return                     *)
(*   watch - the versions sent on the watch and not yet in the cache       *)
(* The versions of one object reach the cache in order; feeds of different *)
(* objects are independent of each other (client-go orders the objects of  *)
(* one kind among themselves; the model allows more orders than that).     *)
(***************************************************************************)
EXTENDS Naturals, Sequences

\* How many versions of an object the cache may be behind.  MaxLag = 0 is a
\* cache that has always caught up before the next read.
CONSTANT MaxLag
ASSUME MaxLagAssumption == MaxLag \in Nat

Feed(V) == [obj : V, seen : V, watch : Seq(V)]

Synced(v) == [obj |-> v, seen |-> v, watch |-> <<>>]

\* The API server stores v.  A write that changes nothing makes no new version
\* and no event; past the bound the oldest version in flight is cached at once.
Publish(f, v) ==
    LET sent == Append(f.watch, v) IN
    IF v = f.obj THEN f
    ELSE IF Len(sent) <= MaxLag
         THEN [obj |-> v, seen |-> f.seen, watch |-> sent]
         ELSE [obj |-> v, seen |-> Head(sent), watch |-> Tail(sent)]

\* The cache takes in the oldest version in flight.
Lagging(f) == f.watch # <<>>
Delivered(f) == [obj |-> f.obj, seen |-> Head(f.watch), watch |-> Tail(f.watch)]

\* A new process lists everything before it reads anything.
Relisted(f) == Synced(f.obj)
=============================================================================
