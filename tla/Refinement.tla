----------------------------- MODULE Refinement -----------------------------
(***************************************************************************)
(* System as an implementation of Lifecycle: the levels are those in the   *)
(* API server, the record of a group is its snapshot.                      *)
(***************************************************************************)
EXTENDS System

Pairs(s) == {<<s[i].w, s[i].prev>> : i \in {k \in DOMAIN s : s[k].w \in Steady}}

Abstract == INSTANCE Lifecycle WITH
    Workload <- Steady,
    Target   <- [g \in Group |-> Selected(g) \cap Steady],
    Off      <- [w \in Steady |-> Stopped(w)],
    level    <- [w \in Steady |-> wl[w].obj],
    record   <- [g \in Group |-> Pairs(Snapshot(g))],
    state    <- [g \in Group |-> State(g)]

\* Every step of the system, with commands at any time, failed calls and
\* crashes, changes workloads, snapshots and states only as Lifecycle allows.
ImplementsLifecycle == Abstract!Spec
=============================================================================
