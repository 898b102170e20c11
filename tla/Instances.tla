----------------------------- MODULE Instances -----------------------------
(***************************************************************************)
(* Values for TLC.  The workloads: a Deployment `web`, a StatefulSet `db`, *)
(* a CronJob `nightly` that runs, and a CronJob `paused` that its owner    *)
(* has suspended.  A configuration takes some of them.                     *)
(***************************************************************************)
EXTENDS ShutdownGroup, TLC

CONSTANTS web, db, nightly, paused, g1, g2, amy, bob

KindOf == (web :> "Deployment" @@ db :> "StatefulSet"
           @@ nightly :> "CronJob" @@ paused :> "CronJob")
LevelOf == (web :> 2 @@ db :> 1 @@ nightly :> 0 @@ paused :> 1)
MCKind == [w \in Workload |-> KindOf[w]]
MCHome == [w \in Workload |-> LevelOf[w]]

\* One group with one target; one group with two targets that both select
\* `web`; two groups apart; two groups that share `web`.
OneTarget == (g1 :> <<Workload>>)
TwoTargets == (g1 :> <<Workload \ {db}, {web, db}>>)
Apart == (g1 :> <<{db}>> @@ g2 :> <<Workload \ {db}>>)
Sharing == (g1 :> <<{web}>> @@ g2 :> <<Workload>>)

\* Who may patch what, by name and through groups.
All == [u \in User |-> Workload]
Nobody == [u \in User |-> {}]
ByName == (amy :> {web} @@ bob :> {web})
ByGroup == (amy :> Workload @@ bob :> {})
=============================================================================
