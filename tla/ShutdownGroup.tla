--------------------------- MODULE ShutdownGroup ---------------------------
(***************************************************************************)
(* The ShutdownGroup object (api/v1alpha1): the annotations that carry a   *)
(* command to the operator, the status the operator keeps, and the merge   *)
(* patches by which both are written.  A workload is abstracted to a       *)
(* level: spec.replicas of a Deployment or StatefulSet, spec.suspend of a  *)
(* CronJob (0 active, 1 suspended), Absent when it does not exist.         *)
(***************************************************************************)
EXTENDS Integers, Sequences, FiniteSets

CONSTANTS
    Workload,           \* the workloads of the cluster
    Kind,               \* [Workload -> Kinds]
    User,               \* the users that give commands
    Reason,             \* the justifications they may give
    None,               \* the absent annotation or empty string
    MaxReplicas,        \* bound: the largest replica count
    MaxHistoryEntries   \* constants.go: entries kept in status.history

Kinds == {"Deployment", "StatefulSet", "CronJob"}

ASSUME TypeConstants ==
    /\ IsFiniteSet(Workload)
    /\ IsFiniteSet(User) /\ None \notin User
    /\ Kind \in [Workload -> Kinds]
    /\ MaxReplicas \in Nat \ {0}
    /\ MaxHistoryEntries \in Nat \ {0}

Replicas == 0 .. MaxReplicas
Absent == -1
Level == Replicas \union {Absent}

\* The levels a workload that exists may be at.
LevelsOf(w) == IF Kind[w] = "CronJob" THEN {0, 1} ELSE Replicas

\* The level a shutdown drives a workload to: no replicas, or suspended.
Stopped(w) == IF Kind[w] = "CronJob" THEN 1 ELSE 0

Command == {"none", "down", "up"}

Annotations == [cmd : Command, reason : Reason \union {None},
                operator : User \union {None}, groups : User \union {None},
                partial : BOOLEAN]

ResourceSnapshot == [w : Workload, prev : Replicas]

HistoryEntry == [op : {"down", "up"}, operator : User \union {None},
                 reason : Reason \union {None}]

\* appendHistory keeps at most MaxHistoryEntries of them.
HistoryList == {h \in Seq(HistoryEntry) : Len(h) <= MaxHistoryEntries}

Status == [state : {"", "up", "down"}, operator : User \union {None},
           reason : Reason \union {None},
           snapshot : Seq(ResourceSnapshot), history : HistoryList]

\* An object with a deletionTimestamp is "terminating" until its finalizers
\* are gone.
Object == [phase : {"live", "terminating", "gone"},
           ann : Annotations, status : Status]

NoAnnotations == [cmd |-> "none", reason |-> None, operator |-> None,
                  groups |-> None, partial |-> FALSE]

NoStatus == [state |-> "", operator |-> None, reason |-> None,
             snapshot |-> <<>>, history |-> <<>>]

Fresh == [phase |-> "live", ann |-> NoAnnotations, status |-> NoStatus]
Gone == [phase |-> "gone", ann |-> NoAnnotations, status |-> NoStatus]

----------------------------------------------------------------------------
(***************************************************************************)
(* client.MergeFrom(base): the patch carries only the fields in which the  *)
(* modified copy differs from the base, and no resourceVersion, so it is   *)
(* applied to whatever the server holds by then.                           *)
(***************************************************************************)
Merged(cur, base, mod) == IF mod = base THEN cur ELSE mod

MergeAnnotations(cur, base, mod) ==
    [cmd      |-> Merged(cur.cmd, base.cmd, mod.cmd),
     reason   |-> Merged(cur.reason, base.reason, mod.reason),
     operator |-> Merged(cur.operator, base.operator, mod.operator),
     groups   |-> Merged(cur.groups, base.groups, mod.groups),
     partial  |-> Merged(cur.partial, base.partial, mod.partial)]

MergeStatus(cur, base, mod) ==
    [state    |-> Merged(cur.state, base.state, mod.state),
     operator |-> Merged(cur.operator, base.operator, mod.operator),
     reason   |-> Merged(cur.reason, base.reason, mod.reason),
     snapshot |-> Merged(cur.snapshot, base.snapshot, mod.snapshot),
     history  |-> Merged(cur.history, base.history, mod.history)]

\* The server's answer to a patch is decoded into the object that was patched:
\* what the answer does not contain stays there as it was.
Answered(held, answer) ==
    [phase  |-> answer.phase,
     ann    |-> MergeAnnotations(held.ann, NoAnnotations, answer.ann),
     status |-> MergeStatus(held.status, NoStatus, answer.status)]

\* The workloads a snapshot has an entry for, and those it has at a level.
Recorded(s) == {s[i].w : i \in DOMAIN s}
RecordedAt(s, w, level) == \E i \in DOMAIN s : s[i] = [w |-> w, prev |-> level]
=============================================================================
