------------------------------- MODULE System -------------------------------
(***************************************************************************)
(* kshutdown: the operator, its clients and the cluster they share, and    *)
(* what makes the whole correct.                                           *)
(***************************************************************************)
EXTENDS Operator, Clients

vars == <<clusterVars, operatorVars, clientsVars>>

Init == ClusterInit /\ OperatorInit /\ ClientsInit

Next ==
    \/ ClusterNext /\ UNCHANGED <<operatorVars, clientsVars>>
    \/ OperatorNext /\ UNCHANGED clientsVars
    \/ ClientsNext /\ UNCHANGED operatorVars

Spec == Init /\ [][Next]_vars


(***************************************************************************)
(* Fairness: the watch delivers what it has sent; a reconciliation goes on *)
(* until it returns; the controller's queue is first in, first out, so a   *)
(* group whose turn comes again and again is taken.  Nothing obliges users *)
(* to act, calls to fail or the process to die.                            *)
(***************************************************************************)
Fairness ==
    /\ WF_vars(WorkerStep /\ UNCHANGED clientsVars)
    /\ \A g \in Group :
          /\ SF_vars(Reconcile(g) /\ UNCHANGED clientsVars)
          /\ WF_vars(DeliverGroup(g) /\ UNCHANGED <<operatorVars, clientsVars>>)
    /\ \A w \in Workload :
          WF_vars(DeliverWorkload(w) /\ UNCHANGED <<operatorVars, clientsVars>>)

FairSpec == Spec /\ Fairness

----------------------------------------------------------------------------
CommandOf(g) == sg[g].obj.ann.cmd
State(g) == sg[g].obj.status.state
Snapshot(g) == sg[g].obj.status.snapshot
History(g) == sg[g].obj.status.history

\* Workloads only kshutdown changes.
Steady == Workload \ Disturbed

\* Nobody has a command for g under way.
Quiet(g) ==
    /\ CommandOf(g) = "none"
    /\ job # Idle => job.g # g

AllStopped(ws) == \A w \in ws \cap Steady : wl[w].obj = Stopped(w)
AllHome(ws) == \A w \in ws \cap Steady : wl[w].obj = Home[w]

\* Every variable keeps its type: the queue and the worker name groups that
\* exist, feeds hold versions of their object, counters stay within bounds.
TypeOK == ClusterTypeOK /\ OperatorTypeOK /\ ClientsTypeOK

----------------------------------------------------------------------------
\* "Quickly, safely, and reversibly" (README.md): the only copy of the level of
\* a workload that has been stopped is a snapshot.  At every moment, in the
\* middle of a command and after a crash too, a workload away from its owner's
\* level has that level recorded in some group.
Reversible ==
    \A w \in Steady : wl[w].obj # Home[w] =>
        \E g \in Group : RecordedAt(Snapshot(g), w, Home[w])

\* No mixture of commands, crashes, deletions and stale reads makes the operator
\* set a level a workload has never had: it is home or stopped, and so is
\* every level on record.
NeverInvents ==
    \A w \in Steady :
        /\ wl[w].obj \in {Home[w], Stopped(w)}
        /\ \A g \in Group : \A level \in Replicas :
              RecordedAt(Snapshot(g), w, level) => level \in {Home[w], Stopped(w)}

\* "Written once during reconcileDown.  Cleared during reconcileUp.  Must never
\* be overwritten if non-empty" (shutdowngroup_types.go): a snapshot is never
\* exchanged for another, and it is cleared only when all it records is home.
SnapshotKept ==
    [][\A g \in Group : Snapshot(g) # <<>> =>
          \/ Snapshot(g)' = Snapshot(g)
          \/ Snapshot(g)' = <<>> /\ AllHome(Recorded(Snapshot(g)))]_vars

\* A command leaves its annotation only when it has been carried out: the state
\* says so, and the workloads are where the command puts them.
CommandObeyed ==
    [][\A g \in Group :
          (CommandOf(g) # "none" /\ sg[g].obj.phase = "live" /\ CommandOf(g)' = "none") =>
              /\ State(g)' = CommandOf(g)
              /\ (CommandOf(g) = "down" => AllStopped(Recorded(Snapshot(g)))')
              /\ (CommandOf(g) = "up" => AllHome(Selected(g))')]_vars

\* What the status of a quiet group says is so.
StateIsTrue ==
    \A g \in Group : Quiet(g) =>
        IF State(g) = "down"
        THEN AllStopped(Recorded(Snapshot(g)))
        ELSE Snapshot(g) = <<>> /\ AllHome(Selected(g))

\* A command takes its parameters with it: a later one finds no reason, operator
\* or partial flag that was not given with it.
NoLeftovers ==
    \A g \in Group : CommandOf(g) = "none" => sg[g].obj.ann = NoAnnotations

\* "History records the last operations for audit purposes": of a quiet group
\* the newest entry is the operation that brought it into its state, by the
\* operator the status names, and the entries alternate.
AuditTrail ==
    \A g \in Group : (Quiet(g) /\ State(g) # "") =>
        LET h == History(g) IN
        /\ h # <<>>
        /\ h[1].op = State(g)
        /\ h[1].operator = sg[g].obj.status.operator
        /\ \A i \in 1 .. Len(h) - 1 : h[i].op # h[i + 1].op

\* The audit trail is right as long as no call has failed.
AuditUntilFailure == faults = 0 => AuditTrail

\* "The command annotation is consumed after execution - idempotent"
\* (projet.md): a command that is cut off, retried, repeated or overtaken by
\* another is executed at most once.
ExecutedOnce == \A g \in Group : Len(History(g)) <= commands[g]

\* A down in partial mode, and an up after it, change no workload that the user
\* who gave the command may not patch.
WithinPermissions ==
    [][\A w \in Steady : wl[w].obj' # wl[w].obj =>
          job # Idle /\ job.operator \in User /\ CheckPatch(job.operator, w)]_vars

----------------------------------------------------------------------------
\* What keeps a command waiting for good: a workload of the snapshot that does
\* not exist, or nothing to restore from.
Blocked(g) ==
    \/ \E w \in Recorded(Snapshot(g)) : wl[w].obj = Absent
    \/ CommandOf(g) = "up" /\ CannotRestore(sg[g].obj)

\* Every command of a live group comes to its end unless it is blocked; a group
\* that fails again and again does not hold up another.
CommandSettles ==
    \A g \in Group :
        (CommandOf(g) # "none" /\ sg[g].obj.phase = "live" /\ ~ Blocked(g))
            ~> (CommandOf(g) = "none" \/ sg[g].obj.phase # "live" \/ Blocked(g))

----------------------------------------------------------------------------
(***************************************************************************)
(* What comments, documents and tests say of the program and the code does *)
(* not keep.  Each is refuted by a run of its own.                         *)
(***************************************************************************)

\* The webhook "allows up when snapshot is empty (no-op for the operator)": a
\* no-op ends like any other command.
UpSettles ==
    \A g \in Group : CommandOf(g) = "up" ~> CommandOf(g) # "up"
=============================================================================
