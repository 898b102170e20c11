---------------------------- MODULE TwoOperators ----------------------------
(***************************************************************************)
(* Two operator processes at once.  Leader election is a flag of the       *)
(* manager (cmd/main.go) that is off unless it is given, as the chart      *)
(* does: without it a second replica, or the old process during an         *)
(* upgrade, reconciles the same groups.  Each process has a worker and a   *)
(* queue of its own; what one writes is an event for both.  Their caches   *)
(* are taken to be up to date, so that one feed stands for both.           *)
(***************************************************************************)
EXTENDS System

ASSUME UpToDate == MaxLag = 0

VARIABLES
    job2,   \* the reconciliation under way in the second process
    queue2  \* the work queue of the second process

Second == INSTANCE Operator WITH job <- job2, queue <- queue2

bothVars == <<vars, job2, queue2>>

\* A process hears of the groups that others have changed.
Heard(q) == q \union {g \in Group : sg'[g].seen # sg[g].seen}

BothInit == Init /\ Second!OperatorInit /\ queue2 = Group

BothNext ==
    \/ Next /\ queue2' = Heard(queue2) /\ UNCHANGED job2
    \/ /\ Second!OperatorNext
       /\ queue' = Heard(queue)
       /\ UNCHANGED <<job, clientsVars>>

BothSpec == BothInit /\ [][BothNext]_bothVars
=============================================================================
