----------------------------- MODULE Lifecycle -----------------------------
(***************************************************************************)
(* What kshutdown promises of the groups, whatever happens on the way: no  *)
(* commands, no permissions, no cache, no failures.  A level is changed    *)
(* only after it has been recorded, to nothing but the stopped or the      *)
(* recorded one; a group is said to be down when all it records is         *)
(* stopped; what is recorded is forgotten when all of it is back.          *)
(***************************************************************************)
CONSTANTS
    Workload,   \* the workloads nobody else changes
    Group,
    Target,     \* [Group -> SUBSET Workload]
    Home,       \* [Workload -> the level the owner runs it at]
    Off         \* [Workload -> the level a shutdown puts it to]

VARIABLES
    level,      \* [Workload -> where it is now]
    record,     \* [Group -> set of <<workload, level to come back to>>]
    state       \* [Group -> what the group says]

vars == <<level, record, state>>

Init ==
    /\ level = [w \in Workload |-> Home[w]]
    /\ record = [g \in Group |-> {}]
    /\ state = [g \in Group |-> ""]

\* The levels of some of the targets are recorded, once.
Record(g) ==
    /\ state[g] # "down"
    /\ record[g] = {}
    /\ \E ws \in SUBSET Target[g] :
          record' = [record EXCEPT ![g] = {<<w, level[w]>> : w \in ws}]
    /\ UNCHANGED <<level, state>>

Stop(g) ==
    /\ state[g] # "down"
    /\ \E e \in record[g] : level' = [level EXCEPT ![e[1]] = Off[e[1]]]
    /\ UNCHANGED <<record, state>>

Restore(g) ==
    /\ state[g] # "up"
    /\ \E e \in record[g] : level' = [level EXCEPT ![e[1]] = e[2]]
    /\ UNCHANGED <<record, state>>

GoDown(g) ==
    /\ state[g] # "down"
    /\ \A e \in record[g] : level[e[1]] = Off[e[1]]
    /\ state' = [state EXCEPT ![g] = "down"]
    /\ UNCHANGED <<level, record>>

GoUp(g) ==
    /\ state[g] # "up"
    /\ \A e \in record[g] : level[e[1]] = e[2]
    /\ state' = [state EXCEPT ![g] = "up"]
    /\ record' = [record EXCEPT ![g] = {}]
    /\ UNCHANGED level

Next == \E g \in Group : Record(g) \/ Stop(g) \/ Restore(g) \/ GoDown(g) \/ GoUp(g)

Spec == Init /\ [][Next]_vars
=============================================================================
