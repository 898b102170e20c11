------------------------------ MODULE Clients ------------------------------
(***************************************************************************)
(* The users and their tools: the kubectl plugin (cmd/kubectl-kshutdown),  *)
(* which reads a group, decides, and later sends a merge patch built from  *)
(* what it read, and `kubectl annotate`, which the README names as another *)
(* way to give a command.  A group may also be exported into a file for    *)
(* Git, which is then applied again and again (kubectl apply, ArgoCD).     *)
(***************************************************************************)
EXTENDS Cluster

CONSTANTS
    Patient,        \* users wait until a command has been consumed before the next
    Annotators,     \* users that set the command with kubectl annotate
    Appliers,       \* users that export a group to Git and apply the file
    MaxCommands     \* bound: commands given to a group

ASSUME ClientsConstants ==
    /\ Patient \in BOOLEAN
    /\ Annotators \subseteq User
    /\ Appliers \subseteq User
    /\ MaxCommands \in Nat

VARIABLES
    cli,        \* [User -> the patch the user's plugin is about to send]
    commands,   \* [Group -> commands given to it so far]
    git         \* [Group -> the kshutdown.io annotations in the group's file]

clientsVars == <<cli, commands, git>>

Session == [g : Group, base : Annotations, mod : Annotations]
NoSession == [g |-> None]

ClientsTypeOK ==
    /\ cli \in [User -> Session \union {NoSession}]
    /\ commands \in [Group -> 0 .. MaxCommands]
    /\ git \in [Group -> Annotations]

ClientsInit ==
    /\ cli = [u \in User |-> NoSession]
    /\ commands = [g \in Group |-> 0]
    /\ git = [g \in Group |-> NoAnnotations]

\* A user turns to group g.
MayCommand(u, g) ==
    /\ commands[g] < MaxCommands
    /\ cli[u] = NoSession
    /\ sg[g].obj.phase # "gone"
    /\ Patient => /\ \A v \in User : cli[v] = NoSession
                  /\ sg[g].obj.ann.cmd = "none"

Prepare(u, g, mod) ==
    /\ cli' = [cli EXCEPT ![u] = [g |-> g, base |-> sg[g].obj.ann, mod |-> mod]]
    /\ commands' = [commands EXCEPT ![g] = @ + 1]
    /\ UNCHANGED <<clusterVars, git>>

\* kubectl kshutdown down: reads the group and its workloads from the API
\* server.  A group that is down, and missing permissions without --partial,
\* end it without a write; --partial is passed on only if something is
\* forbidden.
Down(u, g, reason, partial) ==
    LET o == sg[g].obj
        forbidden == Forbidden(u, ListedTargets(g))
    IN  /\ MayCommand(u, g)
        /\ o.status.state # "down"
        /\ forbidden = {} \/ partial
        /\ Prepare(u, g, [o.ann EXCEPT !.cmd = "down", !.reason = reason, !.operator = u,
                                       !.partial = @ \/ (partial /\ forbidden # {})])

\* kubectl kshutdown up: all of the snapshot or nothing.
Up(u, g) ==
    LET o == sg[g].obj IN
    /\ MayCommand(u, g)
    /\ o.status.state # "up"
    /\ o.status.snapshot # <<>>
    /\ Forbidden(u, Recorded(o.status.snapshot)) = {}
    /\ Prepare(u, g, [o.ann EXCEPT !.cmd = "up", !.operator = u])

\* The patch of a session arrives; accepted or rejected, the plugin ends.
Send(u) ==
    LET s == cli[u] IN
    /\ s # NoSession
    /\ cli' = [cli EXCEPT ![u] = NoSession]
    /\ IF sg[s.g].obj.phase = "gone"
       THEN UNCHANGED <<sg, queue>>
       ELSE Submit(s.g, u, MergeAnnotations(sg[s.g].obj.ann, s.base, s.mod))
    /\ UNCHANGED <<wl, commands, git>>

\* kubectl annotate --overwrite: nothing but the command.
Annotate(u, g, cmd) ==
    /\ u \in Annotators
    /\ MayCommand(u, g)
    /\ Submit(g, u, [sg[g].obj.ann EXCEPT !.cmd = cmd])
    /\ commands' = [commands EXCEPT ![g] = @ + 1]
    /\ UNCHANGED <<wl, cli, git>>

\* kubectl kshutdown export: the status is stripped, the annotations are not.
\* Bound: a group is exported with something on it once.
Export(u, g) ==
    /\ u \in Appliers
    /\ sg[g].obj.phase # "gone"
    /\ git[g] = NoAnnotations
    /\ git' = [git EXCEPT ![g] = sg[g].obj.ann]
    /\ UNCHANGED <<clusterVars, cli, commands>>

\* The file is applied: what it says is set, what it does not say stays.
Apply(u, g) ==
    /\ u \in Appliers
    /\ IF sg[g].obj.phase = "gone"
       THEN Create(g, u, git[g])
       ELSE Submit(g, u, MergeAnnotations(sg[g].obj.ann, NoAnnotations, git[g]))
    /\ UNCHANGED <<wl, clientsVars>>

ClientsNext ==
    \E u \in User :
        \/ Send(u)
        \/ \E g \in Group :
              \/ \E reason \in Reason, partial \in BOOLEAN : Down(u, g, reason, partial)
              \/ Up(u, g)
              \/ \E cmd \in {"down", "up"} : Annotate(u, g, cmd)
              \/ Export(u, g) \/ Apply(u, g)
=============================================================================
