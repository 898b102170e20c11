-------------------------- MODULE PermissionProofs --------------------------
(***************************************************************************)
(* Theorem: a command changes no workload its user may not patch.  The     *)
(* webhooks look at a command once, when it is given; from then on the     *)
(* operator acts with its own rights.  What keeps the user's limits until  *)
(* the last entry is that the command cannot be exchanged on its way       *)
(* (PatientInv) and that its operator annotation is the user the webhooks  *)
(* have seen, so in addition to the conditions of PatientProofs no call of *)
(* the mutating webhook may be lost.                                       *)
(***************************************************************************)
EXTENDS PatientProofs

Webhooks == Missed = {FALSE}

OperatorOf(g) == sg[g].obj.ann.operator

Allowed(u, ws) == \A w \in ws \cap Steady : CheckPatch(u, w)

\* Entries for what u may patch.
PermittedEntry(u) == {e \in ResourceSnapshot : e.w \in Steady => CheckPatch(u, e.w)}

(***************************************************************************)
(* The invariant: the operator of a command may patch what the command     *)
(* will touch.  That is what is on record, or, as long as a down has not   *)
(* collected anything and does not do so in partial mode, all it selects.  *)
(***************************************************************************)
PermitOf(g) ==
    CommandOf(g) # "none" =>
        /\ OperatorOf(g) \in User /\ sg[g].obj.ann.groups = OperatorOf(g)
        /\ CommandOf(g) = "down" /\ ~ sg[g].obj.ann.partial => Allowed(OperatorOf(g), Selected(g))
        /\ CommandOf(g) = "up" \/ State(g) # "down" =>
              Allowed(OperatorOf(g), Recorded(Snapshot(g)))

PermitInv ==
    /\ \A g \in Group : PermitOf(g)
    /\ job # Idle => /\ job.operator = OperatorOf(job.g)
                     /\ job.pc = "collect" => job.found \in Seq(PermittedEntry(job.operator))

----------------------------------------------------------------------------
\* The webhooks see the user who gives the command, and what the command is about.
LEMMA GivenPermitted ==
    ASSUME Conditions, Webhooks, AllInv, NEW g \in Group, NEW u \in User,
           NEW ann \in Annotations, NEW new \in Annotations, Given(g, u, ann, new)
    PROVE  PermitOf(g)'
  <1> USE DEF AllInv
  <1>1. /\ sg[g].obj.ann = NoAnnotations /\ new.cmd # "none" /\ new.cmd \in {"down", "up"}
        /\ CommandOf(g) = "none"
    BY ObjectParts DEF Given, NoAnnotations, CommandOf, Annotations, Command
  <1>2. sg'[g].obj = [phase |-> "live", ann |-> new, status |-> sg[g].obj.status]
    BY DEF Given, Admitted, Rewritten
  <1>3. new.operator = u /\ new.groups = u
    <2>1. new = Default(sg[g].obj.ann, ann, u)
      BY DEF Given, Admitted, Webhooks
    <2>2. NoAnnotations.cmd = "none"
      BY DEF NoAnnotations
    <2>3. ann.cmd # "none"
      BY <1>1, <2>1, <2>2 DEF Default
    <2> QED
      BY <1>1, <2>1, <2>2, <2>3 DEF Default, Annotations
  <1>4. ValidateCommand(new, u, CachedTargets(g), Recorded(Snapshot(g)))
    BY <1>1 DEF Given, Admitted, ValidateUpdate, NoAnnotations
  <1>5. new.cmd = "down" /\ ~ new.partial => Allowed(u, Selected(g))
    <2> SUFFICES ASSUME new.cmd = "down", ~ new.partial, NEW w \in Steady, w \in Selected(g)
                 PROVE  CheckPatch(u, w)
      BY DEF Allowed
    <2>1. Forbidden(u, CachedTargets(g)) = {}
      BY <1>4 DEF ValidateCommand
    <2>2. wl[w].seen # Absent
      <3>1. w \in Workload /\ wl[w].seen = wl[w].obj
        BY FreshParts DEF CalmInv, Steady
      <3>2. wl[w].obj \in Replicas
        BY <3>1, LevelTypes DEF NeverInvents
      <3> QED
        BY <3>1, <3>2 DEF Absent, Replicas
    <2> QED
      BY <2>1, <2>2 DEF Forbidden, CachedTargets
  <1>6. new.cmd = "up" => Allowed(u, Recorded(Snapshot(g)))
    BY <1>4 DEF ValidateCommand, Forbidden, Allowed
  <1>7. State(g) # "down" => Allowed(u, Recorded(Snapshot(g)))
    <2>1. State(g) # "down" => Snapshot(g) = <<>>
      BY <1>1 DEF TruthInv
    <2>2. Recorded(<<>>) = {}
      BY DEF Recorded
    <2> QED
      BY <2>1, <2>2 DEF Allowed
  <1>8. /\ CommandOf(g)' = new.cmd /\ OperatorOf(g)' = u /\ sg'[g].obj.ann.groups = u
        /\ sg'[g].obj.ann.partial = new.partial
        /\ State(g)' = State(g) /\ Snapshot(g)' = Snapshot(g)
    BY <1>2, <1>3 DEF CommandOf, OperatorOf, State, Snapshot
  <1>9. Selected(g)' = Selected(g)
    BY DEF Selected
  <1> QED
    BY <1>3, <1>5, <1>6, <1>7, <1>8, <1>9 DEF PermitOf, Allowed

\* What is collected, its user may patch.
LEMMA CollectPermitted ==
    ASSUME Conditions, AllInv, PermitInv, job \in Job, job # Idle, CollectTargets
    PROVE  job'.found \in Seq(PermittedEntry(job.operator))
  <1> DEFINE g == job.g
             ann == sg[g].obj.ann
             u == job.operator
             S == {w \in ListCall(g, job.i) : Captures(job.local.ann, w)}
             add(items) == [k \in DOMAIN items |-> Captured(items[k])]
  <1> USE DEF AllInv, TypeOK
  <1>1. job.i \in 1 .. ListCalls(g) /\ g \in Group /\ job.pc = "collect"
    <2>1. ListCalls(g) \in Nat
      BY JobParts, ClusterConstants, LenProperties DEF ListCalls
    <2> QED
      BY <2>1, JobParts DEF CollectTargets
  <1>2. S \in SUBSET Workload /\ S \subseteq Selected(g)
    BY <1>1, ListCallType
  <1>3. job.cmd = "down" /\ CommandOf(g) = "down" /\ job.local.ann = ann
    BY <1>1 DEF CalmInv, CopyInv, PatientInv, CopyOfCommand
  <1>4. /\ u = OperatorOf(g) /\ u \in User /\ ann.groups = u /\ ann.operator = u
        /\ ~ ann.partial => Allowed(u, Selected(g))
    BY <1>1, <1>3 DEF PermitInv, PermitOf, OperatorOf
  <1>5. \A w \in S : Captured(w) \in PermittedEntry(u)
    <2> SUFFICES ASSUME NEW w \in S
                 PROVE  /\ wl[w].seen \in Replicas
                        /\ w \in Steady => CheckPatch(u, w)
      BY <1>2 DEF Captured, PermittedEntry, ResourceSnapshot
    <2>1. wl[w].seen \in Replicas
      BY <1>2, FeedParts DEF ListCall, Level, Absent, Replicas
    <2>2. CASE ann.partial
      <3>1. u # None
        BY <1>4, TypeConstants
      <3>2. CheckFor(ann.operator, ann.groups, w)
        BY <1>3, <1>4, <2>2, <3>1 DEF Captures
      <3> QED
        BY <1>4, <2>1, <3>2 DEF CheckPatch
    <2>3. CASE ~ ann.partial
      BY <1>2, <1>4, <2>1, <2>3 DEF Allowed
    <2> QED
      BY <2>2, <2>3
  <1> HIDE DEF S, u
  <1>6. PICK items \in SetToSeqs(S) :
            job' = [job EXCEPT !.found = @ \o add(items), !.i = @ + 1]
    BY DEF CollectTargets, S
  <1>7. items \in Seq(S)
    BY <1>2, ItemsType
  <1>8. add(items) \in Seq(PermittedEntry(u))
    <2>1. DOMAIN items = 1 .. Len(items) /\ Len(items) \in Nat
      BY <1>7, LenProperties
    <2>2. \A k \in 1 .. Len(items) : Captured(items[k]) \in PermittedEntry(u)
      BY <1>5, <1>7, ElementOfSeq
    <2> QED
      BY <2>1, <2>2, SeqDef
  <1> HIDE DEF add
  <1>9. job.found \in Seq(PermittedEntry(u))
    BY <1>1 DEF PermitInv, u
  <1>10. job.found \o add(items) \in Seq(PermittedEntry(u))
    BY <1>8, <1>9, ConcatProperties
  <1>11. job'.found = job.found \o add(items)
    BY <1>6 DEF Job
  <1> QED
    BY <1>10, <1>11 DEF u

\* What concerns g neither in its annotations nor in its status.
LEMMA PermitKept ==
    ASSUME NEW g \in Group, PermitOf(g), sg'[g].obj = sg[g].obj
    PROVE  PermitOf(g)'
  BY DEF PermitOf, CommandOf, OperatorOf, State, Snapshot, Selected, Allowed

LEMMA PermitOperator ==
    ASSUME Conditions, Webhooks, AllInv, PermitInv, OperatorNext
    PROVE  PermitInv'
  <1> USE DEF AllInv
  <1>0. job # Idle => job \in Job /\ job.g \in Group /\ job.cmd = CommandOf(job.g)
    BY BusyWorker, JobParts DEF TypeOK, PatientInv, CopyOfCommand
  <1>1. WorkerDoes
    BY WorkerActs DEF Conditions
  <1>2. ASSUME UNCHANGED sg
        PROVE  \A g \in Group : PermitOf(g)'
    BY <1>2, PermitKept DEF PermitInv
  <1>3. CASE UNCHANGED <<sg, wl, job, faults>>
    BY <1>2, <1>3 DEF PermitInv, OperatorOf
  <1>4. ASSUME NEW g \in Group, Starts(g)
        PROVE  PermitInv'
    <2>1. /\ job'.operator = OperatorOf(g) /\ job'.g = g /\ job'.found = <<>> /\ UNCHANGED sg
      BY <1>4 DEF Starts, OperatorOf
    <2>2. OperatorOf(g)' = OperatorOf(g)
      BY <2>1 DEF OperatorOf
    <2>3. \A u : <<>> \in Seq(PermittedEntry(u))
      OBVIOUS
    <2> QED
      BY <1>2, <2>1, <2>2, <2>3 DEF PermitInv, OperatorOf
  <1>5. CASE Proceeds
    <2>1. /\ job # Idle /\ UNCHANGED sg
          /\ job'.operator = job.operator /\ job'.g = job.g /\ job'.pc = job.pc
      BY <1>5, IdleWorker DEF Proceeds, SameJob
    <2>2. job.pc = "collect" => CollectTargets
      <3> SUFFICES ASSUME job.pc = "collect", ~ CollectTargets PROVE FALSE
        OBVIOUS
      <3>1. job' # Idle
        BY <1>5 DEF Proceeds, SameJob
      <3>2. ~ \E g \in Group : Reconcile(g)
        BY <2>1
           DEF Reconcile, ReconcileNothing, ReconcileDown, ReconcileUp, ReconcileUpFails, Takes
      <3>3. ~ (GroupNotFound \/ WorkloadNotFound \/ ApiError \/ Crash)
        BY <3>1 DEF GroupNotFound, WorkloadNotFound, ApiError, Crash, Fail
      <3>4. CaptureSnapshot
        BY <3>2, <3>3
           DEF OperatorNext, WorkerStep, ScaleEntry, MarkDown, RestoreEntry, MarkUp,
               AppendHistory, ConsumeAnnotations
      <3>5. job'.pc = "scale"
        BY <1>0, <2>1, <3>4 DEF CaptureSnapshot, PatchStatus, Job
      <3> QED
        BY <2>1, <3>5
    <2>3. job.pc = "collect" => job'.found \in Seq(PermittedEntry(job.operator))
      BY <1>0, <2>1, <2>2, CollectPermitted
    <2> QED
      BY <1>2, <2>1, <2>3 DEF PermitInv, OperatorOf
  <1>6. ASSUME NEW pc \in {"scale", "history", "consume"}, NEW st \in Status, job # Idle,
               Writes(pc, st),
               \/ st.state = "down" /\ job.cmd = "down"
               \/ Allowed(job.operator, Recorded(st.snapshot))
        PROVE  PermitInv'
    <2>1. PICK g \in Group : g = job.g
      BY <1>0, <1>6
    <2>2. /\ job'.g = g /\ job'.pc = pc /\ job'.operator = job.operator
          /\ sg'[g].obj.ann = sg[g].obj.ann /\ sg'[g].obj.status = st
          /\ \A h \in Group : h # g => sg'[h] = sg[h]
      BY <1>6, <2>1 DEF Writes, SameJob, Rewritten
    <2>3. /\ OperatorOf(g)' = OperatorOf(g) /\ CommandOf(g)' = CommandOf(g)
          /\ State(g)' = st.state /\ Snapshot(g)' = st.snapshot
          /\ job.operator = OperatorOf(g) /\ CommandOf(g) = job.cmd
      BY <1>0, <1>6, <2>1, <2>2 DEF OperatorOf, CommandOf, State, Snapshot, PermitInv
    <2>4. PermitOf(g)'
      <3>1. PermitOf(g) /\ Selected(g)' = Selected(g)
        BY DEF PermitInv, Selected
      <3> QED
        BY <1>6, <2>2, <2>3, <3>1 DEF PermitOf, Allowed
    <2>5. \A h \in Group : h # g => PermitOf(h)'
      BY <2>2, PermitKept DEF PermitInv
    <2> QED
      BY <2>2, <2>3, <2>4, <2>5 DEF PermitInv
  <1>7. CASE Collected
    <2>1. PICK st \in Status : /\ job.pc = "collect" /\ Writes("scale", st)
                               /\ st.snapshot = job.found
      BY <1>7 DEF Collected
    <2>2. job # Idle /\ job.found \in Seq(PermittedEntry(job.operator))
      BY <2>1, IdleWorker DEF PermitInv
    <2>3. Allowed(job.operator, Recorded(job.found))
      <3>1. \A i \in DOMAIN job.found : job.found[i] \in PermittedEntry(job.operator)
        BY <2>2, ElementOfSeq, LenProperties
      <3> QED
        BY <3>1 DEF Allowed, Recorded, PermittedEntry
    <2> QED
      BY <1>6, <2>1, <2>2, <2>3
  <1>8. CASE MarkedDown
    <2>1. PICK st \in Status : /\ job.pc = "scale" /\ Writes("history", st) /\ st.state = "down"
      BY <1>8 DEF MarkedDown
    <2>2. job # Idle /\ job.cmd = "down"
      BY <2>1, IdleWorker DEF CalmInv, CopyInv
    <2> QED
      BY <1>6, <2>1, <2>2
  <1>9. CASE MarkedUp
    <2>1. PICK st \in Status : /\ job.pc = "restore" /\ Writes("history", st)
                               /\ st.snapshot = <<>>
      BY <1>9 DEF MarkedUp
    <2>2. job # Idle /\ Allowed(job.operator, Recorded(st.snapshot))
      BY <2>1, IdleWorker DEF Allowed, Recorded
    <2> QED
      BY <1>6, <2>1, <2>2
  <1>10. CASE Appended
    <2>1. PICK st \in Status : /\ job.pc = "history" /\ Writes("consume", st)
                               /\ st.state = Held.state /\ st.snapshot = Held.snapshot
      BY <1>10 DEF Appended
    <2>2. /\ job # Idle /\ State(job.g) = job.cmd /\ st.state = job.cmd
          /\ st.snapshot = Snapshot(job.g) /\ job.cmd \in {"down", "up"}
      BY <1>0, <2>1, IdleWorker, JobParts DEF CalmInv, CopyInv, Held, State, Snapshot
    <2>3. job.cmd = "up" => Allowed(job.operator, Recorded(st.snapshot))
      BY <1>0, <2>2 DEF PermitInv, PermitOf
    <2> QED
      BY <1>6, <2>1, <2>2, <2>3
  <1>11. CASE Finishes
    <2>1. PICK g \in Group : g = job.g
      BY <1>0, <1>11, IdleWorker DEF Finishes
    <2>2. job # Idle /\ job' = Idle /\ \A h \in Group : h # g => sg'[h] = sg[h]
      BY <1>11, <2>1, IdleWorker DEF Finishes, Rewritten
    <2>3. CommandOf(g)' = "none"
      <3>1. sg'[g].obj.ann = Consumed
        BY <1>11, <2>1 DEF Finishes, Rewritten
      <3>2. Consumed.cmd = "none"
        BY <2>2
           DEF CalmInv, CopyInv, Consumed, MergeAnnotations, Merged, Without, NoAnnotations
      <3> QED
        BY <3>1, <3>2 DEF CommandOf
    <2>4. \A h \in Group : PermitOf(h)'
      BY <2>2, <2>3, PermitKept DEF PermitInv, PermitOf
    <2> QED
      BY <2>2, <2>4 DEF PermitInv
  <1>12. CASE CutOff
    BY <1>2, <1>12 DEF CutOff, PermitInv
  <1> QED
    BY <1>1, <1>3, <1>4, <1>5, <1>7, <1>8, <1>9, <1>10, <1>11, <1>12 DEF WorkerDoes

LEMMA PermitStep ==
    ASSUME Conditions, PatientUsers, Webhooks, AllInv, PermitInv, [Next]_vars
    PROVE  PermitInv'
  <1> USE DEF AllInv
  <1>1. ASSUME UNCHANGED <<sg, job>>
        PROVE  PermitInv'
    BY <1>1, PermitKept DEF PermitInv, OperatorOf
  <1>2. CASE ClusterNext /\ UNCHANGED <<operatorVars, clientsVars>>
    BY <1>1, <1>2, SurroundingsAct DEF Conditions, operatorVars
  <1>3. CASE OperatorNext /\ UNCHANGED clientsVars
    BY <1>3, PermitOperator
  <1>4. CASE ClientsNext /\ UNCHANGED operatorVars
    <2>1. PICK u \in User : Decides(u) \/ Arrives(u)
      BY <1>4, PatientClientsAct DEF Conditions
    <2>2. UNCHANGED job /\ (job # Idle => job.g \in Group /\ job.cmd \in {"down", "up"})
      BY <1>4, BusyWorker, JobParts DEF operatorVars, TypeOK
    <2>3. CASE UNCHANGED sg
      BY <1>1, <2>2, <2>3
    <2>4. ASSUME NEW g \in Group, NEW ann \in Annotations, NEW new \in Annotations,
                 Given(g, u, ann, new)
          PROVE  PermitInv'
      <3>1. \A h \in Group : h # g => sg'[h] = sg[h]
        BY <2>4 DEF Given, Admitted, Rewritten
      <3>2. \A h \in Group : PermitOf(h)'
        BY <2>4, <3>1, GivenPermitted, PermitKept DEF PermitInv
      <3>3. job # Idle => job.g # g
        BY <2>2, <2>4 DEF Given, PatientInv, CopyOfCommand, CommandOf, NoAnnotations
      <3> QED
        BY <2>2, <3>1, <3>2, <3>3 DEF PermitInv, OperatorOf
    <2> QED
      BY <2>1, <2>3, <2>4 DEF Decides, Arrives
  <1>5. CASE UNCHANGED vars
    BY <1>1, <1>5 DEF vars, clusterVars, operatorVars
  <1> QED
    BY <1>2, <1>3, <1>4, <1>5 DEF Next

LEMMA PermitInit == Init => PermitInv
  <1> SUFFICES ASSUME Init, NEW g \in Group PROVE CommandOf(g) = "none"
    BY DEF PermitInv, PermitOf, Init, OperatorInit
  <1>1. sg[g] = Synced(Fresh)
    BY DEF Init, ClusterInit
  <1>2. sg[g].obj = Fresh
    BY <1>1, SyncedParts
  <1>3. Fresh.ann.cmd = "none"
    BY DEF Fresh, NoAnnotations
  <1> QED
    BY <1>2, <1>3, Zenon DEF CommandOf

----------------------------------------------------------------------------
KeepsWithin ==
    \A w \in Steady : wl[w].obj' # wl[w].obj =>
        job # Idle /\ job.operator \in User /\ CheckPatch(job.operator, w)

LEMMA StaysWithin ==
    ASSUME Conditions, AllInv, PermitInv, Next
    PROVE  KeepsWithin
  <1> USE DEF AllInv
  <1> SUFFICES ASSUME NEW w \in Steady, wl'[w].obj # wl[w].obj
               PROVE  job # Idle /\ job.operator \in User /\ CheckPatch(job.operator, w)
    BY DEF KeepsWithin
  <1>1. OperatorNext
    BY SurroundingsAct, ClientsAct DEF Next, Conditions
  <1>2. /\ job # Idle /\ job.pc \in {"scale", "restore"} /\ job.g \in Group
        /\ w \in Recorded(Snapshot(job.g))
    BY <1>1, OnlyEntriesMove
  <1>3. \/ CommandOf(job.g) = "down" /\ State(job.g) # "down"
        \/ CommandOf(job.g) = "up"
    BY <1>2 DEF CalmInv, CopyInv, PatientInv, CopyOfCommand
  <1>4. /\ job.operator = OperatorOf(job.g) /\ OperatorOf(job.g) \in User
        /\ Allowed(OperatorOf(job.g), Recorded(Snapshot(job.g)))
    BY <1>2, <1>3 DEF PermitInv, PermitOf
  <1> QED
    BY <1>2, <1>4 DEF Allowed

\* The operator, which may patch everything, changes only workloads that the user
\* whose command it carries out may patch, in partial mode and without it, and also
\* when the command is cut off and carried out by a later reconciliation.
THEOREM CommandsStayWithin ==
    ASSUME Conditions, PatientUsers, Webhooks
    PROVE  Spec => WithinPermissions
  <1>1. AllInv /\ PermitInv /\ [Next]_vars => PermitInv'
    BY PermitStep
  <1>2. AllInv /\ PermitInv /\ [Next]_vars => [KeepsWithin]_vars
    BY StaysWithin
  <1>3. WithinPermissions <=> [][KeepsWithin]_vars
    BY DEF WithinPermissions, KeepsWithin
  <1> QED
    BY <1>1, <1>2, <1>3, PermitInit, PatientAlways, PTL DEF Spec
=============================================================================
