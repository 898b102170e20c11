--------------------------- MODULE PatientProofs ---------------------------
(***************************************************************************)
(* Theorems about users who wait until a command has been consumed before  *)
(* they give the next one, and who keep no file with annotations in it:    *)
(* a command takes its parameters with it, it leaves its annotation only   *)
(* when it has been carried out, and the status of a quiet group is true.  *)
(* Reads are fresh, groups stay, and no workload that only kshutdown       *)
(* changes is selected by two groups (Conditions); calls may fail and the  *)
(* process may die at any moment, and a call of the mutating webhook may   *)
(* be lost.                                                                *)
(***************************************************************************)
EXTENDS WorkerProofs, LifecycleProofs

PatientUsers == Patient /\ Appliers = {}

(***************************************************************************)
(* The invariants.  Since at most one plugin has decided on something, and *)
(* only for a group without a command, nobody writes the annotations of a  *)
(* group while it has one: the worker's copy of them is the server's.      *)
(***************************************************************************)
Busy(u) == cli[u] # NoSession

SessionsInv ==
    /\ \A u, v \in User : Busy(u) /\ Busy(v) => u = v
    /\ \A u \in User : Busy(u) =>
          /\ CommandOf(cli[u].g) = "none" /\ cli[u].base = NoAnnotations
          /\ cli[u].mod.cmd # "none"
          /\ cli[u].mod.cmd = "up" => ~ cli[u].mod.partial

\* What reconcileUp would leave, an up does not carry.
NothingToLeave == \A g \in Group : CommandOf(g) = "up" => ~ sg[g].obj.ann.partial

CopyOfCommand == job # Idle => /\ job.local.ann = sg[job.g].obj.ann
                               /\ job.cmd = CommandOf(job.g)

PatientInv == SessionsInv /\ NoLeftovers /\ NothingToLeave /\ CopyOfCommand

\* What a group's state says holds unless a command to the contrary is under way.
TruthInv ==
    \A g \in Group :
        /\ State(g) = "down" /\ CommandOf(g) # "up" => AllStopped(Recorded(Snapshot(g)))
        /\ State(g) # "down" /\ CommandOf(g) # "down" => Snapshot(g) = <<>>

----------------------------------------------------------------------------
(***************************************************************************)
(* The steps.                                                              *)
(***************************************************************************)

\* The worker leaves the annotations alone until it removes them all.
LEMMA WorkerConsumes ==
    ASSUME Calm, TypeOK, CalmInv, PatientInv, OperatorNext
    PROVE  \A g \in Group :
              \/ sg'[g].obj.ann = sg[g].obj.ann
              \/ /\ Finishes /\ job # Idle /\ g = job.g
                 /\ sg'[g].obj = [phase |-> "live", ann |-> NoAnnotations, status |-> Held]
  <1>1. WorkerDoes
    BY WorkerActs
  <1>2. CASE UNCHANGED sg
    BY <1>2
  <1>3. ASSUME NEW pc, NEW st \in Status, Writes(pc, st), job # Idle
        PROVE  \A g \in Group : sg'[g].obj.ann = sg[g].obj.ann
    BY <1>3 DEF Writes, Rewritten
  <1>4. CASE Collected \/ MarkedDown \/ MarkedUp \/ Appended
    <2>1. job # Idle
      BY <1>4, IdleWorker DEF Collected, MarkedDown, MarkedUp, Appended
    <2> QED
      BY <1>3, <1>4, <2>1 DEF Collected, MarkedDown, MarkedUp, Appended
  <1>5. CASE Finishes
    <2>1. job # Idle /\ job \in Job /\ job.g \in Group
      BY <1>5, IdleWorker, BusyWorker, JobParts DEF Finishes, TypeOK
    <2> DEFINE ann == sg[job.g].obj.ann
    <2>2. ann \in Annotations /\ job.local.ann = ann /\ job.cmd = ann.cmd
      BY <2>1, FeedParts, ObjectParts DEF TypeOK, PatientInv, CopyOfCommand, CommandOf
    <2>3. Without(ann, job.cmd) = NoAnnotations
      <3> DEFINE left == job.cmd = "up" /\ ann.partial
      <3>1. left = FALSE
        BY <2>1, <2>2 DEF PatientInv, NothingToLeave, CommandOf
      <3>2. Without(ann, job.cmd) = [NoAnnotations EXCEPT !.partial = left]
        BY DEF Without
      <3> HIDE DEF left
      <3> QED
        BY <3>1, <3>2 DEF NoAnnotations
    <2>4. NoAnnotations \in Annotations
      BY FreshTypes, ObjectParts DEF Fresh
    <2>5. Consumed = NoAnnotations
      BY <2>2, <2>3, <2>4, MergedAnnotations DEF Consumed
    <2> QED
      BY <1>5, <2>1, <2>5 DEF Finishes, Rewritten
  <1> QED
    BY <1>1, <1>2, <1>4, <1>5 DEF WorkerDoes, Starts, Proceeds, CutOff

\* A command as it is given: to a group without one.
Given(g, u, ann, new) ==
    /\ sg[g].obj.ann = NoAnnotations
    /\ new.cmd # "none" /\ (new.cmd = "up" => ~ new.partial)
    /\ Admitted(g, u, ann, new)

LEMMA SubmitGives ==
    ASSUME Calm, TypeOK, CalmInv, NEW g \in Group, NEW u \in User, NEW ann \in Annotations,
           sg[g].obj.ann = NoAnnotations, ann.cmd # "none", ann.cmd = "up" => ~ ann.partial,
           Submit(g, u, ann)
    PROVE  UNCHANGED sg \/ \E new \in Annotations : Given(g, u, ann, new)
  <1>1. ASSUME NEW new \in Annotations, Admitted(g, u, ann, new)
        PROVE  Given(g, u, ann, new)
    <2>1. new = ann \/ new = Default(sg[g].obj.ann, ann, u)
      BY <1>1 DEF Admitted
    <2>2. new.cmd = ann.cmd /\ new.partial = ann.partial
      BY <2>1 DEF Default, Annotations
    <2> QED
      BY <1>1, <2>2 DEF Given
  <1> QED
    BY <1>1, SubmitActs

\* What a step of the clients is, if they are patient: a plugin decides on a command,
\* or one arrives, or one is rejected.
Decides(u) ==
    /\ UNCHANGED sg
    /\ \A v \in User : ~ Busy(v)
    /\ \A v \in User : v # u => ~ Busy(v)'
    /\ CommandOf(cli'[u].g) = "none" /\ cli'[u].base = NoAnnotations
    /\ cli'[u].mod.cmd # "none" /\ (cli'[u].mod.cmd = "up" => ~ cli'[u].mod.partial)

Arrives(u) ==
    /\ \A v \in User : ~ Busy(v)'
    /\ UNCHANGED sg \/ \E g \in Group, ann, new \in Annotations : Given(g, u, ann, new)

LEMMA PatientClientsAct ==
    ASSUME Calm, PatientUsers, TypeOK, CalmInv, PatientInv, ClientsNext
    PROVE  \E u \in User : Decides(u) \/ Arrives(u)
  <1> USE DEF TypeOK
  <1>1. \A g \in Group : CommandOf(g) = "none" => sg[g].obj.ann = NoAnnotations
    BY DEF PatientInv, NoLeftovers
  <1>2. NoAnnotations.cmd = "none" /\ NoAnnotations.partial = FALSE /\ NoAnnotations \in Annotations
    BY FreshTypes, ObjectParts DEF NoAnnotations, Fresh
  <1>3. ASSUME NEW u \in User, Send(u)
        PROVE  Arrives(u)
    <2> DEFINE s == cli[u]
               g == s.g
    <2>1. /\ s \in Session /\ g \in Group /\ s.mod \in Annotations /\ Busy(u)
          /\ s.base = NoAnnotations /\ CommandOf(g) = "none"
          /\ s.mod.cmd # "none" /\ (s.mod.cmd = "up" => ~ s.mod.partial)
      <3>1. s \in Session /\ Busy(u)
        BY <1>3 DEF Send, ClientsTypeOK, Busy
      <3> QED
        BY <3>1 DEF Session, PatientInv, SessionsInv
    <2>2. sg[g].obj.ann = NoAnnotations
      BY <1>1, <2>1
    <2>3. MergeAnnotations(sg[g].obj.ann, s.base, s.mod) = s.mod
      BY <1>2, <2>1, <2>2, MergedAnnotations
    <2>4. Submit(g, u, s.mod)
      BY <1>3, <2>1, <2>3 DEF Send, CalmInv, GroupsLive
    <2>5. \A v \in User : ~ Busy(v)'
      <3>1. cli' = [cli EXCEPT ![u] = NoSession]
        BY <1>3 DEF Send
      <3> QED
        BY <2>1, <3>1 DEF ClientsTypeOK, Busy, PatientInv, SessionsInv
    <2> HIDE DEF g, s
    <2>6. UNCHANGED sg \/ \E new \in Annotations : Given(g, u, s.mod, new)
      BY <2>1, <2>2, <2>4, SubmitGives
    <2> QED
      BY <2>1, <2>5, <2>6 DEF Arrives
  <1>4. ASSUME NEW u \in User, NEW g \in Group, MayCommand(u, g)
        PROVE  /\ sg[g].obj.ann = NoAnnotations /\ CommandOf(g) = "none"
               /\ \A v \in User : ~ Busy(v)
    BY <1>1, <1>4 DEF MayCommand, PatientUsers, Busy, CommandOf
  <1>5. ASSUME NEW u \in User, NEW g \in Group, NEW cmd \in {"down", "up"}, Annotate(u, g, cmd)
        PROVE  Arrives(u)
    <2> DEFINE ann == [NoAnnotations EXCEPT !.cmd = cmd]
    <2>1. ann \in Annotations /\ ann.cmd # "none" /\ ~ ann.partial
      BY <1>2 DEF Annotations, NoAnnotations, Command
    <2>2. sg[g].obj.ann = NoAnnotations /\ Submit(g, u, ann) /\ \A v \in User : ~ Busy(v)'
      BY <1>4, <1>5 DEF Annotate, Busy
    <2> HIDE DEF ann
    <2>3. UNCHANGED sg \/ \E new \in Annotations : Given(g, u, ann, new)
      BY <2>1, <2>2, SubmitGives
    <2> QED
      BY <2>1, <2>2, <2>3 DEF Arrives
  <1>6. ASSUME NEW u \in User, NEW g \in Group, MayCommand(u, g),
               NEW mod, Prepare(u, g, mod), mod.cmd # "none", mod.cmd = "up" => ~ mod.partial
        PROVE  Decides(u)
    <2>1. /\ sg[g].obj.ann = NoAnnotations /\ CommandOf(g) = "none"
          /\ \A v \in User : ~ Busy(v)
      BY <1>4, <1>6
    <2>2. /\ cli' = [cli EXCEPT ![u] = [g |-> g, base |-> NoAnnotations, mod |-> mod]]
          /\ UNCHANGED sg
      BY <1>6, <2>1 DEF Prepare, clusterVars
    <2>3. /\ cli'[u] = [g |-> g, base |-> NoAnnotations, mod |-> mod]
          /\ \A v \in User : v # u => cli'[v] = cli[v]
      BY <2>2 DEF ClientsTypeOK
    <2> QED
      BY <1>6, <2>1, <2>2, <2>3 DEF Decides, Busy
  <1>7. ASSUME NEW u \in User, NEW g \in Group, Up(u, g)
        PROVE  Decides(u)
    <2> DEFINE mod == [sg[g].obj.ann EXCEPT !.cmd = "up", !.operator = u]
    <2>1. MayCommand(u, g) /\ Prepare(u, g, mod)
      BY <1>7 DEF Up
    <2>2. mod.cmd = "up" /\ ~ mod.partial
      BY <1>2, <1>4, <2>1 DEF Annotations
    <2> HIDE DEF mod
    <2> QED
      BY <1>6, <2>1, <2>2
  <1>8. ASSUME NEW u \in User, NEW g \in Group, NEW reason \in Reason, NEW partial \in BOOLEAN,
               Down(u, g, reason, partial)
        PROVE  Decides(u)
    <2> DEFINE ann == sg[g].obj.ann
               flag == ann.partial \/ (partial /\ Forbidden(u, ListedTargets(g)) # {})
    <2>1. ann \in Annotations /\ flag \in BOOLEAN
      BY FeedParts, ObjectParts
    <2>2. /\ MayCommand(u, g)
          /\ Prepare(u, g, [ann EXCEPT !.cmd = "down", !.reason = reason, !.operator = u,
                                       !.partial = flag])
      BY <1>8, <2>1 DEF Down, Annotations
    <2> HIDE DEF flag
    <2>3. [ann EXCEPT !.cmd = "down", !.reason = reason, !.operator = u, !.partial = flag].cmd
              = "down"
      BY <2>1 DEF Annotations
    <2> QED
      BY <1>6, <2>2, <2>3
  <1>9. ASSUME NEW u \in User, NEW g \in Group, Export(u, g) \/ Apply(u, g)
        PROVE  FALSE
    BY <1>9 DEF Export, Apply, PatientUsers
  <1> QED
    BY <1>3, <1>5, <1>7, <1>8, <1>9 DEF ClientsNext

----------------------------------------------------------------------------
(***************************************************************************)
(* One command at a time: the invariant of annotations and sessions.       *)
(***************************************************************************)

LEMMA PatientUndisturbed ==
    ASSUME PatientInv, UNCHANGED <<sg, job, cli>>
    PROVE  PatientInv'
  BY DEF PatientInv, SessionsInv, NoLeftovers, NothingToLeave, CopyOfCommand, Busy, CommandOf

LEMMA PatientOperator ==
    ASSUME Calm, TypeOK, CalmInv, PatientInv, OperatorNext, UNCHANGED clientsVars
    PROVE  PatientInv'
  <1>0. job # Idle => job \in Job /\ job.g \in Group /\ job.cmd \in {"down", "up"}
    BY BusyWorker, JobParts DEF TypeOK
  <1>1. \A g \in Group : sg'[g].obj.ann \in {sg[g].obj.ann, NoAnnotations}
    BY WorkerConsumes
  <1>2. cli' = cli /\ \A u \in User : Busy(u) => cli[u].g \in Group
    BY DEF clientsVars, Busy, TypeOK, ClientsTypeOK, Session
  <1>3. NoAnnotations.cmd = "none" /\ NoAnnotations.partial = FALSE
    BY DEF NoAnnotations
  <1>4. SessionsInv'
    BY <1>1, <1>2, <1>3 DEF PatientInv, SessionsInv, Busy, CommandOf
  <1>5. NoLeftovers' /\ NothingToLeave'
    BY <1>1, <1>3 DEF PatientInv, NoLeftovers, NothingToLeave, CommandOf
  <1>6. CopyOfCommand'
    <2>1. WorkerDoes
      BY WorkerActs
    <2>2. CASE UNCHANGED <<sg, wl, job, faults>>
      BY <2>2 DEF PatientInv, CopyOfCommand, CommandOf
    <2>3. ASSUME NEW g \in Group, Starts(g)
          PROVE  CopyOfCommand'
      BY <2>3 DEF Starts, CopyOfCommand, CommandOf
    <2>4. CASE Proceeds
      <3>1. job # Idle
        BY <2>4, IdleWorker DEF Proceeds
      <3> QED
        BY <2>4, <3>1 DEF Proceeds, SameJob, PatientInv, CopyOfCommand, CommandOf
    <2>5. ASSUME NEW pc, NEW st \in Status, job # Idle, Writes(pc, st)
          PROVE  CopyOfCommand'
      <3>1. PICK g \in Group : g = job.g
        BY <1>0, <2>5
      <3>2. sg[g].obj.ann \in Annotations /\ NoAnnotations \in Annotations
        BY FeedParts, ObjectParts, FreshTypes DEF TypeOK, Fresh
      <3>3. /\ job'.g = g /\ job'.cmd = job.cmd /\ sg'[g].obj.ann = sg[g].obj.ann
            /\ job'.local.ann = MergeAnnotations(job.local.ann, NoAnnotations, sg[g].obj.ann)
        BY <2>5, <3>1 DEF Writes, SameJob, Rewritten
      <3>4. job.local.ann = sg[g].obj.ann /\ job.cmd = CommandOf(g)
        BY <2>5, <3>1 DEF PatientInv, CopyOfCommand
      <3>5. job'.local.ann = sg[g].obj.ann
        BY <3>2, <3>3, <3>4, MergedAnnotations
      <3> QED
        BY <3>3, <3>4, <3>5 DEF CopyOfCommand, CommandOf
    <2>6. CASE Collected \/ MarkedDown \/ MarkedUp \/ Appended
      <3>1. job # Idle
        BY <2>6, IdleWorker DEF Collected, MarkedDown, MarkedUp, Appended
      <3> QED
        BY <2>5, <2>6, <3>1 DEF Collected, MarkedDown, MarkedUp, Appended
    <2>7. CASE Finishes \/ CutOff
      BY <2>7 DEF Finishes, CutOff, CopyOfCommand
    <2> QED
      BY <2>1, <2>2, <2>3, <2>4, <2>6, <2>7 DEF WorkerDoes
  <1> QED
    BY <1>4, <1>5, <1>6 DEF PatientInv

LEMMA PatientClients ==
    ASSUME Calm, PatientUsers, TypeOK, CalmInv, PatientInv, ClientsNext, UNCHANGED operatorVars
    PROVE  PatientInv'
  <1>0. job' = job /\ (job # Idle => job.g \in Group /\ job.cmd \in {"down", "up"})
    BY BusyWorker, JobParts DEF TypeOK, operatorVars
  <1>1. PICK u \in User : Decides(u) \/ Arrives(u)
    BY PatientClientsAct
  <1>2. CASE UNCHANGED sg
    <2>1. NoLeftovers' /\ NothingToLeave' /\ CopyOfCommand'
      BY <1>0, <1>2
         DEF PatientInv, NoLeftovers, NothingToLeave, CopyOfCommand, CommandOf
    <2>2. SessionsInv'
      <3>1. CASE Decides(u)
        BY <1>2, <3>1 DEF Decides, SessionsInv, Busy, CommandOf
      <3>2. CASE Arrives(u)
        BY <3>2 DEF Arrives, SessionsInv
      <3> QED
        BY <1>1, <3>1, <3>2
    <2> QED
      BY <2>1, <2>2 DEF PatientInv
  <1>3. ASSUME Arrives(u), NEW g \in Group, NEW ann \in Annotations, NEW new \in Annotations,
               Given(g, u, ann, new)
        PROVE  PatientInv'
    <2>1. sg'[g].obj.ann = new /\ \A h \in Group : h # g => sg'[h] = sg[h]
      BY <1>3 DEF Given, Admitted, Rewritten
    <2>2. SessionsInv'
      BY <1>3 DEF Arrives, SessionsInv
    <2>3. NoLeftovers' /\ NothingToLeave'
      BY <1>3, <2>1 DEF Given, PatientInv, NoLeftovers, NothingToLeave, CommandOf
    <2>4. job # Idle => job.g # g
      BY <1>0, <1>3 DEF Given, PatientInv, CopyOfCommand, CommandOf, NoAnnotations
    <2>5. CopyOfCommand'
      BY <1>0, <2>1, <2>4 DEF PatientInv, CopyOfCommand, CommandOf
    <2> QED
      BY <2>2, <2>3, <2>5 DEF PatientInv
  <1> QED
    BY <1>1, <1>2, <1>3 DEF Decides, Arrives

LEMMA PatientStep ==
    ASSUME Calm, PatientUsers, TypeOK, CalmInv, PatientInv, [Next]_vars
    PROVE  PatientInv'
  <1>1. CASE ClusterNext /\ UNCHANGED <<operatorVars, clientsVars>>
    BY <1>1, SurroundingsAct, PatientUndisturbed DEF operatorVars, clientsVars
  <1>2. CASE OperatorNext /\ UNCHANGED clientsVars
    BY <1>2, PatientOperator
  <1>3. CASE ClientsNext /\ UNCHANGED operatorVars
    BY <1>3, PatientClients
  <1>4. CASE UNCHANGED vars
    BY <1>4, PatientUndisturbed DEF vars, clusterVars, operatorVars, clientsVars
  <1> QED
    BY <1>1, <1>2, <1>3, <1>4 DEF Next

LEMMA PatientInit == Init => PatientInv
  <1> SUFFICES ASSUME Init PROVE PatientInv
    OBVIOUS
  <1>1. job = Idle /\ \A u \in User : ~ Busy(u)
    BY DEF Init, OperatorInit, ClientsInit, Busy
  <1>2. ASSUME NEW g \in Group
        PROVE  sg[g].obj.ann = NoAnnotations
    <2>1. sg[g] = Synced(Fresh)
      BY DEF Init, ClusterInit
    <2>2. sg[g].obj = Fresh
      BY <2>1, SyncedParts
    <2>3. Fresh.ann = NoAnnotations
      BY DEF Fresh
    <2> QED
      BY <2>2, <2>3, Zenon
  <1>3. NoAnnotations.cmd = "none"
    BY DEF NoAnnotations
  <1> QED
    BY <1>1, <1>2, <1>3
       DEF PatientInv, SessionsInv, NoLeftovers, NothingToLeave, CopyOfCommand, CommandOf

----------------------------------------------------------------------------
(***************************************************************************)
(* What the state of a group says.                                         *)
(***************************************************************************)

\* The level of a workload that only kshutdown changes moves only when the worker
\* has come to its entry.
LEMMA OnlyEntriesMove ==
    ASSUME Conditions, TypeOK, RevInv, OperatorNext, NEW w \in Steady, wl'[w].obj # wl[w].obj
    PROVE  /\ job \in Job /\ job # Idle /\ job.pc \in {"scale", "restore"} /\ job.g \in Group
           /\ w \in Recorded(Snapshot(job.g)) /\ w \in Selected(job.g)
           /\ UNCHANGED sg
  <1> USE DEF TypeOK
  <1>1. ASSUME ScaleEntry \/ RestoreEntry
        PROVE  /\ job \in Job /\ job # Idle /\ job.pc \in {"scale", "restore"} /\ job.g \in Group
               /\ w \in Recorded(Snapshot(job.g)) /\ w \in Selected(job.g)
               /\ UNCHANGED sg
    <2> DEFINE e == Entries[job.i]
    <2>1. /\ job \in Job /\ job # Idle /\ job.pc \in {"scale", "restore"}
          /\ job.i <= Len(Entries)
      BY <1>1, BusyWorker, IdleWorker DEF ScaleEntry, RestoreEntry
    <2>2. /\ e \in HomeEntry(job.g) /\ e.w \in Workload /\ e.prev \in Replicas
          /\ Stopped(e.w) \in Replicas
          /\ e.w \in Steady => RecordedAt(Snapshot(job.g), e.w, Home[e.w])
      BY <2>1, CurrentEntry, LevelTypes
    <2>3. w = e.w /\ UNCHANGED sg
      <3> HIDE DEF e
      <3>1. ASSUME NEW level \in Replicas, Drive(e.w, level)
            PROVE  w = e.w /\ UNCHANGED sg
        BY <2>1, <2>2, <3>1, DriveFresh DEF Steady
      <3>2. \/ UNCHANGED wl
            \/ Drive(e.w, Stopped(e.w)) \/ Drive(e.w, e.prev)
        BY <1>1 DEF ScaleEntry, RestoreEntry, clusterVars, e
      <3> QED
        BY <2>2, <3>1, <3>2
    <2>4. w \in Recorded(Snapshot(job.g))
      BY <2>2, <2>3 DEF RecordedAt, Recorded
    <2>5. w \in Selected(job.g)
      BY <2>2, <2>3 DEF HomeEntry
    <2> QED
      BY <2>1, <2>3, <2>4, <2>5, JobParts
  <1>2. ScaleEntry \/ RestoreEntry
    <2>1. ~ (GroupNotFound \/ WorkloadNotFound \/ ApiError \/ Crash)
      BY RevEnd
    <2> QED
      BY <2>1
         DEF OperatorNext, WorkerStep, Reconcile, CollectTargets, CaptureSnapshot, MarkDown, MarkUp,
             AppendHistory, PatchStatus, ConsumeAnnotations, ReconcileNothing, ReconcileDown,
             ReconcileUp, ReconcileUpFails, Start, clusterVars
  <1> QED
    BY <1>1, <1>2

\* What a group has on record it selects.
LEMMA RecordedSelected ==
    ASSUME RevInv, NEW g \in Group
    PROVE  Recorded(Snapshot(g)) \subseteq Selected(g)
  <1> SUFFICES ASSUME NEW i \in DOMAIN Snapshot(g)
               PROVE  Snapshot(g)[i].w \in Selected(g)
    BY DEF Recorded
  <1>1. Snapshot(g)[i] \in HomeEntry(g)
    BY ElementOfSeq, LenProperties DEF RevInv, SnapshotsHome
  <1> QED
    BY <1>1 DEF HomeEntry

TruthOf(g) ==
    /\ State(g) = "down" /\ CommandOf(g) # "up" => AllStopped(Recorded(Snapshot(g)))
    /\ State(g) # "down" /\ CommandOf(g) # "down" => Snapshot(g) = <<>>

\* No level of g moves, its status stays, and a command it is given is not taken back.
LEMMA TruthKept ==
    ASSUME NEW g \in Group, TruthOf(g), sg'[g].obj.status = sg[g].obj.status,
           CommandOf(g)' = CommandOf(g) \/ CommandOf(g) = "none",
           \A w \in Steady \cap Recorded(Snapshot(g)) : wl'[w].obj = wl[w].obj
    PROVE  TruthOf(g)'
  BY DEF TruthOf, State, Snapshot, CommandOf, AllStopped

LEMMA TruthOperator ==
    ASSUME Conditions, TypeOK, RevInv, LifeInv, CalmInv, PatientInv, OperatorNext,
           NEW g \in Group, TruthOf(g)
    PROVE  TruthOf(g)'
  <1>0. job # Idle => job \in Job /\ job.g \in Group /\ job.cmd = CommandOf(job.g)
    BY BusyWorker, JobParts DEF TypeOK, PatientInv, CopyOfCommand
  <1>1. WorkerDoes
    BY WorkerActs DEF Conditions
  <1>2. ASSUME sg'[g] = sg[g], UNCHANGED wl
        PROVE  TruthOf(g)'
    BY <1>2, TruthKept DEF CommandOf
  <1>3. CASE Proceeds
    <2>1. job # Idle /\ UNCHANGED sg
      BY <1>3, IdleWorker DEF Proceeds
    <2>2. CASE g = job.g /\ job.pc \in {"scale", "restore"}
      <3>1. \/ CommandOf(g) = "down" /\ State(g) # "down"
            \/ CommandOf(g) = "up" /\ State(g) # "up"
        BY <1>0, <2>1, <2>2 DEF CalmInv, CopyInv
      <3>2. /\ CommandOf(g)' = CommandOf(g) /\ State(g)' = State(g)
            /\ Snapshot(g)' = Snapshot(g)
        BY <2>1 DEF CommandOf, State, Snapshot
      <3> QED
        BY <3>1, <3>2 DEF TruthOf
    <2>3. CASE ~ (g = job.g /\ job.pc \in {"scale", "restore"})
      <3>1. \A w \in Steady \cap Recorded(Snapshot(g)) : wl'[w].obj = wl[w].obj
        BY <2>3, OnlyEntriesMove, RecordedSelected DEF Conditions, Exclusive
      <3> QED
        BY <2>1, <3>1, TruthKept DEF CommandOf
    <2> QED
      BY <2>2, <2>3
  <1>4. ASSUME NEW pc, NEW st \in Status, job # Idle, Writes(pc, st)
        PROVE  /\ g # job.g => TruthOf(g)'
               /\ g = job.g => /\ State(g)' = st.state /\ Snapshot(g)' = st.snapshot
                               /\ CommandOf(g)' = job.cmd /\ CommandOf(g) = job.cmd
                               /\ State(g) = Held.state /\ Snapshot(g) = Held.snapshot
               /\ UNCHANGED wl
    BY <1>0, <1>2, <1>4
       DEF Writes, Rewritten, State, Snapshot, CommandOf, Held
  <1>5. CASE Collected
    <2>1. PICK st \in Status : /\ job.pc = "collect" /\ Writes("scale", st)
                               /\ st.state = Held.state
      BY <1>5 DEF Collected
    <2>2. job # Idle /\ job.cmd = "down" /\ State(job.g) # "down"
      BY <2>1, IdleWorker DEF CalmInv, CopyInv
    <2> QED
      BY <1>4, <2>1, <2>2 DEF TruthOf
  <1>6. CASE MarkedDown
    <2>1. PICK st \in Status :
              /\ job.pc = "scale" /\ job.i > Len(Entries) /\ Writes("history", st)
              /\ st.state = "down" /\ st.snapshot = Held.snapshot
      BY <1>6 DEF MarkedDown
    <2>2. job # Idle
      BY <2>1, IdleWorker
    <2>3. CASE g = job.g
      <3>1. /\ State(g)' = "down" /\ Snapshot(g)' = Snapshot(g) /\ UNCHANGED wl
        BY <1>4, <2>1, <2>2, <2>3
      <3>2. AllStopped(Recorded(Snapshot(g)))
        <4>1. /\ StoppedUpTo(job.i) /\ Entries = Snapshot(g)
              /\ Entries \in Seq(ResourceSnapshot) /\ Len(Entries) \in Nat /\ job.i \in Nat
          BY <1>0, <2>1, <2>2, <2>3, JobParts, LenProperties DEF LifeInv, RevInv, JobInv
        <4>2. ASSUME NEW k \in DOMAIN Entries, Entries[k].w \in Steady
              PROVE  wl[Entries[k].w].obj = Stopped(Entries[k].w)
          <5>1. k \in 1 .. Len(Entries) /\ k < job.i
            BY <2>1, <4>1, LenProperties
          <5> QED
            BY <4>1, <4>2, <5>1 DEF StoppedUpTo
        <4> QED
          BY <4>1, <4>2 DEF AllStopped, Recorded
      <3>3. AllStopped(Recorded(Snapshot(g)))'
        BY <3>1, <3>2 DEF AllStopped
      <3> QED
        BY <3>1, <3>3 DEF TruthOf
    <2> QED
      BY <1>4, <2>1, <2>2, <2>3
  <1>7. CASE MarkedUp
    <2>1. PICK st \in Status : /\ job.pc = "restore" /\ Writes("history", st)
                               /\ st.state = "up" /\ st.snapshot = <<>>
      BY <1>7 DEF MarkedUp
    <2>2. job # Idle
      BY <2>1, IdleWorker
    <2> QED
      BY <1>4, <2>1, <2>2 DEF TruthOf
  <1>8. CASE Appended
    <2>1. PICK st \in Status : /\ job.pc = "history" /\ Writes("consume", st)
                               /\ st.state = Held.state /\ st.snapshot = Held.snapshot
      BY <1>8 DEF Appended
    <2>2. job # Idle
      BY <2>1, IdleWorker
    <2> QED
      BY <1>4, <2>1, <2>2 DEF TruthOf, AllStopped
  <1>9. CASE Finishes
    <2>1. job # Idle /\ State(job.g) = job.cmd /\ UNCHANGED wl
      BY <1>9, IdleWorker DEF Finishes, CalmInv, CopyInv
    <2>2. CASE g = job.g
      <3>1. /\ State(g)' = State(g) /\ Snapshot(g)' = Snapshot(g) /\ State(g) = CommandOf(g)
        BY <1>0, <1>9, <2>1, <2>2 DEF Finishes, Rewritten, State, Snapshot, Held
      <3> QED
        BY <2>1, <3>1 DEF TruthOf, AllStopped
    <2> QED
      BY <1>2, <1>9, <2>1, <2>2 DEF Finishes, Rewritten
  <1>10. CASE UNCHANGED <<sg, wl>>
    BY <1>2, <1>10
  <1> QED
    BY <1>1, <1>3, <1>5, <1>6, <1>7, <1>8, <1>9, <1>10 DEF WorkerDoes, Starts, CutOff

LEMMA TruthStep ==
    ASSUME Conditions, PatientUsers, TypeOK, RevInv, LifeInv, CalmInv, PatientInv, TruthInv,
           [Next]_vars
    PROVE  TruthInv'
  <1> SUFFICES ASSUME NEW g \in Group PROVE TruthOf(g)'
    BY DEF TruthInv, TruthOf
  <1>0. TruthOf(g)
    BY DEF TruthInv, TruthOf
  <1>1. CASE ClusterNext /\ UNCHANGED <<operatorVars, clientsVars>>
    <2>1. UNCHANGED sg /\ \A w \in Steady : wl'[w] = wl[w]
      BY <1>1, SurroundingsAct DEF Conditions
    <2> QED
      BY <1>0, <2>1, TruthKept DEF CommandOf
  <1>2. CASE OperatorNext /\ UNCHANGED clientsVars
    BY <1>0, <1>2, TruthOperator
  <1>3. CASE ClientsNext /\ UNCHANGED operatorVars
    <2>1. PICK u \in User : Decides(u) \/ Arrives(u)
      BY <1>3, PatientClientsAct DEF Conditions
    <2>2. UNCHANGED wl
      BY <1>3, ClientsAct DEF Conditions
    <2>3. CASE UNCHANGED sg
      BY <1>0, <2>2, <2>3, TruthKept DEF CommandOf
    <2>4. ASSUME NEW h \in Group, NEW ann \in Annotations, NEW new \in Annotations,
                 Given(h, u, ann, new)
          PROVE  TruthOf(g)'
      <3>1. /\ sg'[g].obj.status = sg[g].obj.status
            /\ CommandOf(g)' = CommandOf(g) \/ CommandOf(g) = "none"
        BY <2>4 DEF Given, Admitted, Rewritten, CommandOf, NoAnnotations
      <3> QED
        BY <1>0, <2>2, <3>1, TruthKept
    <2> QED
      BY <2>1, <2>3, <2>4 DEF Decides, Arrives
  <1>4. CASE UNCHANGED vars
    BY <1>0, <1>4, TruthKept DEF vars, clusterVars, CommandOf
  <1> QED
    BY <1>1, <1>2, <1>3, <1>4 DEF Next

LEMMA TruthInit == Init => TruthInv
  <1> SUFFICES ASSUME Init, NEW g \in Group PROVE State(g) = "" /\ Snapshot(g) = <<>>
    BY DEF TruthInv
  <1>1. sg[g] = Synced(Fresh)
    BY DEF Init, ClusterInit
  <1>2. sg[g].obj = Fresh
    BY <1>1, SyncedParts
  <1>3. Fresh.status.state = "" /\ Fresh.status.snapshot = <<>>
    BY DEF Fresh, NoStatus
  <1> QED
    BY <1>2, <1>3, Zenon DEF State, Snapshot

----------------------------------------------------------------------------
(***************************************************************************)
(* The theorems.                                                           *)
(***************************************************************************)

AllInv == TypeOK /\ NeverInvents /\ RevInv /\ LifeInv /\ CalmInv /\ PatientInv /\ TruthInv

LEMMA AllStep ==
    ASSUME Conditions, PatientUsers, AllInv, [Next]_vars
    PROVE  RevInv' /\ LifeInv' /\ CalmInv' /\ PatientInv' /\ TruthInv'
  BY RevStep, LifeStep, CalmStep, PatientStep, TruthStep DEF AllInv, Conditions

THEOREM PatientAlways ==
    ASSUME Conditions, PatientUsers
    PROVE  Spec => []AllInv
  <1>1. Init => RevInv /\ LifeInv /\ CalmInv /\ PatientInv /\ TruthInv
    BY RevInit, LifeInit, CalmInit, PatientInit, TruthInit
  <1>2. AllInv /\ [Next]_vars => RevInv' /\ LifeInv' /\ CalmInv' /\ PatientInv' /\ TruthInv'
    BY AllStep
  <1>3. AllInv <=> /\ TypeOK /\ NeverInvents /\ RevInv /\ LifeInv /\ CalmInv /\ PatientInv
                   /\ TruthInv
    BY DEF AllInv
  <1> QED
    BY <1>1, <1>2, <1>3, TypeCorrect, LevelsNeverInvented, PTL DEF Spec

\* A command takes its parameters with it: whatever fails while it is carried out, a
\* group without a command has no annotation left of an earlier one.
THEOREM NothingLeftOver ==
    ASSUME Conditions, PatientUsers
    PROVE  Spec => []NoLeftovers
  <1>1. AllInv => NoLeftovers
    BY DEF AllInv, PatientInv
  <1> QED
    BY <1>1, PatientAlways, PTL

\* What the status says of a group without a command is so.
TruthAtRest ==
    \A g \in Group : CommandOf(g) = "none" =>
        IF State(g) = "down"
        THEN AllStopped(Recorded(Snapshot(g)))
        ELSE Snapshot(g) = <<>> /\ AllHome(Selected(g))

\* A workload that is not at home is on record in the one group that selects it.
LEMMA HomeWithoutSnapshot ==
    ASSUME Conditions, RevInv, NEW g \in Group, Snapshot(g) = <<>>
    PROVE  AllHome(Selected(g))
  <1> SUFFICES ASSUME NEW w \in Steady, w \in Selected(g), wl[w].obj # Home[w]
               PROVE  FALSE
    BY DEF AllHome
  <1>1. PICK h \in Group : RecordedAt(Snapshot(h), w, Home[w])
    BY DEF RevInv, Reversible
  <1>2. w \in Recorded(Snapshot(h))
    BY <1>1 DEF RecordedAt, Recorded
  <1>3. h = g
    BY <1>2, RecordedSelected DEF Conditions, Exclusive
  <1> QED
    BY <1>2, <1>3 DEF Recorded

LEMMA AllTruth ==
    ASSUME Conditions, AllInv
    PROVE  TruthAtRest
  BY HomeWithoutSnapshot DEF AllInv, TruthInv, TruthAtRest

\* A quiet group that says it is down has everything on record stopped, and one that
\* does not has no snapshot and all its targets at home.
THEOREM StatusIsTrue ==
    ASSUME Conditions, PatientUsers
    PROVE  Spec => []StateIsTrue
  <1>1. AllInv => StateIsTrue
    BY AllTruth DEF StateIsTrue, TruthAtRest, Quiet
  <1> QED
    BY <1>1, PatientAlways, PTL

Obeys ==
    \A g \in Group :
        (CommandOf(g) # "none" /\ sg[g].obj.phase = "live" /\ CommandOf(g)' = "none") =>
            /\ State(g)' = CommandOf(g)
            /\ (CommandOf(g) = "down" => AllStopped(Recorded(Snapshot(g)))')
            /\ (CommandOf(g) = "up" => AllHome(Selected(g))')

LEMMA CommandsObeyed ==
    ASSUME Conditions, PatientUsers, AllInv, TruthAtRest', Next
    PROVE  Obeys
  <1> SUFFICES ASSUME NEW g \in Group, CommandOf(g) # "none", CommandOf(g)' = "none"
               PROVE  State(g)' = CommandOf(g)
    BY DEF Obeys, TruthAtRest
  <1>1. CASE ClusterNext /\ UNCHANGED <<operatorVars, clientsVars>>
    BY <1>1, SurroundingsAct DEF AllInv, Conditions, CommandOf
  <1>2. CASE OperatorNext
    <2>1. /\ Finishes /\ job # Idle /\ g = job.g
          /\ sg'[g].obj = [phase |-> "live", ann |-> NoAnnotations, status |-> Held]
      BY <1>2, WorkerConsumes DEF AllInv, Conditions, CommandOf
    <2>2. State(g)' = State(g) /\ State(g) = job.cmd /\ job.cmd = CommandOf(g)
      BY <2>1
         DEF AllInv, CalmInv, CopyInv, PatientInv, CopyOfCommand, Finishes, State, Held
    <2> QED
      BY <2>2
  <1>3. CASE ClientsNext
    <2>1. PICK u \in User : Decides(u) \/ Arrives(u)
      BY <1>3, PatientClientsAct DEF AllInv, Conditions
    <2>2. CASE UNCHANGED sg
      BY <2>2 DEF CommandOf
    <2>3. ASSUME NEW h \in Group, NEW ann \in Annotations, NEW new \in Annotations,
                 Given(h, u, ann, new)
          PROVE  FALSE
      BY <2>3 DEF Given, Admitted, Rewritten, CommandOf, NoAnnotations
    <2> QED
      BY <2>1, <2>2, <2>3 DEF Decides, Arrives
  <1> QED
    BY <1>1, <1>2, <1>3 DEF Next

\* A command leaves its annotation only when it has been carried out.
THEOREM CommandsAreObeyed ==
    ASSUME Conditions, PatientUsers
    PROVE  Spec => CommandObeyed
  <1>1. AllInv /\ TruthAtRest' /\ [Next]_vars => [Obeys]_vars
    BY CommandsObeyed
  <1>2. AllInv => TruthAtRest
    BY AllTruth
  <1>3. CommandObeyed <=> [][Obeys]_vars
    BY DEF CommandObeyed, Obeys
  <1> QED
    BY <1>1, <1>2, <1>3, PatientAlways, PTL DEF Spec
=============================================================================
