-------------------------- MODULE TwoOperatorProofs --------------------------
(***************************************************************************)
(* Two operator processes invent no levels either.  What SystemProofs says *)
(* of the one worker is taken for the other by instantiation.              *)
(***************************************************************************)
EXTENDS TwoOperators, SystemProofs

Other == INSTANCE SystemProofs WITH job <- job2, queue <- queue2

----------------------------------------------------------------------------
(***************************************************************************)
(* TwoOperators and this module instantiate the operator separately; the   *)
(* two instances are the same.                                             *)
(***************************************************************************)
\* Constants and merge patches.
LEMMA SameData ==
    /\ Second!Absent = Other!Absent /\ Second!Idle = Other!Idle
    /\ Second!NoAnnotations = Other!NoAnnotations /\ Second!NoStatus = Other!NoStatus
    /\ \A w : Second!Stopped(w) = Other!Stopped(w)
    /\ \A x, y, z : Second!MergeAnnotations(x, y, z) = Other!MergeAnnotations(x, y, z)
    /\ \A x, y, z : Second!MergeStatus(x, y, z) = Other!MergeStatus(x, y, z)
    /\ \A x, y : Second!Answered(x, y) = Other!Answered(x, y)
    /\ \A f : Second!Relisted(f) = Other!Relisted(f)
  BY DEF Second!Absent, Other!Absent, Second!Idle, Other!Idle,
         Second!NoAnnotations, Other!NoAnnotations, Second!NoStatus, Other!NoStatus,
         Second!Stopped, Other!Stopped, Second!Merged, Other!Merged,
         Second!MergeAnnotations, Other!MergeAnnotations,
         Second!MergeStatus, Other!MergeStatus, Second!Answered, Other!Answered,
         Second!Synced, Other!Synced, Second!Relisted, Other!Relisted

LEMMA SameWrites ==
    /\ \A g, o : Second!Commit(g, o) = Other!Commit(g, o)
    /\ \A w, level : Second!Scale(w, level) = Other!Scale(w, level)
  BY DEF Second!Commit, Other!Commit, Second!Feeds, Other!Feeds,
         Second!Publish, Other!Publish, Second!Scale, Other!Scale

LEMMA SamePatch ==
    \A status, pc : Second!PatchStatus(status, pc) = Other!PatchStatus(status, pc)
  BY SameData, SameWrites DEF Second!PatchStatus, Other!PatchStatus

LEMMA SameEntries ==
    /\ Second!Entries = Other!Entries /\ Second!NextEntry = Other!NextEntry
    /\ \A w, level : Second!Drive(w, level) = Other!Drive(w, level)
    /\ \A e : Second!StaysSuspended(e) = Other!StaysSuspended(e)
    /\ Second!EntryMissing = Other!EntryMissing
  <1>1. /\ Second!Entries = Other!Entries /\ Second!NextEntry = Other!NextEntry
        /\ \A e : Second!StaysSuspended(e) = Other!StaysSuspended(e)
    BY DEF Second!Entries, Other!Entries, Second!NextEntry, Other!NextEntry,
           Second!StaysSuspended, Other!StaysSuspended
  <1>2. \A w, level : Second!Drive(w, level) = Other!Drive(w, level)
    BY <1>1, SameData, SameWrites DEF Second!Drive, Other!Drive
  <1>3. Second!EntryMissing = Other!EntryMissing
    BY <1>1, SameData DEF Second!EntryMissing, Other!EntryMissing
  <1> QED
    BY <1>1, <1>2, <1>3

LEMMA SameStarts ==
    ASSUME NEW g
    PROVE  Second!Reconcile(g) = Other!Reconcile(g)
  <1> USE DEF Second!Takes, Other!Takes, Second!Pending, Other!Pending,
              Second!Start, Other!Start, Second!Idle, Other!Idle
  <1>1. Second!ReconcileNothing(g) = Other!ReconcileNothing(g)
    BY DEF Second!ReconcileNothing, Other!ReconcileNothing
  <1>2. Second!ReconcileDown(g) = Other!ReconcileDown(g)
    BY DEF Second!ReconcileDown, Other!ReconcileDown, Second!DownStart, Other!DownStart
  <1>3. Second!ReconcileUp(g) = Other!ReconcileUp(g)
    BY DEF Second!ReconcileUp, Other!ReconcileUp, Second!UpStart, Other!UpStart,
           Second!CannotRestore, Other!CannotRestore
  <1>4. Second!ReconcileUpFails(g) = Other!ReconcileUpFails(g)
    BY DEF Second!ReconcileUpFails, Other!ReconcileUpFails,
           Second!CannotRestore, Other!CannotRestore,
           Second!clusterVars, Other!clusterVars, Second!operatorVars, Other!operatorVars
  <1> QED
    BY <1>1, <1>2, <1>3, <1>4 DEF Second!Reconcile, Other!Reconcile

LEMMA SameCollect ==
    /\ \A g : Second!ListCalls(g) = Other!ListCalls(g)
    /\ Second!CollectTargets = Other!CollectTargets
  BY DEF Second!CollectTargets, Other!CollectTargets, Second!ListCalls, Other!ListCalls,
         Second!ListCall, Other!ListCall, Second!ListOrder, Other!ListOrder,
         Second!Absent, Other!Absent, Second!Captures, Other!Captures,
         Second!CheckFor, Other!CheckFor, Second!Captured, Other!Captured,
         Second!SetToSeqs, Other!SetToSeqs, Second!Cardinality, Other!Cardinality,
         Second!clusterVars, Other!clusterVars

LEMMA SameSteps == Second!OperatorNext <=> Other!OperatorNext
  <1> USE SameData, SameWrites, SamePatch, SameEntries, SameCollect
  <1>1. Second!CaptureSnapshot = Other!CaptureSnapshot
    BY DEF Second!CaptureSnapshot, Other!CaptureSnapshot
  <1>2. Second!ScaleEntry = Other!ScaleEntry
    BY DEF Second!ScaleEntry, Other!ScaleEntry
  <1>3. Second!RestoreEntry = Other!RestoreEntry
    BY DEF Second!RestoreEntry, Other!RestoreEntry, Second!clusterVars, Other!clusterVars
  <1>4. Second!MarkDown = Other!MarkDown /\ Second!MarkUp = Other!MarkUp
    BY DEF Second!MarkDown, Other!MarkDown, Second!MarkUp, Other!MarkUp
  <1>5. Second!AppendHistory = Other!AppendHistory
    BY DEF Second!AppendHistory, Other!AppendHistory, Second!Extended, Other!Extended,
           Second!Capped, Other!Capped, Second!JobEntry, Other!JobEntry
  <1>6. Second!ConsumeAnnotations = Other!ConsumeAnnotations
    BY DEF Second!ConsumeAnnotations, Other!ConsumeAnnotations,
           Second!Without, Other!Without
  <1>7. Second!Fail = Other!Fail
    BY DEF Second!Fail, Other!Fail
  <1>8. Second!GroupNotFound = Other!GroupNotFound
    BY <1>7 DEF Second!GroupNotFound, Other!GroupNotFound
  <1>9. Second!WorkloadNotFound = Other!WorkloadNotFound
    BY <1>7 DEF Second!WorkloadNotFound, Other!WorkloadNotFound
  <1>10. Second!ApiError = Other!ApiError
    BY <1>7 DEF Second!ApiError, Other!ApiError
  <1>11. Second!Crash = Other!Crash
    BY DEF Second!Crash, Other!Crash
  <1>12. Second!WorkerStep = Other!WorkerStep
    BY <1>1, <1>2, <1>3, <1>4, <1>5, <1>6, <1>8, <1>9
       DEF Second!WorkerStep, Other!WorkerStep
  <1> QED
    BY <1>10, <1>11, <1>12, SameStarts DEF Second!OperatorNext, Other!OperatorNext

----------------------------------------------------------------------------
(***************************************************************************)
(* What both processes share has its type, and sound levels, in either     *)
(* view; the views differ in the worker and the queue.                     *)
(***************************************************************************)
SharedTypes == sg \in [Group -> Feed(Object)] /\ wl \in [Workload -> Feed(Level)]

SharedSound ==
    /\ \A g \in Group : sg[g] \in Feed(SoundObject)
    /\ \A w \in Workload : wl[w] \in Feed(SoundLevel(w))

SecondTypes ==
    /\ queue2 \subseteq Group
    /\ job2 \in Job \union {Idle}

SecondSound == job2 # Idle => /\ job2.local.status.snapshot \in Seq(SoundEntry)
                              /\ job2.found \in Seq(SoundEntry)

BothInv == TypeOK /\ Sound /\ SecondTypes /\ SecondSound

LEMMA SameSets ==
    /\ Other!Annotations = Annotations /\ Other!Object = Object /\ Other!Level = Level
    /\ Other!Job = Job /\ Other!Idle = Idle /\ Other!SoundEntry = SoundEntry
    /\ Other!SoundObject = SoundObject
    /\ \A w : Other!SoundLevel(w) = SoundLevel(w)
    /\ \A V : Other!Feed(V) = Feed(V)
  <1> USE DEF Other!Annotations, Annotations, Other!Command, Command,
              Other!ResourceSnapshot, ResourceSnapshot, Other!Replicas, Replicas,
              Other!Level, Level, Other!Absent, Absent, Other!Stopped, Stopped,
              Other!Steady, Steady
  <1>1. Other!Object = Object
    BY DEF Other!Object, Object, Other!Status, Status, Other!HistoryList, HistoryList,
           Other!HistoryEntry, HistoryEntry
  <1>2. Other!SoundEntry = SoundEntry
    BY DEF Other!SoundEntry, SoundEntry
  <1>3. Other!SoundObject = SoundObject
    BY <1>1, <1>2 DEF Other!SoundObject, SoundObject
  <1>4. Other!Job = Job
    BY <1>1 DEF Other!Job, Job
  <1> QED
    BY <1>1, <1>2, <1>3, <1>4 DEF Other!Idle, Idle, Other!SoundLevel, SoundLevel,
                                  Other!Feed, Feed

LEMMA OtherView ==
    /\ Other!TypeOK <=> SharedTypes /\ SecondTypes /\ faults \in 0 .. MaxFaults /\ ClientsTypeOK
    /\ Other!Sound <=> SharedSound /\ SecondSound
    /\ (Other!TypeOK)' <=> SharedTypes' /\ SecondTypes' /\ (faults \in 0 .. MaxFaults)'
                            /\ ClientsTypeOK'
    /\ (Other!Sound)' <=> SharedSound' /\ SecondSound'
  BY SameSets
     DEF Other!TypeOK, Other!ClusterTypeOK, Other!OperatorTypeOK, Other!ClientsTypeOK,
         ClientsTypeOK, Other!Session, Session, Other!NoSession, NoSession,
         Other!Sound, SharedTypes, SharedSound, SecondTypes, SecondSound

\* The assumptions on the constants are the same in the other view.
LEMMA SameAssumptions ==
    /\ Other!Kinds = Kinds /\ Other!Replicas = Replicas
    /\ \A w : Other!LevelsOf(w) = LevelsOf(w)
    /\ \A S : Other!IsFiniteSet(S) <=> IsFiniteSet(S)
  <1>1. Other!Kinds = Kinds /\ Other!Replicas = Replicas
    BY DEF Other!Kinds, Kinds, Other!Replicas, Replicas
  <1>2. \A w : Other!LevelsOf(w) = LevelsOf(w)
    BY <1>1 DEF Other!LevelsOf, LevelsOf
  <1>3. \A S : Other!IsFiniteSet(S) <=> IsFiniteSet(S)
    BY Zenon DEF Other!IsFiniteSet, IsFiniteSet
  <1> QED
    BY <1>1, <1>2, <1>3

\* A step of the second process keeps all in its own view.
LEMMA SecondStep ==
    ASSUME Other!TypeOK, Other!Sound, Second!OperatorNext, UNCHANGED clientsVars
    PROVE  (Other!TypeOK)' /\ (Other!Sound)'
  <1> USE SameAssumptions, TypeConstants, AdmissionConstants, MaxLagAssumption,
          ClusterConstants, OperatorConstants, ClientsConstants
  <1>1. Other!OperatorNext
    BY SameSteps
  <1>2. (Other!Sound)'
    BY <1>1, Other!OperatorStepSound
  <1>3. (Other!ClusterTypeOK)' /\ (Other!OperatorTypeOK)'
    BY <1>1, Other!OperatorStepTypes DEF Other!TypeOK
  <1>4. (Other!ClientsTypeOK)'
    BY DEF Other!TypeOK, Other!ClientsTypeOK, clientsVars
  <1> QED
    BY <1>2, <1>3, <1>4 DEF Other!TypeOK

\* A step of the rest of the system does so in the first one's.
LEMMA FirstStep ==
    ASSUME TypeOK, Sound, Next
    PROVE  TypeOK' /\ Sound'
  BY StepTypes, StepSound

LEMMA BothStep ==
    ASSUME BothInv, [BothNext]_bothVars
    PROVE  BothInv'
  <1> USE DEF BothInv
  <1>1. CASE Next /\ queue2' = Heard(queue2) /\ UNCHANGED job2
    BY <1>1, FirstStep DEF Heard, SecondTypes, SecondSound
  <1>2. CASE /\ Second!OperatorNext
             /\ queue' = Heard(queue)
             /\ UNCHANGED <<job, clientsVars>>
    <2>1. Other!TypeOK /\ Other!Sound
      BY OtherView DEF TypeOK, ClusterTypeOK, OperatorTypeOK, Sound, SharedTypes, SharedSound
    <2>2. (Other!TypeOK)' /\ (Other!Sound)'
      BY <1>2, <2>1, SecondStep
    <2>3. SharedTypes' /\ SharedSound' /\ SecondTypes' /\ SecondSound' /\ ClientsTypeOK'
          /\ (faults \in 0 .. MaxFaults)'
      BY <2>2, OtherView
    <2>4. TypeOK'
      BY <1>2, <2>3 DEF TypeOK, ClusterTypeOK, OperatorTypeOK, SharedTypes, Heard
    <2>5. Sound'
      BY <1>2, <2>3 DEF Sound, SharedSound
    <2> QED
      BY <2>3, <2>4, <2>5
  <1>3. CASE UNCHANGED bothVars
    <2>1. UNCHANGED vars
      BY <1>3 DEF bothVars
    <2> QED
      BY <1>3, <2>1, StepTypes, StepSound DEF bothVars, SecondTypes, SecondSound
  <1> QED
    BY <1>1, <1>2, <1>3 DEF BothNext

\* Whatever two processes that reconcile the same groups at once overwrite of each
\* other, in whatever order their calls come, a workload only kshutdown changes is
\* at its owner's level or stopped, and so is every level on record.
THEOREM TwoNeverInvent == BothSpec => []NeverInvents
  <1>1. BothInit => BothInv
    <2> SUFFICES ASSUME BothInit PROVE BothInv
      OBVIOUS
    <2>1. queue2 = Group /\ job2 = Idle
      BY DEF BothInit, Second!OperatorInit, Second!Idle, Idle
    <2> QED
      BY <2>1, InitTypes, InitSound DEF BothInit, BothInv, SecondTypes, SecondSound
  <1>2. BothInv /\ [BothNext]_bothVars => BothInv'
    BY BothStep
  <1>3. BothInv => NeverInvents
    BY SoundImplies DEF BothInv
  <1> QED
    BY <1>1, <1>2, <1>3, PTL DEF BothSpec
=============================================================================
