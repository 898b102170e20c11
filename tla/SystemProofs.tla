---------------------------- MODULE SystemProofs ----------------------------
(***************************************************************************)
(* Theorems about System for every value of its constants.                 *)
(***************************************************************************)
EXTENDS System, FiniteSetTheorems, SequenceTheorems, TLAPS

----------------------------------------------------------------------------
(***************************************************************************)
(* What the operators the model is built from return.                      *)
(***************************************************************************)

LEMMA LevelTypes ==
    /\ Absent \in Level
    /\ Replicas \subseteq Level
    /\ \A w \in Workload : /\ Stopped(w) \in Replicas
                           /\ LevelsOf(w) \subseteq Replicas
                           /\ Home[w] \in Replicas
  BY TypeConstants, ClusterConstants DEF Absent, Level, Replicas, Stopped, LevelsOf

\* Publish, Delivered and Relisted make feeds.
LEMMA FeedTypes ==
    ASSUME NEW V, NEW f \in Feed(V), NEW v \in V
    PROVE  /\ Publish(f, v) \in Feed(V)
           /\ Lagging(f) => Delivered(f) \in Feed(V)
           /\ Relisted(f) \in Feed(V)
           /\ Synced(v) \in Feed(V)
  <1> DEFINE sent == Append(f.watch, v)
  <1>1. /\ f.obj \in V /\ f.seen \in V /\ f.watch \in Seq(V)
    BY DEF Feed
  <1>2. sent \in Seq(V) /\ sent # <<>>
    BY <1>1, AppendProperties
  <1>3. Head(sent) \in V /\ Tail(sent) \in Seq(V)
    BY <1>2, HeadTailProperties
  <1>4. f.watch # <<>> => Head(f.watch) \in V /\ Tail(f.watch) \in Seq(V)
    BY <1>1, HeadTailProperties
  <1>5. <<>> \in Seq(V)
    OBVIOUS
  <1> HIDE DEF sent
  <1> QED
    BY <1>1, <1>2, <1>3, <1>4, <1>5 DEF Publish, Lagging, Delivered, Relisted, Synced, Feed, sent

LEMMA MergeTypes ==
    /\ \A cur, base, mod \in Status : MergeStatus(cur, base, mod) \in Status
    /\ \A cur, base, mod \in Annotations : MergeAnnotations(cur, base, mod) \in Annotations
  <1>1. ASSUME NEW cur \in Status, NEW base \in Status, NEW mod \in Status
        PROVE  MergeStatus(cur, base, mod) \in Status
    BY <1>1 DEF MergeStatus, Merged, Status
  <1>2. ASSUME NEW cur \in Annotations, NEW base \in Annotations, NEW mod \in Annotations
        PROVE  MergeAnnotations(cur, base, mod) \in Annotations
    BY <1>2 DEF MergeAnnotations, Merged, Annotations
  <1> QED
    BY <1>1, <1>2

\* What the status patches of the operator write.
LEMMA StatusTypes ==
    ASSUME NEW st \in Status, NEW op \in User \union {None}, NEW rs \in Reason \union {None}
    PROVE  LET up == [st EXCEPT !.state = "up", !.operator = op, !.reason = rs, !.snapshot = <<>>]
           IN  up \in Status /\ up.snapshot = <<>>
  <1>1. <<>> \in Seq(ResourceSnapshot)
    OBVIOUS
  <1> DEFINE none == <<>>
  <1> HIDE DEF none
  <1> DEFINE up == [st EXCEPT !.state = "up", !.operator = op, !.reason = rs, !.snapshot = none]
  <1>2. up \in Status /\ up.snapshot = none
    BY <1>1 DEF Status, none
  <1> QED
    BY <1>2 DEF none

LEMMA CappedType ==
    ASSUME NEW h \in Seq(HistoryEntry)
    PROVE  Capped(h) \in HistoryList
  BY TypeConstants, SubSeqProperties, LenProperties DEF Capped, HistoryList

LEMMA FreshTypes == Fresh \in Object /\ Gone \in Object
  BY TypeConstants DEF Fresh, Gone, Object, NoAnnotations, NoStatus, Annotations, Status,
                       Command, HistoryList

\* An enumeration of a set of workloads is a sequence of its members.
LEMMA ItemsType ==
    ASSUME NEW S \in SUBSET Workload, NEW items \in SetToSeqs(S)
    PROVE  items \in Seq(S)
  <1>1. IsFiniteSet(S)
    BY TypeConstants, FS_Subset
  <1>2. Cardinality(S) \in Nat
    BY <1>1, FS_CardinalityType
  <1> QED
    BY <1>2, SeqDef DEF SetToSeqs

LEMMA ListCallType ==
    ASSUME NEW g \in Group, NEW i \in 1 .. ListCalls(g)
    PROVE  ListCall(g, i) \subseteq Selected(g) /\ Selected(g) \subseteq Workload
  <1>1. Targets[g] \in Seq(SUBSET Workload) /\ Len(Targets[g]) \in Nat
    BY ClusterConstants
  <1>2. 1 + ((i - 1) \div 3) \in 1 .. Len(Targets[g])
    BY <1>1 DEF ListCalls
  <1>3. Targets[g][1 + ((i - 1) \div 3)] \subseteq Selected(g)
    BY <1>1, <1>2 DEF Selected
  <1>4. Selected(g) \subseteq Workload
    BY <1>1, ElementOfSeq DEF Selected
  <1> QED
    BY <1>3, <1>4 DEF ListCall

----------------------------------------------------------------------------
(***************************************************************************)
(* Types: every step keeps them, one component at a time.                  *)
(***************************************************************************)

LEMMA CommitTypes ==
    ASSUME ClusterTypeOK, NEW g \in Group, NEW o \in Object, Commit(g, o)
    PROVE  sg' \in [Group -> Feed(Object)] /\ queue' \subseteq Group
  <1>1. Publish(sg[g], o) \in Feed(Object)
    BY FeedTypes DEF ClusterTypeOK
  <1> QED
    BY <1>1 DEF Commit, Feeds, ClusterTypeOK

LEMMA ScaleTypes ==
    ASSUME ClusterTypeOK, NEW w \in Workload, NEW level \in Level, Scale(w, level)
    PROVE  wl' \in [Workload -> Feed(Level)]
  <1>1. Publish(wl[w], level) \in Feed(Level)
    BY FeedTypes DEF ClusterTypeOK
  <1> QED
    BY <1>1 DEF Scale, ClusterTypeOK

LEMMA FeedParts ==
    ASSUME ClusterTypeOK
    PROVE  /\ \A g \in Group : /\ sg[g] \in Feed(Object)
                               /\ sg[g].obj \in Object /\ sg[g].seen \in Object
           /\ \A w \in Workload : /\ wl[w] \in Feed(Level)
                                  /\ wl[w].obj \in Level /\ wl[w].seen \in Level
  BY DEF ClusterTypeOK, Feed

LEMMA ObjectParts ==
    ASSUME NEW o \in Object
    PROVE  /\ o.phase \in {"live", "terminating", "gone"}
           /\ o.ann \in Annotations /\ o.status \in Status
           /\ o.status.snapshot \in Seq(ResourceSnapshot)
           /\ o.status.history \in HistoryList
           /\ o.ann.cmd \in Command
           /\ o.ann.operator \in User \union {None}
           /\ o.ann.reason \in Reason \union {None}
           /\ o.ann.partial \in BOOLEAN
  BY DEF Object, Annotations, Status

\* An answer keeps the type of what it is decoded into, and its snapshot is one
\* of the two.
LEMMA AnsweredTypes ==
    ASSUME NEW o \in Object, NEW status \in Status, NEW answer \in Object
    PROVE  LET held == [o EXCEPT !.status = status]
           IN  /\ Answered(held, answer) \in Object
               /\ Answered(held, answer).status.snapshot
                      = Merged(status.snapshot, <<>>, answer.status.snapshot)
  <1> DEFINE held == [o EXCEPT !.status = status]
  <1>1. held.ann \in Annotations /\ held.status = status
    BY ObjectParts DEF Object
  <1>2. NoAnnotations \in Annotations /\ NoStatus \in Status
    BY FreshTypes, ObjectParts DEF Fresh
  <1>3. /\ MergeAnnotations(held.ann, NoAnnotations, answer.ann) \in Annotations
        /\ MergeStatus(held.status, NoStatus, answer.status) \in Status
    BY <1>1, <1>2, ObjectParts, MergeTypes
  <1>4. Answered(held, answer) \in Object
    BY <1>3, ObjectParts DEF Answered, Object
  <1>5. Answered(held, answer).status.snapshot
            = Merged(status.snapshot, <<>>, answer.status.snapshot)
    BY <1>1 DEF Answered, MergeStatus, NoStatus
  <1> QED
    BY <1>4, <1>5

LEMMA SubmitTypes ==
    ASSUME ClusterTypeOK, NEW g \in Group, NEW u \in User, NEW ann \in Annotations,
           Submit(g, u, ann)
    PROVE  sg' \in [Group -> Feed(Object)] /\ queue' \subseteq Group
  <1> DEFINE o == sg[g].obj
             new(missed) == IF missed THEN ann ELSE Default(o.ann, ann, u)
  <1>1. \A missed : new(missed) \in Annotations
    BY DEF Default, Annotations
  <1>2. PICK missed \in Missed :
            \/ Commit(g, [phase |-> o.phase, ann |-> new(missed), status |-> o.status])
            \/ UNCHANGED <<sg, queue>>
    BY DEF Submit
  <1>3. [phase |-> o.phase, ann |-> new(missed), status |-> o.status] \in Object
    BY <1>1, FeedParts, ObjectParts DEF Object
  <1> QED
    BY <1>2, <1>3, CommitTypes DEF ClusterTypeOK

LEMMA CreateTypes ==
    ASSUME ClusterTypeOK, NEW g \in Group, NEW u \in User, NEW ann \in Annotations,
           Create(g, u, ann)
    PROVE  sg' \in [Group -> Feed(Object)] /\ queue' \subseteq Group
  <1> DEFINE new(missed) == IF missed THEN ann ELSE Default(NoAnnotations, ann, u)
  <1>1. \A missed : new(missed) \in Annotations
    BY DEF Default, Annotations
  <1>2. PICK missed \in Missed :
            \/ Commit(g, [phase |-> "live", ann |-> new(missed), status |-> NoStatus])
            \/ UNCHANGED <<sg, queue>>
    BY DEF Create
  <1>3. [phase |-> "live", ann |-> new(missed), status |-> NoStatus] \in Object
    BY <1>1, FreshTypes, ObjectParts DEF Object, Fresh
  <1> QED
    BY <1>2, <1>3, CommitTypes DEF ClusterTypeOK

LEMMA ClusterStepTypes ==
    ASSUME ClusterTypeOK, ClusterNext
    PROVE  ClusterTypeOK'
  <1>1. ASSUME NEW g \in Group, DeliverGroup(g)
        PROVE  ClusterTypeOK'
    <2>1. Delivered(sg[g]) \in Feed(Object)
      BY <1>1, FeedTypes, FeedParts DEF DeliverGroup
    <2> QED
      BY <1>1, <2>1 DEF DeliverGroup, Feeds, ClusterTypeOK
  <1>2. ASSUME NEW g \in Group, DeleteGroup(g)
        PROVE  ClusterTypeOK'
    <2>1. [sg[g].obj EXCEPT !.phase = "terminating"] \in Object
      BY FeedParts DEF Object
    <2> QED
      BY <1>2, <2>1, FreshTypes, CommitTypes DEF DeleteGroup, ClusterTypeOK
  <1>3. ASSUME NEW g \in Group, FinalizeGroup(g) \/ DefineGroup(g)
        PROVE  ClusterTypeOK'
    BY <1>3, FreshTypes, CommitTypes DEF FinalizeGroup, DefineGroup, ClusterTypeOK
  <1>4. ASSUME NEW w \in Workload, DeliverWorkload(w)
        PROVE  ClusterTypeOK'
    <2>1. Delivered(wl[w]) \in Feed(Level)
      BY <1>4, FeedTypes, FeedParts DEF DeliverWorkload
    <2> QED
      BY <1>4, <2>1 DEF DeliverWorkload, ClusterTypeOK
  <1>5. ASSUME NEW w \in Disturbed, NEW level \in LevelsOf(w) \union {Absent}, Disturb(w, level)
        PROVE  ClusterTypeOK'
    <2>1. w \in Workload /\ level \in Level
      BY ClusterConstants, LevelTypes
    <2> QED
      BY <1>5, <2>1, ScaleTypes DEF Disturb, ClusterTypeOK
  <1> QED
    BY <1>1, <1>2, <1>3, <1>4, <1>5 DEF ClusterNext

LEMMA JobParts ==
    ASSUME job \in Job
    PROVE  /\ job.g \in Group /\ job.cmd \in {"down", "up"}
           /\ job.local \in Object /\ job.local.status \in Status
           /\ job.operator \in User \union {None} /\ job.reason \in Reason \union {None}
           /\ job.found \in Seq(ResourceSnapshot) /\ job.i \in Nat \ {0}
           /\ Entries \in Seq(ResourceSnapshot)
  BY ObjectParts DEF Job, Entries

LEMMA BusyWorker ==
    ASSUME OperatorTypeOK
    PROVE  job # Idle => job \in Job /\ job.pc # "idle"
  BY DEF OperatorTypeOK, Job, Idle

LEMMA IdleWorker == Idle.pc = "idle"
  BY DEF Idle

\* The current entry of the snapshot names a workload and a level.
LEMMA EntryType ==
    ASSUME job \in Job, job.i <= Len(Entries)
    PROVE  /\ Entries[job.i] \in ResourceSnapshot
           /\ Entries[job.i].w \in Workload /\ Entries[job.i].prev \in Replicas
  <1>1. job.i \in 1 .. Len(Entries) /\ Entries \in Seq(ResourceSnapshot)
    BY JobParts, LenProperties
  <1>2. Entries[job.i] \in ResourceSnapshot
    BY <1>1
  <1> QED
    BY <1>2 DEF ResourceSnapshot

LEMMA PatchStatusTypes ==
    ASSUME ClusterTypeOK, OperatorTypeOK, job \in Job, NEW status \in Status,
           NEW pc \in {"scale", "history", "consume"}, PatchStatus(status, pc)
    PROVE  ClusterTypeOK' /\ OperatorTypeOK'
  <1> DEFINE cur == sg[job.g].obj
             new == [phase |-> cur.phase, ann |-> cur.ann,
                     status |-> MergeStatus(cur.status, job.local.status, status)]
             local == Answered([job.local EXCEPT !.status = status], new)
  <1>1. cur \in Object /\ new \in Object
    BY FeedParts, JobParts, ObjectParts, MergeTypes DEF Object
  <1>2. /\ Commit(job.g, new)
        /\ job' = [job EXCEPT !.pc = pc, !.found = <<>>, !.i = 1, !.local = local]
        /\ UNCHANGED <<wl, faults>>
    BY DEF PatchStatus
  <1>0. local \in Object
    BY <1>1, JobParts, AnsweredTypes
  <1> HIDE DEF new, local
  <1>3. ClusterTypeOK'
    BY <1>1, <1>2, JobParts, CommitTypes DEF ClusterTypeOK
  <1>4. job' = [pc |-> pc, g |-> job.g, cmd |-> job.cmd, local |-> local,
                operator |-> job.operator, reason |-> job.reason, found |-> <<>>, i |-> 1]
    BY <1>2 DEF Job
  <1>5. job' \in Job
    BY <1>0, <1>4, JobParts DEF Job
  <1> QED
    BY <1>2, <1>3, <1>5 DEF OperatorTypeOK

LEMMA DriveTypes ==
    ASSUME ClusterTypeOK, OperatorTypeOK, job \in Job,
           NEW w \in Workload, NEW level \in Replicas, Drive(w, level)
    PROVE  ClusterTypeOK' /\ OperatorTypeOK'
  <1>1. wl' \in [Workload -> Feed(Level)]
    BY LevelTypes, ScaleTypes DEF Drive, ClusterTypeOK
  <1>2. job' \in Job
    BY DEF Drive, NextEntry, Job
  <1> QED
    BY <1>1, <1>2 DEF Drive, ClusterTypeOK, OperatorTypeOK

LEMMA CollectTypes ==
    ASSUME ClusterTypeOK, OperatorTypeOK, job \in Job, CollectTargets
    PROVE  job' \in Job
  <1> DEFINE S == {w \in ListCall(job.g, job.i) : Captures(job.local.ann, w)}
             add(items) == [k \in DOMAIN items |-> Captured(items[k])]
  <1>1. job.i \in 1 .. ListCalls(job.g)
    <2>1. ListCalls(job.g) \in Nat
      BY JobParts, ClusterConstants, LenProperties DEF ListCalls
    <2> QED
      BY <2>1, JobParts DEF CollectTargets
  <1>2. S \in SUBSET Workload
    BY <1>1, JobParts, ListCallType
  <1>3. \A w \in S : Captured(w) \in ResourceSnapshot
    <2> SUFFICES ASSUME NEW w \in S PROVE wl[w].seen \in Replicas
      BY <1>2 DEF Captured, ResourceSnapshot
    <2> QED
      BY <1>2, FeedParts DEF ListCall, Level, Absent, Replicas
  <1> HIDE DEF S
  <1>4. PICK items \in SetToSeqs(S) :
            job' = [job EXCEPT !.found = @ \o add(items), !.i = @ + 1]
    BY DEF CollectTargets, S
  <1>5. items \in Seq(S)
    BY <1>2, ItemsType
  <1>6. add(items) \in Seq(ResourceSnapshot)
    <2>1. DOMAIN items = 1 .. Len(items) /\ Len(items) \in Nat
      BY <1>5, LenProperties
    <2>2. \A k \in 1 .. Len(items) : Captured(items[k]) \in ResourceSnapshot
      BY <1>3, <1>5, ElementOfSeq
    <2> QED
      BY <2>1, <2>2, SeqDef
  <1> HIDE DEF add
  <1>7. job.found \o add(items) \in Seq(ResourceSnapshot)
    BY <1>6, JobParts, ConcatProperties
  <1> DEFINE found == job.found \o add(items)
  <1>8. job' = [job EXCEPT !.found = found, !.i = job.i + 1]
    BY <1>4
  <1> HIDE DEF found
  <1>9. job' = [pc |-> job.pc, g |-> job.g, cmd |-> job.cmd, local |-> job.local,
                operator |-> job.operator, reason |-> job.reason,
                found |-> found, i |-> job.i + 1]
    BY <1>8 DEF Job
  <1>10. job.i + 1 \in Nat \ {0} /\ job.pc \in {"collect"}
    BY JobParts DEF CollectTargets
  <1> QED
    BY <1>7, <1>9, <1>10, JobParts DEF Job, found

LEMMA StartTypes ==
    ASSUME ClusterTypeOK, OperatorTypeOK, NEW g \in Group, NEW cmd \in {"down", "up"},
           Pending(sg[g].seen, cmd),
           NEW pc \in {"collect", "scale", "restore", "consume"}, Start(g, sg[g].seen, pc)
    PROVE  ClusterTypeOK' /\ OperatorTypeOK'
  <1> DEFINE o == sg[g].seen
  <1>1. o \in Object /\ o.ann.cmd \in {"down", "up"}
    BY FeedParts DEF Pending
  <1>2. o.ann.operator \in User \union {None} /\ o.ann.reason \in Reason \union {None}
    BY <1>1, ObjectParts
  <1>3. job' = [pc |-> pc, g |-> g, cmd |-> o.ann.cmd, local |-> o,
                operator |-> o.ann.operator, reason |-> o.ann.reason,
                found |-> <<>>, i |-> 1]
    BY DEF Start
  <1>4. job' \in Job
    BY <1>1, <1>2, <1>3 DEF Job
  <1> QED
    BY <1>4 DEF Start, ClusterTypeOK, OperatorTypeOK

LEMMA OperatorStepTypes ==
    ASSUME ClusterTypeOK, OperatorTypeOK, OperatorNext
    PROVE  ClusterTypeOK' /\ OperatorTypeOK'
  <1> USE IdleWorker, BusyWorker
  <1>1. CASE CollectTargets
    <2>1. job \in Job
      BY <1>1 DEF CollectTargets
    <2> QED
      BY <1>1, <2>1, CollectTypes
         DEF CollectTargets, clusterVars, ClusterTypeOK, OperatorTypeOK
  <1>2. CASE CaptureSnapshot
    <2>1. job \in Job
      BY <1>2 DEF CaptureSnapshot
    <2>2. [job.local.status EXCEPT !.snapshot = job.found, !.operator = job.operator,
                                   !.reason = job.reason] \in Status
      BY <2>1, JobParts DEF Status
    <2> QED
      BY <1>2, <2>1, <2>2, PatchStatusTypes DEF CaptureSnapshot
  <1>3. CASE ScaleEntry
    <2>1. job \in Job
      BY <1>3 DEF ScaleEntry
    <2> QED
      BY <1>3, <2>1, EntryType, LevelTypes, DriveTypes DEF ScaleEntry
  <1>4. CASE MarkDown
    <2>1. job \in Job
      BY <1>4 DEF MarkDown
    <2>2. [job.local.status EXCEPT !.state = "down"] \in Status
      BY <2>1, JobParts DEF Status
    <2> QED
      BY <1>4, <2>1, <2>2, PatchStatusTypes DEF MarkDown
  <1>5. CASE RestoreEntry
    <2>1. job \in Job
      BY <1>5 DEF RestoreEntry
    <2>2. CASE NextEntry /\ UNCHANGED <<clusterVars, faults>>
      <3>1. job' \in Job
        BY <2>1, <2>2 DEF NextEntry, Job
      <3> QED
        BY <2>2, <3>1 DEF clusterVars, ClusterTypeOK, OperatorTypeOK
    <2>3. CASE Drive(Entries[job.i].w, Entries[job.i].prev)
      BY <1>5, <2>1, <2>3, EntryType, DriveTypes DEF RestoreEntry
    <2> QED
      BY <1>5, <2>2, <2>3 DEF RestoreEntry
  <1>6. CASE MarkUp
    <2>1. job \in Job
      BY <1>6 DEF MarkUp
    <2>2. [job.local.status EXCEPT !.state = "up", !.operator = job.operator,
                                   !.reason = job.reason, !.snapshot = <<>>] \in Status
      BY <2>1, JobParts, StatusTypes
    <2> QED
      BY <1>6, <2>1, <2>2, PatchStatusTypes DEF MarkUp
  <1>7. CASE AppendHistory
    <2>1. job \in Job
      BY <1>7 DEF AppendHistory
    <2>2. JobEntry \in HistoryEntry /\ job.local.status.history \in Seq(HistoryEntry)
      BY <2>1, JobParts DEF JobEntry, HistoryEntry, Status, HistoryList
    <2>3. <<JobEntry>> \o job.local.status.history \in Seq(HistoryEntry)
      BY <2>2
    <2>4. Extended(job.local.status.history) \in HistoryList
      BY <2>3, CappedType DEF Extended
    <2>5. [job.local.status EXCEPT !.history = Extended(@)] \in Status
      BY <2>1, <2>4, JobParts DEF Status
    <2> QED
      BY <1>7, <2>1, <2>5, PatchStatusTypes DEF AppendHistory
  <1>8. CASE ConsumeAnnotations
    <2> DEFINE cur == sg[job.g].obj
               ann == MergeAnnotations(cur.ann, job.local.ann, Without(job.local.ann, job.cmd))
    <2>1. job \in Job
      BY <1>8 DEF ConsumeAnnotations
    <2>2. cur \in Object /\ job.local.ann \in Annotations
      BY <2>1, JobParts, ObjectParts, FeedParts
    <2>3. Without(job.local.ann, job.cmd) \in Annotations
      BY DEF Without, NoAnnotations, Annotations, Command
    <2>4. ann \in Annotations
      BY <2>2, <2>3, ObjectParts, MergeTypes
    <2> HIDE DEF ann
    <2>5. [phase |-> cur.phase, status |-> cur.status, ann |-> ann] \in Object
      BY <2>2, <2>4, ObjectParts DEF Object
    <2>6. Commit(job.g, [phase |-> cur.phase, status |-> cur.status, ann |-> ann])
      BY <1>8 DEF ConsumeAnnotations, ann
    <2> QED
      BY <1>8, <2>1, <2>5, <2>6, JobParts, CommitTypes
         DEF ConsumeAnnotations, ClusterTypeOK, OperatorTypeOK
  <1>9. CASE GroupNotFound \/ WorkloadNotFound \/ ApiError
    <2>1. job \in Job
      BY <1>9 DEF GroupNotFound, WorkloadNotFound, EntryMissing, ApiError
    <2>2. faults' \in 0 .. MaxFaults
      BY <1>9, OperatorConstants DEF GroupNotFound, WorkloadNotFound, ApiError, OperatorTypeOK
    <2> QED
      BY <1>9, <2>1, <2>2, JobParts
         DEF GroupNotFound, WorkloadNotFound, ApiError, Fail, ClusterTypeOK, OperatorTypeOK
  <1>10. ASSUME NEW g \in Group, ReconcileNothing(g) \/ ReconcileUpFails(g)
         PROVE  ClusterTypeOK' /\ OperatorTypeOK'
    BY <1>10 DEF ReconcileNothing, ReconcileUpFails, clusterVars, operatorVars,
                 ClusterTypeOK, OperatorTypeOK
  <1>11. ASSUME NEW g \in Group, ReconcileDown(g) \/ ReconcileUp(g)
         PROVE  ClusterTypeOK' /\ OperatorTypeOK'
    <2>1. /\ DownStart(sg[g].seen) \in {"collect", "scale", "restore", "consume"}
          /\ UpStart(sg[g].seen) \in {"collect", "scale", "restore", "consume"}
      BY DEF DownStart, UpStart
    <2> QED
      BY <1>11, <2>1, StartTypes DEF ReconcileDown, ReconcileUp
  <1>12. CASE Crash
    <2>1. /\ \A g \in Group : Relisted(sg[g]) \in Feed(Object)
          /\ \A w \in Workload : Relisted(wl[w]) \in Feed(Level)
      BY FeedTypes, FeedParts
    <2> QED
      BY <1>12, <2>1, OperatorConstants DEF Crash, ClusterTypeOK, OperatorTypeOK
  <1> QED
    BY <1>1, <1>2, <1>3, <1>4, <1>5, <1>6, <1>7, <1>8, <1>9, <1>10, <1>11, <1>12
       DEF OperatorNext, WorkerStep, Reconcile

LEMMA PrepareTypes ==
    ASSUME ClusterTypeOK, ClientsTypeOK, NEW u \in User, NEW g \in Group,
           NEW mod \in Annotations, MayCommand(u, g), Prepare(u, g, mod)
    PROVE  ClusterTypeOK' /\ ClientsTypeOK'
  <1>1. [g |-> g, base |-> sg[g].obj.ann, mod |-> mod] \in Session
    BY FeedParts, ObjectParts DEF Session
  <1>2. commands' \in [Group -> 0 .. MaxCommands]
    BY ClientsConstants DEF MayCommand, Prepare, ClientsTypeOK
  <1> QED
    BY <1>1, <1>2 DEF Prepare, clusterVars, ClusterTypeOK, ClientsTypeOK

\* What applying the file makes of a group that exists.
AppliedTo(g) == MergeAnnotations(sg[g].obj.ann, NoAnnotations, git[g])

LEMMA FileTypes ==
    ASSUME ClusterTypeOK, ClientsTypeOK, NEW g \in Group
    PROVE  git[g] \in Annotations /\ AppliedTo(g) \in Annotations
  <1>1. git[g] \in Annotations /\ NoAnnotations \in Annotations
    BY FreshTypes, ObjectParts DEF Fresh, ClientsTypeOK
  <1> QED
    BY <1>1, FeedParts, ObjectParts, MergeTypes DEF AppliedTo

LEMMA ClientsStepTypes ==
    ASSUME ClusterTypeOK, ClientsTypeOK, ClientsNext
    PROVE  ClusterTypeOK' /\ ClientsTypeOK'
  <1>1. ASSUME NEW u \in User, Send(u)
        PROVE  ClusterTypeOK' /\ ClientsTypeOK'
    <2> DEFINE s == cli[u]
    <2>1. s \in Session /\ s.g \in Group /\ s.base \in Annotations /\ s.mod \in Annotations
      BY <1>1 DEF Send, ClientsTypeOK, Session
    <2>2. MergeAnnotations(sg[s.g].obj.ann, s.base, s.mod) \in Annotations
      BY <2>1, FeedParts, ObjectParts, MergeTypes
    <2>3. ClientsTypeOK'
      BY <1>1 DEF Send, ClientsTypeOK
    <2>4. sg' \in [Group -> Feed(Object)] /\ queue' \subseteq Group
      BY <1>1, <2>1, <2>2, SubmitTypes DEF Send, ClusterTypeOK
    <2> QED
      BY <1>1, <2>3, <2>4 DEF Send, ClusterTypeOK
  <1>2. ASSUME NEW u \in User, NEW g \in Group, NEW reason \in Reason, NEW partial \in BOOLEAN,
               Down(u, g, reason, partial)
        PROVE  ClusterTypeOK' /\ ClientsTypeOK'
    <2> DEFINE ann == sg[g].obj.ann
               flag == ann.partial \/ (partial /\ Forbidden(u, ListedTargets(g)) # {})
    <2>1. ann \in Annotations /\ flag \in BOOLEAN
      BY FeedParts, ObjectParts
    <2>2. /\ MayCommand(u, g)
          /\ Prepare(u, g, [ann EXCEPT !.cmd = "down", !.reason = reason, !.operator = u,
                                       !.partial = flag])
      BY <1>2, <2>1 DEF Down, Annotations
    <2> HIDE DEF flag
    <2>3. [ann EXCEPT !.cmd = "down", !.reason = reason, !.operator = u, !.partial = flag]
              \in Annotations
      BY <2>1 DEF Annotations, Command
    <2> QED
      BY <2>2, <2>3, PrepareTypes
  <1>3. ASSUME NEW u \in User, NEW g \in Group, Up(u, g)
        PROVE  ClusterTypeOK' /\ ClientsTypeOK'
    <2> DEFINE ann == sg[g].obj.ann
    <2>1. ann \in Annotations
      BY FeedParts, ObjectParts
    <2>2. [ann EXCEPT !.cmd = "up", !.operator = u] \in Annotations
      BY <2>1 DEF Annotations, Command
    <2> QED
      BY <1>3, <2>2, PrepareTypes DEF Up
  <1>4. ASSUME NEW u \in User, NEW g \in Group, NEW cmd \in {"down", "up"}, Annotate(u, g, cmd)
        PROVE  ClusterTypeOK' /\ ClientsTypeOK'
    <2>1. [sg[g].obj.ann EXCEPT !.cmd = cmd] \in Annotations
      BY FeedParts, ObjectParts DEF Annotations, Command
    <2>2. commands' \in [Group -> 0 .. MaxCommands]
      BY <1>4, ClientsConstants DEF Annotate, MayCommand, ClientsTypeOK
    <2> QED
      BY <1>4, <2>1, <2>2, SubmitTypes DEF Annotate, ClusterTypeOK, ClientsTypeOK
  <1>5. ASSUME NEW u \in User, NEW g \in Group, Export(u, g)
        PROVE  ClusterTypeOK' /\ ClientsTypeOK'
    <2>1. sg[g].obj.ann \in Annotations
      BY FeedParts, ObjectParts
    <2> QED
      BY <1>5, <2>1 DEF Export, clusterVars, ClusterTypeOK, ClientsTypeOK
  <1>6. ASSUME NEW u \in User, NEW g \in Group, Apply(u, g)
        PROVE  ClusterTypeOK' /\ ClientsTypeOK'
    <2>1. git[g] \in Annotations /\ AppliedTo(g) \in Annotations
      BY FileTypes
    <2>2. sg' \in [Group -> Feed(Object)] /\ queue' \subseteq Group
      BY <1>6, <2>1, SubmitTypes, CreateTypes DEF Apply, AppliedTo
    <2> QED
      BY <1>6, <2>2 DEF Apply, clientsVars, ClusterTypeOK, ClientsTypeOK
  <1> QED
    BY <1>1, <1>2, <1>3, <1>4, <1>5, <1>6 DEF ClientsNext

(***************************************************************************)
(* To the cluster, a step of a client is a write of annotations, or none.  *)
(***************************************************************************)
LEMMA ClientsWrite ==
    ASSUME ClusterTypeOK, ClientsTypeOK, ClientsNext
    PROVE  /\ UNCHANGED wl
           /\ \/ UNCHANGED <<sg, queue>>
              \/ \E g \in Group, u \in User, ann \in Annotations :
                    Submit(g, u, ann) \/ Create(g, u, ann)
  <1>1. ASSUME NEW u \in User, Send(u)
        PROVE  \/ UNCHANGED <<sg, queue>>
               \/ \E g \in Group, ann \in Annotations : Submit(g, u, ann)
    <2> DEFINE s == cli[u]
    <2>1. s \in Session /\ s.g \in Group /\ s.base \in Annotations /\ s.mod \in Annotations
      BY <1>1 DEF Send, ClientsTypeOK, Session
    <2>2. MergeAnnotations(sg[s.g].obj.ann, s.base, s.mod) \in Annotations
      BY <2>1, FeedParts, ObjectParts, MergeTypes
    <2> QED
      BY <1>1, <2>1, <2>2 DEF Send
  <1>2. ASSUME NEW u \in User, NEW g \in Group, NEW cmd \in {"down", "up"}, Annotate(u, g, cmd)
        PROVE  \E ann \in Annotations : Submit(g, u, ann)
    <2>1. [sg[g].obj.ann EXCEPT !.cmd = cmd] \in Annotations
      BY FeedParts, ObjectParts DEF Annotations, Command
    <2> QED
      BY <1>2, <2>1 DEF Annotate
  <1>3. ASSUME NEW u \in User, NEW g \in Group, Apply(u, g)
        PROVE  \E ann \in Annotations : Submit(g, u, ann) \/ Create(g, u, ann)
    BY <1>3, FileTypes DEF Apply, AppliedTo
  <1>4. ASSUME NEW u \in User, NEW g \in Group,
               Up(u, g) \/ \E reason \in Reason, partial \in BOOLEAN : Down(u, g, reason, partial)
        PROVE  UNCHANGED <<sg, queue>>
    <2>1. CASE Up(u, g)
      BY <2>1 DEF Up, Prepare, clusterVars
    <2>2. ASSUME NEW reason \in Reason, NEW partial \in BOOLEAN, Down(u, g, reason, partial)
          PROVE  UNCHANGED <<sg, queue>>
      BY <2>2 DEF Down, Prepare, clusterVars
    <2> QED
      BY <1>4, <2>1, <2>2
  <1>5. UNCHANGED wl
    <2>1. ASSUME NEW u \in User, NEW g \in Group,
                 \/ Up(u, g) \/ Export(u, g) \/ Apply(u, g)
                 \/ \E cmd \in {"down", "up"} : Annotate(u, g, cmd)
          PROVE  UNCHANGED wl
      BY <2>1 DEF Up, Export, Prepare, Annotate, Apply, clusterVars
    <2>2. ASSUME NEW u \in User, NEW g \in Group, NEW reason \in Reason,
                 NEW partial \in BOOLEAN, Down(u, g, reason, partial)
          PROVE  UNCHANGED wl
      BY <2>2 DEF Down, Prepare, clusterVars
    <2>3. ASSUME NEW u \in User, Send(u)
          PROVE  UNCHANGED wl
      BY <2>3 DEF Send
    <2> QED
      BY <2>1, <2>2, <2>3 DEF ClientsNext
  <1>6. ASSUME NEW u \in User, NEW g \in Group, Export(u, g)
        PROVE  UNCHANGED <<sg, queue>>
    BY <1>6 DEF Export, clusterVars
  <1> QED
    BY <1>1, <1>2, <1>3, <1>4, <1>5, <1>6 DEF ClientsNext

LEMMA InitTypes == Init => TypeOK
  <1> SUFFICES ASSUME Init PROVE TypeOK
    OBVIOUS
  <1>1. \A w \in Workload : Synced(Home[w]) \in Feed(Level)
    BY LevelTypes, FeedTypes DEF Synced, Feed
  <1>2. Synced(Fresh) \in Feed(Object)
    BY FreshTypes DEF Synced, Feed
  <1>3. NoAnnotations \in Annotations
    BY FreshTypes, ObjectParts DEF Fresh
  <1> QED
    BY <1>1, <1>2, <1>3, OperatorConstants, ClientsConstants
       DEF Init, ClusterInit, OperatorInit, ClientsInit,
           TypeOK, ClusterTypeOK, OperatorTypeOK, ClientsTypeOK

LEMMA StepTypes ==
    ASSUME TypeOK, [Next]_vars
    PROVE  TypeOK'
  <1>1. CASE ClusterNext /\ UNCHANGED <<operatorVars, clientsVars>>
    BY <1>1, ClusterStepTypes
       DEF TypeOK, OperatorTypeOK, ClientsTypeOK, operatorVars, clientsVars
  <1>2. CASE OperatorNext /\ UNCHANGED clientsVars
    BY <1>2, OperatorStepTypes DEF TypeOK, ClientsTypeOK, clientsVars
  <1>3. CASE ClientsNext /\ UNCHANGED operatorVars
    BY <1>3, ClientsStepTypes DEF TypeOK, OperatorTypeOK, operatorVars
  <1>4. CASE UNCHANGED vars
    BY <1>4 DEF vars, clusterVars, operatorVars, clientsVars,
                TypeOK, ClusterTypeOK, OperatorTypeOK, ClientsTypeOK
  <1> QED
    BY <1>1, <1>2, <1>3, <1>4 DEF Next

\* Type correctness: feeds hold objects of their type, no history is longer than
\* the cap of appendHistory, and the worker, the queue and the sessions of the
\* plugin name groups that exist, whatever the users, faults and lag.
THEOREM TypeCorrect == Spec => []TypeOK
  <1>1. TypeOK /\ [Next]_vars => TypeOK'
    BY StepTypes
  <1> QED
    BY <1>1, InitTypes, PTL DEF Spec

----------------------------------------------------------------------------
(***************************************************************************)
(* Levels.  NeverInvents speaks of what the API server holds; it is kept   *)
(* because the caches, the watch and the worker's own copy hold no other   *)
(* level either.                                                           *)
(***************************************************************************)

SoundLevel(w) == IF w \in Steady THEN {Home[w], Stopped(w)} ELSE Level

SoundEntry == {e \in ResourceSnapshot : e.w \in Steady => e.prev \in {Home[e.w], Stopped(e.w)}}

SoundObject == {o \in Object : o.status.snapshot \in Seq(SoundEntry)}

Sound ==
    /\ \A g \in Group : sg[g] \in Feed(SoundObject)
    /\ \A w \in Workload : wl[w] \in Feed(SoundLevel(w))
    /\ job # Idle => /\ job.local.status.snapshot \in Seq(SoundEntry)
                     /\ job.found \in Seq(SoundEntry)

LEMMA SoundParts ==
    ASSUME TypeOK, Sound
    PROVE  /\ \A g \in Group : /\ sg[g].obj \in SoundObject /\ sg[g].seen \in SoundObject
                               /\ sg[g].obj.status.snapshot \in Seq(SoundEntry)
                               /\ sg[g].seen.status.snapshot \in Seq(SoundEntry)
           /\ \A w \in Workload : wl[w].obj \in SoundLevel(w) /\ wl[w].seen \in SoundLevel(w)
  BY DEF Sound, Feed, SoundObject

LEMMA SoundLevels ==
    \A w \in Workload : Stopped(w) \in SoundLevel(w) /\ Home[w] \in SoundLevel(w)
  BY LevelTypes DEF SoundLevel

LEMMA SoundImplies == TypeOK /\ Sound => NeverInvents
  <1> SUFFICES ASSUME TypeOK, Sound, NEW w \in Steady
               PROVE  /\ wl[w].obj \in {Home[w], Stopped(w)}
                      /\ \A g \in Group : \A level \in Replicas :
                            RecordedAt(Snapshot(g), w, level) => level \in {Home[w], Stopped(w)}
    BY DEF NeverInvents
  <1>1. wl[w].obj \in {Home[w], Stopped(w)}
    BY SoundParts DEF SoundLevel, Steady
  <1>2. ASSUME NEW g \in Group, NEW level \in Replicas, RecordedAt(Snapshot(g), w, level)
        PROVE  level \in {Home[w], Stopped(w)}
    <2>1. Snapshot(g) \in Seq(SoundEntry)
      BY SoundParts DEF Snapshot
    <2>2. PICK i \in DOMAIN Snapshot(g) : Snapshot(g)[i] = [w |-> w, prev |-> level]
      BY <1>2 DEF RecordedAt
    <2>3. Snapshot(g)[i] \in SoundEntry
      BY <2>1, <2>2, ElementOfSeq, LenProperties
    <2> QED
      BY <2>2, <2>3 DEF SoundEntry
  <1> QED
    BY <1>1, <1>2

LEMMA CommitSound ==
    ASSUME TypeOK, Sound, NEW g \in Group, NEW o \in SoundObject, Commit(g, o)
    PROVE  \A h \in Group : sg'[h] \in Feed(SoundObject)
  <1>1. Publish(sg[g], o) \in Feed(SoundObject)
    BY FeedTypes DEF Sound
  <1> QED
    BY <1>1 DEF Commit, Feeds, Sound, TypeOK, ClusterTypeOK

\* A write that leaves the snapshot of g alone.
LEMMA RewriteSound ==
    ASSUME TypeOK, Sound, NEW g \in Group, NEW o \in Object,
           o.status.snapshot = sg[g].obj.status.snapshot, Commit(g, o)
    PROVE  \A h \in Group : sg'[h] \in Feed(SoundObject)
  <1>1. o \in SoundObject
    BY SoundParts DEF SoundObject
  <1> QED
    BY <1>1, CommitSound

LEMMA ScaleSound ==
    ASSUME TypeOK, Sound, NEW w \in Workload, NEW level \in SoundLevel(w), Scale(w, level)
    PROVE  \A v \in Workload : wl'[v] \in Feed(SoundLevel(v))
  <1>1. Publish(wl[w], level) \in Feed(SoundLevel(w))
    BY FeedTypes DEF Sound
  <1> QED
    BY <1>1 DEF Scale, Sound, TypeOK, ClusterTypeOK

LEMMA FreshSound == Fresh \in SoundObject /\ Gone \in SoundObject
  <1>1. <<>> \in Seq(SoundEntry)
    OBVIOUS
  <1> QED
    BY <1>1, FreshTypes DEF SoundObject, Fresh, Gone, NoStatus

LEMMA SubmitSound ==
    ASSUME TypeOK, Sound, NEW g \in Group, NEW u \in User, NEW ann \in Annotations,
           Submit(g, u, ann)
    PROVE  \A h \in Group : sg'[h] \in Feed(SoundObject)
  <1> DEFINE o == sg[g].obj
             new(missed) == IF missed THEN ann ELSE Default(o.ann, ann, u)
  <1>1. \A missed : new(missed) \in Annotations
    BY DEF Default, Annotations
  <1>2. PICK missed \in Missed :
            \/ Commit(g, [phase |-> o.phase, ann |-> new(missed), status |-> o.status])
            \/ UNCHANGED <<sg, queue>>
    BY DEF Submit
  <1>3. [phase |-> o.phase, ann |-> new(missed), status |-> o.status] \in Object
    BY <1>1, FeedParts, ObjectParts DEF Object, TypeOK
  <1> HIDE DEF new
  <1> QED
    BY <1>2, <1>3, RewriteSound DEF Sound

LEMMA CreateSound ==
    ASSUME TypeOK, Sound, NEW g \in Group, NEW u \in User, NEW ann \in Annotations,
           Create(g, u, ann)
    PROVE  \A h \in Group : sg'[h] \in Feed(SoundObject)
  <1> DEFINE new(missed) == IF missed THEN ann ELSE Default(NoAnnotations, ann, u)
             made(missed) == [phase |-> "live", ann |-> new(missed), status |-> NoStatus]
  <1>1. \A missed : new(missed) \in Annotations
    BY DEF Default, Annotations
  <1>2. PICK missed \in Missed : Commit(g, made(missed)) \/ UNCHANGED <<sg, queue>>
    BY DEF Create
  <1>3. made(missed) \in Object
    BY <1>1, FreshTypes, ObjectParts DEF Object, Fresh
  <1>4. <<>> \in Seq(SoundEntry)
    OBVIOUS
  <1>5. made(missed) \in SoundObject
    BY <1>3, <1>4 DEF SoundObject, NoStatus
  <1> HIDE DEF made
  <1> QED
    BY <1>2, <1>5, CommitSound DEF Sound

LEMMA ClusterStepSound ==
    ASSUME TypeOK, Sound, ClusterNext, UNCHANGED job
    PROVE  Sound'
  <1> SUFFICES /\ \A g \in Group : sg'[g] \in Feed(SoundObject)
               /\ \A w \in Workload : wl'[w] \in Feed(SoundLevel(w))
    BY DEF Sound
  <1> USE DEF TypeOK, ClusterTypeOK
  <1>1. ASSUME NEW g \in Group, DeliverGroup(g)
        PROVE  \A h \in Group : sg'[h] \in Feed(SoundObject)
    <2>1. sg[g] \in Feed(SoundObject)
      BY DEF Sound
    <2>2. Delivered(sg[g]) \in Feed(SoundObject)
      BY <1>1, <2>1, FeedTypes, SoundParts DEF DeliverGroup
    <2> QED
      BY <1>1, <2>2 DEF DeliverGroup, Feeds, Sound
  <1>2. ASSUME NEW g \in Group, DeleteGroup(g)
        PROVE  \A h \in Group : sg'[h] \in Feed(SoundObject)
    <2> DEFINE t == [sg[g].obj EXCEPT !.phase = "terminating"]
    <2>1. t \in Object /\ t.status.snapshot = sg[g].obj.status.snapshot
      BY FeedParts DEF Object
    <2> HIDE DEF t
    <2>2. Commit(g, Gone) \/ Commit(g, t)
      BY <1>2 DEF DeleteGroup, t
    <2> QED
      BY <2>1, <2>2, FreshSound, CommitSound, RewriteSound
  <1>3. ASSUME NEW g \in Group, FinalizeGroup(g) \/ DefineGroup(g)
        PROVE  \A h \in Group : sg'[h] \in Feed(SoundObject)
    BY <1>3, FreshSound, CommitSound DEF FinalizeGroup, DefineGroup
  <1>4. ASSUME NEW w \in Workload, DeliverWorkload(w)
        PROVE  \A v \in Workload : wl'[v] \in Feed(SoundLevel(v))
    <2>1. Delivered(wl[w]) \in Feed(SoundLevel(w))
      BY <1>4, FeedTypes, SoundParts DEF DeliverWorkload, Sound
    <2> QED
      BY <1>4, <2>1 DEF DeliverWorkload, Sound
  <1>5. ASSUME NEW w \in Disturbed, NEW level \in LevelsOf(w) \union {Absent}, Disturb(w, level)
        PROVE  \A v \in Workload : wl'[v] \in Feed(SoundLevel(v))
    <2>1. w \in Workload /\ level \in SoundLevel(w)
      BY ClusterConstants, LevelTypes DEF SoundLevel, Steady
    <2> QED
      BY <1>5, <2>1, ScaleSound DEF Disturb
  <1> QED
    BY <1>1, <1>2, <1>3, <1>4, <1>5
       DEF ClusterNext, DeliverGroup, DeleteGroup, FinalizeGroup, DefineGroup,
           DeliverWorkload, Disturb, Sound

\* A status patch whose own snapshot is sound leaves a sound snapshot behind:
\* the merge takes either the server's or the patch's.
LEMMA PatchStatusSound ==
    ASSUME TypeOK, Sound, job \in Job, NEW status \in Status,
           status.snapshot \in Seq(SoundEntry), NEW pc, PatchStatus(status, pc)
    PROVE  Sound'
  <1> DEFINE cur == sg[job.g].obj
             new == [phase |-> cur.phase, ann |-> cur.ann,
                     status |-> MergeStatus(cur.status, job.local.status, status)]
             local == Answered([job.local EXCEPT !.status = status], new)
  <1> USE DEF TypeOK
  <1>1. new \in Object
    BY FeedParts, JobParts, ObjectParts, MergeTypes DEF Object
  <1>2. new.status.snapshot \in Seq(SoundEntry)
    BY JobParts, SoundParts DEF MergeStatus, Merged
  <1>3. /\ Commit(job.g, new)
        /\ job' = [job EXCEPT !.pc = pc, !.found = <<>>, !.i = 1, !.local = local]
        /\ UNCHANGED wl
    BY DEF PatchStatus
  <1>6. local.status.snapshot = Merged(status.snapshot, <<>>, new.status.snapshot)
    BY <1>1, JobParts, AnsweredTypes
  <1>7. local.status.snapshot \in Seq(SoundEntry)
    BY <1>2, <1>6 DEF Merged
  <1> HIDE DEF new, local
  <1>4. \A g \in Group : sg'[g] \in Feed(SoundObject)
    BY <1>1, <1>2, <1>3, JobParts, CommitSound DEF SoundObject
  <1>5. job'.local = local /\ job'.found = <<>>
    BY <1>3 DEF Job
  <1> QED
    BY <1>3, <1>4, <1>5, <1>7 DEF Sound

LEMMA DriveSound ==
    ASSUME TypeOK, Sound, job \in Job, NEW w \in Workload, NEW level \in SoundLevel(w),
           Drive(w, level)
    PROVE  Sound'
  <1>1. \A v \in Workload : wl'[v] \in Feed(SoundLevel(v))
    BY ScaleSound DEF Drive, Sound
  <1>2. job'.local = job.local /\ job'.found = job.found /\ job # Idle
    BY IdleWorker DEF Drive, NextEntry, Job
  <1> QED
    BY <1>1, <1>2 DEF Drive, Sound

LEMMA EntrySound ==
    ASSUME Sound, job \in Job, job # Idle, job.i <= Len(Entries)
    PROVE  Entries[job.i].w \in Workload /\ Entries[job.i].prev \in SoundLevel(Entries[job.i].w)
  <1>1. Entries \in Seq(SoundEntry) /\ job.i \in 1 .. Len(Entries)
    BY JobParts, LenProperties DEF Sound, Entries
  <1>2. Entries[job.i] \in SoundEntry
    BY <1>1
  <1> QED
    BY <1>2, LevelTypes DEF SoundEntry, SoundLevel, ResourceSnapshot

LEMMA CollectSound ==
    ASSUME TypeOK, Sound, job \in Job, job # Idle, CollectTargets
    PROVE  Sound'
  <1> DEFINE S == {w \in ListCall(job.g, job.i) : Captures(job.local.ann, w)}
             add(items) == [k \in DOMAIN items |-> Captured(items[k])]
  <1> USE DEF TypeOK
  <1>1. job.i \in 1 .. ListCalls(job.g)
    <2>1. ListCalls(job.g) \in Nat
      BY JobParts, ClusterConstants, LenProperties DEF ListCalls
    <2> QED
      BY <2>1, JobParts DEF CollectTargets
  <1>2. S \in SUBSET Workload
    BY <1>1, JobParts, ListCallType
  <1>3. \A w \in S : Captured(w) \in SoundEntry
    <2> SUFFICES ASSUME NEW w \in S
                 PROVE  /\ wl[w].seen \in Replicas
                        /\ w \in Steady => wl[w].seen \in {Home[w], Stopped(w)}
      BY <1>2 DEF Captured, SoundEntry, ResourceSnapshot
    <2>1. wl[w].seen \in Replicas
      BY <1>2, FeedParts DEF ListCall, Level, Absent, Replicas
    <2> QED
      BY <1>2, <2>1, SoundParts DEF SoundLevel
  <1> HIDE DEF S
  <1>4. PICK items \in SetToSeqs(S) :
            job' = [job EXCEPT !.found = @ \o add(items), !.i = @ + 1]
    BY DEF CollectTargets, S
  <1>5. items \in Seq(S)
    BY <1>2, ItemsType
  <1>6. add(items) \in Seq(SoundEntry)
    <2>1. DOMAIN items = 1 .. Len(items) /\ Len(items) \in Nat
      BY <1>5, LenProperties
    <2>2. \A k \in 1 .. Len(items) : Captured(items[k]) \in SoundEntry
      BY <1>3, <1>5, ElementOfSeq
    <2> QED
      BY <2>1, <2>2, SeqDef
  <1>7. job.found \o add(items) \in Seq(SoundEntry)
    BY <1>6, ConcatProperties DEF Sound
  <1>8. job'.local = job.local /\ job'.found = job.found \o add(items)
    BY <1>4 DEF Job
  <1> QED
    BY <1>7, <1>8 DEF Sound, CollectTargets, clusterVars

LEMMA OperatorStepSound ==
    ASSUME TypeOK, Sound, OperatorNext
    PROVE  Sound'
  <1> USE DEF TypeOK
  <1>0. job # Idle => job \in Job /\ job.pc # "idle"
    BY BusyWorker
  <1>1. CASE CollectTargets
    BY <1>0, <1>1, IdleWorker, CollectSound DEF CollectTargets
  <1>2. CASE CaptureSnapshot
    <2>1. job \in Job /\ job # Idle
      BY <1>0, <1>2, IdleWorker DEF CaptureSnapshot
    <2> DEFINE st == [job.local.status EXCEPT !.snapshot = job.found, !.operator = job.operator,
                                              !.reason = job.reason]
    <2>2. st \in Status
      BY <2>1, JobParts DEF Status
    <2>3. st.snapshot = job.found
      BY <2>1, JobParts DEF Status
    <2>4. PatchStatus(st, "scale")
      BY <1>2 DEF CaptureSnapshot
    <2> HIDE DEF st
    <2> QED
      BY <2>1, <2>2, <2>3, <2>4, PatchStatusSound DEF Sound
  <1>3. CASE ScaleEntry
    <2>1. job \in Job /\ job # Idle
      BY <1>0, <1>3, IdleWorker DEF ScaleEntry
    <2> QED
      BY <1>3, <2>1, EntrySound, SoundLevels, DriveSound DEF ScaleEntry
  <1>4. CASE MarkDown
    <2>1. job \in Job /\ job # Idle
      BY <1>0, <1>4, IdleWorker DEF MarkDown
    <2> DEFINE st == [job.local.status EXCEPT !.state = "down"]
    <2>2. st \in Status /\ st.snapshot = job.local.status.snapshot
      BY <2>1, JobParts DEF Status
    <2> HIDE DEF st
    <2> QED
      BY <1>4, <2>1, <2>2, PatchStatusSound DEF MarkDown, Sound, st
  <1>5. CASE RestoreEntry
    <2>1. job \in Job /\ job # Idle
      BY <1>0, <1>5, IdleWorker DEF RestoreEntry
    <2>2. CASE NextEntry /\ UNCHANGED <<clusterVars, faults>>
      <3>1. job'.local = job.local /\ job'.found = job.found
        BY <2>1, <2>2 DEF NextEntry, Job
      <3> QED
        BY <2>1, <2>2, <3>1 DEF clusterVars, Sound
    <2>3. CASE Drive(Entries[job.i].w, Entries[job.i].prev)
      BY <1>5, <2>1, <2>3, EntrySound, DriveSound DEF RestoreEntry
    <2> QED
      BY <1>5, <2>2, <2>3 DEF RestoreEntry
  <1>6. CASE MarkUp
    <2>1. job \in Job /\ job # Idle
      BY <1>0, <1>6, IdleWorker DEF MarkUp
    <2> DEFINE st == [job.local.status EXCEPT !.state = "up", !.operator = job.operator,
                                              !.reason = job.reason, !.snapshot = <<>>]
    <2>2. st \in Status /\ st.snapshot = <<>>
      BY <2>1, JobParts, StatusTypes
    <2>3. <<>> \in Seq(SoundEntry)
      OBVIOUS
    <2>4. PatchStatus(st, "history")
      BY <1>6 DEF MarkUp
    <2> HIDE DEF st
    <2>5. st.snapshot \in Seq(SoundEntry)
      BY <2>2, <2>3
    <2> QED
      BY <2>1, <2>2, <2>4, <2>5, PatchStatusSound
  <1>7. CASE AppendHistory
    <2>1. job \in Job /\ job # Idle
      BY <1>0, <1>7, IdleWorker DEF AppendHistory
    <2>2. JobEntry \in HistoryEntry /\ job.local.status.history \in Seq(HistoryEntry)
      BY <2>1, JobParts DEF JobEntry, HistoryEntry, Status, HistoryList
    <2>3. <<JobEntry>> \o job.local.status.history \in Seq(HistoryEntry)
      BY <2>2
    <2>4. Extended(job.local.status.history) \in HistoryList
      BY <2>3, CappedType DEF Extended
    <2> DEFINE st == [job.local.status EXCEPT !.history = Extended(@)]
    <2>5. st \in Status /\ st.snapshot = job.local.status.snapshot
      BY <2>1, <2>4, JobParts DEF Status
    <2>6. PatchStatus(st, "consume")
      BY <1>7 DEF AppendHistory
    <2> HIDE DEF st
    <2> QED
      BY <2>1, <2>5, <2>6, PatchStatusSound DEF Sound
  <1>8. CASE ConsumeAnnotations
    <2> DEFINE cur == sg[job.g].obj
               ann == MergeAnnotations(cur.ann, job.local.ann, Without(job.local.ann, job.cmd))
               new == [phase |-> cur.phase, status |-> cur.status, ann |-> ann]
    <2>1. job \in Job /\ job # Idle
      BY <1>0, <1>8, IdleWorker DEF ConsumeAnnotations
    <2>2. cur \in Object /\ job.local.ann \in Annotations
      BY <2>1, JobParts, ObjectParts, FeedParts
    <2>3. Without(job.local.ann, job.cmd) \in Annotations
      BY DEF Without, NoAnnotations, Annotations, Command
    <2>4. ann \in Annotations
      BY <2>2, <2>3, ObjectParts, MergeTypes
    <2> HIDE DEF ann
    <2>5. new \in Object /\ new.status.snapshot = cur.status.snapshot
      BY <2>2, <2>4, ObjectParts DEF Object
    <2>6. Commit(job.g, new) /\ job' = Idle /\ UNCHANGED wl
      BY <1>8 DEF ConsumeAnnotations, ann
    <2> HIDE DEF new
    <2> QED
      BY <2>1, <2>5, <2>6, JobParts, RewriteSound DEF Sound
  <1>9. CASE GroupNotFound \/ WorkloadNotFound \/ ApiError
    BY <1>9 DEF GroupNotFound, WorkloadNotFound, ApiError, Fail, Sound
  <1>10. ASSUME NEW g \in Group, ReconcileNothing(g) \/ ReconcileUpFails(g)
         PROVE  Sound'
    BY <1>10 DEF ReconcileNothing, ReconcileUpFails, clusterVars, operatorVars, Sound
  <1>11. ASSUME NEW g \in Group, ReconcileDown(g) \/ ReconcileUp(g)
         PROVE  Sound'
    <2>1. PICK pc : Start(g, sg[g].seen, pc)
      BY <1>11 DEF ReconcileDown, ReconcileUp
    <2>2. job'.local = sg[g].seen /\ job'.found = <<>>
      BY <2>1 DEF Start
    <2> QED
      BY <2>1, <2>2, SoundParts DEF Start, Sound
  <1>12. CASE Crash
    <2>1. /\ \A g \in Group : Relisted(sg[g]) \in Feed(SoundObject)
          /\ \A w \in Workload : Relisted(wl[w]) \in Feed(SoundLevel(w))
      BY FeedTypes, SoundParts DEF Sound
    <2> QED
      BY <1>12, <2>1 DEF Crash, Sound
  <1> QED
    BY <1>1, <1>2, <1>3, <1>4, <1>5, <1>6, <1>7, <1>8, <1>9, <1>10, <1>11, <1>12
       DEF OperatorNext, WorkerStep, Reconcile

LEMMA ClientsStepSound ==
    ASSUME TypeOK, Sound, ClientsNext, UNCHANGED job
    PROVE  Sound'
  <1>1. CASE UNCHANGED sg
    BY <1>1, ClientsWrite DEF TypeOK, Sound
  <1>2. ASSUME NEW g \in Group, NEW u \in User, NEW ann \in Annotations,
               Submit(g, u, ann) \/ Create(g, u, ann)
        PROVE  Sound'
    BY <1>2, ClientsWrite, SubmitSound, CreateSound DEF TypeOK, Sound
  <1> QED
    BY <1>1, <1>2, ClientsWrite DEF TypeOK

LEMMA InitSound == Init => Sound
  <1> SUFFICES ASSUME Init PROVE Sound
    OBVIOUS
  <1>1. \A w \in Workload : Synced(Home[w]) \in Feed(SoundLevel(w))
    BY SoundLevels DEF Synced, Feed
  <1>2. Synced(Fresh) \in Feed(SoundObject)
    BY FreshSound DEF Synced, Feed
  <1> QED
    BY <1>1, <1>2 DEF Init, ClusterInit, OperatorInit, Sound

LEMMA StepSound ==
    ASSUME TypeOK, Sound, [Next]_vars
    PROVE  Sound'
  <1>1. CASE ClusterNext /\ UNCHANGED <<operatorVars, clientsVars>>
    BY <1>1, ClusterStepSound DEF operatorVars
  <1>2. CASE OperatorNext /\ UNCHANGED clientsVars
    BY <1>2, OperatorStepSound
  <1>3. CASE ClientsNext /\ UNCHANGED operatorVars
    BY <1>3, ClientsStepSound DEF operatorVars
  <1>4. CASE UNCHANGED vars
    BY <1>4 DEF vars, clusterVars, operatorVars, clientsVars, Sound
  <1> QED
    BY <1>1, <1>2, <1>3, <1>4 DEF Next

\* A workload that only kshutdown changes is at all times at its owner's level
\* or stopped, and no snapshot records another level for it: under any number of
\* users, groups (overlapping ones too), faults, deletions and stale reads.
THEOREM LevelsNeverInvented == Spec => []NeverInvents
  <1>1. TypeOK /\ Sound /\ [Next]_vars => Sound'
    BY StepSound
  <1> QED
    BY <1>1, InitSound, TypeCorrect, SoundImplies, PTL DEF Spec
=============================================================================
