---------------------------- MODULE WorkerProofs ----------------------------
(***************************************************************************)
(* What the worker knows while it works, given fresh reads and groups that *)
(* stay, and what each of its steps then does to the groups.  Its copy of  *)
(* the group has the server's status at every call, since nobody else      *)
(* writes a status and the answer to each patch is taken in; of the        *)
(* annotations it may be behind.  From this alone the stage of a           *)
(* reconciliation tells the state of the group.                            *)
(***************************************************************************)
EXTENDS ReversibleProofs

Held == sg[job.g].obj.status

CopyInv ==
    /\ job.local.status = Held
    /\ job.local.ann.cmd # "none"
    /\ job.pc = "collect" => Snapshot(job.g) = <<>>
    /\ job.pc \in {"collect", "scale"} => job.cmd = "down" /\ State(job.g) # "down"
    /\ job.pc = "restore" => job.cmd = "up" /\ State(job.g) # "up"
    /\ job.pc \in {"history", "consume"} => State(job.g) = job.cmd

CalmInv ==
    /\ FeedsFresh /\ GroupsLive
    /\ job # Idle => CopyInv

----------------------------------------------------------------------------
(***************************************************************************)
(* The steps, by what they do to the groups and to the worker.             *)
(***************************************************************************)

\* The server's copy of g gets these annotations and this status.
Rewritten(g, ann, status) ==
    /\ sg'[g].obj = [phase |-> "live", ann |-> ann, status |-> status]
    /\ sg'[g] = Synced(sg'[g].obj)
    /\ \A h \in Group : h # g => sg'[h] = sg[h]

\* The worker stays with its group and command.
SameJob ==
    /\ job' \in Job /\ job' # Idle
    /\ job'.g = job.g /\ job'.cmd = job.cmd
    /\ job'.operator = job.operator /\ job'.reason = job.reason

Starts(g) ==
    /\ job = Idle /\ job' # Idle
    /\ UNCHANGED <<sg, wl, faults>>
    /\ job'.g = g /\ job'.cmd = CommandOf(g) /\ job'.operator = sg[g].obj.ann.operator
    /\ job'.local = sg[g].obj /\ job'.found = <<>> /\ CommandOf(g) \in {"down", "up"}
    /\ \/ job'.pc = "collect" /\ job'.cmd = "down" /\ State(g) # "down" /\ Snapshot(g) = <<>>
       \/ job'.pc = "scale" /\ job'.cmd = "down" /\ State(g) # "down" /\ Snapshot(g) # <<>>
       \/ job'.pc = "restore" /\ job'.cmd = "up" /\ State(g) # "up"
       \/ job'.pc = "consume" /\ job'.cmd = State(g)

\* A list or an entry.
Proceeds ==
    /\ job.pc \in {"collect", "scale", "restore"}
    /\ SameJob /\ job'.pc = job.pc /\ job'.local = job.local
    /\ UNCHANGED <<sg, faults>>

\* A status patch, which says exactly what it was meant to say.
Writes(pc, status) ==
    /\ SameJob /\ job'.pc = pc /\ job'.local.status = status
    /\ job'.local.ann = MergeAnnotations(job.local.ann, NoAnnotations, sg[job.g].obj.ann)
    /\ job'.found = <<>>
    /\ Rewritten(job.g, sg[job.g].obj.ann, status)
    /\ UNCHANGED <<wl, faults>>

Collected ==
    \E st \in Status :
        /\ job.pc = "collect" /\ Writes("scale", st)
        /\ st.state = Held.state /\ st.history = Held.history
        /\ st.operator = job.operator /\ st.snapshot = job.found

MarkedDown ==
    \E st \in Status :
        /\ job.pc = "scale" /\ job.i > Len(Entries) /\ Writes("history", st)
        /\ st.state = "down" /\ st.history = Held.history
        /\ st.operator = Held.operator /\ st.snapshot = Held.snapshot

MarkedUp ==
    \E st \in Status :
        /\ job.pc = "restore" /\ job.i > Len(Entries) /\ Writes("history", st)
        /\ st.state = "up" /\ st.history = Held.history
        /\ st.operator = job.operator /\ st.snapshot = <<>>

Appended ==
    \E st \in Status :
        /\ job.pc = "history" /\ Writes("consume", st)
        /\ st.state = Held.state /\ st.history = Extended(Held.history)
        /\ st.operator = Held.operator /\ st.snapshot = Held.snapshot

\* The annotations the worker leaves behind.
Consumed ==
    MergeAnnotations(sg[job.g].obj.ann, job.local.ann, Without(job.local.ann, job.cmd))

Finishes ==
    /\ job.pc = "consume" /\ job' = Idle
    /\ Rewritten(job.g, Consumed, Held)
    /\ UNCHANGED <<wl, faults>>

\* A failed call, a missing workload or a crash.
CutOff ==
    /\ job' = Idle
    /\ UNCHANGED <<sg, wl>>
    /\ faults' = faults + 1 \/ WorkloadNotFound

WorkerDoes ==
    \/ UNCHANGED <<sg, wl, job, faults>>
    \/ \E g \in Group : Starts(g)
    \/ Proceeds
    \/ Collected \/ MarkedDown \/ MarkedUp \/ Appended
    \/ Finishes
    \/ CutOff

----------------------------------------------------------------------------
\* A record that is merged over itself is replaced; what is merged over nothing,
\* too.
LEMMA MergedStatus ==
    ASSUME NEW s \in Status, NEW st \in Status
    PROVE  MergeStatus(s, s, st) = st /\ MergeStatus(st, NoStatus, st) = st
  BY DEF MergeStatus, Merged, Status

LEMMA MergedAnnotations ==
    ASSUME NEW a \in Annotations, NEW b \in Annotations
    PROVE  MergeAnnotations(a, a, b) = b /\ MergeAnnotations(a, b, a) = a
  BY DEF MergeAnnotations, Merged, Annotations

LEMMA CommitRewrites ==
    ASSUME Calm, TypeOK, CalmInv, NEW g \in Group, NEW ann \in Annotations, NEW st \in Status,
           Commit(g, [phase |-> sg[g].obj.phase, ann |-> ann, status |-> st])
    PROVE  Rewritten(g, ann, st)
  <1> DEFINE o == [phase |-> sg[g].obj.phase, ann |-> ann, status |-> st]
  <1>1. o \in Object /\ o = [phase |-> "live", ann |-> ann, status |-> st]
    BY DEF CalmInv, GroupsLive, Object
  <1> HIDE DEF o
  <1>2. sg' = [sg EXCEPT ![g] = Synced(o)]
    BY <1>1, CommitFresh DEF CalmInv, o
  <1>3. sg'[g] = Synced(o) /\ sg'[g].obj = o /\ \A h \in Group : h # g => sg'[h] = sg[h]
    BY <1>2, SyncedParts DEF TypeOK, ClusterTypeOK
  <1> QED
    BY <1>1, <1>3 DEF Rewritten

LEMMA RewrittenFresh ==
    ASSUME CalmInv, NEW g \in Group, NEW ann, NEW st, Rewritten(g, ann, st)
    PROVE  /\ \A h \in Group : sg'[h] = Synced(sg'[h].obj)
           /\ GroupsLive'
  BY DEF CalmInv, FeedsFresh, GroupsLive, Rewritten

\* What a status patch of the worker does.
LEMMA PatchWrites ==
    ASSUME Calm, TypeOK, CalmInv, job \in Job, job # Idle, NEW st \in Status,
           NEW pc \in {"scale", "history", "consume"}, PatchStatus(st, pc)
    PROVE  Writes(pc, st)
  <1> DEFINE cur == sg[job.g].obj
             new == [phase |-> cur.phase, ann |-> cur.ann,
                     status |-> MergeStatus(cur.status, job.local.status, st)]
             local == Answered([job.local EXCEPT !.status = st], new)
  <1> USE DEF TypeOK
  <1>1. /\ job.g \in Group /\ cur \in Object /\ cur.status \in Status /\ cur.ann \in Annotations
        /\ job.local.status = cur.status /\ job.local \in Object
    BY JobParts, FeedParts, ObjectParts DEF CalmInv, CopyInv, Held
  <1>2. new = [phase |-> cur.phase, ann |-> cur.ann, status |-> st]
    BY <1>1, MergedStatus
  <1>3. /\ Commit(job.g, new) /\ UNCHANGED <<wl, faults>>
        /\ job' = [job EXCEPT !.pc = pc, !.found = <<>>, !.i = 1, !.local = local]
    BY DEF PatchStatus
  <1>4. Rewritten(job.g, cur.ann, st)
    BY <1>1, <1>2, <1>3, CommitRewrites
  <1>5. /\ local.status = st
        /\ local.ann = MergeAnnotations(job.local.ann, NoAnnotations, cur.ann)
    <2> DEFINE held == [job.local EXCEPT !.status = st]
    <2>1. held.status = st /\ held.ann = job.local.ann
      BY <1>1 DEF Object
    <2>2. new.status = st /\ new.ann = cur.ann
      BY <1>2
    <2> HIDE DEF held, new
    <2>3. local = Answered(held, new)
      BY DEF held, new
    <2> QED
      BY <2>1, <2>2, <2>3, MergedStatus DEF Answered
  <1>6. job' \in Job
    <2>1. new \in Object
      BY <1>1, <1>2 DEF Object
    <2>2. local \in Object
      BY <1>1, <2>1, AnsweredTypes
    <2> HIDE DEF local
    <2>3. job' = [pc |-> pc, g |-> job.g, cmd |-> job.cmd, local |-> local,
                  operator |-> job.operator, reason |-> job.reason, found |-> <<>>, i |-> 1]
      BY <1>3 DEF Job
    <2> QED
      BY <2>2, <2>3, JobParts DEF Job
  <1> HIDE DEF local, new
  <1>7. /\ job'.pc = pc /\ job'.g = job.g /\ job'.cmd = job.cmd /\ job'.operator = job.operator
        /\ job'.reason = job.reason /\ job'.local = local /\ job'.found = <<>> /\ job' # Idle
    <2>1. job' # Idle
      BY <1>6, IdleWorker DEF Job
    <2> QED
      BY <1>3, <2>1 DEF Job
  <1> QED
    BY <1>3, <1>4, <1>5, <1>6, <1>7 DEF Writes, SameJob

\* Every step of the operator is one of these.
LEMMA WorkerActs ==
    ASSUME Calm, TypeOK, CalmInv, OperatorNext
    PROVE  WorkerDoes
  <1> USE DEF TypeOK
  <1>0. job # Idle => job \in Job /\ job.pc # "idle" /\ job.g \in Group /\ job.local \in Object
                      /\ Held = job.local.status /\ Held \in Status
                      /\ job.found \in Seq(ResourceSnapshot)
    BY BusyWorker, JobParts, ObjectParts DEF CalmInv, CopyInv
  <1>1. CASE CollectTargets
    <2>1. job \in Job /\ job # Idle
      BY <1>0, <1>1, IdleWorker DEF CollectTargets
    <2>2. job' \in Job
      BY <1>1, <2>1, CollectTypes
    <2>3. job' # Idle
      BY <2>2, IdleWorker DEF Job
    <2>4. /\ job'.pc = job.pc /\ job'.g = job.g /\ job'.cmd = job.cmd /\ job'.local = job.local
          /\ job'.operator = job.operator /\ job'.reason = job.reason
      BY <1>1, <2>1 DEF CollectTargets, Job
    <2> QED
      BY <1>1, <2>2, <2>3, <2>4
         DEF CollectTargets, clusterVars, WorkerDoes, Proceeds, SameJob
  <1>2. CASE ScaleEntry \/ RestoreEntry
    <2>1. job \in Job /\ job # Idle /\ job.pc \in {"scale", "restore"}
      BY <1>0, <1>2, IdleWorker DEF ScaleEntry, RestoreEntry
    <2>2. job' = [job EXCEPT !.i = @ + 1] /\ UNCHANGED <<sg, faults>>
      BY <1>2 DEF ScaleEntry, RestoreEntry, Drive, NextEntry, clusterVars
    <2>3. job' \in Job
      BY <2>1, <2>2 DEF Job
    <2>4. job' # Idle
      BY <2>3, IdleWorker DEF Job
    <2>5. /\ job'.pc = job.pc /\ job'.g = job.g /\ job'.cmd = job.cmd /\ job'.local = job.local
          /\ job'.operator = job.operator /\ job'.reason = job.reason
      BY <2>1, <2>2 DEF Job
    <2> QED
      BY <2>1, <2>2, <2>3, <2>4, <2>5 DEF WorkerDoes, Proceeds, SameJob
  <1>3. CASE CaptureSnapshot
    <2>1. job \in Job /\ job # Idle /\ job.pc = "collect"
      BY <1>0, <1>3, IdleWorker DEF CaptureSnapshot
    <2> DEFINE st == [job.local.status EXCEPT !.snapshot = job.found, !.operator = job.operator,
                                              !.reason = job.reason]
    <2>2. /\ st \in Status /\ st.state = Held.state /\ st.history = Held.history
          /\ st.operator = job.operator /\ st.snapshot = job.found
      BY <1>0, <2>1, JobParts DEF Status
    <2>3. PatchStatus(st, "scale")
      BY <1>3 DEF CaptureSnapshot
    <2> HIDE DEF st
    <2>4. Writes("scale", st)
      BY <2>1, <2>2, <2>3, PatchWrites
    <2>5. Collected
      BY <2>1, <2>2, <2>4 DEF Collected
    <2> QED
      BY <2>5 DEF WorkerDoes
  <1>4. CASE MarkDown
    <2>1. job \in Job /\ job # Idle /\ job.pc = "scale"
      BY <1>0, <1>4, IdleWorker DEF MarkDown
    <2> DEFINE st == [job.local.status EXCEPT !.state = "down"]
    <2>2. /\ st \in Status /\ st.state = "down" /\ st.history = Held.history
          /\ st.operator = Held.operator /\ st.snapshot = Held.snapshot
      BY <1>0, <2>1, JobParts DEF Status
    <2>3. PatchStatus(st, "history")
      BY <1>4 DEF MarkDown
    <2> HIDE DEF st
    <2>4. Writes("history", st)
      BY <2>1, <2>2, <2>3, PatchWrites
    <2>5. MarkedDown
      BY <1>4, <2>1, <2>2, <2>4 DEF MarkedDown, MarkDown
    <2> QED
      BY <2>5 DEF WorkerDoes
  <1>5. CASE MarkUp
    <2>1. job \in Job /\ job # Idle /\ job.pc = "restore"
      BY <1>0, <1>5, IdleWorker DEF MarkUp
    <2> DEFINE st == [job.local.status EXCEPT !.state = "up", !.operator = job.operator,
                                              !.reason = job.reason, !.snapshot = <<>>]
    <2>2. st \in Status /\ st.snapshot = <<>>
      BY <1>0, <2>1, JobParts, StatusTypes
    <2>3. st.state = "up" /\ st.history = Held.history /\ st.operator = job.operator
      BY <1>0, <2>1, JobParts DEF Status
    <2>4. PatchStatus(st, "history")
      BY <1>5 DEF MarkUp
    <2> HIDE DEF st
    <2>5. Writes("history", st)
      BY <2>1, <2>2, <2>4, PatchWrites
    <2>6. MarkedUp
      BY <1>5, <2>1, <2>2, <2>3, <2>5 DEF MarkedUp, MarkUp
    <2> QED
      BY <2>6 DEF WorkerDoes
  <1>6. CASE AppendHistory
    <2>1. job \in Job /\ job # Idle /\ job.pc = "history"
      BY <1>0, <1>6, IdleWorker DEF AppendHistory
    <2>2. JobEntry \in HistoryEntry /\ job.local.status.history \in Seq(HistoryEntry)
      BY <2>1, JobParts DEF JobEntry, HistoryEntry, Status, HistoryList
    <2>3. <<JobEntry>> \o job.local.status.history \in Seq(HistoryEntry)
      BY <2>2
    <2>4. Extended(job.local.status.history) \in HistoryList
      BY <2>3, CappedType DEF Extended
    <2> DEFINE st == [job.local.status EXCEPT !.history = Extended(@)]
    <2>5. /\ st \in Status /\ st.state = Held.state
          /\ st.history = Extended(Held.history)
          /\ st.operator = Held.operator /\ st.snapshot = Held.snapshot
      BY <1>0, <2>1, <2>4, JobParts DEF Status
    <2>6. PatchStatus(st, "consume")
      BY <1>6 DEF AppendHistory
    <2> HIDE DEF st
    <2>7. Writes("consume", st)
      BY <2>1, <2>5, <2>6, PatchWrites
    <2>8. Appended
      BY <2>1, <2>5, <2>7 DEF Appended
    <2> QED
      BY <2>8 DEF WorkerDoes
  <1>7. CASE ConsumeAnnotations
    <2>1. job \in Job /\ job # Idle /\ job.pc = "consume"
      BY <1>0, <1>7, IdleWorker DEF ConsumeAnnotations
    <2>2. sg[job.g].obj.ann \in Annotations /\ job.local.ann \in Annotations
      BY <1>0, <2>1, ObjectParts, FeedParts
    <2>3. Without(job.local.ann, job.cmd) \in Annotations
      BY DEF Without, NoAnnotations, Annotations, Command
    <2>4. Consumed \in Annotations
      BY <2>2, <2>3, MergeTypes DEF Consumed
    <2>5. /\ Commit(job.g, [phase |-> sg[job.g].obj.phase, ann |-> Consumed, status |-> Held])
          /\ job' = Idle /\ UNCHANGED <<wl, faults>>
      <3>1. [phase |-> sg[job.g].obj.phase, status |-> Held, ann |-> Consumed]
                = [phase |-> sg[job.g].obj.phase, ann |-> Consumed, status |-> Held]
        OBVIOUS
      <3> QED
        BY <1>7, <3>1 DEF ConsumeAnnotations, Consumed, Held
    <2>6. Rewritten(job.g, Consumed, Held)
      BY <1>0, <2>1, <2>4, <2>5, CommitRewrites
    <2> QED
      BY <2>1, <2>5, <2>6 DEF WorkerDoes, Finishes
  <1>8. CASE GroupNotFound
    <2>1. job # Idle
      BY <1>8, IdleWorker DEF GroupNotFound
    <2> QED
      BY <1>0, <1>8, <2>1 DEF GroupNotFound, CalmInv, GroupsLive
  <1>9. CASE WorkloadNotFound
    BY <1>9 DEF WorkloadNotFound, Fail, WorkerDoes, CutOff
  <1>10. CASE ApiError \/ Crash
    <2>1. faults' = faults + 1
      BY <1>10 DEF ApiError, Crash, OperatorTypeOK
    <2>2. CASE ApiError
      BY <2>1, <2>2 DEF ApiError, Fail, WorkerDoes, CutOff
    <2>3. CASE Crash
      <3>1. \A g \in Group : Relisted(sg[g]) = sg[g]
        BY DEF CalmInv, FeedsFresh, Relisted
      <3>2. \A w \in Workload : Relisted(wl[w]) = wl[w]
        BY DEF CalmInv, FeedsFresh, Relisted
      <3>3. UNCHANGED <<sg, wl>>
        BY <2>3, <3>1, <3>2 DEF Crash, ClusterTypeOK
      <3> QED
        BY <2>1, <2>3, <3>3 DEF Crash, WorkerDoes, CutOff
    <2> QED
      BY <1>10, <2>2, <2>3
  <1>11. ASSUME NEW g \in Group, ReconcileNothing(g) \/ ReconcileUpFails(g)
         PROVE  WorkerDoes
    BY <1>11 DEF ReconcileNothing, ReconcileUpFails, clusterVars, operatorVars, WorkerDoes
  <1>12. ASSUME NEW g \in Group, ReconcileDown(g) \/ ReconcileUp(g)
         PROVE  Starts(g)
    <2> DEFINE o == sg[g].seen
    <2>1. o = sg[g].obj /\ o.ann.cmd = CommandOf(g) /\ o.status.state = State(g)
          /\ o.status.snapshot = Snapshot(g)
      BY FreshParts DEF CalmInv, CommandOf, State, Snapshot
    <2>2. PICK pc \in {"collect", "scale", "restore", "consume"} :
            /\ Start(g, o, pc) /\ job = Idle /\ CommandOf(g) \in {"down", "up"}
            /\ \/ pc = "collect" /\ CommandOf(g) = "down" /\ State(g) # "down" /\ Snapshot(g) = <<>>
               \/ pc = "scale" /\ CommandOf(g) = "down" /\ State(g) # "down" /\ Snapshot(g) # <<>>
               \/ pc = "restore" /\ CommandOf(g) = "up" /\ State(g) # "up"
               \/ pc = "consume" /\ CommandOf(g) = State(g)
      BY <1>12, <2>1 DEF ReconcileDown, ReconcileUp, DownStart, UpStart, Pending, Takes
    <2>3. /\ job'.pc = pc /\ job'.g = g /\ job'.local = o /\ job'.found = <<>>
          /\ job'.cmd = o.ann.cmd /\ job'.operator = o.ann.operator
          /\ UNCHANGED <<sg, wl, faults>>
      BY <2>2 DEF Start
    <2>4. job' # Idle
      BY <2>2, <2>3, IdleWorker
    <2> QED
      BY <2>1, <2>2, <2>3, <2>4 DEF Starts
  <1> QED
    <2>1. CASE WorkerStep
      BY <1>1, <1>2, <1>3, <1>4, <1>5, <1>6, <1>7, <1>8, <1>9, <2>1 DEF WorkerStep
    <2>2. ASSUME NEW g \in Group, Reconcile(g)
          PROVE  WorkerDoes
      BY <1>11, <1>12, <2>2 DEF Reconcile, WorkerDoes
    <2> QED
      BY <1>10, <2>1, <2>2 DEF OperatorNext

----------------------------------------------------------------------------
(***************************************************************************)
(* The steps that are not the worker's.                                    *)
(***************************************************************************)

\* With fresh reads and groups that stay, the surroundings only change workloads
\* of others.
LEMMA SurroundingsAct ==
    ASSUME Calm, TypeOK, CalmInv, ClusterNext
    PROVE  /\ UNCHANGED sg
           /\ \A w \in Steady : wl'[w] = wl[w]
           /\ \A w \in Workload : wl'[w] = Synced(wl'[w].obj)
  <1> USE DEF TypeOK
  <1>1. ASSUME NEW g \in Group,
               DeliverGroup(g) \/ DeleteGroup(g) \/ FinalizeGroup(g) \/ DefineGroup(g)
        PROVE  FALSE
    BY <1>1, FreshParts
       DEF DeliverGroup, DeleteGroup, FinalizeGroup, DefineGroup, Calm, CalmInv, GroupsLive
  <1>2. ASSUME NEW w \in Workload, DeliverWorkload(w)
        PROVE  FALSE
    BY <1>2, FreshParts DEF DeliverWorkload, CalmInv
  <1>3. PICK w \in Disturbed : \E level \in LevelsOf(w) \union {Absent} : Disturb(w, level)
    BY <1>1, <1>2 DEF ClusterNext
  <1>4. PICK level \in LevelsOf(w) \union {Absent} : Disturb(w, level)
    BY <1>3
  <1>5. w \in Workload /\ w \notin Steady /\ level \in Level
    BY ClusterConstants, LevelTypes DEF Steady
  <1>6. wl' = [wl EXCEPT ![w] = Synced(level)] /\ UNCHANGED sg
    BY <1>4, <1>5, ScaleFresh DEF Disturb, CalmInv
  <1>7. \A v \in Workload : wl'[v] = Synced(wl'[v].obj)
    BY <1>5, <1>6, SyncedParts DEF ClusterTypeOK, CalmInv, FeedsFresh
  <1>8. \A v \in Steady : wl'[v] = wl[v]
    BY <1>5, <1>6 DEF ClusterTypeOK, Steady
  <1> QED
    BY <1>6, <1>7, <1>8

\* A write of annotations as the webhooks let it through.
Admitted(g, u, ann, new) ==
    /\ \E missed \in Missed : new = IF missed THEN ann ELSE Default(sg[g].obj.ann, ann, u)
    /\ ValidateUpdate(sg[g].obj.ann, new, u, CachedTargets(g), Recorded(Snapshot(g)))
    /\ Rewritten(g, new, sg[g].obj.status)

LEMMA SubmitActs ==
    ASSUME Calm, TypeOK, CalmInv, NEW g \in Group, NEW u \in User, NEW ann \in Annotations,
           Submit(g, u, ann)
    PROVE  \/ UNCHANGED sg
           \/ \E new \in Annotations : Admitted(g, u, ann, new)
  <1> DEFINE o == sg[g].obj
             made(missed) == IF missed THEN ann ELSE Default(o.ann, ann, u)
  <1>1. \A missed : made(missed) \in Annotations
    BY DEF Default, Annotations
  <1>2. PICK missed \in Missed :
            \/ /\ ValidateUpdate(o.ann, made(missed), u, CachedTargets(g),
                                 Recorded(o.status.snapshot))
               /\ Commit(g, [phase |-> o.phase, ann |-> made(missed), status |-> o.status])
            \/ UNCHANGED <<sg, queue>>
    BY DEF Submit
  <1>3. o.status \in Status
    BY FeedParts, ObjectParts DEF TypeOK
  <1>4. PICK new \in Annotations : new = made(missed)
    BY <1>1
  <1>5. CASE UNCHANGED <<sg, queue>>
    BY <1>5
  <1>6. CASE /\ ValidateUpdate(o.ann, new, u, CachedTargets(g), Recorded(o.status.snapshot))
             /\ Commit(g, [phase |-> o.phase, ann |-> new, status |-> o.status])
    <2>1. Rewritten(g, new, o.status)
      BY <1>3, <1>6, CommitRewrites
    <2> QED
      BY <1>4, <1>6, <2>1 DEF Admitted, Snapshot
  <1> QED
    BY <1>2, <1>4, <1>5, <1>6

\* A client writes annotations, or nothing.
LEMMA ClientsAct ==
    ASSUME Calm, TypeOK, CalmInv, ClientsNext
    PROVE  /\ UNCHANGED wl
           /\ \/ UNCHANGED sg
              \/ \E g \in Group, new \in Annotations : Rewritten(g, new, sg[g].obj.status)
  <1>1. ASSUME NEW g \in Group, NEW u \in User, NEW ann \in Annotations, Create(g, u, ann)
        PROVE  FALSE
    BY <1>1 DEF Create, CalmInv, GroupsLive
  <1>2. ASSUME NEW g \in Group, NEW u \in User, NEW ann \in Annotations, Submit(g, u, ann)
        PROVE  \/ UNCHANGED sg
               \/ \E new \in Annotations : Rewritten(g, new, sg[g].obj.status)
    BY <1>2, SubmitActs DEF Admitted
  <1> QED
    BY <1>1, <1>2, ClientsWrite DEF TypeOK

----------------------------------------------------------------------------
(***************************************************************************)
(* The invariant.                                                          *)
(***************************************************************************)

LEMMA LevelsStayFresh ==
    ASSUME Calm, TypeOK, CalmInv, OperatorNext
    PROVE  \A w \in Workload : wl'[w] = Synced(wl'[w].obj)
  <1> USE DEF TypeOK
  <1>1. CASE UNCHANGED wl
    BY <1>1 DEF CalmInv, FeedsFresh
  <1>2. ASSUME NEW w \in Workload, NEW level \in Replicas, Drive(w, level)
        PROVE  \A v \in Workload : wl'[v] = Synced(wl'[v].obj)
    <2>1. CASE Scale(w, level)
      <3>1. wl' = [wl EXCEPT ![w] = Synced(level)]
        BY <2>1, LevelTypes, ScaleFresh DEF CalmInv
      <3> QED
        BY <3>1, SyncedParts DEF ClusterTypeOK, CalmInv, FeedsFresh
    <2> QED
      BY <1>1, <1>2, <2>1 DEF Drive
  <1>3. CASE ScaleEntry \/ RestoreEntry
    <2>1. job \in Job /\ job.i <= Len(Entries)
      BY <1>3, BusyWorker, IdleWorker DEF ScaleEntry, RestoreEntry
    <2>2. /\ Entries[job.i].w \in Workload /\ Entries[job.i].prev \in Replicas
          /\ Stopped(Entries[job.i].w) \in Replicas
      BY <2>1, EntryType, LevelTypes
    <2> QED
      BY <1>1, <1>2, <1>3, <2>2 DEF ScaleEntry, RestoreEntry, clusterVars
  <1>4. CASE Crash
    <2>1. \A w \in Workload : wl'[w] = Synced(wl[w].obj)
      BY <1>4 DEF Crash, Relisted
    <2> QED
      BY <2>1, SyncedParts
  <1>5. CASE ~ (ScaleEntry \/ RestoreEntry \/ Crash)
    <2>1. UNCHANGED wl
      BY <1>5
         DEF OperatorNext, WorkerStep, Reconcile, CollectTargets, CaptureSnapshot, MarkDown, MarkUp,
             AppendHistory, PatchStatus, ConsumeAnnotations, GroupNotFound, WorkloadNotFound,
             ApiError, Fail, ReconcileNothing, ReconcileDown, ReconcileUp, ReconcileUpFails, Start,
             clusterVars
    <2> QED
      BY <1>1, <2>1
  <1> QED
    BY <1>3, <1>4, <1>5

LEMMA CalmCopy ==
    ASSUME CalmInv, job # Idle, UNCHANGED job,
           sg'[job.g].obj.status = sg[job.g].obj.status
    PROVE  CopyInv'
  BY DEF CalmInv, CopyInv, Held, Snapshot, State

\* A patch leaves the worker with the status the server now has, and still with a
\* command.
LEMMA WritesCopy ==
    ASSUME TypeOK, CalmInv, job \in Job, job # Idle, NEW pc, NEW st \in Status, Writes(pc, st)
    PROVE  /\ job'.local.status = Held' /\ job'.local.ann.cmd # "none"
           /\ job'.pc = pc /\ job'.cmd = job.cmd /\ job'.g = job.g
           /\ State(job.g)' = st.state /\ Snapshot(job.g)' = st.snapshot
  <1>1. PICK g \in Group : g = job.g
    BY JobParts
  <1>2. /\ job'.g = g /\ job'.local.status = st /\ job'.pc = pc /\ job'.cmd = job.cmd
        /\ sg'[g].obj.status = st
        /\ job'.local.ann = MergeAnnotations(job.local.ann, NoAnnotations, sg[g].obj.ann)
    BY <1>1 DEF Writes, SameJob, Rewritten
  <1>3. job'.local.ann.cmd # "none"
    BY <1>2 DEF MergeAnnotations, Merged, NoAnnotations, CalmInv, CopyInv
  <1> QED
    BY <1>1, <1>2, <1>3 DEF Held, State, Snapshot

LEMMA CalmOperator ==
    ASSUME Calm, TypeOK, CalmInv, OperatorNext
    PROVE  CalmInv'
  <1> USE DEF TypeOK
  <1>0. job # Idle => job \in Job /\ job.g \in Group
    BY BusyWorker, JobParts
  <1>1. WorkerDoes
    BY WorkerActs
  <1>2. (\A g \in Group : sg'[g] = Synced(sg'[g].obj)) /\ GroupsLive'
    <2>1. CASE UNCHANGED sg
      BY <2>1 DEF CalmInv, FeedsFresh, GroupsLive
    <2>2. ASSUME NEW ann, NEW st, job # Idle, Rewritten(job.g, ann, st)
          PROVE  (\A g \in Group : sg'[g] = Synced(sg'[g].obj)) /\ GroupsLive'
      BY <1>0, <2>2, RewrittenFresh
    <2> QED
      BY <1>1, <2>1, <2>2, IdleWorker
         DEF WorkerDoes, Starts, Proceeds, Collected, MarkedDown, MarkedUp, Appended, Writes,
             Finishes, CutOff
  <1>3. FeedsFresh'
    BY <1>2, LevelsStayFresh DEF FeedsFresh
  <1>4. (job # Idle => CopyInv)'
    <2>1. CASE UNCHANGED <<sg, job>>
      BY <2>1, CalmCopy
    <2>2. ASSUME NEW g \in Group, Starts(g)
          PROVE  CopyInv'
      BY <2>2 DEF Starts, CopyInv, Held, State, Snapshot, CommandOf
    <2>3. CASE Proceeds
      <3>1. job # Idle
        BY <2>3, IdleWorker DEF Proceeds
      <3> QED
        BY <2>3, <3>1 DEF Proceeds, SameJob, CalmInv, CopyInv, Held, State, Snapshot
    <2>4. CASE Collected
      <3>1. PICK st \in Status : /\ job.pc = "collect" /\ Writes("scale", st)
                                 /\ st.state = Held.state
        BY <2>4 DEF Collected
      <3>2. job # Idle /\ job.cmd = "down" /\ State(job.g) # "down" /\ Held.state = State(job.g)
        BY <3>1, IdleWorker DEF CalmInv, CopyInv, Held, State
      <3> QED
        BY <1>0, <3>1, <3>2, WritesCopy DEF CopyInv
    <2>5. CASE MarkedDown
      <3>1. PICK st \in Status : job.pc = "scale" /\ Writes("history", st) /\ st.state = "down"
        BY <2>5 DEF MarkedDown
      <3>2. job # Idle /\ job.cmd = "down"
        BY <3>1, IdleWorker DEF CalmInv, CopyInv
      <3> QED
        BY <1>0, <3>1, <3>2, WritesCopy DEF CopyInv
    <2>6. CASE MarkedUp
      <3>1. PICK st \in Status : job.pc = "restore" /\ Writes("history", st) /\ st.state = "up"
        BY <2>6 DEF MarkedUp
      <3>2. job # Idle /\ job.cmd = "up"
        BY <3>1, IdleWorker DEF CalmInv, CopyInv
      <3> QED
        BY <1>0, <3>1, <3>2, WritesCopy DEF CopyInv
    <2>7. CASE Appended
      <3>1. PICK st \in Status : /\ job.pc = "history" /\ Writes("consume", st)
                                 /\ st.state = Held.state
        BY <2>7 DEF Appended
      <3>2. job # Idle /\ Held.state = job.cmd
        BY <3>1, IdleWorker DEF CalmInv, CopyInv, Held, State
      <3> QED
        BY <1>0, <3>1, <3>2, WritesCopy DEF CopyInv
    <2> QED
      BY <1>1, <2>1, <2>2, <2>3, <2>4, <2>5, <2>6, <2>7 DEF WorkerDoes, Finishes, CutOff
  <1> QED
    BY <1>2, <1>3, <1>4 DEF CalmInv

LEMMA CalmStep ==
    ASSUME Calm, TypeOK, CalmInv, [Next]_vars
    PROVE  CalmInv'
  <1>0. job # Idle => job.g \in Group
    BY BusyWorker, JobParts DEF TypeOK
  <1>1. CASE ClusterNext /\ UNCHANGED <<operatorVars, clientsVars>>
    <2>1. UNCHANGED <<sg, job>> /\ \A w \in Workload : wl'[w] = Synced(wl'[w].obj)
      BY <1>1, SurroundingsAct DEF operatorVars
    <2>2. (job # Idle => CopyInv)'
      BY <2>1, CalmCopy
    <2> QED
      BY <2>1, <2>2 DEF CalmInv, FeedsFresh, GroupsLive
  <1>2. CASE OperatorNext /\ UNCHANGED clientsVars
    BY <1>2, CalmOperator
  <1>3. CASE ClientsNext /\ UNCHANGED operatorVars
    <2>1. UNCHANGED <<wl, job>>
      BY <1>3, ClientsAct DEF operatorVars
    <2>2. CASE UNCHANGED sg
      <3>1. (job # Idle => CopyInv)'
        BY <2>1, <2>2, CalmCopy
      <3> QED
        BY <2>1, <2>2, <3>1 DEF CalmInv, FeedsFresh, GroupsLive
    <2>3. ASSUME NEW g \in Group, NEW new \in Annotations, Rewritten(g, new, sg[g].obj.status)
          PROVE  CalmInv'
      <3>1. (\A h \in Group : sg'[h] = Synced(sg'[h].obj)) /\ GroupsLive'
        BY <2>3, RewrittenFresh
      <3>2. \A h \in Group : sg'[h].obj.status = sg[h].obj.status
        BY <2>3 DEF Rewritten
      <3>3. (job # Idle => CopyInv)'
        BY <1>0, <2>1, <3>2, CalmCopy
      <3> QED
        BY <2>1, <3>1, <3>3 DEF CalmInv, FeedsFresh
    <2> QED
      BY <1>3, <2>2, <2>3, ClientsAct
  <1>4. CASE UNCHANGED vars
    <2>1. UNCHANGED <<sg, wl, job>>
      BY <1>4 DEF vars, clusterVars, operatorVars
    <2>2. (job # Idle => CopyInv)'
      BY <2>1, CalmCopy
    <2> QED
      BY <2>1, <2>2 DEF CalmInv, FeedsFresh, GroupsLive
  <1> QED
    BY <1>1, <1>2, <1>3, <1>4 DEF Next

LEMMA CalmInit == Init => CalmInv
  BY RevInit DEF RevInv, CalmInv, Init, OperatorInit

\* With fresh reads, and groups that stay, the worker's copy has the server's
\* status at every call, and the stage it is at tells the state of its group.
THEOREM CopyIsCurrent ==
    ASSUME Calm
    PROVE  Spec => []CalmInv
  <1>1. TypeOK /\ CalmInv /\ [Next]_vars => CalmInv'
    BY CalmStep
  <1> QED
    BY <1>1, CalmInit, TypeCorrect, PTL DEF Spec
=============================================================================
