------------------------------ MODULE Operator ------------------------------
(***************************************************************************)
(* The ShutdownGroup controller (internal/controller): one worker that     *)
(* takes a group from the queue and runs Reconcile on its cached copy.  A  *)
(* reconciliation is cut at its calls to the API server: one action per    *)
(* list, workload or patch of the group.  A call that fails, and the death *)
(* of the process, end it where it stands; what it has written stays.      *)
(***************************************************************************)
EXTENDS Cluster, SequencesExt

CONSTANT MaxFaults      \* bound: failed calls and crashes in a behaviour
ASSUME OperatorConstants == MaxFaults \in Nat

VARIABLES
    job,        \* the reconciliation under way
    faults      \* failed calls and crashes so far

operatorVars == <<job, faults>>

(***************************************************************************)
(* job.pc is the call the worker makes next:                               *)
(*   collect - List number i, or the snapshot patch after the last List    *)
(*   scale   - entry i of the snapshot, or the patch that says down        *)
(*   restore - entry i of the snapshot, or the patch that says up          *)
(*   history, consume - the patches that end a command                     *)
(* local is the worker's copy of the group: the cached object at first,    *)
(* then what the server's answer to the last patch makes of it.            *)
(***************************************************************************)
Job == [pc : {"collect", "scale", "restore", "history", "consume"},
        g : Group, cmd : {"down", "up"}, local : Object,
        operator : User \union {None}, reason : Reason \union {None},
        found : Seq(ResourceSnapshot), i : Nat \ {0}]

Idle == [pc |-> "idle"]

OperatorTypeOK ==
    /\ job \in Job \union {Idle}
    /\ faults \in 0 .. MaxFaults

OperatorInit == job = Idle /\ faults = 0

----------------------------------------------------------------------------
\* The worker takes g from the queue and reads its cached copy o.
Takes(g) == job = Idle /\ g \in queue

Start(g, o, pc) ==
    /\ job' = [pc |-> pc, g |-> g, cmd |-> o.ann.cmd, local |-> o,
               operator |-> o.ann.operator, reason |-> o.ann.reason,
               found |-> <<>>, i |-> 1]
    /\ queue' = queue \ {g}
    /\ UNCHANGED <<sg, wl, faults>>

Pending(o, cmd) == o.phase = "live" /\ o.ann.cmd = cmd

\* Not found, being deleted, or without a command.
ReconcileNothing(g) ==
    /\ Takes(g)
    /\ ~ \E cmd \in {"down", "up"} : Pending(sg[g].seen, cmd)
    /\ queue' = queue \ {g}
    /\ UNCHANGED <<sg, wl, job, faults>>

\* Mutant: the snapshot is collected again on re-entry.
DownStart_Recollect(o) == IF o.status.state = "down" THEN "consume" ELSE "collect"

\* Already down: only the annotations go.  A snapshot that exists is used
\* again (crash recovery), otherwise one is collected.
DownStart(o) ==
    IF o.status.state = "down" THEN "consume"
    ELSE IF o.status.snapshot = <<>> THEN "collect" ELSE "scale"

ReconcileDown(g) ==
    /\ Takes(g)
    /\ Pending(sg[g].seen, "down")
    /\ Start(g, sg[g].seen, DownStart(sg[g].seen))

\* Mutant: an up that has been carried out is carried out again.
UpStart_Always(o) == "restore"

UpStart(o) == IF o.status.state = "up" THEN "consume" ELSE "restore"

\* Neither up nor holding a snapshot: Reconcile returns an error.
CannotRestore(o) == o.status.state # "up" /\ o.status.snapshot = <<>>

ReconcileUp(g) ==
    /\ Takes(g)
    /\ Pending(sg[g].seen, "up")
    /\ ~ CannotRestore(sg[g].seen)
    /\ Start(g, sg[g].seen, UpStart(sg[g].seen))

\* The error puts the group back into the queue: nothing has changed.
ReconcileUpFails(g) ==
    /\ Takes(g)
    /\ Pending(sg[g].seen, "up")
    /\ CannotRestore(sg[g].seen)
    /\ UNCHANGED <<clusterVars, operatorVars>>

----------------------------------------------------------------------------
\* Every target is listed three times, once per kind.
ListOrder == <<"Deployment", "StatefulSet", "CronJob">>
ListCalls(g) == 3 * Len(Targets[g])
ListCall(g, i) ==
    {w \in Targets[g][1 + ((i - 1) \div 3)] :
        Kind[w] = ListOrder[1 + ((i - 1) % 3)] /\ wl[w].seen # Absent}

\* Mutant: partial mode forgets to ask.
Captures_Everything(ann, w) == TRUE

\* Partial mode leaves out what the operator of the command may not patch;
\* without an operator annotation there is nobody to ask for.
Captures(ann, w) ==
    (ann.partial /\ ann.operator # None) => CheckFor(ann.operator, ann.groups, w)

\* Mutant: zero is taken for an unset field and given its default.
Captured_ZeroIsUnset(w) == [w |-> w, prev |-> IF wl[w].seen = 0 THEN 1 ELSE wl[w].seen]

\* The level a workload is recorded at (replicas that are not set are 1).
Captured(w) == [w |-> w, prev |-> wl[w].seen]

\* collectTargets: one List; the cache returns the items in any order.
CollectTargets ==
    /\ job.pc = "collect"
    /\ job.i <= ListCalls(job.g)
    /\ \E items \in SetToSeqs({w \in ListCall(job.g, job.i) : Captures(job.local.ann, w)}) :
          job' = [job EXCEPT !.found = @ \o [k \in DOMAIN items |-> Captured(items[k])],
                             !.i = @ + 1]
    /\ UNCHANGED <<clusterVars, faults>>

\* Status().Patch of the group, after which the worker continues at pc with the
\* server's answer as its copy.
PatchStatus(status, pc) ==
    LET cur == sg[job.g].obj
        new == [phase |-> cur.phase, ann |-> cur.ann,
                status |-> MergeStatus(cur.status, job.local.status, status)]
    IN  /\ cur.phase # "gone"
        /\ Commit(job.g, new)
        /\ job' = [job EXCEPT !.pc = pc, !.found = <<>>, !.i = 1,
                              !.local = Answered([@ EXCEPT !.status = status], new)]
        /\ UNCHANGED <<wl, faults>>

CaptureSnapshot ==
    /\ job.pc = "collect"
    /\ job.i > ListCalls(job.g)
    /\ PatchStatus([job.local.status EXCEPT !.snapshot = job.found,
                                            !.operator = job.operator,
                                            !.reason = job.reason], "scale")

----------------------------------------------------------------------------
Entries == job.local.status.snapshot

NextEntry == job' = [job EXCEPT !.i = @ + 1]

\* Get a workload from the cache and patch it to a level it is not at.
Drive(w, level) ==
    /\ wl[w].seen # Absent
    /\ \/ wl[w].seen = level /\ UNCHANGED wl
       \/ wl[w].seen # level /\ wl[w].obj # Absent /\ Scale(w, level)
    /\ NextEntry
    /\ UNCHANGED <<sg, queue, faults>>

\* scaleToZero and suspendCronJob.
ScaleEntry ==
    /\ job.pc = "scale"
    /\ job.i <= Len(Entries)
    /\ Drive(Entries[job.i].w, Stopped(Entries[job.i].w))

\* Mutant: the flag of a CronJob read the wrong way round.
StaysSuspended_Inverted(e) == Kind[e.w] = "CronJob" /\ e.prev = 0

\* A CronJob that was suspended before the shutdown is not touched.
StaysSuspended(e) == Kind[e.w] = "CronJob" /\ e.prev # 0

\* restoreReplicas and unsuspendCronJob.
RestoreEntry ==
    /\ job.pc = "restore"
    /\ job.i <= Len(Entries)
    /\ LET e == Entries[job.i] IN
       \/ /\ StaysSuspended(e)
          /\ NextEntry
          /\ UNCHANGED <<clusterVars, faults>>
       \/ /\ ~ StaysSuspended(e)
          /\ Drive(e.w, e.prev)

\* Mutant: the last entry is left out.
MarkDown_OneEarly ==
    /\ job.pc = "scale"
    /\ job.i >= Len(Entries)
    /\ PatchStatus([job.local.status EXCEPT !.state = "down"], "history")

\* Only after every entry.
MarkDown ==
    /\ job.pc = "scale"
    /\ job.i > Len(Entries)
    /\ PatchStatus([job.local.status EXCEPT !.state = "down"], "history")

\* Mutant: the snapshot is cleared before the last entry is restored.
MarkUp_OneEarly ==
    /\ job.pc = "restore"
    /\ job.i >= Len(Entries)
    /\ PatchStatus([job.local.status EXCEPT !.state = "up", !.snapshot = <<>>], "history")

MarkUp ==
    /\ job.pc = "restore"
    /\ job.i > Len(Entries)
    /\ PatchStatus([job.local.status EXCEPT !.state = "up",
                                            !.operator = job.operator,
                                            !.reason = job.reason,
                                            !.snapshot = <<>>], "history")

\* Mutant: one entry too many is kept.
Capped_OneMore(h) ==
    IF Len(h) > MaxHistoryEntries + 1 THEN SubSeq(h, 1, MaxHistoryEntries + 1) ELSE h

Capped(h) == IF Len(h) > MaxHistoryEntries THEN SubSeq(h, 1, MaxHistoryEntries) ELSE h

JobEntry == [op |-> job.cmd, operator |-> job.operator, reason |-> job.reason]

\* Mutant: the entry goes to the end, where the cap cuts it off.
Extended_AtEnd(h) == Capped(h \o <<JobEntry>>)

\* appendHistory: newest first, the oldest entry beyond the cap is dropped.
Extended(h) == Capped(<<JobEntry>> \o h)

AppendHistory ==
    /\ job.pc = "history"
    /\ PatchStatus([job.local.status EXCEPT !.history = Extended(@)], "consume")

\* Mutant: the reason is not consumed.
Without_ReasonKept(ann, cmd) ==
    [NoAnnotations EXCEPT !.partial = (cmd = "up" /\ ann.partial), !.reason = ann.reason]

\* reconcileDown consumes all five annotations, reconcileUp leaves partial.
Without(ann, cmd) ==
    [NoAnnotations EXCEPT !.partial = (cmd = "up" /\ ann.partial)]

\* consumeAnnotations: the patch removes what the worker's copy holds.  It never
\* sets a command, so the webhooks let it pass.
ConsumeAnnotations ==
    /\ job.pc = "consume"
    /\ LET cur == sg[job.g].obj
           ann == job.local.ann
       IN  /\ cur.phase # "gone"
           /\ Commit(job.g, [phase |-> cur.phase, status |-> cur.status,
                             ann |-> MergeAnnotations(cur.ann, ann, Without(ann, job.cmd))])
    /\ job' = Idle
    /\ UNCHANGED <<wl, faults>>

----------------------------------------------------------------------------
\* Reconcile returns an error: the group is queued again.
Fail ==
    /\ job' = Idle
    /\ queue' = queue \union {job.g}
    /\ UNCHANGED <<sg, wl>>

\* The group has been deleted under the worker.
GroupNotFound ==
    /\ \/ job.pc = "collect" /\ job.i > ListCalls(job.g)
       \/ job.pc \in {"scale", "restore"} /\ job.i > Len(Entries)
       \/ job.pc \in {"history", "consume"}
    /\ sg[job.g].obj.phase = "gone"
    /\ Fail /\ UNCHANGED faults

\* The workload of the current entry does not exist any more: Get or Patch
\* returns NotFound.
EntryMissing ==
    /\ job.pc \in {"scale", "restore"}
    /\ job.i <= Len(Entries)
    /\ LET e == Entries[job.i]
           level == IF job.pc = "scale" THEN Stopped(e.w) ELSE e.prev
       IN  /\ ~ (job.pc = "restore" /\ StaysSuspended(e))
           /\ \/ wl[e.w].seen = Absent
              \/ wl[e.w].seen # level /\ wl[e.w].obj = Absent

\* Mutant: the worker waits for the workload instead of returning the error.
WorkloadNotFound_Waits == EntryMissing /\ UNCHANGED <<clusterVars, operatorVars>>

WorkloadNotFound == EntryMissing /\ Fail /\ UNCHANGED faults

\* Mutant: the error is logged and not returned.
ApiError_Swallowed ==
    /\ job # Idle
    /\ faults < MaxFaults
    /\ faults' = faults + 1
    /\ job' = Idle
    /\ UNCHANGED clusterVars

\* Any call of a reconciliation may fail.
ApiError ==
    /\ job # Idle
    /\ faults < MaxFaults
    /\ faults' = faults + 1
    /\ Fail

\* The process dies; the next one lists everything and queues every group.
Crash ==
    /\ faults < MaxFaults
    /\ faults' = faults + 1
    /\ job' = Idle
    /\ sg' = [g \in Group |-> Relisted(sg[g])]
    /\ wl' = [w \in Workload |-> Relisted(wl[w])]
    /\ queue' = {g \in Group : sg[g].obj.phase # "gone"}

WorkerStep ==
    \/ CollectTargets \/ CaptureSnapshot
    \/ ScaleEntry \/ MarkDown
    \/ RestoreEntry \/ MarkUp
    \/ AppendHistory \/ ConsumeAnnotations
    \/ GroupNotFound \/ WorkloadNotFound

Reconcile(g) ==
    \/ ReconcileNothing(g) \/ ReconcileDown(g)
    \/ ReconcileUp(g) \/ ReconcileUpFails(g)

OperatorNext ==
    \/ WorkerStep
    \/ \E g \in Group : Reconcile(g)
    \/ ApiError \/ Crash
=============================================================================
