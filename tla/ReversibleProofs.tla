-------------------------- MODULE ReversibleProofs --------------------------
(***************************************************************************)
(* Theorems: a shutdown is reversible at every moment, and a snapshot is   *)
(* kept until all it records is home, for any workloads, users, commands,  *)
(* failed calls and crashes, provided that                                 *)
(*   - the operator's reads are fresh (MaxLag = 0),                        *)
(*   - no group is deleted,                                                *)
(*   - no workload only kshutdown changes is selected by two groups.       *)
(* The runs `overwritten` and `sharing` show that without the first and    *)
(* the third condition it does not hold.                                   *)
(***************************************************************************)
EXTENDS SystemProofs

Exclusive ==
    \A w \in Steady : \A g, h \in Group : w \in Selected(g) /\ w \in Selected(h) => g = h

\* Fresh reads, and groups that stay.
Calm == MaxLag = 0 /\ Deletable = {}

Conditions == Calm /\ Exclusive

(***************************************************************************)
(* The inductive invariant.  Reversible alone is not inductive: that a     *)
(* stopped workload is on record is kept because the worker collects only  *)
(* while its group has no snapshot, so that everything it selects is still *)
(* home; because it stops only what the server's snapshot records; and     *)
(* because, when it clears the snapshot, all entries have been restored.   *)
(***************************************************************************)
HomeEntry(g) ==
    {e \in ResourceSnapshot : /\ e.w \in Selected(g)
                              /\ e.w \in Steady => e.prev = Home[e.w]}

FeedsFresh ==
    /\ \A g \in Group : sg[g] = Synced(sg[g].obj)
    /\ \A w \in Workload : wl[w] = Synced(wl[w].obj)

GroupsLive == \A g \in Group : sg[g].obj.phase = "live"

SnapshotsHome == \A g \in Group : Snapshot(g) \in Seq(HomeEntry(g))

RestoredUpTo(i) ==
    \A k \in 1 .. Len(Entries) :
        k < i /\ Entries[k].w \in Steady => wl[Entries[k].w].obj = Home[Entries[k].w]

JobInv ==
    /\ job.found \in Seq(HomeEntry(job.g))
    /\ job.pc = "collect" => Snapshot(job.g) = <<>> /\ Entries = <<>>
    /\ job.pc \in {"scale", "restore"} => Entries = Snapshot(job.g)
    /\ job.pc = "restore" => RestoredUpTo(job.i)

RevInv ==
    /\ FeedsFresh /\ GroupsLive
    /\ SnapshotsHome
    /\ Reversible
    /\ job # Idle => JobInv

----------------------------------------------------------------------------
(***************************************************************************)
(* With fresh reads a write is seen at once.                               *)
(***************************************************************************)

LEMMA FreshPublish ==
    ASSUME MaxLag = 0, NEW u, NEW v
    PROVE  Publish(Synced(u), v) = Synced(v)
  BY DEF Publish, Synced

LEMMA CommitFresh ==
    ASSUME Calm, TypeOK, FeedsFresh, NEW g \in Group, NEW o \in Object, Commit(g, o)
    PROVE  sg' = [sg EXCEPT ![g] = Synced(o)]
  <1>1. Publish(sg[g], o) = Synced(o)
    BY FreshPublish DEF FeedsFresh, Calm
  <1> QED
    BY <1>1 DEF Commit, Feeds

LEMMA ScaleFresh ==
    ASSUME Calm, TypeOK, FeedsFresh, NEW w \in Workload, NEW level \in Level,
           Scale(w, level)
    PROVE  wl' = [wl EXCEPT ![w] = Synced(level)]
  <1>1. Publish(wl[w], level) = Synced(level)
    BY FreshPublish DEF FeedsFresh, Calm
  <1> QED
    BY <1>1 DEF Scale

LEMMA SyncedParts == \A v : Synced(v).obj = v /\ Synced(v).seen = v /\ Synced(v).watch = <<>>
  BY DEF Synced

LEMMA FreshParts ==
    ASSUME FeedsFresh
    PROVE  /\ \A g \in Group : sg[g].seen = sg[g].obj /\ ~ Lagging(sg[g])
           /\ \A w \in Workload : wl[w].seen = wl[w].obj /\ ~ Lagging(wl[w])
  <1>1. \A g \in Group : sg[g] = Synced(sg[g].obj)
    BY DEF FeedsFresh
  <1>2. \A w \in Workload : wl[w] = Synced(wl[w].obj)
    BY DEF FeedsFresh
  <1>3. ASSUME NEW g \in Group
        PROVE  sg[g].seen = sg[g].obj /\ ~ Lagging(sg[g])
    <2>1. sg[g] = Synced(sg[g].obj)
      BY <1>1
    <2> QED
      BY <2>1, SyncedParts DEF Lagging
  <1>4. ASSUME NEW w \in Workload
        PROVE  wl[w].seen = wl[w].obj /\ ~ Lagging(wl[w])
    <2>1. wl[w] = Synced(wl[w].obj)
      BY <1>2
    <2> QED
      BY <2>1, SyncedParts DEF Lagging
  <1> QED
    BY <1>3, <1>4

\* A write to a live group that leaves its snapshot as it is disturbs nothing.
LEMMA SameSnapshot ==
    ASSUME Conditions, TypeOK, RevInv, NEW g \in Group, NEW o \in Object,
           o.phase = "live", o.status.snapshot = Snapshot(g), Commit(g, o), UNCHANGED wl
    PROVE  /\ FeedsFresh' /\ GroupsLive' /\ SnapshotsHome' /\ Reversible'
           /\ \A h \in Group : Snapshot(h)' = Snapshot(h)
           /\ sg'[g].obj = o
  <1>1. sg' = [sg EXCEPT ![g] = Synced(o)]
    BY CommitFresh DEF RevInv, Conditions
  <1>2. /\ sg'[g] = Synced(o) /\ sg'[g].obj = o
        /\ \A h \in Group : h # g => sg'[h] = sg[h]
    BY <1>1, SyncedParts DEF TypeOK, ClusterTypeOK
  <1>3. \A h \in Group : Snapshot(h)' = Snapshot(h)
    BY <1>2 DEF Snapshot
  <1>4. FeedsFresh' /\ GroupsLive'
    BY <1>2 DEF FeedsFresh, GroupsLive, RevInv
  <1>5. SnapshotsHome'
    BY <1>3 DEF SnapshotsHome, RevInv, HomeEntry, Selected
  <1>6. Reversible'
    BY <1>3 DEF Reversible, RevInv, RecordedAt
  <1> QED
    BY <1>2, <1>3, <1>4, <1>5, <1>6

\* The invariant survives such a write when the worker does not move.
LEMMA SameSnapshotInv ==
    ASSUME Conditions, TypeOK, RevInv, NEW g \in Group, NEW o \in Object,
           o.phase = "live", o.status.snapshot = Snapshot(g), Commit(g, o),
           UNCHANGED <<wl, job>>
    PROVE  RevInv'
  <1>1. job # Idle => job.g \in Group
    BY BusyWorker, JobParts DEF TypeOK
  <1>2. \A h \in Group : Snapshot(h)' = Snapshot(h)
    BY SameSnapshot
  <1>3. (job # Idle => JobInv)'
    BY <1>1, <1>2 DEF RevInv, JobInv, Entries, RestoredUpTo, HomeEntry
  <1> QED
    BY <1>3, SameSnapshot DEF RevInv

LEMMA RevSubmit ==
    ASSUME Conditions, TypeOK, RevInv, NEW g \in Group, NEW u \in User, NEW ann \in Annotations,
           Submit(g, u, ann), UNCHANGED <<wl, job>>
    PROVE  RevInv'
  <1> DEFINE o == sg[g].obj
             new(missed) == IF missed THEN ann ELSE Default(o.ann, ann, u)
             put(missed) == [phase |-> o.phase, ann |-> new(missed), status |-> o.status]
  <1>1. \A missed : new(missed) \in Annotations
    BY DEF Default, Annotations
  <1>2. PICK missed \in Missed : Commit(g, put(missed)) \/ UNCHANGED <<sg, queue>>
    BY DEF Submit
  <1>3. put(missed) \in Object
    BY <1>1, FeedParts, ObjectParts DEF Object, TypeOK
  <1>4. put(missed).phase = "live" /\ put(missed).status.snapshot = Snapshot(g)
    BY DEF RevInv, GroupsLive, Snapshot
  <1> HIDE DEF put
  <1>5. CASE Commit(g, put(missed))
    BY <1>3, <1>4, <1>5, SameSnapshotInv
  <1>6. CASE UNCHANGED <<sg, queue>>
    BY <1>6 DEF RevInv, FeedsFresh, GroupsLive, SnapshotsHome, Reversible, JobInv,
                Snapshot, Entries, RestoredUpTo, HomeEntry, RecordedAt
  <1> QED
    BY <1>2, <1>5, <1>6

LEMMA RevUnchanged ==
    ASSUME RevInv, UNCHANGED <<sg, wl, job>>
    PROVE  RevInv'
  BY DEF RevInv, FeedsFresh, GroupsLive, SnapshotsHome, Reversible, JobInv,
         Snapshot, Entries, RestoredUpTo, HomeEntry, RecordedAt

LEMMA RevClients ==
    ASSUME Conditions, TypeOK, RevInv, ClientsNext, UNCHANGED job
    PROVE  RevInv'
  <1>1. CASE UNCHANGED sg
    BY <1>1, ClientsWrite, RevUnchanged DEF TypeOK
  <1>2. ASSUME NEW g \in Group, NEW u \in User, NEW ann \in Annotations,
               Submit(g, u, ann) \/ Create(g, u, ann)
        PROVE  RevInv'
    <2>1. ~ Create(g, u, ann)
      BY DEF Create, RevInv, GroupsLive
    <2> QED
      BY <1>2, <2>1, ClientsWrite, RevSubmit DEF TypeOK
  <1> QED
    BY <1>1, <1>2, ClientsWrite DEF TypeOK

\* What others do to workloads of theirs concerns no steady one.
LEMMA RevCluster ==
    ASSUME Conditions, TypeOK, RevInv, ClusterNext, UNCHANGED job
    PROVE  RevInv'
  <1> USE DEF TypeOK
  <1>1. ASSUME NEW g \in Group,
               DeliverGroup(g) \/ DeleteGroup(g) \/ FinalizeGroup(g) \/ DefineGroup(g)
        PROVE  FALSE
    BY <1>1, FreshParts
       DEF DeliverGroup, DeleteGroup, FinalizeGroup, DefineGroup, Conditions, Calm, RevInv,
           GroupsLive
  <1>2. ASSUME NEW w \in Workload, DeliverWorkload(w)
        PROVE  FALSE
    BY <1>2, FreshParts DEF DeliverWorkload, RevInv
  <1>3. ASSUME NEW w \in Disturbed, NEW level \in LevelsOf(w) \union {Absent}, Disturb(w, level)
        PROVE  RevInv'
    <2>1. w \in Workload /\ w \notin Steady /\ level \in Level
      BY ClusterConstants, LevelTypes DEF Steady
    <2>2. wl' = [wl EXCEPT ![w] = Synced(level)] /\ UNCHANGED <<sg, job>>
      BY <1>3, <2>1, ScaleFresh DEF Disturb, RevInv, Conditions
    <2>3. /\ \A v \in Workload : wl'[v] = Synced(wl'[v].obj)
          /\ \A v \in Steady : v \in Workload /\ wl'[v] = wl[v]
      BY <2>1, <2>2, SyncedParts DEF ClusterTypeOK, Steady, RevInv, FeedsFresh
    <2>4. FeedsFresh' /\ GroupsLive' /\ SnapshotsHome' /\ Reversible'
      BY <2>2, <2>3 DEF RevInv, FeedsFresh, GroupsLive, SnapshotsHome, Reversible,
                        Snapshot, HomeEntry, RecordedAt
    <2>5. RestoredUpTo(job.i) => RestoredUpTo(job.i)'
      BY <2>2, <2>3 DEF RestoredUpTo, Entries
    <2>6. (job # Idle => JobInv)'
      BY <2>2, <2>5 DEF RevInv, JobInv, Snapshot, Entries, HomeEntry
    <2> QED
      BY <2>4, <2>6 DEF RevInv
  <1> QED
    BY <1>1, <1>2, <1>3 DEF ClusterNext

----------------------------------------------------------------------------
(***************************************************************************)
(* The worker.                                                             *)
(***************************************************************************)

\* The entry the worker has come to is one of the server's snapshot and records
\* the level its workload has at home.
LEMMA CurrentEntry ==
    ASSUME TypeOK, RevInv, job \in Job, job # Idle, job.pc \in {"scale", "restore"},
           job.i <= Len(Entries)
    PROVE  /\ job.i \in 1 .. Len(Entries) /\ Entries = Snapshot(job.g)
           /\ Entries[job.i] \in HomeEntry(job.g)
           /\ Entries[job.i].w \in Workload /\ Entries[job.i].prev \in Replicas
           /\ Entries[job.i].w \in Steady =>
                  /\ Entries[job.i].prev = Home[Entries[job.i].w]
                  /\ RecordedAt(Snapshot(job.g), Entries[job.i].w, Home[Entries[job.i].w])
  <1> DEFINE e == Entries[job.i]
  <1>1. job.i \in 1 .. Len(Entries) /\ Entries = Snapshot(job.g) /\ job.g \in Group
    BY JobParts, LenProperties DEF RevInv, JobInv
  <1>2. Snapshot(job.g) \in Seq(HomeEntry(job.g))
    BY <1>1 DEF RevInv, SnapshotsHome
  <1>3. e \in HomeEntry(job.g)
    BY <1>1, <1>2
  <1>4. e \in ResourceSnapshot /\ (e.w \in Steady => e.prev = Home[e.w])
    BY <1>3 DEF HomeEntry
  <1>5. e = [w |-> e.w, prev |-> e.prev] /\ e.w \in Workload /\ e.prev \in Replicas
    BY <1>4 DEF ResourceSnapshot
  <1>6. job.i \in DOMAIN Snapshot(job.g)
    BY <1>1, <1>2, LenProperties
  <1> HIDE DEF e
  <1>7. e = Snapshot(job.g)[job.i]
    BY <1>1 DEF e
  <1>8. e.w \in Steady => RecordedAt(Snapshot(job.g), e.w, Home[e.w])
    BY <1>4, <1>5, <1>6, <1>7 DEF RecordedAt
  <1> QED
    BY <1>1, <1>3, <1>4, <1>5, <1>8 DEF e

\* What Drive does to the world, seen with fresh reads.
LEMMA DriveFresh ==
    ASSUME Conditions, TypeOK, RevInv, job \in Job, NEW w \in Workload, NEW level \in Replicas,
           Drive(w, level)
    PROVE  /\ wl' = [wl EXCEPT ![w] = Synced(level)]
           /\ wl'[w].obj = level /\ \A v \in Workload : v # w => wl'[v] = wl[v]
           /\ FeedsFresh' /\ GroupsLive' /\ SnapshotsHome'
           /\ \A g \in Group : Snapshot(g)' = Snapshot(g)
           /\ UNCHANGED sg
           /\ job' = [job EXCEPT !.i = @ + 1]
  <1>1. wl' = [wl EXCEPT ![w] = Synced(level)]
    <2>1. CASE wl[w].seen = level /\ UNCHANGED wl
      <3>1. wl[w] = Synced(level)
        BY <2>1, FreshParts DEF RevInv, FeedsFresh
      <3> QED
        BY <2>1, <3>1 DEF TypeOK, ClusterTypeOK
    <2>2. CASE Scale(w, level)
      BY <2>2, ScaleFresh, LevelTypes DEF RevInv, Conditions
    <2> QED
      BY <2>1, <2>2 DEF Drive
  <1>2. wl'[w] = Synced(level) /\ \A v \in Workload : v # w => wl'[v] = wl[v]
    BY <1>1 DEF TypeOK, ClusterTypeOK
  <1>3. \A v \in Workload : wl'[v] = Synced(wl'[v].obj)
    BY <1>2, SyncedParts DEF RevInv, FeedsFresh
  <1>4. UNCHANGED sg /\ job' = [job EXCEPT !.i = @ + 1]
    BY DEF Drive, NextEntry
  <1>5. FeedsFresh' /\ GroupsLive' /\ SnapshotsHome' /\ \A g \in Group : Snapshot(g)' = Snapshot(g)
    BY <1>3, <1>4 DEF RevInv, FeedsFresh, GroupsLive, SnapshotsHome, HomeEntry, Snapshot
  <1> QED
    BY <1>1, <1>2, <1>4, <1>5, SyncedParts

LEMMA RevScaleEntry ==
    ASSUME Conditions, TypeOK, RevInv, job \in Job, job # Idle, ScaleEntry
    PROVE  RevInv'
  <1> DEFINE w == Entries[job.i].w
  <1>1. job.pc = "scale" /\ job.i <= Len(Entries) /\ Drive(w, Stopped(w))
    BY DEF ScaleEntry
  <1>2. /\ w \in Workload /\ Stopped(w) \in Replicas /\ job.g \in Group
        /\ w \in Steady => RecordedAt(Snapshot(job.g), w, Home[w])
    BY <1>1, CurrentEntry, LevelTypes, JobParts
  <1> HIDE DEF w
  <1>3. job'.pc = "scale" /\ job'.g = job.g /\ job'.local = job.local /\ job'.found = job.found
    BY <1>1, <1>2, DriveFresh DEF Job
  <1>4. Reversible'
    <2> SUFFICES ASSUME NEW v \in Steady, wl'[v].obj # Home[v]
                 PROVE  \E g \in Group : RecordedAt(Snapshot(g)', v, Home[v])
      BY DEF Reversible, RecordedAt
    <2>1. \E g \in Group : RecordedAt(Snapshot(g), v, Home[v])
      <3>1. CASE v = w
        BY <1>2, <3>1
      <3>2. CASE v # w
        BY <1>1, <1>2, <3>2, DriveFresh DEF RevInv, Reversible, Steady
      <3> QED
        BY <3>1, <3>2
    <2> QED
      BY <1>1, <1>2, <2>1, DriveFresh
  <1>5. JobInv'
    <2>1. Entries' = Entries /\ Snapshot(job.g)' = Snapshot(job.g)
      BY <1>1, <1>2, <1>3, DriveFresh DEF Entries
    <2> QED
      BY <1>1, <1>3, <2>1 DEF RevInv, JobInv, HomeEntry, Snapshot
  <1> QED
    BY <1>1, <1>2, <1>4, <1>5, DriveFresh DEF RevInv

LEMMA RevRestoreEntry ==
    ASSUME Conditions, TypeOK, NeverInvents, RevInv, job \in Job, job # Idle, RestoreEntry
    PROVE  RevInv'
  <1> DEFINE e == Entries[job.i]
  <1>1. job.pc = "restore" /\ job.i <= Len(Entries)
    BY DEF RestoreEntry
  <1>2. /\ e.w \in Workload /\ e.prev \in Replicas /\ job.g \in Group
        /\ e.w \in Steady => e.prev = Home[e.w]
        /\ job.i \in Nat /\ Len(Entries) \in Nat
    BY <1>1, CurrentEntry, JobParts, LenProperties
  <1>3. RestoredUpTo(job.i)
    BY <1>1 DEF RevInv, JobInv
  <1>4. CASE StaysSuspended(e) /\ NextEntry /\ UNCHANGED <<clusterVars, faults>>
    <2>1. /\ job'.pc = "restore" /\ job'.g = job.g /\ job'.local = job.local
          /\ job'.found = job.found /\ job'.i = job.i + 1 /\ UNCHANGED <<sg, wl>>
      BY <1>1, <1>4 DEF NextEntry, Job, clusterVars
    <2>2. e.w \in Steady => wl[e.w].obj = Home[e.w]
      BY <1>2, <1>4, ClusterConstants DEF NeverInvents, StaysSuspended, Stopped, LevelsOf
    <2>3. Entries' = Entries
      BY <2>1 DEF Entries
    <2>4. RestoredUpTo(job.i + 1)
      BY <1>2, <1>3, <2>2 DEF RestoredUpTo
    <2>5. JobInv'
      BY <1>1, <2>1, <2>3, <2>4 DEF RevInv, JobInv, RestoredUpTo, HomeEntry, Snapshot
    <2> QED
      BY <2>1, <2>5 DEF RevInv, FeedsFresh, GroupsLive, SnapshotsHome, Reversible,
                        Snapshot, HomeEntry, RecordedAt
  <1>5. CASE Drive(e.w, e.prev)
    <2> HIDE DEF e
    <2>1. /\ job'.pc = "restore" /\ job'.g = job.g /\ job'.local = job.local
          /\ job'.found = job.found /\ job'.i = job.i + 1
      BY <1>1, <1>2, <1>5, DriveFresh DEF Job
    <2>2. Entries' = Entries /\ Snapshot(job.g)' = Snapshot(job.g)
      BY <1>2, <1>5, <2>1, DriveFresh DEF Entries
    <2>3. \A v \in Steady : v = e.w => wl'[v].obj = Home[v]
      BY <1>2, <1>5, DriveFresh
    <2>4. \A v \in Steady : wl'[v].obj = wl[v].obj \/ wl'[v].obj = Home[v]
      BY <1>2, <1>5, <2>3, DriveFresh DEF Steady
    <2>5. ASSUME NEW k \in 1 .. Len(Entries), k < job.i + 1, Entries[k].w \in Steady
          PROVE  wl'[Entries[k].w].obj = Home[Entries[k].w]
      <3>1. CASE k < job.i
        BY <1>3, <2>4, <2>5, <3>1 DEF RestoredUpTo
      <3>2. CASE k = job.i
        BY <2>3, <2>5, <3>2 DEF e
      <3> QED
        BY <1>2, <2>5, <3>1, <3>2
    <2>6. JobInv'
      BY <1>1, <2>1, <2>2, <2>5 DEF RevInv, JobInv, RestoredUpTo, HomeEntry
    <2>7. Reversible'
      BY <1>2, <1>5, <2>4, DriveFresh DEF Reversible, RevInv, RecordedAt, Steady
    <2> QED
      BY <1>2, <1>5, <2>6, <2>7, DriveFresh DEF RevInv
  <1> QED
    BY <1>4, <1>5 DEF RestoreEntry

\* The object a status patch of the worker leaves in the API server.
Patched(status) ==
    LET cur == sg[job.g].obj IN
    [phase |-> cur.phase, ann |-> cur.ann,
     status |-> MergeStatus(cur.status, job.local.status, status)]

LEMMA PatchFresh ==
    ASSUME Conditions, TypeOK, RevInv, job \in Job, NEW status \in Status, NEW pc,
           PatchStatus(status, pc)
    PROVE  /\ Patched(status) \in Object /\ Patched(status).phase = "live"
           /\ Commit(job.g, Patched(status)) /\ UNCHANGED wl
           /\ sg' = [sg EXCEPT ![job.g] = Synced(Patched(status))]
           /\ Patched(status).status.snapshot
                  = Merged(Snapshot(job.g), Entries, status.snapshot)
           /\ job'.pc = pc /\ job'.g = job.g /\ job'.found = <<>> /\ job'.i = 1
           /\ Entries' = Merged(status.snapshot, <<>>, Patched(status).status.snapshot)
  <1> DEFINE new == Patched(status)
             local == Answered([job.local EXCEPT !.status = status], new)
  <1>1. new \in Object
    BY FeedParts, JobParts, ObjectParts, MergeTypes DEF Object, TypeOK, Patched
  <1>2. new.phase = "live"
    BY JobParts DEF Patched, RevInv, GroupsLive
  <1>3. new.status.snapshot = Merged(Snapshot(job.g), Entries, status.snapshot)
    BY DEF Patched, MergeStatus, Snapshot, Entries
  <1>4. /\ Commit(job.g, new) /\ UNCHANGED wl
        /\ job' = [job EXCEPT !.pc = pc, !.found = <<>>, !.i = 1, !.local = local]
    BY DEF PatchStatus, Patched
  <1>7. local.status.snapshot = Merged(status.snapshot, <<>>, new.status.snapshot)
    BY <1>1, JobParts, AnsweredTypes
  <1> HIDE DEF new, local
  <1>5. sg' = [sg EXCEPT ![job.g] = Synced(new)]
    BY <1>1, <1>4, JobParts, CommitFresh DEF RevInv, Conditions
  <1>6. /\ job'.pc = pc /\ job'.g = job.g /\ job'.local = local
        /\ job'.found = <<>> /\ job'.i = 1
    BY <1>4 DEF Job
  <1>8. Entries' = Merged(status.snapshot, <<>>, new.status.snapshot)
    BY <1>6, <1>7 DEF Entries
  <1> QED
    BY <1>1, <1>2, <1>3, <1>4, <1>5, <1>6, <1>8 DEF new

\* A status patch that does not touch the snapshot, before history or consume.
LEMMA RevPatchSame ==
    ASSUME Conditions, TypeOK, RevInv, job \in Job, job # Idle, NEW status \in Status,
           status.snapshot = Entries, NEW pc \in {"history", "consume"},
           PatchStatus(status, pc)
    PROVE  RevInv' /\ \A g \in Group : Snapshot(g)' = Snapshot(g)
  <1>1. Patched(status).status.snapshot = Snapshot(job.g)
    BY PatchFresh DEF Merged
  <1>2. /\ FeedsFresh' /\ GroupsLive' /\ SnapshotsHome' /\ Reversible'
        /\ \A h \in Group : Snapshot(h)' = Snapshot(h)
    BY <1>1, PatchFresh, JobParts, SameSnapshot
  <1>3. (<<>> \in Seq(HomeEntry(job.g)))'
    OBVIOUS
  <1>4. job'.pc = pc /\ job'.found = <<>>
    BY PatchFresh
  <1>5. JobInv'
    BY <1>3, <1>4 DEF JobInv
  <1> QED
    BY <1>2, <1>5 DEF RevInv

LEMMA RevMarkDown ==
    ASSUME Conditions, TypeOK, RevInv, job \in Job, job # Idle, MarkDown
    PROVE  RevInv' /\ \A g \in Group : Snapshot(g)' = Snapshot(g)
  <1> DEFINE st == [job.local.status EXCEPT !.state = "down"]
  <1>1. st \in Status /\ st.snapshot = Entries
    BY JobParts DEF Status, Entries
  <1>2. PatchStatus(st, "history")
    BY DEF MarkDown
  <1> HIDE DEF st
  <1> QED
    BY <1>1, <1>2, RevPatchSame

LEMMA RevAppendHistory ==
    ASSUME Conditions, TypeOK, RevInv, job \in Job, job # Idle, AppendHistory
    PROVE  RevInv' /\ \A g \in Group : Snapshot(g)' = Snapshot(g)
  <1>1. JobEntry \in HistoryEntry /\ job.local.status.history \in Seq(HistoryEntry)
    BY JobParts DEF JobEntry, HistoryEntry, Status, HistoryList
  <1>2. <<JobEntry>> \o job.local.status.history \in Seq(HistoryEntry)
    BY <1>1
  <1>3. Extended(job.local.status.history) \in HistoryList
    BY <1>2, CappedType DEF Extended
  <1> DEFINE st == [job.local.status EXCEPT !.history = Extended(@)]
  <1>4. st \in Status /\ st.snapshot = Entries
    BY <1>3, JobParts DEF Status, Entries
  <1>5. PatchStatus(st, "consume")
    BY DEF AppendHistory
  <1> HIDE DEF st
  <1> QED
    BY <1>4, <1>5, RevPatchSame

LEMMA RevCaptureSnapshot ==
    ASSUME Conditions, TypeOK, RevInv, job \in Job, job # Idle, CaptureSnapshot
    PROVE  /\ RevInv'
           /\ \E g \in Group : /\ Snapshot(g) = <<>>
                               /\ \A h \in Group : h # g => Snapshot(h)' = Snapshot(h)
  <1> DEFINE st == [job.local.status EXCEPT !.snapshot = job.found, !.operator = job.operator,
                                            !.reason = job.reason]
  <1>0. PICK g \in Group : g = job.g
    BY JobParts
  <1>1. st \in Status /\ st.snapshot = job.found
    BY JobParts DEF Status
  <1>2. PatchStatus(st, "scale") /\ job.pc = "collect"
    BY DEF CaptureSnapshot
  <1>3. g \in Group /\ Snapshot(g) = <<>> /\ Entries = <<>> /\ job.found \in Seq(HomeEntry(g))
    BY <1>0, <1>2 DEF RevInv, JobInv
  <1> HIDE DEF st
  <1> DEFINE new == Patched(st)
  <1>4. new.status.snapshot = job.found
    BY <1>0, <1>1, <1>2, <1>3, PatchFresh DEF Merged
  <1>5. /\ sg' = [sg EXCEPT ![g] = Synced(new)] /\ UNCHANGED wl /\ new.phase = "live"
        /\ job'.pc = "scale" /\ job'.g = g /\ Entries' = job.found /\ job'.found = <<>>
    BY <1>0, <1>1, <1>2, <1>4, PatchFresh DEF Merged
  <1> HIDE DEF new
  <1>6. sg'[g] = Synced(new) /\ sg'[g].obj = new /\ \A h \in Group : h # g => sg'[h] = sg[h]
    BY <1>3, <1>5, SyncedParts DEF TypeOK, ClusterTypeOK
  <1>7. Snapshot(g)' = job.found /\ \A h \in Group : h # g => Snapshot(h)' = Snapshot(h)
    BY <1>4, <1>6 DEF Snapshot
  <1>8. FeedsFresh' /\ GroupsLive'
    BY <1>5, <1>6 DEF FeedsFresh, GroupsLive, RevInv
  <1>9. SnapshotsHome'
    BY <1>3, <1>7 DEF SnapshotsHome, RevInv, HomeEntry, Selected
  <1>10. Reversible'
    <2> SUFFICES ASSUME NEW v \in Steady, wl[v].obj # Home[v]
                 PROVE  \E h \in Group : RecordedAt(Snapshot(h)', v, Home[v])
      BY <1>5 DEF Reversible, RecordedAt
    <2>1. PICK h \in Group : RecordedAt(Snapshot(h), v, Home[v])
      BY DEF RevInv, Reversible
    <2>2. h # g
      BY <1>3, <2>1 DEF RecordedAt
    <2> QED
      BY <1>7, <2>1, <2>2
  <1>11. JobInv'
    <2>1. (<<>> \in Seq(HomeEntry(job.g)))'
      OBVIOUS
    <2> QED
      BY <1>5, <1>7, <2>1 DEF JobInv
  <1> QED
    BY <1>3, <1>7, <1>8, <1>9, <1>10, <1>11 DEF RevInv

\* Clearing the snapshot loses nothing: all it records is home.
LEMMA RevMarkUp ==
    ASSUME Conditions, TypeOK, RevInv, job \in Job, job # Idle, MarkUp
    PROVE  /\ RevInv'
           /\ \E g \in Group :
                  /\ Snapshot(g)' = <<>> /\ AllHome(Recorded(Snapshot(g)))
                  /\ \A h \in Group : h # g => Snapshot(h)' = Snapshot(h)
  <1> DEFINE st == [job.local.status EXCEPT !.state = "up", !.operator = job.operator,
                                            !.reason = job.reason, !.snapshot = <<>>]
  <1>0. PICK g \in Group : g = job.g
    BY JobParts
  <1>1. st \in Status /\ st.snapshot = <<>>
    BY JobParts, StatusTypes
  <1>2. PatchStatus(st, "history") /\ job.pc = "restore" /\ job.i > Len(Entries)
    BY DEF MarkUp
  <1>3. /\ g \in Group /\ Entries = Snapshot(g) /\ RestoredUpTo(job.i)
        /\ Entries \in Seq(ResourceSnapshot) /\ Len(Entries) \in Nat /\ job.i \in Nat
    BY <1>0, <1>2, JobParts, LenProperties DEF RevInv, JobInv
  <1> HIDE DEF st
  <1> DEFINE new == Patched(st)
  <1>4. new.status.snapshot = <<>>
    BY <1>0, <1>1, <1>2, <1>3, PatchFresh DEF Merged
  <1>5. /\ sg' = [sg EXCEPT ![g] = Synced(new)] /\ UNCHANGED wl /\ new.phase = "live"
        /\ job'.pc = "history" /\ job'.g = g /\ job'.found = <<>>
    BY <1>0, <1>1, <1>2, PatchFresh
  <1> HIDE DEF new
  <1>6. sg'[g] = Synced(new) /\ sg'[g].obj = new /\ \A h \in Group : h # g => sg'[h] = sg[h]
    BY <1>3, <1>5, SyncedParts DEF TypeOK, ClusterTypeOK
  <1>7. Snapshot(g)' = <<>> /\ \A h \in Group : h # g => Snapshot(h)' = Snapshot(h)
    BY <1>4, <1>6 DEF Snapshot
  <1>8. \A k \in DOMAIN Snapshot(g) :
            Snapshot(g)[k].w \in Steady => wl[Snapshot(g)[k].w].obj = Home[Snapshot(g)[k].w]
    <2> SUFFICES ASSUME NEW k \in DOMAIN Entries
                 PROVE  Entries[k].w \in Steady => wl[Entries[k].w].obj = Home[Entries[k].w]
      BY <1>3
    <2>1. k \in 1 .. Len(Entries) /\ k < job.i
      BY <1>2, <1>3, LenProperties
    <2> QED
      BY <1>3, <2>1 DEF RestoredUpTo
  <1>9. AllHome(Recorded(Snapshot(g)))
    BY <1>8 DEF AllHome, Recorded
  <1>10. FeedsFresh' /\ GroupsLive'
    BY <1>5, <1>6 DEF FeedsFresh, GroupsLive, RevInv
  <1>11. SnapshotsHome'
    <2>1. <<>> \in Seq(HomeEntry(g))
      OBVIOUS
    <2> QED
      BY <1>7, <2>1 DEF SnapshotsHome, RevInv, HomeEntry, Selected
  <1>12. Reversible'
    <2> SUFFICES ASSUME NEW v \in Steady, wl[v].obj # Home[v]
                 PROVE  \E h \in Group : RecordedAt(Snapshot(h)', v, Home[v])
      BY <1>5 DEF Reversible, RecordedAt
    <2>1. PICK h \in Group : RecordedAt(Snapshot(h), v, Home[v])
      BY DEF RevInv, Reversible
    <2>2. h # g
      BY <1>8, <2>1 DEF RecordedAt
    <2> QED
      BY <1>7, <2>1, <2>2
  <1>13. JobInv'
    <2>1. (<<>> \in Seq(HomeEntry(job.g)))'
      OBVIOUS
    <2> QED
      BY <1>5, <2>1 DEF JobInv
  <1> QED
    BY <1>7, <1>9, <1>10, <1>11, <1>12, <1>13 DEF RevInv

LEMMA RevConsume ==
    ASSUME Conditions, TypeOK, RevInv, job \in Job, job # Idle, ConsumeAnnotations
    PROVE  RevInv' /\ \A g \in Group : Snapshot(g)' = Snapshot(g)
  <1> DEFINE cur == sg[job.g].obj
             ann == MergeAnnotations(cur.ann, job.local.ann, Without(job.local.ann, job.cmd))
             new == [phase |-> cur.phase, status |-> cur.status, ann |-> ann]
  <1>1. cur \in Object /\ job.local.ann \in Annotations /\ job.g \in Group
    BY JobParts, ObjectParts, FeedParts DEF TypeOK
  <1>2. Without(job.local.ann, job.cmd) \in Annotations
    BY DEF Without, NoAnnotations, Annotations, Command
  <1>3. ann \in Annotations
    BY <1>1, <1>2, ObjectParts, MergeTypes
  <1> HIDE DEF ann
  <1>4. new \in Object /\ new.phase = "live" /\ new.status.snapshot = Snapshot(job.g)
    BY <1>1, <1>3, ObjectParts DEF Object, RevInv, GroupsLive, Snapshot
  <1>5. Commit(job.g, new) /\ job' = Idle /\ UNCHANGED wl
    BY DEF ConsumeAnnotations, ann
  <1> HIDE DEF new
  <1> QED
    BY <1>1, <1>4, <1>5, SameSnapshot DEF RevInv

\* While its group has no snapshot, what the worker collects is at home: a steady
\* workload that were not would be on record, and only its own group records it.
LEMMA StillHome ==
    ASSUME Conditions, TypeOK, RevInv, job \in Job, job # Idle, job.pc = "collect",
           NEW w \in Steady, w \in Selected(job.g)
    PROVE  wl[w].obj = Home[w]
  <1> SUFFICES ASSUME wl[w].obj # Home[w] PROVE FALSE
    OBVIOUS
  <1>1. PICK g \in Group : RecordedAt(Snapshot(g), w, Home[w])
    BY DEF RevInv, Reversible
  <1>2. PICK i \in DOMAIN Snapshot(g) : Snapshot(g)[i] = [w |-> w, prev |-> Home[w]]
    BY <1>1 DEF RecordedAt
  <1>3. Snapshot(g)[i] \in HomeEntry(g)
    BY <1>2, ElementOfSeq, LenProperties DEF RevInv, SnapshotsHome
  <1>4. w \in Selected(g)
    BY <1>2, <1>3 DEF HomeEntry
  <1>5. g = job.g
    BY <1>4, JobParts DEF Conditions, Exclusive
  <1> QED
    BY <1>2, <1>5 DEF RevInv, JobInv

LEMMA RevCollect ==
    ASSUME Conditions, TypeOK, RevInv, job \in Job, job # Idle, CollectTargets
    PROVE  RevInv'
  <1> DEFINE S == {w \in ListCall(job.g, job.i) : Captures(job.local.ann, w)}
             add(items) == [k \in DOMAIN items |-> Captured(items[k])]
  <1> USE DEF TypeOK
  <1>1. job.i \in 1 .. ListCalls(job.g) /\ job.g \in Group /\ job.pc = "collect"
    <2>1. ListCalls(job.g) \in Nat
      BY JobParts, ClusterConstants, LenProperties DEF ListCalls
    <2> QED
      BY <2>1, JobParts DEF CollectTargets
  <1>2. S \in SUBSET Workload /\ S \subseteq Selected(job.g)
    BY <1>1, ListCallType
  <1>3. \A w \in Selected(job.g) : w \in Steady => wl[w].obj = Home[w]
    BY <1>1, StillHome
  <1>4. \A w \in S : Captured(w) \in HomeEntry(job.g)
    <2> SUFFICES ASSUME NEW w \in S
                 PROVE  /\ wl[w].seen \in Replicas
                        /\ w \in Steady => wl[w].seen = Home[w]
      BY <1>2 DEF Captured, HomeEntry, ResourceSnapshot
    <2>1. w \in Workload /\ wl[w].seen = wl[w].obj
      BY <1>2, FreshParts DEF RevInv
    <2>2. wl[w].seen \in Replicas
      BY <2>1, FeedParts DEF ListCall, Level, Absent, Replicas
    <2> QED
      BY <1>2, <1>3, <2>1, <2>2
  <1> HIDE DEF S
  <1>5. PICK items \in SetToSeqs(S) :
            job' = [job EXCEPT !.found = @ \o add(items), !.i = @ + 1]
    BY DEF CollectTargets, S
  <1>6. items \in Seq(S)
    BY <1>2, ItemsType
  <1>7. add(items) \in Seq(HomeEntry(job.g))
    <2>1. DOMAIN items = 1 .. Len(items) /\ Len(items) \in Nat
      BY <1>6, LenProperties
    <2>2. \A k \in 1 .. Len(items) : Captured(items[k]) \in HomeEntry(job.g)
      BY <1>4, <1>6, ElementOfSeq
    <2> QED
      BY <2>1, <2>2, SeqDef
  <1>8. job.found \o add(items) \in Seq(HomeEntry(job.g))
    BY <1>7, ConcatProperties DEF RevInv, JobInv
  <1>9. /\ job'.local = job.local /\ job'.g = job.g /\ job'.pc = job.pc
        /\ job'.found = job.found \o add(items) /\ UNCHANGED <<sg, wl>>
    BY <1>5 DEF Job, CollectTargets, clusterVars
  <1>10. JobInv'
    BY <1>1, <1>8, <1>9 DEF RevInv, JobInv, Entries, Snapshot, HomeEntry
  <1>11. FeedsFresh' /\ GroupsLive' /\ SnapshotsHome' /\ Reversible'
    BY <1>9 DEF RevInv, FeedsFresh, GroupsLive, SnapshotsHome, Reversible,
                Snapshot, HomeEntry, RecordedAt
  <1> QED
    BY <1>10, <1>11 DEF RevInv

LEMMA RevStart ==
    ASSUME Conditions, TypeOK, RevInv, NEW g \in Group, ReconcileDown(g) \/ ReconcileUp(g)
    PROVE  RevInv'
  <1> DEFINE o == sg[g].seen
  <1>1. o = sg[g].obj /\ o.status.snapshot = Snapshot(g)
    BY FreshParts DEF RevInv, Snapshot
  <1>2. PICK pc \in {"collect", "scale", "restore", "consume"} :
            /\ Start(g, o, pc)
            /\ pc = "collect" => o.status.snapshot = <<>>
    BY DEF ReconcileDown, ReconcileUp, DownStart, UpStart
  <1>3. /\ job'.pc = pc /\ job'.g = g /\ job'.local = o /\ job'.found = <<>> /\ job'.i = 1
        /\ UNCHANGED <<sg, wl>>
    BY <1>2 DEF Start
  <1>4. Entries' = Snapshot(g) /\ Snapshot(g)' = Snapshot(g)
    BY <1>1, <1>3 DEF Entries, Snapshot
  <1>5. JobInv'
    <2>1. (<<>> \in Seq(HomeEntry(job.g)))'
      OBVIOUS
    <2>2. RestoredUpTo(1)'
      BY DEF RestoredUpTo
    <2> QED
      BY <1>1, <1>2, <1>3, <1>4, <2>1, <2>2 DEF JobInv
  <1>6. FeedsFresh' /\ GroupsLive' /\ SnapshotsHome' /\ Reversible'
    BY <1>3 DEF RevInv, FeedsFresh, GroupsLive, SnapshotsHome, Reversible,
                Snapshot, HomeEntry, RecordedAt
  <1> QED
    BY <1>5, <1>6 DEF RevInv

\* An error or a crash ends the job; nothing written is taken back.
LEMMA RevEnd ==
    ASSUME Conditions, TypeOK, RevInv,
           GroupNotFound \/ WorkloadNotFound \/ ApiError \/ Crash
    PROVE  RevInv' /\ UNCHANGED <<sg, wl>>
  <1>1. job' = Idle /\ UNCHANGED <<sg, wl>>
    <2>1. CASE GroupNotFound \/ WorkloadNotFound \/ ApiError
      BY <2>1 DEF GroupNotFound, WorkloadNotFound, ApiError, Fail
    <2>2. CASE Crash
      <3>1. \A g \in Group : Relisted(sg[g]) = sg[g]
        BY DEF RevInv, FeedsFresh, Relisted
      <3>2. \A w \in Workload : Relisted(wl[w]) = wl[w]
        BY DEF RevInv, FeedsFresh, Relisted
      <3> QED
        BY <2>2, <3>1, <3>2 DEF Crash, TypeOK, ClusterTypeOK
    <2> QED
      BY <2>1, <2>2
  <1> QED
    BY <1>1 DEF RevInv, FeedsFresh, GroupsLive, SnapshotsHome, Reversible,
                Snapshot, HomeEntry, RecordedAt

LEMMA RevOperator ==
    ASSUME Conditions, TypeOK, NeverInvents, RevInv, OperatorNext
    PROVE  RevInv'
  <1> USE IdleWorker
  <1>1. job # Idle => job \in Job
    BY BusyWorker DEF TypeOK
  <1>2. CASE WorkerStep
    <2>1. CASE CollectTargets
      BY <1>1, <2>1, RevCollect DEF CollectTargets
    <2>2. CASE CaptureSnapshot
      BY <1>1, <2>2, RevCaptureSnapshot DEF CaptureSnapshot
    <2>3. CASE ScaleEntry
      BY <1>1, <2>3, RevScaleEntry DEF ScaleEntry
    <2>4. CASE MarkDown
      BY <1>1, <2>4, RevMarkDown DEF MarkDown
    <2>5. CASE RestoreEntry
      BY <1>1, <2>5, RevRestoreEntry DEF RestoreEntry
    <2>6. CASE MarkUp
      BY <1>1, <2>6, RevMarkUp DEF MarkUp
    <2>7. CASE AppendHistory
      BY <1>1, <2>7, RevAppendHistory DEF AppendHistory
    <2>8. CASE ConsumeAnnotations
      BY <1>1, <2>8, RevConsume DEF ConsumeAnnotations
    <2>9. CASE GroupNotFound \/ WorkloadNotFound
      BY <2>9, RevEnd
    <2> QED
      BY <1>2, <2>1, <2>2, <2>3, <2>4, <2>5, <2>6, <2>7, <2>8, <2>9 DEF WorkerStep
  <1>3. ASSUME NEW g \in Group, Reconcile(g)
        PROVE  RevInv'
    <2>1. CASE ReconcileNothing(g) \/ ReconcileUpFails(g)
      BY <2>1, RevUnchanged DEF ReconcileNothing, ReconcileUpFails, clusterVars, operatorVars
    <2>2. CASE ReconcileDown(g) \/ ReconcileUp(g)
      BY <2>2, RevStart
    <2> QED
      BY <1>3, <2>1, <2>2 DEF Reconcile
  <1>4. CASE ApiError \/ Crash
    BY <1>4, RevEnd
  <1> QED
    BY <1>2, <1>3, <1>4 DEF OperatorNext

LEMMA RevInit == Init => RevInv
  <1> SUFFICES ASSUME Init PROVE RevInv
    OBVIOUS
  <1>1. /\ \A g \in Group : sg[g] = Synced(Fresh)
        /\ \A w \in Workload : wl[w] = Synced(Home[w])
        /\ job = Idle
    BY DEF Init, ClusterInit, OperatorInit
  <1>2. FeedsFresh
    BY <1>1, SyncedParts DEF FeedsFresh
  <1>3. \A g \in Group : sg[g].obj = Fresh
    BY <1>1, SyncedParts
  <1>4. GroupsLive /\ SnapshotsHome
    <2>1. Fresh.phase = "live" /\ Fresh.status.snapshot = <<>>
      BY DEF Fresh, NoStatus
    <2>2. \A g \in Group : <<>> \in Seq(HomeEntry(g))
      BY EmptySeq
    <2>3. GroupsLive /\ \A g \in Group : Snapshot(g) = <<>>
      BY <1>3, <2>1, Zenon DEF GroupsLive, Snapshot
    <2> QED
      BY <2>2, <2>3, Zenon DEF SnapshotsHome
  <1>5. Reversible
    BY <1>1, SyncedParts DEF Reversible, Steady
  <1> QED
    BY <1>1, <1>2, <1>3, <1>4, <1>5 DEF RevInv

LEMMA RevStep ==
    ASSUME Conditions, TypeOK, NeverInvents, RevInv, [Next]_vars
    PROVE  RevInv'
  <1>1. CASE ClusterNext /\ UNCHANGED <<operatorVars, clientsVars>>
    BY <1>1, RevCluster DEF operatorVars
  <1>2. CASE OperatorNext /\ UNCHANGED clientsVars
    BY <1>2, RevOperator
  <1>3. CASE ClientsNext /\ UNCHANGED operatorVars
    BY <1>3, RevClients DEF operatorVars
  <1>4. CASE UNCHANGED vars
    BY <1>4, RevUnchanged DEF vars, clusterVars, operatorVars
  <1> QED
    BY <1>1, <1>2, <1>3, <1>4 DEF Next

----------------------------------------------------------------------------
\* At every moment, also in the middle of a command and after a crash, a workload
\* that is not at its owner's level has that level on record.
THEOREM ShutdownReversible ==
    ASSUME Conditions
    PROVE  Spec => []Reversible
  <1>1. Init => RevInv
    BY RevInit
  <1>2. TypeOK /\ NeverInvents /\ RevInv /\ [Next]_vars => RevInv'
    BY RevStep
  <1>3. RevInv => Reversible
    BY DEF RevInv
  <1> QED
    BY <1>1, <1>2, <1>3, TypeCorrect, LevelsNeverInvented, PTL DEF Spec

----------------------------------------------------------------------------
(***************************************************************************)
(* What one step may do to the snapshots.                                  *)
(***************************************************************************)

KeepsSnapshots ==
    \A g \in Group : Snapshot(g) # <<>> =>
        \/ Snapshot(g)' = Snapshot(g)
        \/ Snapshot(g)' = <<>> /\ AllHome(Recorded(Snapshot(g)))

LEMMA KeptWhenUnchanged ==
    ASSUME UNCHANGED sg
    PROVE  KeepsSnapshots
  BY DEF KeepsSnapshots, Snapshot

LEMMA KeptBySubmit ==
    ASSUME Conditions, TypeOK, RevInv, NEW g \in Group, NEW u \in User, NEW ann \in Annotations,
           Submit(g, u, ann), UNCHANGED wl
    PROVE  KeepsSnapshots
  <1> DEFINE o == sg[g].obj
             new(missed) == IF missed THEN ann ELSE Default(o.ann, ann, u)
             put(missed) == [phase |-> o.phase, ann |-> new(missed), status |-> o.status]
  <1>1. \A missed : new(missed) \in Annotations
    BY DEF Default, Annotations
  <1>2. PICK missed \in Missed : Commit(g, put(missed)) \/ UNCHANGED <<sg, queue>>
    BY DEF Submit
  <1>3. put(missed) \in Object
    BY <1>1, FeedParts, ObjectParts DEF Object, TypeOK
  <1>4. put(missed).phase = "live" /\ put(missed).status.snapshot = Snapshot(g)
    BY DEF RevInv, GroupsLive, Snapshot
  <1> HIDE DEF put
  <1>5. CASE Commit(g, put(missed))
    BY <1>3, <1>4, <1>5, SameSnapshot DEF KeepsSnapshots
  <1>6. CASE UNCHANGED <<sg, queue>>
    BY <1>6, KeptWhenUnchanged
  <1> QED
    BY <1>2, <1>5, <1>6

LEMMA KeptByClients ==
    ASSUME Conditions, TypeOK, RevInv, ClientsNext
    PROVE  KeepsSnapshots
  <1>1. CASE UNCHANGED sg
    BY <1>1, KeptWhenUnchanged
  <1>2. ASSUME NEW g \in Group, NEW u \in User, NEW ann \in Annotations,
               Submit(g, u, ann) \/ Create(g, u, ann)
        PROVE  KeepsSnapshots
    <2>1. ~ Create(g, u, ann)
      BY DEF Create, RevInv, GroupsLive
    <2> QED
      BY <1>2, <2>1, ClientsWrite, KeptBySubmit DEF TypeOK
  <1> QED
    BY <1>1, <1>2, ClientsWrite DEF TypeOK

LEMMA KeptByCluster ==
    ASSUME Conditions, TypeOK, RevInv, ClusterNext
    PROVE  KeepsSnapshots
  <1>1. ASSUME NEW g \in Group,
               DeliverGroup(g) \/ DeleteGroup(g) \/ FinalizeGroup(g) \/ DefineGroup(g)
        PROVE  FALSE
    BY <1>1, FreshParts
       DEF DeliverGroup, DeleteGroup, FinalizeGroup, DefineGroup, Conditions, Calm, RevInv,
           GroupsLive
  <1>2. CASE UNCHANGED sg
    BY <1>2, KeptWhenUnchanged
  <1> QED
    BY <1>1, <1>2 DEF ClusterNext, DeliverWorkload, Disturb

\* Of the worker's steps one fills an empty snapshot and one empties a full one.
LEMMA KeptByOperator ==
    ASSUME Conditions, TypeOK, NeverInvents, RevInv, OperatorNext
    PROVE  KeepsSnapshots
  <1> USE IdleWorker
  <1>1. job # Idle => job \in Job
    BY BusyWorker DEF TypeOK
  <1>2. CASE UNCHANGED sg
    BY <1>2, KeptWhenUnchanged
  <1>3. CASE CaptureSnapshot
    <2>1. job # Idle
      BY <1>3 DEF CaptureSnapshot
    <2>2. PICK h \in Group : /\ Snapshot(h) = <<>>
                             /\ \A g \in Group : g # h => Snapshot(g)' = Snapshot(g)
      BY <1>1, <1>3, <2>1, RevCaptureSnapshot
    <2> QED
      BY <2>2 DEF KeepsSnapshots
  <1>4. CASE MarkDown \/ AppendHistory \/ ConsumeAnnotations
    <2>1. job # Idle
      BY <1>4 DEF MarkDown, AppendHistory, ConsumeAnnotations
    <2>2. \A g \in Group : Snapshot(g)' = Snapshot(g)
      BY <1>1, <1>4, <2>1, RevMarkDown, RevAppendHistory, RevConsume
    <2> QED
      BY <2>2 DEF KeepsSnapshots
  <1>5. CASE MarkUp
    <2>1. job # Idle
      BY <1>5 DEF MarkUp
    <2>2. PICK h \in Group :
             /\ Snapshot(h)' = <<>> /\ AllHome(Recorded(Snapshot(h)))
             /\ \A g \in Group : g # h => Snapshot(g)' = Snapshot(g)
      BY <1>1, <1>5, <2>1, RevMarkUp
    <2> QED
      BY <2>2 DEF KeepsSnapshots
  <1>6. CASE ScaleEntry \/ RestoreEntry \/ CollectTargets
    BY <1>6, KeptWhenUnchanged DEF ScaleEntry, RestoreEntry, CollectTargets, Drive, clusterVars
  <1>7. CASE GroupNotFound \/ WorkloadNotFound \/ ApiError \/ Crash
    BY <1>7, RevEnd, KeptWhenUnchanged
  <1>8. ASSUME NEW g \in Group, Reconcile(g)
        PROVE  KeepsSnapshots
    BY <1>8, KeptWhenUnchanged
       DEF Reconcile, ReconcileNothing, ReconcileDown, ReconcileUp, ReconcileUpFails, Start,
           clusterVars
  <1> QED
    BY <1>3, <1>4, <1>5, <1>6, <1>7, <1>8 DEF OperatorNext, WorkerStep

\* "Must never be overwritten if non-empty": under the conditions, no step
\* exchanges a snapshot, and one that clears it has all it records back home.
THEOREM SnapshotsKept ==
    ASSUME Conditions
    PROVE  Spec => SnapshotKept
  <1>1. Init => RevInv
    BY RevInit
  <1>2. TypeOK /\ NeverInvents /\ RevInv /\ [Next]_vars => RevInv'
    BY RevStep
  <1>3. TypeOK /\ NeverInvents /\ RevInv /\ [Next]_vars => [KeepsSnapshots]_vars
    BY KeptByClients, KeptByCluster, KeptByOperator DEF Next
  <1>4. SnapshotKept <=> [][KeepsSnapshots]_vars
    BY DEF SnapshotKept, KeepsSnapshots
  <1> QED
    BY <1>1, <1>2, <1>3, <1>4, TypeCorrect, LevelsNeverInvented, PTL DEF Spec
=============================================================================
