-------------------------- MODULE LifecycleProofs --------------------------
(***************************************************************************)
(* Theorem: the system implements Lifecycle, under the conditions of       *)
(* ReversibleProofs.  An action that changes no level, snapshot or state   *)
(* is a stutter of Lifecycle; the others are its actions: CaptureSnapshot  *)
(* records, ScaleEntry stops, RestoreEntry restores, MarkDown goes down,   *)
(* MarkUp goes up.                                                         *)
(***************************************************************************)
EXTENDS ReversibleProofs, Refinement

(***************************************************************************)
(* The guards of Lifecycle speak of the group in the API server, those of  *)
(* the worker of its own copy and of where it is in the snapshot.  What    *)
(* RevInv does not say, and the guards need: the state has not become the  *)
(* goal of the command behind the worker's back, and all the entries it    *)
(* has passed are stopped.                                                 *)
(***************************************************************************)
StoppedUpTo(i) ==
    \A k \in 1 .. Len(Entries) :
        k < i /\ Entries[k].w \in Steady => wl[Entries[k].w].obj = Stopped(Entries[k].w)

LifeInv ==
    job # Idle =>
        /\ job.pc \in {"collect", "scale"} => State(job.g) # "down"
        /\ job.pc = "scale" => StoppedUpTo(job.i)
        /\ job.pc = "restore" => State(job.g) # "up" /\ job.local.status.state # "up"

AbstractStep == Abstract!Next \/ UNCHANGED Abstract!vars

----------------------------------------------------------------------------
(***************************************************************************)
(* The mapping.                                                            *)
(***************************************************************************)

LEMMA PairsOf ==
    ASSUME NEW s, NEW e
    PROVE  e \in Pairs(s) <=> \E i \in DOMAIN s : s[i].w \in Steady /\ e = <<s[i].w, s[i].prev>>
  BY DEF Pairs

LEMMA EmptyPairs == Pairs(<<>>) = {}
  BY DEF Pairs

\* A pair on record is a steady target of its group and the level it has at home.
LEMMA PairsHome ==
    ASSUME RevInv, NEW g \in Group, NEW e \in Pairs(Snapshot(g))
    PROVE  \E w \in Steady : w \in Selected(g) /\ e = <<w, Home[w]>>
  <1>1. PICK i \in DOMAIN Snapshot(g) :
            Snapshot(g)[i].w \in Steady /\ e = <<Snapshot(g)[i].w, Snapshot(g)[i].prev>>
    BY PairsOf
  <1>2. Snapshot(g)[i] \in HomeEntry(g)
    BY <1>1, ElementOfSeq, LenProperties DEF RevInv, SnapshotsHome
  <1> QED
    BY <1>1, <1>2 DEF HomeEntry

LEMMA Stutter ==
    ASSUME \A w \in Steady : wl'[w].obj = wl[w].obj,
           \A g \in Group : Snapshot(g)' = Snapshot(g) /\ State(g)' = State(g)
    PROVE  AbstractStep
  BY DEF AbstractStep, Abstract!vars

LEMMA StutterUnchanged ==
    ASSUME UNCHANGED <<sg, wl>>
    PROVE  AbstractStep
  BY Stutter DEF Snapshot, State

\* One level changes.
LEMMA LevelStep ==
    ASSUME NEW v \in Steady, UNCHANGED sg,
           \A w \in Steady : w # v => wl'[w].obj = wl[w].obj
    PROVE  /\ [w \in Steady |-> wl[w].obj]'
                  = [[w \in Steady |-> wl[w].obj] EXCEPT ![v] = wl'[v].obj]
           /\ UNCHANGED <<[g \in Group |-> Pairs(Snapshot(g))], [g \in Group |-> State(g)]>>
  BY DEF Snapshot, State

\* One group changes.
LEMMA GroupStep ==
    ASSUME NEW g \in Group, UNCHANGED wl,
           \A h \in Group : h # g => Snapshot(h)' = Snapshot(h) /\ State(h)' = State(h)
    PROVE  /\ UNCHANGED [w \in Steady |-> wl[w].obj]
           /\ [h \in Group |-> Pairs(Snapshot(h))]'
                  = [[h \in Group |-> Pairs(Snapshot(h))] EXCEPT ![g] = Pairs(Snapshot(g)')]
           /\ [h \in Group |-> State(h)]'
                  = [[h \in Group |-> State(h)] EXCEPT ![g] = State(g)']
  OBVIOUS

----------------------------------------------------------------------------
(***************************************************************************)
(* Steps that are not the worker's: no level, snapshot or state changes.   *)
(***************************************************************************)

Keeps ==
    /\ \A w \in Steady : wl'[w].obj = wl[w].obj
    /\ \A g \in Group : Snapshot(g)' = Snapshot(g) /\ State(g)' = State(g)

LEMMA KeepsUnchanged ==
    ASSUME UNCHANGED <<sg, wl>>
    PROVE  Keeps
  BY DEF Keeps, Snapshot, State

LEMMA LifeKeeps ==
    ASSUME TypeOK, LifeInv, Keeps, UNCHANGED job
    PROVE  LifeInv' /\ AbstractStep
  <1>1. job # Idle => job.g \in Group
    BY BusyWorker, JobParts DEF TypeOK
  <1>2. LifeInv'
    BY <1>1 DEF LifeInv, Keeps, StoppedUpTo, Entries
  <1> QED
    BY <1>2, Stutter DEF Keeps

LEMMA CommitKeeps ==
    ASSUME Conditions, TypeOK, RevInv, NEW g \in Group, NEW o \in Object,
           o.status = sg[g].obj.status, Commit(g, o), UNCHANGED wl
    PROVE  Keeps
  <1>1. sg' = [sg EXCEPT ![g] = Synced(o)]
    BY CommitFresh DEF RevInv, Conditions
  <1>2. sg'[g].obj = o /\ \A h \in Group : h # g => sg'[h] = sg[h]
    BY <1>1, SyncedParts DEF TypeOK, ClusterTypeOK
  <1> QED
    BY <1>2 DEF Keeps, Snapshot, State

LEMMA SubmitKeeps ==
    ASSUME Conditions, TypeOK, RevInv, NEW g \in Group, NEW u \in User, NEW ann \in Annotations,
           Submit(g, u, ann), UNCHANGED wl
    PROVE  Keeps
  <1> DEFINE o == sg[g].obj
             new(missed) == IF missed THEN ann ELSE Default(o.ann, ann, u)
             put(missed) == [phase |-> o.phase, ann |-> new(missed), status |-> o.status]
  <1>1. \A missed : new(missed) \in Annotations
    BY DEF Default, Annotations
  <1>2. PICK missed \in Missed : Commit(g, put(missed)) \/ UNCHANGED <<sg, queue>>
    BY DEF Submit
  <1>3. put(missed) \in Object /\ put(missed).status = o.status
    BY <1>1, FeedParts, ObjectParts DEF Object, TypeOK
  <1> HIDE DEF put
  <1>4. CASE Commit(g, put(missed))
    BY <1>3, <1>4, CommitKeeps
  <1>5. CASE UNCHANGED <<sg, queue>>
    BY <1>5, KeepsUnchanged
  <1> QED
    BY <1>2, <1>4, <1>5

LEMMA ClientsKeep ==
    ASSUME Conditions, TypeOK, RevInv, ClientsNext
    PROVE  Keeps
  <1>1. CASE UNCHANGED sg
    BY <1>1, ClientsWrite, KeepsUnchanged DEF TypeOK
  <1>2. ASSUME NEW g \in Group, NEW u \in User, NEW ann \in Annotations,
               Submit(g, u, ann) \/ Create(g, u, ann)
        PROVE  Keeps
    <2>1. ~ Create(g, u, ann)
      BY DEF Create, RevInv, GroupsLive
    <2> QED
      BY <1>2, <2>1, ClientsWrite, SubmitKeeps DEF TypeOK
  <1> QED
    BY <1>1, <1>2, ClientsWrite DEF TypeOK

LEMMA ClusterKeeps ==
    ASSUME Conditions, TypeOK, RevInv, ClusterNext
    PROVE  Keeps
  <1>1. ASSUME NEW g \in Group,
               DeliverGroup(g) \/ DeleteGroup(g) \/ FinalizeGroup(g) \/ DefineGroup(g)
        PROVE  FALSE
    BY <1>1, FreshParts
       DEF DeliverGroup, DeleteGroup, FinalizeGroup, DefineGroup, Conditions, Calm, RevInv,
           GroupsLive
  <1>2. ASSUME NEW w \in Workload, DeliverWorkload(w)
        PROVE  FALSE
    BY <1>2, FreshParts DEF DeliverWorkload, RevInv
  <1>3. ASSUME NEW v \in Disturbed, NEW level \in LevelsOf(v) \union {Absent}, Disturb(v, level)
        PROVE  Keeps
    <2>1. \A w \in Steady : wl'[w] = wl[w]
      BY <1>3 DEF Disturb, Scale, Steady, TypeOK, ClusterTypeOK
    <2> QED
      BY <1>3, <2>1 DEF Disturb, Keeps, Snapshot, State
  <1> QED
    BY <1>1, <1>2, <1>3 DEF ClusterNext

----------------------------------------------------------------------------
(***************************************************************************)
(* The worker's status patches.                                            *)
(***************************************************************************)

LEMMA PatchState ==
    ASSUME Conditions, TypeOK, RevInv, job \in Job, NEW status \in Status, NEW pc,
           PatchStatus(status, pc), NEW g \in Group, g = job.g
    PROVE  /\ State(g)' = Merged(State(g), job.local.status.state, status.state)
           /\ Snapshot(g)' = Merged(Snapshot(g), Entries, status.snapshot)
           /\ \A h \in Group : h # g => Snapshot(h)' = Snapshot(h) /\ State(h)' = State(h)
           /\ job'.g = g /\ job'.pc = pc /\ job'.i = 1 /\ UNCHANGED wl
  <1> DEFINE new == Patched(status)
  <1>1. new.status.state = Merged(State(g), job.local.status.state, status.state)
    BY DEF Patched, MergeStatus, State
  <1>2. new.status.snapshot = Merged(Snapshot(g), Entries, status.snapshot)
    BY PatchFresh
  <1>3. /\ sg' = [sg EXCEPT ![g] = Synced(new)] /\ UNCHANGED wl
        /\ job'.g = g /\ job'.pc = pc /\ job'.i = 1
    BY PatchFresh
  <1> HIDE DEF new
  <1>4. sg'[g].obj = new /\ \A h \in Group : h # g => sg'[h] = sg[h]
    BY <1>3, SyncedParts DEF TypeOK, ClusterTypeOK
  <1> QED
    BY <1>1, <1>2, <1>3, <1>4 DEF Snapshot, State

LEMMA LifeCapture ==
    ASSUME Conditions, TypeOK, RevInv, LifeInv, job \in Job, job # Idle, CaptureSnapshot
    PROVE  LifeInv' /\ AbstractStep
  <1> DEFINE st == [job.local.status EXCEPT !.snapshot = job.found, !.operator = job.operator,
                                            !.reason = job.reason]
  <1>0. PICK g \in Group : g = job.g
    BY JobParts
  <1>1. st \in Status /\ st.snapshot = job.found /\ st.state = job.local.status.state
    BY JobParts DEF Status
  <1>2. PatchStatus(st, "scale") /\ job.pc = "collect"
    BY DEF CaptureSnapshot
  <1> HIDE DEF st
  <1>3. /\ Snapshot(g) = <<>> /\ Entries = <<>> /\ job.found \in Seq(HomeEntry(g))
        /\ State(g) # "down"
    BY <1>0, <1>2 DEF RevInv, JobInv, LifeInv
  <1>4. /\ Snapshot(g)' = job.found /\ State(g)' = State(g)
        /\ \A h \in Group : h # g => Snapshot(h)' = Snapshot(h) /\ State(h)' = State(h)
        /\ job'.g = g /\ job'.pc = "scale" /\ job'.i = 1 /\ UNCHANGED wl
    BY <1>0, <1>1, <1>2, <1>3, PatchState DEF Merged
  <1>5. LifeInv'
    <2>1. StoppedUpTo(1)'
      BY DEF StoppedUpTo
    <2> QED
      BY <1>3, <1>4, <2>1 DEF LifeInv
  <1> DEFINE steady == {k \in DOMAIN job.found : job.found[k].w \in Steady}
             ws == {job.found[k].w : k \in steady}
  <1>6. \A k \in steady : /\ job.found[k].w \in Selected(g) \cap Steady
                          /\ job.found[k].prev = wl[job.found[k].w].obj
    <2> SUFFICES ASSUME NEW k \in steady
                 PROVE  /\ job.found[k].w \in Selected(g) \cap Steady
                        /\ job.found[k].prev = wl[job.found[k].w].obj
      OBVIOUS
    <2>1. job.found[k] \in HomeEntry(g)
      BY <1>3, ElementOfSeq, LenProperties
    <2>2. job.found[k].w \in Selected(g) \cap Steady /\ job.found[k].prev = Home[job.found[k].w]
      BY <2>1 DEF HomeEntry
    <2> QED
      BY <1>0, <1>2, <2>2, StillHome
  <1>7. ws \in SUBSET (Selected(g) \cap Steady)
    BY <1>6
  <1>8. Pairs(Snapshot(g)') = {<<w, wl[w].obj>> : w \in ws}
    <2>1. Pairs(job.found) = {<<job.found[k].w, job.found[k].prev>> : k \in steady}
      BY DEF Pairs
    <2>2. {<<w, wl[w].obj>> : w \in ws}
              = {<<job.found[k].w, wl[job.found[k].w].obj>> : k \in steady}
      OBVIOUS
    <2>3. {<<job.found[k].w, wl[job.found[k].w].obj>> : k \in steady}
              = {<<job.found[k].w, job.found[k].prev>> : k \in steady}
      BY <1>6
    <2> QED
      BY <1>4, <2>1, <2>2, <2>3
  <1> HIDE DEF ws, steady
  <1>9. {<<w, [v \in Steady |-> wl[v].obj][w]>> : w \in ws} = {<<w, wl[w].obj>> : w \in ws}
    BY <1>7
  <1>10. [h \in Group |-> Pairs(Snapshot(h))][g] = {} /\ [h \in Group |-> State(h)][g] # "down"
    BY <1>3, EmptyPairs
  <1>11. [h \in Group |-> State(h)]' = [h \in Group |-> State(h)]
    BY <1>4
  <1>12. Abstract!Record(g)
    <2>1. ws \in SUBSET [h \in Group |-> Selected(h) \cap Steady][g]
      BY <1>7
    <2>2. [h \in Group |-> Pairs(Snapshot(h))]'
              = [[h \in Group |-> Pairs(Snapshot(h))]
                    EXCEPT ![g] = {<<w, [v \in Steady |-> wl[v].obj][w]>> : w \in ws}]
      BY <1>4, <1>8, <1>9, GroupStep
    <2>3. UNCHANGED <<[w \in Steady |-> wl[w].obj], [h \in Group |-> State(h)]>>
      BY <1>4, <1>11
    <2> QED
      BY <1>10, <2>1, <2>2, <2>3, Zenon DEF Abstract!Record
  <1> QED
    BY <1>5, <1>12 DEF AbstractStep, Abstract!Next

LEMMA LifeScaleEntry ==
    ASSUME Conditions, TypeOK, RevInv, LifeInv, job \in Job, job # Idle, ScaleEntry
    PROVE  LifeInv' /\ AbstractStep
  <1> DEFINE w == Entries[job.i].w
  <1>0. PICK g \in Group : g = job.g
    BY JobParts
  <1>1. job.pc = "scale" /\ job.i <= Len(Entries) /\ Drive(w, Stopped(w))
    BY DEF ScaleEntry
  <1>2. /\ w \in Workload /\ Stopped(w) \in Replicas
        /\ w \in Steady => RecordedAt(Snapshot(g), w, Home[w])
        /\ job.i \in Nat /\ Len(Entries) \in Nat
    BY <1>0, <1>1, CurrentEntry, LevelTypes, JobParts, LenProperties
  <1>3. State(g) # "down" /\ StoppedUpTo(job.i)
    BY <1>0, <1>1 DEF LifeInv
  <1> HIDE DEF w
  <1>4. /\ wl'[w].obj = Stopped(w) /\ \A v \in Workload : v # w => wl'[v] = wl[v]
        /\ UNCHANGED sg /\ job' = [job EXCEPT !.i = @ + 1]
    BY <1>1, <1>2, DriveFresh
  <1>5. job'.pc = "scale" /\ job'.g = g /\ job'.local = job.local /\ job'.i = job.i + 1
    BY <1>0, <1>1, <1>4 DEF Job
  <1>6. LifeInv'
    <2>1. Entries' = Entries /\ State(g)' = State(g)
      BY <1>4, <1>5 DEF Entries, State
    <2>2. ASSUME NEW k \in 1 .. Len(Entries), k < job.i + 1, Entries[k].w \in Steady
          PROVE  wl'[Entries[k].w].obj = Stopped(Entries[k].w)
      <3>1. CASE Entries[k].w = w
        BY <1>4, <3>1
      <3>2. CASE Entries[k].w # w
        <4>1. k < job.i
          BY <1>2, <2>2, <3>2 DEF w
        <4> QED
          BY <1>3, <1>4, <2>2, <3>2, <4>1 DEF StoppedUpTo, Steady
      <3> QED
        BY <3>1, <3>2
    <2> QED
      BY <1>3, <1>5, <2>1, <2>2 DEF LifeInv, StoppedUpTo
  <1>7. CASE w \in Steady
    <2>1. <<w, Home[w]>> \in Pairs(Snapshot(g))
      BY <1>2, <1>7, PairsOf DEF RecordedAt
    <2>2. \A v \in Steady : v # w => wl'[v].obj = wl[v].obj
      BY <1>4 DEF Steady
    <2>3. /\ [v \in Steady |-> wl[v].obj]'
                = [[v \in Steady |-> wl[v].obj] EXCEPT ![w] = [v \in Steady |-> Stopped(v)][w]]
          /\ UNCHANGED <<[h \in Group |-> Pairs(Snapshot(h))], [h \in Group |-> State(h)]>>
      BY <1>4, <1>7, <2>2, LevelStep
    <2>4. <<w, Home[w]>>[1] = w
      OBVIOUS
    <2>5. <<w, Home[w]>> \in [h \in Group |-> Pairs(Snapshot(h))][g]
      BY <2>1
    <2>6. [h \in Group |-> State(h)][g] # "down"
      BY <1>3
    <2>7. Abstract!Stop(g)
      BY <2>3, <2>4, <2>5, <2>6 DEF Abstract!Stop
    <2> QED
      BY <1>6, <2>7 DEF AbstractStep, Abstract!Next
  <1>8. CASE w \notin Steady
    <2>1. Keeps
      BY <1>4, <1>8 DEF Keeps, Steady, Snapshot, State
    <2> QED
      BY <1>6, <2>1, Stutter DEF Keeps
  <1> QED
    BY <1>7, <1>8

LEMMA LifeRestoreEntry ==
    ASSUME Conditions, TypeOK, RevInv, LifeInv, job \in Job, job # Idle, RestoreEntry
    PROVE  LifeInv' /\ AbstractStep
  <1> DEFINE e == Entries[job.i]
  <1>0. PICK g \in Group : g = job.g
    BY JobParts
  <1>1. job.pc = "restore" /\ job.i <= Len(Entries)
    BY DEF RestoreEntry
  <1>2. /\ e.w \in Workload /\ e.prev \in Replicas
        /\ e.w \in Steady => e.prev = Home[e.w] /\ RecordedAt(Snapshot(g), e.w, Home[e.w])
    BY <1>0, <1>1, CurrentEntry
  <1>3. State(g) # "up" /\ job.local.status.state # "up"
    BY <1>0, <1>1 DEF LifeInv
  <1>4. UNCHANGED sg /\ job' = [job EXCEPT !.i = @ + 1]
    BY DEF RestoreEntry, Drive, NextEntry, clusterVars
  <1>5. LifeInv'
    <2>1. job'.pc = "restore" /\ job'.g = g /\ job'.local = job.local
      BY <1>0, <1>1, <1>4 DEF Job
    <2> QED
      BY <1>3, <1>4, <2>1 DEF LifeInv, State
  <1>6. CASE UNCHANGED wl
    BY <1>4, <1>5, <1>6, StutterUnchanged
  <1>7. CASE Drive(e.w, e.prev)
    <2> HIDE DEF e
    <2>1. wl'[e.w].obj = e.prev /\ \A v \in Workload : v # e.w => wl'[v] = wl[v]
      BY <1>2, <1>7, DriveFresh
    <2>2. CASE e.w \in Steady
      <3>1. <<e.w, e.prev>> \in Pairs(Snapshot(g))
        BY <1>2, <2>2, PairsOf DEF RecordedAt
      <3>2. \A v \in Steady : v # e.w => wl'[v].obj = wl[v].obj
        BY <2>1 DEF Steady
      <3>3. /\ [v \in Steady |-> wl[v].obj]'
                  = [[v \in Steady |-> wl[v].obj] EXCEPT ![e.w] = e.prev]
            /\ UNCHANGED <<[h \in Group |-> Pairs(Snapshot(h))], [h \in Group |-> State(h)]>>
        BY <1>4, <2>1, <2>2, <3>2, LevelStep
      <3>4. <<e.w, e.prev>>[1] = e.w /\ <<e.w, e.prev>>[2] = e.prev
        OBVIOUS
      <3>5. <<e.w, e.prev>> \in [h \in Group |-> Pairs(Snapshot(h))][g]
        BY <3>1
      <3>6. [h \in Group |-> State(h)][g] # "up"
        BY <1>3
      <3>7. Abstract!Restore(g)
        BY <3>3, <3>4, <3>5, <3>6 DEF Abstract!Restore
      <3> QED
        BY <1>5, <3>7 DEF AbstractStep, Abstract!Next
    <2>3. CASE e.w \notin Steady
      <3>1. Keeps
        BY <1>4, <2>1, <2>3 DEF Keeps, Steady, Snapshot, State
      <3> QED
        BY <1>5, <3>1, Stutter DEF Keeps
    <2> QED
      BY <2>2, <2>3
  <1> QED
    BY <1>6, <1>7 DEF RestoreEntry, clusterVars

LEMMA LifeMarkDown ==
    ASSUME Conditions, TypeOK, RevInv, LifeInv, job \in Job, job # Idle, MarkDown
    PROVE  LifeInv' /\ AbstractStep
  <1> DEFINE st == [job.local.status EXCEPT !.state = "down"]
  <1>0. PICK g \in Group : g = job.g
    BY JobParts
  <1>1. st \in Status /\ st.snapshot = Entries /\ st.state = "down"
    BY JobParts DEF Status, Entries
  <1>2. PatchStatus(st, "history") /\ job.pc = "scale" /\ job.i > Len(Entries)
    BY DEF MarkDown
  <1> HIDE DEF st
  <1>3. State(g) # "down" /\ StoppedUpTo(job.i) /\ Entries = Snapshot(g)
    BY <1>0, <1>2 DEF LifeInv, RevInv, JobInv
  <1>4. /\ Snapshot(g)' = Snapshot(g) /\ State(g)' \in {State(g), "down"}
        /\ \A h \in Group : h # g => Snapshot(h)' = Snapshot(h) /\ State(h)' = State(h)
        /\ job'.pc = "history" /\ UNCHANGED wl
    BY <1>0, <1>1, <1>2, PatchState DEF Merged
  <1>5. LifeInv'
    BY <1>4 DEF LifeInv
  <1>6. CASE State(g)' = State(g)
    BY <1>4, <1>5, <1>6, Stutter
  <1>7. CASE State(g)' = "down"
    <2>1. ASSUME NEW e \in Pairs(Snapshot(g))
          PROVE  [w \in Steady |-> wl[w].obj][e[1]] = [w \in Steady |-> Stopped(w)][e[1]]
      <3>1. PICK k \in DOMAIN Entries :
                Entries[k].w \in Steady /\ e = <<Entries[k].w, Entries[k].prev>>
        BY <1>3, PairsOf
      <3>2. k \in 1 .. Len(Entries) /\ k < job.i
        BY <1>2, JobParts, LenProperties
      <3>3. wl[Entries[k].w].obj = Stopped(Entries[k].w)
        BY <1>3, <3>1, <3>2 DEF StoppedUpTo
      <3> QED
        BY <3>1, <3>3
    <2>2. [h \in Group |-> Pairs(Snapshot(h))]' = [h \in Group |-> Pairs(Snapshot(h))]
      BY <1>4
    <2>3. [h \in Group |-> State(h)]' = [[h \in Group |-> State(h)] EXCEPT ![g] = "down"]
      BY <1>4, <1>7, GroupStep
    <2>4. [h \in Group |-> State(h)][g] # "down"
      BY <1>3
    <2>5. \A e \in [h \in Group |-> Pairs(Snapshot(h))][g] :
              [w \in Steady |-> wl[w].obj][e[1]] = [w \in Steady |-> Stopped(w)][e[1]]
      BY <2>1
    <2>6. UNCHANGED [w \in Steady |-> wl[w].obj]
      BY <1>4
    <2>7. Abstract!GoDown(g)
      BY <2>2, <2>3, <2>4, <2>5, <2>6 DEF Abstract!GoDown
    <2> QED
      BY <1>5, <2>7 DEF AbstractStep, Abstract!Next
  <1> QED
    BY <1>4, <1>6, <1>7

LEMMA LifeMarkUp ==
    ASSUME Conditions, TypeOK, RevInv, LifeInv, job \in Job, job # Idle, MarkUp
    PROVE  LifeInv' /\ AbstractStep
  <1> DEFINE st == [job.local.status EXCEPT !.state = "up", !.operator = job.operator,
                                            !.reason = job.reason, !.snapshot = <<>>]
  <1>0. PICK g \in Group : g = job.g
    BY JobParts
  <1>1. st \in Status /\ st.snapshot = <<>>
    BY JobParts, StatusTypes
  <1>2. st.state = "up"
    BY JobParts DEF Status
  <1>3. PatchStatus(st, "history") /\ job.pc = "restore" /\ job.i > Len(Entries)
    BY DEF MarkUp
  <1> HIDE DEF st
  <1>4. /\ State(g) # "up" /\ job.local.status.state # "up"
        /\ RestoredUpTo(job.i) /\ Entries = Snapshot(g)
    BY <1>0, <1>3 DEF LifeInv, RevInv, JobInv
  <1>5. /\ Snapshot(g)' = <<>> /\ State(g)' = "up"
        /\ \A h \in Group : h # g => Snapshot(h)' = Snapshot(h) /\ State(h)' = State(h)
        /\ job'.pc = "history" /\ UNCHANGED wl
    BY <1>0, <1>1, <1>2, <1>3, <1>4, PatchState DEF Merged
  <1>6. LifeInv'
    BY <1>5 DEF LifeInv
  <1>7. ASSUME NEW e \in Pairs(Snapshot(g))
        PROVE  [w \in Steady |-> wl[w].obj][e[1]] = e[2]
    <2>1. PICK k \in DOMAIN Entries :
              Entries[k].w \in Steady /\ e = <<Entries[k].w, Entries[k].prev>>
      BY <1>4, <1>7, PairsOf
    <2>2. k \in 1 .. Len(Entries) /\ k < job.i
      BY <1>3, JobParts, LenProperties
    <2>3. wl[Entries[k].w].obj = Home[Entries[k].w]
      BY <1>4, <2>1, <2>2 DEF RestoredUpTo
    <2>4. Entries[k] \in HomeEntry(g)
      BY <1>4, <2>2 DEF RevInv, SnapshotsHome
    <2>5. Entries[k].prev = Home[Entries[k].w]
      BY <2>1, <2>4 DEF HomeEntry
    <2> QED
      BY <2>1, <2>3, <2>5
  <1>8. /\ [h \in Group |-> Pairs(Snapshot(h))]'
              = [[h \in Group |-> Pairs(Snapshot(h))] EXCEPT ![g] = {}]
        /\ [h \in Group |-> State(h)]' = [[h \in Group |-> State(h)] EXCEPT ![g] = "up"]
        /\ UNCHANGED [w \in Steady |-> wl[w].obj]
    BY <1>5, EmptyPairs, GroupStep
  <1>9. [h \in Group |-> State(h)][g] # "up"
    BY <1>4
  <1>10. \A e \in [h \in Group |-> Pairs(Snapshot(h))][g] :
            [w \in Steady |-> wl[w].obj][e[1]] = e[2]
    BY <1>7
  <1>11. Abstract!GoUp(g)
    BY <1>8, <1>9, <1>10 DEF Abstract!GoUp
  <1> QED
    BY <1>6, <1>11 DEF AbstractStep, Abstract!Next

LEMMA LifeAppendHistory ==
    ASSUME Conditions, TypeOK, RevInv, LifeInv, job \in Job, job # Idle, AppendHistory
    PROVE  LifeInv' /\ AbstractStep
  <1>0. PICK g \in Group : g = job.g
    BY JobParts
  <1>1. JobEntry \in HistoryEntry /\ job.local.status.history \in Seq(HistoryEntry)
    BY JobParts DEF JobEntry, HistoryEntry, Status, HistoryList
  <1>2. Extended(job.local.status.history) \in HistoryList
    <2>1. <<JobEntry>> \o job.local.status.history \in Seq(HistoryEntry)
      BY <1>1
    <2> QED
      BY <2>1, CappedType DEF Extended
  <1> DEFINE st == [job.local.status EXCEPT !.history = Extended(@)]
  <1>3. st \in Status /\ st.snapshot = Entries /\ st.state = job.local.status.state
    BY <1>2, JobParts DEF Status, Entries
  <1>4. PatchStatus(st, "consume")
    BY DEF AppendHistory
  <1> HIDE DEF st
  <1>5. /\ Snapshot(g)' = Snapshot(g) /\ State(g)' = State(g)
        /\ \A h \in Group : h # g => Snapshot(h)' = Snapshot(h) /\ State(h)' = State(h)
        /\ job'.pc = "consume" /\ UNCHANGED wl
    BY <1>0, <1>3, <1>4, PatchState DEF Merged
  <1> QED
    BY <1>5, Stutter DEF LifeInv

LEMMA LifeConsume ==
    ASSUME Conditions, TypeOK, RevInv, job \in Job, job # Idle, ConsumeAnnotations
    PROVE  LifeInv' /\ AbstractStep
  <1> DEFINE cur == sg[job.g].obj
             ann == MergeAnnotations(cur.ann, job.local.ann, Without(job.local.ann, job.cmd))
             new == [phase |-> cur.phase, status |-> cur.status, ann |-> ann]
  <1>1. cur \in Object /\ job.local.ann \in Annotations /\ job.g \in Group
    BY JobParts, ObjectParts, FeedParts DEF TypeOK
  <1>2. Without(job.local.ann, job.cmd) \in Annotations
    BY DEF Without, NoAnnotations, Annotations, Command
  <1>3. ann \in Annotations
    BY <1>1, <1>2, ObjectParts, MergeTypes
  <1> HIDE DEF ann
  <1>4. new \in Object /\ new.status = cur.status
    BY <1>1, <1>3, ObjectParts DEF Object
  <1>5. Commit(job.g, new) /\ job' = Idle /\ UNCHANGED wl
    BY DEF ConsumeAnnotations, ann
  <1> HIDE DEF new
  <1>6. Keeps
    BY <1>1, <1>4, <1>5, CommitKeeps
  <1> QED
    BY <1>5, <1>6, Stutter DEF LifeInv, Keeps

----------------------------------------------------------------------------
(***************************************************************************)
(* The worker's steps that write nothing.                                  *)
(***************************************************************************)

LEMMA LifeCollect ==
    ASSUME TypeOK, LifeInv, job \in Job, job # Idle, CollectTargets
    PROVE  LifeInv' /\ AbstractStep
  <1>1. job.pc = "collect" /\ UNCHANGED <<sg, wl>>
    BY DEF CollectTargets, clusterVars
  <1>2. job'.pc = "collect" /\ job'.g = job.g
    BY <1>1 DEF CollectTargets, Job
  <1> QED
    BY <1>1, <1>2, StutterUnchanged DEF LifeInv, State

LEMMA LifeStart ==
    ASSUME Conditions, TypeOK, RevInv, NEW g \in Group, ReconcileDown(g) \/ ReconcileUp(g)
    PROVE  LifeInv' /\ AbstractStep
  <1> DEFINE o == sg[g].seen
  <1>1. o.status.state = State(g)
    BY FreshParts DEF RevInv, State
  <1>2. PICK pc \in {"collect", "scale", "restore", "consume"} :
            /\ Start(g, o, pc)
            /\ pc \in {"collect", "scale"} => o.status.state # "down"
            /\ pc = "restore" => o.status.state # "up"
    BY DEF ReconcileDown, ReconcileUp, DownStart, UpStart
  <1>3. /\ job'.pc = pc /\ job'.g = g /\ job'.local = o /\ job'.i = 1 /\ UNCHANGED <<sg, wl>>
    BY <1>2 DEF Start
  <1>4. StoppedUpTo(1)'
    BY DEF StoppedUpTo
  <1>5. LifeInv'
    BY <1>1, <1>2, <1>3, <1>4 DEF LifeInv, State
  <1> QED
    BY <1>3, <1>5, StutterUnchanged

\* An error or a crash: what has been written stays, and the job is gone.
LEMMA LifeEnd ==
    ASSUME Conditions, TypeOK, RevInv,
           GroupNotFound \/ WorkloadNotFound \/ ApiError \/ Crash
    PROVE  LifeInv' /\ AbstractStep
  <1>1. job' = Idle
    BY DEF GroupNotFound, WorkloadNotFound, ApiError, Crash, Fail
  <1> QED
    BY <1>1, RevEnd, StutterUnchanged DEF LifeInv

LEMMA LifeOperator ==
    ASSUME Conditions, TypeOK, RevInv, LifeInv, OperatorNext
    PROVE  LifeInv' /\ AbstractStep
  <1> USE IdleWorker
  <1>1. job # Idle => job \in Job
    BY BusyWorker DEF TypeOK
  <1>2. CASE WorkerStep
    <2>1. CASE CollectTargets
      BY <1>1, <2>1, LifeCollect DEF CollectTargets
    <2>2. CASE CaptureSnapshot
      BY <1>1, <2>2, LifeCapture DEF CaptureSnapshot
    <2>3. CASE ScaleEntry
      BY <1>1, <2>3, LifeScaleEntry DEF ScaleEntry
    <2>4. CASE MarkDown
      BY <1>1, <2>4, LifeMarkDown DEF MarkDown
    <2>5. CASE RestoreEntry
      BY <1>1, <2>5, LifeRestoreEntry DEF RestoreEntry
    <2>6. CASE MarkUp
      BY <1>1, <2>6, LifeMarkUp DEF MarkUp
    <2>7. CASE AppendHistory
      BY <1>1, <2>7, LifeAppendHistory DEF AppendHistory
    <2>8. CASE ConsumeAnnotations
      BY <1>1, <2>8, LifeConsume DEF ConsumeAnnotations
    <2>9. CASE GroupNotFound \/ WorkloadNotFound
      BY <2>9, LifeEnd
    <2> QED
      BY <1>2, <2>1, <2>2, <2>3, <2>4, <2>5, <2>6, <2>7, <2>8, <2>9 DEF WorkerStep
  <1>3. ASSUME NEW g \in Group, Reconcile(g)
        PROVE  LifeInv' /\ AbstractStep
    <2>1. CASE ReconcileNothing(g) \/ ReconcileUpFails(g)
      <3>1. UNCHANGED <<sg, wl, job>>
        BY <2>1 DEF ReconcileNothing, ReconcileUpFails, clusterVars, operatorVars
      <3> QED
        BY <3>1, KeepsUnchanged, LifeKeeps
    <2>2. CASE ReconcileDown(g) \/ ReconcileUp(g)
      BY <2>2, LifeStart
    <2> QED
      BY <1>3, <2>1, <2>2 DEF Reconcile
  <1>4. CASE ApiError \/ Crash
    BY <1>4, LifeEnd
  <1> QED
    BY <1>2, <1>3, <1>4 DEF OperatorNext

LEMMA LifeStep ==
    ASSUME Conditions, TypeOK, RevInv, LifeInv, [Next]_vars
    PROVE  LifeInv' /\ AbstractStep
  <1>1. CASE ClusterNext /\ UNCHANGED <<operatorVars, clientsVars>>
    BY <1>1, ClusterKeeps, LifeKeeps DEF operatorVars
  <1>2. CASE OperatorNext /\ UNCHANGED clientsVars
    BY <1>2, LifeOperator
  <1>3. CASE ClientsNext /\ UNCHANGED operatorVars
    BY <1>3, ClientsKeep, LifeKeeps DEF operatorVars
  <1>4. CASE UNCHANGED vars
    BY <1>4, KeepsUnchanged, LifeKeeps DEF vars, clusterVars, operatorVars
  <1> QED
    BY <1>1, <1>2, <1>3, <1>4 DEF Next

LEMMA LifeInit == Init => LifeInv /\ Abstract!Init
  <1> SUFFICES ASSUME Init PROVE LifeInv /\ Abstract!Init
    OBVIOUS
  <1>1. /\ \A g \in Group : sg[g].obj = Fresh
        /\ \A w \in Workload : wl[w].obj = Home[w]
        /\ job = Idle
    BY SyncedParts DEF Init, ClusterInit, OperatorInit
  <1>2. Fresh.status.state = "" /\ Fresh.status.snapshot = <<>>
    BY DEF Fresh, NoStatus
  <1>3. \A g \in Group : State(g) = "" /\ Pairs(Snapshot(g)) = {}
    BY <1>1, <1>2, EmptyPairs, Zenon DEF State, Snapshot
  <1>4. \A w \in Steady : wl[w].obj = Home[w]
    BY <1>1 DEF Steady
  <1> QED
    BY <1>1, <1>3, <1>4 DEF LifeInv, Abstract!Init

----------------------------------------------------------------------------
\* Under the conditions every step of the system, with commands at any time,
\* failed calls and crashes, is a step of Lifecycle or changes nothing Lifecycle
\* sees: a level is changed only after it is on record and a record is dropped
\* only when everything on it is back.
THEOREM SystemImplementsLifecycle ==
    ASSUME Conditions
    PROVE  Spec => ImplementsLifecycle
  <1>1. Init => RevInv /\ LifeInv /\ Abstract!Init
    BY RevInit, LifeInit
  <1>2. TypeOK /\ NeverInvents /\ RevInv /\ [Next]_vars => RevInv'
    BY RevStep
  <1>3. TypeOK /\ RevInv /\ LifeInv /\ [Next]_vars => LifeInv' /\ [Abstract!Next]_(Abstract!vars)
    BY LifeStep DEF AbstractStep
  <1> QED
    BY <1>1, <1>2, <1>3, TypeCorrect, LevelsNeverInvented, PTL
       DEF Spec, ImplementsLifecycle, Abstract!Spec
=============================================================================
