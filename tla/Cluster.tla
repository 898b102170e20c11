------------------------------ MODULE Cluster ------------------------------
(***************************************************************************)
(* What the operator and its clients share: the ShutdownGroups and the     *)
(* workloads in the API server, the operator's cached copies of them, and  *)
(* the work queue that watch events fill.  Here are the writes every       *)
(* component makes, and the steps of the surroundings: watch events on     *)
(* their way, other people changing workloads, groups deleted and made.    *)
(***************************************************************************)
EXTENDS Admission, Informer

CONSTANTS
    Group,      \* the ShutdownGroups
    Targets,    \* [Group -> Seq(SUBSET Workload)]: what each of spec.targets selects
    Home,       \* [Workload -> level at which its owner runs it]
    Disturbed,  \* workloads that others also scale, delete and create
    Deletable   \* groups that may be deleted and created again

ASSUME ClusterConstants ==
    /\ None \notin Group
    /\ Targets \in [Group -> Seq(SUBSET Workload)]
    /\ Home \in [Workload -> Replicas]
    /\ \A w \in Workload : Home[w] \in LevelsOf(w)
    /\ Disturbed \subseteq Workload
    /\ Deletable \subseteq Group

VARIABLES
    sg,     \* [Group -> Feed(Object)]
    wl,     \* [Workload -> Feed(Level)]
    queue   \* the groups in the controller's work queue

clusterVars == <<sg, wl, queue>>

ClusterTypeOK ==
    /\ sg \in [Group -> Feed(Object)]
    /\ wl \in [Workload -> Feed(Level)]
    /\ queue \subseteq Group

\* The groups exist when the operator starts: its first list queues them all.
ClusterInit ==
    /\ sg = [g \in Group |-> Synced(Fresh)]
    /\ wl = [w \in Workload |-> Synced(Home[w])]
    /\ queue = Group

Selected(g) == UNION {Targets[g][i] : i \in DOMAIN Targets[g]}

\* The workloads of g as the cache, and as the API server, lists them.
CachedTargets(g) == {w \in Selected(g) : wl[w].seen # Absent}
ListedTargets(g) == {w \in Selected(g) : wl[w].obj # Absent}

----------------------------------------------------------------------------
\* The feed of g becomes f; a change of the cached copy is an event, and an
\* event queues g.  A group already queued stays queued once.
Feeds(g, f) ==
    /\ sg' = [sg EXCEPT ![g] = f]
    /\ queue' = IF f.seen = sg[g].seen THEN queue ELSE queue \union {g}

Commit(g, o) == Feeds(g, Publish(sg[g], o))

\* A user's annotations as the webhooks let them through.  The validating
\* webhook lists with the operator's cached client.
Submit(g, u, ann) ==
    LET o == sg[g].obj IN
    /\ o.phase # "gone"
    /\ \E missed \in Missed :
          LET new == IF missed THEN ann ELSE Default(o.ann, ann, u) IN
          IF ValidateUpdate(o.ann, new, u, CachedTargets(g), Recorded(o.status.snapshot))
          THEN Commit(g, [phase |-> o.phase, ann |-> new, status |-> o.status])
          ELSE UNCHANGED <<sg, queue>>

\* A group is created with annotations on it; a status in the file is ignored
\* (status is a subresource).
Create(g, u, ann) ==
    /\ sg[g].obj.phase = "gone"
    /\ \E missed \in Missed :
          LET new == IF missed THEN ann ELSE Default(NoAnnotations, ann, u) IN
          IF ValidateCreate(new, u, CachedTargets(g))
          THEN Commit(g, [phase |-> "live", ann |-> new, status |-> NoStatus])
          ELSE UNCHANGED <<sg, queue>>

Scale(w, level) == wl' = [wl EXCEPT ![w] = Publish(wl[w], level)]

----------------------------------------------------------------------------
\* A watch event reaches the cache.
DeliverGroup(g) ==
    /\ Lagging(sg[g])
    /\ Feeds(g, Delivered(sg[g]))
    /\ UNCHANGED wl

DeliverWorkload(w) ==
    /\ Lagging(wl[w])
    /\ wl' = [wl EXCEPT ![w] = Delivered(wl[w])]
    /\ UNCHANGED <<sg, queue>>

\* Someone else scales, deletes or creates a workload.
Disturb(w, level) ==
    /\ w \in Disturbed
    /\ level # wl[w].obj
    /\ Scale(w, level)
    /\ UNCHANGED <<sg, queue>>

\* ValidateDelete lets every deletion in, whatever the state of the group; a
\* finalizer of someone else (a foreground deletion) may hold the object.
DeleteGroup(g) ==
    /\ g \in Deletable
    /\ sg[g].obj.phase = "live"
    /\ \E o \in {Gone, [sg[g].obj EXCEPT !.phase = "terminating"]} : Commit(g, o)
    /\ UNCHANGED wl

FinalizeGroup(g) ==
    /\ sg[g].obj.phase = "terminating"
    /\ Commit(g, Gone)
    /\ UNCHANGED wl

\* A group of the same name is defined again.
DefineGroup(g) ==
    /\ sg[g].obj.phase = "gone"
    /\ Commit(g, Fresh)
    /\ UNCHANGED wl

ClusterNext ==
    \/ \E g \in Group : DeliverGroup(g) \/ DeleteGroup(g) \/ FinalizeGroup(g) \/ DefineGroup(g)
    \/ \E w \in Workload : DeliverWorkload(w)
    \/ \E w \in Disturbed : \E level \in LevelsOf(w) \union {Absent} : Disturb(w, level)
=============================================================================
