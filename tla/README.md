# kshutdown in TLA+

kshutdown shuts down and restarts a set of Kubernetes workloads: a user writes a
command annotation on a `ShutdownGroup`, webhooks decide whether the user may, and
an operator records the replica counts, scales everything to zero and later restores
it. This directory models the operator, the webhooks, the commands of the plugin that write
something and the parts of Kubernetes between them, checks the model with TLC on small
instances, and proves for instances of every size every safety property it checks, under
conditions that are named: a shutdown can always be undone, a snapshot is never thrown away early,
a command is executed once, in full and within its user's permissions, the status is true, and the
whole implements an abstract specification that knows of no commands, caches or failures.

## The system

| Part (source) | State it keeps | Operations | What makes it correct |
|---|---|---|---|
| Controller (`internal/controller/shutdowngroup_controller.go`) | none between reconciliations; a local copy of the group during one | `Reconcile`, `reconcileDown`, `reconcileUp`, `collectTargets`, `scaleToZero`, `suspendCronJob`, `restoreReplicas`, `unsuspendCronJob`, `appendHistory`, `consumeAnnotations` | counts are recorded before anything is scaled and kept until everything is restored; a command ends done or is retried; state and history tell the truth |
| API type (`api/v1alpha1`) | `ShutdownGroup`: command annotations, `status` (state, operator, reason, snapshot, history) | merge patches | the snapshot is written once; the history holds at most `MaxHistoryEntries` |
| Webhooks (`internal/webhook`) | none | `Default`, `ValidateCreate/Update/Delete` | the operator annotation names the real user; a command gets in only with permissions |
| Access reviews (`internal/authz`) | none | `CheckFor`, `CheckPatch`, `CurrentUsername` | the same question is asked of the same user |
| Plugin (`cmd/kubectl-kshutdown`) | none; between its read and its patch, what it read | `down`, `up`, `define`, `export`, `list`, `status`, `history` | a command carries its own parameters and no others; a group kept in Git gives no command |
| Manager (`cmd/main.go`) | informer cache, work queue | start, stop, leader election when asked for | the controller's client reads from the cache; one process reconciles |
| API server, client-go, controller-runtime (outside `src/`) | all objects | get, list, patch, watch | external |

The parts share no memory. They meet in the API server: the plugin patches annotations,
watch events bring the group to the operator's cache and its queue, the worker reads
both from the cache and writes status, workloads and annotations by merge patches that
carry no resource version, so nobody notices that what they read has changed.

What is hard: a command can be written while another is executed; each of a
reconciliation's calls may fail and the process may die between any two; the cache may
be behind the operator's own writes; two groups may select the same workload; other
people scale and delete workloads, and groups; a group's file in Git is applied over what
has happened since; permissions are checked at one time and used at another; nothing but a
flag keeps two operators apart. `PROJECT.json` lists these hazards with the line where each bites and
the properties that cover it.

## Modules

| Module | Models | State |
|---|---|---|
| `Informer` | an object of the API server and its cached copy (external) | none: `Feed` values |
| `ShutdownGroup` | the API type, merge patches | none |
| `Admission` | webhooks and access reviews, as predicates and functions | none |
| `Cluster` | what all share; watch events, other people, deletion and definition of groups | `sg`, `wl`, `queue` |
| `Operator` | the controller | `job`, `faults` |
| `Clients` | `kubectl kshutdown down/up/export`, `kubectl annotate`, `kubectl apply` | `cli`, `commands`, `git` |
| `System` | the composition, fairness, all properties | |
| `TwoOperators` | `System` with a second operator process | `job2`, `queue2` |
| `Lifecycle` | the abstract specification: levels, records, states | `level`, `record`, `state` |
| `Refinement` | the mapping from `System` to `Lifecycle` | |
| `Instances` | workloads, selections and permissions for TLC | |
| `MCSystem`, `MCTwoOperators` | what TLC runs | |
| `SystemProofs` | types; levels are never invented | |
| `ReversibleProofs` | a shutdown is reversible; snapshots are kept | |
| `LifecycleProofs` | the system implements `Lifecycle` | |
| `WorkerProofs` | what the worker knows at each call, and what each step does to the groups | |
| `ExecutionProofs` | commands are executed once; the history is right until a call fails | |
| `PatientProofs` | users who wait: nothing left over, the status true, commands obeyed | |
| `PermissionProofs` | the operator stays within the permissions of the user | |
| `TwoOperatorProofs` | two processes invent no levels | |

`Cluster` extends `Admission` (which extends `ShutdownGroup`) and `Informer`; `Operator` and
`Clients` extend `Cluster`; `System` extends both. `TwoOperators` extends `System` and instantiates
`Operator` once more; `Refinement` extends `System` and instantiates `Lifecycle`. The proof modules build
on each other: `SystemProofs`, `ReversibleProofs`, `WorkerProofs`, then `ExecutionProofs` on the one side and
`PatientProofs` (with `LifecycleProofs`) and `PermissionProofs` on the other; `TwoOperatorProofs` takes
`SystemProofs` twice, once by `EXTENDS` and once by `INSTANCE` for the second worker.

**Workloads.** `wl[w]` is one number: `spec.replicas`, for a CronJob 0 (active) or 1
(suspended) just as the snapshot encodes it, -1 when the workload does not exist.
`Home[w]` is the level its owner runs it at, `Stopped(w)` the one a shutdown puts it to.

**Cache.** `sg[g]` and `wl[w]` are feeds: the server's object, the operator's cached copy
and the versions in between. `MaxLag` bounds how far a copy may be behind; 0 means that the
cache has always caught up before the next read. Feeds of different objects advance
independently; client-go keeps the objects of one kind in order, so the model allows more.

**Reconciliation.** `job` is the one worker: `pc` is the next call it makes to the API, `i` the
list call or snapshot entry it is at, `local` its Go copy of the group. `ReconcileDown` and
`ReconcileUp` are the read of the cached group and the early returns; then follow, one action
per call, `CollectTargets` (three lists per target), `CaptureSnapshot`, `ScaleEntry` or
`RestoreEntry` per entry, `MarkDown` or `MarkUp`, `AppendHistory`, `ConsumeAnnotations`. As in
the code the worker's copy takes in the server's answer to each status patch (`Answered`), with
the annotations that have arrived by then. `ApiError` ends the job at any call and queues the group again,
`Crash` also loses the queue and the cache; nothing written is taken back.

**Patches.** `client.MergeFrom` sends the fields that differ from the base (`Merged`), which the
server applies to what it holds: this is where writes pass each other.

**Clients.** The plugin reads and decides in one action (`Down`, `Up`) and patches in another
(`Send`). With `Patient`, users start only when no command is pending and nobody else is at it.

**GitOps.** `git[g]` is what the group's file says of the kshutdown.io annotations. `Export` writes
the file from the group as it is, without the status but with its annotations; `Apply` sets
what the file says, or creates the group if it is gone; both pass the webhooks as any write does.
A file is written once with something on it (a bound), so that an apply has nothing of an older
file to remove.

**Two operators.** With leader election a second process waits, and taking over is `Crash`: a
restart with an empty queue and a fresh cache. Without it (`--leader-elect` is off unless given; the
chart gives it) both reconcile. Each has its worker and queue; a write of either is an event for both.
The module assumes caches that are up to date, so that one feed stands for both processes.

**Lifecycle.** One group or many, seen from outside: a group records the levels of some of its targets
when it has no record, puts recorded workloads to the stopped or to the recorded level, calls
itself down when all it records is stopped, and up, forgetting the record, when all of it is back. `Refinement`
maps `level` to the levels in the API server, `record` to the pairs in `status.snapshot`, `state` to
`status.state`, restricted to the workloads only kshutdown changes. Commands, permissions,
caches, retries and crashes are not in `Lifecycle`; each of their steps is a stutter of it.

## Runs

`two_operators` is an instance of `MCTwoOperators`, the others of `MCSystem`. `CHECK_DEADLOCK FALSE` everywhere: once the commands are given and the
faults are used up the system rightly comes to rest.

| Run | Checks | Instance |
|---|---|---|
| `patient` | `TypeOK`, `StateIsTrue`, `NoLeftovers`, `CommandObeyed`, `WithinPermissions` | four workloads, all kinds, two overlapping targets, patient users of the plugin and of `kubectl annotate` who may patch `web` only, or more through groups, `--partial`, 3 faults |
| `impatient` | `Reversible`, `ExecutedOnce`, `AuditUntilFailure`, `SnapshotKept`, `ImplementsLifecycle` | unequal users, impatient, missed mutating webhook, 2 faults; the history holds every operation |
| `settles` | `NeverInvents`, `CommandSettles` | export and apply, deletion, creation from the file and re-definition of the group, cache one version behind, 1 fault; fairness |
| `two_groups` | `CommandSettles` | two groups, one may be stuck on a deleted workload; impatient, no faults; fairness |
| `two_operators` | `NeverInvents` | two processes on one group, impatient, 1 fault |

Seven further runs show where the code and what is written about it part; each checks one
property, which TLC refutes:

| Run | Property | What happens |
|---|---|---|
| `lost_command` | `CommandObeyed` | an `up` written while a `down` is executed is consumed with it (projet.md:173) |
| `half_up` | `StateIsTrue` | an `up` fails half way, a `down` follows: "already down", with workloads running (controller.go:90) |
| `lost_entry` | `AuditTrail` | a failure between state and history loses the entry (shutdowngroup_types.go:78) |
| `overwritten` | `SnapshotKept` | a retry on a stale copy collects again, overwriting the snapshot with zeros (shutdowngroup_types.go:73) |
| `stuck_up` | `UpSettles` | an annotated `up` without snapshot is retried for good (shutdowngroup_webhook_test.go:432) |
| `sharing` | `Reversible` | two groups share a workload: the second restores it to zero (README.md:3) |
| `exported` | `ExecutedOnce` | a group exported with a `down` pending is shut down again whenever the file is applied (README.md:217, projet.md:173) |

So `StateIsTrue`, `NoLeftovers` and `CommandObeyed` hold for users who wait and not for users who
don't; `AuditTrail` holds until the first failure (`AuditUntilFailure`) and not after one; `Reversible` and `SnapshotKept` hold
with fresh reads and groups that do not overlap, and not otherwise; `ExecutedOnce` holds as long as no
file with a command on it is applied. `NeverInvents` and `CommandSettles` are checked without such conditions. In the
instance of `two_operators`, even with patient users and no failures, TLC refutes `Reversible`, `SnapshotKept`, `ExecutedOnce` and
`StateIsTrue`: that is what leader election is relied on for. A cache one version behind refutes
`Reversible`, `SnapshotKept`, `StateIsTrue` and `CommandObeyed`: an operator that sees a workload still stopped soon
after an up records it at zero.

Impatient users also leave annotations behind that no command goes with, since the operator consumes only what
belongs to the command it finds; a later `up` can then carry the reason or the partial flag of an earlier
`down` (`NoLeftovers` is why this does not happen to users who wait).

A workload that somebody else deletes fails the calls on it, so `AuditUntilFailure` is claimed only where
nobody does. TLC found, in an instance like `two_groups`, that otherwise a down of one user that is retried because
its workload has vanished, and then repeated by another user, leaves a status that names the first and a history that names the second.

**Bounds.** `MaxCommands` (1 to 5) commands for each group: two operations and a third and fourth that
interfere; applying a file is not counted as one. `MaxFaults` (0 to 3): one failure to be cut off, more for the retries; `MaxReplicas` = 2 tells zero, one and
a count from each other; `MaxHistoryEntries` 1 or 2, so that the cap is reached (the code has
20), and 3, as many as there are commands, where `ExecutedOnce` counts the entries; `MaxLag` 1 is enough to hide the
worker's last patch of the group or of a workload. Workloads are few because the worker treats the entries one
after the other and no entry looks at another; two are needed for "half way". `two_groups` has `MaxReplicas` 1, for what matters there is whether a workload exists.

**Fairness** (`System!Fairness`). The watch delivers what it has sent (weak, per object); a reconciliation goes
on to its next call (weak): each call returns, with an answer or an error; a
group in the queue is taken again and again if its turn keeps coming (strong, per group): controller-runtime's
queue is first in, first out with a bounded back-off. Nothing is assumed of users,
failures and other people. `CommandSettles` excuses a command while it is blocked: a
workload in the snapshot does not exist, or there is nothing to restore from.

## Proofs

Checked by TLAPS for every value of the constants that satisfies the named assumptions
(`TypeConstants`, `AdmissionConstants`, `MaxLagAssumption`, `ClusterConstants`,
`OperatorConstants`, `ClientsConstants`).

- `TypeCorrect` : `Spec => []TypeOK`. Inductive as it stands. The lemmas say of each
  building block (`Publish`, merge patches, `Capped`, the orders a list may be returned in) what type it
  keeps. It includes that no history exceeds its cap.
- `LevelsNeverInvented` : `Spec => []NeverInvents`, for any lag, failures, deletions and overlapping groups. The
  property speaks of the server's objects only; the invariant `Sound` extends it to every version on its
  way to the cache, the cached copies, and what the worker holds, since all of these are written back sooner or later.
- `TwoNeverInvent` : `BothSpec => []NeverInvents`, for two processes. `Sound` with the second worker's copy
  and list beside the first's. The lemmas about the steps of the operator hold for the second worker by instantiation,
  once it is shown (`SameSteps`) that the instance of `Operator` in `TwoOperators` and the one inside the
  instance of `SystemProofs` take the same steps.
- `ShutdownReversible` : `Spec => []Reversible`, and `SnapshotsKept` : `Spec => SnapshotKept`,
  assuming `Conditions`: `MaxLag = 0` and no group is deleted (together `Calm`), and no workload only kshutdown
  changes is selected by two groups. The runs `overwritten` and `sharing` show that the first and the third are needed.
  The invariant `RevInv` adds to `Reversible` that all snapshots record home levels only, and
  for the worker: it collects only while its group has no snapshot (so all its group selects is
  at home, since nothing else could have it on record), it scales only what the server's snapshot records, and on
  the way up every entry before the current one is home, so that `MarkUp`
  forgets nothing. Commands may come at any time, calls fail and the process die.
- `SystemImplementsLifecycle` : `Spec => ImplementsLifecycle` under `Conditions`. Each action of the worker is
  an action of `Lifecycle` (`CaptureSnapshot` records, `ScaleEntry` stops, `RestoreEntry` restores, `MarkDown` and `MarkUp`
  go down and up) or a stutter; so is everything else. The guards of `Lifecycle` speak of the group in the
  server, those of the worker of its own copy, hence `LifeInv` on top of `RevInv`: while it collects and scales
  the group is not down, while it restores neither the group nor its copy is up, and on the way down
  every entry before the current one is stopped.
- `CopyIsCurrent` : `Spec => []CalmInv`, assuming `Calm` (groups may overlap). The worker's copy of the group has the server's
  status at every call, and the call it is at tells the state: not down while it collects or scales, not up while it
  restores, the state of the command from then on. The rest of `WorkerProofs` says of each step, in these terms,
  what it changes of the groups (`Starts`, `Proceeds`, `Writes`, `Consumes`, `Stops`); the proofs below are by these cases.
- `ExecutedAtMostOnce` : `Spec => []ExecutedOnce`, assuming `Calm` and that nobody applies files (`exported` shows why); users
  are as impatient as they like. The length of a history is not inductive; `OnceInv` is: the entries, one for an operation
  of the worker that has still to be recorded, one for a command that is still to be carried out (which is what a failed call turns the operation back into)
  and one for each session of the plugin add up to no more than the commands given.
- `HistoryIsRight` : `Spec => []AuditUntilFailure`, assuming `Calm` and that nobody else changes workloads. While nothing has
  failed (`AuditInv`), downs and ups alternate at every moment, the newest entry is the state unless the worker is about to record it,
  the operator in the status is the one of that entry, or of the worker's command once its snapshot is there, and a group that is not down has no
  snapshot unless the worker is scaling it. `lost_entry` shows what one failure does.
- `NothingLeftOver`, `StatusIsTrue`, `CommandsAreObeyed` : `Spec => []NoLeftovers`, `[]StateIsTrue`, `CommandObeyed`, assuming
  `Conditions` and `PatientUsers` (users wait, and nobody applies files; `lost_command` and `half_up`
  show what impatience does). `PatientInv`: at most one user has a session, and only for a group without a command, to
  which it brings one; the worker's copy has the annotations of the server, since none is written while
  a command is there; an up carries no partial flag, which is the one annotation that `reconcileUp` leaves. `TruthInv`: what a
  group's state says holds unless a command to the contrary is under way. Failed calls and crashes are in all three.
- `CommandsStayWithin` : `Spec => WithinPermissions`, assuming in addition that the mutating webhook is reached (`Webhooks`): it is what puts the
  name of the user on the command. `PermitInv` carries the decision of the webhook to the call that uses it: a down without
  `--partial`, and an up, have an operator who may patch all it is about, a partial down collects and records only
  what its operator may patch, and the worker acts for the operator on the command, in a later reconciliation too.

TLC has checked every invariant above (`LifeInv`, `OnceInv`, `AuditInv`, `PatientInv`, `TruthInv`, `PermitInv`) on instances like
`impatient` and `patient` before it was proved. The conditions are met by the passing runs that check the same property: `Calm` by
`patient` and `impatient`, `PatientUsers` and `Webhooks` by `patient`.

Only model-checked: `CommandSettles`, a liveness property, which is out of the prover's reach. That the conditions
are needed is shown by the violation runs, not proved.

## Not modelled

- `list`, `status`, `history` and the plugin's `main`: they read and print.
- Selector parsing in `define`, which refuses a selector before anything is written.
- What `kubectl apply` removes: an annotation that an older version of the file had.
- Timestamps (`since`, `at`), logging, events, metrics, TLS, probes.
- A failing access review is a failing call (`ApiError`); a webhook that cannot be reached is, for the
  mutating one (`failurePolicy=Ignore`), a member of `Missed`, for the validating one a command that is not given.
- The timing of the leader's lease (one process, or two for good), two processes whose caches are
  behind, and changes of permissions.
- Label changes: what a target selects is fixed, only existence varies.
- Manifests, charts, generated code.

## Plan

1. Done: the core; `Lifecycle`, checked and proved; GitOps; two operators.
2. Done: a theorem for every safety property of a passing run, and `NeverInvents` for two operators.
3. Weaker conditions: `ExecutedOnce` and `NoLeftovers` where groups are deleted and defined again, `ExecutedOnce`
   with files that carry no command, `CommandObeyed` for a group whose users wait while those of others don't.
