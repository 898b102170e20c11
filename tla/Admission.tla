----------------------------- MODULE Admission -----------------------------
(***************************************************************************)
(* The admission webhooks on CREATE and UPDATE of a ShutdownGroup          *)
(* (internal/webhook) and the SubjectAccessReviews they and the operator   *)
(* ask for (internal/authz), as operators without state: what a write      *)
(* becomes, and whether it is let in.                                      *)
(***************************************************************************)
EXTENDS ShutdownGroup

CONSTANTS
    Direct,     \* [User -> SUBSET Workload]: patch granted to the user by name
    ViaGroup,   \* [User -> SUBSET Workload]: patch granted to the user's groups
    Missed      \* subset of BOOLEAN: TRUE when a call of the mutating webhook
                \* may be lost (failurePolicy=Ignore)

ASSUME AdmissionConstants ==
    /\ Direct \in [User -> SUBSET Workload]
    /\ ViaGroup \in [User -> SUBSET Workload]
    /\ Missed \in SUBSET BOOLEAN /\ FALSE \in Missed

\* The answer to a SubjectAccessReview for a username and the groups of a user
\* (None: no groups are passed).
CheckFor(operator, groups, w) ==
    \/ operator \in User /\ w \in Direct[operator]
    \/ groups \in User /\ w \in ViaGroup[groups]

\* A user asking about itself is reviewed with its own name and groups.
CheckPatch(u, w) == CheckFor(u, u, w)

\* The mutating webhook: whoever sets or changes the command is its operator.
Default(old, new, u) ==
    IF new.cmd \in {"none", old.cmd}
    THEN new
    ELSE [new EXCEPT !.operator = u, !.groups = u]

\* The validating webhook.  listed: the workloads the targets select now;
\* recorded: those in status.snapshot.
Forbidden(u, ws) == {w \in ws : ~ CheckPatch(u, w)}

ValidateCommand(new, u, listed, recorded) ==
    \/ /\ new.cmd = "down"
       /\ \/ Forbidden(u, listed) = {}
          \/ new.partial /\ Forbidden(u, listed) # listed
    \/ /\ new.cmd = "up"
       /\ Forbidden(u, recorded) = {}

ValidateUpdate(old, new, u, listed, recorded) ==
    \/ new.cmd \in {"none", old.cmd}
    \/ ValidateCommand(new, u, listed, recorded)

\* A new group has no snapshot.
ValidateCreate(new, u, listed) ==
    \/ new.cmd = "none"
    \/ ValidateCommand(new, u, listed, {})
=============================================================================
