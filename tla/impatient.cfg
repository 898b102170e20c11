SPECIFICATION Spec
CONSTANTS
  web = web
  db = db
  nightly = nightly
  paused = paused
  g1 = g1
  g2 = g2
  amy = amy
  bob = bob
  r1 = r1
  r2 = r2
  None = None
  Workload = {web, nightly, paused}
  Kind <- MCKind
  User = {amy, bob}
  Reason = {r1}
  MaxReplicas = 2
  MaxHistoryEntries = 3
  Direct <- ByName
  ViaGroup <- ByGroup
  Missed = {TRUE, FALSE}
  Group = {g1}
  Targets <- OneTarget
  Home <- MCHome
  Disturbed = {}
  Deletable = {}
  MaxLag = 0
  MaxFaults = 2
  Patient = FALSE
  Annotators = {amy}
  Appliers = {}
  MaxCommands = 3
INVARIANT Reversible
INVARIANT ExecutedOnce
INVARIANT AuditUntilFailure
PROPERTY SnapshotKept
PROPERTY ImplementsLifecycle
CHECK_DEADLOCK FALSE
