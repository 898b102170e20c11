SPECIFICATION Spec
CONSTANTS
  web = web
  db = db
  nightly = nightly
  paused = paused
  g1 = g1
  g2 = g2
  amy = amy
  bob = bob
  r1 = r1
  r2 = r2
  None = None
  Workload = {web, db, nightly, paused}
  Kind <- MCKind
  User = {amy, bob}
  Reason = {r1, r2}
  MaxReplicas = 2
  MaxHistoryEntries = 2
  Direct <- ByName
  ViaGroup <- ByGroup
  Missed = {FALSE}
  Group = {g1}
  Targets <- TwoTargets
  Home <- MCHome
  Disturbed = {}
  Deletable = {}
  MaxLag = 0
  MaxFaults = 3
  Patient = TRUE
  Annotators = {amy, bob}
  Appliers = {}
  MaxCommands = 5
INVARIANT TypeOK
INVARIANT StateIsTrue
INVARIANT NoLeftovers
PROPERTY CommandObeyed
PROPERTY WithinPermissions
CHECK_DEADLOCK FALSE
