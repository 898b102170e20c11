SPECIFICATION Spec
CONSTANTS
  web = web
  db = db
  nightly = nightly
  paused = paused
  g1 = g1
  g2 = g2
  amy = amy
  bob = bob
  r1 = r1
  r2 = r2
  None = None
  Workload = {web, nightly}
  Kind <- MCKind
  User = {amy}
  Reason = {r1}
  MaxReplicas = 2
  MaxHistoryEntries = 2
  Direct <- All
  ViaGroup <- Nobody
  Missed = {FALSE}
  Group = {g1}
  Targets <- OneTarget
  Home <- MCHome
  Disturbed = {}
  Deletable = {}
  MaxLag = 0
  MaxFaults = 1
  Patient = TRUE
  Annotators = {}
  Appliers = {}
  MaxCommands = 1
INVARIANT AuditTrail
CHECK_DEADLOCK FALSE
