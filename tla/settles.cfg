SPECIFICATION FairSpec
CONSTANTS
  web = web
  db = db
  nightly = nightly
  paused = paused
  g1 = g1
  g2 = g2
  amy = amy
  bob = bob
  r1 = r1
  r2 = r2
  None = None
  Workload = {web}
  Kind <- MCKind
  User = {amy}
  Reason = {r1}
  MaxReplicas = 2
  MaxHistoryEntries = 1
  Direct <- All
  ViaGroup <- Nobody
  Missed = {FALSE}
  Group = {g1}
  Targets <- OneTarget
  Home <- MCHome
  Disturbed = {}
  Deletable = {g1}
  MaxLag = 1
  MaxFaults = 1
  Patient = FALSE
  Annotators = {}
  Appliers = {amy}
  MaxCommands = 2
INVARIANT NeverInvents
PROPERTY CommandSettles
CHECK_DEADLOCK FALSE
