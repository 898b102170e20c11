SPECIFICATION FairSpec
CONSTANTS
  web = web
  db = db
  nightly = nightly
  paused = paused
  g1 = g1
  g2 = g2
  amy = amy
  bob = bob
  r1 = r1
  r2 = r2
  None = None
  Workload = {db, nightly}
  Kind <- MCKind
  User = {amy}
  Reason = {r1}
  MaxReplicas = 1
  MaxHistoryEntries = 1
  Direct <- All
  ViaGroup <- Nobody
  Missed = {FALSE}
  Group = {g1, g2}
  Targets <- Apart
  Home <- MCHome
  Disturbed = {db}
  Deletable = {}
  MaxLag = 0
  MaxFaults = 0
  Patient = FALSE
  Annotators = {amy}
  Appliers = {}
  MaxCommands = 2
PROPERTY CommandSettles
CHECK_DEADLOCK FALSE
