SPECIFICATION FairSpec
CONSTANTS
  d1 = d1
  d2 = d2
  DBs <- TwoDBs
  EnvDB = d2
  Pids = {p1, p2}
  Retentions <- RetentionValues
  Renames <- RenameValues
  Proxies <- ProxyValues
  NoFile = NoFile
  Partial = Partial
  Wizards = {w1, w2}
  Edits = {e1, e2}
  Bodies <- SomeBodies
  SettingsPatches <- SomePatches
  Names = {"first"}
  Boot = Boot
  Nobody = Nobody
  NoPid = NoPid
  MaxTries = 3
  MaxFaults = 2
CHECK_DEADLOCK FALSE
INVARIANTS NoDuplicateAccount NeverUnrouted SteadyReady WizardToldTruth
PROPERTIES DurableConfig Recovers
