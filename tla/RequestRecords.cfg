SPECIFICATION Spec
CONSTANTS
  Requests <- MCRequests
  Attr <- MCAttr
  Hijacked <- MCHijacked
  InitRows <- MCInitRows
  Queries <- MCQueries
  Walks <- MCWalks
  QueueCap = 1
  Batch = 1
  Retention = 720
  StartedWorkers = {"recorder", "cleanup"}
  Step = 720
  MaxClock = 1440
  MaxFaults = 1
INVARIANTS
  Accounted
  LossExplained
  WalkComplete
  ReportsFaithful
PROPERTIES
  StopEnds
