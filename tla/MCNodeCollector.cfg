\* One service, every kind of fault once, and a fail-over.
SPECIFICATION FairSpec
CONSTANTS
  Services = {s1}
  NULL = NULL
  Retries = 1
  MaxFlips = 2
  MaxFails = 1
  MaxLost = 1
  MaxCrashes = 1
  MaxFailovers = 1
  Ids <- RowIds
INVARIANTS
  TypeOK
  OutagesDisjoint
  MetricMatchesEvents
PROPERTIES
  RefinesOutageLog
  OutageRecorded
  RecoveryRecorded
  KeepsPolling
