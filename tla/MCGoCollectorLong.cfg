\* One service through several outages, every kind of fault once, under the
\* fairness of the loop and of docker's restart.
SPECIFICATION FairSpec
CONSTANTS
  Services = {s1}
  NULL = NULL
  Ids <- RowIds
  Retries = 1
  MaxFlips = 4
  MaxFails = 1
  MaxLost = 1
  MaxCrashes = 1
INVARIANTS
  AnnouncedOnce
PROPERTIES
  HistoryFrozen
  RefinesOutageLog
  OutageRecorded
  RecoveryRecorded
  KeepsPolling
