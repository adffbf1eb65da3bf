\* The INSERT of an outage is executed, its acknowledgement lost.
SPECIFICATION FairSpec
CONSTANTS
  Services = {s1}
  NULL = NULL
  Ids <- RowIds
  Retries = 1
  MaxFlips = 3
  MaxFails = 0
  MaxLost = 1
  MaxCrashes = 0
PROPERTIES
  RecoveryClosesRow
