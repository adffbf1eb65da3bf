\* An INSERT of the recovery fails after the UPDATE.
SPECIFICATION FairSpec
CONSTANTS
  Services = {s1}
  NULL = NULL
  Ids <- RowIds
  Retries = 1
  MaxFlips = 3
  MaxFails = 1
  MaxLost = 0
  MaxCrashes = 0
PROPERTIES
  DownOpensRow
