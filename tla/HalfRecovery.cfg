\* The process dies between the UPDATE and the INSERT.
SPECIFICATION FairSpec
CONSTANTS
  Services = {s1}
  NULL = NULL
  Ids <- RowIds
  Retries = 1
  MaxFlips = 3
  MaxFails = 0
  MaxLost = 0
  MaxCrashes = 1
INVARIANTS
  ClosedRowsAnnounced
