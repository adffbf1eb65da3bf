\* Two services, every kind of fault once.
SPECIFICATION Spec
CONSTANTS
  Services = {s1, s2}
  NULL = NULL
  Ids <- RowIds
  Retries = 0
  MaxFlips = 3
  MaxFails = 1
  MaxLost = 1
  MaxCrashes = 1
SYMMETRY Symmetry
INVARIANTS
  TypeOK
  OutagesDisjoint
  MapHoldsLastOutage
  ActiveListIsOpenRows
  StatementContext
  TablesAgree
