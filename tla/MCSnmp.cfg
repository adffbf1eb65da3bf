\* One collect after another, every kind of fault once.
SPECIFICATION FairSpec
CONSTANTS
  NULL = NULL
  Fresh <- MCFresh
  Running <- MCRunning
  Growths <- MCGrowths
  RequestIds <- MCRequestIds
  Served <- MCServed
  Sockets = {1, 2}
  MaxTicks = 1
  MaxStops = 1
  MaxLost = 1
  MaxSlow = 1
  MaxDups = 1
  MaxErrors = 1
INVARIANTS
  TypeOK
  ReadingIsOneSample
  DownHasCause
PROPERTIES
  CollectEnds
  UpAgain
