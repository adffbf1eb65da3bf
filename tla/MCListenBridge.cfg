\* Breaks and refusals at every point of the set-up and of the listening.
SPECIFICATION FairSpec
CONSTANTS
  Channels <- TwoChannels
  NULL = NULL
  MaxRows = 3
  MaxBreaks = 2
  MaxRefusals = 2
INVARIANTS
  TypeOK
  OneActivity
  EmittedInOrder
PROPERTIES
  ListeningRestored
  NotifiedIsEmitted
CHECK_DEADLOCK FALSE
