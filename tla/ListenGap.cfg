\* No fault at all: a row inserted while connectListener is between LISTENs.
SPECIFICATION FairSpec
CONSTANTS
  Channels <- TwoChannels
  NULL = NULL
  MaxRows = 1
  MaxBreaks = 0
  MaxRefusals = 0
PROPERTIES
  ListenedIsEmitted
CHECK_DEADLOCK FALSE
