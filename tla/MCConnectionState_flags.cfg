SPECIFICATION FairSpec

CONSTANTS
  EventCap = 1
  MaxPopulate = 1
  MaxAnnounced = 0
  SleepCoversEmit = TRUE

\* A start that fails half way leaves BridgeActive set and refuses every later one.
CHECK_DEADLOCK FALSE

INVARIANTS
  ChannelsInv
  FlagsAccurate
  StoppedMeansDisconnected

PROPERTY HealthyEventuallyReady
