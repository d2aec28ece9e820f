SPECIFICATION FairForwarderSpec

CONSTANTS
  Channel = {h1, h2}
  OtherClients = 2
  MaxEvents = 3

\* A stopped manager does nothing more, and packets need not come.
CHECK_DEADLOCK FALSE

INVARIANTS
  LoopInv
  ChannelsIntact

PROPERTIES
  StaysConnected
  AudioReachesClient
