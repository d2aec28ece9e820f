SPECIFICATION FairSpec
CONSTANTS
  Faults <- AllFaults
  MumbleLinks = FALSE
  HostStops = FALSE
PROPERTIES
  PresenceFollowsMumble
  AudioFollowsDiscord
  AudioStopsWhenEmpty
