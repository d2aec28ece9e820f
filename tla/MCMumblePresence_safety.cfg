SPECIFICATION Spec
CONSTANTS
  Faults = {"slow"}
  MumbleLinks = TRUE
  HostStops = TRUE
INVARIANT PresenceInv
PROPERTIES
  NoInheritedTimer
  RefinesPresence
CHECK_DEADLOCK FALSE
