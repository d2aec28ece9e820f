SPECIFICATION FairClientSpec

CONSTANTS
  SafetyTimeout = 1
  MaxStarts = 2
  ResetAfter = 1

\* The host may disconnect, and the session stop its manager, for good.
CHECK_DEADLOCK FALSE

INVARIANT DiscordInv

PROPERTIES
  MonitorsLeave
  UnreadyReset
  StaysConnected
  UnhealthyReplaced
