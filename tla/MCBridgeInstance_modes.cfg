SPECIFICATION FairInstanceSpec

CONSTANTS
  Caller = {c1, c2}
  Sender = {p1, p2}
  InitCanFail = TRUE
  AutoMode = TRUE
  Modes = {"constant", "manual", "auto"}
  Commands = {"constant", "manual"}
  Loop = c1
  MaxStarts = 2
  MaxStops = 2
  MaxUsers = 1
  MumbleBotFlag = FALSE

\* A panic ends the process, and a stopped instance may stay stopped.
CHECK_DEADLOCK FALSE

INVARIANTS
  SessionsInv
  SessionOwnsChannel
  StopWaitsForSession

PROPERTIES
  RefinesLifecycle
  SessionsMoveOn
  ConstantComesBack
  UsersGetBridge
  EmptyBridgeStops
