SPECIFICATION FairSpec

CONSTANTS
  Emitter = {e1, e2}
  BufferSize = 2
  MaxEvents = 6
  MaxStops = 2

\* The emitters reach their bound, and a panic ends the process.
CHECK_DEADLOCK FALSE

INVARIANTS
  EventsInv
  StopDrains

PROPERTY StopReturns
