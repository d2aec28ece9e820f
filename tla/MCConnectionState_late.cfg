SPECIFICATION Spec

CONSTANTS
  EventCap = 1
  MaxPopulate = 0
  MaxAnnounced = 0
  SleepCoversEmit = FALSE

\* A flag set by the goroutine of a stopped manager refuses every later start,
\* and so does a start that failed half way.
CHECK_DEADLOCK FALSE

INVARIANT ConnectedImpliesBoth
