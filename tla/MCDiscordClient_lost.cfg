SPECIFICATION FairClientSpec

CONSTANTS
  SafetyTimeout = 1
  MaxStarts = 1
  ResetAfter = 1

CHECK_DEADLOCK FALSE

PROPERTY LastResortComes
