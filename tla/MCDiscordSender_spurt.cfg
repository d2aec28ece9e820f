SPECIFICATION FairSenderSpec

CONSTANTS
  BufferSize = 3
  GraceTicks = 2
  SilenceFrames = 3
  Skew = 3

\* A cancelled pipeline does not go on.
CHECK_DEADLOCK FALSE

INVARIANT SenderInv

PROPERTIES
  SpeechEnds
  SpeechFlows
  DropsAfterCloseOnly
