SPECIFICATION FairSpec

CONSTANTS
  Ssrc = {a, b}
  SeqNumbers = 4
  MaxPLC = 1
  PcmCap = 4
  StartCount = 2
  SilenceFrames = 2
  StaleTicks = 2

INVARIANT ReceiveInv

PROPERTY QuietEnds
