SPECIFICATION FairSpec

CONSTANTS
  Stream = {s1, s2}
  StreamCap = 4
  MaxDepth = 2
  PacketChunks = 2

\* Once cleaned up, with the goroutines gone, there is nothing left to do.
CHECK_DEADLOCK FALSE

INVARIANT StreamsInv

PROPERTY ReadersLeave
