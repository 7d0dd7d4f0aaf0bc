\* The buffers across a change of resolution, shared by the video and the still queue.
SPECIFICATION FairSpec
CONSTANTS
  b1 = b1
  b2 = b2
  f1 = f1
  f2 = f2
  f3 = f3
  f4 = f4
  Buffers <- MCBuffers
  Frames <- MCFrames
  None = None
  Setups <- MCSetups
  StillCapacity = 1
  MaxOpens = 2
INVARIANTS
  OneOwner
PROPERTIES
  KeepsBuffers
  BuffersReturn
\* The camera may be closed for the last time, and nothing follows a fault.
CHECK_DEADLOCK FALSE
