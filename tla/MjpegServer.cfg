\* Two viewers that come and go while frames arrive, a pool of one or two workers, and
\* stop() at any time.
SPECIFICATION FairSpec
CONSTANTS
  v1 = v1
  v2 = v2
  Viewers <- MCViewers
  Camera = Camera
  Free = Free
  MaxFrames = 3
  Pools <- MCPools
INVARIANTS
  NoLostWakeup
  CountIsRight
PROPERTIES
  FramesAdvance
  FramesReachViewers
  StopReturns
\* After stop() the server is gone.
CHECK_DEADLOCK FALSE
