\* One browser, every command, every fault but an error of the camera pipeline.
SPECIFICATION FairSpec
CONSTANTS
  c1 = c1
  c2 = c2
  low = low
  high = high
  Clients <- MCOneClient
  Main = "main"
  Drain = "drain"
  Bus = "bus"
  Resolutions <- MCPresets
  Default = low
  Commands <- MCAllCommands
  MaxCmds = 4
  Faults <- MCAllButBus
INVARIANTS
  OnlyDrainCrashes
  RecordingIsLive
  FramesFitRecording
  OneCamera
  ThreadsInsidePipeline
  JoinsReturn
  OkStopMeansEnded
  NothingLeftBehind
PROPERTIES
  CommandsAnswered
  ShutdownCompletes
