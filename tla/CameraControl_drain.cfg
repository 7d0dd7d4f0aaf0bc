\* One browser stops a recording: the drain thread is still pushing.
SPECIFICATION Spec
CONSTANTS
  c1 = c1
  c2 = c2
  low = low
  high = high
  Clients <- MCOneClient
  Main = "main"
  Drain = "drain"
  Bus = "bus"
  Resolutions <- MCPresets
  Default = low
  Commands <- MCAllCommands
  MaxCmds = 3
  Faults <- MCNoFaults
INVARIANTS
  NoPushAfterStop
