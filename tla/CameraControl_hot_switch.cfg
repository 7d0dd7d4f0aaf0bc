\* One browser changes the resolution: main leaves its loop.
SPECIFICATION Spec
CONSTANTS
  c1 = c1
  c2 = c2
  low = low
  high = high
  Clients <- MCOneClient
  Main = "main"
  Drain = "drain"
  Bus = "bus"
  Resolutions <- MCPresets
  Default = low
  Commands <- MCAllCommands
  MaxCmds = 2
  Faults <- MCNoFaults
INVARIANTS
  HotSwitch
