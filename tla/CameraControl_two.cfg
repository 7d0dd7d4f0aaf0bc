\* Two browsers that record and change the resolution; the camera pipeline may fail.
SPECIFICATION Spec
CONSTANTS
  c1 = c1
  c2 = c2
  low = low
  high = high
  Clients <- MCTwoClients
  Main = "main"
  Drain = "drain"
  Bus = "bus"
  Resolutions <- MCOnePreset
  Default = low
  Commands <- MCTwoCommands
  MaxCmds = 4
  Faults <- MCTwoFaults
INVARIANTS
  StartExclusive
  ShutdownOrder
  OwnershipInv
PROPERTIES
  FinalisedOnce
SYMMETRY MCSymmetry
\* Two concurrent set_resolution commands may wait for a thread nobody stops.
CHECK_DEADLOCK FALSE
