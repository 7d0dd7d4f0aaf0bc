-------------------------- MODULE MCCameraControl --------------------------
(***************************************************************************)
(* Instances of CameraControl for TLC.  The cfg files give the clients as  *)
(* model values; here are the rest of the parameters.                      *)
(***************************************************************************)
EXTENDS CameraControl_inv, TLC

CONSTANTS c1, c2, low, high

MCOneClient  == {c1}
MCTwoClients == {c1, c2}
MCPresets    == {low, high}
MCOnePreset  == {low}

MCTwoCommands == {"record_start", "record_stop", "set_resolution"}
MCAllCommands == CommandNames

MCNoFaults   == {}
MCTwoFaults  == {"bus_error"}
MCAllButBus  == FaultNames \ {"bus_error"}

MCSymmetry == Permutations({c1, c2})
=============================================================================
