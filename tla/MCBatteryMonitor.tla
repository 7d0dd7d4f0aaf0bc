-------------------------- MODULE MCBatteryMonitor --------------------------
(* An instance of BatteryMonitor for TLC: a battery in use and a low one being charged. *)
EXTENDS BatteryMonitor

MCBatteries == {[volts |-> 4000, current |-> -300], [volts |-> 3100, current |-> 200]}
=============================================================================
