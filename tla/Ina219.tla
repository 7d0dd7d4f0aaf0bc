------------------------------- MODULE Ina219 -------------------------------
(***************************************************************************)
(* The INA219 sensor (external) and the driver's access to its registers   *)
(* (power/ina219.cpp).  Each transfer on the I2C bus is a step: between    *)
(* two of them the chip may finish a conversion, the battery may change,   *)
(* or the chip may lose its registers (a brown-out), and a transfer may    *)
(* fail, which the driver logs and otherwise takes for a zero.             *)
(*                                                                         *)
(* Voltages are in mV, currents in mA (negative: discharging), powers in   *)
(* uW; the scaling of the raw values by the registers' LSBs is left out.   *)
(***************************************************************************)
EXTENDS Integers

CONSTANTS
    Batteries,          \* the states of the battery: [volts : Nat, current : Int]
    MaxDisturbances     \* bound: brown-outs, changes and failing transfers

ASSUME BatteriesOK ==
    /\ Batteries # {} /\ Batteries \subseteq [volts : Nat, current : Int]
    /\ MaxDisturbances \in Nat

VARIABLES
    battery,        \* what there is to measure
    chip,           \* the chip's registers
    disturbances    \* how many there have been

ResetConfig == 14751                        \* CONFIG_RESET_VALUE, 0x399F
Config      == 2048 + 13 * 128 + 13 * 8 + 7
Calibration == (4096 * 32767) \div 5000     \* calibration_value_

ResetChip == [config |-> ResetConfig, calibration |-> 0, volts |-> 0, current |-> 0, power |-> 0]

Abs(n) == IF n < 0 THEN -n ELSE n

\* What the data registers hold after a conversion.
Measured(b, calibrated) ==
    [volts   |-> b.volts,
     current |-> IF calibrated THEN b.current ELSE 0,
     power   |-> IF calibrated THEN b.volts * Abs(b.current) ELSE 0]

InitSensor ==
    /\ battery \in Batteries
    /\ chip = ResetChip
    /\ disturbances = 0

-----------------------------------------------------------------------------
(* The chip and the battery                                                *)

Convert ==
    LET m == Measured(battery, chip.calibration = Calibration) IN
    /\ chip' = [chip EXCEPT !.volts = m.volts, !.current = m.current, !.power = m.power]
    /\ UNCHANGED <<battery, disturbances>>

Disturb == disturbances < MaxDisturbances /\ disturbances' = disturbances + 1

Change == Disturb /\ battery' \in Batteries \ {battery} /\ UNCHANGED chip

BrownOut == Disturb /\ chip' = ResetChip /\ UNCHANGED battery

-----------------------------------------------------------------------------
(* The driver                                                              *)

\* write_register(): a failure is logged.
WriteRegister(reg, value) ==
    /\ \/ chip' = [chip EXCEPT ![reg] = value] /\ UNCHANGED disturbances
       \/ Disturb /\ UNCHANGED chip
    /\ UNCHANGED battery

\* The RST bit of CONFIG.
WriteReset ==
    /\ \/ chip' = ResetChip /\ UNCHANGED disturbances
       \/ Disturb /\ UNCHANGED chip
    /\ UNCHANGED battery

\* read_register() returns `raw`, which is zero if a transfer failed.
ReadRegister(reg, raw) ==
    /\ \/ raw = chip[reg] /\ UNCHANGED disturbances
       \/ raw = 0 /\ Disturb
    /\ UNCHANGED <<battery, chip>>

Outcomes(reg) == {chip[reg], 0}

\* calibrate()
Calibrate == WriteRegister("calibration", Calibration)

\* Mutant: the chip is taken to keep its calibration.
EnsureNothing == UNCHANGED <<battery, chip, disturbances>>

\* The readings of voltage and power write the calibration first; those of the
\* current rely on one of them having come before.
EnsureCalibration == Calibrate

\* read_percentage(): linear from 3.0 V to 4.2 V, truncated and clamped.
Percentage(volts) ==
    LET p == ((volts - 3000) * 100) \div 1200
    IN  IF p > 100 THEN 100 ELSE IF p < 0 THEN 0 ELSE p
=============================================================================
