--------------------------- MODULE BatteryMonitor ---------------------------
(***************************************************************************)
(* The battery's readings (power/battery_monitor.cpp): main verifies the   *)
(* sensor, takes a first record and starts the polling thread, which takes *)
(* a record every few seconds and pushes it; handlers and main's loop read *)
(* the record through get_json() meanwhile.                                *)
(*                                                                         *)
(* The sensor has one user at a time, main until start() has returned and  *)
(* the polling thread from then on, so one label stands for both.          *)
(***************************************************************************)
EXTENDS Ina219

CONSTANTS LowBatteryPct    \* LOW_BATTERY_PCT

ASSUME LowOK == LowBatteryPct \in 0..100

VARIABLES
    pc,        \* label of the thread that uses the sensor
    local,     \* the locals of read_and_store()
    record,    \* voltage_ ... low_battery_, and the parity of the poll that stored each half
    mutex,     \* owner of data_mutex_
    abort,     \* abort_
    started,   \* start() has returned
    reader,    \* label of get_json()
    got        \* what get_json() has read so far

sensorVars == <<battery, chip, disturbances>>
vars == <<sensorVars, pc, local, record, mutex, abort, started, reader, got>>

InitLabels == {"calibrate_0", "configure_0", "reset", "check", "calibrate", "configure", "verify"}
PollLabels == {"calibrate_v", "read_v", "read_i", "calibrate_p", "read_p", "calibrate_pct",
               "read_pct", "read_chg", "store", "store_rest"}
Labels == InitLabels \cup PollLabels \cup {"sleep", "push", "ended", "unavailable"}

\* The members before the first poll.
Zero == [volts |-> 0, current |-> 0, power |-> 0, poll |-> 0,
         percentage |-> 0, charging |-> FALSE, low |-> FALSE, rest |-> 0]

Records == [volts : Nat, current : Int, power : Nat, poll : 0..1,
            percentage : 0..100, charging : BOOLEAN, low : BOOLEAN, rest : 0..1]

TypeOK ==
    /\ battery \in Batteries
    /\ chip \in [config : Nat, calibration : Nat, volts : Nat, current : Int, power : Nat]
    /\ disturbances \in 0..MaxDisturbances
    /\ pc \in Labels
    /\ local \in Records /\ record \in Records /\ got \in Records
    /\ mutex \in {"free", "monitor", "reader"}
    /\ abort \in BOOLEAN /\ started \in BOOLEAN
    /\ reader \in {"idle", "rest"}

Init ==
    /\ InitSensor
    /\ pc = "calibrate_0"
    /\ local = Zero /\ record = Zero /\ got = Zero
    /\ mutex = "free" /\ abort = FALSE /\ started = FALSE /\ reader = "idle"

At(label) == pc = label
Goto(label) == pc' = label

\* Takes reading `field` of the record from register `reg`.
Take(label, reg, field, next) ==
    /\ At(label)
    /\ \E raw \in Outcomes(reg) :
          /\ ReadRegister(reg, raw)
          /\ local' = [local EXCEPT ![field] = raw]
    /\ Goto(next)
    /\ UNCHANGED <<record, mutex, abort, started, reader, got>>

Restore(label, next) ==
    /\ At(label)
    /\ EnsureCalibration
    /\ Goto(next)
    /\ UNCHANGED <<local, record, mutex, abort, started, reader, got>>

-----------------------------------------------------------------------------
(* INA219's constructor and initialize(), on main                          *)

CalibrateFirst(label, next) ==
    /\ At(label)
    /\ Calibrate
    /\ Goto(next)
    /\ UNCHANGED <<local, record, mutex, abort, started, reader, got>>

Configure(label, next) ==
    /\ At(label)
    /\ WriteRegister("config", Config)
    /\ Goto(next)
    /\ UNCHANGED <<local, record, mutex, abort, started, reader, got>>

Reset ==
    /\ At("reset")
    /\ WriteReset
    /\ Goto("check")
    /\ UNCHANGED <<local, record, mutex, abort, started, reader, got>>

\* initialize() goes on, or returns true, when register `reg` holds `value`.
Verify(label, reg, value, next) ==
    /\ At(label)
    /\ \E raw \in Outcomes(reg) :
          /\ ReadRegister(reg, raw)
          /\ Goto(IF raw = value THEN next ELSE "unavailable")
    /\ UNCHANGED <<local, record, mutex, abort, started, reader, got>>

Initialize ==
    \/ CalibrateFirst("calibrate_0", "configure_0") \/ Configure("configure_0", "reset")
    \/ Reset \/ Verify("check", "config", ResetConfig, "calibrate")
    \/ CalibrateFirst("calibrate", "configure") \/ Configure("configure", "verify")
    \/ Verify("verify", "calibration", Calibration, "calibrate_v")

-----------------------------------------------------------------------------
(* read_and_store()                                                        *)

Measure ==
    \/ Restore("calibrate_v", "read_v") \/ Take("read_v", "volts", "volts", "read_i")
    \/ Take("read_i", "current", "current", "calibrate_p")
    \/ Restore("calibrate_p", "read_p") \/ Take("read_p", "power", "power", "calibrate_pct")
    \/ Restore("calibrate_pct", "read_pct")

\* read_percentage() reads the voltage again, is_charging() the current.
TakePercentage ==
    /\ At("read_pct")
    /\ \E raw \in Outcomes("volts") :
          /\ ReadRegister("volts", raw)
          /\ local' = [local EXCEPT !.percentage = Percentage(raw),
                                    !.low = Percentage(raw) < LowBatteryPct]
    /\ Goto("read_chg")
    /\ UNCHANGED <<record, mutex, abort, started, reader, got>>

TakeCharging ==
    /\ At("read_chg")
    /\ \E raw \in Outcomes("current") :
          /\ ReadRegister("current", raw)
          /\ local' = [local EXCEPT !.charging = raw > 0, !.poll = 1 - @, !.rest = 1 - @]
    /\ Goto("store")
    /\ UNCHANGED <<record, mutex, abort, started, reader, got>>

Readings(r, s) ==
    [r EXCEPT !.volts = s.volts, !.current = s.current, !.power = s.power, !.poll = s.poll]

\* Mutant: the record is written without its mutex.
StoreUnlocked ==
    /\ At("store")
    /\ record' = Readings(record, local)
    /\ Goto("store_rest")
    /\ UNCHANGED <<sensorVars, local, mutex, abort, started, reader, got>>

Store ==
    /\ At("store")
    /\ mutex = "free" /\ mutex' = "monitor"
    /\ record' = Readings(record, local)
    /\ Goto("store_rest")
    /\ UNCHANGED <<sensorVars, local, abort, started, reader, got>>

\* The first record is start()'s; the polling thread pushes the others.
StoreRest ==
    /\ At("store_rest")
    /\ record' = local
    /\ mutex' = "free"
    /\ local' = [Zero EXCEPT !.poll = local.poll, !.rest = local.rest]
    /\ Goto(IF started THEN "push" ELSE "sleep")
    /\ started' = TRUE
    /\ UNCHANGED <<sensorVars, abort, reader, got>>

-----------------------------------------------------------------------------
(* thread_fn() and stop()                                                  *)

Wake ==
    /\ At("sleep")
    /\ Goto(IF abort THEN "ended" ELSE "calibrate_v")
    /\ UNCHANGED <<sensorVars, local, record, mutex, abort, started, reader, got>>

Push ==
    /\ At("push")
    /\ mutex = "free"
    /\ Goto("sleep")
    /\ UNCHANGED <<sensorVars, local, record, mutex, abort, started, reader, got>>

Stop ==
    /\ started
    /\ ~abort
    /\ abort' = TRUE
    /\ UNCHANGED <<sensorVars, pc, local, record, mutex, started, reader, got>>

-----------------------------------------------------------------------------
(* get_json(), on a handler's thread or main                               *)

GetJson ==
    /\ reader = "idle" /\ started
    /\ mutex = "free" /\ mutex' = "reader"
    /\ got' = Readings(Zero, record)
    /\ reader' = "rest"
    /\ UNCHANGED <<sensorVars, pc, local, record, abort, started>>

\* The record get_json() returns when it has read the rest.
Answer == Readings(record, got)

GetRest ==
    /\ reader = "rest"
    /\ got' = Zero
    /\ mutex' = "free"
    /\ reader' = "idle"
    /\ UNCHANGED <<sensorVars, pc, local, record, abort, started>>

-----------------------------------------------------------------------------
Sensor ==
    /\ Convert \/ Change \/ BrownOut
    /\ UNCHANGED <<pc, local, record, mutex, abort, started, reader, got>>

Poll == Measure \/ TakePercentage \/ TakeCharging \/ Store \/ StoreRest \/ Wake \/ Push

Next ==
    \/ Initialize \/ Poll \/ Stop
    \/ GetJson \/ GetRest
    \/ Sensor

(* The chip converts continuously, main and the polling thread run and get *)
(* the mutex in the end, and get_json() returns.                           *)
Fairness ==
    /\ WF_vars(Convert /\ UNCHANGED <<pc, local, record, mutex, abort, started, reader, got>>)
    /\ WF_vars(Initialize) /\ SF_vars(Poll) /\ WF_vars(GetRest)

Spec == Init /\ [][Next]_vars
FairSpec == Spec /\ Fairness

-----------------------------------------------------------------------------
Whole(r) == r.poll = r.rest /\ r.low = (r.percentage < LowBatteryPct)

\* What get_json() returns is one record, never half of one poll and half of another.
RecordsWhole == reader = "rest" => Whole(Answer)

True(r) ==
    LET m == Measured(battery, TRUE) IN
    /\ r.volts = m.volts /\ r.current = m.current /\ r.power = m.power
    /\ r.percentage = Percentage(m.volts)
    /\ r.low = (Percentage(m.volts) < LowBatteryPct)
    /\ r.charging = (m.current > 0)

\* A sensor that initialize() accepted shows the battery as it is again, and goes on doing
\* so, once brown-outs, failing transfers and changes are over, although the chip loses
\* its calibration and the driver notices neither that nor a failing transfer.
RecordsRecover == <>[](abort \/ At("unavailable") \/ True(record))
=============================================================================
