----------------------- MODULE BatteryMonitor_proofs -----------------------
(***************************************************************************)
(* Proofs about BatteryMonitor, for any set of states of the battery, any  *)
(* number of disturbances and any threshold.                               *)
(***************************************************************************)
EXTENDS BatteryMonitor, TLAPS

USE BatteriesOK, LowOK DEF At, Goto

Chips == [config : Nat, calibration : Nat, volts : Nat, current : Int, power : Nat]

\* What TypeOK says of the record and its readers, the part the sensor's steps leave alone.
RecordType ==
    /\ record \in Records /\ got \in Records
    /\ mutex \in {"free", "monitor", "reader"}
    /\ abort \in BOOLEAN /\ started \in BOOLEAN
    /\ reader \in {"idle", "rest"}

\* What TypeOK says of the sensor.
SensorType ==
    /\ battery \in Batteries
    /\ chip \in Chips
    /\ disturbances \in 0..MaxDisturbances

LEMMA TypeParts ==
  TypeOK <=> SensorType /\ RecordType /\ pc \in Labels /\ local \in Records
BY DEF TypeOK, SensorType, RecordType, Chips

LEMMA TypePartsNext ==
  TypeOK' <=> SensorType' /\ RecordType' /\ pc' \in Labels /\ local' \in Records
BY DEF TypeOK, SensorType, RecordType, Chips

LEMMA ZeroType == Zero \in Records
BY DEF Zero, Records

-----------------------------------------------------------------------------
(* The sensor                                                              *)

LEMMA ConstantsType == Config \in Nat /\ Calibration \in Nat /\ ResetChip \in Chips
BY DEF Config, Calibration, ResetChip, ResetConfig, Chips

\* A percentage is one, whatever the voltage.
LEMMA PercentageType ==
  ASSUME NEW v \in Int
  PROVE  Percentage(v) \in 0..100
BY DEF Percentage

LEMMA MeasuredType ==
  ASSUME NEW b \in Batteries, NEW c \in BOOLEAN
  PROVE  /\ Measured(b, c).volts \in Nat /\ Measured(b, c).current \in Int
         /\ Measured(b, c).power \in Nat
<1>1. b.volts \in Nat /\ b.current \in Int
  OBVIOUS
<1>2. Abs(b.current) \in Nat
  BY <1>1 DEF Abs
<1>3. \A m, n \in Nat : m * n \in Nat
  OBVIOUS
<1>4. b.volts * Abs(b.current) \in Nat
  BY <1>1, <1>2, <1>3
<1>. QED BY <1>1, <1>4 DEF Measured

\* A transfer, a conversion or a disturbance leaves the sensor a sensor.
LEMMA WriteType ==
  ASSUME SensorType, NEW reg \in {"config", "calibration"}, NEW value \in Nat,
         WriteRegister(reg, value)
  PROVE  SensorType'
BY DEF SensorType, WriteRegister, Disturb, Chips

LEMMA ResetType ==
  ASSUME SensorType, WriteReset
  PROVE  SensorType'
BY ConstantsType DEF SensorType, WriteReset, Disturb

LEMMA ReadType ==
  ASSUME SensorType, NEW reg, NEW raw, ReadRegister(reg, raw)
  PROVE  SensorType'
BY DEF SensorType, ReadRegister, Disturb

LEMMA ChipStepType ==
  ASSUME SensorType, Convert \/ Change \/ BrownOut
  PROVE  SensorType'
<1>1. CASE Convert
  <2>. DEFINE c == chip.calibration = Calibration
              m == Measured(battery, c)
  <2>1. m.volts \in Nat /\ m.current \in Int /\ m.power \in Nat
    BY MeasuredType DEF SensorType
  <2>2. chip' = [chip EXCEPT !.volts = m.volts, !.current = m.current, !.power = m.power]
    BY <1>1 DEF Convert
  <2>. HIDE DEF m
  <2>. QED BY <1>1, <2>1, <2>2 DEF Convert, SensorType, Chips
<1>2. CASE Change
  BY <1>2 DEF Change, Disturb, SensorType
<1>3. CASE BrownOut
  BY <1>3, ConstantsType DEF BrownOut, Disturb, SensorType
<1>. QED BY <1>1, <1>2, <1>3

\* What a transfer can return of the data registers.
LEMMA OutcomeType ==
  ASSUME SensorType
  PROVE  /\ \A raw \in Outcomes("volts") \cup Outcomes("power") : raw \in Nat
         /\ \A raw \in Outcomes("current") : raw \in Int
BY DEF SensorType, Outcomes, Chips

-----------------------------------------------------------------------------
(* Types                                                                   *)

LEMMA InitType == Init => TypeOK
<1>. SUFFICES ASSUME Init PROVE TypeOK
  OBVIOUS
<1>1. abort \in BOOLEAN /\ started \in BOOLEAN
  BY DEF Init
<1>2. SensorType
  BY ConstantsType DEF Init, InitSensor, SensorType
<1>. QED BY <1>1, <1>2, ZeroType, TypeParts DEF Init, RecordType, Labels, InitLabels

LEMMA InitializeType ==
  ASSUME SensorType, pc \in Labels, Initialize
  PROVE  SensorType' /\ pc' \in Labels /\ UNCHANGED <<local, record, mutex, abort, started, reader, got>>
<1>1. ASSUME NEW l, NEW n \in Labels, CalibrateFirst(l, n)
      PROVE  SensorType' /\ pc' \in Labels /\ UNCHANGED <<local, record, mutex, abort, started, reader, got>>
  BY <1>1, WriteType, ConstantsType DEF CalibrateFirst, Calibrate
<1>2. ASSUME NEW l, NEW n \in Labels, Configure(l, n)
      PROVE  SensorType' /\ pc' \in Labels /\ UNCHANGED <<local, record, mutex, abort, started, reader, got>>
  BY <1>2, WriteType, ConstantsType DEF Configure
<1>3. CASE Reset
  BY <1>3, ResetType DEF Reset, Labels, InitLabels
<1>4. ASSUME NEW l, NEW r, NEW v, NEW n \in Labels, Verify(l, r, v, n)
      PROVE  SensorType' /\ pc' \in Labels /\ UNCHANGED <<local, record, mutex, abort, started, reader, got>>
  BY <1>4, ReadType DEF Verify, Labels
<1>5. {"configure_0", "reset", "calibrate", "configure", "verify", "calibrate_v"} \subseteq Labels
  BY DEF Labels, InitLabels, PollLabels
<1>. QED BY <1>1, <1>2, <1>3, <1>4, <1>5 DEF Initialize

\* A step that takes a reading changes the sensor, the locals and the label only.
LEMMA MeasureType ==
  ASSUME SensorType, pc \in Labels, local \in Records, Measure
  PROVE  /\ SensorType' /\ pc' \in Labels \ {"read_chg", "store", "store_rest"}
         /\ pc # "store_rest"
         /\ local' \in Records /\ local'.poll = local.poll /\ local'.rest = local.rest
         /\ UNCHANGED <<record, mutex, abort, started, reader, got>>
<1>. DEFINE Result == /\ SensorType' /\ pc' \in Labels \ {"read_chg", "store", "store_rest"}
                      /\ pc # "store_rest"
                      /\ local' \in Records /\ local'.poll = local.poll /\ local'.rest = local.rest
                      /\ UNCHANGED <<record, mutex, abort, started, reader, got>>
            Plain == Labels \ {"read_chg", "store", "store_rest"}
<1>1. ASSUME NEW l \in Plain, NEW n \in Plain, Restore(l, n) PROVE Result
  BY <1>1, WriteType, ConstantsType DEF Restore, EnsureCalibration, Calibrate
<1>2. ASSUME NEW l \in Plain, NEW n \in Plain, Take(l, "volts", "volts", n) PROVE Result
  <2>1. PICK raw \in Outcomes("volts") : ReadRegister("volts", raw) /\ local' = [local EXCEPT !.volts = raw]
    BY <1>2 DEF Take
  <2>2. raw \in Nat /\ SensorType'
    BY <2>1, ReadType, OutcomeType
  <2>. QED BY <1>2, <2>1, <2>2 DEF Take, Records
<1>3. ASSUME NEW l \in Plain, NEW n \in Plain, Take(l, "current", "current", n) PROVE Result
  <2>1. PICK raw \in Outcomes("current") : ReadRegister("current", raw) /\ local' = [local EXCEPT !.current = raw]
    BY <1>3 DEF Take
  <2>2. raw \in Int /\ SensorType'
    BY <2>1, ReadType, OutcomeType
  <2>. QED BY <1>3, <2>1, <2>2 DEF Take, Records
<1>4. ASSUME NEW l \in Plain, NEW n \in Plain, Take(l, "power", "power", n) PROVE Result
  <2>1. PICK raw \in Outcomes("power") : ReadRegister("power", raw) /\ local' = [local EXCEPT !.power = raw]
    BY <1>4 DEF Take
  <2>2. raw \in Nat /\ SensorType'
    BY <2>1, ReadType, OutcomeType
  <2>. QED BY <1>4, <2>1, <2>2 DEF Take, Records
<1>5. {"calibrate_v", "read_v", "read_i", "calibrate_p", "read_p", "calibrate_pct", "read_pct"} \subseteq Plain
  BY DEF Labels, PollLabels
<1>. QED BY <1>1, <1>2, <1>3, <1>4, <1>5 DEF Measure

LEMMA TakeType ==
  ASSUME SensorType, local \in Records, TakePercentage \/ TakeCharging
  PROVE  SensorType' /\ pc' \in Labels /\ local' \in Records
<1>1. CASE TakePercentage
  <2>1. PICK raw \in Outcomes("volts") :
           /\ ReadRegister("volts", raw)
           /\ local' = [local EXCEPT !.percentage = Percentage(raw),
                                     !.low = Percentage(raw) < LowBatteryPct]
    BY <1>1 DEF TakePercentage
  <2>2. SensorType' /\ Percentage(raw) \in 0..100
    BY <2>1, ReadType, OutcomeType, PercentageType
  <2>3. (Percentage(raw) < LowBatteryPct) \in BOOLEAN
    OBVIOUS
  <2>. QED BY <1>1, <2>1, <2>2, <2>3, Zenon DEF TakePercentage, Labels, PollLabels, Records
<1>2. CASE TakeCharging
  <2>1. PICK raw \in Outcomes("current") :
           /\ ReadRegister("current", raw)
           /\ local' = [local EXCEPT !.charging = raw > 0, !.poll = 1 - @, !.rest = 1 - @]
    BY <1>2 DEF TakeCharging
  <2>2. SensorType'
    BY <2>1, ReadType
  <2>3. (raw > 0) \in BOOLEAN
    OBVIOUS
  <2>4. 1 - local.poll \in 0..1 /\ 1 - local.rest \in 0..1
    BY DEF Records
  <2>. QED BY <1>2, <2>1, <2>2, <2>3, <2>4 DEF TakeCharging, Labels, PollLabels, Records
<1>. QED BY <1>1, <1>2

LEMMA StoreType ==
  ASSUME TypeOK, Store \/ StoreRest
  PROVE  TypeOK'
<1>. USE DEF sensorVars, Labels, PollLabels
<1>1. CASE Store
  <2>1. Readings(record, local) \in Records
    BY DEF TypeOK, Readings, Records
  <2>. QED BY <1>1, <2>1 DEF Store, TypeOK
<1>2. CASE StoreRest
  <2>1. local' \in Records
    BY <1>2, ZeroType DEF StoreRest, TypeOK, Records
  <2>2. started' \in BOOLEAN
    BY <1>2 DEF StoreRest
  <2>. QED BY <1>2, <2>1, <2>2 DEF StoreRest, TypeOK
<1>. QED BY <1>1, <1>2

LEMMA ReaderType ==
  ASSUME TypeOK, GetJson \/ GetRest
  PROVE  TypeOK'
<1>1. CASE GetJson
  <2>1. Readings(Zero, record) \in Records
    BY ZeroType DEF TypeOK, Readings, Records
  <2>. QED BY <1>1, <2>1 DEF GetJson, TypeOK, sensorVars
<1>2. CASE GetRest
  BY <1>2, ZeroType DEF GetRest, TypeOK, sensorVars
<1>. QED BY <1>1, <1>2

LEMMA StepType ==
  ASSUME TypeOK, [Next]_vars
  PROVE  TypeOK'
<1>. SensorType /\ RecordType /\ pc \in Labels /\ local \in Records
  BY TypeParts
<1>1. CASE Initialize
  BY <1>1, InitializeType, TypePartsNext DEF RecordType
<1>2. CASE Measure
  BY <1>2, MeasureType, TypePartsNext DEF RecordType
<1>3. CASE TakePercentage \/ TakeCharging
  BY <1>3, TakeType, TypePartsNext DEF RecordType, TakePercentage, TakeCharging
<1>4. CASE Store \/ StoreRest
  BY <1>4, StoreType
<1>5. CASE Wake \/ Push
  BY <1>5 DEF Wake, Push, TypeOK, sensorVars, Labels, PollLabels
<1>6. CASE Stop
  BY <1>6 DEF Stop, TypeOK, sensorVars
<1>7. CASE GetJson \/ GetRest
  BY <1>7, ReaderType
<1>8. CASE Sensor
  BY <1>8, ChipStepType, TypePartsNext DEF Sensor, RecordType
<1>9. CASE UNCHANGED vars
  BY <1>9 DEF vars, sensorVars, TypeOK
<1>. QED BY <1>1, <1>2, <1>3, <1>4, <1>5, <1>6, <1>7, <1>8, <1>9 DEF Next, Poll

\* The sensor, the records and the threads that use them keep their types.
THEOREM TypeCorrect == Spec => []TypeOK
<1>. QED BY InitType, StepType, PTL DEF Spec

-----------------------------------------------------------------------------
(* Records                                                                 *)

\* The locals of read_and_store() belong to one poll, and their warning to their
\* percentage from the moment both have been taken.
LocalsInv ==
    /\ local.poll = local.rest
    /\ pc \in {"read_chg", "store", "store_rest"} => local.low = (local.percentage < LowBatteryPct)

\* data_mutex_ is held by who is inside a record, which is whole while it is not being
\* stored and which has not changed under a reader.
RecordInv ==
    /\ mutex = "monitor" <=> pc = "store_rest"
    /\ mutex = "reader" <=> reader = "rest"
    /\ started /\ pc # "store_rest" => Whole(record)
    /\ reader = "rest" => started /\ got.poll = record.poll

LEMMA InitRecords == Init => LocalsInv /\ RecordInv
BY DEF Init, LocalsInv, RecordInv, Zero

LEMMA StepLocals ==
  ASSUME TypeOK, LocalsInv, [Next]_vars
  PROVE  LocalsInv'
<1>. SensorType /\ RecordType /\ pc \in Labels /\ local \in Records
  BY TypeParts
<1>1. CASE Initialize
  <2>1. local' = local
    BY <1>1, InitializeType
  <2>2. pc' \notin {"read_chg", "store", "store_rest"}
    BY <1>1 DEF Initialize, CalibrateFirst, Configure, Reset, Verify
  <2>. QED BY <2>1, <2>2 DEF LocalsInv
<1>2. CASE Measure
  BY <1>2, MeasureType DEF LocalsInv
<1>3. CASE TakePercentage
  BY <1>3 DEF TakePercentage, LocalsInv, Records
<1>4. CASE TakeCharging
  BY <1>4 DEF TakeCharging, LocalsInv, Records
<1>5. CASE Store
  BY <1>5 DEF Store, LocalsInv
<1>6. CASE StoreRest
  BY <1>6 DEF StoreRest, LocalsInv, Zero
<1>7. CASE Wake \/ Push
  BY <1>7 DEF Wake, Push, LocalsInv
<1>8. CASE UNCHANGED <<pc, local>>
  BY <1>8 DEF LocalsInv
<1>. QED BY <1>1, <1>2, <1>3, <1>4, <1>5, <1>6, <1>7, <1>8
         DEF Next, Poll, Stop, GetJson, GetRest, Sensor, vars

LEMMA StepRecords ==
  ASSUME TypeOK, LocalsInv, RecordInv, [Next]_vars
  PROVE  RecordInv'
<1>. SensorType /\ RecordType /\ pc \in Labels /\ local \in Records
  BY TypeParts
<1>1. CASE UNCHANGED <<record, mutex, started, reader, got>> /\ pc # "store_rest" /\ pc' # "store_rest"
  BY <1>1 DEF RecordInv, Whole
<1>2. CASE Initialize
  <2>1. pc # "store_rest" /\ pc' # "store_rest"
    BY <1>2 DEF Initialize, CalibrateFirst, Configure, Reset, Verify
  <2>. QED BY <1>1, <1>2, <2>1, InitializeType
<1>3. CASE Measure
  BY <1>1, <1>3, MeasureType
<1>4. CASE TakePercentage \/ TakeCharging \/ Wake \/ Push
  BY <1>1, <1>4 DEF TakePercentage, TakeCharging, Wake, Push
<1>5. CASE Store
  <2>1. reader # "rest"
    BY <1>5 DEF Store, RecordInv
  <2>. QED BY <1>5, <2>1 DEF Store, RecordInv
<1>6. CASE StoreRest
  <2>1. Whole(record')
    BY <1>6 DEF StoreRest, LocalsInv, Whole
  <2>2. reader # "rest"
    BY <1>6 DEF StoreRest, RecordInv
  <2>. QED BY <1>6, <2>1, <2>2 DEF StoreRest, RecordInv
<1>7. CASE GetJson
  <2>1. got'.poll = record.poll
    BY <1>7 DEF GetJson, Readings, Zero
  <2>. QED BY <1>7, <2>1 DEF GetJson, RecordInv, Whole
<1>8. CASE GetRest
  BY <1>8 DEF GetRest, RecordInv, Whole
<1>9. CASE UNCHANGED <<pc, record, mutex, started, reader, got>>
  BY <1>9 DEF RecordInv, Whole
<1>. QED BY <1>2, <1>3, <1>4, <1>5, <1>6, <1>7, <1>8, <1>9 DEF Next, Poll, Stop, Sensor, vars

\* What get_json() returns is one record, for every battery, every threshold and any
\* number of failing transfers and brown-outs.
THEOREM ReadersSeeWhole == Spec => []RecordsWhole
<1>1. TypeOK /\ LocalsInv /\ RecordInv => RecordsWhole
  <2>. SUFFICES ASSUME TypeOK, RecordInv, reader = "rest" PROVE Whole(Answer)
    BY DEF RecordsWhole
  <2>1. Whole(record) /\ got.poll = record.poll
    BY DEF RecordInv
  <2>. QED BY <2>1 DEF Whole, Answer, Readings, TypeOK, Records
<1>2. Init => TypeOK /\ LocalsInv /\ RecordInv
  BY InitType, InitRecords
<1>3. TypeOK /\ LocalsInv /\ RecordInv /\ [Next]_vars => (TypeOK /\ LocalsInv /\ RecordInv)'
  BY StepType, StepLocals, StepRecords
<1>. QED BY <1>1, <1>2, <1>3, PTL DEF Spec
=============================================================================
