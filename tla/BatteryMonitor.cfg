\* Two disturbances: brown-outs of the sensor, failing transfers, changes of the battery.
SPECIFICATION FairSpec
CONSTANTS
  Batteries <- MCBatteries
  MaxDisturbances = 2
  LowBatteryPct = 20
INVARIANTS
  RecordsWhole
PROPERTIES
  RecordsRecover
\* The sensor may be unavailable, and the polling thread ends.
CHECK_DEADLOCK FALSE
