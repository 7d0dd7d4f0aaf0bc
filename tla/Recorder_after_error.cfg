\* A recording that was ended by an error of its pipeline, and the next one.
SPECIFICATION Spec
CONSTANTS
  Faults = {"error"}
  MaxStarts = 2
  MaxFrames = 4
INVARIANTS
  TimesFromFirst
\* After the destructor the Recorder takes no step.
CHECK_DEADLOCK FALSE
