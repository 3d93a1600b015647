CONSTANTS
  Canceller = {c1}
  MaxFaults = 0
  MaxCrashes = 0
SPECIFICATION Spec
INVARIANT FailureIsRecorded
\* the run ends
CHECK_DEADLOCK FALSE
