CONSTANTS
  Canceller = {c1}
  MaxFaults = 0
  MaxCrashes = 0
SPECIFICATION Spec
PROPERTY LifecycleOrder
\* the run ends
CHECK_DEADLOCK FALSE
