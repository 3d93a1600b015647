CONSTANTS
  Tables <- MCTables
  MaxSegments = 2
  TopGroups = 2
  MaxRows = 6
  MinAnomalyPoints = 3
  DaysPerMonth = 3
  MaxFailures = 1
SPECIFICATION Spec
INVARIANTS
  AgentsAgree
  AnomaliesAreRare
\* the helpers end
CHECK_DEADLOCK FALSE
