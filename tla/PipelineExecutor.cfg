CONSTANTS
  base = base
  side = side
  join = join
  last = last
  Agent <- MCAgent
  Critical <- MCCritical
  DependsOn <- MCDependsOn
  TierOf <- MCTierOf
  NumTiers = 3
SPECIFICATION Spec
INVARIANTS
  NothingOutlivesTheCall
  SiblingsAreIsolated
  OneReportPerAgent
  RowsAreTrue
  CompletedCallIsReported
PROPERTIES
  ImplementsSchedule
  RowsMoveForward
  CallEnds
\* the call ends
CHECK_DEADLOCK FALSE
