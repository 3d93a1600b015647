CONSTANTS
  Name = {a1, a2, a3, a4}
  AnyNames = {a1}
SPECIFICATION MCSpec
INVARIANTS
  TiersRespectDependencies
  CycleIsReal
CHECK_DEADLOCK FALSE
