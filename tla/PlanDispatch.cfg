SPECIFICATION Spec
INVARIANTS
  ReadsAreReady
  UnresolvableOnlyWhenCapped
  EveryAgentAccountedFor
  NothingSkippedWithoutReason
\* a run of the pipeline ends
CHECK_DEADLOCK FALSE
