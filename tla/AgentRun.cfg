CONSTANTS
  Dispatched <- MCDispatched
  Keys <- MCKeys
  Answers <- MCAnswers
  Selections <- MCSelections
  MaxRetries = 2
SPECIFICATION Spec
INVARIANTS
  RunsFailForAReason
  ConfiguredProvidersOnly
  StoredFindingsWereValidated
  ConfidenceNeverFlatters
  FindingsKeepTheirMeaning
\* a run that failed is over
CHECK_DEADLOCK FALSE
