CONSTANTS
  Canceller = {c1, c2}
  MaxFaults = 2
  MaxCrashes = 1
  Reader = {r1}
  Endpoint = {"results", "findings"}
  Nothing = Nothing
SPECIFICATION ReaderSpec
INVARIANTS
  CompletedRunHasResults
  NoResultsBeforeTheEnd
  CompletionIsDurable
  UncommittedRunDoesNothing
  AnswersAreWhole
PROPERTIES
  DeletionIsFinal
  RunningEnds
  DeletedRunIsForgotten
\* the run ends
CHECK_DEADLOCK FALSE
