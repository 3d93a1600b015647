CONSTANT Name = {a1, a2, a3}
SPECIFICATION MCSpec
INVARIANTS
  ResultIsClosed
  NothingElseIncluded
\* the search stops when its queue is empty
CHECK_DEADLOCK FALSE
