\* start() of one process and its pool: one thread, a browser at any time.
SPECIFICATION FairSpec
CONSTANTS
  Workers = {w1}
  MaxEntries = 0
  MaxConns = 1
  MaxRuns = 1
INVARIANTS
  CallbackIsSet
CHECK_DEADLOCK FALSE
