\* Two processes, one after the other, with up to two threads.
SPECIFICATION FairSpec
CONSTANTS
  Workers = {w1, w2}
  MaxEntries = 1
  MaxConns = 2
  MaxRuns = 2
INVARIANTS
  NoEmptyCallback
  SettingsAreServed
  NothingRunsAfter
PROPERTIES
  DestructorReturns
\* The last process may crash, be gone, or have no thread.
CHECK_DEADLOCK FALSE
