\* Connections that start when the pool has run out of work.
SPECIFICATION FairSpec
CONSTANTS
  Sids = {c1, c2}
  QueueMax = 2
  MaxReads = 1
  MaxFrames = 0
PROPERTIES
  ResolverCallbackRuns
CHECK_DEADLOCK FALSE
