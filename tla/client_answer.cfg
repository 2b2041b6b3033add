\* A read callback, or the close of the browser, that meets the answer.
SPECIFICATION Spec
CONSTANTS
  Sids = {c1}
  QueueMax = 2
  MaxReads = 2
  MaxFrames = 0
  ReadRaces = TRUE
  CloseRaces = TRUE
  LateCompletion = FALSE
INVARIANTS
  OneFramePerClient
\* Browsers and the peer may fall silent.
CHECK_DEADLOCK FALSE
