\* One connection whose backlog reaches queue_max_num, before and after its
\* answer, whatever set_connected() meets.
SPECIFICATION Spec
CONSTANTS
  Sids = {c1}
  QueueMax = 3
  MaxReads = 5
  MaxFrames = 2
  ReadRaces = TRUE
  CloseRaces = TRUE
  LateCompletion = TRUE
INVARIANTS
  SocketDiscipline
  DataWaitsForAnswer
  BacklogBounded
  WrittenInOrder
  ClosedIsRemoved
\* Browsers and the peer may fall silent.
CHECK_DEADLOCK FALSE
