\* One connection whose backlog reaches queue_max_num several times.
SPECIFICATION Spec
CONSTANTS
  Sids = {c1}
  QueueMax = 3
  MaxReads = 5
  MaxFrames = 3
INVARIANTS
  SocketDiscipline
  BacklogBounded
  WrittenInOrder
  ClosedIsRemoved
PROPERTIES
  FramesInOrder
\* The peer and the remote host may fall silent.
CHECK_DEADLOCK FALSE
