\* Two browsers' connections share the main transport of a host that keeps
\* finishing its sends.
SPECIFICATION FairSpec
CONSTANTS
  Sids = {c1, c2}
  QueueMax = 2
  MaxReads = 1
  MaxFrames = 0
  ReadRaces = FALSE
  CloseRaces = FALSE
  LateCompletion = FALSE
INVARIANTS
  TypeOK
  OneInFlight
  SingleSend
PROPERTIES
  FramesInOrder
  EveryTupleLeaves
  ReadResumesOnceAnswered
\* Browsers and the peer may fall silent.
CHECK_DEADLOCK FALSE
