\* Two connections share the main transport of a host that keeps finishing
\* its sends.
SPECIFICATION FairSpec
CONSTANTS
  Sids = {c1, c2}
  QueueMax = 2
  MaxReads = 1
  MaxFrames = 0
INVARIANTS
  TypeOK
  OneInFlight
  SingleSend
  AnswerFirst
PROPERTIES
  FramesInOrder
  EveryTupleLeaves
  ReadResumes
  AnswerArrives
\* The peer and the remote hosts may fall silent.
CHECK_DEADLOCK FALSE
