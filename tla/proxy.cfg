\* One connection from the browser to the remote host and back.
SPECIFICATION Spec
CONSTANTS
  Sids = {c1}
  QueueMax = 2
  MaxPushes = 3
  ReadRaces = FALSE
  CloseRaces = TRUE
  LateCompletion = FALSE
INVARIANTS
  PeerKeepsToProtocol
  NobodyIsForgotten
  ClosesTogether
PROPERTIES
  UpstreamInOrder
  DownstreamInOrder
\* Browsers and remote hosts may fall silent.
CHECK_DEADLOCK FALSE
