\* Requests of every form, with lengths at the edges of data_max_length and of
\* 16 bits.
SPECIFICATION Spec
CONSTANTS
  DataMaxLength = 8192
  Sizes = {100, 8190, 8191, 65534, 65535, 65536, 65600}
  Hosts = {"www", "127.0.0.1", "localhost"}
  Ports = {"1080", "10800"}
  Paths <- MCPaths
INVARIANTS
  WholeOrNotAtAll
  TargetIsMeant
  PacIsServed
\* A request comes to an end.
CHECK_DEADLOCK FALSE
