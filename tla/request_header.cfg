\* One byte more than the longest request that a frame may hold.
SPECIFICATION Spec
CONSTANTS
  DataMaxLength = 8192
  Sizes = {8191}
  Hosts = {"www"}
  Ports = {"1080"}
  Paths <- MCPaths
INVARIANTS
  HeaderAsDocumented
CHECK_DEADLOCK FALSE
