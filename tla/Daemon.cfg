\* One scan, one worker of the fd pool, two connections through a queue of one.
CONSTANTS
  Clients = {"h1"}
  Workers = {"h1"}
  Connections = {"c1", "c2"}
  Fds = {0, 1, 2, 3}
  FD_QUEUE_MAX_SIZE = 1
  Roots = {"/a"}
  Overlap = {}
  MAX_CONCURRENT_SCAN = 1
  QUEUE_MAX_SIZE = 1
  MaxScanId = 1
SPECIFICATION DaemonSpec
INVARIANTS DescriptorsAreOwned ScansEndBeforeServer StoppedMeansAnswered
PROPERTIES DaemonStops
CHECK_DEADLOCK FALSE
