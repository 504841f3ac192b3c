\* One scan of up to five jobs, two workers, one slot: children are queued, run
\* inline for want of a slot, or refused by a queue that has filled meanwhile.
CONSTANTS
  Clients = {"k1"}
  ra = ra
  rc = rc
  w1 = w1
  w2 = w2
  Roots = {ra, rc}
  Overlap = {}
  MAX_CONCURRENT_SCAN = 1
  QUEUE_MAX_SIZE = 2
  MaxScanId = 1
  Workers = {w1, w2}
  RunThread = "run"
  Scans <- OneScan
  SCAN_QUEUE_MAX_SIZE = 1
  MaxConcurrent = 1
  MaxChildren = 4
SPECIFICATION SafeSpec
INVARIANTS RegistryCoversJobs CompleteUnlessCanceled
PROPERTIES ManagerKeepsInterface
CHECK_DEADLOCK FALSE
SYMMETRY Symmetry
