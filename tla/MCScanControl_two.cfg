\* Two scans of one job may run at a time, in a pool with one slot.
CONSTANTS
  Clients = {"k1"}
  ra = ra
  rc = rc
  w1 = w1
  w2 = w2
  Roots = {ra, rc}
  Overlap = {}
  MAX_CONCURRENT_SCAN = 2
  QUEUE_MAX_SIZE = 2
  MaxScanId = 2
  Workers = {w1, w2}
  RunThread = "run"
  Scans <- TwoScans
  SCAN_QUEUE_MAX_SIZE = 1
  MaxConcurrent = 2
  MaxChildren = 0
SPECIFICATION SafeSpec
INVARIANTS UnfinishedAccounting
PROPERTIES ManagerKeepsInterface
CHECK_DEADLOCK FALSE
SYMMETRY Symmetry
