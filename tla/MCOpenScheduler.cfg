\* Two scans, one at a time, among three roots of which two overlap.
CONSTANTS
  Clients = {"k1"}
  ra = ra
  rab = rab
  ra_b = ra_b
  Roots = {ra, rab, ra_b}
  Overlap <- Overlapping
  MAX_CONCURRENT_SCAN = 1
  QUEUE_MAX_SIZE = 2
  MaxScanId = 2
SPECIFICATION Spec
INVARIANTS PendingAccounting RunningAccounting ConcurrencyLimit QueueShape NoOverlappingScans ScansAreApart
PROPERTIES Lifecycle PublicLifecycle EveryScanEnds ShutdownCompletes
CHECK_DEADLOCK FALSE
