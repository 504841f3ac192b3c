CONSTANTS
  a = a
  ab = ab
  a_b = a_b
  Paths = {a, ab}
  Dirs = {a}
  Existing = {}
  Children <- Directory
  TextOf <- Names
  MaxScanId = 2
  MaxVersion = 1
  MaxDisruptions = 1
  EXPORT_QUEUE_SIZE = 1
  WRITE_BATCH_SIZE = 2
  LOAD_LIMIT = 1
SPECIFICATION SafeSpec
PROPERTY CutShortDeletesNothing
CHECK_DEADLOCK FALSE
