CONSTANTS
  a = a
  ab = ab
  a_b = a_b
  Paths = {a, ab, a_b}
  Dirs = {a}
  Existing = {a, ab, a_b}
  Children <- Tree
  TextOf <- NamesApart
  MaxScanId = 2
  MaxVersion = 2
  MaxDisruptions = 1
  EXPORT_QUEUE_SIZE = 1
  WRITE_BATCH_SIZE = 2
  LOAD_LIMIT = 1
SPECIFICATION SafeSpec
INVARIANTS CompleteViewIsExact QuietScanMirrorsTree DiffIsExact DoneMeansComplete CountIsExact StoppedMeansExported ExportedIsExact SummaryCoversIndex
PROPERTIES NothingDeletedUnseen ExportedIsFinal
CHECK_DEADLOCK FALSE
