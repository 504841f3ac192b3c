CONSTANTS
  Callers = {"t1", "t2"}
  MAX_QUEUE_SIZE = 2
  MaxMessages = 2
  MaxStarts = 2
SPECIFICATION Spec
INVARIANTS EveryMessageOnce JoinedMeansWritten
PROPERTIES EveryMessageIsWritten ShutdownCompletes
CHECK_DEADLOCK FALSE
