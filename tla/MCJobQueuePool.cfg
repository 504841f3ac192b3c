\* The scan pool: try_push only, LIFO, two workers that may submit from a job.
CONSTANTS
  s1 = s1
  s2 = s2
  p1 = p1
  p2 = p2
  p3 = p3
  w1 = w1
  w2 = w2
  Submitters = {s1, s2}
  Pushers = {}
  Workers = {w1, w2}
  QUEUE_SIZE = 2
  Lifo = TRUE
  Quota <- Quota2
SPECIFICATION Spec
INVARIANTS NoLostWakeup ExactlyOnce JoinedMeansDrained
PROPERTIES AbstractQueue ShutdownCompletes
CHECK_DEADLOCK FALSE
