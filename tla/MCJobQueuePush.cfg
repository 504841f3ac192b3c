\* The export result queue: blocking push, FIFO, one consumer, no more pushers
\* than slots.
CONSTANTS
  s1 = s1
  s2 = s2
  p1 = p1
  p2 = p2
  p3 = p3
  w1 = w1
  w2 = w2
  Submitters = {}
  Pushers = {p1, p2}
  Workers = {w1}
  QUEUE_SIZE = 2
  Lifo = FALSE
  Quota <- Quota3
SPECIFICATION Spec
INVARIANTS NoStrandedPusher
PROPERTIES ShutdownCompletes
CHECK_DEADLOCK FALSE
