\* A batch of two with one runner: leases expire while an event waits.
SPECIFICATION Spec
CONSTANTS
  e1 = e1
  e2 = e2
  w1 = w1
  w2 = w2
  Events = {e1, e2}
  Workers = {w1, w2}
  BatchSize = 2
  Concurrency = 1
  MaxAttempts = 2
  MaxFaults = 1
  MaxThrows = 1
PROPERTIES EventDecidedOnce EventSettles
CHECK_DEADLOCK FALSE
