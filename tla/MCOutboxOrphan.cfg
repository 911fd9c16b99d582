\* A failing markFailed leaves a second runner behind its tick.
SPECIFICATION Spec
CONSTANTS
  e1 = e1
  e2 = e2
  w1 = w1
  w2 = w2
  Events = {e1, e2}
  Workers = {w1}
  BatchSize = 2
  Concurrency = 2
  MaxAttempts = 2
  MaxFaults = 2
  MaxThrows = 1
INVARIANT PendingIsClaimable
CHECK_DEADLOCK FALSE
