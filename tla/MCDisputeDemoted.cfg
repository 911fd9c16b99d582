\* The admin who claimed loses the role: no retry succeeds.
SPECIFICATION DisputeSpec
CONSTANTS
  x1 = x1
  x2 = x2
  x3 = x3
  a1 = a1
  a2 = a2
  d1 = d1
  Disputes = {d1}
  Executors = {x1, x2}
  DisputeAdmins = {a1, a2}
  Demotable = {a1}
  MaxFaults = 1
PROPERTY ClaimedResolutionCompletes
CHECK_DEADLOCK FALSE
