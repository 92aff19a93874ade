\* Three requests around the turn of a month and a change of plan.
SPECIFICATION UsageSpec
CONSTANTS
  Workers = {w1, w2, w3}
  Limits <- MCLimits
  MaxMonth = 2
  MaxUse = 3
SYMMETRY WorkerSymmetry
INVARIANTS
  UsageTypeOK
  CountWithinLimit
  WorkIsCounted
CHECK_DEADLOCK FALSE
