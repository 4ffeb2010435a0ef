\* The window between count() and notified().
CONSTANTS
  Tasks = {t1, t2}
  Waiters = {w1}
SPECIFICATION FairTrackerSpec
SYMMETRY TaskSymmetry
INVARIANT NeverStranded
CHECK_DEADLOCK FALSE
