\* Safety and liveness of the counter and the wait.
CONSTANTS
  Tasks = {t1, t2, t3}
  Waiters = {w1, w2}
SPECIFICATION FairTrackerSpec
INVARIANTS TrackerTypeOK CounterCountsGuards
PROPERTIES OkOnlyWhenDrained ParkedBehindTasksWakes
CHECK_DEADLOCK FALSE
