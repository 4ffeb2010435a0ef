\* Two calls of one client; every configuration of MCSettings that builds.
CONSTANTS
  a1 = a1
  a2 = a2
  Calls = {a1, a2}
  Settings <- MCSettings
  NoConfig = NoConfig
SPECIFICATION FairSpec
INVARIANTS TypeOK NetworkRetriesRunOnce GivesUpOnlyWhenSpent MetricsMeaning
PROPERTIES LossIsFinal LossEndsCalls
CHECK_DEADLOCK FALSE
