\* Thresholds of 2: the first severe result does not decide.
CONSTANTS
  p1 = p1
  p2 = p2
  s1 = s1
  s2 = s2
  Peers = {p1, p2}
  Slots = {s1, s2}
  Calls <- MCCalls
  FailureThreshold = 2
  SuccessThreshold = 2
  Classifiers <- MCClassifiers
  NoBreakers = NoBreakers
SPECIFICATION FairSpec
INVARIANTS TypeOK SeverityReachesCaller
PROPERTIES OpensOnOwnSevereRun SevereRunCutsOff HealthyPeerRecovers
CHECK_DEADLOCK FALSE
