\* One acceptor, two streams and one shutdown call; no symmetry under liveness.
CONSTANTS
  Tasks = {s1, s2}
  Waiters = {k1}
  Conns = {c1}
  NoConn = NoConn
SPECIFICATION FairSpec
PROPERTIES ShutdownReturns MissedSignalIsCaughtLater
CHECK_DEADLOCK FALSE
