CONSTANTS
  Tasks = {s1}
  Waiters = {k1}
  Conns = {c1}
  NoConn = NoConn
SPECIFICATION FairSpec
PROPERTY EveryHandlerHears
CHECK_DEADLOCK FALSE
