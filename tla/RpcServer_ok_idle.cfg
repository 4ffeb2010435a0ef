CONSTANTS
  Tasks = {s1, s2}
  Waiters = {k1}
  Conns = {c1}
  NoConn = NoConn
SPECIFICATION Spec
INVARIANT OkMeansIdle
CHECK_DEADLOCK FALSE
