\* Two acceptors, so that both may have passed the gate when shutdown begins.
CONSTANTS
  Tasks = {s1, s2}
  Waiters = {k1, k2}
  Conns = {c1, c2}
  NoConn = NoConn
SPECIFICATION Spec
SYMMETRY ServerSymmetry
INVARIANTS TypeOK GuardSpansTask
PROPERTY KeepsContract
CHECK_DEADLOCK FALSE
