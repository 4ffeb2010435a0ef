\* Three traits that compile and six that do not; two connections, two requests.
CONSTANTS
  Traits <- MCTraits
  Conns = {c1, c2}
  Reqs = {r1, r2}
  MaxCalls = 3
SYMMETRY Symmetry
SPECIFICATION Spec
INVARIANTS StubReachesItsMethod ExtensionsKeepTheirTier StatsAreOfTheBreakers
CHECK_DEADLOCK FALSE
