\* No symmetry, which would be unsound for the liveness properties.
SPECIFICATION Spec
CONSTANTS
  Keys = {k1, k2}
  Persistent = {k1}
  Tokens = {t1, t2}
  PoolSize = 2
  MaxFaults = 3
INVARIANTS EnrolledReachable AddressesExclusive TokenSpentOnce
PROPERTIES EnrolledStay TokenComesBack GetsIn
