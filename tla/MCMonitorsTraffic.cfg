SPECIFICATION Spec
CONSTANTS
  Absent = Absent
  Setups <- TrafficOnly
  Routers <- MCRouters
  Sites <- MCSites
INVARIANTS WarningsSurface
CHECK_DEADLOCK FALSE
