SPECIFICATION Spec
CONSTANTS
  Absent = Absent
  Setups <- TimeHealthOnly
  Routers <- MCRouters
  Sites <- MCSites
INVARIANTS AlertsCanBeWorked
CHECK_DEADLOCK FALSE
