SPECIFICATION Spec
CONSTANTS
  Absent = Absent
  Setups <- MCSetups
  Routers <- MCRouters
  Sites <- MCSites
INVARIANTS
  
  BlameIsShared
PROPERTIES
  ImportantSurvive
CHECK_DEADLOCK FALSE
