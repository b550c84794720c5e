SPECIFICATION Spec
CONSTANTS
  Configs = {f1, f2, f3}
  Good = {f1, f2}
  NoConfig = NoConfig
  MaxEdits = 1
  MaxLosses = 1
INVARIANTS ClaimsAreBacked
PROPERTIES DriftIsSeen
