SPECIFICATION Spec
CONSTANTS
  Size = 2
  Canary = 1
  Actors = {"web", "timer"}
  MaxJobs = 5
  MaxAborts = 1
  MaxOthers = 1
INVARIANTS CanaryFirst CompletedMeansUpgraded
PROPERTIES CanaryComesToGate RolloutEnds
CHECK_DEADLOCK FALSE
