SPECIFICATION FairSpec
CONSTANTS
  web = web
  timer = timer
  Processes = {web, timer}
  Steps <- MIGRATIONS
  Releases = {0, 15, 33}
  MaxDeaths = 2
INVARIANTS
  RecordedIsApplied
  ServesMigrated
PROPERTY AllServe
CHECK_DEADLOCK FALSE
