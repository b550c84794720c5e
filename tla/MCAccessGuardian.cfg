\* Two routers, ticks that overlap and ticks that die.
SPECIFICATION MCSpec
CONSTANTS
  Size = 2
  Tickers = {"timer", "page"}
  Dedup = 1
  Warn = 2
  Critical = 1
  Escalate = 1
  Window = 0
  MaxTime = 1
  MaxChanges = 2
  MaxIncidents = 2
  MaxAborts = 1
INVARIANTS LevelsAreAnnounced
PROPERTIES ResolvedOnFindings IncidentsEnd OutagesEscalate
