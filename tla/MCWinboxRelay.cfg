\* Two routers, so that one port may keep the loop from the other.
SPECIFICATION RelaySpec
CONSTANTS
  Routers = {r1, r2}
  Sources = {s1}
  Connections = {c1, c2}
  MaxChanges = 4
  MaxFailures = 1
INVARIANTS ClosedServesNobody
PROPERTIES RevokedEnds PortsFollow
