SPECIFICATION Spec
CONSTANTS
  Routers = {r1}
  Requests = {q1}
  NoRequest = NoRequest
  MaxCrashes = 0
INVARIANT TwoConsecutiveChecks
