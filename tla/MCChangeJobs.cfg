SPECIFICATION MCSpec
CONSTANTS
  Routers = {r1, r2}
  Requests = {q1, q2}
  NoRequest = NoRequest
  MaxCrashes = 1
INVARIANTS ExclusiveCommands AppliedOnce SuccessIsEarned ChangeClosesTogether
PROPERTIES VerdictsStand ReservationSpec ReservationsEnd UpgradesEnd
