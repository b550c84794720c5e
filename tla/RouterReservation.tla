-------------------------- MODULE RouterReservation --------------------------
(***************************************************************************)
(* What the job table promises its callers (jobs.create's docstring,       *)
(* "Reserve a mutation job atomically"): a request holds its router alone, *)
(* an upgrade also holds the fleet's one upgrade slot, a reservation that  *)
(* was given back is never taken up again, and several may be given back   *)
(* at once (recovery).                                                     *)
(***************************************************************************)
CONSTANTS Routers, Requests

VARIABLES router,     \* the router each request asks for
          fleetwide,  \* the requests that also need the upgrade slot
          phase       \* "waiting", "holding" or "over"

vars == <<router, fleetwide, phase>>

TypeOK ==
  /\ router \in [Requests -> Routers]
  /\ fleetwide \subseteq Requests
  /\ phase \in [Requests -> {"waiting", "holding", "over"}]

Init ==
  /\ router \in [Requests -> Routers]
  /\ fleetwide \in SUBSET Requests
  /\ phase = [q \in Requests |-> "waiting"]

Conflict(p, q) == router[p] = router[q] \/ (p \in fleetwide /\ q \in fleetwide)

Reserve(q) ==
  /\ phase[q] = "waiting"
  /\ \A p \in Requests : phase[p] = "holding" => ~Conflict(p, q)
  /\ phase' = [phase EXCEPT ![q] = "holding"]
  /\ UNCHANGED <<router, fleetwide>>

GiveBack(S) ==
  /\ \A q \in S : phase[q] = "holding"
  /\ phase' = [q \in Requests |-> IF q \in S THEN "over" ELSE phase[q]]
  /\ UNCHANGED <<router, fleetwide>>

Next == \/ \E q \in Requests : Reserve(q)
        \/ \E S \in SUBSET Requests : GiveBack(S)

Spec == Init /\ [][Next]_vars

(* Two requests that conflict are never both held: what the callers of     *)
(* jobs.create rely on.                                                    *)
Exclusive ==
  \A p, q \in Requests :
    phase[p] = "holding" /\ phase[q] = "holding" /\ Conflict(p, q) => p = q
===============================================================================
