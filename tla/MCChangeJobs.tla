---------------------------- MODULE MCChangeJobs ----------------------------
(* The change engine on a small fleet. *)
EXTENDS ChangeJobs, TLC

(* The requests compete: for a router, or for the fleet's one upgrade.      *)
Competing == (\A p, q \in Requests : router[p] = router[q]) \/ (\A q \in Requests : flow[q] = "upgrade")

(* Of the runs that differ by names alone one is enough: the first request *)
(* has the first flow of the two and the first router.                     *)
Rank == [change |-> 1, scoped |-> 2, repair |-> 3, backup |-> 4, upgrade |-> 5]
First == CHOOSE q \in Requests : TRUE
Named == /\ \A q \in Requests : Rank[flow[First]] <= Rank[flow[q]]
         /\ router[First] = CHOOSE r \in Routers : TRUE

MCInit == Init /\ Competing /\ Named
MCSpec == MCInit /\ [][Next]_vars /\ Fairness
=============================================================================
