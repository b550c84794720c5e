---------------------------- MODULE MCAccessGuardian ---------------------------
(***************************************************************************)
(* Two routers, and in each scenario a part of what can happen to them:    *)
(*   deaths     the timer's ticks alone, one of which dies;                *)
(*   alerts     one router is out of service: the alert row of the other,  *)
(*              under overlapping ticks of the timer and of the page;      *)
(*   incidents  a site of both routers, up or down, of which one changes   *)
(*              or both, under overlapping ticks at the clock's last time. *)
(* The first alone has changes of service and of maintenance windows.      *)
(***************************************************************************)
EXTENDS AccessGuardian

VARIABLE scenario

MCvars == <<vars, scenario>>

InScope ==
  \/ scenario = "deaths" /\ at["page"] = "idle"
  \/ /\ scenario = "alerts" /\ aborts = 0
     /\ active = <<TRUE, FALSE>> /\ ~healthy[2] /\ \A r \in Routers : ~quiet[r]
  \/ /\ scenario = "incidents" /\ aborts = 0 /\ changes <= 1
     /\ \A r \in Routers : active[r] /\ ~quiet[r]
     /\ now < MaxTime => changes = 0 /\ \A t \in Tickers : at[t] = "idle"

MCInit ==
  /\ Init /\ scenario \in {"deaths", "alerts", "incidents"} /\ InScope
  /\ scenario = "incidents" => healthy[1] = healthy[2]
MCNext == Next /\ UNCHANGED scenario /\ InScope'

MCSpec ==
  /\ MCInit /\ [][MCNext]_MCvars
  /\ WF_MCvars(Tick("timer") /\ UNCHANGED scenario /\ InScope')
  /\ WF_MCvars(Advance /\ UNCHANGED scenario /\ InScope')
================================================================================
