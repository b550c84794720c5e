---- MODULE BackgroundWork ----
(***************************************************************************)
(* The three kinds of background work with claims that dead processes may  *)
(* leave behind.  They share no state: a behaviour follows one of them.    *)
(***************************************************************************)
EXTENDS AnalysisQueue, PostChangeChecks, FleetBackups

VARIABLE part

vars == <<part, queueVars, checksVars, fleetVars>>

Analysing == part = "analysis" /\ UNCHANGED <<part, checksVars, fleetVars>>
Checking == part = "checks" /\ UNCHANGED <<part, queueVars, fleetVars>>
BackingUp == part = "backups" /\ UNCHANGED <<part, queueVars, checksVars>>

Init ==
  /\ part \in {"analysis", "checks", "backups"}
  /\ QueueInit /\ ChecksInit /\ FleetInit
  /\ part # "checks" => config = "off"
  /\ part # "backups" => plan = "off"

Next ==
  \/ Analysing /\ QueueNext
  \/ Checking /\ ChecksNext
  \/ BackingUp /\ FleetNext

(* The timers start the worker, the automation and the tick again and      *)
(* again, processes go on and time passes; operators and deaths need not   *)
(* come.  What belongs to different parts is never enabled together and    *)
(* shares a condition.                                                     *)
ProcessesGoOn ==
  \/ Analysing /\ Work
  \/ BackingUp /\ (Tick \/ Mark \/ RunStep("timer"))
TimePasses ==
  \/ Analysing /\ \E i \in DOMAIN requests : Age(i)
  \/ Checking /\ \E j \in Jobs : Elapse(j)
  \/ BackingUp /\ \E j \in DOMAIN jobs : Abandon(j)

Fairness ==
  /\ WF_vars(ProcessesGoOn) /\ WF_vars(TimePasses)
  /\ WF_vars(BackingUp /\ RunStep("page"))
  /\ \A p \in Passes : WF_vars(Checking /\ PassStep(p))

Spec == Init /\ [][Next]_vars /\ Fairness
====
