---- MODULE PostChangeChecks ----
(***************************************************************************)
(* Maintenance automation: after a change job that succeeded a pass claims *)
(* the job, runs the read-only checks and files one line of maintenance    *)
(* history.  Passes may overlap (the timer's and one started by hand) and  *)
(* die; a claim that a dead pass left is dropped after a while.            *)
(***************************************************************************)
EXTENDS Naturals, FiniteSets

CONSTANTS
  Jobs,         \* router_jobs, by id
  Kinds,        \* the kind of each job
  Passes,       \* the processes that may run the automation
  Limit,        \* jobs one pass looks at (20 in the code)
  MaxCrashes    \* bound: deaths of a pass

ASSUME ChecksBounds == Jobs \subseteq Nat \ {0} /\ Limit \in Nat \ {0} /\ MaxCrashes \in Nat

VARIABLES
  done,         \* jobs with status succeeded
  runs,         \* maintenance_automation_runs: the status of each job's row
  old,          \* running rows whose claim is older than the window
  history,      \* lines of router_maintenance_history per job
  config,       \* maintenance_automation_settings
  passes,       \* the jobs a pass still has to look at, the settings it read, its claim
  crashes

checksVars == <<done, runs, old, history, config, passes, crashes>>

Resting == [todo |-> {}, config |-> "off", claimed |-> 0]
Configs == {"off", "upgrades", "all"}
Settled == {"skipped", "completed", "partial"}

Eligible(kind, c) ==
  \/ c = "all" /\ kind # "backup"
  \/ c = "upgrades" /\ kind \in {"upgrade", "routerboot"}

Succeed(j) ==
  /\ j \notin done
  /\ done' = done \union {j}
  /\ UNCHANGED <<runs, old, history, config, passes, crashes>>

Save(c) ==
  /\ config # c
  /\ config' = c
  /\ UNCHANGED <<done, runs, old, history, passes, crashes>>

(* Two hours, far beyond what the checks of one job may take. *)
Elapse(j) ==
  /\ runs[j] = "running" /\ j \notin old
  /\ \A p \in Passes : passes[p].claimed # j
  /\ old' = old \union {j}
  /\ UNCHANGED <<done, runs, history, config, passes, crashes>>

(* Claims that dead passes left, and the mutant that leaves them alone. *)
ExpiredNever == {}
Expired == old

(* Jobs are taken by their ids, the smallest first. *)
FirstFew(S) == {j \in S : Cardinality({k \in S : k < j}) < Limit}
Turn(p, j) == j \in passes[p].todo /\ \A k \in passes[p].todo : j <= k
Rest(p) == IF p.todo = {} THEN Resting ELSE p

(* Stale claims are deleted first, whether the automation is enabled or not. *)
Begin(p) ==
  /\ passes[p] = Resting
  /\ LET gone == [j \in Jobs |-> IF j \in Expired THEN "none" ELSE runs[j]]
         pending == {j \in done : gone[j] = "none"}
     IN /\ runs' = gone
        /\ passes' = IF config = "off" THEN passes
                     ELSE [passes EXCEPT ![p] = Rest([todo |-> FirstFew(pending), config |-> config, claimed |-> 0])]
  /\ old' = old \ Expired
  /\ UNCHANGED <<done, history, config, crashes>>

Done(p, j) ==
  passes' = [passes EXCEPT ![p] = Rest([passes[p] EXCEPT !.todo = @ \ {j}, !.claimed = 0])]

(* The row is taken over whoever has it (a mutant). *)
ClaimAnyway(p) ==
  /\ passes[p].claimed = 0
  /\ \E j \in Jobs : /\ Turn(p, j)
                     /\ runs' = [runs EXCEPT ![j] = "running"]
                     /\ passes' = [passes EXCEPT ![p].claimed = j]
  /\ UNCHANGED <<done, old, history, config, crashes>>

(* INSERT OR IGNORE: whoever inserts the row has the job. *)
Claim(p) ==
  /\ passes[p].claimed = 0
  /\ \E j \in Jobs :
       /\ Turn(p, j)
       /\ \/ /\ runs[j] = "none"
             /\ runs' = [runs EXCEPT ![j] = "running"]
             /\ passes' = [passes EXCEPT ![p].claimed = j]
          \/ /\ runs[j] # "none"
             /\ Done(p, j) /\ UNCHANGED runs
  /\ UNCHANGED <<done, old, history, config, crashes>>

Skip(p) ==
  LET j == passes[p].claimed
  IN /\ j # 0 /\ ~Eligible(Kinds[j], passes[p].config)
     /\ runs' = IF runs[j] = "running" THEN [runs EXCEPT ![j] = "skipped"] ELSE runs
     /\ Done(p, j)
     /\ UNCHANGED <<done, old, history, config, crashes>>

(* The checks, each best effort; the row and the line of history are one transaction. *)
Check(p) ==
  LET j == passes[p].claimed
  IN /\ j # 0 /\ Eligible(Kinds[j], passes[p].config)
     /\ \E s \in {"completed", "partial"} :
          runs' = IF runs[j] = "running" THEN [runs EXCEPT ![j] = s] ELSE runs
     /\ history' = [history EXCEPT ![j] = @ + 1]
     /\ Done(p, j)
     /\ UNCHANGED <<done, old, config, crashes>>

Crash(p) ==
  /\ passes[p] # Resting /\ crashes < MaxCrashes
  /\ passes' = [passes EXCEPT ![p] = Resting]
  /\ crashes' = crashes + 1
  /\ UNCHANGED <<done, runs, old, history, config>>

ChecksInit ==
  /\ done = {} /\ old = {}
  /\ runs = [j \in Jobs |-> "none"]
  /\ history = [j \in Jobs |-> 0]
  /\ config \in Configs
  /\ passes = [p \in Passes |-> Resting]
  /\ crashes = 0

PassStep(p) == Begin(p) \/ Claim(p) \/ Skip(p) \/ Check(p)

ChecksNext ==
  \/ \E j \in Jobs : Succeed(j) \/ Elapse(j)
  \/ \E c \in Configs : Save(c)
  \/ \E p \in Passes : PassStep(p) \/ Crash(p)

ChecksSpec == ChecksInit /\ [][ChecksNext]_checksVars

(***************************************************************************)
(* Properties.                                                             *)
(***************************************************************************)
(* The history has one line for every job that was checked and none for    *)
(* any other, however passes overlap, die and take over dead claims.       *)
VerifiedOnce ==
  \A j \in Jobs : history[j] = IF runs[j] \in {"completed", "partial"} THEN 1 ELSE 0

ChecksTypeOK ==
  /\ done \subseteq Jobs
  /\ runs \in [Jobs -> {"none", "running"} \union Settled]
  /\ old \subseteq Jobs
  /\ history \in [Jobs -> Nat]
  /\ config \in Configs
  /\ passes \in [Passes -> [todo : SUBSET Jobs, config : Configs, claimed : Jobs \union {0}]]
  /\ crashes \in 0..MaxCrashes

(* Inductive: a pass that has claimed a job is the only one, and the row   *)
(* that tells so is neither settled nor old.                               *)
ClaimsHeld ==
  /\ \A p \in Passes : LET j == passes[p].claimed IN j # 0 => runs[j] = "running" /\ j \notin old
  /\ \A p, q \in Passes : passes[p].claimed = passes[q].claimed /\ passes[p].claimed # 0 => p = q
  /\ \A j \in old : runs[j] = "running"
ChecksInv == ClaimsHeld /\ VerifiedOnce

(* Every job that succeeded is looked at, whatever dies: again and again   *)
(* none is left, unless the automation is switched off.                    *)
ChangesVerified == []<>(config = "off" \/ \A j \in done : runs[j] \in Settled)
====
