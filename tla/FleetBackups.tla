---- MODULE FleetBackups ----
(***************************************************************************)
(* The nightly backup of the fleet and the analysis after it.  The timer's *)
(* tick and the page's buttons run fleet jobs; a job asks its routers in   *)
(* parallel, a backup only with the router's reservation (ChangeJobs), and *)
(* collects the results; a tick fails the jobs that dead processes left    *)
(* and starts the backup that is due and not yet marked as done.           *)
(***************************************************************************)
EXTENDS Naturals, Sequences, FiniteSets, Functions

CONSTANTS
  Fleet,        \* the enabled routers
  MaxDays,      \* bound: days that pass
  MaxJobs,      \* bound: rows of fleet_jobs
  MaxKills      \* bound: deaths of a process

ASSUME FleetBounds == {MaxDays, MaxJobs, MaxKills} \subseteq Nat /\ IsFiniteSet(Fleet)

VARIABLES
  day, evening,   \* today, and whether backup_time has passed
  marked,         \* fleet_settings.last_backup_date, 0 for never
  plan,           \* what fleet_settings enable
  jobs,           \* fleet_jobs with their results
  abandoned,      \* open jobs older than the limit
  runner,         \* where the timer's and the page's process are
  reserved,       \* who has reserved each router
  kills

fleetVars == <<day, evening, marked, plan, jobs, abandoned, runner, reserved, kills>>

Runners == {"timer", "page"}
Plans == {"off", "backups", "analysis too"}
NoStages == [r \in {} |-> "waiting"]
AtRest == [at |-> "off", kind |-> "backup", job |-> 0, today |-> 0, stage |-> NoStages, analyse |-> FALSE]
OpenJob(j) == jobs[j].status \in {"queued", "running"}

(***************************************************************************)
(* Time, and what recovery does.                                           *)
(***************************************************************************)
Evening ==
  /\ ~evening /\ evening' = TRUE
  /\ UNCHANGED <<day, marked, plan, jobs, abandoned, runner, reserved, kills>>
Midnight ==
  /\ evening /\ day < MaxDays
  /\ day' = day + 1 /\ evening' = FALSE
  /\ UNCHANGED <<marked, plan, jobs, abandoned, runner, reserved, kills>>
Abandon(j) ==
  /\ OpenJob(j) /\ j \notin abandoned
  /\ \A w \in Runners : runner[w].job # j
  /\ abandoned' = abandoned \union {j}
  /\ UNCHANGED <<day, evening, marked, plan, jobs, runner, reserved, kills>>
(* The recovery of router jobs frees what a dead process had reserved. *)
Free(r) ==
  /\ reserved[r] = "the dead"
  /\ reserved' = [reserved EXCEPT ![r] = "nobody"]
  /\ UNCHANGED <<day, evening, marked, plan, jobs, abandoned, runner, kills>>

(***************************************************************************)
(* scheduled_tick: stale jobs first, then the backup if it is due.         *)
(***************************************************************************)
(* Only what had started is recovered (a mutant). *)
RecoveredRunning ==
  [j \in DOMAIN jobs |-> IF j \in abandoned /\ jobs[j].status = "running"
                         THEN [jobs[j] EXCEPT !.status = "failed"] ELSE jobs[j]]
Recovered ==
  [j \in DOMAIN jobs |-> IF j \in abandoned /\ OpenJob(j) THEN [jobs[j] EXCEPT !.status = "failed"] ELSE jobs[j]]
Due == plan # "off" /\ evening /\ marked # day

Begun == [AtRest EXCEPT !.at = "create", !.today = day, !.analyse = plan = "analysis too"]
(* The day is marked when its backup starts (a mutant). *)
TickMarks ==
  /\ runner["timer"] = AtRest
  /\ jobs' = Recovered /\ abandoned' = {}
  /\ IF Due THEN /\ runner' = [runner EXCEPT !["timer"] = Begun]
                 /\ marked' = day
            ELSE UNCHANGED <<runner, marked>>
  /\ UNCHANGED <<day, evening, plan, reserved, kills>>
Tick ==
  /\ runner["timer"] = AtRest
  /\ jobs' = Recovered /\ abandoned' = {}
  /\ runner' = IF Due THEN [runner EXCEPT !["timer"] = Begun] ELSE runner
  /\ UNCHANGED <<day, evening, marked, plan, reserved, kills>>

Press(kind) ==
  /\ runner["page"] = AtRest
  /\ runner' = [runner EXCEPT !["page"] = [AtRest EXCEPT !.at = "create", !.kind = kind]]
  /\ UNCHANGED <<day, evening, marked, plan, jobs, abandoned, reserved, kills>>

(***************************************************************************)
(* run_backup_job and _run_read_job.                                       *)
(***************************************************************************)
(* A read-only job leaves out the routers under change, a backup asks them all. *)
Asked(kind) == IF kind = "backup" THEN Fleet ELSE {r \in Fleet : reserved[r] = "nobody"}

Create(w) ==
  /\ runner[w].at = "create" /\ Len(jobs) < MaxJobs
  /\ jobs' = Append(jobs, [kind |-> runner[w].kind, status |-> "queued", for |-> runner[w].today,
                           total |-> 0, results |-> NoStages])
  /\ runner' = [runner EXCEPT ![w].at = "start", ![w].job = Len(jobs) + 1,
                              ![w].stage = [r \in Asked(runner[w].kind) |-> "waiting"]]
  /\ UNCHANGED <<day, evening, marked, plan, abandoned, reserved, kills>>

(* The bound is reached: the process gives up. *)
NoRow(w) ==
  /\ runner[w].at = "create" /\ Len(jobs) = MaxJobs
  /\ runner' = [runner EXCEPT ![w] = AtRest]
  /\ UNCHANGED <<day, evening, marked, plan, jobs, abandoned, reserved, kills>>

Start(w) ==
  /\ runner[w].at = "start"
  /\ jobs' = [jobs EXCEPT ![runner[w].job].status = "running",
                          ![runner[w].job].total = Cardinality(DOMAIN runner[w].stage)]
  /\ runner' = [runner EXCEPT ![w].at = "ask"]
  /\ UNCHANGED <<day, evening, marked, plan, abandoned, reserved, kills>>

(* The result of a thread that is through; the main thread files it at once. *)
File(w, r, s) ==
  /\ runner' = [runner EXCEPT ![w].stage[r] = "filed"]
  /\ jobs' = [jobs EXCEPT ![runner[w].job].results =
                            [q \in DOMAIN @ \union {r} |-> IF q = r THEN s ELSE @[q]]]

(* A thread of the pool takes a router; for a backup a reserved one is an error at once. *)
Take(w, r) ==
  /\ runner[w].at = "ask" /\ runner[w].stage[r] = "waiting"
  /\ \/ /\ runner[w].kind = "analysis"
        /\ runner' = [runner EXCEPT ![w].stage[r] = "asking"]
        /\ UNCHANGED <<jobs, reserved>>
     \/ /\ runner[w].kind = "backup" /\ reserved[r] = "nobody"
        /\ runner' = [runner EXCEPT ![w].stage[r] = "asking"]
        /\ reserved' = [reserved EXCEPT ![r] = w]
        /\ UNCHANGED jobs
     \/ /\ runner[w].kind = "backup" /\ reserved[r] # "nobody"
        /\ File(w, r, "error")
        /\ UNCHANGED reserved
  /\ UNCHANGED <<day, evening, marked, plan, abandoned, kills>>

Reply(w, r) ==
  /\ runner[w].at = "ask" /\ runner[w].stage[r] = "asking"
  /\ \E s \in {"success", "error"} : File(w, r, s)
  /\ reserved' = IF runner[w].kind = "backup" THEN [reserved EXCEPT ![r] = "nobody"] ELSE reserved
  /\ UNCHANGED <<day, evening, marked, plan, abandoned, kills>>

FinishJob(w) ==
  /\ runner[w].at = "ask" /\ Range(runner[w].stage) \subseteq {"filed"}
  /\ LET j == runner[w].job
     IN jobs' = [jobs EXCEPT ![j].status = IF "error" \in Range(jobs[j].results) THEN "completed_with_errors" ELSE "success",
                             ![j].total = Cardinality(DOMAIN jobs[j].results)]
  /\ runner' = [runner EXCEPT ![w] = IF w = "timer" /\ @.kind = "backup"
                                       THEN [runner[w] EXCEPT !.at = "mark"] ELSE AtRest]
  /\ UNCHANGED <<day, evening, marked, plan, abandoned, reserved, kills>>

(* The day the tick read, not the day it is by now; the analysis comes after. *)
Mark ==
  /\ runner["timer"].at = "mark"
  /\ marked' = runner["timer"].today
  /\ runner' = [runner EXCEPT !["timer"] =
                  IF @.analyse THEN [AtRest EXCEPT !.at = "create", !.kind = "analysis"] ELSE AtRest]
  /\ UNCHANGED <<day, evening, plan, jobs, abandoned, reserved, kills>>

Kill(w) ==
  /\ runner[w] # AtRest /\ kills < MaxKills
  /\ runner' = [runner EXCEPT ![w] = AtRest]
  /\ reserved' = [r \in Fleet |-> IF reserved[r] = w THEN "the dead" ELSE reserved[r]]
  /\ kills' = kills + 1
  /\ UNCHANGED <<day, evening, marked, plan, jobs, abandoned>>

FleetInit ==
  /\ day = 1 /\ evening = FALSE /\ marked = 0
  /\ plan \in Plans
  /\ jobs = <<>> /\ abandoned = {}
  /\ runner = [w \in Runners |-> AtRest]
  /\ reserved = [r \in Fleet |-> "nobody"]
  /\ kills = 0

Visit(w) == \E r \in DOMAIN runner[w].stage : Take(w, r) \/ Reply(w, r)
RunStep(w) == Create(w) \/ NoRow(w) \/ Start(w) \/ Visit(w) \/ FinishJob(w)

FleetNext ==
  \/ Evening \/ Midnight \/ Tick \/ Mark
  \/ \E j \in DOMAIN jobs : Abandon(j)
  \/ \E r \in Fleet : Free(r)
  \/ \E kind \in {"backup", "analysis"} : Press(kind)
  \/ \E w \in Runners : RunStep(w) \/ Kill(w)

FleetSpec == FleetInit /\ [][FleetNext]_fleetVars

(***************************************************************************)
(* Properties.                                                             *)
(***************************************************************************)
Ended == {"success", "completed_with_errors"}

(* A day is marked as backed up only when one job of that day came to its  *)
(* end with a result for every router, however ticks, midnights and deaths *)
(* interleave: a backup cut short is run again.  An error counts as the    *)
(* result of a router: a marked day is one whose job was run to its end,   *)
(* not one on which every router was saved.                                *)
DayIsBackedUp ==
  marked # 0 =>
    \E j \in DOMAIN jobs :
      /\ jobs[j].kind = "backup" /\ jobs[j].for = marked
      /\ jobs[j].status \in Ended
      /\ DOMAIN jobs[j].results = Fleet

Partial(S) == UNION {[D -> S] : D \in SUBSET Fleet}
JobRows ==
  [kind : {"backup", "analysis"}, status : Ended \union {"queued", "running", "failed"},
   for : Nat, total : Nat, results : Partial({"success", "error"})]
Processes ==
  [at : {"off", "create", "start", "ask", "mark"}, kind : {"backup", "analysis"}, job : Nat,
   today : Nat, stage : Partial({"waiting", "asking", "filed"}), analyse : BOOLEAN]
FleetTypeOK ==
  /\ day \in Nat /\ evening \in BOOLEAN /\ marked \in Nat /\ plan \in Plans
  /\ jobs \in Seq(JobRows) /\ runner \in [Runners -> Processes]
  /\ abandoned \subseteq DOMAIN jobs
  /\ reserved \in [Fleet -> {"nobody", "the dead"} \union Runners]
  /\ kills \in 0..MaxKills

(* Inductive: what a process does is done to a job of its own, which is    *)
(* not abandoned while it lives and has the results that were filed.       *)
Answered(j, d) ==
  /\ jobs[j].kind = "backup" /\ jobs[j].for = d
  /\ jobs[j].status \in Ended /\ DOMAIN jobs[j].results = Fleet
AtWork(w) ==
  LET r == runner[w]
  IN /\ r.job \in DOMAIN jobs \ abandoned
     /\ jobs[r.job].kind = r.kind /\ jobs[r.job].for = r.today
     /\ r.kind = "backup" => DOMAIN r.stage = Fleet
     /\ r.at = "start" => jobs[r.job].status = "queued" /\ DOMAIN jobs[r.job].results = {}
                           /\ \A q \in DOMAIN r.stage : r.stage[q] = "waiting"
     /\ r.at = "ask" => jobs[r.job].status = "running"
                         /\ DOMAIN jobs[r.job].results = {q \in DOMAIN r.stage : r.stage[q] = "filed"}
     /\ r.at = "mark" => w = "timer" /\ Answered(r.job, r.today)
Sound(w) == IF runner[w].at \in {"start", "ask", "mark"} THEN AtWork(w) ELSE runner[w].job = 0
Apart == \A v, w \in Runners : runner[v].job = runner[w].job /\ runner[v].job # 0 => v = w
FleetInv == (\A w \in Runners : Sound(w)) /\ Apart /\ DayIsBackedUp

(* No fleet job is shown as under way for ever, whoever died with it:      *)
(* again and again none is.                                                *)
FleetJobsEnd == []<>(\A j \in DOMAIN jobs : ~OpenJob(j))
====
