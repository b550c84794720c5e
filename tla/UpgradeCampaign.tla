---------------------------- MODULE UpgradeCampaign ----------------------------
(***************************************************************************)
(* One upgrade campaign (upgrade_campaigns.py): a canary router first,     *)
(* then, when an administrator approves, the others one by one.  The       *)
(* campaign only creates jobs and copies their status into its members;    *)
(* the upgrade worker of ChangeJobs runs them.  Three actors synchronise   *)
(* the same rows: POST handlers, a campaign page in the thread pool and    *)
(* the fleet timer.  Each may raise or die between two transactions.       *)
(***************************************************************************)
EXTENDS Naturals

CONSTANTS Size,       \* the members are 1..Size, in the order of their ids
          Canary,     \* the member of the canary stage
          Actors,     \* "web", "timer" and any other, such as a "page"
          MaxJobs,    \* bound: jobs created for the campaign
          MaxAborts,  \* bound: how often an actor stops half-way
          MaxOthers   \* bound: other jobs that compete with the campaign's

ASSUME SizeAssumption == Size \in Nat \ {0}
ASSUME CanaryAssumption == Canary \in 1..Size
ASSUME ActorsAssumption == {"web", "timer"} \subseteq Actors
ASSUME MaxJobsAssumption == MaxJobs \in Nat
ASSUME MaxAbortsAssumption == MaxAborts \in Nat
ASSUME MaxOthersAssumption == MaxOthers \in Nat

Members == 1..Size
Jobs == 1..MaxJobs
NoJob == 0
NoMember == 0
Stage(m) == IF m = Canary THEN "canary" ELSE "rollout"
JobStates == {"absent", "queued", "running", "succeeded", "failed"}
MemberStates == {"pending", "queued", "running", "succeeded", "failed"}
Steps == {"idle", "write", "select", "mark", "create", "record", "canaries", "approve"}

VARIABLES job, owner,     \* the upgrade jobs: status, and for which member
          status, jobId,  \* upgrade_campaign_members
          campaign,       \* upgrade_campaigns.status
          elsewhere,      \* is the upgrade slot or the router held by others
          others,         \* how many of those there were
          at, stage, member, newJob,  \* each actor: its step and its locals
          seenJob, first, seen,       \* what the reads of _sync returned
          approving,      \* is the web actor inside approve_rollout
          aborts,
          approved        \* history: an administrator approved the rollout

table == <<job, owner>>
rows == <<status, jobId>>
held == <<elsewhere, others>>
locals == <<stage, member, newJob>>
reads == <<seenJob, first, seen>>
vars == <<table, rows, campaign, elsewhere, others, at, locals, reads, approving, aborts, approved>>

TypeOK ==
  /\ job \in [Jobs -> JobStates] /\ owner \in [Jobs -> Members \cup {NoMember}]
  /\ status \in [Members -> MemberStates] /\ jobId \in [Members -> Jobs \cup {NoJob}]
  /\ campaign \in {"canary_running", "rollout_running", "completed", "failed"}
  /\ others \in 0..MaxOthers
  /\ elsewhere \in BOOLEAN /\ approving \in BOOLEAN /\ approved \in BOOLEAN
  /\ at \in [Actors -> Steps]
  /\ stage \in [Actors -> {"canary", "rollout"}]
  /\ member \in [Actors -> Members \cup {NoMember}]
  /\ newJob \in [Actors -> Jobs \cup {NoJob}]
  /\ \A a \in Actors : /\ at[a] \in {"mark", "create", "record"} => member[a] # NoMember
                       /\ at[a] = "record" => newJob[a] # NoJob
  /\ seenJob \in [Actors -> [Members -> Jobs \cup {NoJob}]]
  /\ first \in [Actors -> Members \cup {NoMember}]
  /\ seen \in [Actors -> MemberStates]
  /\ aborts \in 0..MaxAborts

(* create_campaign has committed its rows and goes on to queue the canary. *)
Init ==
  /\ job = [j \in Jobs |-> "absent"] /\ owner = [j \in Jobs |-> NoMember]
  /\ status = [m \in Members |-> "pending"] /\ jobId = [m \in Members |-> NoJob]
  /\ campaign = "canary_running"
  /\ elsewhere = FALSE /\ others = 0
  /\ at = [a \in Actors |-> IF a = "web" THEN "select" ELSE "idle"]
  /\ stage = [a \in Actors |-> "canary"]
  /\ member = [a \in Actors |-> NoMember]
  /\ newJob = [a \in Actors |-> NoJob]
  /\ seenJob = [a \in Actors |-> [m \in Members |-> NoJob]]
  /\ first = [a \in Actors |-> NoMember]
  /\ seen = [a \in Actors |-> "pending"]
  /\ approving = FALSE /\ approved = FALSE
  /\ aborts = 0

-------------------------------------------------------------------------------
Goto(a, s) == at' = [at EXCEPT ![a] = s]
Nothing == [m \in Members |-> NoJob]
Forget(a) == /\ stage' = [stage EXCEPT ![a] = "canary"]
             /\ member' = [member EXCEPT ![a] = NoMember]
             /\ newJob' = [newJob EXCEPT ![a] = NoJob]
ForgetReads(a) == /\ seenJob' = [seenJob EXCEPT ![a] = Nothing]
                  /\ first' = [first EXCEPT ![a] = NoMember]
                  /\ seen' = [seen EXCEPT ![a] = "pending"]

(* After _sync, with or without _queue_stage: approve_rollout goes on.     *)
Return(a) == Goto(a, IF a = "web" /\ approving THEN "canaries" ELSE "idle")

Mapped(j) == IF job[j] \in {"succeeded", "failed"} THEN job[j] ELSE "running"

IsFirst(m, S) == m \in S /\ \A n \in S : m <= n
Linked == {m \in Members : jobId[m] # NoJob}

(* _sync, its reads: until the first UPDATE no transaction is open, so the *)
(* job ids and the status of the first job may be out of date when they    *)
(* are written back.                                                       *)
SyncRead(a) ==
  /\ at[a] = "idle"
  /\ a = "timer" => campaign # "completed"
  /\ seenJob' = [seenJob EXCEPT ![a] = jobId]
  /\ \/ /\ Linked = {}
        /\ UNCHANGED <<first, seen>>
     \/ \E m \in Members : /\ IsFirst(m, Linked)
                           /\ first' = [first EXCEPT ![a] = m]
                           /\ seen' = [seen EXCEPT ![a] = Mapped(jobId[m])]
  /\ Goto(a, "write")
  /\ IF a = "web" THEN approving' = TRUE ELSE UNCHANGED approving
  /\ UNCHANGED <<table, rows, campaign, held, locals, aborts, approved>>

Copied(a) ==
  [m \in Members |-> IF seenJob[a][m] = NoJob THEN status[m]
                     ELSE IF m = first[a] THEN seen[a]
                     ELSE Mapped(seenJob[a][m])]

\* Mutant: a campaign is complete when one stage is.
AllDoneAny(st) == \E m \in Members : st[m] = "succeeded"
AllDone(st) == \A m \in Members : st[m] = "succeeded"
AnyFailed(st) == \E m \in Members : st[m] = "failed"

Running == IF campaign = "canary_running" THEN "canary" ELSE "rollout"
\* Mutants: _sync restarts one of the two stages only.
WaitsRollout(st) ==
  /\ campaign = "rollout_running"
  /\ \E m \in Members : Stage(m) = Running /\ st[m] = "pending"
  /\ \A m \in Members : Stage(m) = Running => st[m] \notin {"queued", "running"}
WaitsCanary(st) == campaign = "canary_running" /\ st[Canary] = "pending"
Waits(st) ==
  /\ campaign \in {"canary_running", "rollout_running"}
  /\ \E m \in Members : Stage(m) = Running /\ st[m] = "pending"
  /\ \A m \in Members : Stage(m) = Running => st[m] \notin {"queued", "running"}

(* _sync, its transaction: members from jobs, the campaign from members.   *)
SyncWrite(a) ==
  /\ at[a] = "write"
  /\ status' = Copied(a)
  /\ campaign' = IF AllDone(Copied(a)) THEN "completed"
                 ELSE IF AnyFailed(Copied(a)) THEN "failed" ELSE campaign
  /\ IF ~AllDone(Copied(a)) /\ ~AnyFailed(Copied(a)) /\ Waits(Copied(a))
     THEN Goto(a, "select") /\ stage' = [stage EXCEPT ![a] = Running]
     ELSE Return(a) /\ UNCHANGED stage
  /\ ForgetReads(a)
  /\ UNCHANGED <<table, jobId, held, member, newJob, approving, aborts, approved>>

(* _queue_stage: the first pending member of the stage, and whether it is  *)
(* eligible and its target version confirmed.                              *)
Pending(a) == {m \in Members : Stage(m) = stage[a] /\ status[m] = "pending"}
Select(a) ==
  /\ at[a] = "select"
  /\ \/ Pending(a) = {} /\ Return(a) /\ Forget(a)
     \/ \E m \in Members :
          /\ IsFirst(m, Pending(a))
          /\ member' = [member EXCEPT ![a] = m]
          /\ \E s \in {"mark", "create"} : Goto(a, s)
          /\ UNCHANGED <<stage, newJob>>
  /\ UNCHANGED <<table, rows, campaign, held, reads, approving, aborts, approved>>

MarkFailed(a) ==
  /\ at[a] = "mark"
  /\ status' = [status EXCEPT ![member[a]] = "failed"]
  /\ Return(a) /\ Forget(a)
  /\ UNCHANGED <<table, jobId, campaign, held, reads, approving, aborts, approved>>

Busy == elsewhere \/ \E j \in Jobs : job[j] \in {"queued", "running"}

(* jobs.create; JOB_BUSY and ROUTER_BUSY end the attempt.                  *)
Create(a) ==
  /\ at[a] = "create"
  /\ \/ /\ Busy
        /\ Return(a) /\ Forget(a)
        /\ UNCHANGED table
     \/ /\ ~Busy
        /\ \E j \in Jobs :
             /\ job[j] = "absent" /\ \A i \in Jobs : i < j => job[i] # "absent"
             /\ job' = [job EXCEPT ![j] = "queued"]
             /\ owner' = [owner EXCEPT ![j] = member[a]]
             /\ newJob' = [newJob EXCEPT ![a] = j]
        /\ Goto(a, "record")
        /\ UNCHANGED <<stage, member>>
  /\ UNCHANGED <<rows, campaign, held, reads, approving, aborts, approved>>

(* The member row learns of its job in a transaction of its own.           *)
Record(a) ==
  /\ at[a] = "record"
  /\ status' = [status EXCEPT ![member[a]] = "queued"]
  /\ jobId' = [jobId EXCEPT ![member[a]] = newJob[a]]
  /\ Return(a) /\ Forget(a)
  /\ UNCHANGED <<table, campaign, held, reads, approving, aborts, approved>>

\* Mutant: approval without the canary gate.
CheckCanariesNever ==
  /\ at["web"] = "canaries"
  /\ IF campaign \notin {"failed", "completed"}
     THEN Goto("web", "approve") /\ UNCHANGED approving
     ELSE Goto("web", "idle") /\ approving' = FALSE
  /\ UNCHANGED <<table, rows, campaign, held, locals, reads, aborts, approved>>

(* approve_rollout after its _sync: the gate, on what the rows say now.    *)
CheckCanaries ==
  /\ at["web"] = "canaries"
  /\ IF status[Canary] = "succeeded" /\ campaign \notin {"failed", "completed"}
     THEN Goto("web", "approve") /\ UNCHANGED approving
     ELSE Goto("web", "idle") /\ approving' = FALSE
  /\ UNCHANGED <<table, rows, campaign, held, locals, reads, aborts, approved>>

Approve ==
  /\ at["web"] = "approve"
  /\ campaign' = "rollout_running"
  /\ approved' = TRUE /\ approving' = FALSE
  /\ Goto("web", "select") /\ stage' = [stage EXCEPT !["web"] = "rollout"]
  /\ UNCHANGED <<table, rows, held, member, newJob, reads, aborts>>

(* An actor raises, or its process dies.                                   *)
Abort(a) ==
  /\ at[a] # "idle"
  /\ aborts < MaxAborts
  /\ aborts' = aborts + 1
  /\ Goto(a, "idle") /\ Forget(a) /\ ForgetReads(a)
  /\ IF a = "web" THEN approving' = FALSE ELSE UNCHANGED approving
  /\ UNCHANGED <<table, rows, campaign, held, approved>>

(* The upgrade worker, which runs in the timer's process before sync_all.  *)
(* A queued job starts when Guardian has seen its router healthy, is       *)
(* cancelled when the router was disabled or retired, and waits otherwise. *)
JobStarts(j) ==
  /\ at["timer"] = "idle" /\ job[j] = "queued"
  /\ job' = [job EXCEPT ![j] = "running"]
  /\ UNCHANGED <<owner, rows, campaign, held, at, locals, reads, approving, aborts, approved>>
JobCancelled(j) ==
  /\ at["timer"] = "idle" /\ job[j] = "queued"
  /\ job' = [job EXCEPT ![j] = "failed"]
  /\ UNCHANGED <<owner, rows, campaign, held, at, locals, reads, approving, aborts, approved>>
JobEnds(j) ==
  /\ at["timer"] = "idle" /\ job[j] = "running"
  /\ \E s \in {"succeeded", "failed"} : job' = [job EXCEPT ![j] = s]
  /\ UNCHANGED <<owner, rows, campaign, held, at, locals, reads, approving, aborts, approved>>

(* Another upgrade of the fleet, or another change of the router, takes    *)
(* the slot for a while.                                                   *)
Take ==
  /\ ~elsewhere /\ others < MaxOthers
  /\ elsewhere' = TRUE /\ others' = others + 1
  /\ UNCHANGED <<table, rows, campaign, at, locals, reads, approving, aborts, approved>>
Release ==
  /\ elsewhere
  /\ elsewhere' = FALSE
  /\ UNCHANGED <<table, rows, campaign, others, at, locals, reads, approving, aborts, approved>>

-------------------------------------------------------------------------------
Act(a) == SyncWrite(a) \/ Select(a) \/ MarkFailed(a) \/ Create(a) \/ Record(a)
Step(a) == SyncRead(a) \/ Act(a) \/ Abort(a)

Next ==
  \/ \E a \in Actors : Step(a)
  \/ CheckCanaries \/ Approve
  \/ \E j \in Jobs : JobStarts(j) \/ JobCancelled(j) \/ JobEnds(j)
  \/ Take \/ Release

(* A live actor runs on and the timer comes round.  A job that has started *)
(* comes to its verdict (UpgradesEnd of ChangeJobs); the fairness is       *)
(* strong because the verdict is given by the timer's process, between two *)
(* of its synchronisations.  Nothing is assumed of a job that is queued,   *)
(* nor of what others do with the upgrade slot.                            *)
Fairness ==
  /\ \A a \in Actors : WF_vars(Act(a))
  /\ WF_vars(CheckCanaries \/ Approve)
  /\ WF_vars(SyncRead("timer"))
  /\ SF_vars(\E j \in Jobs : JobEnds(j))

Spec == Init /\ [][Next]_vars /\ Fairness

-------------------------------------------------------------------------------
(* Properties.                                                             *)

Upgraded(m) == \E j \in Jobs : owner[j] = m /\ job[j] = "succeeded"

(* No router of the rollout is given an upgrade before the canary's has    *)
(* succeeded and an administrator has approved, whichever actor queues it  *)
(* and however old its reads are.                                          *)
CanaryFirst ==
  \A j \in Jobs : owner[j] \notin {NoMember, Canary} => Upgraded(Canary) /\ approved

(* A campaign that reports completion has upgraded every member.           *)
CompletedMeansUpgraded ==
  campaign = "completed" => \A m \in Members : Upgraded(m)

(* A queued upgrade waits for as long as Guardian does not see its router  *)
(* healthy, unless the router is disabled or retired.  Here: no upgrade, of*)
(* the campaign or of others, waits in the queue for ever.                 *)
QueueMoves ==
  /\ []<>(\A j \in Jobs : job[j] # "queued")
  /\ []<>~elsewhere

(* "If the immediate queue attempt fails, the scheduler sees               *)
(* canary_running + pending and retries" (line 182), and the like for the  *)
(* rollout (line 236): where the queue moves, the canary stage comes to    *)
(* its gate or to a failure and an approved rollout to its end, whatever   *)
(* attempt was refused or died.                                            *)
CanaryComesToGate ==
  QueueMoves =>
    (campaign = "canary_running" ~> (status[Canary] \in {"succeeded", "failed"}))
RolloutEnds ==
  QueueMoves => (campaign = "rollout_running" ~> campaign \in {"completed", "failed"})

(* What the rows and the locals say of the jobs.                           *)
Truthful(a) ==
  /\ first[a] # NoMember /\ seen[a] = "succeeded" => Upgraded(first[a])
  /\ \A m \in Members : seenJob[a][m] # NoJob => owner[seenJob[a][m]] = m
  /\ at[a] = "record" => owner[newJob[a]] = member[a]
  /\ at[a] \in {"mark", "create", "record"} => Stage(member[a]) = stage[a]
  /\ at[a] \in {"select", "mark", "create", "record"} /\ stage[a] = "rollout" =>
       approved /\ Upgraded(Canary)

RowsTrue ==
  /\ \A m \in Members : /\ status[m] = "succeeded" => Upgraded(m)
                        /\ jobId[m] # NoJob => owner[jobId[m]] = m
  /\ \A j \in Jobs : owner[j] = NoMember <=> job[j] = "absent"
GateTrue ==
  /\ at["web"] = "approve" => Upgraded(Canary)
  /\ campaign = "rollout_running" => approved /\ Upgraded(Canary)
IInv == /\ CanaryFirst /\ CompletedMeansUpgraded /\ RowsTrue /\ GateTrue
        /\ \A a \in Actors : Truthful(a)
===============================================================================
