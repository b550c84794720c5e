------------------------------ MODULE ChangeJobs ------------------------------
(***************************************************************************)
(* The change engine of Tikcentral: the reservations of app/jobs.py, the   *)
(* transactions of app/change_control.py, the handlers that change a       *)
(* router (profile switch, rescue port, web SSH, normalisation, Guardian   *)
(* repair, backup), and the upgrade worker of app/operations.py that the   *)
(* fleet timer runs.  One action is one database transaction or one router *)
(* command; a process may raise between two of them, or die.               *)
(*                                                                         *)
(* A request names everything it creates: job[q] is the row of router_jobs *)
(* it inserts and trans[q] the row of change_transactions it opens.        *)
(***************************************************************************)
EXTENDS Naturals, FiniteSets

CONSTANTS Routers,      \* the managed routers
          Requests,     \* what operators, the timer and the campaigns ask for
          NoRequest,    \* the worker's hand when it holds no job
          MaxCrashes    \* bound: how many process deaths a behaviour has

ASSUME NoRequestAssumption == NoRequest \notin Requests
ASSUME MaxCrashesAssumption == MaxCrashes \in Nat

(* change: switch_profile, enable_rescue, disable_rescue.  scoped: web SSH *)
(* and normalisation, inside jobs.operation.  repair: Guardian repair.     *)
(* backup: a fleet backup.  upgrade: queued here, executed by the worker.  *)
Flows == {"change", "scoped", "repair", "backup", "upgrade"}

Active == {"queued", "running", "verifying"}
Final == {"succeeded", "failed"}

Steps == {"new", "create", "run", "begin", "attach", "apply", "verifying",
          "verify", "commit", "succeed", "failJob", "failTx", "done"}

WorkerSteps == {"idle", "pick", "claim", "begin", "save", "dispatch", "confirm",
                "sample", "check", "succeed", "commit", "failTx", "failJob"}

VARIABLES flow, router,   \* what each request asks, and of which router
          job,            \* status in router_jobs, "absent" before the INSERT
          trans, linked,  \* status in change_transactions; is its job_id set
          savedTx, checks, \* the payload of an upgrade job: transaction_id,
                          \* healthy_checks
          pc,             \* where the handler of each request stands
          lane, held,     \* where the fleet timer stands, and the job it holds
          overdue,        \* jobs whose age has passed the limit for them
          crashes,
          sent,           \* history: change commands given to the router
          steady,         \* history: healthy samples since the last lost one
          unwritten       \* history: failures the database did not take

vars == <<flow, router, job, trans, linked, savedTx, checks, pc, lane, held,
          overdue, crashes, sent, steady, unwritten>>

request == <<flow, router>>
transaction == <<trans, linked>>
payload == <<savedTx, checks>>
worker == <<lane, held>>
histories == <<sent, steady, unwritten>>

TypeOK ==
  /\ flow \in [Requests -> Flows]
  /\ router \in [Requests -> Routers]
  /\ job \in [Requests -> {"absent"} \cup Active \cup Final]
  /\ trans \in [Requests -> {"absent", "running"} \cup Final]
  /\ linked \in [Requests -> BOOLEAN]
  /\ savedTx \in [Requests -> BOOLEAN]
  /\ checks \in [Requests -> 0..2]
  /\ pc \in [Requests -> Steps]
  /\ lane \in WorkerSteps
  /\ held \in Requests \cup {NoRequest}
  /\ held = NoRequest <=> lane \in {"idle", "pick"}
  /\ overdue \subseteq Requests
  /\ crashes \in 0..MaxCrashes
  /\ sent \in [Requests -> Nat]
  /\ steady \in [Requests -> 0..2]
  /\ unwritten \subseteq Requests

Init ==
  /\ flow \in [Requests -> Flows]
  /\ router \in [Requests -> Routers]
  /\ job = [q \in Requests |-> "absent"]
  /\ trans = [q \in Requests |-> "absent"]
  /\ linked = [q \in Requests |-> FALSE]
  /\ savedTx = [q \in Requests |-> FALSE]
  /\ checks = [q \in Requests |-> 0]
  /\ pc = [q \in Requests |-> "new"]
  /\ lane = "idle"
  /\ held = NoRequest
  /\ overdue = {}
  /\ crashes = 0
  /\ sent = [q \in Requests |-> 0]
  /\ steady = [q \in Requests |-> 0]
  /\ unwritten = {}

-------------------------------------------------------------------------------
(* The operations of app/jobs.py and app/change_control.py on one row.     *)

\* Mutant: the status list of the busy check without 'verifying'.
RouterBusyUntilVerifying(r) ==
  \E q \in Requests : router[q] = r /\ job[q] \in Active \ {"verifying"}

RouterBusy(r) == \E q \in Requests : router[q] = r /\ job[q] \in Active
UpgradeActive == \E q \in Requests : flow[q] = "upgrade" /\ job[q] \in Active

MayReserve(q) ==
  /\ ~RouterBusy(router[q])
  /\ flow[q] = "upgrade" => ~UpgradeActive

Moves == {<<"queued", "running">>, <<"queued", "failed">>,
          <<"running", "verifying">>, <<"running", "succeeded">>, <<"running", "failed">>,
          <<"verifying", "succeeded">>, <<"verifying", "failed">>}

CanMove(q, s) == job[q] # "absent" /\ (job[q] = s \/ <<job[q], s>> \in Moves)
Transition(q, s) == CanMove(q, s) /\ job' = [job EXCEPT ![q] = s]

OpenTrans(q, link) ==
  /\ trans' = [trans EXCEPT ![q] = "running"]
  /\ linked' = [linked EXCEPT ![q] = link]
Finish(q) ==
  /\ trans[q] = "running"
  /\ trans' = [trans EXCEPT ![q] = "succeeded"]
  /\ UNCHANGED linked
\* Mutant: change_control.fail without its check of the status.
FailAnyway(q) == trans' = [trans EXCEPT ![q] = "failed"] /\ UNCHANGED linked
Fail(q) ==
  /\ trans' = IF trans[q] = "running" THEN [trans EXCEPT ![q] = "failed"] ELSE trans
  /\ UNCHANGED linked

-------------------------------------------------------------------------------
(* The handler of a request, run by a web, timer or command-line process.  *)

HandlerAt(q, s) == pc[q] = s
HandlerGoto(q, s) == pc' = [pc EXCEPT ![q] = s]
HandlerOnly ==
  UNCHANGED <<request, payload, worker, overdue, crashes, steady, unwritten>>

(* Where a failure is not cleaned up, and where it comes after the body of *)
(* jobs.operation or before it, inside the caller's own try.               *)
Unguarded == {<<"change", "create">>, <<"change", "run">>, <<"change", "begin">>,
              <<"change", "failJob">>, <<"scoped", "create">>, <<"scoped", "run">>,
              <<"scoped", "failTx">>, <<"repair", "begin">>, <<"repair", "failTx">>,
              <<"backup", "create">>, <<"backup", "run">>, <<"backup", "succeed">>,
              <<"backup", "failJob">>, <<"upgrade", "create">>}
AfterScope == {<<"scoped", "succeed">>, <<"repair", "create">>, <<"repair", "run">>,
               <<"repair", "succeed">>}

(* What the except clauses of a handler still do when step s raises.  A    *)
(* failure before the try (create, running, begin of switch_profile and of *)
(* jobs.operation) is not cleaned up: the job stays active.                *)
Cleanup(q, s) ==
  IF <<flow[q], s>> \in Unguarded THEN "done"
  ELSE IF flow[q] = "change" THEN IF s = "failTx" THEN "failJob" ELSE "failTx"
  ELSE IF s = "failJob" \/ <<flow[q], s>> \in AfterScope THEN "failTx"
  ELSE "failJob"

(* _require_router, require_management and authorize_mutation only read,   *)
(* and the router may be disabled, retired or reached again at any moment: *)
(* a request they refuse never starts.  repair_router opens its            *)
(* transaction first and reserves the router afterwards.                   *)
Start(q) ==
  /\ HandlerAt(q, "new")
  /\ HandlerGoto(q, IF flow[q] = "repair" THEN "begin" ELSE "create")
  /\ UNCHANGED <<job, transaction, sent>> /\ HandlerOnly

(* jobs.create: one BEGIN IMMEDIATE transaction, so check and INSERT are   *)
(* one step; ROUTER_BUSY and JOB_BUSY are raised.                          *)
Create(q) ==
  /\ HandlerAt(q, "create")
  /\ IF MayReserve(q)
     THEN /\ job' = [job EXCEPT ![q] = "queued"]
          /\ HandlerGoto(q, IF flow[q] = "upgrade" THEN "done" ELSE "run")
     ELSE /\ HandlerGoto(q, Cleanup(q, "create"))
          /\ UNCHANGED job
  /\ UNCHANGED <<transaction, sent>> /\ HandlerOnly

Run(q) ==
  /\ HandlerAt(q, "run")
  /\ Transition(q, "running")
  /\ HandlerGoto(q, IF flow[q] = "repair" THEN "attach"
                    ELSE IF flow[q] = "backup" THEN "apply" ELSE "begin")
  /\ UNCHANGED <<transaction, sent>> /\ HandlerOnly

(* change_control.begin; a repair whose first probe shows no WireGuard or  *)
(* no SSH raises next, which Raise covers.                                 *)
Begin(q) ==
  /\ HandlerAt(q, "begin")
  /\ OpenTrans(q, flow[q] # "repair")
  /\ HandlerGoto(q, IF flow[q] = "repair" THEN "create" ELSE "apply")
  /\ UNCHANGED <<job, sent>> /\ HandlerOnly

Attach(q) ==
  /\ HandlerAt(q, "attach")
  /\ linked' = [linked EXCEPT ![q] = linked[q] \/ trans[q] = "running"]
  /\ HandlerGoto(q, "apply")
  /\ UNCHANGED <<job, trans, sent>> /\ HandlerOnly

(* The pre-change backup and then the one mutating command, never retried. *)
(* For a backup the command is /system backup save, which only a hub that  *)
(* has ROUTER_BACKUP_PASSWORD set gives; any other exports and no more.    *)
Apply(q) ==
  /\ HandlerAt(q, "apply")
  /\ \/ sent' = [sent EXCEPT ![q] = @ + 1]
     \/ flow[q] = "backup" /\ UNCHANGED sent
  /\ HandlerGoto(q, IF flow[q] = "backup" THEN "succeed" ELSE "verifying")
  /\ UNCHANGED <<job, transaction>> /\ HandlerOnly

Verifying(q) ==
  /\ HandlerAt(q, "verifying")
  /\ Transition(q, "verifying")
  /\ HandlerGoto(q, "verify")
  /\ UNCHANGED <<transaction, sent>> /\ HandlerOnly

(* verify_management: the probe, a canonical repair when it fails but the  *)
(* command path is up, the second probe; ACCESS_VERIFY_FAILED when the     *)
(* router still is not healthy.                                            *)
Verify(q) ==
  /\ HandlerAt(q, "verify")
  /\ \E healthy \in BOOLEAN :
       HandlerGoto(q, IF healthy THEN "commit" ELSE Cleanup(q, "verify"))
  /\ UNCHANGED <<job, transaction, sent>> /\ HandlerOnly

Commit(q) ==
  /\ HandlerAt(q, "commit")
  /\ Finish(q)
  /\ HandlerGoto(q, "succeed")
  /\ UNCHANGED <<job, sent>> /\ HandlerOnly

Succeed(q) ==
  /\ HandlerAt(q, "succeed")
  /\ Transition(q, "succeeded")
  /\ HandlerGoto(q, "done")
  /\ UNCHANGED <<transaction, sent>> /\ HandlerOnly

FailJob(q) ==
  /\ HandlerAt(q, "failJob")
  /\ IF CanMove(q, "failed") THEN job' = [job EXCEPT ![q] = "failed"] ELSE UNCHANGED job
  /\ HandlerGoto(q, Cleanup(q, "failJob"))
  /\ UNCHANGED <<transaction, sent>> /\ HandlerOnly

FailTx(q) ==
  /\ HandlerAt(q, "failTx")
  /\ Fail(q)
  /\ HandlerGoto(q, Cleanup(q, "failTx"))
  /\ UNCHANGED <<job, sent>> /\ HandlerOnly

(* Any step of a handler may raise instead: the router does not answer, a  *)
(* command fails, the database stays locked, a transition is refused.  So  *)
(* may the clean-up; what fail raises is swallowed.                        *)
Raise(q) ==
  /\ pc[q] \notin {"new", "verify", "done"}
  /\ HandlerGoto(q, Cleanup(q, pc[q]))
  /\ unwritten' = IF pc[q] = "failTx" THEN unwritten \cup {q} ELSE unwritten
  /\ UNCHANGED <<request, job, transaction, payload, worker, overdue,
                 crashes, sent, steady>>

(* The process of a handler dies: whatever it had not done is never done.  *)
Crash(q) ==
  /\ pc[q] \notin {"new", "done"}
  /\ crashes < MaxCrashes
  /\ crashes' = crashes + 1
  /\ HandlerGoto(q, "done")
  /\ UNCHANGED <<request, job, transaction, payload, worker, overdue, histories>>

-------------------------------------------------------------------------------
(* The fleet timer: one process at a time; each tick recovers abandoned    *)
(* jobs and then moves the one active upgrade job forward.                 *)

WorkerAt(s) == lane = s
WorkerGoto(s) == lane' = s /\ UNCHANGED held
WorkerTake(q, s) == lane' = s /\ held' = q
WorkerRest == lane' = "idle" /\ held' = NoRequest
WorkerOnly == UNCHANGED <<request, pc, overdue, crashes>>

\* Mutants: recovery without the age limit, and without queued jobs.
StaleAtAnyAge == {q \in Requests : flow[q] # "upgrade" /\ job[q] \in Active}
StaleStarted == {q \in overdue : flow[q] # "upgrade" /\ job[q] \in {"running", "verifying"}}
Stale == {q \in overdue : flow[q] # "upgrade" /\ job[q] \in Active}

\* Mutant: recovery that leaves the linked transaction alone.
RecoverJobsOnly ==
  /\ WorkerAt("idle")
  /\ job' = [q \in Requests |-> IF q \in Stale THEN "failed" ELSE job[q]]
  /\ WorkerGoto("pick")
  /\ UNCHANGED <<transaction, payload, histories>> /\ WorkerOnly

(* recover_stale_nonupgrade_jobs: the jobs and their linked transactions   *)
(* fail in one database transaction.                                       *)
Recover ==
  /\ WorkerAt("idle")
  /\ job' = [q \in Requests |-> IF q \in Stale THEN "failed" ELSE job[q]]
  /\ trans' = [q \in Requests |->
       IF q \in Stale /\ linked[q] /\ trans[q] = "running" THEN "failed" ELSE trans[q]]
  /\ WorkerGoto("pick")
  /\ UNCHANGED <<linked, payload, histories>> /\ WorkerOnly

(* _process_upgrade_job, up to the first step that takes time: the active  *)
(* upgrade, if any, by its status.                                         *)
Upgrading(q) == flow[q] = "upgrade" /\ job[q] \in Active

PickNothing ==
  /\ WorkerAt("pick")
  /\ \A q \in Requests : ~Upgrading(q)
  /\ WorkerRest
  /\ UNCHANGED <<job, transaction, payload, histories>> /\ WorkerOnly

PickQueued(q) ==
  /\ WorkerAt("pick") /\ Upgrading(q) /\ job[q] = "queued"
  /\ \/ Transition(q, "failed") /\ WorkerRest        \* disabled or retired
     \/ UNCHANGED job /\ WorkerRest                  \* Guardian not healthy
     \/ UNCHANGED job /\ WorkerTake(q, "claim")
  /\ UNCHANGED <<transaction, payload, histories>> /\ WorkerOnly

\* Mutants: an interrupted dispatch sent again, and one never resumed.
PickStartedAgain(q) ==
  /\ WorkerAt("pick") /\ Upgrading(q) /\ job[q] # "queued"
  /\ UNCHANGED job
  /\ WorkerTake(q, IF job[q] = "running" THEN "dispatch" ELSE "sample")
  /\ UNCHANGED <<transaction, payload, histories>> /\ WorkerOnly
PickVerifying(q) ==
  /\ WorkerAt("pick") /\ Upgrading(q) /\ job[q] # "queued"
  /\ UNCHANGED job
  /\ IF job[q] = "verifying" THEN WorkerTake(q, "sample") ELSE WorkerRest
  /\ UNCHANGED <<transaction, payload, histories>> /\ WorkerOnly

(* A dispatch that a restart interrupted is resumed at verification.       *)
PickStarted(q) ==
  /\ WorkerAt("pick") /\ Upgrading(q) /\ job[q] # "queued"
  /\ Transition(q, "verifying")
  /\ WorkerTake(q, "sample")
  /\ UNCHANGED <<transaction, payload, histories>> /\ WorkerOnly

Claim ==
  /\ WorkerAt("claim")
  /\ Transition(held, "running")
  /\ WorkerGoto("begin")
  /\ UNCHANGED <<transaction, payload, histories>> /\ WorkerOnly

WorkerBegin ==
  /\ WorkerAt("begin")
  /\ OpenTrans(held, TRUE)
  /\ WorkerGoto("save")
  /\ UNCHANGED <<job, payload, histories>> /\ WorkerOnly

Save ==
  /\ WorkerAt("save")
  /\ savedTx' = [savedTx EXCEPT ![held] = TRUE]
  /\ checks' = [checks EXCEPT ![held] = 0]
  /\ WorkerGoto("dispatch")
  /\ UNCHANGED <<job, transaction, histories>> /\ WorkerOnly

(* The pre-upgrade backup, then dispatch_reboot, whose timeout counts as   *)
(* dispatched.                                                             *)
Dispatch ==
  /\ WorkerAt("dispatch")
  /\ sent' = [sent EXCEPT ![held] = @ + 1]
  /\ WorkerGoto("confirm")
  /\ UNCHANGED <<job, transaction, payload, steady, unwritten>> /\ WorkerOnly

Confirm ==
  /\ WorkerAt("confirm")
  /\ Transition(held, "verifying")
  /\ WorkerRest
  /\ UNCHANGED <<transaction, payload, histories>> /\ WorkerOnly

(* One sample of the router while its upgrade is being verified.  Out of   *)
(* reach: wait, or fail the job once the return window has closed.  The    *)
(* healthy samples before it stay counted.                                 *)
SampleLost ==
  /\ WorkerAt("sample")
  /\ IF held \in overdue THEN Transition(held, "failed") ELSE UNCHANGED job
  /\ steady' = [steady EXCEPT ![held] = 0]
  /\ WorkerRest
  /\ UNCHANGED <<transaction, payload, sent, unwritten>> /\ WorkerOnly

SampleBack ==
  /\ WorkerAt("sample")
  /\ WorkerGoto("check")
  /\ UNCHANGED <<job, transaction, payload, histories>> /\ WorkerOnly

(* Management verified and the target version reported: count the sample.  *)
OneSampleNeeded == 1  \* mutant
HealthyNeeded == 2
Check ==
  /\ WorkerAt("check")
  /\ LET n == checks[held] + 1
     IN /\ checks' = [checks EXCEPT ![held] = IF n > 2 THEN 2 ELSE n]
        /\ IF n < HealthyNeeded THEN WorkerRest ELSE WorkerGoto("succeed")
  /\ steady' = [steady EXCEPT ![held] = IF @ = 0 THEN 1 ELSE 2]
  /\ UNCHANGED <<job, transaction, savedTx, sent, unwritten>> /\ WorkerOnly

WorkerSucceed ==
  /\ WorkerAt("succeed")
  /\ Transition(held, "succeeded")
  /\ IF savedTx[held] THEN WorkerGoto("commit") ELSE WorkerRest
  /\ UNCHANGED <<transaction, payload, histories>> /\ WorkerOnly

WorkerCommit ==
  /\ WorkerAt("commit")
  /\ Finish(held)
  /\ WorkerRest
  /\ UNCHANGED <<job, payload, histories>> /\ WorkerOnly

(* Either except clause: the transaction if the worker knows of one, then  *)
(* the job, whose final status is not left again.                          *)
KnowsTx(s) == s \in {"save", "dispatch", "confirm"} \/ savedTx[held]
WorkerRaise ==
  /\ lane \notin {"idle", "pick", "sample", "failJob"}
  /\ WorkerGoto(IF lane # "failTx" /\ KnowsTx(lane) THEN "failTx" ELSE "failJob")
  /\ unwritten' = IF lane = "failTx" THEN unwritten \cup {held} ELSE unwritten
  /\ UNCHANGED <<job, transaction, payload, sent, steady>> /\ WorkerOnly

WorkerFailTx ==
  /\ WorkerAt("failTx")
  /\ Fail(held)
  /\ WorkerGoto("failJob")
  /\ UNCHANGED <<job, payload, histories>> /\ WorkerOnly

WorkerFailJob ==
  /\ WorkerAt("failJob")
  /\ IF CanMove(held, "failed")
     THEN job' = [job EXCEPT ![held] = "failed"] ELSE UNCHANGED job
  /\ WorkerRest
  /\ UNCHANGED <<transaction, payload, histories>> /\ WorkerOnly

(* The tick dies, or raises outside of every try.                          *)
WorkerCrash ==
  /\ ~WorkerAt("idle")
  /\ crashes < MaxCrashes
  /\ crashes' = crashes + 1
  /\ WorkerRest
  /\ UNCHANGED <<request, job, transaction, payload, pc, overdue, histories>>

-------------------------------------------------------------------------------
(* Time and operators.                                                     *)

(* The age limit of a job passes: an hour without an update for an         *)
(* ordinary job, which no live handler needs (its commands have deadlines  *)
(* that add up to minutes), the return window for a started upgrade.       *)
Expire(q) ==
  /\ q \notin overdue
  /\ IF flow[q] = "upgrade" THEN job[q] \in {"running", "verifying"}
     ELSE job[q] \in Active /\ pc[q] = "done"
  /\ overdue' = overdue \cup {q}
  /\ UNCHANGED <<request, job, transaction, payload, pc, worker, crashes, histories>>

-------------------------------------------------------------------------------
HandlerStep(q) ==
  \/ Create(q) \/ Run(q) \/ Begin(q) \/ Attach(q) \/ Apply(q) \/ Verifying(q)
  \/ Verify(q) \/ Commit(q) \/ Succeed(q) \/ FailJob(q) \/ FailTx(q)
  \/ Raise(q)

WorkerStep ==
  \/ Recover \/ PickNothing
  \/ \E q \in Requests : PickQueued(q) \/ PickStarted(q)
  \/ Claim \/ WorkerBegin \/ Save \/ Dispatch \/ Confirm
  \/ SampleLost \/ SampleBack \/ Check \/ WorkerSucceed \/ WorkerCommit
  \/ WorkerRaise \/ WorkerFailTx \/ WorkerFailJob

Next ==
  \/ \E q \in Requests : Start(q) \/ HandlerStep(q) \/ Crash(q) \/ Expire(q)
  \/ WorkerStep \/ WorkerCrash

(* A handler that lives runs on (its commands have deadlines), systemd     *)
(* starts the timer's tick again and again, and time passes.               *)
Fairness ==
  /\ \A q \in Requests : WF_vars(HandlerStep(q)) /\ WF_vars(Expire(q))
  /\ WF_vars(WorkerStep)

Spec == Init /\ [][Next]_vars /\ Fairness

-------------------------------------------------------------------------------
(* Properties.                                                             *)

(* Every job that changes a router reserves it: two active jobs never name *)
(* the same router, whoever created them (jobs.create, serialize_router).  *)
OneJobPerRouter ==
  \A p, q \in Requests :
    job[p] \in Active /\ job[q] \in Active /\ router[p] = router[q] => p = q

(* Upgrades are serialized over the whole fleet (serialize_global_kind).   *)
OneUpgrade ==
  \A p, q \in Requests : Upgrading(p) /\ Upgrading(q) => p = q

(* Who is about to send commands to a router: a handler between its        *)
(* reservation and its verdict, or the change lane.                        *)
HandlerCommands(q) == pc[q] \in {"apply", "verifying", "verify"}
WorkerCommands(q) == held = q /\ lane \in {"save", "dispatch", "check"}
Commanding(q) == HandlerCommands(q) \/ WorkerCommands(q)

(* No two processes send commands to one router at a time: in particular   *)
(* recovery never frees a router under a live handler, and a repair of     *)
(* Guardian never meets a change or an upgrade.                            *)
ExclusiveCommands ==
  \A p, q \in Requests :
    Commanding(p) /\ Commanding(q) /\ router[p] = router[q] => p = q

(* A change is attempted once: neither a restart of the change lane nor a  *)
(* resumed upgrade sends the command again.                                *)
AppliedOnce == \A q \in Requests : sent[q] <= 1

(* A change, a web SSH or normalisation or a repair whose job reports      *)
(* success has given its command and has its transaction committed first.  *)
(* An upgrade that reports success has two healthy samples to its name,    *)
(* but not necessarily in a row (TwoConsecutiveChecks below), and its       *)
(* transaction is committed only after the job (finish follows succeeded). *)
SuccessIsEarned ==
  \A q \in Requests : job[q] = "succeeded" =>
    /\ flow[q] \in {"change", "scoped", "repair"} => sent[q] = 1 /\ trans[q] = "succeeded"
    /\ flow[q] = "upgrade" => checks[q] = 2

(* What the event of a verified upgrade says: "Two consecutive healthy     *)
(* management checks passed".  The count is not reset by a sample in which *)
(* the router could not be reached, so this does not hold.                 *)
TwoConsecutiveChecks ==
  \A q \in Requests : flow[q] = "upgrade" /\ job[q] = "succeeded" => steady[q] = 2

(* switch_profile and the rescue handlers close the transaction before the *)
(* job, and recovery closes both at once: unless the database refused the  *)
(* very write, no crash and no raise leaves a finished job with a          *)
(* transaction that runs on for ever.                                      *)
ChangeClosesTogether ==
  \A q \in Requests :
    flow[q] = "change" /\ job[q] \in Final => trans[q] # "running" \/ q \in unwritten

(* A job and a transaction that ended stay as they ended: recovery, the    *)
(* handler's own clean-up and the change lane never overwrite a verdict.   *)
VerdictsStand ==
  [][\A q \in Requests :
       /\ job[q] \in Final => job'[q] = job[q]
       /\ trans[q] \in Final => trans'[q] = trans[q]]_vars

(* The reservation of an ordinary job is given back, however its process   *)
(* ends: by the handler or, after it died or raised outside its try, by    *)
(* the recovery of a later tick.                                           *)
ReservationsEnd ==
  \A q \in Requests :
    (flow[q] # "upgrade" /\ job[q] \in Active) ~> (job[q] \in Final)

(* An upgrade that was dispatched, or may have been, gets a verdict.       *)
UpgradesEnd ==
  \A q \in Requests :
    (flow[q] = "upgrade" /\ job[q] \in {"running", "verifying"}) ~> (job[q] \in Final)

(* What holds between any two steps, for each handler and for the change   *)
(* lane: where a process stands tells what its rows say.  Recovery only    *)
(* ever meets handlers that are done.                                      *)
TransInHand(q) == trans[q] = "running"
HandlerRows(q) ==
  /\ pc[q] = "new" => job[q] = "absent" /\ trans[q] = "absent"
  /\ pc[q] = "create" => /\ job[q] = "absent"
                         /\ trans[q] = IF flow[q] = "repair" THEN "running" ELSE "absent"
  /\ pc[q] = "run" => /\ job[q] = "queued"
                      /\ trans[q] = IF flow[q] = "repair" THEN "running" ELSE "absent"
  /\ pc[q] = "begin" => /\ flow[q] \in {"change", "scoped", "repair"}
                        /\ job[q] = IF flow[q] = "repair" THEN "absent" ELSE "running"
                        /\ trans[q] = "absent"
  /\ pc[q] = "attach" => flow[q] = "repair" /\ job[q] = "running" /\ TransInHand(q)
  /\ pc[q] = "apply" => job[q] = "running" /\ (flow[q] # "backup" => TransInHand(q))
  /\ pc[q] = "verifying" => flow[q] # "backup" /\ job[q] = "running" /\ TransInHand(q)
  /\ pc[q] \in {"verify", "commit"} => flow[q] # "backup" /\ job[q] = "verifying" /\ TransInHand(q)
  /\ pc[q] = "succeed" =>
       IF flow[q] = "backup" THEN job[q] = "running"
       ELSE job[q] = "verifying" /\ trans[q] = "succeeded"
  /\ pc[q] \in {"failJob", "failTx"} /\ flow[q] = "change" => job[q] \in {"running", "verifying"}
  /\ pc[q] = "failJob" /\ flow[q] = "change" => ~TransInHand(q) \/ q \in unwritten
  /\ flow[q] = "upgrade" => pc[q] \in {"new", "create", "done"}
  /\ flow[q] # "upgrade" /\ pc[q] # "done" => q \notin overdue

(* A transaction of a change that is still running is linked to its job,   *)
(* which is still active: recovery will find it.                           *)
ChangeRows(q) ==
  flow[q] = "change" /\ TransInHand(q) =>
    linked[q] /\ (job[q] \in {"running", "verifying"} \/ q \in unwritten)

CommandCounts(q) ==
  /\ sent[q] <= 1
  /\ pc[q] \in {"new", "create", "run", "begin", "attach", "apply"} => sent[q] = 0
  /\ pc[q] \in {"verifying", "verify", "commit", "succeed"} /\ flow[q] # "backup" => sent[q] = 1
  /\ flow[q] = "upgrade" /\ job[q] \in {"absent", "queued"} => sent[q] = 0 /\ trans[q] = "absent"

WorkerRows ==
  held # NoRequest =>
    LET q == held
    IN /\ flow[q] = "upgrade" /\ pc[q] = "done"
       /\ lane = "claim" => job[q] = "queued"
       /\ lane = "begin" => job[q] = "running" /\ sent[q] = 0 /\ trans[q] = "absent"
       /\ lane \in {"save", "dispatch"} => job[q] = "running" /\ sent[q] = 0
       /\ lane = "confirm" => job[q] = "running"
       /\ lane \in {"sample", "check", "succeed"} => job[q] = "verifying"
       /\ lane = "succeed" => checks[q] = 2
       /\ lane = "commit" => job[q] = "succeeded"

IInv ==
  /\ OneJobPerRouter /\ OneUpgrade /\ SuccessIsEarned /\ WorkerRows
  /\ \A q \in Requests : HandlerRows(q) /\ ChangeRows(q) /\ CommandCounts(q)

(* The job table is the reservation that RouterReservation promises.       *)
Phase == [q \in Requests |-> IF job[q] = "absent" THEN "waiting"
                            ELSE IF job[q] \in Active THEN "holding" ELSE "over"]
Reservation == INSTANCE RouterReservation
  WITH fleetwide <- {q \in Requests : flow[q] = "upgrade"}, phase <- Phase
ReservationSpec == Reservation!Spec

===============================================================================
