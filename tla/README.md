# A verification project for Tikcentral

Tikcentral is a hub for a fleet of MikroTik routers: a FastAPI web application
and a set of scheduled tasks over one SQLite database, which reaches the
routers through WireGuard and SSH. This directory holds TLA+ models of the
parts of it that are hard to test, the TLC configurations that check them, and
proofs that TLAPS checks.

## 1. Inventory

### Processes

| process | started by | concurrency |
|---|---|---|
| web application (`app/main.py`, `final.py` and every `register`) | `tikcentral.service`, `uvicorn --workers 1` | `async def` POST handlers run one after the other on the event loop; `def` GET handlers run in a thread pool beside them |
| fleet timer (`fleet_runner.py scheduled`) | `tikcentral-fleet.timer`, a oneshot unit: never two at a time unless an operator runs it by hand | `guardian_tick`, then the lanes of `scheduler.scheduled_tick`, then `fleet.scheduled_tick`, in sequence |
| AI worker (`ai_worker.py`) | `tikcentral-ai.timer`, oneshot | one request per run |
| WinBox proxy (`winbox_proxy.py`) | `tikcentral-winbox-proxy.service` | one coroutine per relay and one that reopens the ports |
| helpers (`tikcentral-wg-peer`, `tikcentral-update`, `tikcentral-codex-analyze`) | `sudo` from the processes above, with a deadline | a helper that timed out may or may not have acted |

They share the SQLite file. A statement outside a transaction is atomic by
itself; `core.db()` commits when its block ends and rolls back when it raises,
and a `SELECT` that precedes the first write of a block is *not* part of the
transaction that the write opens. `BEGIN IMMEDIATE` is used in `jobs.create`,
`main.enroll`, `ai_worker._claim_one`, `ai_analysis.queue_analysis` and
`router_replacement.execute` only.

### Components

| component | state | operations | what is hard | what makes it correct |
|---|---|---|---|---|
| job reservations (`jobs.py`) | `router_jobs.status` | create, transition, recovery of stale jobs | concurrent creation, recovery against a live holder | one active job per router, one upgrade per fleet, final verdicts stay |
| change transactions (`change_control.py`) | `change_transactions.status`, `job_id` | begin, attach_job, finish, fail, verify_management | closed in another transaction than the job | the transaction ends with the job and tells what happened |
| change handlers (`operations`, `rescue`, `production`, `final`, `guardian.repair_router`, `fleet._backup_one`) | none of their own | switch profile, rescue port, web SSH, normalise, repair, back up | each may raise or die between any two steps | no router is changed by two of them at once; a change is sent once |
| upgrade worker (`operations._process_upgrade_job`) | payload of the job: transaction id, healthy checks | claim, dispatch, sample, verdict, over many ticks | restarts between ticks, a router that comes and goes | no second dispatch, a verdict for each dispatch |
| upgrade campaigns (`upgrade_campaigns.py`) | campaign and member rows | create, sync, queue, approve | three processes synchronise the same rows | canary first, a failure stops the rollout, a router is upgraded once |
| enrolment (`main.enroll`, `enrollment.py`, `tikcentral-wg-peer`) | `routers`, `enrollment_tokens`, WireGuard peers | mint, reserve, add peer, finalize, undo, recover | the database and WireGuard cannot change together | a token enrols once, an enrolled router keeps its peer and its address |
| router lifecycle and replacement (`lifecycle`, `commissioning_checklist`, `router_replacement`) | `routers.lifecycle_state`, checklist status, `router_replacements` | set_state, evaluate, create, execute | checks in one transaction, effects in another | what is promoted is complete; a router is replaced once |
| configuration baseline (`operations`, `state_capture`) | `router_expected_state`, `router_snapshots` | check_drift, accept_baseline, validate_commissioning | the router changes between the export and the write; a verdict is written before what it promises | the drift flag comes to tell the truth; what passed has its baseline |
| Guardian alerts and incidents (`guardian.py`) | alert state per router and kind, incidents | tick, repair's own tick, maintenance | read, decide, write in three transactions, by ticks that overlap; repeated events are dropped | no level is stored that nobody was told of, an incident ends when its cause does |
| maintenance automation (`maintenance_automation`) | automation runs, history | process a succeeded job, settings | claims that dead passes leave, passes that overlap | each change is verified, its checks run once per claim |
| AI analyses (`ai_analysis`, `ai_worker`) | requests | queue, claim, recover, answer | duplicate requests, dead workers, routers that become ineligible | one open request per router, and every request is answered |
| fleet jobs (`fleet.py`) | `fleet_jobs`, `fleet_settings.last_backup_date` | scheduled tick, buttons, run, recover | a job outlives its process, midnight passes during it | a day that is marked has a backup job that was run to its end; every job ends |
| web access (`main`) | users, sessions, authorized IPs, login failures | login, roles, authorize, revoke | concurrent edits, limits | a revoked user or address loses access |
| WinBox proxy | open ports, relays | reopen, accept, watch | stale authorization | a relay ends after its authorization does |
| events and alert queue (`events`, `alert_queue`, `retention_policy`) | `router_events`, `alert_queue` | record, maintenance, sync, form, cleanup | repetitions are suppressed, old rows go, an event inside another transaction | warnings outlive infos; an alert can be worked |
| monitors (23 modules, `network_quality.py` to `outage_classifier.py`) | one verdict row per router or object | collect, judge, store, announce a change | verdict and event are two transactions, either may fail | the last word of the timeline is the stored verdict |
| migrations (`migrations.py`) | the schema, `schema_version` | migrate at every start, under a file lock | nothing is one transaction, a process dies in between | every process comes to serve the whole schema |
| deployment scripts, reports, pages, hub health | releases; none of their own | install, update, roll back; render | partial failure | see section 6 |

## 2. Plan

Done:

1. `RouterReservation`, `ChangeJobs`: the promise of the job table, and the
   engine that implements it with every handler and the upgrade worker.
2. `Enrollment`: the three-step protocol between database and WireGuard, with
   deaths and lost answers.
3. `UpgradeCampaign`: a campaign over the job table and the actors that
   synchronise it.
4. `AccessGuardian`: alert levels and incidents, for ticks that may overlap.
5. `WinboxRelay`: the relay process over the addresses that the dashboard
   authorizes.

6. `SchemaHistory`, `Migrations`: every migration as data, and the machine that
   runs them.
7. `MonitorRules`, `Monitors`: what the monitors make of their answers, and how
   a verdict becomes an event and an alert.
8. `AnalysisQueue`, `PostChangeChecks`, `FleetBackups`: background work with
   claims, and `BackgroundWork`, which runs the three as one specification.
9. `ConfigBaseline`: what the hub believes of a router's configuration, and the
   proof that what it claims is backed.
10. The proofs of every safety property of 6, 7 and 8, in `Migrations_proofs`,
    `Monitors_proofs` and `BackgroundWork_proofs`.

Left for later: the public WinBox port in `Enrollment`, the replacement of a
router, users, roles and sessions, the login limiter (section 6).

The abstract specification is `RouterReservation`, which `ChangeJobs` implements.
`UpgradeCampaign` is not shown to implement it: its `Create` takes over the guard
of `jobs.create` as it is, so that a refinement would only repeat the guard.

## 3. Modules

`RouterReservation.tla` says what callers of `jobs.create` rely on: a request
waits, holds its router (an upgrade also the fleet's slot) or is over.

`ChangeJobs.tla` models the engine. A request stands for one call of a handler
and for the rows it creates: `job[q]` is the status of its row in
`router_jobs`, `trans[q]` and `linked[q]` its row in `change_transactions`.
`pc[q]` is the handler's next step, one of the database transactions or router
commands that the handlers share; `lane` and `held` are the change lane's. What
a handler does when a step raises is `Cleanup`, read off the `try` blocks of
each handler. `savedTx` and `checks` are the payload that carries an upgrade
from one tick to the next.

Abstractions: a `SELECT` of the row's status and the `UPDATE` that follows are
one step, since only the owner and recovery write it and recovery never meets a
live owner (`ExclusiveCommands` and the invariant show it); a request that a
read-only check refuses never starts; the RouterOS command is one step, counted
in `sent` (a backup sends one only if `BACKUP_PASSWORD` is set, `fleet.py:171`,
so its count may stay zero); ages are the set `overdue`; probes answer anything.
`steady` is history: the healthy samples of an upgrade since the last lost one.

`Enrollment.tla` models `main.enroll`. `row` and `addr` are the router's row
(`pending` is the disabled row of an enrolment under way, `stuck` one that the
lifecycle form has edited), `token` the `used_at` of the token with its pending
marker, `peer` WireGuard's routes; `at` is the handler's next transaction or
helper call. The handler has no `await` after the body is read, so one runs at
a time and `at` is a single variable; a death at any step leaves the tables
as they are. A helper that fails or times out may have acted: both outcomes
are enabled. WireGuard gives an address to the peer that asked last, and
`AddPeer` does. Names, keys and the script's text are left out; so is the
mint form, whose token is a free one.

`UpgradeCampaign.tla` models one campaign. Its canary is one member; the
members of the rollout follow one by one in the order of their ids. `_sync`
reads outside the transaction in which it writes, so `SyncRead` and `SyncWrite`
are two steps with the rows of the read kept in `seenJob`, `first`, `seen`; the
selection, the job's creation and the row that records it are three more. The
web handlers and the timer run the same steps as different actors. Jobs are the
interface of `ChangeJobs`: absent, queued, running, then a verdict; other
upgrades and changes appear as `elsewhere`, which refuses `Create` as
`jobs.create` does. Eligibility (`Select` or `MarkFailed`) answers anything.

`AccessGuardian.tla` models `guardian_tick` for the tickers of `Tickers`: the
timer's, and those that a Guardian page (`guardian.py:500`) and a verified repair
(line 421) run beside it. `at` and `cur` are where a tick is, `before`,
`inactive`, `muted` what it read when it began, `result` and `fell` what it
found. The alert row is read in `Judge`, where the event is recorded, and
written in `Write`. `events.record` drops an escalation that repeats the last one
within `EVENT_DEDUP_SECONDS` (`Repeats`, `Dedup`); `latest` is that last one.
`author` and `heard` are history: who stored the last probe of a router, and when a level was last announced or held back by a
maintenance window. Latencies, retention, the flap counter and the pages are
left out.

`WinboxRelay.tla` models `winbox_proxy.py` whole: `step`, `wanted`, `cur` and
`todo` are the main loop's step and locals, `port` its servers, `phase`, `from`
and `to` the connections. The hub runs Python 3.12 (Ubuntu 24.04, and
`validate.yml`), whose `Server.wait_closed` waits for the connections of the
server, so `Waited` has the guard `Drained`. `authorized_ips` is `grant`; the
check of source and router is a poll, so `AuthorizationWatch` needs the refusal
to last. A connection that is ended is `closing` until its peers have read what
the relay holds for them, which may never be (`stream.wait_closed`,
`winbox_proxy.py:100`). Ports belong to one router for good.

`SchemaHistory.tla` is the list `MIGRATIONS` as data: every statement of the
thirty-six functions, with the columns that some later statement mentions, and
whether `executescript` (which commits) or `execute` sends it. `Migrations.tla`
is the machine: `disk` is the database as last committed and `work` as the holder
of the lock sees it, `open` whether a transaction is open, `at` where each
process is. A `CREATE` or `ALTER` in autocommit stands at once; a death drops
what is not committed and releases the file lock, as `flock` does. What an
update may find is a released schema or the historical tables, with the AI
requests that nothing has retired and the doubled ports that no index forbids.

`MonitorRules.tla` has one operator per monitor: which verdict it stores for
which answers, numbers being kept at and beside their thresholds.
`Monitors.tla` gives each its pass: ask, store the verdicts in the transactions
of the code, then record the events. `log` is the timeline with its suppression
of repetitions, its two limits and the alerts; a pass may be cut anywhere
(`Cut`), by a death or a locked database. `told`, `unsaid` and `assessed` are
history. One behaviour follows one monitor, since they share nothing but the
timeline, whose other writers are the pseudo monitor `others`. An assessment of
the outages covers any part of the fleet: the routers that are neither disabled
nor retired. `Absent`, no row
at all, is told from every verdict (`AbsentAssumption`, which TLC evaluates over
the tables of the monitors).

`AnalysisQueue.tla` models `queue_analysis` and a run of `ai_worker`;
`asking` is what an operator's handler has found eligible and not yet inserted.
More than one operator over-approximates the one event loop, where these two
steps are not interrupted. `PostChangeChecks.tla` models
`maintenance_automation.process` and its settings form for passes that may
overlap: `runs` is the claim row of each job, `history` the lines
written. `FleetBackups.tla` models the fleet jobs of `fleet.py`, of the tick and
of the buttons: `marked` is `last_backup_date`, `reserved` who holds each
router, `runner` the processes. `BackgroundWork.tla` composes the three, which
share no state: `part` says which one a behaviour follows. In all three a claim
only grows old when its process is dead: the windows of the code are longer than
the deadlines of the work, except that a fleet job of many slow routers is taken
to end within the six hours of `recover_stale_jobs`, which no deadline of the
code guarantees.

`ConfigBaseline.tla` follows one router: `running` is its configuration,
`verdict`, `expected`, `snapshots`, `stage` and `promoted` are what the hub has
stored, `lane` and `page` the two who may be in the middle of reading and
writing it. `accept_baseline` is also the end of `validate_commissioning`, so
`page.why` tells which. The probes of a commissioning answer anything. Left out:
the expected profile, the capability mode, the events about drift, the other
requirements of the checklist; the checklist has its default settings.

The `MC` modules declare no symmetry, because nearly every run checks liveness:
`MCChangeJobs` names one of two requests and one router first instead. (The
members of a campaign and the routers of a tick are ordered by id.) `MCMonitors`
picks the monitor by `setup`, as `BackgroundWork` picks its part, and
`MCAccessGuardian` a scenario, which says which part of the steps of
`AccessGuardian` a behaviour may take.

## 4. Runs

| run | shows | bounds |
|---|---|---|
| `change_jobs` | the safety of the engine and the refinement; every ordinary reservation ends, every dispatched upgrade gets a verdict | two requests of any two flows that compete: on one router, or two upgrades of two routers, which share the fleet's slot. Two requests are enough for every pairwise conflict; a third only adds another pair, and requests that share neither router nor slot do not meet. 1 death, of a handler or of the change lane (the theorems allow any number) |
| `upgrade_samples` | refutes "Two consecutive healthy management checks passed" (`operations.py:638`): two healthy samples with an unreachable one between them are enough | one router, one upgrade |
| `enrollment` | an enrolled router keeps peer and address, an address serves one router, a token is spent once, a pending token comes back, a router that repeats its script gets in unless its peer was orphaned, its half-made row edited, its token taken over or no token or address is left | two routers, two tokens, two addresses, 3 faults: enough for an attempt to fail, its undo to fail, and another router to take what they left. Only `k1` is sure to come again |
| `campaign` | the gate, the truth of "completed", and that either stage comes to its end where no upgrade waits in the queue for ever | a canary and one router of the rollout, 1 death, 1 competing job; five jobs, since a death between `Create` and `Record` and a stale selection each add one |
| `guardian` | no level is stored that nobody was told of, however ticks overlap and repetitions are dropped; an incident is resolved on what the resolving tick itself found; incidents end, lasting outages are told at the last level, whatever tick dies | two routers (the least that make an incident), in three scenarios. `deaths`: the timer's ticks alone, one of which dies, and two changes of health, service or maintenance windows. `alerts`: ticks of the timer and of the page overlap on one alert row, since alert rows do not meet, with two changes of health, enough for two outages within `Dedup`. `incidents`: overlapping ticks over a site that falls or returns, and one change. `Window` 0 is the hardest case: an open incident is never recent |
| `relays` | a closed port serves nobody, a revoked connection ends, ports follow their routers but for two kinds of connections that hold up the loop | two routers (one may hold up the other), two connections, one source, four changes (an authorization, and the retirement, reactivation and again change of a router), 1 fault |
| `migrations` | what is recorded has been applied, a process that serves finds the whole schema, every process comes to serve | two processes, 2 deaths, an empty database, the schemas 15 and 33 and one from before there were migrations, with and without AI requests and doubled ports to repair |
| `monitors` | the last word of the timeline is the stored verdict, no assessment blames an ISP for one router alone, infos do not drive out warnings | all twenty-three monitors; two routers, any of which an assessment may leave out, three sites; a timeline of one event, all that the comparison with the last one looks at, and of three for the retention |
| `traffic_surge` | refutes "Warnings/errors still surface here." (`events.py:25`): a surge is recorded inside the transaction that stores it and undoes it | the traffic monitor alone |
| `alert_workflow` | refutes the workflow that the training teaches (`training.py:64`): the form fails for every status but resolved | one monitor and its alerts |
| `background` | one open analysis per router, each analysis answered; one verification per claim, each change verified; a marked day has a backup job that was run to its end, each fleet job ends | analyses: two routers, two operators, two requests, 1 death. Checks: three jobs, two passes of one job each, 1 death. Backups: two routers, two days, two jobs, 1 death |
| `records` | the drift flag comes to tell the truth; what passed or was promoted has its backup and baseline | one router, three configurations (two healthy), one edit at any time, 1 death of a page |

The deadlock check is off where a bound, which the code does not have, ends a
behaviour: `campaign` (the last of its jobs is used up), `background` (the
last request, day or fleet job), `monitors` (a bounded worklist of alerts), and in
`migrations`, where a system that has come to serve is done.

Fairness: a handler that lives runs on, because every command it waits for has a
deadline (`router_exec.execute`, the timeouts of `wg_helper` and the updater);
the timers start a tick every minute (`tikcentral-fleet.timer`); time passes. A
router in `Persistent` repeats its enrolment script (one that gives up does not
get in). An upgrade that starts comes to a verdict, which
`change_jobs` shows; `campaign` assumes it, strongly, because verdicts are
given by the same timer that synchronises the campaign and so are disabled
during its steps. A queued upgrade need not start: one whose router Guardian
does not see healthy waits, for ever if need be, unless the router is disabled or
retired (`operations.py:564-569`), and the campaign waits behind it. So the two
properties of progress in `campaign` have the premise `QueueMoves`: no upgrade,
its own or another's, stays in the queue for ever. Nothing is assumed of the outcome of a probe or a command, and
requests need not start. The relay's coroutines run, and connecting has a
deadline; a client of the relay need not leave. The automation, the AI worker and the fleet tick are
started again by their timers, and a page's job runs on in its process. In
`records` the lane is started again and again (`tikcentral-fleet.timer`), and a
healthy router that is asked again and again answers: strong fairness of
`LaneExport`, since a router may be busy or down in between. Edits, people and
deaths need not come.

What the runs met, beyond the findings, and no document rules out:

- A router may be upgraded more than once by one campaign: after a death between
  the job's creation and its record, and when an actor selected the member
  before another one created its job.
- A second approval of a rollout queues the next member although `_sync` has
  just seen one fail.
- An upgrade whose return window closes fails its job and leaves its change
  transaction running (`operations.py:613`), though changes are said to record
  "failure/recovery evidence" (`change_preview.py:126`).
- Enrolment leaves a peer without a row when the helper cannot remove it, and a
  disabled row that somebody edits while the enrolment is pending stays.
- A tick that dies between a router's access state and the end of the loop loses
  the transition: no incident is made of it later. One that dies before the
  alert row is written leaves the count behind, and the event is told again.
- With two tickers the alert row that one has reset may be overwritten by the
  count that the other has read, both may open an incident for one outage, and
  the older one may resolve what the newer one opened. So two sentences of the
  code do not hold literally once a page or a repair ticks beside the timer: the
  legend (`guardian.py:615`) has warnings of consecutive failed probes, and a
  good probe may have been stored between them; the comment at `guardian.py:309`
  has incidents resolved once every affected router is healthy, and the latest
  stored result of one may be a failure. `ResolvedOnFindings` is what remains.
- With one resolver failing and one that neither resolves nor answers, the DNS
  checks record "DNS resolver health recovered" (`network_quality.py:200`) at the
  second such capture in a row although nothing resolves: what is stored is
  judged among the known results (line 164), what is new among all (line 196).
  `LastWordStands` leaves the DNS checks out for it.
- An outage that follows another within the deduplication window may reach a
  level without an event: the last one is taken for it. `Told` counts it.
- A level that an outage reaches in a maintenance window is stored as announced
  and is not announced after the window.
- The relay's loop waits for the connections of a port that it closes, and opens
  and closes no other meanwhile. Two kinds of connections can hold it up, the
  exceptions in `PortsFollow`: one whose router was retired and is reactivated
  before it is polled, until the client leaves; and one that was ended but
  whose peer does not read what it is still owed. `RevokedEnds` is about
  forwarding, which ends all the same.
- A router that frees the token of another router's interrupted attempt leaves
  that one a pending row which recovery never finds. This, the last token and
  the last address are all that another router can do to it: `Interfered` in
  `GetsIn`.
- A monitor's pass that dies between its verdict and the event about it leaves
  the change untold, and no later pass sees it as one: `unsaid` in
  `LastWordStands`.
- The row of a router that was disabled or retired, and the rows an assessment of
  the outages did not reach before it died, keep the verdict of an earlier
  assessment: `BlameIsShared` is about the rows of one that came to its end.
- The automation inventory compares lists in two different orders
  (`automation_inventory.py:72`): with two types of objects every pass announces
  a change.
- An analysis whose event cannot be recorded is rewritten from succeeded to
  failed (`ai_worker.py:104`).
- The checklist writes `production` whatever the stage has become since it read
  it (`commissioning_checklist.py:65`): a router retired in between comes back.
- A page that dies between a commissioning's verdict and its baseline leaves a
  router that passed without either: `cut` in `ClaimsAreBacked`.

## 5. Proofs

| module | for which constants | theorems |
|---|---|---|
| `ChangeJobs_proofs` | any routers, requests and number of deaths | `TypeCorrect`, `Invariance`, `CommandsExclusive`, `ReservationsHold`, `CommandsOnce`, `SuccessEarned`, `ChangeCloses`, `Verdicts`, `Implements`: the engine implements `RouterReservation`, and `Exclusion`: that one excludes |
| `Enrollment_proofs` | any routers, tokens, pool and number of faults; for the relay any routers, sources, connections and bounds | `TypeCorrect`, `Invariance`, `Reachable`, `Exclusive`, `SpentOnce`, `Stay` of `Enrollment`; `RelayTypeCorrect`, `ClosedServes` of `WinboxRelay` |
| `UpgradeCampaign_proofs` | any size, actors, bounds | `TypeCorrect`, `Invariance`, `CanaryComesFirst`, `CompletionIsTrue` |
| `ConfigBaseline_proofs` | any configurations, edits and deaths | `TypeCorrect`, `ClaimsBacked` |
| `AccessGuardian_proofs` | any fleet, tickers, thresholds and bounds | `TypeCorrect`, `LevelsAnnounced`, `ResolvedAsFound`, `Invariance` |
| `BackgroundWork_proofs` | any routers, operators, jobs, passes, finite fleet, limit and bounds | `OneOpen`, `AnswersItsOwn`, `AnswersStand` of `AnalysisQueue`; `VerifiedOnceAlways` of `PostChangeChecks`; `DayBackedUp`, `EndedStand` of `FleetBackups`; `Separate`, `BackgroundSafe` of the three composed |
| `Monitors_proofs` | any finite set of routers, any sites, retention limits and monitors in turn | `TypeCorrect`, `Invariance`, `TheLastWordStands`, `TheBlameIsShared`, `ImportantEventsSurvive` |
| `Migrations_proofs` | any list of migrations with `HistoryAssumption`, any releases, processes and deaths | `RecordedApplied`, `ServesOnlyMigrated`, `VersionsStay` |

The assumptions are those on the constants, which each module names. What a
module fixes, the theorems share: one change lane and one fleet timer, which
systemd grants, and one enrolment at a time, which the event loop does.

- `ChangeJobs`: none of the properties is inductive. That two handlers never
  command one router follows from the reservation only with the fact that a
  handler which may command holds an active job (`HandlerRows`), and that
  recovery keeps it active (a handler that lives is never overdue).
- `Enrollment`: `Consistent` says what the handler holds at each step, and that
  a peer's address is its row's whenever both are there; so an address that no
  row and no peer has is free in both.
- `UpgradeCampaign`: what an actor has read may be old, but a job that was
  seen to succeed stays so and a job's owner never changes (`Truthful`); the
  gate of the web actor is passed only with such a job (`GateTrue`).
- `AccessGuardian`: ticks overlap, so no local of a tick says what is stored.
  What remains is that every level stored or about to be was told (`Announced`,
  which needs `Dated`: what a tick has read lies in the past), and that a tick's
  findings are what is stored until another tick stores (`Stored`).
- `ConfigBaseline`: `ClaimsAreBacked` is not inductive: a verdict stands before
  its baseline is there (`Standing`), while what a running commissioning has
  reached is known from its steps (`Commissioning`), and a checklist that has
  read everything complete holds a promise that later steps keep (`Promises`).
- `WinboxRelay`: `ClosedServesNobody` is inductive beside the types; the step
  that matters is `Waited`, which closes a port only when it is drained. Its
  names are told from those of `Enrollment` (`RelaySpec`, `RelayTypeOK`), since
  `Enrollment_proofs` extends both.
- `BackgroundWork`: `OneOpenAnalysis` is inductive beside the types, since only
  `Insert` opens a request, and it looks for an open one in its transaction
  (`QueueSteps`). A worker answers its own request because its claim does not
  grow old while it lives and what waits is claimed by nobody (`ClaimHeld`,
  `WaitingUnclaimed`). `VerifiedOnce` needs that a pass which has claimed a job
  is the only one and its row is still running (`ClaimsHeld`).
  `DayIsBackedUp` needs `FleetInv`: a process works on a job of its own
  (`Apart`), which nobody has given up, whose results are those it filed and
  whose stages cover the fleet if it is a backup (`AtWork`), so that what
  `FinishJob` leaves `Mark` may rely on. Each step touches one process and its
  job, and one lemma (`Alone`) says that this concerns no other.
- `Migrations`: `MigrationInv` speaks of both databases, the one on the disk and
  the one the holder of the lock sees. The versions are the first ones, what
  the statements behind `step` make is there, a row that would do harm has the
  statement that removes it still ahead, and a table has the columns of its
  statement or a later migration adds them (`Sound`). `Interrupted` is the
  crash: what is sound at a statement is sound from the migration's first one.
  `HistoryAssumption` is about the list of migrations only: a table that two
  statements make, or that the historical database has, gets every column that
  the list mentions; old
  requests are retired; ports are cleared where they become unique. TLC
  evaluates it on the thirty-six migrations of the code.
- `Monitors`: the last word and the shared blame are not inductive, because a
  verdict and the event about it are two transactions. `MonitorInv` says what a
  pass that is half-way still owes: a row whose last word is not its verdict is
  among the events to come or is `unsaid` (`Words`), what the pass will say is
  what is stored (`Says`), and the last event of a timeline is the last word
  about its row, so that a repetition may be suppressed. During an assessment of
  the outages the rows up to the pass's place are of one set of samples of the
  active routers (`Assessing`): at its end all of theirs are, and samples that
  blame an ISP hold two routers of it. The verdicts of each monitor are taken from its tables one by
  one (`Shape`, `Announcements`). `ImportantEventsSurvive` is about the cut
  alone: the events that `Retain` keeps are those of a set of places in
  increasing order (`Increasing`, by the rank of each place), and the oldest of
  them goes only when newer ones fill the timeline, of which at most
  `setup.infos` are infos (`Retained`).

What is model-checked only: liveness, which rests on fairness and is out of the
prover's reach. Those are the properties of progress of `change_jobs`,
`enrollment`, `campaign`, `guardian`, `relays`,
`migrations`, `background` and `records`. Every invariant and every action property of a passing run is stated
by a theorem.

## 6. Not modelled

- The replacement of a router by another, known-good captures, the public WinBox
  port of an enrolment. Sessions, roles and the login limiter are decided within
  one request, from a row or a counter that no other part reads.
- The health pages and retention of the hub, the reports, maps, search and
  training pages read rows and render them; the rules that grade them are not
  part of a protocol. `reliability.py` is mostly such pages.
- Parsing and semantic comparison of RouterOS exports is text; a configuration
  is a value here, and a probe's answer one of the cases its monitor tells apart.
- The deployment scripts are shell around `git` and `systemctl`; their units give
  the models their fairness and their deaths. The release checks examine the
  repository and keep no state.

`PROJECT.json` lists each part with its reason, and the hazards that no property
covers with theirs.
