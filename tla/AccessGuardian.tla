---------------------------- MODULE AccessGuardian -----------------------------
(***************************************************************************)
(* Access Guardian (guardian.py): every tick probes each router in turn,   *)
(* stores the result, counts and escalates the outage in the alert row of  *)
(* the router, groups routers that fell in one tick into an incident and   *)
(* resolves the incidents whose routers are back.  The fleet timer runs a  *)
(* tick every minute; each Guardian page and each verified repair runs one *)
(* too, so ticks overlap.  Every read and write is a transaction of its    *)
(* own.  The flap counter, latencies and retention are left out: they feed *)
(* nothing below.  An escalation is an event, and events.record drops one  *)
(* that repeats the last of its kind too soon.  An exception or a restart  *)
(* ends a tick anywhere.                                                   *)
(***************************************************************************)
EXTENDS Integers, FiniteSets

CONSTANTS Size,         \* the routers are 1..Size, in the order of their ids
          Tickers,      \* who runs ticks: "timer", "page"
          Dedup,        \* EVENT_DEDUP_SECONDS
          Warn,         \* GUARDIAN_WARN_FAILURES
          Critical,     \* GUARDIAN_CRITICAL_MINUTES
          Escalate,     \* GUARDIAN_ESCALATE_MINUTES
          Window,       \* how long an open incident keeps others from opening
          MaxTime,      \* bound: the clock stops here
          MaxChanges,   \* bound: changes of health, activity and maintenance
          MaxIncidents, \* bound: incidents
          MaxAborts     \* bound: ticks that stop half-way

ASSUME SizeAssumption == Size \in Nat \ {0}
ASSUME DedupAssumption == Dedup \in Nat \ {0}
ASSUME WarnAssumption == Warn \in Nat \ {0}
ASSUME MinutesAssumption ==
  Critical \in Nat \ {0} /\ Escalate \in Nat /\ Critical <= Escalate /\ Window \in Nat
ASSUME BoundsAssumption ==
  MaxTime \in Nat /\ MaxChanges \in Nat /\ MaxIncidents \in Nat /\ MaxAborts \in Nat

Routers == 1..Size
Times == 0..MaxTime
Incidents == 1..MaxIncidents
NoTime == -1
Moments == Times \cup {NoTime}
Steps == {"idle", "router", "save", "judge", "write", "correlate", "open", "resolve"}

VARIABLES healthy, active, quiet,  \* the routers: reachable, enabled and not
                                   \* retired, in a maintenance window
          now, changes,
          access,                  \* router_access_state.management_ok
          failures, level, since,  \* router_access_alert_state
          latest,                  \* router_events: the last escalation
          incident, victims, openedAt,                 \* fleet_incidents
          at, cur, checked, before, inactive, muted,   \* each tick: its step,
          result, fell, newFailures, newLevel, newSince,  \* reads and results
          aborts,
          author,             \* history: the ticker that stored the last probe
          heard               \* history: when a level was last announced, or
                              \* held back by a maintenance window

world == <<healthy, active, quiet>>
alert == <<failures, level, since>>
table == <<incident, victims, openedAt>>
snapshot == <<checked, before, inactive, muted>>
escalation == <<latest, heard>>
found == <<result, fell>>
verdict == <<newFailures, newLevel, newSince>>
vars == <<world, now, changes, access, alert, escalation, author, table, at, cur, snapshot,
          found, verdict, aborts>>

TypeOK ==
  /\ healthy \in [Routers -> BOOLEAN] /\ active \in [Routers -> BOOLEAN]
  /\ quiet \in [Routers -> BOOLEAN]
  /\ now \in Times /\ changes \in 0..MaxChanges /\ aborts \in 0..MaxAborts
  /\ access \in [Routers -> {"none", "ok", "bad"}]
  /\ failures \in [Routers -> 0..Warn] /\ level \in [Routers -> 0..3]
  /\ since \in [Routers -> Moments]
  /\ latest \in [Routers -> [level : 0..3, when : Moments]]
  /\ incident \in [Incidents -> {"none", "open", "resolved"}]
  /\ victims \in [Incidents -> SUBSET Routers] /\ openedAt \in [Incidents -> Times]
  /\ at \in [Tickers -> Steps] /\ cur \in [Tickers -> Routers]
  /\ checked \in [Tickers -> Times]
  /\ before \in [Tickers -> [Routers -> {"none", "ok", "bad"}]]
  /\ inactive \in [Tickers -> SUBSET Routers] /\ muted \in [Tickers -> SUBSET Routers]
  /\ result \in [Tickers -> [Routers -> {"none", "ok", "bad"}]]
  /\ fell \in [Tickers -> SUBSET Routers]
  /\ newFailures \in [Tickers -> 0..Warn] /\ newLevel \in [Tickers -> 0..3]
  /\ newSince \in [Tickers -> Moments]
  /\ author \in [Routers -> Tickers \cup {"none"}]
  /\ heard \in [Routers -> [1..3 -> Moments]]

Unknown == [r \in Routers |-> "none"]

(* A hub that starts with an empty history, on routers in any condition.   *)
Init ==
  /\ healthy \in [Routers -> BOOLEAN] /\ active \in [Routers -> BOOLEAN]
  /\ quiet = [r \in Routers |-> FALSE]
  /\ now = 0 /\ changes = 0 /\ aborts = 0
  /\ access = Unknown
  /\ failures = [r \in Routers |-> 0] /\ level = [r \in Routers |-> 0]
  /\ since = [r \in Routers |-> NoTime]
  /\ latest = [r \in Routers |-> [level |-> 0, when |-> NoTime]]
  /\ incident = [i \in Incidents |-> "none"] /\ victims = [i \in Incidents |-> {}]
  /\ openedAt = [i \in Incidents |-> 0]
  /\ at = [t \in Tickers |-> "idle"] /\ cur = [t \in Tickers |-> 1]
  /\ checked = [t \in Tickers |-> 0] /\ before = [t \in Tickers |-> Unknown]
  /\ inactive = [t \in Tickers |-> {}] /\ muted = [t \in Tickers |-> {}]
  /\ result = [t \in Tickers |-> Unknown] /\ fell = [t \in Tickers |-> {}]
  /\ newFailures = [t \in Tickers |-> 0] /\ newLevel = [t \in Tickers |-> 0]
  /\ newSince = [t \in Tickers |-> NoTime]
  /\ author = [r \in Routers |-> "none"]
  /\ heard = [r \in Routers |-> [n \in 1..3 |-> NoTime]]

-------------------------------------------------------------------------------
Goto(t, s) == at' = [at EXCEPT ![t] = s]
Counted(n) == IF n < Warn THEN n + 1 ELSE Warn  \* only >= Warn matters

(* The rest of a tick's loop over the routers.                             *)
NextRouter(t) ==
  /\ Goto(t, IF cur[t] < Size THEN "router" ELSE "correlate")
  /\ cur' = [cur EXCEPT ![t] = IF cur[t] < Size THEN cur[t] + 1 ELSE 1]

(* _update_alert_state for a router that is fine, or none of our business. *)
EndOutage(r) ==
  /\ failures' = [failures EXCEPT ![r] = 0]
  /\ level' = [level EXCEPT ![r] = 0]
  /\ since' = [since EXCEPT ![r] = NoTime]

(* The locals of a call, and of a tick, that is over.                      *)
ForgetVerdict(t) ==
  /\ newFailures' = [newFailures EXCEPT ![t] = 0]
  /\ newLevel' = [newLevel EXCEPT ![t] = 0]
  /\ newSince' = [newSince EXCEPT ![t] = NoTime]
Forget(t) ==
  /\ ForgetVerdict(t)
  /\ result' = [result EXCEPT ![t] = Unknown] /\ fell' = [fell EXCEPT ![t] = {}]
  /\ cur' = [cur EXCEPT ![t] = 1]
  /\ checked' = [checked EXCEPT ![t] = 0] /\ before' = [before EXCEPT ![t] = Unknown]
  /\ inactive' = [inactive EXCEPT ![t] = {}] /\ muted' = [muted EXCEPT ![t] = {}]

(* guardian_tick starts: routers, previous results, maintenance windows.   *)
Begin(t) ==
  /\ at[t] = "idle"
  /\ Goto(t, "router")
  /\ checked' = [checked EXCEPT ![t] = now]
  /\ before' = [before EXCEPT ![t] = access]
  /\ inactive' = [inactive EXCEPT ![t] = {r \in Routers : ~active[r]}]
  /\ muted' = [muted EXCEPT ![t] = {r \in Routers : quiet[r]}]
  /\ UNCHANGED <<world, now, changes, access, alert, table, cur, found, verdict, aborts,
                 escalation, author>>

(* A disabled or retired router is not probed; its outage is closed.       *)
Skip(t) ==
  /\ at[t] = "router" /\ cur[t] \in inactive[t]
  /\ EndOutage(cur[t])
  /\ NextRouter(t)
  /\ UNCHANGED <<world, now, changes, access, escalation, author, table, snapshot, found,
                 verdict, aborts>>

(* probe_router: seconds may pass before its result is stored.             *)
Probe(t) ==
  /\ at[t] = "router" /\ cur[t] \notin inactive[t]
  /\ result' = [result EXCEPT ![t][cur[t]] = IF healthy[cur[t]] THEN "ok" ELSE "bad"]
  /\ Goto(t, "save")
  /\ UNCHANGED <<world, now, changes, access, alert, table, cur, snapshot, fell, verdict,
                 aborts, escalation, author>>

(* The access state and the history row, and the transition: a router that *)
(* was not known to be bad, is, and is in no maintenance window, fell.     *)
Save(t) ==
  LET r == cur[t]
      bad == result[t][r] = "bad"
  IN /\ at[t] = "save"
     /\ access' = [access EXCEPT ![r] = result[t][r]]
     /\ fell' = [fell EXCEPT ![t] = IF bad /\ before[t][r] # "bad" /\ r \notin muted[t]
                                    THEN @ \cup {r} ELSE @]
     /\ author' = [author EXCEPT ![r] = t]
     /\ Goto(t, "judge")
     /\ UNCHANGED <<world, now, changes, alert, escalation, table, cur, snapshot, result,
                    verdict, aborts>>

-------------------------------------------------------------------------------
\* Mutant: the last level is shadowed by the one before.
DesiredShadowed(count, minutes) ==
  IF minutes >= Critical THEN 2
  ELSE IF minutes >= Escalate THEN 3
  ELSE IF count >= Warn THEN 1 ELSE 0
(* The level an outage has reached.                                        *)
Desired(count, minutes) ==
  IF minutes >= Escalate THEN 3
  ELSE IF minutes >= Critical THEN 2
  ELSE IF count >= Warn THEN 1 ELSE 0

Rises(desired, old) == desired > old

\* Mutant: any event of the last minutes counts as a repetition.
RepeatsAny(r, n) == latest[r].level > 0 /\ now - latest[r].when < Dedup
(* events.record drops an event whose severity and text are those of the   *)
(* router's last of the kind, less than Dedup ago.  The texts of one level *)
(* differ when the failures, the minutes or the issue do.                  *)
Repeats(r, n) == latest[r].level = n /\ now - latest[r].when < Dedup

(* _update_alert_state reads the row and announces a level above the one   *)
(* it read, unless the router was in a maintenance window when the tick    *)
(* began.                                                                  *)
Announce(r, n) ==
  \/ /\ latest' = [latest EXCEPT ![r] = [level |-> n, when |-> now]]
     /\ heard' = [heard EXCEPT ![r][n] = now]
  \/ Repeats(r, n) /\ UNCHANGED escalation
Withhold(r, n) == heard' = [heard EXCEPT ![r][n] = now] /\ UNCHANGED latest

Judge(t) ==
  LET r == cur[t]
      start == IF since[r] = NoTime THEN checked[t] ELSE since[r]
      count == Counted(failures[r])
      desired == Desired(count, checked[t] - start)
      rises == Rises(desired, level[r])
  IN /\ at[t] = "judge" /\ result[t][r] = "bad"
     /\ newFailures' = [newFailures EXCEPT ![t] = count]
     /\ newSince' = [newSince EXCEPT ![t] = start]
     /\ newLevel' = [newLevel EXCEPT ![t] = desired]
     /\ \/ rises /\ r \notin muted[t] /\ Announce(r, desired)
        \/ rises /\ r \in muted[t] /\ Withhold(r, desired)
        \/ ~rises /\ UNCHANGED escalation
     /\ Goto(t, "write")
     /\ UNCHANGED <<world, now, changes, access, alert, author, table, cur, snapshot, found,
                    aborts>>

(* ... and writes it, in another transaction: the level is stored whether  *)
(* or not it was announced.                                                *)
Write(t) ==
  LET r == cur[t]
  IN /\ at[t] = "write"
     /\ failures' = [failures EXCEPT ![r] = newFailures[t]]
     /\ level' = [level EXCEPT ![r] = newLevel[t]]
     /\ since' = [since EXCEPT ![r] = newSince[t]]
     /\ ForgetVerdict(t)
     /\ NextRouter(t)
     /\ UNCHANGED <<world, now, changes, access, table, snapshot, found, aborts,
                    escalation, author>>

(* The same for a router that answered: nothing it read matters.           *)
WriteHealthy(t) ==
  /\ at[t] = "judge" /\ result[t][cur[t]] = "ok"
  /\ EndOutage(cur[t])
  /\ NextRouter(t)
  /\ UNCHANGED <<world, now, changes, access, escalation, author, table, snapshot, found,
                 verdict, aborts>>

-------------------------------------------------------------------------------
IsFirstFree(i) == incident[i] = "none" /\ \A j \in Incidents : incident[j] = "none" => i <= j
Recent(i) == incident[i] = "open" /\ openedAt[i] >= now - Window

(* Correlation: is there an open incident of the last minutes ...          *)
Correlate(t) ==
  /\ at[t] = "correlate"
  /\ Goto(t, IF Cardinality(fell[t]) >= 2 /\ \A i \in Incidents : ~Recent(i)
             THEN "open" ELSE "resolve")
  /\ UNCHANGED <<world, now, changes, access, alert, table, cur, snapshot, found, verdict,
                 aborts, escalation, author>>

(* ... if not, one is inserted: no transaction spans the look and this.    *)
Open(t) ==
  /\ at[t] = "open"
  /\ \E i \in Incidents :
       /\ IsFirstFree(i)
       /\ incident' = [incident EXCEPT ![i] = "open"]
       /\ victims' = [victims EXCEPT ![i] = fell[t]]
       /\ openedAt' = [openedAt EXCEPT ![i] = checked[t]]
  /\ Goto(t, "resolve")
  /\ UNCHANGED <<world, now, changes, access, alert, cur, snapshot, found, verdict, aborts,
                 escalation, author>>

\* Mutants: the results of the tick before; no inactive routers.
RecoveredBefore(t, r) == before[t][r] = "ok" \/ r \in inactive[t]
RecoveredProbed(t, r) == result[t][r] = "ok"
(* Every open incident all of whose routers this tick found healthy or     *)
(* inactive is resolved.                                                   *)
Recovered(t, r) == result[t][r] = "ok" \/ r \in inactive[t]
Resolve(t) ==
  /\ at[t] = "resolve"
  /\ incident' = [i \in Incidents |->
       IF incident[i] = "open" /\ victims[i] # {} /\ \A r \in victims[i] : Recovered(t, r)
       THEN "resolved" ELSE incident[i]]
  /\ Goto(t, "idle")
  /\ Forget(t)
  /\ UNCHANGED <<world, now, changes, access, alert, victims, openedAt, aborts, escalation,
                 author>>

(* A tick raises (the database is locked, wg does not answer) or is killed.*)
Abort(t) ==
  /\ at[t] # "idle" /\ aborts < MaxAborts
  /\ aborts' = aborts + 1
  /\ Goto(t, "idle")
  /\ Forget(t)
  /\ UNCHANGED <<world, now, changes, access, alert, escalation, author, table>>

Tick(t) == \/ Begin(t) \/ Skip(t) \/ Probe(t) \/ Save(t) \/ Judge(t) \/ Write(t)
           \/ WriteHealthy(t) \/ Correlate(t) \/ Open(t) \/ Resolve(t)

-------------------------------------------------------------------------------
(* The world: links fail and return, of one site or of many; administrators*)
(* disable, retire and enable routers, and open and end maintenance        *)
(* windows; time passes.                                                   *)
Change ==
  /\ changes < MaxChanges
  /\ changes' = changes + 1
  /\ \/ /\ \E S \in SUBSET Routers \ {{}} :
             healthy' = [r \in Routers |-> IF r \in S THEN ~healthy[r] ELSE healthy[r]]
          /\ UNCHANGED <<active, quiet>>
     \/ /\ \E r \in Routers : active' = [active EXCEPT ![r] = ~@]
        /\ UNCHANGED <<healthy, quiet>>
     \/ /\ \E r \in Routers : quiet' = [quiet EXCEPT ![r] = ~@]
        /\ UNCHANGED <<healthy, active>>
  /\ UNCHANGED <<now, access, alert, table, at, cur, snapshot, found, verdict, aborts,
                 escalation, author>>

Advance ==
  /\ now < MaxTime
  /\ now' = now + 1
  /\ UNCHANGED <<world, changes, access, alert, table, at, cur, snapshot, found, verdict,
                 aborts, escalation, author>>

Next == (\E t \in Tickers : Tick(t) \/ Abort(t)) \/ Change \/ Advance

Spec == Init /\ [][Next]_vars

(* systemd starts the timer's tick again a minute after it ended.          *)
FairSpec == Spec /\ WF_vars(Tick("timer")) /\ WF_vars(Advance)

-------------------------------------------------------------------------------
(* Properties.                                                             *)

(* Level n, or one above it, was announced during the outage that began at *)
(* start, or so shortly before that events.record may take it for the same;*)
(* or a maintenance window held the announcement back.                     *)
Told(r, n, start) ==
  \E m \in n..3 : m > 0 /\ heard[r][m] # NoTime /\ heard[r][m] + Dedup > start

(* Every level that an alert row stores was announced, as just defined,    *)
(* however ticks overlap and die: the level a row stores is never one that *)
(* nobody was told of (_update_alert_state, events.record).                *)
LevelsAreAnnounced ==
  \A r \in Routers : level[r] > 0 => Told(r, level[r], since[r])

(* The comment of guardian_tick has incidents resolved once every affected *)
(* router is healthy.  That is not so by the latest stored result, over    *)
(* which an overlapping tick may have stored a failure; this is: the tick  *)
(* that resolves an incident found each of its routers out of service, or  *)
(* probed it and stored a good result, over which at most another tick has *)
(* stored since.                                                           *)
ResolvedOnFindings ==
  [][\A i \in Incidents : incident[i] = "open" /\ incident'[i] = "resolved" =>
       \E t \in Tickers :
         /\ at[t] = "resolve"
         /\ \A r \in victims[i] :
              \/ r \in inactive[t]
              \/ result[t][r] # "none" /\ (author[r] = t => access[r] = "ok")]_vars

(* Once every router is back or out of service for good, every incident is *)
(* resolved, whatever aborted on the way.                                  *)
IncidentsEnd ==
  <>[](\A r \in Routers : healthy[r] \/ ~active[r]) =>
    <>[](\A i \in Incidents : incident[i] # "open")

(* An outage that lasts is escalated to the last level, or a window held   *)
(* the escalation back.  (The outage has to start before the clock's bound *)
(* is too near for it to last.)                                            *)
OutagesEscalate ==
  \A r \in Routers :
    <>[](since[r] # NoTime /\ since[r] + Escalate <= MaxTime /\ r \notin inactive["timer"]) =>
      <>[]Told(r, 3, since[r])

-------------------------------------------------------------------------------
(* The inductive invariant, for any ticks.                                 *)

(* Clocks read are clocks past, and a level has an outage it belongs to.   *)
Dated ==
  /\ \A r \in Routers :
       /\ since[r] <= now /\ (level[r] > 0 => since[r] # NoTime)
       /\ \A n \in 1..3 : heard[r][n] <= now
  /\ \A t \in Tickers :
       checked[t] <= now /\ newSince[t] <= now /\ (at[t] = "write" => newSince[t] # NoTime)

(* The last escalation was heard of, and so was every level that is stored *)
(* or about to be.                                                         *)
Announced ==
  /\ LevelsAreAnnounced
  /\ \A r \in Routers :
       latest[r].level > 0 => /\ heard[r][latest[r].level] # NoTime
                              /\ heard[r][latest[r].level] >= latest[r].when
  /\ \A t \in Tickers :
       at[t] = "write" /\ newLevel[t] > 0 => Told(cur[t], newLevel[t], newSince[t])

(* The results of a tick are those it has stored, and what is stored if no *)
(* other tick has stored since.                                            *)
Stored ==
  \A t \in Tickers, r \in Routers :
    \/ result[t][r] = "none" \/ author[r] # t \/ access[r] = result[t][r]
    \/ at[t] = "save" /\ cur[t] = r

IInv == Dated /\ Announced /\ Stored
================================================================================
