---- MODULE Monitors ----
(***************************************************************************)
(* How a monitor's verdict becomes a line of the operators' timeline and   *)
(* an alert of their queue.                                                *)
(*                                                                         *)
(* A pass of a monitor asks the router, judges the answers                 *)
(* (MonitorRules), stores the verdicts and only then, in transactions of   *)
(* their own, records the events about those that changed.  It may be cut  *)
(* short anywhere: the process dies, or the database stays locked.  One    *)
(* behaviour follows one monitor; the pseudo monitor "others" stands for   *)
(* everything else that records events.                                    *)
(***************************************************************************)
EXTENDS MonitorRules, SequencesExt

CONSTANTS
  Setups,      \* records: family, how many events (rows) and infos of an owner are kept, and
               \* whether the queue is worked and events grow old (a bound)
  Routers,     \* the routers whose outages and identities are compared
  Sites        \* the sites whose degradation is correlated

ASSUME SetupsAssumption ==
  \A s \in Setups : /\ s.rows \in Nat \ {0} /\ s.infos \in Nat \ {0}
                    /\ s.infos <= s.rows /\ s.worked \in BOOLEAN
ASSUME RoutersAssumption == IsFiniteSet(Routers)

VARIABLES
  setup,    \* the monitor of this behaviour and the retention that is configured
  stored,   \* the verdict stored for every row that has one
  told,     \* what the timeline last said about a row; a first sample counts as told
  pass,     \* the pass under way
  log,      \* router_events of every owner, oldest first; the alert belongs to the event
  unsaid,   \* rows whose last change was stored and never told
  assessed, \* the rows the last pass wrote; none when it was cut before the last of them
  refused,  \* an alert's form ended in an error although the alert was there
  lost      \* the verdicts of a pass were undone by the event it tried to record

vars == <<setup, stored, told, pass, log, unsaid, assessed, refused, lost>>

family == setup.family

(* What a pass is about to do: transactions to write, then events to record. *)
Idle == [writes |-> <<>>, before |-> <<>>, says |-> <<>>]
Resting == pass = Idle

Stored(table, row) == IF row \in DOMAIN table THEN table[row] ELSE Absent

(***************************************************************************)
(* The readings of each monitor, grouped by the transaction that stores    *)
(* them.  Definitions without parameters are evaluated once.               *)
(***************************************************************************)
Reading(row, v) == [r \in {row} |-> v]
Alone(verdicts) == {<<Reading("router", v)>> : v \in verdicts}
OneByOne(rows, f) == [i \in DOMAIN rows |-> Reading(rows[i], f[rows[i]])]

TimeReadings == Alone({TimeHealth(s) : s \in TimeSamples})
WanReadings == Alone({WanClass(s) : s \in WanSamples})
MtuReadings == Alone({PathMtu(s) : s \in MtuSamples})
CertificateReadings ==
  {<<[cert1 |-> CertStatus(d), cert2 |-> CertStatus(e)]>> : d \in CertDays, e \in {0, 31}}
PolicyReadings == Alone({Policy(s) : s \in PolicySamples})
DesiredReadings == Alone({DesiredState(s) : s \in DesiredSamples})
AuditReadings == Alone({SecurityAudit(s) : s \in AuditSamples})
CapacityReadings == Alone({Capacity(s) : s \in TrendSamples})
ChurnReadings == Alone({Churn(s) : s \in ChurnSamples})
LoadReadings == Alone({WanQuality(s) : s \in LoadSamples})
DnsReadings ==
  LET ok == {ResolverOk(s) : s \in ResolverSamples}
  IN {OneByOne(<<"resolver1", "resolver2">>, f) : f \in [{"resolver1", "resolver2"} -> ok]}
PortReadings ==
  Alone({Negotiation(old, new) : old \in PortSamples \union {Absent}, new \in PortSamples})
ResourceReadings ==
  LET known == LoadGrades \ {"unknown"}
  IN {<<Reading("cpu", c)>> : c \in known}
       \union {<<Reading("cpu", c), Reading("memory", m)>> : c \in known, m \in known}
RebootReadings == Alone([uptime : Uptimes, job : {"none", "upgrade", "routerboot", "web_ssh"}])
CollisionReadings ==
  {<<[n \in {"name1", "name2"} |-> IF n \in Colliding(f) THEN {r \in Routers : f[r] = n} ELSE {}]>> :
     f \in [Routers -> {"name1", "name2"}]}
AnomalyReadings ==
  {<<[k \in {"isp1", "isp2", "fleet"} |-> k \in Anomalies(f)]>> :
     f \in [Sites -> [bad : BOOLEAN, provider : {"isp1", "isp2", "unknown"}]]}
OutageSamples(fleet) ==
  [fleet -> [management : {"none", "ok", "failing", "failed_long_ago"},
             isp : {"isp1", "isp2", "unknown"}, evidence : Evidence]]
(* Routers that are disabled or retired are neither counted nor rewritten. *)
OutageReadings ==
  UNION {{OneByOne(SetToSeq(fleet), [r \in fleet |-> OutageDomain(f, r)]) : f \in OutageSamples(fleet)} :
           fleet \in SUBSET Routers}

(* No row at all is told from every verdict about one. *)
Present(R) == \A w \in R : \A i \in DOMAIN w : Absent \notin Range(w[i])
ASSUME AbsentAssumption ==
  /\ Present(TimeReadings) /\ Present(WanReadings) /\ Present(MtuReadings)
  /\ Present(CertificateReadings) /\ Present(PolicyReadings) /\ Present(DesiredReadings)
  /\ Present(AuditReadings) /\ Present(CapacityReadings) /\ Present(ChurnReadings)
  /\ Present(Alone(SessionSamples))
  /\ Absent \notin BOOLEAN /\ Absent \notin {"active", "resolved"} \union Domains

Readings ==
  CASE family = "time-health" -> TimeReadings
    [] family = "wan-probe" -> WanReadings
    [] family = "mtu" -> MtuReadings
    [] family = "certificate" -> CertificateReadings
    [] family = "compliance" -> PolicyReadings
    [] family = "desired-state" -> DesiredReadings
    [] family = "security-audit" -> AuditReadings
    [] family = "capacity" -> CapacityReadings
    [] family = "public-ip" -> ChurnReadings
    [] family = "wan-quality" -> LoadReadings
    [] family = "dns-health" -> DnsReadings
    [] family = "interface-negotiation" -> PortReadings
    [] family = "isp-gateway" -> Alone(GatewaySamples)
    [] family = "pppoe" -> Alone(SessionSamples)
    [] family = "resource" -> ResourceReadings
    [] family = "reboot" -> RebootReadings
    [] family = "traffic" -> Alone(CounterSamples)
    [] family = "log-pattern" -> Alone(PatternCounts)
    [] family = "automation-inventory" -> Alone(InventorySamples)
    [] family = "wan" -> Alone(AddressSamples)
    [] family = "identity-collision" -> CollisionReadings
    [] family = "cross-site" -> AnomalyReadings
    [] family = "outage_classification" -> OutageReadings
    [] OTHER -> {}

(***************************************************************************)
(* The value a reading leaves in the row, given the value before.          *)
(***************************************************************************)
Value(old, reading) ==
  CASE family = "resource" -> reading # "normal"
    [] family = "reboot" -> [uptime |-> reading.uptime]
    [] family = "traffic" -> [bytes |-> reading, rate |-> TrafficRate(old, reading)]
    [] family = "automation-inventory" -> (IF reading = {} THEN old ELSE reading)
    [] family = "wan" -> NewAddress(old, reading)
    [] family = "cross-site" -> (IF reading THEN "active" ELSE IF old = "active" THEN "resolved" ELSE old)
    [] family = "identity-collision" -> (IF reading = {} THEN Absent ELSE reading)
    [] OTHER -> reading

(***************************************************************************)
(* Whether the change of a row is an event, and of which severity.         *)
(***************************************************************************)
(* Monitors that announce every change of a status but not the first sample. *)
Graded == {"time-health", "wan-probe", "mtu", "certificate", "compliance", "desired-state",
           "security-audit", "capacity", "public-ip", "pppoe"}
Quiet == {"healthy", "unknown", Absent}        \* outage domains that are no outage

Announced(old, new, reading) ==
  CASE family \in Graded -> old \notin {Absent, new}
    [] family = "wan-quality" -> old \notin {Absent, new} /\ new \in {"warning", "saturated"}
    [] family = "interface-negotiation" -> old \notin {Absent, "warning"} /\ new = "warning"
    [] family = "isp-gateway" -> old # Absent /\ GatewayChanged(old, new)
    [] family = "resource" -> new # (old = TRUE)
    [] family = "reboot" -> Rebooted(old, new)
    [] family = "traffic" -> Surge(old, new.rate)
    [] family = "log-pattern" -> PatternAlarm(old, new)
    [] family = "automation-inventory" -> old # Absent /\ InventoryChanged(old, reading)
    [] family = "wan" -> AddressTold(old, reading)
    [] family = "cross-site" -> new # old
    [] family = "identity-collision" -> old = Absent /\ new # Absent
    [] family = "outage_classification" ->
         new # old /\ (new \notin Quiet \/ (old \notin Quiet /\ new = "healthy"))

Severity(old, new, reading) ==
  CASE family = "time-health" -> (IF new \in {"critical", "warning"} THEN new ELSE "info")
    [] family = "wan-probe" -> (IF new \in {"healthy", "unknown"} THEN "info" ELSE "warning")
    [] family = "mtu" -> (IF new.status = "warning" THEN "warning" ELSE "info")
    [] family = "certificate" ->
         (CASE new \in {"critical", "expired"} -> "critical" [] new = "warning" -> "warning" [] OTHER -> "info")
    [] family \in {"compliance", "desired-state"} -> (IF new = "pass" THEN "info" ELSE "warning")
    [] family = "security-audit" -> (IF new.status = "pass" THEN "info" ELSE new.status)
    [] family = "capacity" -> (IF new = "warning" THEN "warning" ELSE "info")
    [] family = "public-ip" -> (IF new = "high_churn" THEN "warning" ELSE "info")
    [] family = "pppoe" -> SessionSeverity(old, new)
    [] family = "isp-gateway" -> (IF new.reachable = "no" THEN "warning" ELSE "info")
    [] family = "resource" -> (CASE reading = "normal" -> "info" [] reading = "warn" -> "warning" [] OTHER -> reading)
    [] family = "reboot" -> RebootSeverity(reading.job)
    [] family = "wan" -> "info"
    [] family = "cross-site" -> (IF new = "active" THEN "warning" ELSE "info")
    [] family = "outage_classification" -> (IF new = "healthy" THEN "info" ELSE "warning")
    [] OTHER -> "warning"

Owners(row, reading) ==                 \* the routers whose timelines the event goes to
  CASE family = "outage_classification" -> {row}
    [] family = "identity-collision" -> reading
    [] OTHER -> {"router"}

(* The events of a transaction that stores readings over a table. *)
EventsOf(table, readings) ==
  LET about(row) == [row |-> row, value |-> Value(Stored(table, row), readings[row]),
                     severity |-> Severity(Stored(table, row), Value(Stored(table, row), readings[row]), readings[row])]
      rows == {row \in DOMAIN readings :
                 Announced(Stored(table, row), Value(Stored(table, row), readings[row]), readings[row])}
  IN SetToSeq(UNION {{[owner |-> o, event |-> about(row)] : o \in Owners(row, readings[row])} : row \in rows})

(***************************************************************************)
(* The DNS checks keep one row per resolver and write it at once; what     *)
(* they announce is whether every resolver of the latest capture failed,   *)
(* as it was read before the pass and as the pass found it.                *)
(***************************************************************************)
WasDown(table) ==
  /\ \E r \in DOMAIN table : table[r] = "no"
  /\ \A r \in DOMAIN table : table[r] # "yes"
IsDown(table) == \A r \in DOMAIN table : table[r] = "no"
DnsEvents(before, after) ==
  CASE IsDown(after) /\ ~WasDown(before) ->
         <<[owner |-> "router", event |-> [row |-> "dns", value |-> "down", severity |-> "warning"]]>>
    [] WasDown(before) /\ ~IsDown(after) ->
         <<[owner |-> "router", event |-> [row |-> "dns", value |-> "up", severity |-> "info"]]>>
    [] OTHER -> <<>>

(***************************************************************************)
(* events.record and the queue.  An alert outlives its event; it is       *)
(* followed here as long as the event is kept.                             *)
(***************************************************************************)
Important(e) == e.severity # "info"
Newest(s, n) == IF Len(s) <= n THEN s ELSE SubSeq(s, Len(s) - n + 1, Len(s))
Same(e, f) == e.row = f.row /\ e.value = f.value /\ e.severity = f.severity

(* A timeline cut to its length before its infos are counted (a mutant). *)
RetainOneLimit(s) == Newest(s, setup.rows)

(* The elements of a finite set of numbers in increasing order. *)
InIncreasingOrder(S) ==
  CHOOSE f \in [1..Cardinality(S) -> S] : \A i, j \in DOMAIN f : i < j => f[i] < f[j]

(* Infos beyond their limit go first, then whatever is beyond the limit of all. *)
InfosAfter(s, i) == {j \in DOMAIN s : j > i /\ ~Important(s[j])}
Lasting(s) == {i \in DOMAIN s : Important(s[i]) \/ Cardinality(InfosAfter(s, i)) < setup.infos}
Retain(s) ==
  LET kept == InIncreasingOrder(Lasting(s))
  IN Newest([k \in DOMAIN kept |-> s[kept[k]]], setup.rows)

(* A repetition is anything about the same row (a mutant). *)
RepeatsRow(s, e) == s # <<>> /\ Last(s).row = e.row /\ Last(s).fresh

Repeats(s, e) == s # <<>> /\ Same(Last(s), e) /\ Last(s).fresh

Recorded(s, e) ==
  IF Repeats(s, e) THEN s
  ELSE Retain(Append(s, [row |-> e.row, value |-> e.value, severity |-> e.severity,
                         fresh |-> TRUE, alert |-> "none"]))

Statuses == {"new", "acknowledged", "assigned", "investigating", "resolved"}

(***************************************************************************)
(* The steps of a pass.                                                    *)
(***************************************************************************)
(* What everything else may record: two kinds of infos and of warnings. *)
OtherEvents ==
  {<<[owner |-> "router", event |-> [row |-> k, value |-> "said", severity |-> v]]>> :
     k \in {"kind1", "kind2"}, v \in {"info", "warning"}}

(* A router that has been assessed does not go back to "not yet assessed". *)
Possible(writes) ==
  family = "outage_classification" =>
    \A i \in DOMAIN writes : \A r \in DOMAIN writes[i] :
      writes[i][r] = "unknown" => Stored(stored, r) \in {Absent, "unknown"}

(* Two monitors read the verdict before they probe the router. *)
ReadsFirst == family \in {"dns-health", "capacity"}

Start ==
  /\ Resting
  /\ \/ \E w \in Readings : /\ Possible(w)
                            /\ pass' = [writes |-> w, before |-> IF ReadsFirst THEN stored ELSE <<>>, says |-> <<>>]
     \/ /\ family = "others"
        /\ \E e \in OtherEvents : pass' = [Idle EXCEPT !.says = e]
  /\ assessed' = {}
  /\ UNCHANGED <<setup, stored, told, log, unsaid, refused, lost>>

readings == Head(pass.writes)
LastWrite == Len(pass.writes) = 1

(* The table after a transaction; a capture of the DNS checks starts a new set of rows. *)
Written ==
  LET base == IF family = "dns-health" /\ ~LastWrite THEN <<>> ELSE stored
      all == [row \in DOMAIN readings \union DOMAIN base |->
                IF row \in DOMAIN readings THEN Value(Stored(base, row), readings[row]) ELSE base[row]]
  IN Restrict(all, {row \in DOMAIN all : all[row] # Absent})

Before == IF ReadsFirst THEN pass.before ELSE stored

EventsToSay ==
  IF family # "dns-health" THEN EventsOf(Before, readings)
  ELSE IF LastWrite THEN DnsEvents(Before, Written) ELSE <<>>

(* traffic_monitor records its event while its own transaction holds the write lock. *)
LocksItself == family = "traffic" /\ EventsToSay # <<>>

(* A first sample is what the timeline starts from. *)
FirstSaid ==
  LET first == DOMAIN Written \ DOMAIN told
  IN [row \in DOMAIN told \union first |-> IF row \in first THEN Written[row] ELSE told[row]]

(* A pass forgets the verdicts before once it has nothing more to do. *)
Rest(p) == IF p.writes = <<>> /\ p.says = <<>> THEN Idle ELSE p

Store ==
  /\ pass.writes # <<>> /\ pass.says = <<>>
  /\ ~LocksItself
  /\ stored' = Written
  /\ told' = FirstSaid
  /\ pass' = Rest([pass EXCEPT !.writes = Tail(@), !.says = EventsToSay])
  /\ assessed' = assessed \union DOMAIN readings
  /\ UNCHANGED <<setup, log, unsaid, refused, lost>>

Say ==
  /\ pass.says # <<>>
  /\ LET s == Head(pass.says)
     IN /\ log' = [log EXCEPT ![s.owner] = Recorded(@, s.event)]
        /\ told' = IF s.event.row \in DOMAIN told /\ ~Repeats(log[s.owner], s.event)
                   THEN [told EXCEPT ![s.event.row] = s.event.value] ELSE told
        /\ unsaid' = unsaid \ {s.event.row}
  /\ pass' = Rest([pass EXCEPT !.says = Tail(@)])
  /\ UNCHANGED <<setup, stored, assessed, refused, lost>>

(* The event's INSERT waits for the pass's own lock until it gives up; all the pass wrote is undone. *)
SelfLock ==
  /\ pass.writes # <<>> /\ pass.says = <<>>
  /\ LocksItself
  /\ pass' = Idle /\ lost' = TRUE
  /\ UNCHANGED <<setup, stored, told, log, unsaid, assessed, refused>>

(* The process dies or the database stays locked: what was not written or said is forgotten. *)
Cut ==
  /\ ~Resting
  /\ pass' = Idle
  /\ unsaid' = unsaid \union {pass.says[i].event.row : i \in DOMAIN pass.says}
  /\ assessed' = IF pass.writes = <<>> THEN assessed ELSE {}
  /\ UNCHANGED <<setup, stored, told, log, refused, lost>>

(***************************************************************************)
(* The queue, the operators, and time.                                     *)
(***************************************************************************)
Queued(e) == IF Important(e) /\ e.alert = "none" THEN [e EXCEPT !.alert = "new"] ELSE e

Sync ==
  /\ setup.worked
  /\ log' = [o \in DOMAIN log |-> [i \in DOMAIN log[o] |-> Queued(log[o][i])]]
  /\ UNCHANGED <<setup, stored, told, pass, unsaid, assessed, refused, lost>>

(* The form clears the time of resolution, in a column that may not be empty, unless it sets it. *)
Storable(status) == status = "resolved"
Update(o) ==
  /\ setup.worked
  /\ \E i \in DOMAIN log[o], s \in Statuses :
       /\ log[o][i].alert # "none"
       /\ IF Storable(s) THEN log' = [log EXCEPT ![o][i].alert = s] /\ UNCHANGED refused
          ELSE refused' = TRUE /\ UNCHANGED log
  /\ UNCHANGED <<setup, stored, told, pass, unsaid, assessed, lost>>

(* Events grow older than the time within which a repetition is dropped... *)
Age ==
  /\ setup.worked
  /\ log' = [o \in DOMAIN log |-> [i \in DOMAIN log[o] |-> [log[o][i] EXCEPT !.fresh = FALSE]]]
  /\ UNCHANGED <<setup, stored, told, pass, unsaid, assessed, refused, lost>>

(* ... and than the time they are kept. *)
Cleanup(o) ==
  /\ setup.worked
  /\ log[o] # <<>> /\ ~Head(log[o]).fresh
  /\ log' = [log EXCEPT ![o] = Tail(@)]
  /\ UNCHANGED <<setup, stored, told, pass, unsaid, assessed, refused, lost>>

Init ==
  /\ setup \in Setups
  /\ stored = <<>> /\ told = <<>>
  /\ pass = Idle
  /\ log = [o \in Routers \union {"router"} |-> <<>>]
  /\ unsaid = {} /\ assessed = {}
  /\ refused = FALSE /\ lost = FALSE

Next ==
  \/ Start \/ Store \/ Say \/ SelfLock \/ Cut
  \/ Sync \/ Age
  \/ \E o \in DOMAIN log : Update(o) \/ Cleanup(o)

Spec == Init /\ [][Next]_vars

(***************************************************************************)
(* Properties.                                                             *)
(***************************************************************************)
(* Monitors whose timeline is to end with the verdict that is stored.      *)
Turning == Graded \union {"resource", "cross-site", "outage_classification"}

Agree(row) ==
  \/ told[row] = stored[row]
  \/ family = "outage_classification" /\ {told[row], stored[row]} \subseteq Quiet

(* Between passes the last thing the timeline said about a row is the      *)
(* verdict that is stored for it, for the monitors of Turning, which store *)
(* one verdict per row and announce each change of it: neither the         *)
(* comparison with the verdict before nor the suppression of repeated      *)
(* events swallows a change.  A change that a cut pass stored and had not  *)
(* told is left out until the next one: no later pass sees it.  So are the *)
(* DNS checks, which announce both directions but judge the stored capture *)
(* otherwise than the new one (WasDown, IsDown): two captures that are the *)
(* same may be told as a recovery.  So are the monitors that announce one  *)
(* direction only.                                                         *)
LastWordStands ==
  family \in Turning /\ Resting => \A row \in DOMAIN stored \ unsaid : Agree(row)

(* An outage is put down to an ISP only together with another router of    *)
(* that ISP: among the rows that an assessment wrote, from its first to    *)
(* its last, none blames its ISP alone.  The rows of disabled and retired  *)
(* routers keep what an earlier assessment said of them, and an assessment *)
(* that was cut leaves its rows beside those of the one before.            *)
BlameIsShared ==
  family = "outage_classification" /\ Resting =>
    Cardinality({r \in assessed : stored[r] = "likely_isp"}) # 1

(* Retention never lets infos push a warning out: an important event that  *)
(* a recorded one drives out of a timeline leaves as many newer important  *)
(* events behind as the limits keep for them.                              *)
ImportantSurvive ==
  [][\A o \in DOMAIN log :
       Say /\ log[o] # <<>> /\ Important(Head(log[o])) /\ log'[o] # log[o] =>
         \/ log'[o] # <<>> /\ Head(log'[o]) = Head(log[o])
         \/ Cardinality({i \in DOMAIN log'[o] : Important(log'[o][i])}) >= setup.rows - setup.infos]_vars

(* An operator takes an alert from new over acknowledgement, assignment    *)
(* and investigation to its resolution: the form for it never fails.       *)
AlertsCanBeWorked == ~refused

(* A warning that a monitor has found surfaces in the timeline: recording  *)
(* it never undoes the pass that found it.                                 *)
WarningsSurface == ~lost
====
