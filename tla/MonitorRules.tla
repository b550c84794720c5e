---- MODULE MonitorRules ----
(***************************************************************************)
(* What each monitor makes of the answers it got: the verdict it stores    *)
(* for a router, a certificate, a resolver... and whether the change from  *)
(* the verdict stored before is announced, with which severity.  Numbers   *)
(* that are only compared with thresholds are kept at and beside them;     *)
(* texts, rates and histories that no verdict depends on are left out.     *)
(***************************************************************************)
EXTENDS Integers, FiniteSets, Sequences

CONSTANT Absent                           \* no row is stored yet

Answers == {"yes", "no", "none"}          \* True, False, None

Worst(bad, dubious, good) ==              \* three grades of a list of findings
  CASE bad -> "critical" [] ~bad /\ dubious -> "warning" [] OTHER -> good

(***************************************************************************)
(* time_health: drift of the clock, NTP client, time zone.                 *)
(***************************************************************************)
TimeSamples ==
  [answered : BOOLEAN, drift : {"unparsed", "small", "over_warn", "over_critical"},
   ntp : {"on", "off", "unknown"}, synchronized : Answers, standardZone : BOOLEAN]
TimeHealth(s) ==
  IF ~s.answered THEN "unknown"
  ELSE Worst(s.drift = "over_critical",
             \/ s.drift \in {"unparsed", "over_warn"}
             \/ s.ntp = "off"
             \/ s.ntp = "on" /\ s.synchronized = "no"
             \/ ~s.standardZone,
             IF s.ntp = "on" THEN "ok" ELSE "unknown")

(***************************************************************************)
(* wan_probe: default gateway, two Internet targets, a name to resolve.    *)
(***************************************************************************)
WanSamples == [gateway : Answers, target1 : Answers, target2 : Answers, dns : Answers, poor : BOOLEAN]
WanClass(s) ==
  LET of(a) == Cardinality({t \in {"target1", "target2"} : s[t] = a} )
  IN CASE s.gateway = "no" /\ of("no") = 2 /\ s.dns = "no" -> "site_or_upstream"
       [] s.gateway = "yes" /\ of("no") = 2 -> "upstream"
       [] of("yes") > 0 /\ s.dns = "no" -> "dns"
       [] of("yes") = 1 /\ of("no") = 1 /\ s.dns # "no" -> "partial"
       [] of("yes") = 2 /\ s.dns = "yes" -> (IF s.poor THEN "degraded_quality" ELSE "healthy")
       [] OTHER -> "unknown"

(***************************************************************************)
(* mtu_diagnostics: pings that may not be fragmented, largest size first.  *)
(***************************************************************************)
MtuSizes == {1500, 1492, 1400}
MtuSamples == [MtuSizes -> Answers]
PathMtu(s) ==
  LET works == {n \in MtuSizes : s[n] = "yes"}
      largest == CHOOSE n \in works : \A k \in works : k <= n
  IN IF works # {} THEN [status |-> IF largest >= 1492 THEN "ok" ELSE "warning", mtu |-> largest]
     ELSE [status |-> IF \E n \in MtuSizes : s[n] = "no" THEN "warning" ELSE "unknown", mtu |-> 0]

(***************************************************************************)
(* certificate_monitor: days until a certificate expires.                  *)
(***************************************************************************)
NoDate == 99
CertDays == {-1, 0, 7, 8, 30, 31, NoDate}
CertStatus(days) ==
  CASE days = NoDate -> "unknown"
    [] days < 0 -> "expired"
    [] days \in 0..7 -> "critical"
    [] days \in 8..30 -> "warning"
    [] OTHER -> "ok"

(***************************************************************************)
(* compliance: the golden policy, eleven checks that fail and three that   *)
(* warn.                                                                   *)
(***************************************************************************)
RequiredChecks ==
  {"wireguard", "wireguard_peer", "wireguard_address", "tikcentral_user", "tikcentral_key", "ssh",
   "winbox", "api", "mgmt_tcp", "admin_tcp", "admin_icmp"}
AdvisedChecks == {"dns", "ntp", "default_admin"}
PolicySamples == {{}} \union {{c, d} : c, d \in RequiredChecks \union AdvisedChecks}  \* the checks not met
Policy(unmet) ==
  CASE unmet \intersect RequiredChecks # {} -> "fail"
    [] unmet # {} /\ unmet \subseteq AdvisedChecks -> "warning"
    [] OTHER -> "pass"

(***************************************************************************)
(* desired_state: the checks the operator's intent asks for.  An answer    *)
(* that could not be read counts as routes, DNS and tunnel missing, but    *)
(* only warns about the services.                                          *)
(***************************************************************************)
IntentItems == {"services", "route", "dns", "wireguard"}
DesiredSamples == [asked : SUBSET IntentItems, answers : [IntentItems -> Answers]]
DesiredState(s) ==
  LET unmet == {i \in s.asked : s.answers[i] # "yes"}
      warns == {i \in unmet : i = "dns" \/ (i = "services" /\ s.answers[i] = "none")}
  IN CASE unmet \ warns # {} -> "fail" [] unmet # {} /\ unmet = warns -> "warning" [] OTHER -> "pass"

(***************************************************************************)
(* security_audit: IP services by restriction, and the other exposures;    *)
(* what is compared with the stored audit is the whole list of findings.   *)
(***************************************************************************)
ServiceStates == {"disabled", "managed", "foreign", "open", "unread"}
AuditSamples == [service : ServiceStates, discovery : {"closed", "open", "unread"}]
ServiceGrade(s) ==
  CASE s = "open" -> "critical" [] s \in {"foreign", "unread"} -> "warning" [] OTHER -> "pass"
SecurityAudit(s) ==
  [status |-> Worst(ServiceGrade(s.service) = "critical",
                    ServiceGrade(s.service) = "warning" \/ s.discovery # "closed", "pass"),
   findings |-> s]

(***************************************************************************)
(* capacity_forecast: five series of samples; a trend needs three of them  *)
(* and crosses its threshold within thirty days or not.  Traffic has no    *)
(* threshold.                                                              *)
(***************************************************************************)
Series == {"cpu", "memory", "traffic", "errors", "lte"}
TrendSamples == [Series -> {"short", "level", "crossing"}]
Capacity(s) ==
  CASE Cardinality({x \in Series : s[x] # "short"}) < 2 -> "insufficient_data"
    [] Cardinality({x \in Series : s[x] # "short"}) >= 2
         /\ \E x \in Series \ {"traffic"} : s[x] = "crossing" -> "warning"
    [] OTHER -> "ok"

(***************************************************************************)
(* public_ip_analysis: changes of the public address in 7, 30 and 90 days. *)
(***************************************************************************)
ChurnSamples ==
  {c \in [days7 : {0, 2, 3}, days30 : {0, 2, 3, 7, 8}, days90 : {0, 2, 3, 5, 6, 8}] :
     c.days7 <= c.days30 /\ c.days30 <= c.days90}
Churn(c) ==
  CASE c.days7 >= 3 \/ c.days30 >= 8 -> "high_churn"
    [] c.days7 < 3 /\ c.days30 < 8 /\ (c.days30 >= 3 \/ c.days90 >= 6) -> "changing"
    [] OTHER -> "stable"

(***************************************************************************)
(* network_quality: the circuit's load and what it does to the latency.    *)
(***************************************************************************)
LoadSamples == [measured : BOOLEAN, saturated : BOOLEAN, latency : {"none", "level", "doubled", "tripled"}]
Bufferbloat(s) ==
  CASE ~s.saturated -> "not_tested_under_load"
    [] s.saturated /\ s.latency = "none" -> "unknown"
    [] s.saturated /\ s.latency = "level" -> "not_observed_under_load"
    [] s.saturated /\ s.latency = "doubled" -> "warning"
    [] s.saturated /\ s.latency = "tripled" -> "severe"
WanQuality(s) ==
  CASE ~s.measured -> "unknown"           \* no traffic sample: nothing is saturated
    [] s.measured /\ ~s.saturated -> "ok"
    [] s.measured /\ s.saturated /\ Bufferbloat(s) \in {"warning", "severe"} -> "warning"
    [] OTHER -> "saturated"

(* The ISP gateway: a reading that is missing on one side is no change. *)
GatewaySamples == [gateway : {"unknown", "gw1", "gw2"}, mac : {"unknown", "mac1"}, reachable : Answers]
GatewayChanged(old, new) ==
  \/ old.gateway # new.gateway
  \/ old.mac # new.mac
  \/ "none" \notin {old.reachable, new.reachable} /\ old.reachable # new.reachable

(* A PPPoE session: running, the access concentrator it is served by. *)
SessionSamples == [running : Answers, ac : {"unknown", "ac1", "ac2"}]
SessionSeverity(old, new) ==
  IF new.running = "no" \/ ("unknown" \notin {old.ac, new.ac} /\ old.ac # new.ac)
  THEN "warning" ELSE "info"

(* One resolver: whether it resolved the test name, else whether it answers a ping. *)
ResolverSamples == [resolved : Answers, pinged : Answers]
ResolverOk(s) == IF s.resolved = "none" THEN s.pinged ELSE s.resolved

(* An Ethernet port against its previous sample. *)
PortSamples == [rate : {0, 100, 1000}, fullDuplex : Answers, running : BOOLEAN, flaps : {0, 2, 3}]
Downgraded(old, new) == old # Absent /\ 0 < new.rate /\ new.rate < old.rate
Negotiation(old, new) ==
  CASE Downgraded(old, new) \/ (new.fullDuplex = "no" /\ new.running) \/ new.flaps >= 3 -> "warning"
    [] new.running /\ new.flaps < 3 /\ new.fullDuplex # "no" /\ ~Downgraded(old, new) -> "ok"
    [] OTHER -> "unknown"

(***************************************************************************)
(* resource_monitor: an alert per metric, raised at the severity of the    *)
(* moment; and reboots, told from the uptime and put down to a job.        *)
(***************************************************************************)
LoadGrades == {"normal", "warn", "critical", "unknown"}
Uptimes == {30, 60, 600}                  \* seconds
Rebooted(old, new) == old # Absent /\ new.uptime + 60 < old.uptime
RebootSeverity(job) == IF job \in {"upgrade", "routerboot"} THEN "info" ELSE "warning"

(***************************************************************************)
(* traffic_monitor: rates (Mbit/s) from byte counters; a counter that went *)
(* back gives no rate.                                                     *)
(***************************************************************************)
CounterSamples == 0..9
NoRate == -1
TrafficRate(old, bytes) ==
  IF old = Absent THEN NoRate ELSE IF bytes < old.bytes THEN NoRate ELSE (bytes - old.bytes) * 2
Surge(old, rate) ==
  /\ old # Absent
  /\ rate # NoRate
  /\ old.rate >= 1
  /\ rate >= 10
  /\ rate >= 4 * old.rate

(* log_patterns: occurrences of one warning pattern, now and in the last capture. *)
PatternCounts == {0, 3, 9, 10, 29, 30}
PatternAlarm(old, count) ==
  /\ count >= 10
  /\ LET prior == IF old = Absent THEN 0 ELSE old
     IN prior = 0 \/ count >= 3 * prior

(***************************************************************************)
(* automation_inventory: the objects in the order the router printed them, *)
(* scripts, scheduler jobs and netwatch hosts; the stored ones come back   *)
(* ordered by type and name.                                               *)
(***************************************************************************)
ObjectTypes == <<"script", "scheduler", "netwatch">>
TypesByName == <<"netwatch", "scheduler", "script">>
InventorySamples == SUBSET {"script", "scheduler", "netwatch"}
InOrder(objects, order) == SelectSeq(order, LAMBDA t : t \in objects)
InventoryChanged(old, new) == InOrder(old, TypesByName) # InOrder(new, ObjectTypes)

(***************************************************************************)
(* ip_enrichment: the public address of the tunnel's peer; the change is   *)
(* told only with the answer of a lookup that is made and succeeds.        *)
(***************************************************************************)
AddressSamples == [address : {"ip1", "ip2"}, lookup : BOOLEAN, stale : BOOLEAN]
Known(old) == IF old = Absent THEN {} ELSE old.known
LooksUp(old, s) == s.address \notin Known(old) \/ s.stale
NewAddress(old, s) ==
  [latest |-> s.address,
   known |-> IF ~LooksUp(old, s) THEN Known(old)
             ELSE IF s.lookup THEN Known(old) \union {s.address} ELSE Known(old) \ {s.address}]
AddressTold(old, s) == old # Absent /\ old.latest # s.address /\ LooksUp(old, s) /\ s.lookup

(***************************************************************************)
(* The fleet: identities, correlated degradation, outage domains.          *)
(***************************************************************************)
Colliding(names) == {n \in {names[r] : r \in DOMAIN names} :
                       Cardinality({r \in DOMAIN names : names[r] = n}) > 1}

BadSites(sites) == {r \in DOMAIN sites : sites[r].bad}
Anomalies(sites) ==
  LET bad == BadSites(sites)
      on(p) == {r \in bad : sites[r].provider = p}
      providers == {sites[r].provider : r \in bad} \ {"unknown"}
  IN {p \in providers : Cardinality(on(p)) >= 2}
       \union {f \in {"fleet"} : Cardinality(bad) >= 3 /\ Cardinality(providers) >= 2}

Evidence == {"probe_site", "probe_dns", "sample_bad", "tunnel_lost", "nothing"}
Degraded(sites) == {r \in DOMAIN sites : sites[r].management = "failing"}
(* One router is enough to blame its ISP (a mutant). *)
SharedIspAlone(sites, r) ==
  sites[r].isp # "unknown" /\ \E q \in Degraded(sites) : sites[q].isp = sites[r].isp
SharedIsp(sites, r) ==
  /\ sites[r].isp # "unknown"
  /\ Cardinality({q \in Degraded(sites) : sites[q].isp = sites[r].isp}) >= 2
ManyIsps(sites) == Cardinality({sites[r].isp : r \in Degraded(sites)} \ {"unknown"}) >= 2
Domains == {"unknown", "healthy", "possible_control_plane", "likely_isp", "site_wan",
            "management_path", "router_management"}
OutageDomain(sites, r) ==
  CASE sites[r].management = "none" -> "unknown"
    [] sites[r].management \in {"ok", "failed_long_ago"} -> "healthy"
    [] r \in Degraded(sites) /\ ManyIsps(sites) -> "possible_control_plane"
    [] r \in Degraded(sites) /\ ~ManyIsps(sites) /\ SharedIsp(sites, r) -> "likely_isp"
    [] r \in Degraded(sites) /\ ~ManyIsps(sites) /\ ~SharedIsp(sites, r) ->
         CASE sites[r].evidence \in {"probe_site", "probe_dns", "sample_bad"} -> "site_wan"
           [] sites[r].evidence = "tunnel_lost" -> "management_path"
           [] OTHER -> "router_management"
====
