---- MODULE MCMonitors ----
(***************************************************************************)
(* Every monitor with a timeline of one event, which is all the comparison *)
(* with the last event looks at; everything else with a timeline of three. *)
(* For monitors of one small row the operators work the alerts and time    *)
(* passes; the tables of several rows leave both out.                      *)
(***************************************************************************)
EXTENDS Monitors
Small ==
  {"time-health", "wan-probe", "mtu", "compliance", "desired-state", "capacity", "public-ip",
   "wan-quality", "interface-negotiation", "isp-gateway", "reboot", "traffic", "log-pattern", "wan"}
Tables ==
  {"security-audit", "pppoe", "automation-inventory", "certificate", "dns-health", "resource",
   "identity-collision", "cross-site", "outage_classification"}
MCSetups ==
  [family : Small, rows : {1}, infos : {1}, worked : {TRUE}]
    \union [family : Tables, rows : {1}, infos : {1}, worked : {FALSE}]
    \union {[family |-> "others", rows |-> 3, infos |-> 1, worked |-> TRUE]}
TrafficOnly == {s \in MCSetups : s.family = "traffic"}
TimeHealthOnly == {s \in MCSetups : s.family = "time-health"}
MCRouters == {"r1", "r2"}
MCSites == {"s1", "s2", "s3"}
====
