--------------------------- MODULE SchemaHistory ---------------------------
(***************************************************************************)
(* The statements of app/migrations.py, migration by migration.  A table   *)
(* is named with those of its columns that an index, a later migration or  *)
(* an update of data mentions; types, defaults and keys are left out.      *)
(*                                                                         *)
(* `script' tells the two ways a statement is sent apart: executescript    *)
(* commits an open transaction and runs each statement by itself, execute  *)
(* joins the transaction that an earlier INSERT or UPDATE has opened.      *)
(***************************************************************************)
EXTENDS Naturals, Sequences

Statement(kind, t, cols) == [kind |-> kind, of |-> t, cols |-> cols, script |-> FALSE]

\* CREATE TABLE IF NOT EXISTS, CREATE [UNIQUE] INDEX IF NOT EXISTS,
\* INSERT OR IGNORE of the one row of a settings table
Table(t, cols) == Statement("table", t, cols)
Index(t, cols) == Statement("index", t, cols)
UniqueIndex(t, cols) == Statement("unique", t, cols)
Seed(t) == Statement("seed", t, {})

\* ALTER TABLE ADD COLUMN, each behind _has_column
Columns(t, cols) == [i \in DOMAIN cols |-> Statement("column", t, {cols[i]})]

\* the two migrations of data
RetireRequests == Statement("retire", "router_ai_analyses", {"trigger_source", "status"})
ClearDuplicates == Statement("clear", "routers", {"id", "public_winbox_port"})

Script(statements) == [i \in DOMAIN statements |-> [statements[i] EXCEPT !.script = TRUE]]

-----------------------------------------------------------------------------
M1 ==
  Script(<<
      Table("schema_version", {}),
      Table("enrollment_tokens", {"provision_mode", "performance_profile"}),
      Table("routers", {"id", "model", "routeros_version", "routerboot_version",
            "winbox_port", "public_winbox_port"}),
      Table("authorized_ips", {}),
      Table("users", {}),
      Table("sessions", {})>>)

M2 ==
  Script(<<
      Table("operations_settings", {}),
      Seed("operations_settings"),
      Table("router_telemetry", {"router_id", "captured_at"}),
      Index("router_telemetry", {"router_id", "captured_at"}),
      Table("router_expected_state", {}),
      Table("router_backup_records", {"router_id", "created_at"}),
      Index("router_backup_records", {"router_id", "created_at"}),
      Table("approved_versions", {}),
      Table("router_update_status", {}),
      Table("router_rescue_ports", {}),
      Table("router_events", {"router_id", "event_at"}),
      Index("router_events", {"router_id", "event_at"}),
      Table("router_access_state", {}),
      Table("router_access_history", {"router_id", "checked_at"}),
      Index("router_access_history", {"router_id", "checked_at"}),
      Table("router_capabilities", {}),
      Table("router_jobs", {"id", "router_id", "status"}),
      Index("router_jobs", {"router_id", "status", "id"}),
      Index("router_jobs", {"status", "id"}),
      Table("provisioning_settings", {}),
      Seed("provisioning_settings")>>)

M3 ==
    Columns("enrollment_tokens", <<"provision_mode", "performance_profile">>)
  \o Columns("routers", <<"winbox_port", "public_winbox_port", "model", "routeros_version",
        "routerboot_version">>)

M4 ==
  <<Index("router_backup_records", {"router_id", "created_at"})>>

M5 ==
  Script(<<
      Table("fleet_settings", {}),
      Seed("fleet_settings"),
      Table("fleet_jobs", {}),
      Table("fleet_job_results", {"id", "job_id"}),
      Table("router_snapshots", {}),
      Table("fleet_findings", {"router_id", "detected_at"}),
      Index("fleet_job_results", {"job_id", "id"}),
      Index("fleet_findings", {"router_id", "detected_at"})>>)

M6 ==
  Script(<<
      Table("router_ai_analyses", {"id", "router_id", "status"}),
      Index("router_ai_analyses", {"router_id", "id"}),
      Index("router_ai_analyses", {"status", "id"})>>)

M7 ==
    Script(<<
      Table("change_transactions", {"id", "router_id"}),
      Index("change_transactions", {"router_id", "id"}),
      Table("change_transaction_steps", {"id", "transaction_id"}),
      Index("change_transaction_steps", {"transaction_id", "id"}),
      Table("router_maintenance", {}),
      Table("fleet_incidents", {"id", "status"}),
      Index("fleet_incidents", {"status", "id"})>>)
  \o Columns("router_access_history", <<"ssh_latency_ms", "winbox_latency_ms",
        "api_latency_ms">>)

M8 ==
    Script(<<
      Table("router_management_known_good", {}),
      Table("router_wan_history", {"router_id", "captured_at"}),
      Index("router_wan_history", {"router_id", "captured_at"})>>)
  \o Columns("router_snapshots", <<"source_kind", "source_id", "source_actor">>)

M9 ==
  Script(<<
      Table("router_access_alert_state", {}),
      Table("system_health_history", {"id"}),
      Index("system_health_history", {"id"}),
      Table("backup_verifications", {"id"}),
      Index("backup_verifications", {"id"})>>)

M10 ==
  Script(<<
      Table("router_resource_alerts", {}),
      Table("operator_audit_log", {"id", "actor"}),
      Index("operator_audit_log", {"id"}),
      Index("operator_audit_log", {"actor", "id"})>>)

M11 ==
  Columns("router_ai_analyses", <<"focus_start", "focus_end", "focus_note">>)

M12 ==
  Script(<<
      Table("router_public_ip_history", {"router_id", "public_ip", "last_seen_at"}),
      Index("router_public_ip_history", {"router_id", "last_seen_at"}),
      Index("router_public_ip_history", {"public_ip"})>>)

M13 ==
  Script(<<
      Table("router_policy_compliance", {}),
      Table("router_lte_history", {"router_id", "captured_at"}),
      Index("router_lte_history", {"router_id", "captured_at"})>>)

M14 ==
  Script(<<
      Table("router_interface_history", {"router_id", "captured_at", "name"}),
      Index("router_interface_history", {"router_id", "captured_at"}),
      Index("router_interface_history", {"router_id", "name", "captured_at"}),
      Table("router_outage_assessment", {}),
      Table("router_site_metadata", {})>>)

M15 ==
  Script(<<
      Table("router_object_protection", {"router_id", "object_type", "protected"}),
      Index("router_object_protection", {"router_id", "protected", "object_type"})>>)

M16 ==
    Columns("routers", <<"lifecycle_state", "lifecycle_updated_at", "lifecycle_updated_by">>)
  \o Script(<<
      Table("router_maintenance_history", {"id", "router_id", "occurred_at"}),
      Index("router_maintenance_history", {"router_id", "occurred_at", "id"}),
      Table("upgrade_campaigns", {}),
      Table("upgrade_campaign_members", {"id", "campaign_id", "stage", "status"}),
      Index("upgrade_campaign_members", {"campaign_id", "stage", "status", "id"})>>)

M17 ==
  Script(<<
      Table("planned_changes", {"id", "start_at", "status"}),
      Index("planned_changes", {"start_at", "status", "id"}),
      Table("hardware_inventory", {"id", "router_id", "category", "status"}),
      Index("hardware_inventory", {"router_id", "status", "category", "id"}),
      Table("router_certificates", {"router_id", "captured_at"}),
      Index("router_certificates", {"router_id", "captured_at"})>>)

M18 ==
  Script(<<
      Table("router_security_audit", {}),
      Table("router_automation_inventory", {"id", "router_id", "captured_at"}),
      Index("router_automation_inventory", {"router_id", "captured_at", "id"}),
      Table("router_traffic_history", {"id", "router_id", "captured_at", "interface"}),
      Index("router_traffic_history", {"router_id", "captured_at", "id"}),
      Index("router_traffic_history", {"router_id", "interface", "captured_at", "id"})>>)

M19 ==
  Script(<<
      Table("router_capacity_forecast", {}),
      Table("operator_notes", {"id", "router_id", "object_type", "object_id", "created_at"}),
      Index("operator_notes", {"router_id", "created_at", "id"}),
      Index("operator_notes", {"object_type", "object_id", "id"}),
      Table("customer_report_history", {"id", "router_id", "generated_at"}),
      Index("customer_report_history", {"router_id", "generated_at", "id"})>>)

M20 ==
  Script(<<
      Table("router_topology_devices", {"id", "router_id", "captured_at"}),
      Index("router_topology_devices", {"router_id", "captured_at", "id"}),
      Table("router_wan_probe_config", {}),
      Table("router_wan_probe_history", {"id", "router_id", "captured_at"}),
      Index("router_wan_probe_history", {"router_id", "captured_at", "id"}),
      Table("router_desired_state", {}),
      Table("router_desired_state_status", {})>>)

M21 ==
  Script(<<
      Table("router_replacements", {"id", "source_router_id", "target_router_id"}),
      Index("router_replacements", {"source_router_id", "id"}),
      Index("router_replacements", {"target_router_id", "id"}),
      Table("maintenance_automation_settings", {}),
      Seed("maintenance_automation_settings"),
      Table("maintenance_automation_runs", {}),
      Table("alert_queue", {"id", "router_id", "severity", "status", "last_seen_at"}),
      Index("alert_queue", {"status", "severity", "last_seen_at"}),
      Index("alert_queue", {"router_id", "status", "id"})>>)

M22 ==
  Script(<<
      Table("database_health_history", {"id", "checked_at"}),
      Index("database_health_history", {"checked_at", "id"})>>)

M23 ==
  Script(<<
      Table("retention_settings", {}),
      Seed("retention_settings"),
      Table("retention_cleanup_history", {"id", "ran_at"}),
      Index("retention_cleanup_history", {"ran_at", "id"}),
      Table("commissioning_checklist_settings", {}),
      Seed("commissioning_checklist_settings"),
      Table("commissioning_checklist_status", {})>>)

M24 ==
  Columns("retention_settings", <<"access_days", "wan_probe_days", "public_ip_days">>)

M25 ==
  Script(<<
      Table("router_time_health", {}),
      Table("router_mtu_history", {"id", "router_id", "captured_at"}),
      Index("router_mtu_history", {"router_id", "captured_at", "id"})>>)

M26 ==
  Columns("retention_settings", <<"mtu_days">>)

M27 ==
    Script(<<
      Table("router_public_ip_analysis", {}),
      Table("router_identity_collisions", {}),
      Table("router_local_utilization", {"id", "router_id", "captured_at"}),
      Index("router_local_utilization", {"router_id", "captured_at", "id"}),
      Table("router_model_capability_observations", {}),
      Table("router_model_capability_catalog", {}),
      Table("router_log_patterns", {"id", "router_id", "captured_at", "pattern_hash"}),
      Index("router_log_patterns", {"router_id", "captured_at", "id"}),
      Index("router_log_patterns", {"router_id", "pattern_hash", "captured_at"})>>)
  \o Columns("retention_settings", <<"local_utilization_days", "log_pattern_days">>)

M28 ==
    Script(<<
      Table("router_public_ip_sightings", {"id", "router_id", "observed_at"}),
      Index("router_public_ip_sightings", {"router_id", "observed_at", "id"})>>)
  \o Columns("retention_settings", <<"public_ip_sighting_days">>)

M29 ==
  Columns("router_local_utilization", <<"estimated_capacity_bps", "utilization_percent">>)

M30 ==
  Script(<<
      Table("router_hardware_lifecycle", {})>>)

M31 ==
    Script(<<
      Table("router_dns_health", {"id", "router_id", "captured_at"}),
      Index("router_dns_health", {"router_id", "captured_at", "id"}),
      Table("router_interface_negotiation", {}),
      Table("router_wan_quality", {"id", "router_id", "captured_at"}),
      Index("router_wan_quality", {"router_id", "captured_at", "id"}),
      Table("router_pppoe_history", {"id", "router_id", "captured_at"}),
      Index("router_pppoe_history", {"router_id", "captured_at", "id"}),
      Table("router_isp_gateway_history", {"id", "router_id", "captured_at"}),
      Index("router_isp_gateway_history", {"router_id", "captured_at", "id"}),
      Table("fleet_cross_site_anomalies", {"id", "detected_at", "status"}),
      Index("fleet_cross_site_anomalies", {"status", "detected_at", "id"}),
      Table("change_impact_analysis", {})>>)
  \o Columns("router_site_metadata", <<"circuit_down_mbps", "circuit_up_mbps">>)
  \o Columns("retention_settings", <<"dns_health_days", "wan_quality_days", "pppoe_days",
        "isp_gateway_days">>)

M32 ==
  Script(<<
      Table("user_training_progress", {"user_id", "status", "updated_at"}),
      Index("user_training_progress", {"user_id", "status", "updated_at"})>>)

M33 ==
    Columns("router_ai_analyses", <<"trigger_source">>)
  \o <<Index("router_ai_analyses", {"trigger_source", "status", "id"})>>

M34 ==
  Script(<<
      Table("user_ui_preferences", {"user_id", "updated_at"}),
      Index("user_ui_preferences", {"user_id", "updated_at"})>>)

M35 ==
  <<RetireRequests>>

M36 ==
    <<ClearDuplicates>>
  \o <<UniqueIndex("routers", {"public_winbox_port"})>>

-----------------------------------------------------------------------------

MIGRATIONS ==
  <<M1, M2, M3, M4, M5, M6, M7, M8, M9, M10, M11, M12, M13, M14, M15, M16, M17, M18,
    M19, M20, M21, M22, M23, M24, M25, M26, M27, M28, M29, M30, M31, M32, M33, M34,
    M35, M36>>

=============================================================================
