--------------------------- MODULE MCExporterCache ---------------------------
(***************************************************************************)
(* Instances of ExporterCache for TLC: each run explores the modules one   *)
(* question is about, and disables the rest, as cfg.DisabledModules would. *)
(***************************************************************************)
EXTENDS ExporterCache

Only(enabled) == Modules \ enabled

NoTenants == {}
OneTenant == {"admin"}
OtherTenant == {"t1"}
TwoTenants == {"admin", "t1"}
NoAging == {}

\* Wildcard discovery with the analytics of the tenants' and of admin's
\* virtual services.
OnlyVSMetrics == Only({"vs_metrics", "admin_vs_metrics"})
AgingAdminVS == {"admin_vs_metrics"}

\* Everything a tenant's worker runs, and the service engines, whose series
\* carry the names of tenants, the one that is not exported among them.
TenantAndSEConfig == Only(TenantModules \union {"se_config"})
=============================================================================
