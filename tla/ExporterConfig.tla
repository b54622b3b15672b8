--------------------------- MODULE ExporterConfig ---------------------------
(***************************************************************************)
(* What the configuration decides: which tenants are asked for, which      *)
(* modules a refresh attempts and in which order, and which modules have   *)
(* to be fresh for the exporter to call itself ready.  Everything here is  *)
(* fixed for the life of the process (collector/cache.go, config.go).      *)
(*                                                                         *)
(* Tenant lists are sets: normalizeTenantNames drops empty names and       *)
(* duplicates, and no behaviour depends on the sorted order.               *)
(***************************************************************************)
EXTENDS Naturals, Sequences

CONSTANTS
  TenantNames,  \* every name the controller may list or the config may name
  Static,       \* the explicit names of cfg.Tenants
  Wildcard,     \* TRUE when cfg.Tenants contains "*"
  Disabled      \* cfg.DisabledModules

ASSUME TenancyAssumption ==
  /\ "admin" \in TenantNames
  /\ "" \notin TenantNames
  /\ Static \subseteq TenantNames
  /\ Wildcard \in BOOLEAN

-----------------------------------------------------------------------------
(***************************************************************************)
(* The modules, in the order RefreshOnce (with refreshServiceEngines and   *)
(* refreshAdminVSAnalytics) and refreshTenant run them.                    *)
(***************************************************************************)
MainPlan ==
  << "tenant_discovery", "cluster", "cluster_inventory", "controller_metrics",
     "se_config", "se_list", "se_inventory", "se_metrics", "admin_vs_metrics" >>

TenantPlan ==
  << "vs_list", "vs_inventory", "vs_metrics",
     "pool_list", "pool_inventory", "pool_metrics", "pool_members",
     "vsvip_list", "vsvip", "pool_group", "gslb", "topology" >>

MainModules ==
  { "tenant_discovery", "cluster", "cluster_inventory", "controller_metrics",
    "se_config", "se_list", "se_inventory", "se_metrics", "admin_vs_metrics" }

TenantModules ==
  { "vs_list", "vs_inventory", "vs_metrics",
    "pool_list", "pool_inventory", "pool_metrics", "pool_members",
    "vsvip_list", "vsvip", "pool_group", "gslb", "topology" }

Modules == MainModules \union TenantModules

\* Modules that only fetch a list the others render: they own no series.
Lists == { "se_list", "vs_list", "pool_list", "vsvip_list" }

\* Modules that render a list already in hand: no request, so no failure.
LocalRenders == { "se_inventory", "vs_inventory", "pool_inventory", "vsvip" }

\* The list a module is built from; the module is not even attempted when the
\* list could not be fetched in the same refresh.
ListOf ==
  [ se_inventory   |-> "se_list",
    vs_inventory   |-> "vs_list",   vs_metrics   |-> "vs_list",
    pool_inventory |-> "pool_list", pool_metrics |-> "pool_list",
    pool_members   |-> "pool_list", vsvip        |-> "vsvip_list" ]

Enabled(m) == m \notin Disabled

\* The modules for whose sake a list is fetched.
Users(list) ==
  CASE list = "se_list"    -> { "se_inventory" }
    [] list = "vs_list"    -> { "vs_inventory", "vs_metrics", "topology" }
    [] list = "pool_list"  -> { "pool_inventory", "pool_metrics",
                                "pool_members", "topology" }
    [] list = "vsvip_list" -> { "vsvip", "topology" }

\* Does the configuration want module m attempted at all?  A list is wanted
\* for the sake of its users (RefreshOnce, refreshServiceEngines, refreshTenant).
Wanted(m) ==
  CASE m = "tenant_discovery" -> Wildcard
    [] m = "admin_vs_metrics" ->
         Wildcard /\ Enabled("vs_metrics") /\ Enabled("admin_vs_metrics")
    [] m \in Lists            -> \E u \in Users(m) : Enabled(u)
    [] OTHER                  -> Enabled(m)

-----------------------------------------------------------------------------
(* configuredTenants: the default is admin, unless "*" was given. *)
StaticTenants ==
  IF Static = {} /\ ~Wildcard THEN {"admin"} ELSE Static

(* shouldCollectAdminVSAnalytics *)
CollectsAdminVS(tenantSet) ==
  /\ Enabled("vs_metrics")
  /\ Enabled("admin_vs_metrics")
  /\ Wildcard
  /\ tenantSet # {}
  /\ "admin" \notin tenantSet

(* The tenants one refresh asks for, given the two lists the controller can *)
(* answer with: /login's list wins, /api/tenant is used when it is empty.   *)
DiscoveredTenants(loginNames, apiNames) ==
  StaticTenants \union (IF loginNames = {} THEN apiNames ELSE loginNames)

(* expectedTenantsLocked *)
ExpectedTenants(tenantSet) ==
  IF tenantSet # {} THEN tenantSet
  ELSE IF Wildcard THEN {} ELSE StaticTenants

(* May a refresh attempt module m, with the modules in done already         *)
(* successful and tenantSet as the tenants of this refresh?                 *)
Attempts(m, done, tenantSet) ==
  /\ Wanted(m)
  /\ m = "admin_vs_metrics" => CollectsAdminVS(tenantSet)
  /\ m \in DOMAIN ListOf => ListOf[m] \in done

(* What a refresh must have fetched before it may rebuild the topology.     *)
TopologyInputs ==
  { "vs_list", "pool_list", "vsvip_list" }
    \union { m \in { "pool_group", "pool_members" } : Enabled(m) }

-----------------------------------------------------------------------------
(* requiredModuleKeysLocked, part by part: the modules readiness asks for.  *)
RequiredMain ==
  { m \in MainModules :
      CASE m = "tenant_discovery" -> Wildcard
        [] m = "se_list"          -> Enabled("se_inventory")
        [] m = "admin_vs_metrics" -> FALSE
        [] OTHER                  -> Enabled(m) }

RequiredPerTenant ==
  { m \in TenantModules :
      CASE m = "vs_list" ->
             Enabled("vs_inventory") \/ Enabled("vs_metrics") \/ Enabled("topology")
        [] m = "pool_list" ->
             \/ Enabled("pool_inventory") \/ Enabled("pool_metrics")
             \/ Enabled("pool_members")   \/ Enabled("topology")
        [] m = "vsvip_list" -> Enabled("vsvip") \/ Enabled("topology")
        [] OTHER -> Enabled(m) }

RequiredKeys(tenantSet) ==
  LET expected == ExpectedTenants(tenantSet) IN
  (RequiredMain \X {""})
    \union (IF CollectsAdminVS(expected)
              THEN { <<"admin_vs_metrics", "admin">> } ELSE {})
    \union (RequiredPerTenant \X expected)
=============================================================================
