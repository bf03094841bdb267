------------------------------ MODULE Databases ------------------------------
(***************************************************************************)
(* The databases: the control plane's Postgres and how services migrate it *)
(* (Migrations), the schema of the regional ClickHouse clusters (ChMigrate)*)
(* and the tenants' rows in them (DataPlane).  They share no state: a      *)
(* deployment is the conjunction of their specifications.                  *)
(***************************************************************************)

CONSTANTS
    Services, Customers, Releases, MaxCrashes,             \* of Migrations (its Tenants)
    Consumers, MaxInserts, MaxStops,                       \* of ChMigrate
    Events, TenantOf, SessionOf, MaxDeliveries, MaxMoves   \* of DataPlane

VARIABLES
    mig_applied, mig_schema, mig_tokens, mig_pc, mig_todo, mig_crashes,
    chm_recorded, chm_database, chm_at, chm_skips, chm_rows, chm_lost, chm_stops,
    chm_raced,
    dp_euCluster, dp_residency, dp_topic, dp_deliveries, dp_table, dp_rollup, dp_erasure,
    dp_target, dp_late, dp_drift, dp_moves, dp_resided

Mig == INSTANCE Migrations WITH Tenants <- Customers, applied <- mig_applied,
    schema <- mig_schema, tokens <- mig_tokens, pc <- mig_pc, todo <- mig_todo, crashes
    <- mig_crashes
Chm == INSTANCE ChMigrate WITH recorded <- chm_recorded, database <- chm_database, at <-
    chm_at, skips <- chm_skips, rows <- chm_rows, lost <- chm_lost, stops <- chm_stops, raced
    <- chm_raced
Dp == INSTANCE DataPlane WITH euCluster <- dp_euCluster, residency <- dp_residency, topic <-
    dp_topic, deliveries <- dp_deliveries, table <- dp_table, rollup <- dp_rollup, erasure <-
    dp_erasure, target <- dp_target, late <- dp_late, drift <- dp_drift, moves <- dp_moves, resided <-
    dp_resided

mig_vars == <<mig_applied, mig_schema, mig_tokens, mig_pc, mig_todo, mig_crashes>>
chm_vars == <<chm_recorded, chm_database, chm_at, chm_skips, chm_rows, chm_lost, chm_stops,
    chm_raced>>
dp_vars == <<dp_euCluster, dp_residency, dp_topic, dp_deliveries, dp_table, dp_rollup,
    dp_erasure, dp_target, dp_late, dp_drift, dp_moves, dp_resided>>
-----------------------------------------------------------------------------
\* Services that migrate together, or die and restart while they do, never expose or lose a
\* tenant's rows: a released schema, complete when one serves (db/migrate.ts, ch-migrate.ts).
DatabasesMigrateSafely == Mig!MigratesSafely /\ Chm!ChMigratesSafely

\* A tenant's rows are only in regions its residency routed to; a completed erasure left none in
\* the cluster it was run in but those that came in later, and none of another tenant's is
\* missing; the rollup counts the rows unless it was replayed, expired or erased past
\* (redpanda.ts, ch-migrate.ts, operator.ts).
DataPlaneSafe == Dp!DataPlaneSafe
=============================================================================
