----------------------------- MODULE Migrations -----------------------------
(***************************************************************************)
(* The registry service's Postgres schema (registry-service/src/db):        *)
(* migrations.ts as the effect of each migration on tables, grants, row     *)
(* security and policies, and migrate.ts run by several services that start *)
(* on one database.  A migration and the record that it is applied are one  *)
(* transaction; the set of applied migrations is read once, before any.     *)
(***************************************************************************)
EXTENDS Integers, Sequences

CONSTANTS
    Services,      \* services that start on the database
    Tenants,       \* tenants of the database an earlier release left
    Releases,      \* releases a database can be at, as the number of migrations
    MaxCrashes     \* bound on crashes while migrating

\* What a migration does, by kind of statement, in the order they have in a file.
Nothing ==
    [creates   |-> {},     \* CREATE TABLE
     identity  |-> {},     \* ... of these, with an identity sequence
     owned     |-> {},     \* ... of these, without a tenant's foreign key
     columns   |-> {},     \* columns, checks and defaults that were altered
     tokens    |-> FALSE,  \* INSERT INTO tenant_tokens SELECT ... FROM tenants
     role      |-> FALSE,  \* CREATE ROLE toqar_app
     grantAll  |-> FALSE,  \* GRANT ... ON ALL TABLES: those there are then
     grants    |-> {},     \* GRANT ... ON these tables
     sequences |-> FALSE,  \* GRANT ... ON ALL SEQUENCES: those there are then
     rls       |-> {},     \* ENABLE ROW LEVEL SECURITY
     drops     |-> {},     \* DROP POLICY
     perRow    |-> {},     \* CREATE POLICY on current_setting(...)
     initPlan  |-> {}]     \* CREATE POLICY on (SELECT current_setting(...))

\* A tenant's table as every migration since 015 brings it in.
Isolated(tables) ==
    [Nothing EXCEPT !.creates = tables, !.grants = tables,
                    !.rls = tables, !.initPlan = tables]
\* ... and as 008 to 011 brought it in.
IsolatedPerRow(tables) ==
    [Nothing EXCEPT !.creates = tables, !.grants = tables,
                    !.rls = tables, !.perRow = tables]

M001_init ==
    [Nothing EXCEPT !.creates = {"tenants", "registry_entries", "audit_log"},
                    !.identity = {"audit_log"}]
M002_repo_context == [Nothing EXCEPT !.creates = {"repo_context"}]
M003_instrument_runs == [Nothing EXCEPT !.creates = {"instrument_runs"}]
M004_findings ==
    [Nothing EXCEPT !.creates = {"findings", "finding_deliveries", "finding_rejections"},
                    !.identity = {"finding_deliveries", "finding_rejections"}]
M005_autonomy_grants ==
    [Nothing EXCEPT !.creates = {"autonomy_grants"}, !.identity = {"autonomy_grants"}]
M006_tenant_tokens == [Nothing EXCEPT !.creates = {"tenant_tokens"}, !.tokens = TRUE]

FirstTables ==
    {"tenants", "registry_entries", "audit_log", "repo_context", "instrument_runs",
     "findings", "finding_deliveries", "finding_rejections", "autonomy_grants",
     "tenant_tokens"}
M007_rls ==
    [Nothing EXCEPT !.role = TRUE, !.grantAll = TRUE, !.sequences = TRUE,
                    !.rls = FirstTables, !.perRow = FirstTables]
M008_experiments == IsolatedPerRow({"experiments", "experiment_verdicts"})
M009_onboarding == IsolatedPerRow({"onboarding_timeline"})
M010_billing ==
    [IsolatedPerRow({"billing_accounts", "billing_invoices"})
        EXCEPT !.identity = {"billing_invoices"}]
M011_benchmark_optin == IsolatedPerRow({"benchmark_optin"})
M012_operator ==
    [Nothing EXCEPT !.creates = {"operator_tokens", "operator_audit"},
                    !.identity = {"operator_audit"},
                    !.owned = {"operator_tokens", "operator_audit"}]
M013_retention == [Nothing EXCEPT !.columns = {"retention_days"}]

PolicyTables ==
    FirstTables \cup {"experiments", "experiment_verdicts", "onboarding_timeline",
                      "billing_accounts", "billing_invoices", "benchmark_optin"}
M014_rls_initplan ==
    [Nothing EXCEPT !.sequences = TRUE, !.drops = PolicyTables, !.initPlan = PolicyTables]
M015_redaction_optout == [Nothing EXCEPT !.columns = {"redaction_optout"}]
M016_tenant_keys == Isolated({"tenant_keys"})
M017_erasure_audit ==
    [Nothing EXCEPT !.creates = {"erasure_audit"}, !.identity = {"erasure_audit"},
                    !.owned = {"erasure_audit"}]
M018_residency == [Nothing EXCEPT !.columns = {"residency"}]
M019_evals ==
    [Isolated({"eval_scores", "eval_datasets", "eval_dataset_cases"})
        EXCEPT !.identity = {"eval_dataset_cases"}, !.sequences = TRUE]
M020_alerts ==
    [Isolated({"alerts", "alert_events"})
        EXCEPT !.identity = {"alert_events"}, !.sequences = TRUE]
M021_autonomy_level3 ==
    [Isolated({"rollout_policies"}) EXCEPT !.columns = {"level_3"}]
M022_free_tier_default == [Nothing EXCEPT !.columns = {"free_tier"}]

MIGRATIONS ==
    <<M001_init, M002_repo_context, M003_instrument_runs, M004_findings,
      M005_autonomy_grants, M006_tenant_tokens, M007_rls, M008_experiments,
      M009_onboarding, M010_billing, M011_benchmark_optin, M012_operator,
      M013_retention, M014_rls_initplan, M015_redaction_optout, M016_tenant_keys,
      M017_erasure_audit, M018_residency, M019_evals, M020_alerts,
      M021_autonomy_level3, M022_free_tier_default>>
Last == 22  \* Len(MIGRATIONS)
Ids == 1..Last
-----------------------------------------------------------------------------
VARIABLES
    applied,  \* rows of the migrations table
    schema,   \* what the statements so far made of the database
    tokens,   \* tenants with a row in tenant_tokens
    pc, todo, \* per service: where it is, the migrations its loop has left
    crashes   \* history

vars == <<applied, schema, tokens, pc, todo, crashes>>

Empty == [tables |-> {"migrations"}, identity |-> {}, columns |-> {}, role |-> FALSE,
          granted |-> {}, sequences |-> {}, rls |-> {}, owned |-> {"migrations"},
          perRow |-> {}, initPlan |-> {}]

\* The statements of m, none of which may meet what is already there.
Fails(s, m) ==
    \/ m.creates \cap s.tables # {}
    \/ m.columns \cap s.columns # {}
    \/ m.role /\ s.role
    \/ (m.grantAll \/ m.grants # {} \/ m.sequences) /\ ~m.role /\ ~s.role
    \/ ~ (m.drops \subseteq s.perRow \cup s.initPlan)
    \/ (m.perRow \cup m.initPlan) \cap ((s.perRow \cup s.initPlan) \ m.drops) # {}
    \/ ~ (m.rls \cup m.grants \subseteq s.tables \cup m.creates)

Exec(s, m) ==
    LET tables == s.tables \cup m.creates
        identity == s.identity \cup m.identity IN
    [tables    |-> tables,
     identity  |-> identity,
     columns   |-> s.columns \cup m.columns,
     owned     |-> s.owned \cup m.owned,
     role      |-> s.role \/ m.role,
     granted   |-> s.granted \cup m.grants \cup (IF m.grantAll THEN tables ELSE {}),
     sequences |-> s.sequences \cup (IF m.sequences THEN identity ELSE {}),
     rls       |-> s.rls \cup m.rls,
     perRow    |-> (s.perRow \ m.drops) \cup m.perRow,
     initPlan  |-> (s.initPlan \ m.drops) \cup m.initPlan]

\* The database of the release that ended with migration n.
Released[n \in 0..Last] ==
    IF n = 0 THEN Empty ELSE Exec(Released[n - 1], MIGRATIONS[n])
-----------------------------------------------------------------------------
\* A fresh database, or one an earlier release left.
Init ==
    /\ \E n \in Releases \cap 0..Last :
          /\ applied = 1..n
          /\ schema = Released[n]
          /\ tokens = IF n < 6 THEN {} ELSE Tenants
    /\ pc = [s \in Services |-> "start"]
    /\ todo = [s \in Services |-> {}]
    /\ crashes = 0

\* CREATE TABLE IF NOT EXISTS migrations, then SELECT id FROM migrations: what was
\* applied then is skipped.
ReadApplied(s) ==
    /\ pc[s] = "start"
    /\ todo' = [todo EXCEPT ![s] = Ids \ applied]
    /\ pc' = [pc EXCEPT ![s] = "loop"]
    /\ UNCHANGED <<applied, schema, tokens, crashes>>

IsNext(s, i) == pc[s] = "loop" /\ i \in todo[s] /\ \A j \in todo[s] : i <= j

\* The id's INSERT fails on the primary key when another service was faster, if
\* no statement before it failed: what another transaction does to a table this
\* one waits for, so a transaction is one step.
Conflicts_Unrecorded(i) == FALSE  \* mutant: IF NOT EXISTS everywhere, and no key
Conflicts(i) == i \in applied \/ Fails(schema, MIGRATIONS[i])

\* One migration with its record, committed.
RunMigration(s, i) ==
    /\ IsNext(s, i) /\ ~Conflicts(i)
    /\ schema' = Exec(schema, MIGRATIONS[i])
    /\ tokens' = IF MIGRATIONS[i].tokens THEN Tenants ELSE tokens
    /\ applied' = applied \cup {i}
    /\ todo' = [todo EXCEPT ![s] = @ \ {i}]
    /\ UNCHANGED <<pc, crashes>>

\* The transaction is rolled back and migrate() rejects: the service fails to start.
MigrationFails(s, i) ==
    /\ IsNext(s, i) /\ Conflicts(i)
    /\ pc' = [pc EXCEPT ![s] = "failed"]
    /\ UNCHANGED <<applied, schema, tokens, todo, crashes>>

Finish(s) ==
    /\ pc[s] = "loop" /\ todo[s] = {}
    /\ pc' = [pc EXCEPT ![s] = "up"]
    /\ UNCHANGED <<applied, schema, tokens, todo, crashes>>

\* The process dies between two transactions, and its supervisor starts it again;
\* a failed start is started again as well.
Crash(s) ==
    /\ pc[s] = "loop" /\ crashes < MaxCrashes
    /\ crashes' = crashes + 1
    /\ pc' = [pc EXCEPT ![s] = "start"] /\ todo' = [todo EXCEPT ![s] = {}]
    /\ UNCHANGED <<applied, schema, tokens>>

Restart(s) ==
    /\ pc[s] = "failed"
    /\ pc' = [pc EXCEPT ![s] = "start"] /\ todo' = [todo EXCEPT ![s] = {}]
    /\ UNCHANGED <<applied, schema, tokens, crashes>>

Migrate(s) ==
    \/ ReadApplied(s) \/ Finish(s) \/ Restart(s)
    \/ \E i \in Ids : RunMigration(s, i) \/ MigrationFails(s, i)

Next == \E s \in Services : Migrate(s) \/ Crash(s)

Spec == Init /\ [][Next]_vars
-----------------------------------------------------------------------------
TypeOK ==
    /\ applied \subseteq Ids /\ tokens \subseteq Tenants /\ crashes \in 0..MaxCrashes
    /\ pc \in [Services -> {"start", "loop", "failed", "up"}]
    /\ \A s \in Services : todo[s] \subseteq Ids

\* The statements that ran are exactly those of the applied migrations, in order,
\* whatever crashed or raced.
SchemaMatchesApplied ==
    \E n \in 0..Last : applied = 1..n /\ schema = Released[n]

\* At no time, not between two migrations either, may toqar_app read a tenant's
\* table without row security, or an operator's table at all.
NeverExposed ==
    /\ schema.granted \ schema.owned \subseteq schema.rls \cap (schema.perRow \cup schema.initPlan)
    /\ schema.granted \cap schema.owned \subseteq {"migrations"}

\* A service that is up finds a schema it can work with: every tenant's table is
\* granted with its sequence, behind one policy in the initPlan form, and every
\* tenant of an older release has kept its token.
ServesOnlyWhenReady ==
    (\E s \in Services : pc[s] = "up") =>
        /\ schema.tables \ schema.owned = schema.granted \ schema.owned
        /\ schema.identity \ schema.owned \subseteq schema.sequences
        /\ schema.perRow = {} /\ schema.initPlan = schema.tables \ schema.owned
        /\ tokens = Tenants

\* A start fails only because another service was migrating as well.
FailsOnlyByRace ==
    \A s \in Services : pc[s] = "failed" => \E i \in todo[s] \cap applied : \A j \in todo[s] : i <= j

\* migrate(): what services and crashes make of the database is a released schema,
\* safe at every step and complete when one serves.
MigratesSafely ==
    SchemaMatchesApplied /\ NeverExposed /\ ServesOnlyWhenReady /\ FailsOnlyByRace
=============================================================================
