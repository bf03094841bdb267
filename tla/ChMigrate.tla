----------------------------- MODULE ChMigrate ------------------------------
(***************************************************************************)
(* The ClickHouse schema (pipeline/src/ch-migrate.ts): the statements of    *)
(* CH_MIGRATIONS and chMigrate(), which services run one statement at a     *)
(* time, without a transaction, each when it starts; a service that is up   *)
(* inserts events.                                                          *)
(***************************************************************************)
EXTENDS Integers, Sequences

CONSTANTS
    Consumers,    \* services that call ensureSchema() when they start
    MaxInserts,   \* bound on the inserts of services that are up
    MaxStops      \* bound on crashes while migrating

\* A statement: what it needs, what it brings, what it takes away.
Statement(needs, gives, takes) == [needs |-> needs, gives |-> gives, takes |-> takes]
OnEvents == {"dedup_window", "retention_days", "ttl", "ttl_only_drop_parts"}

\* CREATE OR REPLACE TABLE events, CREATE TABLE IF NOT EXISTS executed_queries.
Ch001_events_v2 ==
    <<Statement({}, {"events"}, OnEvents), Statement({}, {"executed_queries"}, {})>>
Ch002_daily_rollups ==
    <<Statement({"events"}, {"dedup_window"}, {}),
      Statement({}, {"daily_rollups"}, {}),
      Statement({"events", "daily_rollups"}, {"daily_rollups_mv"}, {})>>
Ch003_retention_ttl ==
    <<Statement({"events"}, {"retention_days"}, {}),
      Statement({"events", "retention_days"}, {"ttl"}, {}),
      Statement({"events"}, {"ttl_only_drop_parts"}, {}),
      Statement({"executed_queries"}, {"citations_ttl"}, {})>>
CH_MIGRATIONS == <<Ch001_events_v2, Ch002_daily_rollups, Ch003_retention_ttl>>

Complete ==
    OnEvents \cup {"events", "executed_queries", "daily_rollups", "daily_rollups_mv",
                   "citations_ttl"}
-----------------------------------------------------------------------------
VARIABLES
    recorded,     \* ids in schema_migrations
    database,     \* what the statements made
    at,           \* per service: "down", "up", or <<migration, statements done>>
    skips,        \* per service: the applied set it read
    rows, lost,   \* events in the table; events a replaced table took with it
    stops, raced  \* history: crashes; two services migrated at the same time

vars == <<recorded, database, at, skips, rows, lost, stops, raced>>

Migrating(s) == at[s] \notin {<<"down">>, <<"up">>}

Init ==
    /\ recorded = {} /\ database = {}
    /\ at = [s \in Consumers |-> <<"down">>]
    /\ skips = [s \in Consumers |-> {}]
    /\ rows = 0 /\ lost = 0 /\ stops = 0 /\ raced = FALSE

\* SELECT id FROM schema_migrations.
ReadApplied(s) ==
    /\ at[s] = <<"down">>
    /\ at' = [at EXCEPT ![s] = <<1, 0>>]
    /\ skips' = [skips EXCEPT ![s] = recorded]
    /\ raced' = (raced \/ \E o \in Consumers \ {s} : Migrating(o))
    /\ UNCHANGED <<recorded, database, rows, lost, stops>>

IsApplied(s, i) == i \in skips[s]

SkipMigration(s) ==
    /\ Migrating(s) /\ at[s][1] <= Len(CH_MIGRATIONS) /\ IsApplied(s, at[s][1])
    /\ at' = [at EXCEPT ![s] = <<at[s][1] + 1, 0>>]
    /\ UNCHANGED <<recorded, database, skips, rows, lost, stops, raced>>

Runs(s, i, n) ==
    Migrating(s) /\ at[s] = <<i, n>> /\ i <= Len(CH_MIGRATIONS) /\ ~IsApplied(s, i)

\* One ch.command(): the next statement of the migration.
RunStatement(s, i, n) ==
    /\ Runs(s, i, n) /\ n < Len(CH_MIGRATIONS[i])
    /\ LET st == CH_MIGRATIONS[i][n + 1] IN
       /\ st.needs \subseteq database
       /\ database' = (database \ st.takes) \cup st.gives
       /\ IF st.takes # {} THEN rows' = 0 /\ lost' = lost + rows
                           ELSE UNCHANGED <<rows, lost>>
    /\ at' = [at EXCEPT ![s] = <<i, n + 1>>]
    /\ UNCHANGED <<recorded, skips, stops, raced>>

\* A statement ClickHouse refuses: chMigrate() rejects and the service does not start.
StatementFails(s, i, n) ==
    /\ Runs(s, i, n) /\ n < Len(CH_MIGRATIONS[i])
    /\ ~ (CH_MIGRATIONS[i][n + 1].needs \subseteq database)
    /\ at' = [at EXCEPT ![s] = <<"down">>]
    /\ UNCHANGED <<recorded, database, skips, rows, lost, stops, raced>>

\* INSERT INTO schema_migrations, after the migration's last statement.
Record(s, i) ==
    /\ Runs(s, i, Len(CH_MIGRATIONS[i]))
    /\ recorded' = recorded \cup {i}
    /\ at' = [at EXCEPT ![s] = <<i + 1, 0>>]
    /\ UNCHANGED <<database, skips, rows, lost, stops, raced>>

ComeUp(s) ==
    /\ Migrating(s) /\ at[s][1] > Len(CH_MIGRATIONS)
    /\ at' = [at EXCEPT ![s] = <<"up">>]
    /\ UNCHANGED <<recorded, database, skips, rows, lost, stops, raced>>

\* The process dies between two commands, or after it came up, and starts again.
Stop(s) ==
    /\ at[s] # <<"down">> /\ stops < MaxStops
    /\ at' = [at EXCEPT ![s] = <<"down">>]
    /\ stops' = stops + 1
    /\ UNCHANGED <<recorded, database, skips, rows, lost, raced>>

InsertEvents(s) ==
    /\ at[s] = <<"up">> /\ "events" \in database /\ rows + lost < MaxInserts
    /\ rows' = rows + 1
    /\ UNCHANGED <<recorded, database, at, skips, lost, stops, raced>>

Next ==
    \E s \in Consumers :
        \/ ReadApplied(s) \/ SkipMigration(s) \/ ComeUp(s) \/ Stop(s) \/ InsertEvents(s)
        \/ \E i \in DOMAIN CH_MIGRATIONS :
              \/ Record(s, i)
              \/ \E n \in 0..Len(CH_MIGRATIONS[i]) :
                    RunStatement(s, i, n) \/ StatementFails(s, i, n)

Spec == Init /\ [][Next]_vars
-----------------------------------------------------------------------------
\* Events disappear only when a service replaces the table that another service,
\* which migrated at the same time, had already brought up and filled: a crash
\* before the record, and any restart later on, take nothing.
LostOnlyByRace == lost > 0 => raced

\* A service that is up, while none migrates, finds the whole schema: also after a
\* race that nobody died in, and after any crash nobody raced with.
CompleteWhenUp ==
    /\ \E s \in Consumers : at[s] = <<"up">>
    /\ \A s \in Consumers : ~Migrating(s)
    /\ ~raced \/ stops = 0
    => database = Complete

\* What is recorded as applied has been applied, in order.
RecordsInOrder == \E n \in 0..Len(CH_MIGRATIONS) : recorded = 1..n

ChMigratesSafely == LostOnlyByRace /\ CompleteWhenUp /\ RecordsInOrder
=============================================================================
