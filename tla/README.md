# Formal models of toqar

toqar collects structured events from AI products, stores them, computes
metrics, and lets an agent run experiments on the customer's flags within limits
the tenant grants. This directory holds TLA+ models of the parts whose
correctness depends on the order of steps of several actors, the TLC instances
that check them, and TLAPS proofs of what matters most. Paths are relative to the
repository's root (`src/packages/...` is written `packages/...`).

- [1. The system](#1-the-system)
- [2. Modules and how they correspond to the code](#2-modules-and-how-they-correspond-to-the-code)
- [3. Runs: what each checks, with which bounds](#3-runs)
- [4. Disagreements between code and documents](#4-disagreements-between-code-and-documents)
- [5. Fairness](#5-fairness)
- [6. What is proved](#6-what-is-proved)
- [7. What is not modelled](#7-what-is-not-modelled)
- [8. Plan](#8-plan)

## 1. The system

```
 host process            collector             broker           consumer        ClickHouse
 SdkClient --HTTP-->  app.ts -> BufferedSink --> events topic --> eachBatch --> toqar.events
 (queue, batches,     (202 / 503)  (buffer)         |            (per region)   daily_rollups
  retries)                                          +--> events.dlq <--- dead letters

 CLI `toqar sync`  --HTTP-->  registry-service  -->  Postgres (entries, audit, grants,
 experiment agent  --HTTP-->                                   experiments, findings, keys, ...)
        |
        +--> the customer's flag (rollout share)
```

| Component | State | Operations | What makes it correct |
|---|---|---|---|
| SDK client (`sdk/src/client.ts`) | queue, timer, the promise chain `flushing`, the batch in delivery | `emit`, timer, `flush`, `deliver` with retries, `shutdown` | bounded memory; every event is delivered or reported dropped; order; bounded retries; shutdown drains and ends |
| Collector: sink (`collector/src/sink.ts`) | `buffer`, `degraded`, the Kafka producer | `publish` (many at once), `health` | nothing answered 202 is lost; nothing refused is sent; the buffer is bounded; health is truthful |
| Collector: routes, OTel mapping, redaction | rejection counters | validation, enrichment, mapping, redaction, consumption | rows are stored as the tenant's settings say; an accepted event can be mapped; nothing is unaccounted for; a resent request adds nothing |
| SDK wrappers (`sdk/src/wrappers.ts`) | the layers around a client's method | wrapped calls, the LangChain handler | a call is never altered; its steps tell its outcome, each layer once |
| Pipeline: stream (`pipeline/src/redpanda.ts`, `clickhouse.ts`) | position and committed offset, the batch in hand, dead letters | fetch, insert per region with one retry, dead-letter, commit, restart | no message is skipped; a poison batch never blocks; retries do not count twice |
| Pipeline: schema (`ch-migrate.ts`) | tables, rollup view, applied migrations | migrate, rollup, deletion | the rollup reconciles with the raw rows; a migration interrupted can run again; deleted data stays deleted |
| Registry service: entries and audit (`registry-service/src/store.ts`, `app.ts`) | rows of `registry_entries` and `audit_log` | GET, PUT, apply of a plan | the audit explains the registry; a stale plan is refused; no half-applied plan |
| Registry service: autonomy, experiments | grants, experiments, verdicts, findings | grant, verdict, status, publish | a verdict, its status and its finding agree |
| Registry service: keys, tokens, erasure, settings | tenant keys, tokens, erasure requests | create and destroy keys, revoke, complete | nothing readable after a crypto-shred; one audit record per revocation |
| Registry service: evaluations, alerts, billing, onboarding | single rows, dataset versions | add, read | versions are not lost |
| CLI sync (`cli/src/sync.ts`, `diff.ts`) | none of its own | GET, diff, apply | an undisturbed apply makes the registry what the file says |
| Experiment agent (`experiment-agent/src`) | one rollout's progress; the flag's share | gates, canary, monitoring passes, promote, roll back, halt | nothing is promoted without evidence and a grant; the audit tells the exposure; every rollout ends |
| Analysis agent, MCP, metric executor (`analysis-agent/src`, `mcp-server/src`) | executed queries, findings, deliveries | sweep, answer, digest, alert, query | every number is cited and its citation resolves; "delivered" was delivered; a sweep that says it published did |
| Instrumentation agent and its commands (`instrumentation-agent/src`, `cli/src`) | the checkout, the branch, the stored seam map | scan, plan, review, wire, verify, commit, record | code only when approved; what is committed passed the host's checks; every task entry emits, once |
| Analysis, evaluations, billing, flags (`analysis`, `evals`, `billing`, `experiments`) | none | metrics, runs, clusters, scorers, gate, meters, tests | packages that compute the same figure agree; verdicts are symmetric and monotone |
| Both databases' migrations (`db/migrations.ts`, `ch-migrate.ts`) | schema, applied migrations | migrate, crash, restart | applied in order, safe to repeat, never a tenant's table without row security |

Components interact by HTTP calls that can time out while the other side carries
them out, by the topic, and by rows in Postgres and ClickHouse that several
processes read and write in transactions at READ COMMITTED or without any.

**Behaviours that are hard to test here.** (a) Several activations of one async
method share fields of one object, and each `await` lets the others in
(`BufferedSink.publish`, the SDK's flush chain). (b) A call is given up while the
other side still carries it out (POST, ClickHouse insert, Kafka send). (c) A
process dies between a durable write and the record that it was done (the
consumer's commit, the rollout's audit). (d) A value is checked, and used after
something else changed it (fingerprint, autonomy level, number of active
rollouts). (e) Transactions of concurrent clients block each other or commit in
another order than they drew their ids. `PROJECT.json` lists each at its line.

## 2. Modules and how they correspond to the code

`PROJECT.json` maps every definition to its lines. One action is what runs
between two awaits; an awaited call is a state of its own (`pc`) with its possible
outcomes as actions.

**BufferedSink** - `publish()` and the Redpanda sink behind it. `Callers` are
request handlers. `Publish` is the method up to its first await: it takes the
whole buffer, sets `this.buffer = []`, and starts `inner.publish`; with nothing
to send it returns at once. The Kafka producer is created by the first call and is
connected only by it: while that connect is pending, or after it failed, sends go
to an unconnected producer and reject (`InnerPublishStarts`). `Store` is the broker storing one message of a send, so a send
can be stored in part and then fail; `Succeed` is the 202; `SendFails` and
`ConnectFails` run the catch block, `Buffer`, with its two branches (keep all and
answer 202; put the backlog back and answer 503). `acked`, `lostAcks`,
`duplicated` and `overlapped` are history.

**SdkClient** - `enqueue` (`Emit`), the interval (`TimerFires`), the chain of
flushes on one promise, the loop of the running flush (`TakeBatch`, `FlushEnds`),
`deliver` (`StartAttempt`, `AttemptSucceeds`, `AttemptFails`), and `Shutdown`. The
collector is its HTTP surface: a POST is answered, refused, fails, or is handled
after the client gave it up (`late`). A 202 takes the events its schema knows and
lists the others (`Malformed`); the client tells the host of that list through `onWarn`
(`warned`) unless it cannot read it (`untold`). The pause between attempts has no effect
of its own.

**EventsConsumer** - `startEventsConsumer` for one partition, with `insertRows`,
the events table (ReplacingMergeTree read with FINAL: a set of event ids per
region) and the rollup (SummingMergeTree fed by the materialized view: a count per
event). `SendInsert`, `ApplyInsert` and `LoseInsert` separate the call from what
ClickHouse does, so that the client can give up (`InsertFails`) on an insert that
is carried out later. The token is a hash of the rows' content: `SameRows`.
`Commit` advances the position; the committed offset moves with it or, as
`commitOffsetsIfNecessary` allows, stays behind. `Crash` restarts at the committed
offset.

**CommittedLog** - the abstract specification of the consumer: an offset is
committed only when all messages up to it are settled, and what is settled stays
settled. `EventsConsumer` implements it under the mapping `produced <- Len(log)`,
`settled <- ` the offsets that are queryable, dead-lettered or empty.

**RegistrySync** - `toqar sync --apply` and PUT against one tenant's registry. A
client's session is GET in two transactions (`ListEntries`, `ReadFingerprint`),
the diff, and the apply transaction: the stale check (`BeginApply`), then for each
event a read (`GetEntry`, conflicts roll back) and a write with its audit row
(`WriteEntry`), which waits for the row's lock; then `Commit`. READ COMMITTED is
`Visible`: committed rows and one's own writes. Audit ids come from the serial when
the row is written. Errors and deadlocks roll back.

**RegistryStore** and **StoreSessions** - all other methods of the registry
service. A method is written as the list of its statements (`Select`, `Insert`,
`Upsert`, `Update`, `AddRow`, `Reply`, `Refuse`), which depends on what its earlier
statements read: one operator per method, named as in the code. `StoreSessions` is
the machine that runs them: a request is authenticated (`TenantHook`,
`OperatorHook`, on the rows there are when it begins), then each statement is a step.
A read sees committed rows and the request's own writes; a write waits for the row's
lock; two inserts of one key end in a unique violation; a statement that fails rolls
the transaction back and the request is answered 500. A statement outside a
transaction (`OnItsOwn`) commits by itself, as `db.query` does in the operator's
store. A behaviour starts from any database that was served before
(`AreasAssumption`): foreign keys hold, identity sequences have passed the ids drawn,
a map is sealed under its tenant's key, a setting is what its newest record says; and
its requests are those the routes' schemas let through. TLC evaluates the assumption
on every area of `MCStoreSessions`.

**Migrations** - `migrate()` of the service's Postgres with its 22 migrations, each
as the statements it runs on tables, sequences, grants, row security and policies.
A migration is one transaction with its record; services start together, crash
between migrations and restart; the database is empty or of an earlier release.

**ChMigrate** - `chMigrate()`: statements one at a time without a transaction, the
record at the end, crashes and races in between, and inserts by services that are up.

**DataPlane** - events of two tenants from the topic into regional clusters:
residency at ingest and routing at insert, replays, the rollup beside the events,
retention, an end user's erasure, and the erasure runbook step by step. `resided` keeps
the residencies a tenant had, which is what a row's region is judged by.

**Ingest** - a request of events or spans as the collector sees it: schemas
(`Required`, `Optional`), validation, enrichment, redaction with its recognizers
and the Luhn check, `mapResourceSpans`, the answer; then the consumer's `toRow`. A
text is a sequence of tokens that say which recognizers match them. A span's envelope is
what `??` makes of its attributes, its resource's and its root's, so a text that is there
but empty stays (`Attr`, `Empty`), and `toRow` refuses it (`Maps`).

**Wrappers** - wrapped LLM clients. Wrapping replaces the method in place, so that
layers stack; layers resume one by one between those of other calls; the host's
`onWarn` may throw out of an emit.

**AgentLoop** - sweep, question, digest, alert, `query_metric`, `get_run`,
`startExperiment`, `monitorExperiment`: every await a step that can fail or lose its
answer, every query followed by the insert of its citation. A monitoring pass reads no
status: it may come after a verdict or beside another pass. Its caller supplies the query
ids (`cites`), which may lack a guardrail's; the backend then refuses the verdict of a
breach (`WriteVerdict`). `written` and `overlapped` are history.

**Instrumentation** - `toqar instrument` and `toqar onboard` over a checkout: a file
is a sequence of lines, a line the set of what can be said of it (`Patterns`): what the
scanner looks for, whether a function's parameters follow its name at once (the
implementer's pattern asks for that, the scanner's does not), whether the line always
leaves the body it is in, and whether no body is below it. Scan, plan, review gate,
generated wrapper, wiring from the bottom up with the import, a model's edits, the host's
checks, branch, commit, record. Between runs the developer edits or resets.

**Analytics** - what is computed from `toqar.events`: the metrics of the semantic
layer, daily rollup, reconstructed runs, scorers and gate, failure clusters, per-arm
guardrails, meters and tiers. A ratio keeps its numerator and denominator. `rolled` counts
how often the materialized view has added a row: a row inserted again is one of the table
and two of the rollup.
**Statistics** - anomaly detectors, changepoints, contributions, correlation,
benchmark, sequential test, alerts, over a series that grows day by day. The code computes
in doubles. A value stands for a multiple of a unit a double need not represent, and an
operator is the set of the answers the code may give: a comparison of computed figures
whose exact values differ comes out right, one of equal values may come out either way
(`Greater`); a flat series may have any changepoint or none, a constant one may or may not
be left out of the correlations. Both are pure
operators of the source checked against each other and against reference statements
over all tables and series within the bounds. A step without a tool is in no tool's
failure rate and in no cluster, which `RunsAgree` and `ClustersAgree` count apart.

**GuardedRollout** - `runGuardedRollout` with `monitorExperiment`. Each await is a
`pc`: the level, the canary, its audit, the level before each pass, the pass, the
verdict, the status, the finding, the share, the audit. `Fail` can happen at
each. `GrantAutonomy` is the tenant's. The statistics of a pass have every
outcome. `active` is the count the caller made before the call.

**Databases**, **Agents**, **Collection**, **Figures** - the parts that share no state
with others, in groups: `Migrations`, `ChMigrate` and `DataPlane`; `Instrumentation` and
`AgentLoop`; `Wrappers` and `Ingest`; `Analytics` and `Statistics`. Each gives its parts
variables of their own (`INSTANCE ... WITH`), assumes what they need of the constants,
and conjoins what they promise; a deployment is the conjunction of the specifications.

Each of the first six has an MC module that gives the constants their values,
`MCStoreSessions` those of the store. `MCPlatform` extends the four groups: a behaviour
picks one part and runs it, the others at rest, so one run explores the nine state
spaces side by side, and the theorems about the groups state the properties this run
checks.

## 3. Runs

Every property has a mutant, a plausible bug in a mapped definition, under which
the run finds it violated.

| Run | Question | Bounds, and why they are enough |
|---|---|---|
| `sink` | What can overlapping calls, outages and lost acknowledgements do to the sink? | 2 callers, 3 messages, batches of at most 2, capacity 2: two calls overlap in every way, each with a backlog; a batch overfills the buffer or just fits. The proofs cover every size, and the type invariant is left to them. |
| `sdk` | Is every event accounted for, in order, with bounded memory and retries, and does shutdown drain and end? | 4 events of which the second is malformed, queue of 3, batches of 2, 2 attempts, one timer flush in the chain beside the shutdown's: the queue overflows while a batch is out, batches are full and partial, events come after shutdown. |
| `consumer` | Is any message skipped, or counted twice, and does every one settle? | 2 messages out of 5 kinds (two of one region, one of another, unmappable, without value, each also repeated), 1 restart: a batch with one or two regions, a replay with the same and with other boundaries, an insert carried out after its batch. |
| `registry` | Does the audit explain the registry, when is a stale plan applied, do sessions end? | 2 clients, 2 events, 3 files, no new session once 3 audit ids are drawn: two applies, or an apply and a PUT, in every order, with conflicts, lock waits and deadlocks. |
| `rollout` | Is anything exposed without evidence or grant, does the audit tell the truth, does every rollout end? | 2 rollouts for 1 slot, 2 passes, 2 changes of the grant, a failure at every await. |
| `store` | Are keys, audit, authorization and related rows right however requests interleave, and is each answered? | 2 requests at once (3 where keys are drawn) out of each of 9 areas (keys, tokens, operator, experiments, work, settings, onboarding, billing, evaluations), 1 failing statement anywhere: every pair of methods of an area meets in every order. Rows of a lock conflict have one writer and one waiter, so a third request would only repeat the wait; a lost update and a cycle of two locks need two. |
| `platform` | Are migrations, the data plane, agents, ingest and figures right? | per component below |
| `sink_acked_lost`, `rollup_double_count`, `registry_stale_plan`, `rollout_promotes_revoked`, `dataset_version_lost_bump` | see section 4 | the instance of the run of the same component |

Bounds of `platform`: two services migrate together with one crash, from an empty
database and those of two earlier releases; two ClickHouse consumers, two stops, one
insert; two events of two tenants, one of them delivered twice (none where there is no EU
cluster, whose rows all go to one place: `DpNext`), one move of residency; one
repository of three files (a function with room below its first line and a generic one, a
function that returns on its first line, one that ends on its own) with two runs of the
commands; two requests out of four bodies and three traces that hold each kind of invalid,
structural and redactable part once, and an empty run id, task type, root name and agent
name; all subsets of
ten rows with a retry, a second completion, an override, a failed step without a tool,
another type and another tenant, one row of at most three inserted again (`AnNext`);
series of up to eight days;
agent jobs alone, or with those that share a window or a kind of answer,
and a start with two monitoring passes, one of which lacks a guardrail's query id; two layers of wrappers, two calls, one LangChain run with one step. Each is the smallest at which its
hazard happens: a replay, a race of two, a run after an interrupted one.

The properties, by run:

- `sink`: the buffer is bounded (`BufferBounded`) and keeps exactly promised data
  (`BacklogIsAcked`); a message has one owner (`SoleOwner`); the broker gets a
  duplicate only after a lost acknowledgement (`DuplicatesHadLostAck`); while calls
  never overlapped nothing acked is lost and health is truthful
  (`AckedSafeWhenSerial`, `HealthTruthfulWhenSerial`); then a lasting recovery
  drains the buffer (`DrainsOnceConnected`).
- `sdk`: `TypeOK` (with the bound on memory), `Accounted` (every event is in one place,
  and what left with a 2xx was received, or is malformed and the host was told unless the
  answer could not be read), `SentInOrder`, `RetriesBounded`, `ShutdownDrains`,
  `EverythingSettles` (shutdown resolves, every event leaves the client).
- `consumer`: `NeverSkips`; `RollupExactWithoutReplay` (the rollup is exact as
  long as no event is repeated and no batch is fetched again, although inserts are
  retried and answered late); `ImplementsCommittedLog`; `EveryMessageSettles`.
- `registry`: `AuditExplainsRegistry`; `StaleOnlyInTwoWindows` (a plan is applied
  to a registry it was not computed for only if a commit fell between the two reads
  of GET or inside the apply transaction); `CleanApplyMatchesFile`; `SessionsEnd`.
- `rollout`: `PromotionHasEvidence`, `AuditTellsExposure`,
  `CapHoldsForSpacedStarts`, `ExposureNeedsGrantSeen`, `RolloutsEnd`. Its type
  invariant is proved and left to the proof.
- `store`: `KeysSafe` (a payload is sealed under its tenant's one key, and a shred
  ends its reading), `AuditTellsTruth` (a change is audited exactly if it happened, and
  the newest record is the setting), `ServedRightly` (planes, scopes, revocation,
  operator access on record, consent of benchmarks), `NothingLostOrTorn` (milestones,
  verdicts with their conclusions, versions with their cases; `PATCH` may call an
  experiment concluded without a verdict, and only then is there none),
  `EveryCallEnds`.
- `platform`: `DatabasesMigrateSafely`, `DataPlaneSafe`, `AgentsSafe`, `IngestRight`,
  `AnalyticsRight`, `StatisticsRight`, each the conjunction of the named parts of its
  components' invariants (`NeverExposed`, `ErasedInTarget`, `InOwnRegion`,
  `CitationsResolve`, `ExperimentsConclude`, `WiredOnce`, `StoredAsAgreed`,
  `AcceptedIsMappable`, `PartsAddUp`, `RunsAgree`, `VerdictsRight`, ...).

The deadlock check is off where the system comes to rest when the bound on new work
is reached, which is everywhere but in the sink.

## 4. Disagreements between code and documents

The first five are runs that TLC must find violated; the other properties say under which
condition the promise does hold.

1. **An acked message can be lost** (`sink_acked_lost`). "Nothing acked is ever
   silently discarded" (`packages/collector/src/sink.ts:9`). Two calls that overlap
   during an outage both reach the catch block; the second assignment of
   `this.buffer` overwrites what the first one kept and acknowledged. Holds while
   calls do not overlap: `AckedSafeWhenSerial`.
2. **The rollup counts a repeated event twice** (`rollup_double_count`). "the two
   agree" (`openspec/specs/analytics-storage/spec.md:50`). The token covers whole
   batches, the view adds every row. Holds without repeats and replays:
   `RollupExactWithoutReplay`.
3. **A stale plan can be applied** (`registry_stale_plan`). "It SHALL refuse to
   apply if the diff was computed against a backend state that changed meanwhile"
   (`openspec/specs/registry-sync/spec.md:36`). The fingerprint is compared once,
   without a lock. Holds outside two windows: `StaleOnlyInTwoWindows`.
4. **A rollout can promote after its grant was revoked**
   (`rollout_promotes_revoked`). "Level 3 is an explicit grant; below it, nothing
   auto-promotes - ever" (`packages/experiment-agent/src/rollout.ts:68`). The level
   is read before a monitoring pass and not after it. Otherwise:
   `ExposureNeedsGrantSeen`.
5. **A dataset can gain two cases and one version** (`dataset_version_lost_bump`).
   "Adding a case bumps the dataset version - datasets are versioned so
   dataset_version in the score tuple stays meaningful"
   (`packages/registry-service/src/evals-store.ts:135`). `addCase` reads the version
   and writes it back plus one without locking the row. What does hold: a version
   never counts a case that is not there (`NothingLostOrTorn`).

The others are seen in a property that passes: it is stated as the code is, and says of
which states the document's promise is true.

6. **`maxRetries` is one attempt more than documented** (`RetriesBounded`). "Delivery
   attempts per batch before dropping. Default 2" (`packages/sdk/src/client.ts:27`); the
   loop makes `maxRetries + 1`, as its warning says.
7. **A flat series can have a changepoint** (`StatisticsRight`). "a flat series has no
   changepoint, not a weak one" (`packages/analysis/src/primitives.ts:132`). Of fourteen
   values 0.1 the split after four days has significance sqrt(10), by rounding alone. In
   the same way `rankCorrelations` may rank a constant series, "excluded, not faked"
   (line 206). A step with three days on each side is found where it is, and one day apart
   from the rest is no shift, whatever the rounding.
8. **A cluster's runs are rows** (`AnalyticsRight`). "WHEN a cluster claims N member runs
   THEN the N runs are enumerable" (`openspec/specs/failure-clustering/spec.md:20`); N is
   the number of failed rows (`clusters.ts:80,84`).
9. **A billed run need not have executed steps** (`AnalyticsRight`): the comment at
   `packages/billing/src/billing.ts:19` says it did, the meter at line 20 counts every
   (task, run) among the events.
10. **A task exposed twice counts twice in its arm** (`AnalyticsRight`). "These MUST match
    the semantic layer's definitions" (`packages/experiments/src/flags.ts:91`); the join
    doubles its cost and overrides.
11. **Erased rows come back, and stay elsewhere** (`DataPlaneSafe`). "that tenant's events
    are removed from the store and no longer appear in any query or rollup"
    (`openspec/specs/analytics-storage/spec.md:60`, likewise `data-governance/spec.md:42`).
    Events in the topic are inserted after the deletes, and rows in a region the tenant left
    are not looked for; `completeErasure` checks neither. Nor does a change of residency
    move anything ("no personal data is written to another region",
    `data-governance/spec.md:56`): messages on their way go where they were tagged for.
12. **A breach can go unrecorded, or be contradicted** (`AgentsSafe`). "A guardrail
    breaching its harm threshold SHALL raise a stop recommendation"
    (`openspec/specs/experiment-agent/spec.md:36`). Without a query id for the guardrail the
    backend refuses the verdict (`agent.ts:138`), and status and finding never come. Of two
    passes that overlap one can replace the other's verdict before its status is set: the
    row is then stopped with a verdict to ship, or concluded with a breach.
13. **Not every seam is wired** (`AgentsSafe`). "task_started emission at every task_start
    seam" (`packages/instrumentation-agent/src/implementer.ts:198`). Where the import is
    inserted the emission goes one line too far (line 219): below a return, or outside a
    body of one line. A generic function is scanned as a seam and skipped (line 208).
14. **An accepted span can be unmappable** (`IngestRight`). "a valid `step_executed` event
    lands in ClickHouse" (`openspec/specs/otel-traces/spec.md:26`). An attribute that is
    there but empty passes `??` (`otel.ts:91,98-107`), the answer is 202, and `toRow`
    refuses the row.
15. **A wrapper can alter a call** (`IngestRight`). "NEVER alter the call's behavior"
    (`packages/sdk/src/wrappers.ts:56`): an `onWarn` that throws out of the success step
    makes the host see a failure, and emits a second step.

Reasons the code gives for weaker statements are written into the properties rather
than around them: `RollupExplained` lists why a rollup may differ, `LostOnlyByRace`
and `FailsOnlyByRace` say that only services that migrate at once can lose
ClickHouse events or fail to start, `PartsAddUp` that the rollup is the metric as long as no
row was inserted again, `AcceptedIsMappable` excepts spans with an empty task, run, task
type or agent name, `HasRoom` functions of the 13th disagreement, `StepsTellCalls` a host
whose `onWarn` throws.

## 5. Fairness

Weak fairness of what a single-threaded runtime does by itself: a promise that
settles resumes its await (`Resolve`, `Flush`, `Deliver`, `Consume`, `Proceed`,
`Run`), a set interval fires (`TimerFires`). Of the environment:

- *sink*: requests keep coming (a caller that is idle publishes). The sink has no
  timer; only a request drains it, which `DrainsOnceConnected` therefore assumes, as
  it assumes that the broker stays up and that the first connect succeeded: after a
  failed first connect the producer is never connected again.
- *sdk*: every fetch settles, because the HTTP client bounds the wait for headers
  and body. Nothing is assumed of the answers.
- *consumer*: calls to ClickHouse end. For a message offered to the dead-letter
  topic again and again, strong fairness says that it gets there at some time;
  an insert is never assumed to succeed. Restarts are bounded.
- *registry*: a session that can go on does; the database breaks deadlocks.
- *rollout*: each awaited call settles, by success or failure.
- *store*: a request that can go on does (`WF_vars(Run(c))` per caller); one that
  waits for a lock cannot until the other transaction ends. Nothing breaks deadlocks
  in this model, so `EveryCallEnds` says that there are none.
- *platform* checks safety only and assumes no fairness.

## 6. What is proved

TLAPS checks the proofs for every value of the constants, under the named
assumptions of the modules (`SinkAssumption`: the capacity is a natural number,
and a request carries no message twice; `RolloutAssumption`: finitely many
rollouts, natural limits, at least one pass; `ConsumerAssumption`: the entries are
events of known kinds, and no region has the name of a special value;
`SdkAssumption`: a batch holds at least one event, the other limits are natural;
`RegistryAssumption`: `Absent` is no entry, files are registries, and a PUT carries
an entry; `StoreAssumption`: callers are positive numbers, for ids are drawn from
them; `AreasAssumption`: see `StoreSessions` in section 2). The four groups assume of
their constants, and `MCPlatform`, which extends them, has TLC evaluate:

- `KnownJobs`: levels are integers, questions are of known routes, a monitoring pass has
  the id of its target's query, and one experiment is started once (`startExperiment()`
  creates another row each time; the model has one).
- `KnownRepo`: no file has an emission before the first run.
- `DistinctCalls`: two calls have two ids, none of them a run's.
- `KnownRequests`: an event's or span's id names one body, a tenant has one setting with
  a retention the service accepts, and a card number passes the Luhn check.
- `KnownRows`: the rows are finitely many, the columns that are added up are numbers,
  every step has a status, there is a tier.

`Databases` assumes nothing.

**BufferedSink_proofs** - `SinkTypeCorrect`, `BufferStaysBounded`,
`KeepsOnlyAcked`, `HeldOnce`, `RetriesNeverDuplicate`, `SerialSinkKeepsPromise`,
`SerialHealthIsTruthful`. None of the invariants but the type is inductive by
itself. `IInv` adds: a backlog fits the buffer it came from (`BacklogFits`, for the
branch that puts it back); what a waiting send has stored is at the broker and part
of what it sends (`StoredInv`); each message at the broker had its acknowledgement
lost, or is of a send that still waits, or is acked and held nowhere
(`TopicInv`, which with `SoleOwner` excludes a second store); and, as long as calls
never overlapped, there is at most one, it holds the whole buffer, and its own
messages are promised to nobody (`Alone`). The steps are grouped as: a call starts
(`EmptyStep`, `StartStep`), ends (`SucceedStep`, `CatchStep`), stores
(`StoreStep`), or moves nothing (`MoveStep`).
The module also proves `CollectionIsRight`: `IngestRight`, of what is sent to this sink.
`WrappersAreFaithful` is about `Wrappers`: `CallInv` says that the layers a call has yet
to resume are the outer ones of those it was made under, `CallsTold` which steps exist of
a call that is part of its way back, and that a step of one call is none of another
follows from `DistinctCalls`. `IngestIsRight` is about `Ingest`: `IngInv` says that all
that is published is a known event, prepared for a known setting, and the rest is about
the operators: what `redactText` leaves of a text (no recognizer matches any token of
it), what enrichment and the span mapping give every event they accept, that the checks
of the collector imply that `toRow` can map it (unless its span leaves a text of the
envelope empty: `Empty` is what the two have in common), and what the counters add up to.

**EventsConsumer_proofs** - `ConsumerTypeCorrect`, `NothingSkipped`,
`ConsumerImplementsCommittedLog`, `RollupIsExact`. `IInv` follows each message of the batch in hand:
until the dead letters are written it is settled, dead, or of a region yet to be
inserted (`BatchDealt`); a reply "ok" and a remembered token mean that their rows
are queryable (`RepliesTrue`); all that is consumed is settled (`PrefixSettled`)
and the commit is never ahead of it (`Positions`). `StepGrows` (topic, tables and
dead letters only grow) is what carries settled messages over the other steps. The
refinement maps `Produce` and `Commit` to the abstract actions of the same name and
every other step to `Settle`. `RollupIsExact` is `RollupExactWithoutReplay`: the
rollup cannot tell an insert from its repetition, the token can. `RollupInv` says
that what is sent, waits or is remembered are rows of the log (`SentFromLog`), and
that without a replay two inserts of a region have the same rows or none in common
(`SentInOneBatch`), so a token not seen before carries events never counted.

**GuardedRollout_proofs** - `RolloutTypeCorrect`, `PromotionIsEvidenced`,
`AuditIsTruthful`, `CapHolds`, `ExposureSawGrant`. `Stage` says for each await what
flag, experiment rows and audit are there; `LevelSeen` that a rollout about to
widen exposure saw the grant or the grant went since; `Crowd` that, while no two
rollouts started together, the count a starting rollout holds is not below the
canaries there are.
The module also proves `FiguresAgree`: `AnalyticsRight`, the figures a rollout is decided
by, for every table of rows `KnownRows` admits. Its invariant is only that the table holds
the rows the view has added at least once; the work is about the operators. A figure is known by what each row adds
to it: `Weighted` gives, for every additive metric, numerator and denominator as sums of
weights over the rows, and the rest is that sums over the parts of a set add up
(`SumPartition`), the parts being the days (`TheDays`), the types, the runs, the tools,
the signatures or the arms. `SumFunctionIs` says that the fold the code's sums are written
with is such a sum, whatever order it takes the rows in. Billing is about cardinalities
of images (`MetersAre`) and the least tier that covers (`TierIs`); `JudgeIs` says which
of two scores of a judge counts, `GateIs` what a gate that demands the best mean demands
of every case.

**SdkClient_proofs** - `SdkTypeCorrect`, `EventsAreAccounted`, `OldestPostedFirst`,
`NoRetryStorm`, `ShutdownLeavesNothing`. `Accounted` and `SentInOrder` are not
inductive: an overflow takes "the oldest of the queue", and only because the queue
holds exactly the events after `Base` (`QueueIsNewest`) is that one newer than all
that left before. `IInv` adds that the events up to `Base` are divided into the
batch, delivered, overflowed and given up (`OthersAreOlder`), that the batch is
newer than all that was delivered or given up (`BatchIsNewer`), that the POSTs of
an event follow from its place and the attempt (`PostsInv`), and that after a 2xx
what is well-formed in the batch was received (`FetchInv`). The lemmas on consecutive sequences say what
`enqueue()` and `splice()` make of such a queue.

**RegistrySync_proofs** - `SyncTypeCorrect`, `AuditTellsRegistry`, `TwoWindowsOnly`,
`ApplyReachesFile`. Audit ids are drawn before a commit, so that the newest record
explains the registry needs `LogsWrites`: a session has one audit row per row it
wrote, newer than the committed one. `OneWriter` says what the row locks are for:
two sessions never hold the same row uncommitted. `SeesRegistry` says what a session
knows of the registry while nobody else has committed, and `Progress` that what is
done of its plan is written and the rest still planned (`AppliesPlan`, `PutsOne`).

**AgentLoop_proofs** - `AgentsKeepPromises`: `AgentsSafe`, for both agents.
`AgentsAreSafe` is about `AgentLoop`, of which `StatementsAreCited` and
`DeliveriesAreRecorded` are the parts that need no assumption. A query is recorded by a
later statement than the one that ran it, so `AgInv` follows a job between the two: what
it has read is recorded (`ReadIsRecorded`), what it holds is for the metric it asked next
(`CitesWhatItAsks`), it reads no more than it reports (`ReadsNoMore`), and it holds
`TRUE` for a message only if it was taken (`HoldsTruth`). `AlertsInv` says that a job
whose message is out reads nothing more, so that what made it fire is still what it
holds. `ExperimentInv` is needed because monitoring passes may repeat, overtake each other
and the start: a call at each place has its grant, its verdict or the row's end
(`CallInv`), verdicts are only ever added to those written and the row keeps its PR
(`Forward`), and as long as a start is under way there is no PR, so no pass has begun
(`BeforePr`). What a finding gives follows from the verdict its pass holds (`FindingsInv`,
`Founded`). `PassInv` says what is left while no pass came between another's verdict and
its status: a pass about to set the status wrote the verdict the row holds, and once it
has gone on the status says what it found (`SettledBy`).
The rest is about `Instrumentation`. `AgentRunsAreHonest` follows a run from its review
to its record (`InsInv`: approved from here on, generated, what is committed is what was
checked, one commit, a milestone has its map). `RepositoriesAreWired` is `WiredOnce`, for
any source. Where an emission is, is said by the host's lines alone (`PlacedFor`), because
those the agent inserts move; a function has room if the place is in its body
(`HasRoom`). `Placed` says, by induction on the lines, where the old lines and the
inserted ones are in what `applyFileEdits` makes of a file; `Moves` what the other lines
keep; `Tidy` what every tree has, so that each emission is some function's (`Owned`);
`Emitting` what it has once the edits are in; `RoomEmits` and `OneEmits` that a placed
emission of a function with room is run, and only one if the host compiles; and `WiresInv`
carries that from scan to commit.

**DataPlane_proofs** - `DataPlaneCorrect`: `DataPlaneSafe` for all events, tenants
and bounds (`DpInv`). `ErasedInTarget` speaks of a completed erasure only; `ErasedSoFar`
says the same from the first delete on. `RollupExplained` needs that a row in a table was
delivered (delivered (`OnlyDelivered`): a first delivery then adds one to the table as it does
to the rollup, and every other step names its reason. `InOwnRegion` needs that a message's
tag is a residency its tenant had (`TaggedAsResided`).
`SchemaMigratesSafely` is about `ChMigrate`, the schema these tables are in. What a
service recorded or ran is not simply there, since another one may replace the events
table beneath it; it is there or will be brought again by the service that took it away
(`Held`), which has yet to run all that came after. That is also why a statement refused
for a missing column loses nothing: whoever took that column runs all that this service
had left (`ChmFails`). `AloneInv` says what the properties distinguish: without a race
one service migrates, and knows all that is recorded.
`MigrationsAreSafe` is about `Migrations`, the database all other rows are in. A release
is told by which migration brought each table (`Born`): `IsRelease` says in these terms
what the schema after `n` migrations is, `Does1` to `Does22` what each migration does,
`NextRelease` that it makes of a release the next one, and `NextRuns` that none of its
statements fails there. `Released` is a recursive function; that it is what its
definition says is shown release by release (`Longer`, `Exists`). `MigInv` then needs
only that a service's list of what is left never misses a migration nobody ran.
`DatabasesAreSafe`, `DatabasesMigrateSafely`, is both.

**StoreSessions_proofs** - `StoreKeepsKeysSafe`, `StoreAuditsTruthfully`,
`StoreServesRightly`, `StoreLosesNothing`: the four safety properties of the run
`store` for any database, any requests and any number of them at once, over all 54
methods. None is inductive: each speaks of committed rows and answers, and what makes
it true is what a request in flight has read and not yet committed. `IInv` therefore
has one part for the rows (`RowsInv`), one for a session beside them (`SessionInv`:
what its reads still tell of the rows, what its uncommitted writes will make of them,
for each kind of method at each statement), one for an answer (`Answer`) and one for
the audit id a request drew (`AuditInv`). The parts that carry the argument:

- Keys (`KeyWrites`, `KeyRead`, `PuttingMap`, `GettingMap`): a key in the table only
  ever becomes shredded, so a key read stays the one there is or is gone; a session
  that inserts a key read none, and nobody else can have committed one when it does,
  since the insert waits for the row's lock and would be a unique violation.
- Settings (`TenantWrites`, `AuditWrites`, `SetAndRecorded`): a method updates the
  setting before it appends the record, so its id is drawn while the row's lock is
  held, and every committed record is older. `Home` names the row that a setting's
  lock is. Writing the audit row first would break exactly this.
- Tokens (`BeganSession`, `AdmittedSession`): tokens keep tenant and scope, are never
  un-revoked, and a method's later statements run only if the hook let it pass.
- Operators and benchmarks (`OperatorSession`, `BenchmarkSession`): the audit row is
  a transaction of its own and stays even if the request fails.
- Work (`WorkWrites`, `AddingCase`, `ReadingExperiment`): the verdict is written
  before the status, and read after it; a case is inserted before the version that
  counts it.

The proof never looks at two methods at once. A step of one request keeps its own
session (`SelectStep`, `HoldStep`, `PassStep`, one lemma per part below each); a
commit keeps the rows (`CommitRows`); and it is of the kind `Grows` (rows stay, a key
is only shredded, a record is newer, a milestone stays) and `Apart` (nothing the other
holds the lock of), under which what holds of every other session and of every answer
stays (`SessionGrows`, `AnswerGrows`). `Good` and `Allowed` say once for all methods
which tables each may write. `NextKeeps` combines the steps.

TLC checks each `IInv`, and `RollupInv`, on the instances of section 3 too; it held before it was
proved.

**Induction.** The library's induction theorems take an operator as a parameter, which
no prover here can instantiate. Where a loop, a fold or a recursive function needs
induction (`Ingest`, `Instrumentation`, `Analytics`), it is done with sets:
`SetInduction` (a set of naturals that has 0 and each successor has all of them) and
`SubsetInduction` follow from the well-foundedness of `<` on the naturals (`WFMin`,
`NatLessThanWellFounded`), which are facts about sets and relations, and `LoopExists`,
`SumsExist` and their like show that a function with the recursive equation exists, so
that the `CHOOSE` behind a recursive definition finds it.

**Model-checked only**: the liveness properties (`DrainsOnceConnected`,
`EverythingSettles`, `EveryMessageSettles`, `SessionsEnd`, `RolloutsEnd`,
`EveryCallEnds`), because TLAPS does not reason about fairness and ENABLED; and of
`platform` `StatisticsRight`. That property compares medians and quartiles of a sorted
series with those of its mirror image (so it needs that the permutation sorting a
sequence exists and what it leads to is unique), correlations with their bound (the
Cauchy-Schwarz inequality for sequences), and the most significant split with that of the
series backwards (fourth-degree polynomials, multiplied out). None of it is a step of the
system, and the non-linear arithmetic is beyond the SMT solver.

## 7. What is not modelled

- The collector's crash: its buffer is in memory and no code restores it.
- A host's `onWarn` that throws (it would stop the flush chain).
- Text: SQL, message layout, generated code, parsing of files. Language models: what
  one proposes or phrases is an input. Sampling by hash, probit and the classical
  sample size: approximations without a discrete reference. The web apps and the
  documentation site keep no state. See the component list in `PROJECT.json`.
- `new-repo-handoff/quarry`: sources of an earlier product kept as reference; no
  package builds or imports them.
- In a source file, a function whose header goes on over several lines is one below whose
  first line there is no body yet (`outside`): nothing is claimed of it.
- Latency, token counts and prices as quantities; they are small integers where a
  property adds them up.
- Kafka's group protocol beyond its effect: a partition is consumed from the
  position or, after a restart or a rejoin, from the committed offset. A consumer
  that goes on after it lost the partition is not modelled.
- ClickHouse forgets tokens after its deduplication window; the model's never does,
  so the window is assumed longer than a retry takes.

## 8. Plan

Written: the modules of section 2; every safety property of every run is proved but
`StatisticsRight`. What is left:

1. **Proofs about `Statistics`**: the parts that need no sorting (`FiguresRight`,
   `AlertsRight`, `DecisionsRight`) first, with `Sums` of sequences as in the proof of
   `FiguresAgree`.
2. **EventPath** - `SdkClient`, `BufferedSink` and `EventsConsumer` composed against
   an end-to-end specification: what the host was told is accepted is queryable or
   on the dead-letter topic.
