---------------------------- MODULE RegistryStore ----------------------------
(***************************************************************************)
(* The methods of the registry service's stores (registry-service/src/     *)
(* store.ts, operator.ts, evals-store.ts, alerts-store.ts) behind its       *)
(* routes (app.ts), but for registry entries, which RegistrySync models.    *)
(*                                                                          *)
(* A method is the list of its statements.  A session runs them one at a    *)
(* time at READ COMMITTED: a statement sees what is committed when it       *)
(* starts and the session's own writes, a write waits for the lock of its   *)
(* row, and a failure rolls the transaction back.  A list depends on what   *)
(* its earlier statements read: that is how an early return is written.     *)
(* A row is <<table, tenant>> or <<table, tenant, id>> and maps to its      *)
(* columns.                                                                 *)
(***************************************************************************)
EXTENDS Integers, Sequences, SequencesExt, FiniteSets

VARIABLES
    kek,   \* whether the deployment configures a key encryption key
    db     \* committed rows

None == [absent |-> TRUE]   \* no row, and what an unread row reads as
At(f, row) == IF row \in DOMAIN f THEN f[row] ELSE None
Column(f, row, col, default) == IF At(f, row) = None THEN default ELSE f[row][col]
\* f, with what g maps over it.
Over(g, f) == [x \in DOMAIN g \cup DOMAIN f |-> IF x \in DOMAIN g THEN g[x] ELSE f[x]]
RowsOf(f, table, t) == {row \in DOMAIN f : row[1] = table /\ row[2] = t}
Newest(rows) == CHOOSE row \in rows : \A other \in rows : other[3] <= row[3]
-----------------------------------------------------------------------------
(* Statements.                                                              *)
Select(rows) == [do |-> "select", rows |-> rows]
Insert(row, set) == [do |-> "insert", row |-> row, set |-> set, own |-> FALSE]
Upsert(row, set) == [do |-> "upsert", row |-> row, set |-> set, own |-> FALSE]
Update(row, set) == [do |-> "update", row |-> row, set |-> set, own |-> FALSE]
AddRow(table, t, set) ==
    [do |-> "append", table |-> table, t |-> t, set |-> set, own |-> FALSE]
Reply(v) == [do |-> "return", value |-> <<"200", v>>]
Refuse(status) == [do |-> "return", value |-> <<status>>]
OnItsOwn(st) == [st EXCEPT !.own = TRUE]   \* not in a transaction: db.query

\* RegistryStore.audit(): what changed, and what it changed to.
Audit(t, operation, event, after) ==
    AddRow("audit_log", t, [operation |-> operation, event |-> event, after |-> after])

\* if (!rows.length) return ..., else the rest.
IfFound(r, row, otherwise, rest) ==
    IF At(r, row) = None THEN <<Refuse(otherwise)>> ELSE rest
-----------------------------------------------------------------------------
(* Keys and seam maps.                                                      *)
Key(t) == <<"tenant_keys", t>>
Context(t, repo) == <<"repo_context", t, repo>>
Null == "null"
Plain == "plain"

\* generateDek() draws 32 random bytes, randomUUID() an id: every request another.
GenerateDek(c) == c
RandomUUID(c) == c

\* encryptPayload() and decryptPayload(): only the key that sealed a map opens it.
EncryptPayload(dek, map) == [map |-> map, key |-> dek]
Opens(dek, sealed) == dek = sealed

\* tenantDek(), created on first use; and the DEK it returns.
\* Mutant: ON CONFLICT DO UPDATE, so that the loser of a race replaces the key.
TenantDek_Replaces(c, t, r) ==
    IF ~kek THEN <<>>
    ELSE <<Select({Key(t)})>> \o
         IF At(r, Key(t)) = None
         THEN <<Upsert(Key(t), [wrapped |-> GenerateDek(c), shredded |-> FALSE])>> ELSE <<>>
TenantDek(c, t, r) ==
    IF ~kek THEN <<>>
    ELSE <<Select({Key(t)})>> \o
         IF At(r, Key(t)) = None
         THEN <<Insert(Key(t), [wrapped |-> GenerateDek(c), shredded |-> FALSE])>> ELSE <<>>
Dek(c, t, r) == IF ~kek THEN 0 ELSE Column(r, Key(t), "wrapped", GenerateDek(c))

\* The wrapped DEK is gone: 0 stands for NULL, as it does above for no key.
CryptoShredTenant(q, c, r) ==
    <<Upsert(Key(q.t), [wrapped |-> 0, shredded |-> TRUE]),
      Audit(q.t, "retention", "crypto_shred", "shredded")>>

PutSeamMap(q, c, r) ==
    TenantDek(c, q.t, r) \o
    <<Upsert(Context(q.t, q.id), EncryptPayload(Dek(c, q.t, r), q.v)),
      Audit(q.t, "seam_map", q.id, q.v)>>

GetSeamMap(q, c, r) ==
    LET row == Context(q.t, q.id)
        sealed == Column(r, row, "key", 0)
        dek == Dek(c, q.t, r)
        read == <<Audit(q.t, "seam_map", q.id, "read"), Reply(At(r, row))>> IN
    <<Select({row})>> \o IfFound(r, row, "404",
        IF sealed = 0 THEN read
        ELSE TenantDek(c, q.t, r) \o
             IF dek = 0 THEN <<Refuse("404")>>
             ELSE IF ~Opens(dek, sealed) THEN <<Refuse("500")>> ELSE read)
-----------------------------------------------------------------------------
(* Tokens.  A request's token is also the id of its row.                    *)
Settings(t) == <<"tenants", t>>
Token(k) == <<"tenant_tokens", k>>
OperatorToken(k) == <<"operator_tokens", k>>
Live(r, row) == At(r, row) # None /\ ~At(r, row).revoked

CreateTenant(q, c, r) ==
    LET t == "t_" \o ToString(RandomUUID(c)) IN
    <<Insert(Settings(t), [retention |-> "365", redaction |-> "on", residency |-> "us"]),
      Insert(Token(RandomUUID(c)), [t |-> t, scope |-> "api:full", revoked |-> FALSE]),
      Audit(t, "seed", "taxonomy", "active")>>

IssueToken(q, c, r) ==
    <<Insert(Token(RandomUUID(c)), [t |-> q.t, scope |-> q.v, revoked |-> FALSE]),
      Audit(q.t, "token", ToString(RandomUUID(c)), "issued")>>

RevokeToken(q, c, r) ==
    <<Select({Token(q.id)})>> \o
    IF Live(r, Token(q.id)) /\ At(r, Token(q.id)).t = q.t
    THEN <<Update(Token(q.id), [revoked |-> TRUE]), Audit(q.t, "token", ToString(q.id), "revoked")>>
    ELSE <<Refuse("404")>>

ListTokens(q, c, r) ==
    LET tokens == {row \in DOMAIN db : row[1] = "tenant_tokens" /\ db[row].t = q.t} IN
    <<Select(tokens), Reply({row[2] : row \in {o \in DOMAIN r : o[1] = "tenant_tokens"
                                                               /\ Live(r, o) /\ r[o].t = q.t}})>>

RevokeOperatorToken(q, c, r) ==
    <<Select({OperatorToken(q.id)})>> \o
    IF Live(r, OperatorToken(q.id))
    THEN <<Update(OperatorToken(q.id), [revoked |-> TRUE]),
           AddRow("operator_audit", q.token, [action |-> "token_revoked"])>>
    ELSE <<Refuse("404")>>

CreateOperatorToken(q, c, r) ==
    <<Insert(OperatorToken(RandomUUID(c)), [revoked |-> FALSE]),
      AddRow("operator_audit", q.token, [action |-> "token_issued"])>>

\* The preHandler of /v1/: 401, 403, or the tenant's method.  b are the rows when the
\* request began, which is when the hook resolves the token.
TenantHook(q, b, method) ==
    <<Select({Token(q.token)})>> \o
    IF ~Live(b, Token(q.token)) THEN <<Refuse("401")>>
    ELSE IF At(b, Token(q.token)).scope # "api:full" THEN <<Refuse("403")>>
    ELSE method

\* The preHandler of /operator/: operator tokens live in a table of their own.
OperatorHook(q, r, b, method) ==
    <<Select({OperatorToken(q.token)})>> \o
    IF Live(b, OperatorToken(q.token)) THEN method
    ELSE <<Select({Token(q.token)}), Refuse(IF Live(r, Token(q.token)) THEN "403" ELSE "401")>>
-----------------------------------------------------------------------------
(* Instrument runs, findings, autonomy and experiments.                     *)
RecordInstrumentRun(q, c, r) ==
    <<Insert(<<"instrument_runs", q.t, RandomUUID(c)>>, [outcome |-> "delivered"]),
      Audit(q.t, "instrument_run", "repo", "delivered")>>

UpdateRunOutcome(q, c, r) ==
    LET row == <<"instrument_runs", q.t, q.id>> IN
    <<Select({row})>> \o IfFound(r, row, "404",
        <<Update(row, [outcome |-> q.v]), Audit(q.t, "instrument_run", "repo", q.v)>>)

Merged(outcome) == outcome \in {"merged", "edited_then_merged"}
ListInstrumentRuns(q, c, r) ==
    LET runs == RowsOf(r, "instrument_runs", q.t) IN
    <<Select(RowsOf(db, "instrument_runs", q.t)),
      Reply([merged |-> Cardinality({row \in runs : Merged(r[row].outcome)}),
              delivered |-> Cardinality(runs)])>>

\* A draft with an uncited number goes to finding_rejections and nowhere else.
PublishFinding(q, c, r) ==
    IF q.v = "uncited"
    THEN <<AddRow("finding_rejections", q.t, [reason |-> q.v]), Refuse("400")>>
    ELSE <<Insert(<<"findings", q.t, RandomUUID(c)>>, [finding |-> q.v]),
           Audit(q.t, "finding", "headline", q.v)>>

RecordDelivery(q, c, r) ==
    LET row == <<"findings", q.t, q.id>> IN
    <<Select({row})>> \o IfFound(r, row, "404",
        <<AddRow("finding_deliveries", q.t, [finding |-> q.id, status |-> q.v])>>)

ListFindings(q, c, r) ==
    <<Select(RowsOf(db, "findings", q.t)), Reply(RowsOf(r, "findings", q.t))>>
ListFindingRejections(q, c, r) ==
    <<Select(RowsOf(db, "finding_rejections", q.t)), Reply(RowsOf(r, "finding_rejections", q.t))>>

\* Two selects: the finding, then its deliveries.
GetFinding(q, c, r) ==
    LET row == <<"findings", q.t, q.id>> IN
    <<Select({row})>> \o IfFound(r, row, "404",
        <<Select(RowsOf(db, "finding_deliveries", q.t)),
          Reply({r[d].status : d \in {e \in RowsOf(r, "finding_deliveries", q.t) :
                                         r[e].finding = q.id}})>>)

GrantAutonomy(q, c, r) ==
    <<AddRow("autonomy_grants", q.t, [level |-> q.v]), Audit(q.t, "autonomy", "level", q.v)>>

Level(r, t) ==
    LET grants == RowsOf(r, "autonomy_grants", t) IN
    IF grants = {} THEN "level_0" ELSE r[Newest(grants)].level
GetAutonomy(q, c, r) ==
    <<Select(RowsOf(db, "autonomy_grants", q.t)), Reply(Level(r, q.t))>>

CreateExperiment(q, c, r) ==
    <<Insert(<<"experiments", q.t, RandomUUID(c)>>, [status |-> "created"]),
      Audit(q.t, "experiment", ToString(RandomUUID(c)), "created")>>

Verdict(t, id) == <<"experiment_verdicts", t, id>>
\* Mutant: a stopped experiment drops its verdict, after its own row.
UpdateExperiment_DropsVerdict(q, c, r) ==
    LET row == <<"experiments", q.t, q.id>> IN
    <<Select({row})>> \o IfFound(r, row, "404",
        <<Update(row, [status |-> q.v]), Upsert(Verdict(q.t, q.id), [decision |-> Null]),
          Audit(q.t, "experiment", ToString(q.id), q.v)>>)
UpdateExperiment(q, c, r) ==
    LET row == <<"experiments", q.t, q.id>> IN
    <<Select({row})>> \o IfFound(r, row, "404",
        <<Update(row, [status |-> q.v]), Audit(q.t, "experiment", ToString(q.id), q.v)>>)

WriteVerdict(q, c, r) ==
    LET row == <<"experiments", q.t, q.id>> IN
    <<Select({row})>> \o IfFound(r, row, "404",
        <<Upsert(Verdict(q.t, q.id), [decision |-> q.v]),
          Update(row, [status |-> "concluded"]),
          Audit(q.t, "experiment", ToString(q.id), "concluded")>>)

ListExperiments(q, c, r) ==
    <<Select(RowsOf(db, "experiments", q.t)),
      Reply({<<row[3], r[row].status>> : row \in RowsOf(r, "experiments", q.t)})>>

\* Two selects: the experiment, then its verdict.
\* Mutant: the other way round.
GetExperiment_VerdictFirst(q, c, r) ==
    LET row == <<"experiments", q.t, q.id>> IN
    <<Select({Verdict(q.t, q.id)}), Select({row})>> \o IfFound(r, row, "404",
        <<Reply([status |-> r[row].status,
                  verdict |-> Column(r, Verdict(q.t, q.id), "decision", Null)])>>)
GetExperiment(q, c, r) ==
    LET row == <<"experiments", q.t, q.id>> IN
    <<Select({row})>> \o IfFound(r, row, "404",
        <<Select({Verdict(q.t, q.id)}),
          Reply([status |-> r[row].status,
                  verdict |-> Column(r, Verdict(q.t, q.id), "decision", Null)])>>)
-----------------------------------------------------------------------------
(* Onboarding, billing and benchmarking.                                    *)
MILESTONES == <<"connected", "plan_proposed", "plan_approved", "first_event", "first_finding">>
Timeline(t) == <<"onboarding_timeline", t>>
NoMilestone == [m \in ToSet(MILESTONES) |-> Null]

\* One column of the tenant's one row.
RecordMilestone(q, c, r) ==
    <<Upsert(Timeline(q.t), [m \in {q.id} |-> q.v])>>

\* current_step: 0 is connect_repo, 5 is active.
Step(row) ==
    LET reached == {i \in DOMAIN MILESTONES :
                      MILESTONES[i] \in DOMAIN row /\ row[MILESTONES[i]] # Null} IN
    IF reached = {} THEN 0 ELSE CHOOSE i \in reached : \A j \in reached : j <= i
GetOnboarding(q, c, r) ==
    <<Select({Timeline(q.t)}), Reply(Step(At(r, Timeline(q.t))))>>

Account(t) == <<"billing_accounts", t>>
SetBilling(q, c, r) == <<Upsert(Account(q.t), [tier |-> q.v])>>
GetBilling(q, c, r) ==
    <<Select({Account(q.t)}), Reply(Column(r, Account(q.t), "tier", "free"))>>
RecordInvoice(q, c, r) == <<AddRow("billing_invoices", q.t, [amount |-> q.v])>>
ListInvoices(q, c, r) ==
    <<Select(RowsOf(db, "billing_invoices", q.t)),
      Reply(Cardinality(RowsOf(r, "billing_invoices", q.t)))>>

Optin(t) == <<"benchmark_optin", t>>
SetBenchmarkOptin(q, c, r) ==
    <<Upsert(Optin(q.t), [opted_in |-> q.v]), Audit(q.t, "benchmark", "optin", q.v)>>
OptedIn(r) == {row[2] : row \in {o \in DOMAIN r : o[1] = "benchmark_optin"
                                               /\ r[o] # None /\ r[o].opted_in = "yes"}}

\* GET /v1/benchmark/result: contribute on any tier, view on Growth.
BenchmarkResult(q, c, r) ==
    <<Select({Account(q.t)})>> \o
    IF Column(r, Account(q.t), "tier", "free") # "growth" THEN <<Refuse("403")>>
    ELSE <<Select({Optin(q.t)}),
           IF q.t \in OptedIn(r) THEN Select({o \in DOMAIN db : o[1] = "benchmark_optin"})
                                 ELSE Refuse("403"),
           Reply([cohort |-> OptedIn(r)])>>
-----------------------------------------------------------------------------
(* Settings: columns of the tenant's own row, and the rollout policy.       *)
SetResidency(q, c, r) ==
    <<Update(Settings(q.t), [residency |-> q.v]), Audit(q.t, "retention", "residency", q.v)>>
\* Mutant: the record of the change is a transaction of its own, and comes first.
SetRedactionOptout_AuditApart(q, c, r) ==
    <<OnItsOwn(Audit(q.t, "retention", "redaction", q.v)),
      Update(Settings(q.t), [redaction |-> q.v])>>
SetRedactionOptout(q, c, r) ==
    <<Update(Settings(q.t), [redaction |-> q.v]), Audit(q.t, "retention", "redaction", q.v)>>
SetRetentionDays(q, c, r) ==
    <<Select({Settings(q.t)}), Update(Settings(q.t), [retention |-> q.v]),
      Audit(q.t, "retention", "retention", q.v)>>
Policy(t) == <<"rollout_policies", t>>
SetRolloutPolicy(q, c, r) ==
    <<Upsert(Policy(q.t), [policy |-> q.v]), Audit(q.t, "autonomy", "policy", q.v)>>
GetRolloutPolicy(q, c, r) ==
    <<Select({Policy(q.t)}), Reply(Column(r, Policy(q.t), "policy", Null))>>
ListAudit(q, c, r) ==
    <<Select(RowsOf(db, "audit_log", q.t)),
      Reply({<<r[row].event, r[row].after>> : row \in RowsOf(r, "audit_log", q.t)})>>
GetIngestSettings(q, c, r) ==
    <<Select({Settings(q.t)}),
      Reply([retention |-> Column(r, Settings(q.t), "retention", "365"),
              redact |-> Column(r, Settings(q.t), "redaction", "on") = "on",
              residency |-> Column(r, Settings(q.t), "residency", "us")])>>
-----------------------------------------------------------------------------
(* Evaluations and alerts.                                                  *)
RecordScore(q, c, r) == <<Insert(<<"eval_scores", q.t, RandomUUID(c)>>, [evaluator |-> q.v])>>
ListScores(q, c, r) ==
    <<Select(RowsOf(db, "eval_scores", q.t)),
      Reply({row \in RowsOf(r, "eval_scores", q.t) : r[row].evaluator = q.v})>>
Dataset(t, id) == <<"eval_datasets", t, id>>
CreateDataset(q, c, r) == <<Insert(Dataset(q.t, RandomUUID(c)), [version |-> 1])>>
AddCase(q, c, r) ==
    LET row == Dataset(q.t, q.id) IN
    <<Select({row})>> \o IfFound(r, row, "404",
        <<AddRow("eval_dataset_cases", q.t, [dataset |-> q.id]),
          Update(row, [version |-> r[row].version + 1])>>)
CasesOf(r, t, id) ==
    Cardinality({row \in RowsOf(r, "eval_dataset_cases", t) : r[row].dataset = id})
\* Two selects: the version, then the cases.
GetDataset(q, c, r) ==
    LET row == Dataset(q.t, q.id) IN
    <<Select({row})>> \o IfFound(r, row, "404",
        <<Select(RowsOf(db, "eval_dataset_cases", q.t)),
          Reply([version |-> r[row].version, cases |-> CasesOf(r, q.t, q.id)])>>)

CreateAlert(q, c, r) == <<Insert(<<"alerts", q.t, RandomUUID(c)>>, [kind |-> q.v])>>
ListAlerts(q, c, r) ==
    <<Select(RowsOf(db, "alerts", q.t)), Reply(RowsOf(r, "alerts", q.t))>>
RecordEvaluation(q, c, r) ==
    <<AddRow("alert_events", q.t, [alert |-> q.id, fired |-> q.v])>>
ListAlertEvents(q, c, r) ==
    <<Select(RowsOf(db, "alert_events", q.t)),
      Reply(Cardinality({row \in RowsOf(r, "alert_events", q.t) : r[row].alert = q.id}))>>
-----------------------------------------------------------------------------
(* The operator plane: every read of a tenant's data is audited before.     *)
OperatorAudit(q, action) ==
    OnItsOwn(AddRow("operator_audit", q.token, [action |-> action]))
TenantIds(r) == SetToSeq({row[2] : row \in {o \in DOMAIN r : o[1] = "tenants"}})
\* n statements for each tenant, one tenant after the other.
ForEachTenant(r, n, stmts(_)) ==
    [i \in 1..(n * Len(TenantIds(r))) |->
       stmts(TenantIds(r)[((i - 1) \div n) + 1])[((i - 1) % n) + 1]]

RequestErasure(q, c, r) ==
    <<OnItsOwn(AddRow("erasure_audit", q.t, [completed |-> FALSE])),
      OperatorAudit(q, "erasure_requested")>>
CompleteErasure(q, c, r) ==
    <<OnItsOwn(Update(<<"erasure_audit", q.t, q.id>>, [completed |-> TRUE])),
      OperatorAudit(q, "erasure_completed")>>

ListErasures(q, c, r) ==
    <<Select({row \in DOMAIN db : row[1] = "erasure_audit"}),
      Reply({row \in DOMAIN r : row[1] = "erasure_audit" /\ r[row].completed})>>

\* getOnboarding, getAutonomy and getBilling of one tenant after the other.
ListTenants(q, c, r) ==
    LET reads(t) == <<Select({Timeline(t)}), Select(RowsOf(db, "autonomy_grants", t)),
                      Select({Account(t)})>> IN
    <<OperatorAudit(q, "list_tenants"), Select({o \in DOMAIN db : o[1] = "tenants"})>>
    \o ForEachTenant(r, 3, reads) \o
    <<Reply({<<t, Step(At(r, Timeline(t))), Level(r, t),
               Column(r, Account(t), "tier", "free")>> : t \in ToSet(TenantIds(r))})>>

\* Mutant: the audit row is written when the data has been read.
TenantSnapshot_AuditLast(q, c, r) ==
    <<Select({Settings(q.id)})>> \o IfFound(r, Settings(q.id), "404",
        <<Select({Timeline(q.id)}), OperatorAudit(q, "tenant_snapshot")>>)
TenantSnapshot(q, c, r) ==
    <<Select({Settings(q.id)})>> \o IfFound(r, Settings(q.id), "404",
        <<OperatorAudit(q, "tenant_snapshot"), Select({Timeline(q.id)}),
          Select(RowsOf(db, "autonomy_grants", q.id)), Select({Account(q.id)}),
          Select(RowsOf(db, "instrument_runs", q.id)),
          Select(RowsOf(db, "experiments", q.id))>>)

\* Every rollup is a statement of its own; revenue is of committed accounts only.
Rollups(q, c, r) ==
    LET all(table) == {o \in DOMAIN r : o[1] = table}
        read(t) == <<Select({Timeline(t)})>>
        tenants == ToSet(TenantIds(r)) IN
    <<OperatorAudit(q, "rollups"),
      Select({o \in DOMAIN db : o[1] = "instrument_runs"}),
      Select({o \in DOMAIN db : o[1] = "finding_rejections"}),
      Select({o \in DOMAIN db : o[1] = "tenants"})>> \o ForEachTenant(r, 1, read) \o
    <<Select({o \in DOMAIN db : o[1] = "billing_accounts"}),
      Select({o \in DOMAIN db : o[1] = "billing_invoices"}),
      Reply([tenants    |-> Cardinality(tenants),
             funnel     |-> [s \in 0..5 |->
                               Cardinality({t \in tenants : Step(At(r, Timeline(t))) = s})],
             growth     |-> Cardinality({o \in all("billing_accounts") : r[o].tier = "growth"}),
             delivered  |-> Cardinality(all("instrument_runs")),
             merged     |-> Cardinality({o \in all("instrument_runs") : Merged(r[o].outcome)}),
             rejections |-> Cardinality(all("finding_rejections"))])>>
=============================================================================
