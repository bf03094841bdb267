---------------------------- MODULE StoreSessions ----------------------------
(***************************************************************************)
(* Requests that run the methods of RegistryStore on one Postgres at READ   *)
(* COMMITTED (registry-service/src/app.ts over db/postgres.ts), and what    *)
(* holds of the rows and of the answers however they interleave and         *)
(* whichever statement fails.                                               *)
(***************************************************************************)
EXTENDS RegistryStore

CONSTANTS
    Callers,      \* requests that are made of the service at once, 1..n
    Areas,        \* per area: the rows it starts from, its calls, and how many callers make them
    MaxFailures   \* bound on statements that fail

ASSUME StoreAssumption == MaxFailures \in Nat /\ Callers \subseteq Nat \ {0}

VARIABLES
    area,      \* the routes of this behaviour
    serial,    \* the next id of the identity sequences; ids before it are below 1
    failures,  \* history
    request,   \* per caller, and never changed: what it asks
    pc,        \* the statement it runs next
    reads,     \* the rows it read
    writes,    \* its uncommitted rows; their locks are held
    reply,     \* the status, and the body of a 200; <<>> until it is answered
    audit,     \* history: id of the audit row it drew
    began      \* history: the rows when the request began

vars == <<kek, db, area, serial, failures, request, pc, reads, writes, reply, audit, began>>

NoRows == [row \in {} |-> None]

\* A request is [op, token, t, id, v]: its route, the bearer token, the tenant or
\* none, the id in the URL, and the one value of the body.
Call(op, token, id, v) ==
    [op |-> op, token |-> token, t |-> "t1", id |-> id, v |-> v]

OperatorPlane ==
    {"listTenants", "tenantSnapshot", "rollups"}
Unrouted ==
    {"none", "cryptoShredTenant", "createTenant", "setResidency",
     "setRedactionOptout", "setRetentionDays", "setRolloutPolicy",
     "getRolloutPolicy", "getIngestSettings", "requestErasure",
     "completeErasure", "listErasures", "createOperatorToken",
     "revokeOperatorToken", "recordEvaluation"}

\* The routes of the operator plane and of the tenants', and what the deployment's
\* own jobs and scripts call.
OperatorMethod(q, c, r) ==
    CASE q.op = "listTenants"    -> ListTenants(q, c, r)
      [] q.op = "tenantSnapshot" -> TenantSnapshot(q, c, r)
      [] q.op = "rollups"        -> Rollups(q, c, r)

JobMethod(q, c, r) ==
    CASE q.op = "cryptoShredTenant"   -> CryptoShredTenant(q, c, r)
      [] q.op = "createTenant"        -> CreateTenant(q, c, r)
      [] q.op = "setResidency"        -> SetResidency(q, c, r)
      [] q.op = "setRedactionOptout"  -> SetRedactionOptout(q, c, r)
      [] q.op = "setRetentionDays"    -> SetRetentionDays(q, c, r)
      [] q.op = "setRolloutPolicy"    -> SetRolloutPolicy(q, c, r)
      [] q.op = "getRolloutPolicy"    -> GetRolloutPolicy(q, c, r)
      [] q.op = "getIngestSettings"   -> GetIngestSettings(q, c, r)
      [] q.op = "requestErasure"      -> RequestErasure(q, c, r)
      [] q.op = "completeErasure"     -> CompleteErasure(q, c, r)
      [] q.op = "listErasures"        -> ListErasures(q, c, r)
      [] q.op = "createOperatorToken" -> CreateOperatorToken(q, c, r)
      [] q.op = "revokeOperatorToken" -> RevokeOperatorToken(q, c, r)
      [] q.op = "recordEvaluation"    -> RecordEvaluation(q, c, r)

ExperimentMethod(q, c, r) ==
    CASE q.op = "createExperiment"  -> CreateExperiment(q, c, r)
      [] q.op = "listExperiments"   -> ListExperiments(q, c, r)
      [] q.op = "getExperiment"     -> GetExperiment(q, c, r)
      [] q.op = "updateExperiment"  -> UpdateExperiment(q, c, r)
      [] q.op = "writeVerdict"      -> WriteVerdict(q, c, r)
      [] q.op = "getOnboarding"     -> GetOnboarding(q, c, r)
      [] q.op = "recordMilestone"   -> RecordMilestone(q, c, r)
      [] q.op = "getBilling"        -> GetBilling(q, c, r)
      [] q.op = "setBilling"        -> SetBilling(q, c, r)
      [] q.op = "listInvoices"      -> ListInvoices(q, c, r)
      [] q.op = "recordInvoice"     -> RecordInvoice(q, c, r)
      [] q.op = "createAlert"       -> CreateAlert(q, c, r)
      [] q.op = "listAlerts"        -> ListAlerts(q, c, r)
      [] q.op = "listAlertEvents"   -> ListAlertEvents(q, c, r)
      [] q.op = "recordScore"       -> RecordScore(q, c, r)
      [] q.op = "listScores"        -> ListScores(q, c, r)
      [] q.op = "createDataset"     -> CreateDataset(q, c, r)
      [] q.op = "addCase"           -> AddCase(q, c, r)
      [] q.op = "getDataset"        -> GetDataset(q, c, r)
      [] q.op = "benchmarkResult"   -> BenchmarkResult(q, c, r)
      [] q.op = "setBenchmarkOptin" -> SetBenchmarkOptin(q, c, r)

TenantMethod(q, c, r) ==
    CASE q.op = "listAudit"             -> ListAudit(q, c, r)
      [] q.op = "putSeamMap"            -> PutSeamMap(q, c, r)
      [] q.op = "getSeamMap"            -> GetSeamMap(q, c, r)
      [] q.op = "recordInstrumentRun"   -> RecordInstrumentRun(q, c, r)
      [] q.op = "updateRunOutcome"      -> UpdateRunOutcome(q, c, r)
      [] q.op = "listInstrumentRuns"    -> ListInstrumentRuns(q, c, r)
      [] q.op = "publishFinding"        -> PublishFinding(q, c, r)
      [] q.op = "listFindings"          -> ListFindings(q, c, r)
      [] q.op = "getFinding"            -> GetFinding(q, c, r)
      [] q.op = "recordDelivery"        -> RecordDelivery(q, c, r)
      [] q.op = "getAutonomy"           -> GetAutonomy(q, c, r)
      [] q.op = "grantAutonomy"         -> GrantAutonomy(q, c, r)
      [] q.op = "issueToken"            -> IssueToken(q, c, r)
      [] q.op = "listTokens"            -> ListTokens(q, c, r)
      [] q.op = "revokeToken"           -> RevokeToken(q, c, r)
      [] q.op = "listFindingRejections" -> ListFindingRejections(q, c, r)
      [] OTHER -> ExperimentMethod(q, c, r)

\* The tenant of a request: its token's, once the hook has resolved it, or its own.
Owner(q, b) ==
    IF q.op \in Unrouted THEN q.t ELSE Column(b, Token(q.token), "t", "nobody")

\* The hook of the route's plane, then the method, for the token's own tenant.
Program(q, c, r, b) ==
    IF q.op \in Unrouted THEN JobMethod(q, c, r)
    ELSE IF q.op \in OperatorPlane THEN OperatorHook(q, r, b, OperatorMethod(q, c, r))
    ELSE TenantHook(q, b, TenantMethod([q EXCEPT !.t = Owner(q, b)], c, r))

\* At the end of the list the callback returns.
StatementAt(program, i) == IF i > Len(program) THEN Refuse("200") ELSE program[i]
-----------------------------------------------------------------------------
\* A tenant's settings, the operation under which audit_log files a change of each,
\* and the records there are of one.
Setting(f, t) ==
    [retention |-> f[Settings(t)].retention,
     redaction |-> f[Settings(t)].redaction,
     residency |-> f[Settings(t)].residency,
     optin     |-> Column(f, Optin(t), "opted_in", "no"),
     policy    |-> Column(f, Policy(t), "policy", Null)]
Operation ==
    [retention |-> "retention", redaction |-> "retention", residency |-> "retention",
     optin |-> "benchmark", policy |-> "autonomy"]
Records(f, t, name) ==
    {row \in RowsOf(f, "audit_log", t) :
        f[row].operation = Operation[name] /\ f[row].event = name}

\* The rows a behaviour starts from are those of a database that was served before:
\* rows refer to tenants that exist (the foreign keys of db/migrations.ts), the
\* sequences have passed the ids that were drawn, a map is sealed under its tenant's
\* key or that was shredded, a setting is what its newest record says, and a version
\* counts cases that are there.
Sequenced ==
    {"audit_log", "autonomy_grants", "finding_rejections", "finding_deliveries",
     "billing_invoices", "eval_dataset_cases", "alert_events", "operator_audit"}
NewestSays(f, t, name) ==
    \E row \in Records(f, t, name) : /\ \A other \in Records(f, t, name) : other[3] <= row[3]
                                    /\ f[row].after = Setting(f, t)[name]
StartRow(f, row) ==
    /\ "absent" \notin DOMAIN f[row]
    /\ row[1] \in Sequenced =>
          row = <<row[1], row[2], row[3]>> /\ row[3] \in Int /\ row[3] < 1
    /\ row[1] = "tenants" =>
          row = Settings(row[2]) /\ {"retention", "redaction", "residency"} \subseteq DOMAIN f[row]
    /\ row[1] = "tenant_tokens" =>
          {"t", "scope"} \subseteq DOMAIN f[row] /\ Settings(f[row].t) \in DOMAIN f
    /\ row[1] = "audit_log" => Settings(row[2]) \in DOMAIN f
    /\ row[1] = "tenant_keys" => (f[row].shredded => f[row].wrapped = 0)
    /\ row[1] = "repo_context" /\ f[row].key # 0 =>
          Key(row[2]) \in DOMAIN f /\ f[Key(row[2])].wrapped \in {f[row].key, 0}
    /\ row[1] = "benchmark_optin" /\ f[row].opted_in = "yes" =>
          \E record \in Records(f, row[2], "optin") : f[record].after = "yes"
    /\ row[1] = "tenants" =>
          \A name \in DOMAIN Operation :
             Records(f, row[2], name) # {} => NewestSays(f, row[2], name)
    /\ row[1] = "experiment_verdicts" => f[row].decision # Null
    /\ row[1] = "eval_datasets" =>
          f[row].version \in Nat /\ f[row].version <= 1 + CasesOf(f, row[2], row[3])

Routes ==
    {"listAudit", "putSeamMap", "getSeamMap", "recordInstrumentRun", "updateRunOutcome",
     "listInstrumentRuns", "publishFinding", "listFindings", "getFinding",
     "recordDelivery", "getAutonomy", "grantAutonomy", "issueToken", "listTokens",
     "revokeToken", "listFindingRejections", "createExperiment", "listExperiments",
     "getExperiment", "updateExperiment", "writeVerdict", "getOnboarding",
     "recordMilestone", "getBilling", "setBilling", "listInvoices", "recordInvoice",
     "createAlert", "listAlerts", "listAlertEvents", "recordScore", "listScores",
     "createDataset", "addCase", "getDataset", "benchmarkResult", "setBenchmarkOptin"}

\* What the routes' schemas let through: a milestone's name and time, a decision.
StartCall(f, q) ==
    /\ q = [op |-> q.op, token |-> q.token, t |-> q.t, id |-> q.id, v |-> q.v]
    /\ q.op \in Routes \cup OperatorPlane \cup (Unrouted \ {"none"})
    /\ Settings(q.t) \in DOMAIN f
    /\ q.op = "recordMilestone" => q.id \in ToSet(MILESTONES) /\ q.v # Null
    /\ q.op = "writeVerdict" => q.v # Null

ASSUME AreasAssumption ==
    \A a \in DOMAIN Areas :
       /\ Areas[a].kek \subseteq BOOLEAN
       /\ IsFiniteSet(DOMAIN Areas[a].rows)
       /\ \A row \in DOMAIN Areas[a].rows : StartRow(Areas[a].rows, row)
       /\ \A i \in DOMAIN Areas[a].calls : StartCall(Areas[a].rows, Areas[a].calls[i])
-----------------------------------------------------------------------------
\* Requests are interchangeable, so they come sorted.
Init ==
    /\ area \in DOMAIN Areas
    /\ kek \in Areas[area].kek
    /\ db = Areas[area].rows
    /\ serial = 1
    /\ failures = 0
    /\ LET calls == Areas[area].calls
           callers == 1..Areas[area].callers IN
       \E f \in [callers -> DOMAIN calls] :
          /\ \A c, d \in callers : c < d => f[c] <= f[d]
          /\ request = [c \in Callers |->
                          IF c \in callers THEN calls[f[c]] ELSE Call("none", 0, "", "")]
          /\ reply = [c \in Callers |-> IF c \in callers THEN <<>> ELSE <<"none">>]
    /\ pc = [c \in Callers |-> 1]
    /\ reads = [c \in Callers |-> NoRows]
    /\ writes = [c \in Callers |-> NoRows]
    /\ audit = [c \in Callers |-> 0]
    /\ began = [c \in Callers |-> NoRows]

InFlight(c) == reply[c] = <<>>
Visible(c, row) == IF row \in DOMAIN writes[c] THEN writes[c][row] ELSE At(db, row)
Locked(c, row) == \E d \in Callers \ {c} : row \in DOMAIN writes[d]
Statement(c) == StatementAt(Program(request[c], c, reads[c], began[c]), pc[c])

\* The history of a request starts with its first statement.
Advance(c) ==
    /\ pc' = [pc EXCEPT ![c] = @ + 1]
    /\ began' = [began EXCEPT ![c] = IF pc[c] = 1 THEN db ELSE @]
    /\ UNCHANGED <<kek, area, failures, request, reply>>

SelectRows(c, st) ==
    /\ st.do = "select"
    /\ reads' = [reads EXCEPT ![c] = Over([row \in st.rows |-> Visible(c, row)], @)]
    /\ Advance(c)
    /\ UNCHANGED <<db, serial, writes, audit>>

\* What c's writes become with this one; one of its own is committed at once.
Put(c, st, row, columns) ==
    LET written == [o \in {row} |-> columns] IN
    /\ db' = IF st.own THEN Over(written, db) ELSE db
    /\ writes' = IF st.own THEN writes ELSE [writes EXCEPT ![c] = Over(written, @)]
    /\ audit' = IF row[1] = "audit_log" THEN [audit EXCEPT ![c] = row[3]] ELSE audit
    /\ Advance(c)
    /\ UNCHANGED reads

\* The columns not named keep what is committed when the lock is granted.
WriteRow(c, st) ==
    /\ st.do \in {"insert", "upsert", "update"} /\ ~Locked(c, st.row)
    /\ LET old == Visible(c, st.row) IN
       \/ st.do # "update" /\ old = None /\ Put(c, st, st.row, st.set)
       \/ st.do # "insert" /\ old # None /\ Put(c, st, st.row, Over(st.set, old))
       \/ st.do = "update" /\ old = None /\ Advance(c) /\ UNCHANGED <<db, reads, writes, audit>>
    /\ UNCHANGED serial

\* An insert that draws its id from an identity sequence.
AppendRow(c, st) ==
    /\ st.do = "append"
    /\ Put(c, st, <<st.table, st.t, serial>>, st.set)
    /\ serial' = serial + 1

End(c, answer) ==
    /\ reply' = [reply EXCEPT ![c] = answer]
    /\ reads' = [reads EXCEPT ![c] = NoRows]
    /\ writes' = [writes EXCEPT ![c] = NoRows]
    /\ UNCHANGED <<kek, area, serial, request, pc, audit, began>>

\* The callback returns and the transaction commits; the route answers.
Return(c, st) ==
    /\ st.do = "return"
    /\ End(c, st.value)
    /\ db' = Over(writes[c], db)
    /\ UNCHANGED failures

\* A statement throws, the transaction is rolled back, and the route answers 500:
\* a key exists already, or the database fails.
UniqueViolation(c, st) ==
    /\ st.do = "insert" /\ ~Locked(c, st.row) /\ Visible(c, st.row) # None
    /\ End(c, <<"500">>)
    /\ UNCHANGED <<db, failures>>

DatabaseFails(c) ==
    /\ InFlight(c) /\ failures < MaxFailures
    /\ failures' = failures + 1
    /\ End(c, <<"500">>)
    /\ UNCHANGED db

Run(c) ==
    /\ InFlight(c)
    /\ \E st \in {Statement(c)} :   \* which TLC then evaluates once
       SelectRows(c, st) \/ WriteRow(c, st) \/ AppendRow(c, st) \/ Return(c, st)
       \/ UniqueViolation(c, st)

Next == \E c \in Callers : Run(c) \/ DatabaseFails(c)

Spec == Init /\ [][Next]_vars
FairSpec == Spec /\ \A c \in Callers : WF_vars(Run(c))
-----------------------------------------------------------------------------
Tenants == {row[2] : row \in {o \in DOMAIN db : o[1] = "tenants"}}
Asks(c, op) == request[c].op = op
Answered(c, status) == reply[c] # <<>> /\ reply[c][1] = status
Gives(c) == reply[c][2]

Tenant(c) == Owner(request[c], began[c])

\* An encrypted seam map is sealed under its tenant's one key, or that key is
\* shredded; after a shred no request gets a map that was sealed before, and no
\* request meets a map its tenant's key does not open.
KeysSafe ==
    /\ \A row \in DOMAIN db :
          row[1] = "repo_context" /\ db[row].key # 0 =>
              /\ At(db, Key(row[2])) # None
              /\ db[Key(row[2])].wrapped \in {db[row].key, 0}
    /\ \A c \in Callers :
          Asks(c, "getSeamMap") /\ Answered(c, "200") /\ Gives(c).key # 0 =>
              ~Column(began[c], Key(Tenant(c)), "shredded", FALSE)
    /\ failures = 0 => \A c \in Callers : Asks(c, "getSeamMap") => ~Answered(c, "500")

\* audit_log: a change of a setting that is answered is recorded and one that is not
\* is not, and the newest record of a setting says what the setting is, in whatever
\* order concurrent changes took their locks and drew their ids.
AuditTellsTruth ==
    /\ \A c \in Callers :
          audit[c] # 0 /\ ~InFlight(c) =>
              ((\E row \in DOMAIN db : row[1] = "audit_log" /\ row[3] = audit[c])
                  <=> ~Answered(c, "500"))
    /\ \A t \in Tenants, name \in DOMAIN Operation :
          Records(db, t, name) # {} =>
              db[Newest(Records(db, t, name))].after = Setting(db, t)[name]

\* Who is served what: a token does what its plane and scope allow and nothing once it
\* was revoked; an operator sees a tenant's data only when operator_audit has it; and a
\* benchmark is of tenants whose consent is in the audit log.
ServedRightly ==
    \A c \in Callers :
       LET q == request[c]
           data == {row \in DOMAIN reads[c] :
                      row[1] \notin {"operator_tokens", "tenant_tokens", "tenants"}} IN
       /\ q.op \notin Unrouted /\ ~InFlight(c) /\ ~Answered(c, "500") =>
             LET row == IF q.op \in OperatorPlane THEN OperatorToken(q.token)
                                                  ELSE Token(q.token)
                 allowed == /\ At(db, row) # None
                            /\ q.op \notin OperatorPlane => db[row].scope = "api:full" IN
             ~allowed \/ Column(began[c], row, "revoked", FALSE) => reply[c][1] \in {"401", "403"}
       /\ q.op \in OperatorPlane /\ data # {} =>
             \E row \in DOMAIN db : row[1] = "operator_audit" /\ row[2] = q.token
       /\ Asks(c, "benchmarkResult") /\ Answered(c, "200") =>
             \A t \in Gives(c).cohort :
                \E row \in Records(db, t, "optin") : db[row].after = "yes"

\* The experiments that a status update, not a verdict, called concluded: the route's
\* schema allows it, in this behaviour or before it.
CalledConcluded ==
    LET rows == Areas[area].rows
        calls == {c \in Callers : /\ Asks(c, "updateExperiment") /\ pc[c] > 1
                                  /\ request[c].v = "concluded"} IN
    {row \in DOMAIN rows : /\ row[1] = "experiments" /\ rows[row].status = "concluded"
                           /\ At(rows, Verdict(row[2], row[3])) = None}
    \cup {<<"experiments", Tenant(c), request[c].id>> : c \in calls}

\* What was written stays, and what is read fits together: no milestone of another
\* request is lost; an experiment concluded by its verdict has it, in the table and in
\* every answer; and a dataset's version never counts a case that is not there.
NothingLostOrTorn ==
    /\ \A c \in Callers :
          Asks(c, "recordMilestone") /\ Answered(c, "200") =>
              Column(db, Timeline(Tenant(c)), request[c].id, Null) # Null
    /\ \A row \in DOMAIN db :
          row[1] = "experiments" /\ db[row].status = "concluded" =>
              At(db, Verdict(row[2], row[3])) # None \/ row \in CalledConcluded
    /\ \A c \in Callers :
          Asks(c, "getExperiment") /\ Answered(c, "200") /\ Gives(c).status = "concluded" =>
              \/ Gives(c).verdict # Null
              \/ <<"experiments", Tenant(c), request[c].id>> \in CalledConcluded
    /\ \A row \in DOMAIN db :
          row[1] = "eval_datasets" => db[row].version <= 1 + CasesOf(db, row[2], row[3])

\* Every request is answered: no two methods wait for each other's rows.
EveryCallEnds == <>(\A c \in Callers : ~InFlight(c))

\* evals-store.ts:135: adding a case bumps the dataset version.
EveryCaseBumps ==
    \A row \in DOMAIN db :
       row[1] = "eval_datasets" => db[row].version = 1 + CasesOf(db, row[2], row[3])
=============================================================================
