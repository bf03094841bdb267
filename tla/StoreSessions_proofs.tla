------------------------ MODULE StoreSessions_proofs ------------------------
(***************************************************************************)
(* Proofs about StoreSessions: for any rows of the start, any requests and  *)
(* any number of callers, keys and maps fit, the audit log tells the        *)
(* settings, nobody is served what is not theirs, and nothing is lost or    *)
(* torn.                                                                    *)
(*                                                                          *)
(* The inductive invariant speaks of the committed rows f, and of a session *)
(* s: its request, the statement it is at, what it read, its uncommitted    *)
(* writes and the rows when it began.  A step of one session is proved to   *)
(* keep what holds of it; a commit is proved to keep what holds of the rows *)
(* and to be of the kind (Grows) that keeps what holds of everybody else.   *)
(***************************************************************************)
EXTENDS StoreSessions, FiniteSetTheorems, TLAPS

Session(c) ==
    [q |-> request[c], pc |-> pc[c], reads |-> reads[c], writes |-> writes[c],
     began |-> began[c]]

Passed(q, b) == Live(b, Token(q.token)) /\ At(b, Token(q.token)).scope = "api:full"

\* The settings' methods: the setting, its row and column, and where it is recorded.
Setters ==
    [setResidency |-> "residency", setRedactionOptout |-> "redaction",
     setRetentionDays |-> "retention", setRolloutPolicy |-> "policy",
     setBenchmarkOptin |-> "optin"]
Home(name, t) ==
    IF name = "policy" THEN Policy(t) ELSE IF name = "optin" THEN Optin(t) ELSE Settings(t)
ColumnOf(name) == IF name = "optin" THEN "opted_in" ELSE name
Columns == {"retention", "redaction", "residency"}
WrittenAt(op) == IF op \in {"setRetentionDays", "setBenchmarkOptin"} THEN 2 ELSE 1
RecordedAt(op) == IF op \in {"setRetentionDays", "setBenchmarkOptin"} THEN 3 ELSE 2
RecordsSetting(columns, name) ==
    columns.operation = Operation[name] /\ columns.event = name

\* Which methods write a table, in a transaction.
MayWrite(op, table) ==
    \/ table \in {"instrument_runs", "findings", "billing_accounts", "eval_scores", "alerts",
                  "operator_tokens"}
    \/ table = "tenant_keys" /\ op \in {"putSeamMap", "getSeamMap", "cryptoShredTenant"}
    \/ table = "repo_context" /\ op = "putSeamMap"
    \/ table = "tenants" /\ op \in {"createTenant", "setResidency", "setRedactionOptout",
                                    "setRetentionDays"}
    \/ table = "tenant_tokens" /\ op \in {"createTenant", "issueToken", "revokeToken"}
    \/ table = "benchmark_optin" /\ op = "setBenchmarkOptin"
    \/ table = "rollout_policies" /\ op = "setRolloutPolicy"
    \/ table = "onboarding_timeline" /\ op = "recordMilestone"
    \/ table = "experiments" /\ op \in {"createExperiment", "updateExperiment", "writeVerdict"}
    \/ table = "experiment_verdicts" /\ op = "writeVerdict"
    \/ table = "eval_datasets" /\ op \in {"createDataset", "addCase"}
-----------------------------------------------------------------------------
(* What holds of the committed rows; n is the next id of the sequences.     *)
TypedRows(f, n) ==
    /\ IsFiniteSet(DOMAIN f)
    /\ \A row \in DOMAIN f :
          /\ "absent" \notin DOMAIN f[row]
          /\ row[1] \in Sequenced =>
                row = <<row[1], row[2], row[3]>> /\ row[3] \in Int /\ row[3] < n

KeysFit(f) ==
    \A row \in DOMAIN f :
       /\ row[1] = "tenant_keys" => (f[row].shredded => f[row].wrapped = 0)
       /\ row[1] = "repo_context" /\ f[row].key # 0 =>
             Key(row[2]) \in DOMAIN f /\ f[Key(row[2])].wrapped \in {f[row].key, 0}

TenantsExist(f) ==
    \A row \in DOMAIN f :
       /\ row[1] = "tenants" => row = Settings(row[2]) /\ Columns \subseteq DOMAIN f[row]
       /\ row[1] = "tenant_tokens" =>
             {"t", "scope"} \subseteq DOMAIN f[row] /\ Settings(f[row].t) \in DOMAIN f
       /\ row[1] = "audit_log" => Settings(row[2]) \in DOMAIN f

SettingsRecorded(f) ==
    \A row \in DOMAIN f :
       /\ row[1] = "tenants" =>
             \A name \in DOMAIN Operation :
                Records(f, row[2], name) # {} => NewestSays(f, row[2], name)
       /\ row[1] = "benchmark_optin" /\ f[row].opted_in = "yes" =>
             \E record \in Records(f, row[2], "optin") : f[record].after = "yes"

\* called: the experiments a status update called concluded.
WorkFits(f, called) ==
    \A row \in DOMAIN f :
       /\ row[1] = "experiment_verdicts" => f[row].decision # Null
       /\ row[1] = "experiments" /\ f[row].status = "concluded" =>
             Verdict(row[2], row[3]) \in DOMAIN f \/ row \in called
       /\ row[1] = "eval_datasets" =>
             f[row].version \in Nat /\ f[row].version <= 1 + CasesOf(f, row[2], row[3])
-----------------------------------------------------------------------------
(* What holds of a session s of caller c, beside the rows f.                *)
Legal(q) ==
    /\ q = [op |-> q.op, token |-> q.token, t |-> q.t, id |-> q.id, v |-> q.v]
    /\ q.op \in Routes \cup OperatorPlane \cup (Unrouted \ {"none"})
    /\ q.op = "recordMilestone" => q.id # "absent" /\ q.v # Null
    /\ q.op = "writeVerdict" => q.v # Null
LegalSession(f, s) == s.pc \in Nat \ {0} /\ Legal(s.q) /\ Settings(s.q.t) \in DOMAIN f

TypedWrites(f, n, op, w) ==
    \A row \in DOMAIN w :
       /\ "absent" \notin DOMAIN w[row]
       /\ row[1] \in Sequenced \/ MayWrite(op, row[1])
       /\ row[1] \in Sequenced =>
             row = <<row[1], row[2], row[3]>> /\ row[3] \in Int /\ row[3] < n /\ row \notin DOMAIN f
TypedSession(f, n, s) ==
    /\ IsFiniteSet(DOMAIN s.reads) /\ IsFiniteSet(DOMAIN s.writes)
    /\ s.pc = 1 => s.reads = NoRows /\ s.writes = NoRows
    /\ s.q.op \in Routes \cup OperatorPlane /\ s.pc = 2 => s.writes = NoRows
    /\ TypedWrites(f, n, s.q.op, s.writes)

\* Rows stay, tokens keep their tenant and scope, and a shredded key is gone.
BeganSession(f, s) ==
    s.pc > 1 =>
       \A row \in DOMAIN s.began :
          /\ row \in DOMAIN f /\ "absent" \notin DOMAIN s.began[row]
          /\ row[1] = "tenant_tokens" =>
                /\ f[row].t = s.began[row].t /\ f[row].scope = s.began[row].scope
                /\ Settings(s.began[row].t) \in DOMAIN f
          /\ row[1] = "tenant_keys" => (s.began[row].shredded => f[row].wrapped = 0)

AdmittedSession(s) ==
    /\ s.q.op \in Routes /\ s.pc > 2 => Passed(s.q, s.began)
    /\ s.q.op \in OperatorPlane /\ s.pc > 3 => Live(s.began, OperatorToken(s.q.token))

\* Keys and maps: t is the session's tenant, w what it wrote.
KeyWrites(f, c, t, w) ==
    \A row \in DOMAIN w :
       /\ row[1] = "tenant_keys" =>
             /\ row = Key(t)
             /\ w[row].shredded => w[row].wrapped = 0
             /\ w[row].wrapped # 0 => w[row].wrapped = c /\ row \notin DOMAIN f
       /\ row[1] = "repo_context" /\ w[row].key # 0 =>
             /\ row[2] = t
             /\ Key(t) \in DOMAIN w => w[Key(t)].wrapped = w[row].key
             /\ Key(t) \notin DOMAIN w =>
                   Key(t) \in DOMAIN f /\ f[Key(t)].wrapped \in {w[row].key, 0}
KeyRead(f, t, s) ==
    s.pc > 1 /\ At(s.reads, Key(t)) # None =>
       /\ Key(t) \in DOMAIN f /\ f[Key(t)].wrapped \in {s.reads[Key(t)].wrapped, 0}
       /\ Column(s.began, Key(t), "shredded", FALSE) => s.reads[Key(t)].wrapped = 0
PuttingMap(k, c, t, s) ==
    /\ Key(t) \in DOMAIN s.writes =>
          At(s.reads, Key(t)) = None /\ s.writes[Key(t)].wrapped = c
    /\ s.pc = 3 /\ k => s.writes = NoRows
    /\ s.pc > 3 /\ k /\ At(s.reads, Key(t)) = None => Key(t) \in DOMAIN s.writes
GettingMap(f, k, t, s) ==
    LET map == Context(t, s.q.id)
        sealed == s.reads[map].key IN
    /\ s.pc = 3 => s.writes = NoRows
    /\ s.pc > 2 /\ At(s.reads, map) # None /\ sealed # 0 =>
          Key(t) \in DOMAIN f /\ f[Key(t)].wrapped \in {sealed, 0}
    /\ s.pc > 3 =>
          /\ At(s.reads, map) # None
          /\ sealed = 0 => s.pc = 4
          /\ sealed # 0 =>
                /\ k /\ At(s.reads, Key(t)) # None /\ s.reads[Key(t)].wrapped \in {sealed, 0}
                /\ s.pc \in {4, 5}
                /\ s.pc = 5 => s.reads[Key(t)].wrapped # 0
KeysSession(f, k, c, s) ==
    LET t == Owner(s.q, s.began) IN
    /\ KeyWrites(f, c, t, s.writes)
    /\ s.q.op \in {"putSeamMap", "getSeamMap"} => KeyRead(f, t, s)
    /\ s.q.op = "putSeamMap" => PuttingMap(k, c, t, s)
    /\ s.q.op = "getSeamMap" => GettingMap(f, k, t, s)

\* Settings, tokens and the records of a change.
TenantWrites(f, op, t, w) ==
    \A row \in DOMAIN w :
       /\ row[1] = "tenants" =>
             /\ row = Settings(row[2]) /\ Columns \subseteq DOMAIN w[row]
             /\ row \in DOMAIN f =>
                   /\ op \in {"setResidency", "setRedactionOptout", "setRetentionDays"}
                   /\ row[2] = t
                   /\ \A col \in Columns \ {Setters[op]} :
                         w[row][col] = f[row][col]
       /\ row[1] = "benchmark_optin" => row = Optin(t)
       /\ row[1] = "rollout_policies" => row = Policy(t)
TokenWrites(f, w) ==
    \A row \in DOMAIN w :
       row[1] = "tenant_tokens" =>
          /\ {"t", "scope"} \subseteq DOMAIN w[row]
          /\ Settings(w[row].t) \in DOMAIN f \cup DOMAIN w
          /\ row \in DOMAIN f => w[row].t = f[row].t /\ w[row].scope = f[row].scope
AuditWrites(f, t, s) ==
    \A row \in DOMAIN s.writes :
       row[1] = "audit_log" =>
          /\ Settings(row[2]) \in DOMAIN f \cup DOMAIN s.writes
          /\ \A name \in DOMAIN Operation : RecordsSetting(s.writes[row], name) =>
                /\ s.q.op \in DOMAIN Setters /\ name = Setters[s.q.op] /\ row[2] = t
                /\ s.pc > RecordedAt(s.q.op) /\ s.writes[row].after = s.q.v
                /\ \A other \in Records(f, t, name) : other[3] < row[3]
                /\ \A other \in Records(s.writes, t, name) : other = row
SetAndRecorded(t, s) ==
    LET name == Setters[s.q.op] IN
    /\ s.pc >= RecordedAt(s.q.op) =>
          /\ Home(name, t) \in DOMAIN s.writes
          /\ s.writes[Home(name, t)][ColumnOf(name)] = s.q.v
    /\ s.pc > RecordedAt(s.q.op) => Records(s.writes, t, name) # {}
NewTenant(c) == "t_" \o ToString(RandomUUID(c))
SettingsSession(f, c, s) ==
    LET t == Owner(s.q, s.began) IN
    /\ s.q.op = "createTenant" /\ s.pc > 1 => Settings(NewTenant(c)) \in DOMAIN s.writes
    /\ TenantWrites(f, s.q.op, t, s.writes)
    /\ TokenWrites(f, s.writes)
    /\ AuditWrites(f, t, s)
    /\ s.q.op \in DOMAIN Setters => SetAndRecorded(t, s)

\* The operator plane and the benchmark.
AuditedAt(op) == IF op = "tenantSnapshot" THEN 3 ELSE 2
Operators(rows) ==
    \A row \in rows : row[1] \in {"operator_tokens", "tenant_tokens", "tenants"}
OperatorAudited(f, q) == \E row \in DOMAIN f : row[1] = "operator_audit" /\ row[2] = q.token
OperatorSession(f, s) ==
    /\ Operators(DOMAIN s.reads) \/ OperatorAudited(f, s.q)
    /\ s.pc > AuditedAt(s.q.op) /\ Live(s.began, OperatorToken(s.q.token)) => OperatorAudited(f, s.q)
Consented(f, t) == \E record \in Records(f, t, "optin") : f[record].after = "yes"
BenchmarkSession(f, s) ==
    /\ s.writes = NoRows /\ s.pc <= 5
    /\ \A t \in OptedIn(s.reads) : Consented(f, t)
    /\ s.pc > 3 => Column(s.reads, Account(Owner(s.q, s.began)), "tier", "free") = "growth"
ServedSession(f, s) ==
    /\ s.q.op \in OperatorPlane => OperatorSession(f, s)
    /\ s.q.op = "benchmarkResult" => BenchmarkSession(f, s)

\* Experiments, milestones and datasets.
DatasetFits(f, w, row) ==
    /\ w[row].version \in Nat
    /\ \/ w[row].version <= 1 + CasesOf(f, row[2], row[3])
       \/ /\ w[row].version <= 2 + CasesOf(f, row[2], row[3])
          /\ \E o \in DOMAIN w : o[1] = "eval_dataset_cases" /\ o[2] = row[2] /\ w[o].dataset = row[3]
WorkWrites(f, called, w) ==
    \A row \in DOMAIN w :
       /\ row[1] = "experiment_verdicts" => w[row].decision # Null
       /\ row[1] = "experiments" /\ w[row].status = "concluded" =>
             Verdict(row[2], row[3]) \in DOMAIN w \/ row \in called
       /\ row[1] = "onboarding_timeline" /\ row \in DOMAIN f =>
             \A m \in DOMAIN f[row] : m \in DOMAIN w[row] /\ (f[row][m] # Null => w[row][m] # Null)
       /\ row[1] = "eval_datasets" => DatasetFits(f, w, row)
ReachingMilestone(t, s) ==
    s.pc > 2 => /\ Timeline(t) \in DOMAIN s.writes /\ s.q.id \in DOMAIN s.writes[Timeline(t)]
                /\ s.writes[Timeline(t)][s.q.id] # Null
AddingCase(f, t, s) ==
    LET dataset == Dataset(t, s.q.id) IN
    /\ s.pc > 2 /\ At(s.reads, dataset) # None =>
          /\ s.reads[dataset].version \in Nat
          /\ s.reads[dataset].version <= 1 + CasesOf(f, t, s.q.id)
    /\ s.pc > 3 => \E o \in DOMAIN s.writes :
                      o[1] = "eval_dataset_cases" /\ o[2] = t /\ s.writes[o].dataset = s.q.id
ReadingExperiment(f, called, t, s) ==
    LET experiment == <<"experiments", t, s.q.id>>
        concluded == s.reads[experiment].status = "concluded" IN
    /\ s.writes = NoRows /\ s.pc <= 4
    /\ s.pc > 2 /\ At(s.reads, experiment) # None /\ concluded =>
          Verdict(t, s.q.id) \in DOMAIN f \/ experiment \in called
    /\ s.pc > 3 =>
          /\ At(s.reads, experiment) # None
          /\ concluded => \/ Column(s.reads, Verdict(t, s.q.id), "decision", Null) # Null
                          \/ experiment \in called
WorkSession(f, called, s) ==
    LET t == Owner(s.q, s.began) IN
    /\ WorkWrites(f, called, s.writes)
    /\ s.q.op = "recordMilestone" => ReachingMilestone(t, s)
    /\ s.q.op = "writeVerdict" /\ s.pc > 3 => Verdict(t, s.q.id) \in DOMAIN s.writes
    /\ s.q.op = "addCase" => AddingCase(f, t, s)
    /\ s.q.op = "getExperiment" => ReadingExperiment(f, called, t, s)

SessionInv(f, n, k, called, c, s) ==
    /\ LegalSession(f, s)
    /\ TypedSession(f, n, s)
    /\ AdmittedSession(s)
    /\ KeysSession(f, k, c, s)
    /\ SettingsSession(f, c, s)
    /\ ServedSession(f, s)
    /\ WorkSession(f, called, s)
-----------------------------------------------------------------------------
(* What holds of an answer y to the request q that began with the rows b.   *)
Answer(f, called, lost, q, b, y) ==
    LET t == Owner(q, b)
        experiment == <<"experiments", t, q.id>> IN
    /\ q.op = "getSeamMap" /\ y[1] = "200" /\ y[2].key # 0 =>
          ~Column(b, Key(t), "shredded", FALSE)
    /\ q.op = "getSeamMap" /\ y[1] = "500" => lost # 0
    /\ q.op \in Routes /\ y[1] # "500" /\ ~Passed(q, b) => y[1] \in {"401", "403"}
    /\ q.op \in OperatorPlane /\ y[1] # "500" /\ ~Live(b, OperatorToken(q.token)) =>
          y[1] \in {"401", "403"}
    /\ q.op = "benchmarkResult" /\ y[1] = "200" =>
          \A u \in y[2].cohort : Consented(f, u)
    /\ q.op = "recordMilestone" /\ y[1] = "200" =>
          Timeline(t) \in DOMAIN f /\ q.id \in DOMAIN f[Timeline(t)] /\ f[Timeline(t)][q.id] # Null
    /\ q.op = "getExperiment" /\ y[1] = "200" /\ y[2].status = "concluded" =>
          y[2].verdict # Null \/ experiment \in called

\* The audit row a session drew is nobody else's, and is committed unless it answers 500.
AuditInv(c) ==
    audit[c] # 0 =>
       /\ audit[c] \in Nat /\ audit[c] < serial
       /\ \A d \in Callers \ {c} : \A row \in DOMAIN writes[d] :
             row[1] = "audit_log" => row[3] # audit[c]
       /\ InFlight(c) =>
             \E row \in DOMAIN writes[c] : row[1] = "audit_log" /\ row[3] = audit[c]
       /\ InFlight(c) \/ Answered(c, "500") =>
             \A row \in DOMAIN db : row[1] = "audit_log" => row[3] # audit[c]
       /\ ~InFlight(c) /\ ~Answered(c, "500") =>
             \E row \in DOMAIN db : row[1] = "audit_log" /\ row[3] = audit[c]

TypedState ==
    /\ area \in DOMAIN Areas /\ kek \in BOOLEAN
    /\ serial \in Nat \ {0} /\ failures \in Nat
    /\ pc \in [Callers -> Nat \ {0}]
    /\ DOMAIN request = Callers /\ DOMAIN reads = Callers /\ DOMAIN writes = Callers
    /\ DOMAIN reply = Callers /\ DOMAIN audit = Callers /\ DOMAIN began = Callers
    /\ \A c \in Callers : ~InFlight(c) => reads[c] = NoRows /\ writes[c] = NoRows
    /\ \A c \in Callers : pc[c] = 1 => audit[c] = 0
    /\ \A c, d \in Callers : c # d => DOMAIN writes[c] \cap DOMAIN writes[d] = {}

RowsInv(f, n, called) ==
    /\ TypedRows(f, n)
    /\ KeysFit(f)
    /\ TenantsExist(f)
    /\ SettingsRecorded(f)
    /\ WorkFits(f, called)

IInv ==
    /\ TypedState
    /\ RowsInv(db, serial, CalledConcluded)
    /\ \A c \in Callers :
          /\ BeganSession(db, Session(c))
          /\ InFlight(c) => SessionInv(db, serial, kek, CalledConcluded, c, Session(c))
          /\ ~InFlight(c) => Answer(db, CalledConcluded, failures, request[c], began[c], reply[c])
          /\ AuditInv(c)
-----------------------------------------------------------------------------
(* The statements of the methods: which tables they write, and that only    *)
(* the settings' methods record a setting.                                  *)
Allowed(op, t, st) ==
    /\ st.do \in {"select", "insert", "upsert", "update", "append", "return"}
    /\ st.do = "select" => IsFiniteSet(st.rows)
    /\ st.do \in {"insert", "upsert", "update"} =>
          /\ "absent" \notin DOMAIN st.set /\ st.own \in BOOLEAN
          /\ st.own => st.row[1] = "erasure_audit"
          /\ ~st.own => MayWrite(op, st.row[1])
    /\ st.do = "append" =>
          /\ "absent" \notin DOMAIN st.set /\ st.own \in BOOLEAN
          /\ st.own => st.table \in {"erasure_audit", "operator_audit"}
          /\ ~st.own => st.table \in Sequenced
          /\ st.table = "audit_log" =>
                /\ op # "createTenant" => st.t = t
                /\ \A name \in DOMAIN Operation :
                      RecordsSetting(st.set, name) => op \in DOMAIN Setters /\ name = Setters[op]
    /\ st.do = "return" =>
          st.value # <<>> /\ (op # "getSeamMap" => st.value[1] # "500")

\* A list of statements that are allowed.
Good(op, t, p) ==
    /\ \E S : p \in Seq(S)
    /\ \A i \in 1..Len(p) : Allowed(op, t, p[i])

LEMMA Good1 ==
  ASSUME NEW op, NEW t, NEW st, Allowed(op, t, st)
  PROVE  Good(op, t, <<st>>)
<1> DEFINE p == <<st>>
<1>1. p \in Seq({st}) /\ Len(p) = 1 /\ p[1] = st
  OBVIOUS
<1> HIDE DEF p
<1>2. \E S : p \in Seq(S)
  BY <1>1
<1>3. \A i \in 1..Len(p) : Allowed(op, t, p[i])
  BY <1>1
<1>4. Good(op, t, p)
  BY <1>2, <1>3 DEF Good
<1> QED BY <1>4 DEF p

LEMMA Good2 ==
  ASSUME NEW op, NEW t, NEW st1, NEW st2, Allowed(op, t, st1), Allowed(op, t, st2)
  PROVE  Good(op, t, <<st1, st2>>)
<1> DEFINE p == <<st1, st2>>
<1>1. p \in Seq({st1, st2}) /\ Len(p) = 2 /\ p[1] = st1 /\ p[2] = st2
  OBVIOUS
<1> HIDE DEF p
<1>2. \E S : p \in Seq(S)
  BY <1>1
<1>3. \A i \in 1..Len(p) : i = 1 \/ i = 2
  BY <1>1
<1>4. Good(op, t, p)
  BY <1>1, <1>2, <1>3 DEF Good
<1> QED BY <1>4 DEF p

LEMMA Good3 ==
  ASSUME NEW op, NEW t, NEW st1, NEW st2, NEW st3,
         Allowed(op, t, st1), Allowed(op, t, st2), Allowed(op, t, st3)
  PROVE  Good(op, t, <<st1, st2, st3>>)
<1> DEFINE p == <<st1, st2, st3>>
<1>1. p \in Seq({st1, st2, st3}) /\ Len(p) = 3 /\ p[1] = st1 /\ p[2] = st2 /\ p[3] = st3
  OBVIOUS
<1> HIDE DEF p
<1>2. \E S : p \in Seq(S)
  BY <1>1
<1>3. \A i \in 1..Len(p) : i = 1 \/ i = 2 \/ i = 3
  BY <1>1
<1>4. Good(op, t, p)
  BY <1>1, <1>2, <1>3 DEF Good
<1> QED BY <1>4 DEF p

LEMMA GoodConcat ==
  ASSUME NEW op, NEW t, NEW p1, NEW p2, Good(op, t, p1), Good(op, t, p2)
  PROVE  Good(op, t, p1 \o p2)
<1>1. PICK S1 : p1 \in Seq(S1)
  BY DEF Good
<1>2. PICK S2 : p2 \in Seq(S2)
  BY DEF Good
<1> DEFINE S == S1 \cup S2
<1>3. p1 \in Seq(S) /\ p2 \in Seq(S)
  BY <1>1, <1>2
<1>4. p1 \o p2 \in Seq(S) /\ Len(p1 \o p2) = Len(p1) + Len(p2)
  BY <1>3
<1>5. ASSUME NEW i \in 1..Len(p1 \o p2) PROVE Allowed(op, t, (p1 \o p2)[i])
  <2>1. CASE i <= Len(p1)
    BY <1>3, <1>4, <2>1 DEF Good
  <2>2. CASE i > Len(p1)
    <3>1. i - Len(p1) \in 1..Len(p2) /\ (p1 \o p2)[i] = p2[i - Len(p1)]
      BY <1>3, <1>4, <2>2
    <3> QED BY <3>1 DEF Good
  <2> QED BY <1>3, <1>4, <2>1, <2>2
<1> QED BY <1>4, <1>5 DEF Good

LEMMA GoodAt ==
  ASSUME NEW op, NEW t, NEW p, Good(op, t, p), NEW i \in Nat \ {0}
  PROVE  Allowed(op, t, StatementAt(p, i))
<1>1. CASE i > Len(p)
  BY <1>1 DEF StatementAt, Allowed, Refuse
<1>2. CASE ~(i > Len(p))
  <2>1. i \in 1..Len(p)
    BY <1>2 DEF Good
  <2> QED BY <1>2, <2>1 DEF Good, StatementAt
<1> QED BY <1>1, <1>2

LEMMA AllowedReturns ==
  ASSUME NEW op, NEW t
  PROVE  /\ \A status : (op # "getSeamMap" => status # "500") => Allowed(op, t, Refuse(status))
         /\ \A v : Allowed(op, t, Reply(v))
  BY DEF Allowed, Refuse, Reply

LEMMA AllowedSelect ==
  ASSUME NEW op, NEW t, NEW rows, IsFiniteSet(rows)
  PROVE  Allowed(op, t, Select(rows))
  BY DEF Allowed, Select

LEMMA AllowedSelectOne ==
  ASSUME NEW op, NEW t, NEW row
  PROVE  Allowed(op, t, Select({row}))
<1>1. IsFiniteSet({row})
  BY FS_Singleton
<1> QED BY <1>1, AllowedSelect

LEMMA AllowedSelectRows ==
  ASSUME NEW op, NEW t, NEW table, NEW u, IsFiniteSet(DOMAIN db)
  PROVE  /\ Allowed(op, t, Select(RowsOf(db, table, u)))
         /\ Allowed(op, t, Select({row \in DOMAIN db : row[1] = table}))
<1>1. IsFiniteSet(RowsOf(db, table, u))
  BY FS_Subset DEF RowsOf
<1>2. IsFiniteSet({row \in DOMAIN db : row[1] = table})
  BY FS_Subset
<1> QED BY <1>1, <1>2, AllowedSelect

LEMMA AllowedWrites ==
  ASSUME NEW op, NEW t, NEW row, NEW set, MayWrite(op, row[1]), "absent" \notin DOMAIN set
  PROVE  /\ Allowed(op, t, Insert(row, set))
         /\ Allowed(op, t, Upsert(row, set))
         /\ Allowed(op, t, Update(row, set))
  BY DEF Allowed, Insert, Upsert, Update

LEMMA AllowedAddRow ==
  ASSUME NEW op, NEW t, NEW table \in Sequenced \ {"audit_log"}, NEW u, NEW set,
         "absent" \notin DOMAIN set
  PROVE  Allowed(op, t, AddRow(table, u, set))
  BY DEF Allowed, AddRow

LEMMA AllowedAudit ==
  ASSUME NEW op, NEW t, NEW operation, NEW event, NEW after,
         \/ operation \notin {"retention", "benchmark", "autonomy"}
         \/ event \notin {"retention", "redaction", "residency", "optin", "policy"}
         \/ op \in DOMAIN Setters /\ event = Setters[op]
  PROVE  Allowed(op, t, Audit(t, operation, event, after))
<1> DEFINE set == [operation |-> operation, event |-> event, after |-> after]
<1>1. \A name \in DOMAIN Operation :
        RecordsSetting(set, name) => op \in DOMAIN Setters /\ name = Setters[op]
  BY DEF Operation, RecordsSetting
<1>2. "absent" \notin DOMAIN set /\ "audit_log" \in Sequenced
  BY DEF Sequenced
<1> HIDE DEF set
<1>3. Audit(t, operation, event, after) = AddRow("audit_log", t, set)
  BY DEF Audit, set
<1> QED BY <1>1, <1>2, <1>3 DEF Allowed, AddRow

LEMMA AllowedOperatorAudit ==
  ASSUME NEW op, NEW t, NEW q, NEW action
  PROVE  Allowed(op, t, OperatorAudit(q, action))
  BY DEF Allowed, OperatorAudit, AddRow, OnItsOwn

\* What the lists of the tenants' methods are made of.
LEMMA GoodEmpty ==
  ASSUME NEW op, NEW t
  PROVE  Good(op, t, <<>>)
  BY DEF Good

LEMMA GoodRead ==
  ASSUME NEW op, NEW t, NEW rows, NEW v, IsFiniteSet(rows)
  PROVE  Good(op, t, <<Select(rows), Reply(v)>>)
  BY AllowedSelect, AllowedReturns, Good2

LEMMA GoodIfFound ==
  ASSUME NEW op, NEW t, NEW r, NEW row, NEW otherwise, NEW rest,
         otherwise # "500", Good(op, t, rest)
  PROVE  Good(op, t, <<Select({row})>> \o IfFound(r, row, otherwise, rest))
<1>1. Good(op, t, <<Select({row})>>)
  BY AllowedSelectOne, Good1
<1>2. Good(op, t, <<Refuse(otherwise)>>)
  BY AllowedReturns, Good1
<1>3. Good(op, t, IfFound(r, row, otherwise, rest))
  BY <1>2 DEF IfFound
<1> QED BY <1>1, <1>3, GoodConcat

LEMMA GoodWriteAudit ==
  ASSUME NEW op, NEW t, NEW st, NEW operation, NEW event, NEW after, Allowed(op, t, st),
         \/ operation \notin {"retention", "benchmark", "autonomy"}
         \/ event \notin {"retention", "redaction", "residency", "optin", "policy"}
         \/ op \in DOMAIN Setters /\ event = Setters[op]
  PROVE  Good(op, t, <<st, Audit(t, operation, event, after)>>)
  BY AllowedAudit, Good2

LEMMA GoodTenantDek ==
  ASSUME NEW op \in {"putSeamMap", "getSeamMap"}, NEW c, NEW t, NEW r
  PROVE  Good(op, t, TenantDek(c, t, r))
<1> DEFINE st == Insert(Key(t), [wrapped |-> GenerateDek(c), shredded |-> FALSE])
<1>1. Allowed(op, t, Select({Key(t)}))
  BY AllowedSelectOne
<1>2. Allowed(op, t, st)
  BY AllowedWrites DEF MayWrite, Key
<1> HIDE DEF st
<1>3. Good(op, t, <<Select({Key(t)})>>) /\ Good(op, t, <<st>>) /\ Good(op, t, <<>>)
  BY <1>1, <1>2, Good1, GoodEmpty
<1>4. Good(op, t, IF At(r, Key(t)) = None THEN <<st>> ELSE <<>>)
  BY <1>3
<1>5. Good(op, t, <<Select({Key(t)})>> \o IF At(r, Key(t)) = None THEN <<st>> ELSE <<>>)
  BY <1>3, <1>4, GoodConcat
<1> QED BY <1>3, <1>5 DEF TenantDek, st

LEMMA FiniteRows ==
  ASSUME IsFiniteSet(DOMAIN db)
  PROVE  /\ \A table, u : IsFiniteSet(RowsOf(db, table, u))
         /\ \A table : IsFiniteSet({row \in DOMAIN db : row[1] = table})
         /\ \A u : IsFiniteSet({row \in DOMAIN db : row[1] = "tenant_tokens" /\ db[row].t = u})
<1>1. \A table, u : IsFiniteSet(RowsOf(db, table, u))
  BY FS_Subset DEF RowsOf
<1>2. \A table : IsFiniteSet({row \in DOMAIN db : row[1] = table})
  BY FS_Subset
<1>3. \A u : IsFiniteSet({row \in DOMAIN db : row[1] = "tenant_tokens" /\ db[row].t = u})
  BY FS_Subset
<1> QED BY <1>1, <1>2, <1>3

\* The lists that only read.
LEMMA GoodReads ==
  ASSUME NEW q, NEW c, NEW r, IsFiniteSet(DOMAIN db)
  PROVE  /\ Good(q.op, q.t, ListAudit(q, c, r))
         /\ Good(q.op, q.t, ListInstrumentRuns(q, c, r))
         /\ Good(q.op, q.t, ListFindings(q, c, r))
         /\ Good(q.op, q.t, ListFindingRejections(q, c, r))
         /\ Good(q.op, q.t, ListTokens(q, c, r))
         /\ Good(q.op, q.t, GetAutonomy(q, c, r))
         /\ Good(q.op, q.t, ListExperiments(q, c, r))
         /\ Good(q.op, q.t, GetOnboarding(q, c, r))
         /\ Good(q.op, q.t, GetBilling(q, c, r))
         /\ Good(q.op, q.t, ListInvoices(q, c, r))
         /\ Good(q.op, q.t, ListAlerts(q, c, r))
         /\ Good(q.op, q.t, ListAlertEvents(q, c, r))
         /\ Good(q.op, q.t, ListScores(q, c, r))
         /\ Good(q.op, q.t, GetRolloutPolicy(q, c, r))
         /\ Good(q.op, q.t, GetIngestSettings(q, c, r))
         /\ Good(q.op, q.t, ListErasures(q, c, r))
<1>1. /\ \A table, u : IsFiniteSet(RowsOf(db, table, u))
      /\ \A table : IsFiniteSet({row \in DOMAIN db : row[1] = table})
      /\ IsFiniteSet({row \in DOMAIN db : row[1] = "tenant_tokens" /\ db[row].t = q.t})
      /\ \A row : IsFiniteSet({row})
  BY FiniteRows, FS_Singleton
<1>2. \A rows, v : IsFiniteSet(rows) => Good(q.op, q.t, <<Select(rows), Reply(v)>>)
  BY GoodRead
<1>3. Good(q.op, q.t, ListAudit(q, c, r))
  BY <1>1, <1>2 DEF ListAudit
<1>4. Good(q.op, q.t, ListInstrumentRuns(q, c, r))
  BY <1>1, <1>2 DEF ListInstrumentRuns
<1>5. Good(q.op, q.t, ListFindings(q, c, r))
  BY <1>1, <1>2 DEF ListFindings
<1>6. Good(q.op, q.t, ListFindingRejections(q, c, r))
  BY <1>1, <1>2 DEF ListFindingRejections
<1>7. Good(q.op, q.t, ListTokens(q, c, r))
  BY <1>1, <1>2 DEF ListTokens
<1>8. Good(q.op, q.t, GetAutonomy(q, c, r))
  BY <1>1, <1>2 DEF GetAutonomy
<1>9. Good(q.op, q.t, ListExperiments(q, c, r))
  BY <1>1, <1>2 DEF ListExperiments
<1>10. Good(q.op, q.t, GetOnboarding(q, c, r))
  BY <1>1, <1>2 DEF GetOnboarding
<1>11. Good(q.op, q.t, GetBilling(q, c, r))
  BY <1>1, <1>2 DEF GetBilling
<1>12. Good(q.op, q.t, ListInvoices(q, c, r))
  BY <1>1, <1>2 DEF ListInvoices
<1>13. Good(q.op, q.t, ListAlerts(q, c, r))
  BY <1>1, <1>2 DEF ListAlerts
<1>14. Good(q.op, q.t, ListAlertEvents(q, c, r))
  BY <1>1, <1>2 DEF ListAlertEvents
<1>15. Good(q.op, q.t, ListScores(q, c, r))
  BY <1>1, <1>2 DEF ListScores
<1>16. Good(q.op, q.t, GetRolloutPolicy(q, c, r))
  BY <1>1, <1>2 DEF GetRolloutPolicy
<1>17. Good(q.op, q.t, GetIngestSettings(q, c, r))
  BY <1>1, <1>2 DEF GetIngestSettings
<1>18. Good(q.op, q.t, ListErasures(q, c, r))
  BY <1>1, <1>2 DEF ListErasures
<1> QED BY ONLY <1>3, <1>4, <1>5, <1>6, <1>7, <1>8, <1>9, <1>10, <1>11, <1>12, <1>13, <1>14,
             <1>15, <1>16, <1>17, <1>18

\* The methods that read a row and then its parts.
LEMMA GoodTwoReads ==
  ASSUME NEW q, NEW c, NEW r, IsFiniteSet(DOMAIN db)
  PROVE  /\ Good(q.op, q.t, GetFinding(q, c, r))
         /\ Good(q.op, q.t, GetExperiment(q, c, r))
         /\ Good(q.op, q.t, GetDataset(q, c, r))
         /\ Good(q.op, q.t, BenchmarkResult(q, c, r))
<1>1. /\ \A table, u : IsFiniteSet(RowsOf(db, table, u))
      /\ \A table : IsFiniteSet({row \in DOMAIN db : row[1] = table})
      /\ \A row : IsFiniteSet({row})
  BY FiniteRows, FS_Singleton
<1>2. \A rows, v : IsFiniteSet(rows) => Good(q.op, q.t, <<Select(rows), Reply(v)>>)
  BY GoodRead
<1>3. \A row, rest : Good(q.op, q.t, rest) =>
         Good(q.op, q.t, <<Select({row})>> \o IfFound(r, row, "404", rest))
  BY GoodIfFound
<1>4. Good(q.op, q.t, GetFinding(q, c, r))
  BY <1>1, <1>2, <1>3 DEF GetFinding
<1>5. Good(q.op, q.t, GetExperiment(q, c, r))
  BY <1>1, <1>2, <1>3 DEF GetExperiment
<1>6. Good(q.op, q.t, GetDataset(q, c, r))
  BY <1>1, <1>2, <1>3 DEF GetDataset
<1>7. Good(q.op, q.t, BenchmarkResult(q, c, r))
  <2> DEFINE a == Select({Account(q.t)})
             b == Select({Optin(q.t)})
             d == IF q.t \in OptedIn(r) THEN Select({o \in DOMAIN db : o[1] = "benchmark_optin"})
                                        ELSE Refuse("403")
             e == Reply([cohort |-> OptedIn(r)])
  <2>1. /\ Allowed(q.op, q.t, a) /\ Allowed(q.op, q.t, b) /\ Allowed(q.op, q.t, d)
        /\ Allowed(q.op, q.t, e) /\ Allowed(q.op, q.t, Refuse("403"))
    BY <1>1, AllowedSelect, AllowedReturns
  <2> HIDE DEF a, b, d, e
  <2>2. /\ Good(q.op, q.t, <<a>>) /\ Good(q.op, q.t, <<Refuse("403")>>)
        /\ Good(q.op, q.t, <<b, d, e>>)
    BY <2>1, Good1, Good3
  <2>3. Good(q.op, q.t, IF Column(r, Account(q.t), "tier", "free") # "growth"
                        THEN <<Refuse("403")>> ELSE <<b, d, e>>)
    BY <2>2
  <2>4. Good(q.op, q.t, <<a>> \o IF Column(r, Account(q.t), "tier", "free") # "growth"
                                 THEN <<Refuse("403")>> ELSE <<b, d, e>>)
    BY <2>2, <2>3, GoodConcat
  <2> QED BY <2>4 DEF BenchmarkResult, a, b, d, e
<1> QED BY ONLY <1>4, <1>5, <1>6, <1>7

\* The methods that write a row, and file it in the audit log.
LEMMA GoodWrites ==
  ASSUME NEW q, NEW c, NEW r
  PROVE  /\ q.op = "cryptoShredTenant" => Good(q.op, q.t, CryptoShredTenant(q, c, r))
         /\ q.op = "issueToken" => Good(q.op, q.t, IssueToken(q, c, r))
         /\ Good(q.op, q.t, RecordInstrumentRun(q, c, r))
         /\ Good(q.op, q.t, GrantAutonomy(q, c, r))
         /\ q.op = "createExperiment" => Good(q.op, q.t, CreateExperiment(q, c, r))
         /\ q.op = "setBenchmarkOptin" => Good(q.op, q.t, SetBenchmarkOptin(q, c, r))
         /\ q.op = "setResidency" => Good(q.op, q.t, SetResidency(q, c, r))
         /\ q.op = "setRedactionOptout" => Good(q.op, q.t, SetRedactionOptout(q, c, r))
         /\ q.op = "setRolloutPolicy" => Good(q.op, q.t, SetRolloutPolicy(q, c, r))
<1>1. q.op = "cryptoShredTenant" => Good(q.op, q.t, CryptoShredTenant(q, c, r))
  BY AllowedWrites, GoodWriteAudit DEF CryptoShredTenant, MayWrite, Key
<1>2. q.op = "issueToken" => Good(q.op, q.t, IssueToken(q, c, r))
  BY AllowedWrites, GoodWriteAudit DEF IssueToken, MayWrite, Token
<1>3. Good(q.op, q.t, RecordInstrumentRun(q, c, r))
  BY AllowedWrites, GoodWriteAudit DEF RecordInstrumentRun, MayWrite
<1>4. Good(q.op, q.t, GrantAutonomy(q, c, r))
  BY AllowedAddRow, GoodWriteAudit DEF GrantAutonomy, Sequenced
<1>5. q.op = "createExperiment" => Good(q.op, q.t, CreateExperiment(q, c, r))
  BY AllowedWrites, GoodWriteAudit DEF CreateExperiment, MayWrite
<1>6. q.op = "setBenchmarkOptin" => Good(q.op, q.t, SetBenchmarkOptin(q, c, r))
  BY AllowedWrites, GoodWriteAudit DEF SetBenchmarkOptin, MayWrite, Optin, Setters
<1>7. q.op = "setResidency" => Good(q.op, q.t, SetResidency(q, c, r))
  BY AllowedWrites, GoodWriteAudit DEF SetResidency, MayWrite, Settings, Setters
<1>8. q.op = "setRedactionOptout" => Good(q.op, q.t, SetRedactionOptout(q, c, r))
  BY AllowedWrites, GoodWriteAudit DEF SetRedactionOptout, MayWrite, Settings, Setters
<1>9. q.op = "setRolloutPolicy" => Good(q.op, q.t, SetRolloutPolicy(q, c, r))
  BY AllowedWrites, GoodWriteAudit DEF SetRolloutPolicy, MayWrite, Policy, Setters
<1> QED BY ONLY <1>1, <1>2, <1>3, <1>4, <1>5, <1>6, <1>7, <1>8, <1>9

\* The methods that write a row if they find one.
LEMMA GoodUpdates ==
  ASSUME NEW q, NEW c, NEW r
  PROVE  /\ q.op = "revokeToken" => Good(q.op, q.t, RevokeToken(q, c, r))
         /\ Good(q.op, q.t, UpdateRunOutcome(q, c, r))
         /\ Good(q.op, q.t, RecordDelivery(q, c, r))
         /\ q.op = "updateExperiment" => Good(q.op, q.t, UpdateExperiment(q, c, r))
         /\ q.op = "writeVerdict" => Good(q.op, q.t, WriteVerdict(q, c, r))
         /\ q.op = "addCase" => Good(q.op, q.t, AddCase(q, c, r))
         /\ Good(q.op, q.t, RevokeOperatorToken(q, c, r))
<1>1. \A row, rest : Good(q.op, q.t, rest) =>
         Good(q.op, q.t, <<Select({row})>> \o IfFound(r, row, "404", rest))
  BY GoodIfFound
<1>2. \A row, p : Good(q.op, q.t, p) => Good(q.op, q.t, <<Select({row})>> \o p)
  BY AllowedSelectOne, Good1, GoodConcat
<1>3. Good(q.op, q.t, <<Refuse("404")>>)
  BY AllowedReturns, Good1
<1>4. q.op = "revokeToken" => Good(q.op, q.t, RevokeToken(q, c, r))
  <2> DEFINE p == <<Update(Token(q.id), [revoked |-> TRUE]),
                    Audit(q.t, "token", ToString(q.id), "revoked")>>
  <2>1. q.op = "revokeToken" => Good(q.op, q.t, p)
    BY AllowedWrites, GoodWriteAudit DEF MayWrite, Token
  <2> HIDE DEF p
  <2>2. q.op = "revokeToken" =>
          Good(q.op, q.t, IF Live(r, Token(q.id)) /\ At(r, Token(q.id)).t = q.t
                          THEN p ELSE <<Refuse("404")>>)
    BY <1>3, <2>1
  <2> QED BY <1>2, <2>2 DEF RevokeToken, p
<1>5. Good(q.op, q.t, UpdateRunOutcome(q, c, r))
  BY <1>1, AllowedWrites, GoodWriteAudit DEF UpdateRunOutcome, MayWrite
<1>6. Good(q.op, q.t, RecordDelivery(q, c, r))
  BY <1>1, AllowedAddRow, Good1 DEF RecordDelivery, Sequenced
<1>7. q.op = "updateExperiment" => Good(q.op, q.t, UpdateExperiment(q, c, r))
  BY <1>1, AllowedWrites, GoodWriteAudit DEF UpdateExperiment, MayWrite
<1>8. q.op = "writeVerdict" => Good(q.op, q.t, WriteVerdict(q, c, r))
  <2>1. q.op = "writeVerdict" =>
          /\ Allowed(q.op, q.t, Upsert(Verdict(q.t, q.id), [decision |-> q.v]))
          /\ Allowed(q.op, q.t, Update(<<"experiments", q.t, q.id>>, [status |-> "concluded"]))
          /\ Allowed(q.op, q.t, Audit(q.t, "experiment", ToString(q.id), "concluded"))
    BY AllowedWrites, AllowedAudit DEF MayWrite, Verdict
  <2> QED BY <1>1, <2>1, Good3 DEF WriteVerdict
<1>9. q.op = "addCase" => Good(q.op, q.t, AddCase(q, c, r))
  <2>1. q.op = "addCase" =>
          /\ Allowed(q.op, q.t, AddRow("eval_dataset_cases", q.t, [dataset |-> q.id]))
          /\ \A v : Allowed(q.op, q.t, Update(Dataset(q.t, q.id), [version |-> v]))
    BY AllowedWrites, AllowedAddRow DEF MayWrite, Dataset, Sequenced
  <2> QED BY <1>1, <2>1, Good2 DEF AddCase
<1>10. Good(q.op, q.t, RevokeOperatorToken(q, c, r))
  <2> DEFINE p == <<Update(OperatorToken(q.id), [revoked |-> TRUE]),
                    AddRow("operator_audit", q.token, [action |-> "token_revoked"])>>
  <2>1. Good(q.op, q.t, p)
    BY AllowedWrites, AllowedAddRow, Good2 DEF MayWrite, OperatorToken, Sequenced
  <2> HIDE DEF p
  <2>2. Good(q.op, q.t, IF Live(r, OperatorToken(q.id)) THEN p ELSE <<Refuse("404")>>)
    BY <1>3, <2>1
  <2> QED BY <1>2, <2>2 DEF RevokeOperatorToken, p
<1> QED BY ONLY <1>4, <1>5, <1>6, <1>7, <1>8, <1>9, <1>10

LEMMA GoodOthers ==
  ASSUME NEW q, NEW c, NEW r
  PROVE  /\ q.op = "putSeamMap" => Good(q.op, q.t, PutSeamMap(q, c, r))
         /\ q.op = "getSeamMap" => Good(q.op, q.t, GetSeamMap(q, c, r))
         /\ q.op = "createTenant" => Good(q.op, q.t, CreateTenant(q, c, r))
         /\ q.op = "setRetentionDays" => Good(q.op, q.t, SetRetentionDays(q, c, r))
         /\ Good(q.op, q.t, PublishFinding(q, c, r))
         /\ Good(q.op, q.t, CreateOperatorToken(q, c, r))
         /\ Good(q.op, q.t, RequestErasure(q, c, r))
         /\ Good(q.op, q.t, CompleteErasure(q, c, r))
<1>1. q.op = "putSeamMap" => Good(q.op, q.t, PutSeamMap(q, c, r))
  BY GoodTenantDek, AllowedWrites, GoodWriteAudit, GoodConcat
  DEF PutSeamMap, MayWrite, Context, EncryptPayload
<1>2. ASSUME q.op = "getSeamMap" PROVE Good(q.op, q.t, GetSeamMap(q, c, r))
  <2> DEFINE row == Context(q.t, q.id)
             sealed == Column(r, row, "key", 0)
             dek == Dek(c, q.t, r)
             read == <<Audit(q.t, "seam_map", q.id, "read"), Reply(At(r, row))>>
             opened == IF dek = 0 THEN <<Refuse("404")>>
                       ELSE IF ~Opens(dek, sealed) THEN <<Refuse("500")>> ELSE read
  <2>1. Good(q.op, q.t, read) /\ Good(q.op, q.t, TenantDek(c, q.t, r))
        /\ Good(q.op, q.t, <<Refuse("404")>>) /\ Good(q.op, q.t, <<Refuse("500")>>)
    BY <1>2, AllowedAudit, AllowedReturns, Good1, Good2, GoodTenantDek
  <2>2. Good(q.op, q.t, opened)
    BY <2>1
  <2> HIDE DEF opened, read
  <2>3. Good(q.op, q.t, TenantDek(c, q.t, r) \o opened)
    BY <2>1, <2>2, GoodConcat
  <2>4. Good(q.op, q.t, IF sealed = 0 THEN read ELSE TenantDek(c, q.t, r) \o opened)
    BY <2>1, <2>3
  <2> QED BY <2>4, GoodIfFound DEF GetSeamMap, opened, read
<1>3. ASSUME q.op = "createTenant" PROVE Good(q.op, q.t, CreateTenant(q, c, r))
  <2> DEFINE t == "t_" \o ToString(RandomUUID(c))
             a == Insert(Settings(t), [retention |-> "365", redaction |-> "on", residency |-> "us"])
             b == Insert(Token(RandomUUID(c)), [t |-> t, scope |-> "api:full", revoked |-> FALSE])
             d == Audit(t, "seed", "taxonomy", "active")
  <2>1. Allowed(q.op, q.t, a) /\ Allowed(q.op, q.t, b)
    BY <1>3, AllowedWrites DEF MayWrite, Settings, Token
  <2>2. Allowed(q.op, q.t, d)
    BY <1>3 DEF Allowed, Audit, AddRow, Sequenced, RecordsSetting, Operation
  <2> QED BY <2>1, <2>2, Good3 DEF CreateTenant
<1>4. ASSUME q.op = "setRetentionDays" PROVE Good(q.op, q.t, SetRetentionDays(q, c, r))
  <2>1. /\ Allowed(q.op, q.t, Select({Settings(q.t)}))
        /\ Allowed(q.op, q.t, Update(Settings(q.t), [retention |-> q.v]))
        /\ Allowed(q.op, q.t, Audit(q.t, "retention", "retention", q.v))
    BY <1>4, AllowedSelectOne, AllowedWrites, AllowedAudit DEF MayWrite, Settings, Setters
  <2> QED BY <2>1, Good3 DEF SetRetentionDays
<1>5. Good(q.op, q.t, PublishFinding(q, c, r))
  <2>1. Good(q.op, q.t, <<AddRow("finding_rejections", q.t, [reason |-> q.v]), Refuse("400")>>)
    BY AllowedAddRow, AllowedReturns, Good2 DEF Sequenced
  <2>2. Good(q.op, q.t, <<Insert(<<"findings", q.t, RandomUUID(c)>>, [finding |-> q.v]),
                          Audit(q.t, "finding", "headline", q.v)>>)
    BY AllowedWrites, GoodWriteAudit DEF MayWrite
  <2> QED BY <2>1, <2>2 DEF PublishFinding
<1>6. Good(q.op, q.t, CreateOperatorToken(q, c, r))
  BY AllowedWrites, AllowedAddRow, Good2 DEF CreateOperatorToken, MayWrite, OperatorToken, Sequenced
<1>7. Good(q.op, q.t, RequestErasure(q, c, r))
  <2>1. Allowed(q.op, q.t, OnItsOwn(AddRow("erasure_audit", q.t, [completed |-> FALSE])))
    BY DEF Allowed, OnItsOwn, AddRow
  <2> QED BY <2>1, AllowedOperatorAudit, Good2 DEF RequestErasure
<1>8. Good(q.op, q.t, CompleteErasure(q, c, r))
  <2>1. Allowed(q.op, q.t, OnItsOwn(Update(<<"erasure_audit", q.t, q.id>>, [completed |-> TRUE])))
    BY DEF Allowed, OnItsOwn, Update
  <2> QED BY <2>1, AllowedOperatorAudit, Good2 DEF CompleteErasure
<1> QED BY ONLY <1>1, <1>2, <1>3, <1>4, <1>5, <1>6, <1>7, <1>8

\* The methods that write one row.
LEMMA GoodSingles ==
  ASSUME NEW q, NEW c, NEW r
  PROVE  /\ q.op = "recordMilestone" /\ q.id # "absent" =>
               Good(q.op, q.t, RecordMilestone(q, c, r))
         /\ Good(q.op, q.t, SetBilling(q, c, r))
         /\ Good(q.op, q.t, RecordInvoice(q, c, r))
         /\ Good(q.op, q.t, RecordScore(q, c, r))
         /\ q.op = "createDataset" => Good(q.op, q.t, CreateDataset(q, c, r))
         /\ Good(q.op, q.t, CreateAlert(q, c, r))
         /\ Good(q.op, q.t, RecordEvaluation(q, c, r))
<1>1. q.op = "recordMilestone" /\ q.id # "absent" => Good(q.op, q.t, RecordMilestone(q, c, r))
  BY AllowedWrites, Good1 DEF RecordMilestone, MayWrite, Timeline
<1>2. Good(q.op, q.t, SetBilling(q, c, r))
  BY AllowedWrites, Good1 DEF SetBilling, MayWrite, Account
<1>3. Good(q.op, q.t, RecordInvoice(q, c, r))
  BY AllowedAddRow, Good1 DEF RecordInvoice, Sequenced
<1>4. Good(q.op, q.t, RecordScore(q, c, r))
  BY AllowedWrites, Good1 DEF RecordScore, MayWrite
<1>5. q.op = "createDataset" => Good(q.op, q.t, CreateDataset(q, c, r))
  BY AllowedWrites, Good1 DEF CreateDataset, MayWrite, Dataset
<1>6. Good(q.op, q.t, CreateAlert(q, c, r))
  BY AllowedWrites, Good1 DEF CreateAlert, MayWrite
<1>7. Good(q.op, q.t, RecordEvaluation(q, c, r))
  BY AllowedAddRow, Good1 DEF RecordEvaluation, Sequenced
<1> QED BY ONLY <1>1, <1>2, <1>3, <1>4, <1>5, <1>6, <1>7

LEMMA TenantIdsList ==
  ASSUME NEW r, IsFiniteSet(DOMAIN r)
  PROVE  \E n \in Nat : \E S : TenantIds(r) \in [1..n -> S]
<1> DEFINE T == {o \in DOMAIN r : o[1] = "tenants"}
           S == {row[2] : row \in T}
           f == [row \in T |-> row[2]]
<1>1. IsFiniteSet(T)
  BY FS_Subset
<1>2. IsFiniteSet(S)
  <2>1. f \in Surjection(T, S)
    BY DEF Surjection
  <2> HIDE DEF T, S, f
  <2> QED BY <1>1, <2>1, FS_Surjection
<1>3. TenantIds(r) = CHOOSE g \in [1..Cardinality(S) -> S] : IsInjective(g)
  BY DEF TenantIds, SetToSeq
<1> HIDE DEF S
<1>4. ExistsBijection(1..Cardinality(S), S) /\ Cardinality(S) \in Nat
  BY <1>2, FS_CardinalityType
<1>5. PICK g \in [1..Cardinality(S) -> S] : IsInjective(g)
  BY <1>4 DEF ExistsBijection, Bijection, IsInjective, Injection
<1>6. TenantIds(r) \in [1..Cardinality(S) -> S]
  BY <1>3, <1>5
<1> QED BY <1>4, <1>6

LEMMA GoodTenantReads ==
  ASSUME NEW op, NEW t, NEW n \in Nat, NEW l, NEW p, \E S : l \in [1..n -> S],
         DOMAIN p = 1..(3 * Len(l)) \/ DOMAIN p = 1..(1 * Len(l)),
         p = [i \in DOMAIN p |-> p[i]],
         \A i \in DOMAIN p : \E rows : IsFiniteSet(rows) /\ p[i] = Select(rows)
  PROVE  Good(op, t, p)
<1>1. Len(l) = n
  OBVIOUS
<1>2. PICK m \in Nat : DOMAIN p = 1..m
  <2>1. 3 * Len(l) \in Nat /\ 1 * Len(l) \in Nat
    BY <1>1
  <2> QED BY <2>1
<1> DEFINE S == {p[i] : i \in DOMAIN p}
<1>3. p \in [1..m -> S]
  BY <1>2
<1>4. p \in Seq(S) /\ Len(p) = m
  BY <1>2, <1>3
<1>5. \A i \in 1..m : Allowed(op, t, p[i])
  BY <1>2, AllowedSelect
<1> QED BY <1>4, <1>5 DEF Good

LEMMA GoodOperators ==
  ASSUME NEW q, NEW c, NEW r, NEW owner, IsFiniteSet(DOMAIN db), IsFiniteSet(DOMAIN r)
  PROVE  /\ Good(q.op, owner, ListTenants(q, c, r))
         /\ Good(q.op, owner, TenantSnapshot(q, c, r))
         /\ Good(q.op, owner, Rollups(q, c, r))
<1>1. /\ \A table, u : IsFiniteSet(RowsOf(db, table, u))
      /\ \A table : IsFiniteSet({row \in DOMAIN db : row[1] = table})
      /\ \A row : IsFiniteSet({row})
  BY FiniteRows, FS_Singleton
<1>2. \A rows : IsFiniteSet(rows) => Allowed(q.op, owner, Select(rows))
  BY AllowedSelect
<1>3. \A action : Allowed(q.op, owner, OperatorAudit(q, action))
  BY AllowedOperatorAudit
<1>4. PICK n \in Nat : \E S : TenantIds(r) \in [1..n -> S]
  BY TenantIdsList
<1>5. Len(TenantIds(r)) = n
  BY <1>4
<1>6. Good(q.op, owner, ListTenants(q, c, r))
  <2> DEFINE queries(t) == <<Select({Timeline(t)}), Select(RowsOf(db, "autonomy_grants", t)),
                           Select({Account(t)})>>
             p == ForEachTenant(r, 3, queries)
  <2>1. p = [i \in 1..(3 * Len(TenantIds(r))) |->
               queries(TenantIds(r)[((i - 1) \div 3) + 1])[((i - 1) % 3) + 1]]
    BY DEF ForEachTenant
  <2>2. \A u : \A k \in 1..3 : \E rows : IsFiniteSet(rows) /\ queries(u)[k] = Select(rows)
    BY <1>1
  <2> HIDE DEF queries, p
  <2>3. \A i \in 1..(3 * n) : ((i - 1) % 3) + 1 \in 1..3
    OBVIOUS
  <2>4. Good(q.op, owner, p)
    <3>1. DOMAIN p = 1..(3 * Len(TenantIds(r))) /\ p = [i \in DOMAIN p |-> p[i]]
      BY <2>1
    <3>2. \A i \in DOMAIN p : \E rows : IsFiniteSet(rows) /\ p[i] = Select(rows)
      BY Zenon, <1>5, <2>1, <2>2, <2>3
    <3> QED BY <1>4, <3>1, <3>2, GoodTenantReads
  <2> DEFINE v == {<<u, Step(At(r, Timeline(u))), Level(r, u),
                     Column(r, Account(u), "tier", "free")>> : u \in ToSet(TenantIds(r))}
             x == <<OperatorAudit(q, "list_tenants"), Select({o \in DOMAIN db : o[1] = "tenants"})>>
  <2>5. Good(q.op, owner, x)
    BY <1>1, <1>2, <1>3, Good2
  <2>6. Good(q.op, owner, <<Reply(v)>>)
    BY AllowedReturns, Good1
  <2>7. ListTenants(q, c, r) = x \o p \o <<Reply(v)>>
    BY Zenon DEF ListTenants, p, queries
  <2> HIDE DEF v, x
  <2>8. Good(q.op, owner, x \o p)
    BY <2>4, <2>5, GoodConcat
  <2>9. Good(q.op, owner, (x \o p) \o <<Reply(v)>>)
    BY <2>6, <2>8, GoodConcat
  <2> QED BY <2>7, <2>9
<1>7. Good(q.op, owner, TenantSnapshot(q, c, r))
  <2> DEFINE a == OperatorAudit(q, "tenant_snapshot")
             x == <<a, Select({Timeline(q.id)}), Select(RowsOf(db, "autonomy_grants", q.id)),
                    Select({Account(q.id)}), Select(RowsOf(db, "instrument_runs", q.id)),
                    Select(RowsOf(db, "experiments", q.id))>>
  <2>1. /\ Allowed(q.op, owner, a) /\ Allowed(q.op, owner, Select({Timeline(q.id)}))
        /\ Allowed(q.op, owner, Select(RowsOf(db, "autonomy_grants", q.id)))
        /\ Allowed(q.op, owner, Select({Account(q.id)}))
        /\ Allowed(q.op, owner, Select(RowsOf(db, "instrument_runs", q.id)))
        /\ Allowed(q.op, owner, Select(RowsOf(db, "experiments", q.id)))
    BY <1>1, <1>2, <1>3
  <2>2. Good(q.op, owner, x)
    <3> DEFINE S == {y : y \in {a, Select({Timeline(q.id)}), Select(RowsOf(db, "autonomy_grants", q.id)),
                    Select({Account(q.id)}), Select(RowsOf(db, "instrument_runs", q.id)),
                    Select(RowsOf(db, "experiments", q.id))}}
    <3>1. x \in Seq(S) /\ Len(x) = 6 /\ x[1] = a /\ x[2] = Select({Timeline(q.id)})
          /\ x[3] = Select(RowsOf(db, "autonomy_grants", q.id)) /\ x[4] = Select({Account(q.id)})
          /\ x[5] = Select(RowsOf(db, "instrument_runs", q.id))
          /\ x[6] = Select(RowsOf(db, "experiments", q.id))
      OBVIOUS
    <3> HIDE DEF x, a, S
    <3>2. \A i \in 1..Len(x) : i = 1 \/ i = 2 \/ i = 3 \/ i = 4 \/ i = 5 \/ i = 6
      BY <3>1
    <3>3. \A i \in 1..Len(x) : Allowed(q.op, owner, x[i])
      BY <2>1, <3>1, <3>2
    <3> QED BY <3>1, <3>3 DEF Good
  <2>3. TenantSnapshot(q, c, r) = <<Select({Settings(q.id)})>> \o IfFound(r, Settings(q.id), "404", x)
    BY DEF TenantSnapshot
  <2> HIDE DEF x
  <2> QED BY <2>2, <2>3, GoodIfFound
<1>8. Good(q.op, owner, Rollups(q, c, r))
  <2> DEFINE queries(t) == <<Select({Timeline(t)})>>
             p == ForEachTenant(r, 1, queries)
             all(table) == {o \in DOMAIN r : o[1] = table}
             tenants == ToSet(TenantIds(r))
             v == [tenants    |-> Cardinality(tenants),
                   funnel     |-> [s \in 0..5 |->
                                     Cardinality({t \in tenants : Step(At(r, Timeline(t))) = s})],
                   growth     |-> Cardinality({o \in all("billing_accounts") : r[o].tier = "growth"}),
                   delivered  |-> Cardinality(all("instrument_runs")),
                   merged     |-> Cardinality({o \in all("instrument_runs") : Merged(r[o].outcome)}),
                   rejections |-> Cardinality(all("finding_rejections"))]
             x1 == <<OperatorAudit(q, "rollups"), Select({o \in DOMAIN db : o[1] = "instrument_runs"}),
                     Select({o \in DOMAIN db : o[1] = "finding_rejections"}),
                     Select({o \in DOMAIN db : o[1] = "tenants"})>>
             x2 == <<Select({o \in DOMAIN db : o[1] = "billing_accounts"}),
                     Select({o \in DOMAIN db : o[1] = "billing_invoices"}), Reply(v)>>
  <2>1. p = [i \in 1..(1 * Len(TenantIds(r))) |->
               queries(TenantIds(r)[((i - 1) \div 1) + 1])[((i - 1) % 1) + 1]]
    BY DEF ForEachTenant
  <2>2. \A u : \E rows : IsFiniteSet(rows) /\ queries(u)[1] = Select(rows)
    BY <1>1
  <2>3. Rollups(q, c, r) = x1 \o p \o x2
    BY Zenon DEF Rollups
  <2> HIDE DEF queries, p, v
  <2>4. \A i \in 1..n : ((i - 1) % 1) + 1 = 1
    OBVIOUS
  <2>5. Good(q.op, owner, p)
    <3>1. DOMAIN p = 1..(1 * Len(TenantIds(r))) /\ p = [i \in DOMAIN p |-> p[i]]
      BY <2>1
    <3>2. \A i \in DOMAIN p : \E rows : IsFiniteSet(rows) /\ p[i] = Select(rows)
      BY <1>5, <2>1, <2>2, <2>4
    <3> QED BY <1>4, <3>1, <3>2, GoodTenantReads
  <2>6. Good(q.op, owner, x1)
    <3> DEFINE a == OperatorAudit(q, "rollups")
               s1 == Select({o \in DOMAIN db : o[1] = "instrument_runs"})
               s2 == Select({o \in DOMAIN db : o[1] = "finding_rejections"})
               s3 == Select({o \in DOMAIN db : o[1] = "tenants"})
    <3>1. /\ Allowed(q.op, owner, a) /\ Allowed(q.op, owner, s1) /\ Allowed(q.op, owner, s2)
          /\ Allowed(q.op, owner, s3)
      BY <1>1, <1>2, <1>3
    <3> HIDE DEF a, s1, s2, s3
    <3>2. Good(q.op, owner, <<a>>) /\ Good(q.op, owner, <<s1, s2, s3>>)
      BY <3>1, Good1, Good3
    <3>3. Good(q.op, owner, <<a>> \o <<s1, s2, s3>>)
      BY <3>2, GoodConcat
    <3>4. x1 = <<a>> \o <<s1, s2, s3>>
      BY DEF a, s1, s2, s3
    <3> QED BY <3>3, <3>4
  <2>7. Good(q.op, owner, x2)
    BY <1>1, <1>2, AllowedReturns, Good3
  <2> HIDE DEF x1, x2
  <2>8. Good(q.op, owner, x1 \o p)
    BY <2>5, <2>6, GoodConcat
  <2>9. Good(q.op, owner, (x1 \o p) \o x2)
    BY <2>7, <2>8, GoodConcat
  <2> QED BY <2>3, <2>9
<1> QED BY <1>6, <1>7, <1>8

\* What the deployment's jobs call.
LEMMA GoodJob ==
  ASSUME NEW q, NEW c, NEW r, IsFiniteSet(DOMAIN db),
         q.op \in {"cryptoShredTenant", "createTenant", "setResidency",
            "setRedactionOptout", "setRetentionDays", "setRolloutPolicy",
            "getRolloutPolicy", "getIngestSettings", "requestErasure",
            "completeErasure", "listErasures", "createOperatorToken",
            "revokeOperatorToken", "recordEvaluation"}
  PROVE  Good(q.op, q.t, JobMethod(q, c, r))
<1>1. CASE q.op = "cryptoShredTenant"
  <2>1. JobMethod(q, c, r) = CryptoShredTenant(q, c, r)
    BY <1>1 DEF JobMethod
  <2> QED BY <1>1, <2>1, GoodWrites
<1>2. CASE q.op = "createTenant"
  <2>1. JobMethod(q, c, r) = CreateTenant(q, c, r)
    BY <1>2 DEF JobMethod
  <2> QED BY <1>2, <2>1, GoodOthers
<1>3. CASE q.op = "setResidency"
  <2>1. JobMethod(q, c, r) = SetResidency(q, c, r)
    BY <1>3 DEF JobMethod
  <2> QED BY <1>3, <2>1, GoodWrites
<1>4. CASE q.op = "setRedactionOptout"
  <2>1. JobMethod(q, c, r) = SetRedactionOptout(q, c, r)
    BY <1>4 DEF JobMethod
  <2> QED BY <1>4, <2>1, GoodWrites
<1>5. CASE q.op = "setRetentionDays"
  <2>1. JobMethod(q, c, r) = SetRetentionDays(q, c, r)
    BY <1>5 DEF JobMethod
  <2> QED BY <1>5, <2>1, GoodOthers
<1>6. CASE q.op = "setRolloutPolicy"
  <2>1. JobMethod(q, c, r) = SetRolloutPolicy(q, c, r)
    BY <1>6 DEF JobMethod
  <2> QED BY <1>6, <2>1, GoodWrites
<1>7. CASE q.op = "getRolloutPolicy"
  <2>1. JobMethod(q, c, r) = GetRolloutPolicy(q, c, r)
    BY <1>7 DEF JobMethod
  <2> QED BY <1>7, <2>1, GoodReads
<1>8. CASE q.op = "getIngestSettings"
  <2>1. JobMethod(q, c, r) = GetIngestSettings(q, c, r)
    BY <1>8 DEF JobMethod
  <2> QED BY <1>8, <2>1, GoodReads
<1>9. CASE q.op = "requestErasure"
  <2>1. JobMethod(q, c, r) = RequestErasure(q, c, r)
    BY <1>9 DEF JobMethod
  <2> QED BY <1>9, <2>1, GoodOthers
<1>10. CASE q.op = "completeErasure"
  <2>1. JobMethod(q, c, r) = CompleteErasure(q, c, r)
    BY <1>10 DEF JobMethod
  <2> QED BY <1>10, <2>1, GoodOthers
<1>11. CASE q.op = "listErasures"
  <2>1. JobMethod(q, c, r) = ListErasures(q, c, r)
    BY <1>11 DEF JobMethod
  <2> QED BY <1>11, <2>1, GoodReads
<1>12. CASE q.op = "createOperatorToken"
  <2>1. JobMethod(q, c, r) = CreateOperatorToken(q, c, r)
    BY <1>12 DEF JobMethod
  <2> QED BY <1>12, <2>1, GoodOthers
<1>13. CASE q.op = "revokeOperatorToken"
  <2>1. JobMethod(q, c, r) = RevokeOperatorToken(q, c, r)
    BY <1>13 DEF JobMethod
  <2> QED BY <1>13, <2>1, GoodUpdates
<1>14. CASE q.op = "recordEvaluation"
  <2>1. JobMethod(q, c, r) = RecordEvaluation(q, c, r)
    BY <1>14 DEF JobMethod
  <2> QED BY <1>14, <2>1, GoodSingles
<1> QED BY <1>1, <1>2, <1>3, <1>4, <1>5, <1>6, <1>7, <1>8, <1>9, <1>10, <1>11, <1>12,
    <1>13, <1>14

\* The routes of the tenants, in the two halves of TenantMethod.
LEMMA GoodExperiment ==
  ASSUME NEW q, NEW c, NEW r, IsFiniteSet(DOMAIN db),
         q.op \in {"createExperiment", "listExperiments", "getExperiment",
            "updateExperiment", "writeVerdict", "getOnboarding",
            "recordMilestone", "getBilling", "setBilling", "listInvoices",
            "recordInvoice", "createAlert", "listAlerts", "listAlertEvents",
            "recordScore", "listScores", "createDataset", "addCase",
            "getDataset", "benchmarkResult", "setBenchmarkOptin"},
         q.op = "recordMilestone" => q.id # "absent"
  PROVE  Good(q.op, q.t, ExperimentMethod(q, c, r))
<1>1. CASE q.op = "createExperiment"
  <2>1. ExperimentMethod(q, c, r) = CreateExperiment(q, c, r)
    BY <1>1 DEF ExperimentMethod
  <2> QED BY <1>1, <2>1, GoodWrites
<1>2. CASE q.op = "listExperiments"
  <2>1. ExperimentMethod(q, c, r) = ListExperiments(q, c, r)
    BY <1>2 DEF ExperimentMethod
  <2> QED BY <1>2, <2>1, GoodReads
<1>3. CASE q.op = "getExperiment"
  <2>1. ExperimentMethod(q, c, r) = GetExperiment(q, c, r)
    BY <1>3 DEF ExperimentMethod
  <2> QED BY <1>3, <2>1, GoodTwoReads
<1>4. CASE q.op = "updateExperiment"
  <2>1. ExperimentMethod(q, c, r) = UpdateExperiment(q, c, r)
    BY <1>4 DEF ExperimentMethod
  <2> QED BY <1>4, <2>1, GoodUpdates
<1>5. CASE q.op = "writeVerdict"
  <2>1. ExperimentMethod(q, c, r) = WriteVerdict(q, c, r)
    BY <1>5 DEF ExperimentMethod
  <2> QED BY <1>5, <2>1, GoodUpdates
<1>6. CASE q.op = "getOnboarding"
  <2>1. ExperimentMethod(q, c, r) = GetOnboarding(q, c, r)
    BY <1>6 DEF ExperimentMethod
  <2> QED BY <1>6, <2>1, GoodReads
<1>7. CASE q.op = "recordMilestone"
  <2>1. ExperimentMethod(q, c, r) = RecordMilestone(q, c, r)
    BY <1>7 DEF ExperimentMethod
  <2> QED BY <1>7, <2>1, GoodSingles
<1>8. CASE q.op = "getBilling"
  <2>1. ExperimentMethod(q, c, r) = GetBilling(q, c, r)
    BY <1>8 DEF ExperimentMethod
  <2> QED BY <1>8, <2>1, GoodReads
<1>9. CASE q.op = "setBilling"
  <2>1. ExperimentMethod(q, c, r) = SetBilling(q, c, r)
    BY <1>9 DEF ExperimentMethod
  <2> QED BY <1>9, <2>1, GoodSingles
<1>10. CASE q.op = "listInvoices"
  <2>1. ExperimentMethod(q, c, r) = ListInvoices(q, c, r)
    BY <1>10 DEF ExperimentMethod
  <2> QED BY <1>10, <2>1, GoodReads
<1>11. CASE q.op = "recordInvoice"
  <2>1. ExperimentMethod(q, c, r) = RecordInvoice(q, c, r)
    BY <1>11 DEF ExperimentMethod
  <2> QED BY <1>11, <2>1, GoodSingles
<1>12. CASE q.op = "createAlert"
  <2>1. ExperimentMethod(q, c, r) = CreateAlert(q, c, r)
    BY <1>12 DEF ExperimentMethod
  <2> QED BY <1>12, <2>1, GoodSingles
<1>13. CASE q.op = "listAlerts"
  <2>1. ExperimentMethod(q, c, r) = ListAlerts(q, c, r)
    BY <1>13 DEF ExperimentMethod
  <2> QED BY <1>13, <2>1, GoodReads
<1>14. CASE q.op = "listAlertEvents"
  <2>1. ExperimentMethod(q, c, r) = ListAlertEvents(q, c, r)
    BY <1>14 DEF ExperimentMethod
  <2> QED BY <1>14, <2>1, GoodReads
<1>15. CASE q.op = "recordScore"
  <2>1. ExperimentMethod(q, c, r) = RecordScore(q, c, r)
    BY <1>15 DEF ExperimentMethod
  <2> QED BY <1>15, <2>1, GoodSingles
<1>16. CASE q.op = "listScores"
  <2>1. ExperimentMethod(q, c, r) = ListScores(q, c, r)
    BY <1>16 DEF ExperimentMethod
  <2> QED BY <1>16, <2>1, GoodReads
<1>17. CASE q.op = "createDataset"
  <2>1. ExperimentMethod(q, c, r) = CreateDataset(q, c, r)
    BY <1>17 DEF ExperimentMethod
  <2> QED BY <1>17, <2>1, GoodSingles
<1>18. CASE q.op = "addCase"
  <2>1. ExperimentMethod(q, c, r) = AddCase(q, c, r)
    BY <1>18 DEF ExperimentMethod
  <2> QED BY <1>18, <2>1, GoodUpdates
<1>19. CASE q.op = "getDataset"
  <2>1. ExperimentMethod(q, c, r) = GetDataset(q, c, r)
    BY <1>19 DEF ExperimentMethod
  <2> QED BY <1>19, <2>1, GoodTwoReads
<1>20. CASE q.op = "benchmarkResult"
  <2>1. ExperimentMethod(q, c, r) = BenchmarkResult(q, c, r)
    BY <1>20 DEF ExperimentMethod
  <2> QED BY <1>20, <2>1, GoodTwoReads
<1>21. CASE q.op = "setBenchmarkOptin"
  <2>1. ExperimentMethod(q, c, r) = SetBenchmarkOptin(q, c, r)
    BY <1>21 DEF ExperimentMethod
  <2> QED BY <1>21, <2>1, GoodWrites
<1> QED BY <1>1, <1>2, <1>3, <1>4, <1>5, <1>6, <1>7, <1>8, <1>9, <1>10, <1>11, <1>12,
    <1>13, <1>14, <1>15, <1>16, <1>17, <1>18, <1>19, <1>20, <1>21

LEMMA GoodTenantHalf ==
  ASSUME NEW q, NEW c, NEW r, IsFiniteSet(DOMAIN db),
         q.op \in {"listAudit", "putSeamMap", "getSeamMap",
            "recordInstrumentRun", "updateRunOutcome", "listInstrumentRuns",
            "publishFinding", "listFindings", "getFinding", "recordDelivery",
            "getAutonomy", "grantAutonomy", "issueToken", "listTokens",
            "revokeToken", "listFindingRejections"}
  PROVE  Good(q.op, q.t, TenantMethod(q, c, r))
<1>1. CASE q.op = "listAudit"
  <2>1. TenantMethod(q, c, r) = ListAudit(q, c, r)
    BY <1>1 DEF TenantMethod
  <2> QED BY <1>1, <2>1, GoodReads
<1>2. CASE q.op = "putSeamMap"
  <2>1. TenantMethod(q, c, r) = PutSeamMap(q, c, r)
    BY <1>2 DEF TenantMethod
  <2> QED BY <1>2, <2>1, GoodOthers
<1>3. CASE q.op = "getSeamMap"
  <2>1. TenantMethod(q, c, r) = GetSeamMap(q, c, r)
    BY <1>3 DEF TenantMethod
  <2> QED BY <1>3, <2>1, GoodOthers
<1>4. CASE q.op = "recordInstrumentRun"
  <2>1. TenantMethod(q, c, r) = RecordInstrumentRun(q, c, r)
    BY <1>4 DEF TenantMethod
  <2> QED BY <1>4, <2>1, GoodWrites
<1>5. CASE q.op = "updateRunOutcome"
  <2>1. TenantMethod(q, c, r) = UpdateRunOutcome(q, c, r)
    BY <1>5 DEF TenantMethod
  <2> QED BY <1>5, <2>1, GoodUpdates
<1>6. CASE q.op = "listInstrumentRuns"
  <2>1. TenantMethod(q, c, r) = ListInstrumentRuns(q, c, r)
    BY <1>6 DEF TenantMethod
  <2> QED BY <1>6, <2>1, GoodReads
<1>7. CASE q.op = "publishFinding"
  <2>1. TenantMethod(q, c, r) = PublishFinding(q, c, r)
    BY <1>7 DEF TenantMethod
  <2> QED BY <1>7, <2>1, GoodOthers
<1>8. CASE q.op = "listFindings"
  <2>1. TenantMethod(q, c, r) = ListFindings(q, c, r)
    BY <1>8 DEF TenantMethod
  <2> QED BY <1>8, <2>1, GoodReads
<1>9. CASE q.op = "getFinding"
  <2>1. TenantMethod(q, c, r) = GetFinding(q, c, r)
    BY <1>9 DEF TenantMethod
  <2> QED BY <1>9, <2>1, GoodTwoReads
<1>10. CASE q.op = "recordDelivery"
  <2>1. TenantMethod(q, c, r) = RecordDelivery(q, c, r)
    BY <1>10 DEF TenantMethod
  <2> QED BY <1>10, <2>1, GoodUpdates
<1>11. CASE q.op = "getAutonomy"
  <2>1. TenantMethod(q, c, r) = GetAutonomy(q, c, r)
    BY <1>11 DEF TenantMethod
  <2> QED BY <1>11, <2>1, GoodReads
<1>12. CASE q.op = "grantAutonomy"
  <2>1. TenantMethod(q, c, r) = GrantAutonomy(q, c, r)
    BY <1>12 DEF TenantMethod
  <2> QED BY <1>12, <2>1, GoodWrites
<1>13. CASE q.op = "issueToken"
  <2>1. TenantMethod(q, c, r) = IssueToken(q, c, r)
    BY <1>13 DEF TenantMethod
  <2> QED BY <1>13, <2>1, GoodWrites
<1>14. CASE q.op = "listTokens"
  <2>1. TenantMethod(q, c, r) = ListTokens(q, c, r)
    BY <1>14 DEF TenantMethod
  <2> QED BY <1>14, <2>1, GoodReads
<1>15. CASE q.op = "revokeToken"
  <2>1. TenantMethod(q, c, r) = RevokeToken(q, c, r)
    BY <1>15 DEF TenantMethod
  <2> QED BY <1>15, <2>1, GoodUpdates
<1>16. CASE q.op = "listFindingRejections"
  <2>1. TenantMethod(q, c, r) = ListFindingRejections(q, c, r)
    BY <1>16 DEF TenantMethod
  <2> QED BY <1>16, <2>1, GoodReads
<1> QED BY <1>1, <1>2, <1>3, <1>4, <1>5, <1>6, <1>7, <1>8, <1>9, <1>10, <1>11, <1>12,
    <1>13, <1>14, <1>15, <1>16

\* Every legal request runs a good list, for the tenant it is of.
\* A route's request, with the tenant of its token.
OfTenant(q, b) == [q EXCEPT !.t = Owner(q, b)]

LEMMA OfTenantFields ==
  ASSUME NEW q, NEW b, Legal(q)
  PROVE  /\ OfTenant(q, b).op = q.op /\ OfTenant(q, b).id = q.id /\ OfTenant(q, b).v = q.v
         /\ OfTenant(q, b).token = q.token /\ OfTenant(q, b).t = Owner(q, b)
<1> DEFINE u == Owner(q, b)
<1> HIDE DEF u
<1>1. OfTenant(q, b) = [q EXCEPT !.t = u]
  BY DEF OfTenant, u
<1>2. /\ [q EXCEPT !.t = u].op = q.op /\ [q EXCEPT !.t = u].id = q.id
      /\ [q EXCEPT !.t = u].v = q.v /\ [q EXCEPT !.t = u].token = q.token
      /\ [q EXCEPT !.t = u].t = u
  BY DEF Legal
<1> QED BY <1>1, <1>2 DEF u

LEMMA ProgramIs ==
  ASSUME NEW q, NEW c, NEW r, NEW b, Legal(q)
  PROVE  /\ q.op \in Unrouted =>
               Program(q, c, r, b) = JobMethod(q, c, r) /\ Owner(q, b) = q.t
         /\ q.op \in OperatorPlane =>
               Program(q, c, r, b) = OperatorHook(q, r, b, OperatorMethod(q, c, r))
         /\ q.op \in Routes =>
               /\ Program(q, c, r, b) = TenantHook(q, b, TenantMethod(OfTenant(q, b), c, r))
               /\ Owner(q, b) = Column(b, Token(q.token), "t", "nobody")
<1>1. /\ q.op \in OperatorPlane => q.op \notin Unrouted
      /\ q.op \in Routes => q.op \notin Unrouted /\ q.op \notin OperatorPlane
  BY DEF Unrouted, OperatorPlane, Routes
<1>2. OfTenant(q, b) = [q EXCEPT !.t = Owner(q, b)]
  BY DEF OfTenant
<1> QED BY <1>1, <1>2, Zenon DEF Program, Owner

LEMMA GoodTenant ==
  ASSUME NEW q, NEW c, NEW r, IsFiniteSet(DOMAIN db), q.op \in Routes,
         q.op = "recordMilestone" => q.id # "absent"
  PROVE  Good(q.op, q.t, TenantMethod(q, c, r))
<1> DEFINE half == {"listAudit", "putSeamMap", "getSeamMap", "recordInstrumentRun",
                    "updateRunOutcome", "listInstrumentRuns", "publishFinding", "listFindings",
                    "getFinding", "recordDelivery", "getAutonomy", "grantAutonomy",
                    "issueToken", "listTokens", "revokeToken", "listFindingRejections"}
<1>1. CASE q.op \in half
  BY <1>1, GoodTenantHalf
<1>2. CASE q.op \notin half
  <2>1. TenantMethod(q, c, r) = ExperimentMethod(q, c, r)
    BY <1>2 DEF TenantMethod
  <2> QED BY <1>2, <2>1, GoodExperiment DEF Routes
<1> QED BY <1>1, <1>2

\* Whichever tenant t it is: an operator's request records nothing in a tenant's log.
LEMMA GoodOperator ==
  ASSUME NEW q, NEW c, NEW r, NEW b, NEW t, Legal(q), q.op \in OperatorPlane,
         IsFiniteSet(DOMAIN db), IsFiniteSet(DOMAIN r)
  PROVE  Good(q.op, t, Program(q, c, r, b))
<1> DEFINE method == OperatorMethod(q, c, r)
           token == Select({Token(q.token)})
           otherwise == Refuse(IF Live(r, Token(q.token)) THEN "403" ELSE "401")
<1>1. Good(q.op, t, method)
  <2>1. CASE q.op = "listTenants"
    BY <2>1, GoodOperators DEF OperatorMethod
  <2>2. CASE q.op = "tenantSnapshot"
    BY <2>2, GoodOperators DEF OperatorMethod
  <2>3. CASE q.op = "rollups"
    BY <2>3, GoodOperators DEF OperatorMethod
  <2> QED BY <2>1, <2>2, <2>3 DEF OperatorPlane
<1>2. Allowed(q.op, t, token) /\ Allowed(q.op, t, otherwise)
      /\ Allowed(q.op, t, Select({OperatorToken(q.token)}))
  BY AllowedReturns, AllowedSelectOne
<1> HIDE DEF method, token, otherwise
<1>3. Good(q.op, t, IF Live(b, OperatorToken(q.token)) THEN method ELSE <<token, otherwise>>)
  BY <1>1, <1>2, Good2
<1>4. Good(q.op, t, OperatorHook(q, r, b, method))
  BY <1>2, <1>3, Good1, GoodConcat DEF OperatorHook, token, otherwise
<1> QED BY <1>4, ProgramIs DEF method

LEMMA GoodProgram ==
  ASSUME NEW q, NEW c, NEW r, NEW b, Legal(q), IsFiniteSet(DOMAIN db), IsFiniteSet(DOMAIN r)
  PROVE  Good(q.op, Owner(q, b), Program(q, c, r, b))
<1> DEFINE t == Owner(q, b)
<1>1. CASE q.op \in Unrouted
  BY <1>1, ProgramIs, GoodJob DEF Legal, Unrouted, Routes, OperatorPlane
<1>2. CASE q.op \in OperatorPlane
  BY <1>2, GoodOperator
<1>3. CASE q.op \in Routes
  <2> DEFINE method == TenantMethod(OfTenant(q, b), c, r)
  <2>1. Good(q.op, t, method)
    BY <1>3, OfTenantFields, GoodTenant DEF Legal
  <2>2. /\ Good(q.op, t, <<Refuse("401")>>) /\ Good(q.op, t, <<Refuse("403")>>)
        /\ Good(q.op, t, <<Select({Token(q.token)})>>)
    BY AllowedReturns, AllowedSelectOne, Good1
  <2> HIDE DEF method, t
  <2>3. Good(q.op, t, IF ~Live(b, Token(q.token)) THEN <<Refuse("401")>>
                      ELSE IF At(b, Token(q.token)).scope # "api:full" THEN <<Refuse("403")>>
                      ELSE method)
    BY <2>1, <2>2
  <2>4. Good(q.op, t, TenantHook(q, b, method))
    BY <2>2, <2>3, GoodConcat DEF TenantHook
  <2> QED BY <1>3, <2>4, ProgramIs DEF method, t
<1> QED BY <1>1, <1>2, <1>3 DEF Legal
-----------------------------------------------------------------------------
(* The statement a method is at, where a proof needs to know it.            *)
LEMMA AtSetResidency ==
  ASSUME NEW q, NEW c, NEW r, NEW j \in Nat \ {0}, NEW s,
         s = StatementAt(SetResidency(q, c, r), j)
  PROVE  /\ j = 1 => s = Update(Settings(q.t), [residency |-> q.v])
         /\ j = 2 => s = Audit(q.t, "retention", "residency", q.v)
         /\ j > 2 => s = Refuse("200")
  BY DEF StatementAt, SetResidency

LEMMA AtSetRedactionOptout ==
  ASSUME NEW q, NEW c, NEW r, NEW j \in Nat \ {0}, NEW s,
         s = StatementAt(SetRedactionOptout(q, c, r), j)
  PROVE  /\ j = 1 => s = Update(Settings(q.t), [redaction |-> q.v])
         /\ j = 2 => s = Audit(q.t, "retention", "redaction", q.v)
         /\ j > 2 => s = Refuse("200")
  BY DEF StatementAt, SetRedactionOptout

LEMMA AtSetRetentionDays ==
  ASSUME NEW q, NEW c, NEW r, NEW j \in Nat \ {0}, NEW s,
         s = StatementAt(SetRetentionDays(q, c, r), j)
  PROVE  /\ j = 1 => s = Select({Settings(q.t)})
         /\ j = 2 => s = Update(Settings(q.t), [retention |-> q.v])
         /\ j = 3 => s = Audit(q.t, "retention", "retention", q.v)
         /\ j > 3 => s = Refuse("200")
  BY DEF StatementAt, SetRetentionDays

LEMMA AtSetRolloutPolicy ==
  ASSUME NEW q, NEW c, NEW r, NEW j \in Nat \ {0}, NEW s,
         s = StatementAt(SetRolloutPolicy(q, c, r), j)
  PROVE  /\ j = 1 => s = Upsert(Policy(q.t), [policy |-> q.v])
         /\ j = 2 => s = Audit(q.t, "autonomy", "policy", q.v)
         /\ j > 2 => s = Refuse("200")
  BY DEF StatementAt, SetRolloutPolicy

LEMMA AtSetBenchmarkOptin ==
  ASSUME NEW q, NEW c, NEW r, NEW j \in Nat \ {0}, NEW s,
         s = StatementAt(SetBenchmarkOptin(q, c, r), j)
  PROVE  /\ j = 1 => s = Upsert(Optin(q.t), [opted_in |-> q.v])
         /\ j = 2 => s = Audit(q.t, "benchmark", "optin", q.v)
         /\ j > 2 => s = Refuse("200")
  BY DEF StatementAt, SetBenchmarkOptin

LEMMA AtCryptoShred ==
  ASSUME NEW q, NEW c, NEW r, NEW j \in Nat \ {0}, NEW s,
         s = StatementAt(CryptoShredTenant(q, c, r), j)
  PROVE  /\ j = 1 => s = Upsert(Key(q.t), [wrapped |-> 0, shredded |-> TRUE])
         /\ j = 2 => s = Audit(q.t, "retention", "crypto_shred", "shredded")
         /\ j > 2 => s = Refuse("200")
  BY DEF StatementAt, CryptoShredTenant

LEMMA AtIssueToken ==
  ASSUME NEW q, NEW c, NEW r, NEW j \in Nat \ {0}, NEW s,
         s = StatementAt(IssueToken(q, c, r), j)
  PROVE  /\ j = 1 => s = Insert(Token(RandomUUID(c)), [t |-> q.t, scope |-> q.v, revoked |-> FALSE])
         /\ j = 2 => s = Audit(q.t, "token", ToString(RandomUUID(c)), "issued")
         /\ j > 2 => s = Refuse("200")
  BY DEF StatementAt, IssueToken

LEMMA AtRecordMilestone ==
  ASSUME NEW q, NEW c, NEW r, NEW j \in Nat \ {0}, NEW s,
         s = StatementAt(RecordMilestone(q, c, r), j)
  PROVE  /\ j = 1 => s = Upsert(Timeline(q.t), [m \in {q.id} |-> q.v])
         /\ j > 1 => s = Refuse("200")
  BY DEF StatementAt, RecordMilestone

LEMMA AtCreateExperiment ==
  ASSUME NEW q, NEW c, NEW r, NEW j \in Nat \ {0}, NEW s,
         s = StatementAt(CreateExperiment(q, c, r), j)
  PROVE  /\ j = 1 => s = Insert(<<"experiments", q.t, RandomUUID(c)>>, [status |-> "created"])
         /\ j = 2 => s = Audit(q.t, "experiment", ToString(RandomUUID(c)), "created")
         /\ j > 2 => s = Refuse("200")
  BY DEF StatementAt, CreateExperiment

LEMMA AtCreateDataset ==
  ASSUME NEW q, NEW c, NEW r, NEW j \in Nat \ {0}, NEW s,
         s = StatementAt(CreateDataset(q, c, r), j)
  PROVE  /\ j = 1 => s = Insert(Dataset(q.t, RandomUUID(c)), [version |-> 1])
         /\ j > 1 => s = Refuse("200")
  BY DEF StatementAt, CreateDataset

LEMMA AtUpdateExperiment ==
  ASSUME NEW q, NEW c, NEW r, NEW j \in Nat \ {0}, NEW s,
         s = StatementAt(UpdateExperiment(q, c, r), j)
  PROVE  /\ j = 1 => s = Select({<<"experiments", q.t, q.id>>})
         /\ j = 2 /\ At(r, <<"experiments", q.t, q.id>>) = None => s = Refuse("404")
         /\ j > 2 /\ At(r, <<"experiments", q.t, q.id>>) = None => s = Refuse("200")
         /\ j = 2 /\ At(r, <<"experiments", q.t, q.id>>) # None => s = Update(<<"experiments", q.t, q.id>>, [status |-> q.v])
         /\ j = 3 /\ At(r, <<"experiments", q.t, q.id>>) # None => s = Audit(q.t, "experiment", ToString(q.id), q.v)
         /\ j > 3 => s = Refuse("200")
  BY DEF StatementAt, UpdateExperiment, IfFound

LEMMA AtWriteVerdict ==
  ASSUME NEW q, NEW c, NEW r, NEW j \in Nat \ {0}, NEW s,
         s = StatementAt(WriteVerdict(q, c, r), j)
  PROVE  /\ j = 1 => s = Select({<<"experiments", q.t, q.id>>})
         /\ j = 2 /\ At(r, <<"experiments", q.t, q.id>>) = None => s = Refuse("404")
         /\ j > 2 /\ At(r, <<"experiments", q.t, q.id>>) = None => s = Refuse("200")
         /\ j = 2 /\ At(r, <<"experiments", q.t, q.id>>) # None => s = Upsert(Verdict(q.t, q.id), [decision |-> q.v])
         /\ j = 3 /\ At(r, <<"experiments", q.t, q.id>>) # None => s = Update(<<"experiments", q.t, q.id>>, [status |-> "concluded"])
         /\ j = 4 /\ At(r, <<"experiments", q.t, q.id>>) # None => s = Audit(q.t, "experiment", ToString(q.id), "concluded")
         /\ j > 4 => s = Refuse("200")
  BY DEF StatementAt, WriteVerdict, IfFound

LEMMA AtGetExperiment ==
  ASSUME NEW q, NEW c, NEW r, NEW j \in Nat \ {0}, NEW s,
         s = StatementAt(GetExperiment(q, c, r), j)
  PROVE  /\ j = 1 => s = Select({<<"experiments", q.t, q.id>>})
         /\ j = 2 /\ At(r, <<"experiments", q.t, q.id>>) = None => s = Refuse("404")
         /\ j = 2 /\ At(r, <<"experiments", q.t, q.id>>) # None => s = Select({Verdict(q.t, q.id)})
         /\ j = 3 /\ At(r, <<"experiments", q.t, q.id>>) # None => s = Reply([status |-> r[<<"experiments", q.t, q.id>>].status, verdict |-> Column(r, Verdict(q.t, q.id), "decision", Null)])
         /\ j > 3 => s = Refuse("200")
  BY DEF StatementAt, GetExperiment, IfFound

LEMMA AtAddCase ==
  ASSUME NEW q, NEW c, NEW r, NEW j \in Nat \ {0}, NEW s,
         s = StatementAt(AddCase(q, c, r), j)
  PROVE  /\ j = 1 => s = Select({Dataset(q.t, q.id)})
         /\ j = 2 /\ At(r, Dataset(q.t, q.id)) = None => s = Refuse("404")
         /\ j > 2 /\ At(r, Dataset(q.t, q.id)) = None => s = Refuse("200")
         /\ j = 2 /\ At(r, Dataset(q.t, q.id)) # None => s = AddRow("eval_dataset_cases", q.t, [dataset |-> q.id])
         /\ j = 3 /\ At(r, Dataset(q.t, q.id)) # None => s = Update(Dataset(q.t, q.id), [version |-> r[Dataset(q.t, q.id)].version + 1])
         /\ j > 3 => s = Refuse("200")
<1> DEFINE row == Dataset(q.t, q.id)
           a == Select({row})
           b == AddRow("eval_dataset_cases", q.t, [dataset |-> q.id])
           d == Update(row, [version |-> r[row].version + 1])
<1>1. AddCase(q, c, r) = <<a>> \o IfFound(r, row, "404", <<b, d>>)
  BY DEF AddCase
<1> HIDE DEF row, a, b, d
<1>2. /\ j = 1 => s = a
      /\ j = 2 /\ At(r, row) = None => s = Refuse("404")
      /\ j > 2 /\ At(r, row) = None => s = Refuse("200")
      /\ j = 2 /\ At(r, row) # None => s = b
      /\ j = 3 /\ At(r, row) # None => s = d
      /\ j > 3 => s = Refuse("200")
  BY <1>1 DEF StatementAt, IfFound
<1> QED BY <1>2 DEF row, a, b, d

LEMMA AtCreateTenant ==
  ASSUME NEW q, NEW c, NEW r, NEW j \in Nat \ {0}, NEW s,
         s = StatementAt(CreateTenant(q, c, r), j)
  PROVE  /\ j = 1 => s = Insert(Settings(NewTenant(c)), [retention |-> "365", redaction |-> "on",
                                              residency |-> "us"])
         /\ j = 2 => s = Insert(Token(RandomUUID(c)), [t |-> NewTenant(c), scope |-> "api:full",
                                                       revoked |-> FALSE])
         /\ j = 3 => s = Audit(NewTenant(c), "seed", "taxonomy", "active")
         /\ j > 3 => s = Refuse("200")
  BY DEF StatementAt, CreateTenant, NewTenant

LEMMA AtRevokeToken ==
  ASSUME NEW q, NEW c, NEW r, NEW j \in Nat \ {0}, NEW s,
         s = StatementAt(RevokeToken(q, c, r), j)
  PROVE  LET found == Live(r, Token(q.id)) /\ At(r, Token(q.id)).t = q.t IN
         /\ j = 1 => s = Select({Token(q.id)})
         /\ j = 2 /\ ~found => s = Refuse("404")
         /\ j > 2 /\ ~found => s = Refuse("200")
         /\ j = 2 /\ found => s = Update(Token(q.id), [revoked |-> TRUE])
         /\ j = 3 /\ found => s = Audit(q.t, "token", ToString(q.id), "revoked")
         /\ j > 3 => s = Refuse("200")
<1> DEFINE found == Live(r, Token(q.id)) /\ At(r, Token(q.id)).t = q.t
<1> HIDE DEF found
<1>0. /\ j = 1 => s = Select({Token(q.id)})
      /\ j = 2 /\ ~found => s = Refuse("404")
      /\ j > 2 /\ ~found => s = Refuse("200")
      /\ j = 2 /\ found => s = Update(Token(q.id), [revoked |-> TRUE])
      /\ j = 3 /\ found => s = Audit(q.t, "token", ToString(q.id), "revoked")
      /\ j > 3 => s = Refuse("200")
  <2> DEFINE a == Select({Token(q.id)})
             b == Update(Token(q.id), [revoked |-> TRUE])
             d == Audit(q.t, "token", ToString(q.id), "revoked")
  <2>1. RevokeToken(q, c, r) = <<a>> \o IF found THEN <<b, d>> ELSE <<Refuse("404")>>
    BY DEF RevokeToken, found
  <2> HIDE DEF a, b, d
  <2>2. /\ j = 1 => s = a
        /\ j = 2 /\ ~found => s = Refuse("404")
        /\ j > 2 /\ ~found => s = Refuse("200")
        /\ j = 2 /\ found => s = b
        /\ j = 3 /\ found => s = d
        /\ j > 3 => s = Refuse("200")
    BY <2>1 DEF StatementAt
  <2> QED BY <2>2 DEF a, b, d
<1> QED BY <1>0 DEF found

LEMMA AtBenchmarkResult ==
  ASSUME NEW q, NEW c, NEW r, NEW j \in Nat \ {0}, NEW s,
         s = StatementAt(BenchmarkResult(q, c, r), j)
  PROVE  LET growth == Column(r, Account(q.t), "tier", "free") = "growth" IN
         /\ j = 1 => s = Select({Account(q.t)})
         /\ j = 2 /\ ~growth => s = Refuse("403")
         /\ j = 2 /\ growth => s = Select({Optin(q.t)})
         /\ j = 3 /\ growth /\ q.t \in OptedIn(r) =>
               s = Select({o \in DOMAIN db : o[1] = "benchmark_optin"})
         /\ j = 3 /\ growth /\ q.t \notin OptedIn(r) => s = Refuse("403")
         /\ j = 4 /\ growth => s = Reply([cohort |-> OptedIn(r)])
         /\ j > 4 => s = Refuse("200")
<1> DEFINE growth == Column(r, Account(q.t), "tier", "free") = "growth"
<1> HIDE DEF growth
<1>0. /\ j = 1 => s = Select({Account(q.t)})
      /\ j = 2 /\ ~growth => s = Refuse("403")
      /\ j = 2 /\ growth => s = Select({Optin(q.t)})
      /\ j = 3 /\ growth /\ q.t \in OptedIn(r) =>
            s = Select({o \in DOMAIN db : o[1] = "benchmark_optin"})
      /\ j = 3 /\ growth /\ q.t \notin OptedIn(r) => s = Refuse("403")
      /\ j = 4 /\ growth => s = Reply([cohort |-> OptedIn(r)])
      /\ j > 4 => s = Refuse("200")
  <2> DEFINE a == Select({Account(q.t)})
             b == Select({Optin(q.t)})
             d == Select({o \in DOMAIN db : o[1] = "benchmark_optin"})
             e == Reply([cohort |-> OptedIn(r)])
             third == IF q.t \in OptedIn(r) THEN d ELSE Refuse("403")
  <2>1. BenchmarkResult(q, c, r) =
          <<a>> \o IF ~growth THEN <<Refuse("403")>> ELSE <<b, third, e>>
    BY DEF BenchmarkResult, growth
  <2>2. /\ q.t \in OptedIn(r) => third = d
        /\ q.t \notin OptedIn(r) => third = Refuse("403")
    OBVIOUS
  <2> HIDE DEF a, b, d, e, third
  <2>3. /\ j = 1 => s = a
        /\ j = 2 /\ ~growth => s = Refuse("403")
        /\ j = 2 /\ growth => s = b
        /\ j = 3 /\ growth => s = third
        /\ j = 4 /\ growth => s = e
        /\ j > 4 => s = Refuse("200")
    BY <2>1 DEF StatementAt
  <2> QED BY <2>2, <2>3 DEF a, b, d, e
<1> QED BY <1>0 DEF growth

LEMMA AtTail ==
  ASSUME NEW a, NEW p, NEW S, p \in Seq(S), NEW i \in Nat \ {0}
  PROVE  /\ i = 1 => StatementAt(<<a>> \o p, i) = a
         /\ i > 1 => StatementAt(<<a>> \o p, i) = StatementAt(p, i - 1)
<1> DEFINE l == <<a>> \o p
<1>0. <<a>> \in Seq({a} \cup S) /\ p \in Seq({a} \cup S) /\ Len(<<a>>) = 1
  OBVIOUS
<1>1. l \in Seq({a} \cup S) /\ Len(l) = 1 + Len(p) /\ l[1] = a
      /\ \A k \in 2..(1 + Len(p)) : l[k] = p[k - 1]
  BY <1>0
<1> HIDE DEF l
<1>2. i = 1 => StatementAt(l, i) = a
  BY <1>1 DEF StatementAt
<1>3. i > 1 => StatementAt(l, i) = StatementAt(p, i - 1)
  BY <1>1 DEF StatementAt
<1> QED BY <1>2, <1>3 DEF l

LEMMA EmptyTail ==
  ASSUME NEW S, NEW p \in Seq(S)
  PROVE  <<>> \o p = p /\ p \o <<>> = p
  OBVIOUS

LEMMA IsList ==
  ASSUME NEW n \in Nat, NEW p, DOMAIN p = 1..n, p = [i \in DOMAIN p |-> p[i]]
  PROVE  \E S : p \in Seq(S)
<1> DEFINE S == {p[i] : i \in 1..n}
<1>1. p \in [1..n -> S]
  OBVIOUS
<1>2. p \in Seq(S) /\ Len(p) = n
  BY <1>1
<1> QED BY <1>2

\* What the rows read and the key say of a list is in a condition of its own.
LEMMA AtPutSeamMap ==
  ASSUME NEW q, NEW c, NEW r, NEW j \in Nat \ {0}, NEW s,
         s = StatementAt(PutSeamMap(q, c, r), j)
  PROVE  LET row == Context(q.t, q.id)
             found == At(r, Key(q.t)) # None
             upsert == Upsert(row, EncryptPayload(Dek(c, q.t, r), q.v))
             record == Audit(q.t, "seam_map", q.id, q.v) IN
         /\ ~kek /\ j = 1 => s = upsert
         /\ ~kek /\ j = 2 => s = record
         /\ ~kek /\ j > 2 => s = Refuse("200")
         /\ kek /\ j = 1 => s = Select({Key(q.t)})
         /\ kek /\ found /\ j = 2 => s = upsert
         /\ kek /\ found /\ j = 3 => s = record
         /\ kek /\ found /\ j > 3 => s = Refuse("200")
         /\ kek /\ ~found /\ j = 2 =>
               s = Insert(Key(q.t), [wrapped |-> GenerateDek(c), shredded |-> FALSE])
         /\ kek /\ ~found /\ j = 3 => s = upsert
         /\ kek /\ ~found /\ j = 4 => s = record
         /\ kek /\ j > 4 => s = Refuse("200")
<1> DEFINE row == Context(q.t, q.id)
           found == At(r, Key(q.t)) # None
           upsert == Upsert(row, EncryptPayload(Dek(c, q.t, r), q.v))
           record == Audit(q.t, "seam_map", q.id, q.v)
<1> HIDE DEF row, found, upsert, record
<1>0. /\ ~kek /\ j = 1 => s = upsert
      /\ ~kek /\ j = 2 => s = record
      /\ ~kek /\ j > 2 => s = Refuse("200")
      /\ kek /\ j = 1 => s = Select({Key(q.t)})
      /\ kek /\ found /\ j = 2 => s = upsert
      /\ kek /\ found /\ j = 3 => s = record
      /\ kek /\ found /\ j > 3 => s = Refuse("200")
      /\ kek /\ ~found /\ j = 2 =>
            s = Insert(Key(q.t), [wrapped |-> GenerateDek(c), shredded |-> FALSE])
      /\ kek /\ ~found /\ j = 3 => s = upsert
      /\ kek /\ ~found /\ j = 4 => s = record
      /\ kek /\ j > 4 => s = Refuse("200")
  <2> DEFINE a == Select({Key(q.t)})
             b == Insert(Key(q.t), [wrapped |-> GenerateDek(c), shredded |-> FALSE])
  <2>1. PutSeamMap(q, c, r) =
          (IF ~kek THEN <<>> ELSE <<a>> \o IF ~found THEN <<b>> ELSE <<>>) \o <<upsert, record>>
    BY DEF PutSeamMap, TenantDek, row, found, upsert, record
  <2> HIDE DEF a, b
  <2>2. CASE ~kek
    <3>1. PutSeamMap(q, c, r) = <<>> \o <<upsert, record>>
      BY <2>1, <2>2
    <3> QED BY <2>2, <3>1 DEF StatementAt
  <2>3. CASE kek /\ found
    <3>1. PutSeamMap(q, c, r) = (<<a>> \o <<>>) \o <<upsert, record>>
      BY <2>1, <2>3
    <3> QED BY <2>3, <3>1 DEF StatementAt, a
  <2>4. CASE kek /\ ~found
    <3>1. PutSeamMap(q, c, r) = (<<a>> \o <<b>>) \o <<upsert, record>>
      BY <2>1, <2>4
    <3> QED BY <2>4, <3>1 DEF StatementAt, a, b
  <2> QED BY <2>2, <2>3, <2>4
<1> QED BY <1>0 DEF row, found, upsert, record

LEMMA AtGetSeamMap ==
  ASSUME NEW q, NEW c, NEW r, NEW j \in Nat \ {0}, NEW s,
         s = StatementAt(GetSeamMap(q, c, r), j)
  PROVE  LET row == Context(q.t, q.id)
             found == At(r, Key(q.t)) # None
             sealed == r[row].key
             dek == r[Key(q.t)].wrapped
             record == Audit(q.t, "seam_map", q.id, "read") IN
         /\ j = 1 => s = Select({row})
         /\ j = 2 /\ At(r, row) = None => s = Refuse("404")
         /\ j = 2 /\ At(r, row) # None /\ sealed = 0 => s = record
         /\ j = 3 /\ At(r, row) # None /\ sealed = 0 => s = Reply(At(r, row))
         /\ j = 2 /\ At(r, row) # None /\ sealed # 0 /\ kek => s = Select({Key(q.t)})
         /\ j = 2 /\ At(r, row) # None /\ sealed # 0 /\ ~kek => s = Refuse("404")
         /\ j = 3 /\ At(r, row) # None /\ sealed # 0 /\ kek /\ found =>
               /\ dek = 0 => s = Refuse("404")
               /\ dek # 0 /\ dek # sealed => s = Refuse("500")
               /\ dek # 0 /\ dek = sealed => s = record
         /\ j = 4 /\ At(r, row) # None /\ sealed # 0 /\ kek /\ found /\ dek # 0 /\ dek = sealed =>
               s = Reply(At(r, row))
<1> DEFINE row == Context(q.t, q.id)
           found == At(r, Key(q.t)) # None
           sealed == r[row].key
           dek == r[Key(q.t)].wrapped
           record == Audit(q.t, "seam_map", q.id, "read")
<1> HIDE DEF row, found, sealed, dek, record
<1>0. /\ j = 1 => s = Select({row})
      /\ j = 2 /\ At(r, row) = None => s = Refuse("404")
      /\ j = 2 /\ At(r, row) # None /\ sealed = 0 => s = record
      /\ j = 3 /\ At(r, row) # None /\ sealed = 0 => s = Reply(At(r, row))
      /\ j = 2 /\ At(r, row) # None /\ sealed # 0 /\ kek => s = Select({Key(q.t)})
      /\ j = 2 /\ At(r, row) # None /\ sealed # 0 /\ ~kek => s = Refuse("404")
      /\ j = 3 /\ At(r, row) # None /\ sealed # 0 /\ kek /\ found =>
            /\ dek = 0 => s = Refuse("404")
            /\ dek # 0 /\ dek # sealed => s = Refuse("500")
            /\ dek # 0 /\ dek = sealed => s = record
      /\ j = 4 /\ At(r, row) # None /\ sealed # 0 /\ kek /\ found /\ dek # 0 /\ dek = sealed =>
            s = Reply(At(r, row))
  <2> DEFINE a == Select({row})
             b == Select({Key(q.t)})
             d == Insert(Key(q.t), [wrapped |-> GenerateDek(c), shredded |-> FALSE])
             e == Reply(At(r, row))
             k == Dek(c, q.t, r)
             key == Column(r, row, "key", 0)
             opened == IF k = 0 THEN <<Refuse("404")>>
                       ELSE IF k # key THEN <<Refuse("500")>> ELSE <<record, e>>
             created == IF ~kek THEN <<>> ELSE <<b>> \o IF ~found THEN <<d>> ELSE <<>>
  <2>1. GetSeamMap(q, c, r) =
          <<a>> \o IF At(r, row) = None THEN <<Refuse("404")>>
                   ELSE IF key = 0 THEN <<record, e>> ELSE created \o opened
    BY DEF GetSeamMap, IfFound, TenantDek, Opens, row, found, record
  <2>2. /\ ~kek => k = 0
        /\ kek /\ found => k = dek
        /\ At(r, row) # None => key = sealed
    BY DEF Dek, Column, sealed, dek, row, found
  <2> HIDE DEF a, b, d, e, k, key
  <2>3. CASE At(r, row) = None
    BY <2>1, <2>3 DEF StatementAt, a
  <2>4. CASE At(r, row) # None /\ sealed = 0
    <3>1. GetSeamMap(q, c, r) = <<a>> \o <<record, e>>
      BY <2>1, <2>2, <2>4
    <3> QED BY <2>4, <3>1 DEF StatementAt, a, e
  <2>5. CASE At(r, row) # None /\ sealed # 0 /\ ~kek
    <3>1. GetSeamMap(q, c, r) = <<a>> \o (<<>> \o <<Refuse("404")>>)
      BY <2>1, <2>2, <2>5
    <3> QED BY <2>5, <3>1 DEF StatementAt, a
  <2>6. CASE At(r, row) # None /\ sealed # 0 /\ kek
    <3>1. PICK T : opened \in Seq(T)
      <4>1. /\ <<Refuse("404")>> \in Seq({Refuse("404")}) /\ <<Refuse("500")>> \in Seq({Refuse("500")})
            /\ <<record, e>> \in Seq({record, e})
        OBVIOUS
      <4> QED BY <4>1
    <3>2. CASE ~found
      <4>1. GetSeamMap(q, c, r) = <<a>> \o ((<<b>> \o <<d>>) \o opened)
        BY <2>1, <2>2, <2>6, <3>2
      <4> HIDE DEF opened
      <4> DEFINE p == (<<b>> \o <<d>>) \o opened
      <4>3. p \in Seq({b, d} \cup T) /\ Len(p) > 0 /\ p[1] = b
        BY <3>1
      <4>4. GetSeamMap(q, c, r) = <<a>> \o p
        BY <4>1
      <4> HIDE DEF p
      <4>5. StatementAt(p, 1) = b
        BY <4>3 DEF StatementAt
      <4>2. /\ j = 1 => s = a
            /\ j = 2 => s = b
        BY <4>3, <4>4, <4>5, AtTail
      <4> QED BY ONLY <2>6, <3>2, <4>2 DEF a, b
    <3>3. CASE found
      <4>1. /\ dek = 0 => opened = <<Refuse("404")>>
            /\ dek # 0 /\ dek # sealed => opened = <<Refuse("500")>>
            /\ dek # 0 /\ dek = sealed => opened = <<record>> \o <<e>>
        BY <2>2, <2>6, <3>3
      <4>2. GetSeamMap(q, c, r) = <<a>> \o ((<<b>> \o <<>>) \o opened)
        BY <2>1, <2>2, <2>6, <3>3
      <4> HIDE DEF opened
      <4>3. <<b>> \o <<>> = <<b>>
        OBVIOUS
      <4>4. GetSeamMap(q, c, r) = <<a>> \o (<<b>> \o opened)
        BY <4>2, <4>3
      <4> DEFINE p == <<b>> \o opened
      <4>5. p \in Seq({b} \cup T) /\ GetSeamMap(q, c, r) = <<a>> \o p
        BY <3>1, <4>4
      <4> HIDE DEF p
      <4>6. /\ j = 1 => s = a
            /\ j > 1 => s = StatementAt(p, j - 1)
        BY <4>5, AtTail
      <4>7. /\ j = 2 => s = b
            /\ j > 2 => s = StatementAt(opened, (j - 1) - 1)
        BY <3>1, <4>6, AtTail DEF p
      <4>8. /\ j = 3 /\ dek = 0 => s = Refuse("404")
            /\ j = 3 /\ dek # 0 /\ dek # sealed => s = Refuse("500")
        BY <4>1, <4>7 DEF StatementAt
      <4>9. dek # 0 /\ dek = sealed => (j = 3 => s = record) /\ (j = 4 => s = e)
        <5>1. ASSUME dek # 0, dek = sealed
              PROVE  opened = <<record>> \o <<e>>
          BY <4>1, <5>1
        <5>2. /\ StatementAt(<<record>> \o <<e>>, 1) = record
              /\ StatementAt(<<record>> \o <<e>>, 2) = e
          BY DEF StatementAt
        <5>3. (j = 3 => (j - 1) - 1 = 1) /\ (j = 4 => (j - 1) - 1 = 2) /\ (j \in {3, 4} => j > 2)
          OBVIOUS
        <5> QED BY <4>7, <5>1, <5>2, <5>3
      <4> QED BY ONLY <2>6, <3>3, <4>6, <4>7, <4>8, <4>9 DEF a, b, e
    <3> QED BY <3>2, <3>3
  <2> QED BY <2>3, <2>4, <2>5, <2>6
<1> QED BY <1>0 DEF row, found, sealed, dek, record

LEMMA AtTenantHook ==
  ASSUME NEW q, NEW b, NEW m, NEW S, m \in Seq(S), NEW i \in Nat \ {0}, NEW s,
         s = StatementAt(TenantHook(q, b, m), i)
  PROVE  /\ i = 1 => s = Select({Token(q.token)})
         /\ i = 2 /\ ~Passed(q, b) => s = Refuse("401") \/ s = Refuse("403")
         /\ i > 1 /\ Passed(q, b) => s = StatementAt(m, i - 1)
<1> DEFINE a == Select({Token(q.token)})
           rest == IF ~Live(b, Token(q.token)) THEN <<Refuse("401")>>
                   ELSE IF At(b, Token(q.token)).scope # "api:full" THEN <<Refuse("403")>> ELSE m
<1>1. TenantHook(q, b, m) = <<a>> \o rest
  BY DEF TenantHook
<1> HIDE DEF a
<1>2. CASE Passed(q, b)
  <2>1. rest = m
    BY <1>2 DEF Passed
  <2> QED BY <1>1, <1>2, <2>1, AtTail DEF a
<1>3. CASE ~Passed(q, b)
  <2>1. PICK status \in {"401", "403"} : rest = <<Refuse(status)>>
    BY <1>3 DEF Passed
  <2>2. (i = 1 => s = a) /\ (i = 2 => s = Refuse(status))
    BY <1>1, <2>1 DEF StatementAt
  <2> QED BY <1>3, <2>2 DEF a
<1> QED BY <1>2, <1>3

LEMMA AtOperatorHook ==
  ASSUME NEW q, NEW r, NEW b, NEW m, NEW S, m \in Seq(S), NEW i \in Nat \ {0}, NEW s,
         s = StatementAt(OperatorHook(q, r, b, m), i)
  PROVE  /\ i = 1 => s = Select({OperatorToken(q.token)})
         /\ i = 2 /\ ~Live(b, OperatorToken(q.token)) => s = Select({Token(q.token)})
         /\ i = 3 /\ ~Live(b, OperatorToken(q.token)) => s = Refuse("401") \/ s = Refuse("403")
         /\ i > 1 /\ Live(b, OperatorToken(q.token)) => s = StatementAt(m, i - 1)
<1> DEFINE a == Select({OperatorToken(q.token)})
           d == Select({Token(q.token)})
<1>1. PICK status \in {"401", "403"} : status = IF Live(r, Token(q.token)) THEN "403" ELSE "401"
  OBVIOUS
<1>2. OperatorHook(q, r, b, m) =
        <<a>> \o IF Live(b, OperatorToken(q.token)) THEN m ELSE <<d, Refuse(status)>>
  BY <1>1 DEF OperatorHook
<1> HIDE DEF a, d
<1>3. CASE Live(b, OperatorToken(q.token))
  BY <1>2, <1>3 DEF StatementAt, a
<1>4. CASE ~Live(b, OperatorToken(q.token))
  <2>1. (i = 1 => s = a) /\ (i = 2 => s = d) /\ (i = 3 => s = Refuse(status))
    BY <1>2, <1>4 DEF StatementAt
  <2> QED BY <1>4, <2>1 DEF a, d
<1> QED BY <1>3, <1>4

\* The operator plane: where the audit row is written.
Audits(q, st) == \E action : st = OperatorAudit(q, action)
LEMMA AtOperatorMethod ==
  ASSUME NEW q, NEW c, NEW r, NEW j \in Nat \ {0}, NEW s, q.op \in OperatorPlane,
         IsFiniteSet(DOMAIN r), s = StatementAt(OperatorMethod(q, c, r), j)
  PROVE  /\ q.op # "tenantSnapshot" /\ j = 1 => Audits(q, s)
         /\ q.op = "tenantSnapshot" /\ j = 1 => s = Select({Settings(q.id)})
         /\ q.op = "tenantSnapshot" /\ j = 2 =>
               Audits(q, s) \/ s = Refuse("404")
<1>1. PICK n \in Nat : \E S : TenantIds(r) \in [1..n -> S]
  BY TenantIdsList
<1>2. Len(TenantIds(r)) = n
  BY <1>1
<1>3. ASSUME q.op = "listTenants", j = 1 PROVE s = OperatorAudit(q, "list_tenants")
  <2> DEFINE a == OperatorAudit(q, "list_tenants")
             b == Select({o \in DOMAIN db : o[1] = "tenants"})
             queries(t) == <<Select({Timeline(t)}), Select(RowsOf(db, "autonomy_grants", t)),
                           Select({Account(t)})>>
             p == ForEachTenant(r, 3, queries)
             v == Reply({<<u, Step(At(r, Timeline(u))), Level(r, u),
                     Column(r, Account(u), "tier", "free")>> : u \in ToSet(TenantIds(r))})
  <2>1. OperatorMethod(q, c, r) = <<a, b>> \o p \o <<v>>
    BY Zenon, <1>3 DEF OperatorMethod, ListTenants
  <2>2. p = [i \in 1..(3 * n) |->
               queries(TenantIds(r)[((i - 1) \div 3) + 1])[((i - 1) % 3) + 1]]
    BY <1>2 DEF ForEachTenant
  <2> HIDE DEF a, b, p, v, queries
  <2>3. PICK T : p \in Seq(T)
    <3>1. 3 * n \in Nat /\ DOMAIN p = 1..(3 * n) /\ p = [i \in DOMAIN p |-> p[i]]
      BY <2>2
    <3> QED BY <3>1, IsList
  <2>4. StatementAt(<<a, b>> \o p \o <<v>>, 1) = a
    BY <2>3 DEF StatementAt
  <2> QED BY <1>3, <2>1, <2>4 DEF a
<1>4. ASSUME q.op = "rollups", j = 1 PROVE s = OperatorAudit(q, "rollups")
  <2> DEFINE queries(t) == <<Select({Timeline(t)})>>
             p == ForEachTenant(r, 1, queries)
             all(table) == {o \in DOMAIN r : o[1] = table}
             tenants == ToSet(TenantIds(r))
             v == [tenants    |-> Cardinality(tenants),
                   funnel     |-> [k \in 0..5 |->
                                     Cardinality({t \in tenants : Step(At(r, Timeline(t))) = k})],
                   growth     |-> Cardinality({o \in all("billing_accounts") : r[o].tier = "growth"}),
                   delivered  |-> Cardinality(all("instrument_runs")),
                   merged     |-> Cardinality({o \in all("instrument_runs") : Merged(r[o].outcome)}),
                   rejections |-> Cardinality(all("finding_rejections"))]
             a == OperatorAudit(q, "rollups")
             b1 == Select({o \in DOMAIN db : o[1] = "instrument_runs"})
             b2 == Select({o \in DOMAIN db : o[1] = "finding_rejections"})
             b3 == Select({o \in DOMAIN db : o[1] = "tenants"})
             x2 == <<Select({o \in DOMAIN db : o[1] = "billing_accounts"}),
                     Select({o \in DOMAIN db : o[1] = "billing_invoices"}), Reply(v)>>
  <2>1. OperatorMethod(q, c, r) = <<a, b1, b2, b3>> \o p \o x2
    BY Zenon, <1>4 DEF OperatorMethod, Rollups
  <2>2. p = [i \in 1..(1 * n) |->
               queries(TenantIds(r)[((i - 1) \div 1) + 1])[((i - 1) % 1) + 1]]
    BY <1>2 DEF ForEachTenant
  <2>3. PICK T2 : x2 \in Seq(T2)
    <3>1. x2 \in Seq({x2[1], x2[2], x2[3]})
      OBVIOUS
    <3> QED BY <3>1
  <2> HIDE DEF a, b1, b2, b3, p, x2, queries
  <2>4. PICK T : p \in Seq(T)
    <3>1. 1 * n \in Nat /\ DOMAIN p = 1..(1 * n) /\ p = [i \in DOMAIN p |-> p[i]]
      BY <2>2
    <3> QED BY <3>1, IsList
  <2>5. StatementAt(<<a, b1, b2, b3>> \o p \o x2, 1) = a
    BY <2>3, <2>4 DEF StatementAt
  <2> QED BY <1>4, <2>1, <2>5 DEF a
<1>5. ASSUME q.op = "tenantSnapshot" PROVE
        /\ j = 1 => s = Select({Settings(q.id)})
        /\ j = 2 => s = OperatorAudit(q, "tenant_snapshot") \/ s = Refuse("404")
  <2> DEFINE a == Select({Settings(q.id)})
             b == OperatorAudit(q, "tenant_snapshot")
             x == <<Select({Timeline(q.id)}),
                    Select(RowsOf(db, "autonomy_grants", q.id)), Select({Account(q.id)}),
                    Select(RowsOf(db, "instrument_runs", q.id)),
                    Select(RowsOf(db, "experiments", q.id))>>
  <2>1. OperatorMethod(q, c, r) =
          <<a>> \o IF At(r, Settings(q.id)) = None THEN <<Refuse("404")>> ELSE <<b>> \o x
    BY <1>5 DEF OperatorMethod, TenantSnapshot, IfFound
  <2>2. \E T : x \in Seq(T)
    <3>1. x \in Seq({x[1], x[2], x[3], x[4], x[5]})
      OBVIOUS
    <3> QED BY <3>1
  <2> HIDE DEF a, b, x
  <2>3. CASE At(r, Settings(q.id)) = None
    <3>1. OperatorMethod(q, c, r) = <<a>> \o <<Refuse("404")>>
      BY <2>1, <2>3
    <3> QED BY <3>1 DEF StatementAt, a
  <2>4. CASE At(r, Settings(q.id)) # None
    <3>1. OperatorMethod(q, c, r) = <<a>> \o (<<b>> \o x)
      BY <2>1, <2>4
    <3> QED BY <2>2, <3>1 DEF StatementAt, a, b
  <2> QED BY <2>3, <2>4
<1> QED BY <1>3, <1>4, <1>5 DEF OperatorPlane, Audits
-----------------------------------------------------------------------------
(* The steps of a session.                                                  *)
SessionAt(c, s) == StatementAt(Program(s.q, c, s.reads, s.began), s.pc)
Sees(s, row) == IF row \in DOMAIN s.writes THEN s.writes[row] ELSE At(db, row)
Follows(s, s2) ==
    /\ s2.q = s.q /\ s2.pc = s.pc + 1
    /\ s2.began = IF s.pc = 1 THEN db ELSE s.began
Selects(s, s2, st) ==
    /\ Follows(s, s2) /\ st.do = "select" /\ s2.writes = s.writes
    /\ s2.reads = Over([row \in st.rows |-> Sees(s, row)], s.reads)
\* The row st writes and its columns; n is the next id of the sequences.
Wrote(n, s, st, row, columns) ==
    \/ /\ st.do \in {"insert", "upsert"} /\ row = st.row
       /\ Sees(s, row) = None /\ columns = st.set
    \/ /\ st.do \in {"upsert", "update"} /\ row = st.row
       /\ Sees(s, row) # None /\ columns = Over(st.set, Sees(s, row))
    \/ st.do = "append" /\ row = <<st.table, st.t, n>> /\ columns = st.set
Holds(n, s, s2, st, row, columns) ==
    /\ Follows(s, s2) /\ Wrote(n, s, st, row, columns) /\ ~st.own /\ s2.reads = s.reads
    /\ s2.writes = Over([o \in {row} |-> columns], s.writes)
\* An update that finds no row, or a statement that is committed at once.
Passes(s, s2, st) ==
    /\ Follows(s, s2) /\ s2.reads = s.reads /\ s2.writes = s.writes
    /\ \/ st.do = "update" /\ Sees(s, st.row) = None
       \/ st.do \in {"insert", "upsert", "update", "append"} /\ st.own

LEMMA OwnerStays ==
  ASSUME NEW s, NEW s2, Follows(s, s2), s.pc # 1 \/ s.q.op \in Unrouted
  PROVE  Owner(s2.q, s2.began) = Owner(s.q, s.began)
  BY DEF Follows, Owner

LEMMA RouteAt ==
  ASSUME NEW c, NEW s, Legal(s.q), s.q.op \in Routes, s.pc \in Nat \ {0},
         IsFiniteSet(DOMAIN db), NEW st, st = SessionAt(c, s)
  PROVE  /\ s.pc = 1 => st = Select({Token(s.q.token)})
         /\ s.pc = 2 /\ ~Passed(s.q, s.began) => st = Refuse("401") \/ st = Refuse("403")
         /\ s.pc > 1 /\ Passed(s.q, s.began) =>
               st = StatementAt(TenantMethod(OfTenant(s.q, s.began), c, s.reads), s.pc - 1)
<1> DEFINE m == TenantMethod(OfTenant(s.q, s.began), c, s.reads)
<1>1. Good(s.q.op, Owner(s.q, s.began), m)
  BY OfTenantFields, GoodTenant DEF Legal
<1> HIDE DEF m
<1>2. PICK S : m \in Seq(S)
  BY <1>1 DEF Good
<1>3. st = StatementAt(TenantHook(s.q, s.began, m), s.pc)
  BY ProgramIs DEF SessionAt, m
<1> QED BY <1>2, <1>3, AtTenantHook DEF m

LEMMA JobAt ==
  ASSUME NEW c, NEW s, Legal(s.q), s.q.op \in Unrouted, NEW st, st = SessionAt(c, s)
  PROVE  /\ st = StatementAt(JobMethod(s.q, c, s.reads), s.pc)
         /\ Owner(s.q, s.began) = s.q.t
  BY ProgramIs DEF SessionAt

LEMMA OperatorAt ==
  ASSUME NEW c, NEW s, Legal(s.q), s.q.op \in OperatorPlane, s.pc \in Nat \ {0},
         IsFiniteSet(DOMAIN db), IsFiniteSet(DOMAIN s.reads), NEW st, st = SessionAt(c, s),
         NEW live, live <=> Live(s.began, OperatorToken(s.q.token))
  PROVE  /\ s.pc = 1 => st = Select({OperatorToken(s.q.token)})
         /\ s.pc = 2 /\ ~live => st = Select({Token(s.q.token)})
         /\ s.pc = 3 /\ ~live => st = Refuse("401") \/ st = Refuse("403")
         /\ live /\ s.q.op # "tenantSnapshot" /\ s.pc = 2 =>
               Audits(s.q, st)
         /\ live /\ s.q.op = "tenantSnapshot" /\ s.pc = 2 => st = Select({Settings(s.q.id)})
         /\ live /\ s.q.op = "tenantSnapshot" /\ s.pc = 3 =>
               Audits(s.q, st) \/ st = Refuse("404")
<1> DEFINE m == OperatorMethod(s.q, c, s.reads)
<1>1. Good(s.q.op, s.q.t, m)
  <2>1. CASE s.q.op = "listTenants"
    BY <2>1, GoodOperators DEF OperatorMethod
  <2>2. CASE s.q.op = "tenantSnapshot"
    BY <2>2, GoodOperators DEF OperatorMethod
  <2>3. CASE s.q.op = "rollups"
    BY <2>3, GoodOperators DEF OperatorMethod
  <2> QED BY <2>1, <2>2, <2>3 DEF OperatorPlane
<1> HIDE DEF m
<1>2. PICK S : m \in Seq(S)
  BY <1>1 DEF Good
<1>3. st = StatementAt(OperatorHook(s.q, s.reads, s.began, m), s.pc)
  BY ProgramIs DEF SessionAt, m
<1>4. /\ s.pc = 1 => st = Select({OperatorToken(s.q.token)})
      /\ s.pc = 2 /\ ~live => st = Select({Token(s.q.token)})
      /\ s.pc = 3 /\ ~live => st = Refuse("401") \/ st = Refuse("403")
      /\ s.pc > 1 /\ live => st = StatementAt(m, s.pc - 1)
  BY ZenonT(60), <1>2, <1>3, AtOperatorHook
<1>5. ASSUME live, s.pc > 1
      PROVE  /\ s.q.op # "tenantSnapshot" /\ s.pc = 2 =>
                   Audits(s.q, st)
             /\ s.q.op = "tenantSnapshot" /\ s.pc = 2 => st = Select({Settings(s.q.id)})
             /\ s.q.op = "tenantSnapshot" /\ s.pc = 3 =>
                   Audits(s.q, st) \/ st = Refuse("404")
  <2>1. s.pc - 1 \in Nat \ {0} /\ st = StatementAt(m, s.pc - 1)
    BY <1>4, <1>5
  <2> DEFINE j == s.pc - 1
  <2>2. (j = 1 <=> s.pc = 2) /\ (j = 2 <=> s.pc = 3)
    BY <2>1
  <2> HIDE DEF j
  <2>3. j \in Nat \ {0} /\ st = StatementAt(OperatorMethod(s.q, c, s.reads), j)
    BY <2>1 DEF j, m
  <2>4. /\ s.q.op # "tenantSnapshot" /\ j = 1 => Audits(s.q, st)
        /\ s.q.op = "tenantSnapshot" /\ j = 1 => st = Select({Settings(s.q.id)})
        /\ s.q.op = "tenantSnapshot" /\ j = 2 =>
              Audits(s.q, st) \/ st = Refuse("404")
    BY <2>3, AtOperatorMethod
  <2> QED BY <2>2, <2>4
<1> QED BY <1>4, <1>5

\* The same of a session, for the tenant it is of.
LEMMA PutSeamMapAt ==
  ASSUME NEW c, NEW s, Legal(s.q), s.q.op = "putSeamMap", s.pc \in Nat \ {0}, s.pc > 1,
         Passed(s.q, s.began), IsFiniteSet(DOMAIN db),
         NEW st, st = SessionAt(c, s), NEW t, t = Owner(s.q, s.began)
  PROVE  LET row == Context(t, s.q.id)
             found == At(s.reads, Key(t)) # None
             upsert == Upsert(row, EncryptPayload(Dek(c, t, s.reads), s.q.v))
             record == Audit(t, "seam_map", s.q.id, s.q.v) IN
         /\ ~kek /\ s.pc = 2 => st = upsert
         /\ ~kek /\ s.pc = 3 => st = record
         /\ ~kek /\ s.pc > 3 => st = Refuse("200")
         /\ kek /\ s.pc = 2 => st = Select({Key(t)})
         /\ kek /\ found /\ s.pc = 3 => st = upsert
         /\ kek /\ found /\ s.pc = 4 => st = record
         /\ kek /\ found /\ s.pc > 4 => st = Refuse("200")
         /\ kek /\ ~found /\ s.pc = 3 =>
               st = Insert(Key(t), [wrapped |-> GenerateDek(c), shredded |-> FALSE])
         /\ kek /\ ~found /\ s.pc = 4 => st = upsert
         /\ kek /\ ~found /\ s.pc = 5 => st = record
         /\ kek /\ s.pc > 5 => st = Refuse("200")
<1> DEFINE q == OfTenant(s.q, s.began)
           j == s.pc - 1
<1>1. q.op = s.q.op /\ q.t = t /\ q.id = s.q.id /\ q.v = s.q.v
  BY OfTenantFields
<1>2. j \in Nat \ {0} /\ s.pc = j + 1
  OBVIOUS
<1>3. st = StatementAt(TenantMethod(q, c, s.reads), j)
  BY RouteAt DEF Routes
<1> HIDE DEF q, j
<1>4. st = StatementAt(PutSeamMap(q, c, s.reads), j)
  BY <1>1, <1>3 DEF TenantMethod
<1>5. LET row == Context(q.t, q.id)
          found == At(s.reads, Key(q.t)) # None
          upsert == Upsert(row, EncryptPayload(Dek(c, q.t, s.reads), q.v))
          record == Audit(q.t, "seam_map", q.id, q.v) IN
      /\ ~kek /\ j = 1 => st = upsert
      /\ ~kek /\ j = 2 => st = record
      /\ ~kek /\ j > 2 => st = Refuse("200")
      /\ kek /\ j = 1 => st = Select({Key(q.t)})
      /\ kek /\ found /\ j = 2 => st = upsert
      /\ kek /\ found /\ j = 3 => st = record
      /\ kek /\ found /\ j > 3 => st = Refuse("200")
      /\ kek /\ ~found /\ j = 2 =>
            st = Insert(Key(q.t), [wrapped |-> GenerateDek(c), shredded |-> FALSE])
      /\ kek /\ ~found /\ j = 3 => st = upsert
      /\ kek /\ ~found /\ j = 4 => st = record
      /\ kek /\ j > 4 => st = Refuse("200")
  BY <1>2, <1>4, AtPutSeamMap, ZenonT(60)
<1> QED BY <1>1, <1>2, <1>5

LEMMA GetSeamMapAt ==
  ASSUME NEW c, NEW s, Legal(s.q), s.q.op = "getSeamMap", s.pc \in Nat \ {0}, s.pc > 1,
         Passed(s.q, s.began), IsFiniteSet(DOMAIN db),
         NEW st, st = SessionAt(c, s), NEW t, t = Owner(s.q, s.began)
  PROVE  LET row == Context(t, s.q.id)
             found == At(s.reads, Key(t)) # None
             sealed == s.reads[row].key
             dek == s.reads[Key(t)].wrapped
             record == Audit(t, "seam_map", s.q.id, "read") IN
         /\ s.pc = 2 => st = Select({row})
         /\ s.pc = 3 /\ At(s.reads, row) = None => st = Refuse("404")
         /\ s.pc = 3 /\ At(s.reads, row) # None /\ sealed = 0 => st = record
         /\ s.pc = 4 /\ At(s.reads, row) # None /\ sealed = 0 => st = Reply(At(s.reads, row))
         /\ s.pc = 3 /\ At(s.reads, row) # None /\ sealed # 0 /\ kek => st = Select({Key(t)})
         /\ s.pc = 3 /\ At(s.reads, row) # None /\ sealed # 0 /\ ~kek => st = Refuse("404")
         /\ s.pc = 4 /\ At(s.reads, row) # None /\ sealed # 0 /\ kek /\ found =>
               /\ dek = 0 => st = Refuse("404")
               /\ dek # 0 /\ dek # sealed => st = Refuse("500")
               /\ dek # 0 /\ dek = sealed => st = record
         /\ s.pc = 5 /\ At(s.reads, row) # None /\ sealed # 0 /\ kek /\ found /\ dek # 0 /\ dek = sealed =>
               st = Reply(At(s.reads, row))
<1> DEFINE q == OfTenant(s.q, s.began)
           j == s.pc - 1
<1>1. q.op = s.q.op /\ q.t = t /\ q.id = s.q.id /\ q.v = s.q.v
  BY OfTenantFields
<1>2. j \in Nat \ {0} /\ s.pc = j + 1
  OBVIOUS
<1>3. st = StatementAt(TenantMethod(q, c, s.reads), j)
  BY RouteAt DEF Routes
<1> HIDE DEF q, j
<1>4. st = StatementAt(GetSeamMap(q, c, s.reads), j)
  BY <1>1, <1>3 DEF TenantMethod
<1>5. LET row == Context(q.t, q.id)
          found == At(s.reads, Key(q.t)) # None
          sealed == s.reads[row].key
          dek == s.reads[Key(q.t)].wrapped
          record == Audit(q.t, "seam_map", q.id, "read") IN
      /\ j = 1 => st = Select({row})
      /\ j = 2 /\ At(s.reads, row) = None => st = Refuse("404")
      /\ j = 2 /\ At(s.reads, row) # None /\ sealed = 0 => st = record
      /\ j = 3 /\ At(s.reads, row) # None /\ sealed = 0 => st = Reply(At(s.reads, row))
      /\ j = 2 /\ At(s.reads, row) # None /\ sealed # 0 /\ kek => st = Select({Key(q.t)})
      /\ j = 2 /\ At(s.reads, row) # None /\ sealed # 0 /\ ~kek => st = Refuse("404")
      /\ j = 3 /\ At(s.reads, row) # None /\ sealed # 0 /\ kek /\ found =>
            /\ dek = 0 => st = Refuse("404")
            /\ dek # 0 /\ dek # sealed => st = Refuse("500")
            /\ dek # 0 /\ dek = sealed => st = record
      /\ j = 4 /\ At(s.reads, row) # None /\ sealed # 0 /\ kek /\ found /\ dek # 0 /\ dek = sealed =>
            st = Reply(At(s.reads, row))
  BY <1>2, <1>4, AtGetSeamMap
<1> QED BY <1>1, <1>2, <1>5

LEMMA IssueTokenAt ==
  ASSUME NEW c, NEW s, Legal(s.q), s.q.op = "issueToken", s.pc \in Nat \ {0}, s.pc > 1,
         Passed(s.q, s.began), IsFiniteSet(DOMAIN db),
         NEW st, st = SessionAt(c, s), NEW t, t = Owner(s.q, s.began)
  PROVE  /\ s.pc = 2 => st = Insert(Token(RandomUUID(c)), [t |-> t, scope |-> s.q.v, revoked |-> FALSE])
         /\ s.pc = 3 => st = Audit(t, "token", ToString(RandomUUID(c)), "issued")
         /\ s.pc > 3 => st = Refuse("200")
<1> DEFINE q == OfTenant(s.q, s.began)
           j == s.pc - 1
<1>1. q.op = s.q.op /\ q.t = t /\ q.id = s.q.id /\ q.v = s.q.v
  BY OfTenantFields
<1>2. j \in Nat \ {0} /\ s.pc = j + 1
  OBVIOUS
<1>3. st = StatementAt(TenantMethod(q, c, s.reads), j)
  BY RouteAt DEF Routes
<1> HIDE DEF q, j
<1>4. st = StatementAt(IssueToken(q, c, s.reads), j)
  BY <1>1, <1>3 DEF TenantMethod
<1> QED BY <1>1, <1>2, <1>4, AtIssueToken

LEMMA RevokeTokenAt ==
  ASSUME NEW c, NEW s, Legal(s.q), s.q.op = "revokeToken", s.pc \in Nat \ {0}, s.pc > 1,
         Passed(s.q, s.began), IsFiniteSet(DOMAIN db),
         NEW st, st = SessionAt(c, s), NEW t, t = Owner(s.q, s.began)
  PROVE  LET found == Live(s.reads, Token(s.q.id)) /\ At(s.reads, Token(s.q.id)).t = t IN
         /\ s.pc = 2 => st = Select({Token(s.q.id)})
         /\ s.pc = 3 /\ ~found => st = Refuse("404")
         /\ s.pc > 3 /\ ~found => st = Refuse("200")
         /\ s.pc = 3 /\ found => st = Update(Token(s.q.id), [revoked |-> TRUE])
         /\ s.pc = 4 /\ found => st = Audit(t, "token", ToString(s.q.id), "revoked")
         /\ s.pc > 4 => st = Refuse("200")
<1> DEFINE q == OfTenant(s.q, s.began)
           j == s.pc - 1
<1>1. q.op = s.q.op /\ q.t = t /\ q.id = s.q.id /\ q.v = s.q.v
  BY OfTenantFields
<1>2. j \in Nat \ {0} /\ s.pc = j + 1
  OBVIOUS
<1>3. st = StatementAt(TenantMethod(q, c, s.reads), j)
  BY RouteAt DEF Routes
<1> HIDE DEF q, j
<1>4. st = StatementAt(RevokeToken(q, c, s.reads), j)
  BY <1>1, <1>3 DEF TenantMethod
<1>5. LET found == Live(s.reads, Token(q.id)) /\ At(s.reads, Token(q.id)).t = q.t IN
      /\ j = 1 => st = Select({Token(q.id)})
      /\ j = 2 /\ ~found => st = Refuse("404")
      /\ j > 2 /\ ~found => st = Refuse("200")
      /\ j = 2 /\ found => st = Update(Token(q.id), [revoked |-> TRUE])
      /\ j = 3 /\ found => st = Audit(q.t, "token", ToString(q.id), "revoked")
      /\ j > 3 => st = Refuse("200")
  BY Zenon, <1>2, <1>4, AtRevokeToken
<1> QED BY <1>1, <1>2, <1>5

LEMMA RecordMilestoneAt ==
  ASSUME NEW c, NEW s, Legal(s.q), s.q.op = "recordMilestone", s.pc \in Nat \ {0}, s.pc > 1,
         Passed(s.q, s.began), IsFiniteSet(DOMAIN db),
         NEW st, st = SessionAt(c, s), NEW t, t = Owner(s.q, s.began)
  PROVE  /\ s.pc = 2 => st = Upsert(Timeline(t), [m \in {s.q.id} |-> s.q.v])
         /\ s.pc > 2 => st = Refuse("200")
<1> DEFINE q == OfTenant(s.q, s.began)
           j == s.pc - 1
<1>1. q.op = s.q.op /\ q.t = t /\ q.id = s.q.id /\ q.v = s.q.v
  BY OfTenantFields
<1>2. j \in Nat \ {0} /\ s.pc = j + 1
  OBVIOUS
<1>3. st = StatementAt(TenantMethod(q, c, s.reads), j)
  BY RouteAt DEF Routes
<1> HIDE DEF q, j
<1>4. st = StatementAt(RecordMilestone(q, c, s.reads), j)
  BY <1>1, <1>3 DEF TenantMethod, ExperimentMethod
<1> QED BY <1>1, <1>2, <1>4, AtRecordMilestone

LEMMA CreateExperimentAt ==
  ASSUME NEW c, NEW s, Legal(s.q), s.q.op = "createExperiment", s.pc \in Nat \ {0}, s.pc > 1,
         Passed(s.q, s.began), IsFiniteSet(DOMAIN db),
         NEW st, st = SessionAt(c, s), NEW t, t = Owner(s.q, s.began)
  PROVE  /\ s.pc = 2 => st = Insert(<<"experiments", t, RandomUUID(c)>>, [status |-> "created"])
         /\ s.pc = 3 => st = Audit(t, "experiment", ToString(RandomUUID(c)), "created")
         /\ s.pc > 3 => st = Refuse("200")
<1> DEFINE q == OfTenant(s.q, s.began)
           j == s.pc - 1
<1>1. q.op = s.q.op /\ q.t = t /\ q.id = s.q.id /\ q.v = s.q.v
  BY OfTenantFields
<1>2. j \in Nat \ {0} /\ s.pc = j + 1
  OBVIOUS
<1>3. st = StatementAt(TenantMethod(q, c, s.reads), j)
  BY RouteAt DEF Routes
<1> HIDE DEF q, j
<1>4. st = StatementAt(CreateExperiment(q, c, s.reads), j)
  BY <1>1, <1>3 DEF TenantMethod, ExperimentMethod
<1> QED BY <1>1, <1>2, <1>4, AtCreateExperiment

LEMMA UpdateExperimentAt ==
  ASSUME NEW c, NEW s, Legal(s.q), s.q.op = "updateExperiment", s.pc \in Nat \ {0}, s.pc > 1,
         Passed(s.q, s.began), IsFiniteSet(DOMAIN db),
         NEW st, st = SessionAt(c, s), NEW t, t = Owner(s.q, s.began)
  PROVE  /\ s.pc = 2 => st = Select({<<"experiments", t, s.q.id>>})
         /\ s.pc = 3 /\ At(s.reads, <<"experiments", t, s.q.id>>) = None => st = Refuse("404")
         /\ s.pc > 3 /\ At(s.reads, <<"experiments", t, s.q.id>>) = None => st = Refuse("200")
         /\ s.pc = 3 /\ At(s.reads, <<"experiments", t, s.q.id>>) # None => st = Update(<<"experiments", t, s.q.id>>, [status |-> s.q.v])
         /\ s.pc = 4 /\ At(s.reads, <<"experiments", t, s.q.id>>) # None => st = Audit(t, "experiment", ToString(s.q.id), s.q.v)
         /\ s.pc > 4 => st = Refuse("200")
<1> DEFINE q == OfTenant(s.q, s.began)
           j == s.pc - 1
<1>1. q.op = s.q.op /\ q.t = t /\ q.id = s.q.id /\ q.v = s.q.v
  BY OfTenantFields
<1>2. j \in Nat \ {0} /\ s.pc = j + 1
  OBVIOUS
<1>3. st = StatementAt(TenantMethod(q, c, s.reads), j)
  BY RouteAt DEF Routes
<1> HIDE DEF q, j
<1>4. st = StatementAt(UpdateExperiment(q, c, s.reads), j)
  BY <1>1, <1>3 DEF TenantMethod, ExperimentMethod
<1>5. /\ j = 1 => st = Select({<<"experiments", q.t, q.id>>})
      /\ j = 2 /\ At(s.reads, <<"experiments", q.t, q.id>>) = None => st = Refuse("404")
      /\ j > 2 /\ At(s.reads, <<"experiments", q.t, q.id>>) = None => st = Refuse("200")
      /\ j = 2 /\ At(s.reads, <<"experiments", q.t, q.id>>) # None => st = Update(<<"experiments", q.t, q.id>>, [status |-> q.v])
      /\ j = 3 /\ At(s.reads, <<"experiments", q.t, q.id>>) # None => st = Audit(q.t, "experiment", ToString(q.id), q.v)
      /\ j > 3 => st = Refuse("200")
  BY <1>2, <1>4, AtUpdateExperiment
<1> QED BY <1>1, <1>2, <1>5

LEMMA WriteVerdictAt ==
  ASSUME NEW c, NEW s, Legal(s.q), s.q.op = "writeVerdict", s.pc \in Nat \ {0}, s.pc > 1,
         Passed(s.q, s.began), IsFiniteSet(DOMAIN db),
         NEW st, st = SessionAt(c, s), NEW t, t = Owner(s.q, s.began)
  PROVE  /\ s.pc = 2 => st = Select({<<"experiments", t, s.q.id>>})
         /\ s.pc = 3 /\ At(s.reads, <<"experiments", t, s.q.id>>) = None => st = Refuse("404")
         /\ s.pc > 3 /\ At(s.reads, <<"experiments", t, s.q.id>>) = None => st = Refuse("200")
         /\ s.pc = 3 /\ At(s.reads, <<"experiments", t, s.q.id>>) # None => st = Upsert(Verdict(t, s.q.id), [decision |-> s.q.v])
         /\ s.pc = 4 /\ At(s.reads, <<"experiments", t, s.q.id>>) # None => st = Update(<<"experiments", t, s.q.id>>, [status |-> "concluded"])
         /\ s.pc = 5 /\ At(s.reads, <<"experiments", t, s.q.id>>) # None => st = Audit(t, "experiment", ToString(s.q.id), "concluded")
         /\ s.pc > 5 => st = Refuse("200")
<1> DEFINE q == OfTenant(s.q, s.began)
           j == s.pc - 1
<1>1. q.op = s.q.op /\ q.t = t /\ q.id = s.q.id /\ q.v = s.q.v
  BY OfTenantFields
<1>2. j \in Nat \ {0} /\ s.pc = j + 1
  OBVIOUS
<1>3. st = StatementAt(TenantMethod(q, c, s.reads), j)
  BY RouteAt DEF Routes
<1> HIDE DEF q, j
<1>4. st = StatementAt(WriteVerdict(q, c, s.reads), j)
  BY <1>1, <1>3 DEF TenantMethod, ExperimentMethod
<1> QED BY <1>1, <1>2, <1>4, AtWriteVerdict

LEMMA GetExperimentAt ==
  ASSUME NEW c, NEW s, Legal(s.q), s.q.op = "getExperiment", s.pc \in Nat \ {0}, s.pc > 1,
         Passed(s.q, s.began), IsFiniteSet(DOMAIN db),
         NEW st, st = SessionAt(c, s), NEW t, t = Owner(s.q, s.began)
  PROVE  /\ s.pc = 2 => st = Select({<<"experiments", t, s.q.id>>})
         /\ s.pc = 3 /\ At(s.reads, <<"experiments", t, s.q.id>>) = None => st = Refuse("404")
         /\ s.pc = 3 /\ At(s.reads, <<"experiments", t, s.q.id>>) # None => st = Select({Verdict(t, s.q.id)})
         /\ s.pc = 4 /\ At(s.reads, <<"experiments", t, s.q.id>>) # None => st = Reply([status |-> s.reads[<<"experiments", t, s.q.id>>].status, verdict |-> Column(s.reads, Verdict(t, s.q.id), "decision", Null)])
         /\ s.pc > 4 => st = Refuse("200")
<1> DEFINE q == OfTenant(s.q, s.began)
           j == s.pc - 1
<1>1. q.op = s.q.op /\ q.t = t /\ q.id = s.q.id /\ q.v = s.q.v
  BY OfTenantFields
<1>2. j \in Nat \ {0} /\ s.pc = j + 1
  OBVIOUS
<1>3. st = StatementAt(TenantMethod(q, c, s.reads), j)
  BY RouteAt DEF Routes
<1> HIDE DEF q, j
<1>4. st = StatementAt(GetExperiment(q, c, s.reads), j)
  BY <1>1, <1>3 DEF TenantMethod, ExperimentMethod
<1>5. /\ j = 1 => st = Select({<<"experiments", q.t, q.id>>})
      /\ j = 2 /\ At(s.reads, <<"experiments", q.t, q.id>>) = None => st = Refuse("404")
      /\ j = 2 /\ At(s.reads, <<"experiments", q.t, q.id>>) # None => st = Select({Verdict(q.t, q.id)})
      /\ j = 3 /\ At(s.reads, <<"experiments", q.t, q.id>>) # None => st = Reply([status |-> s.reads[<<"experiments", q.t, q.id>>].status, verdict |-> Column(s.reads, Verdict(q.t, q.id), "decision", Null)])
      /\ j > 3 => st = Refuse("200")
  BY <1>2, <1>4, AtGetExperiment
<1> QED BY <1>1, <1>2, <1>5

LEMMA CreateDatasetAt ==
  ASSUME NEW c, NEW s, Legal(s.q), s.q.op = "createDataset", s.pc \in Nat \ {0}, s.pc > 1,
         Passed(s.q, s.began), IsFiniteSet(DOMAIN db),
         NEW st, st = SessionAt(c, s), NEW t, t = Owner(s.q, s.began)
  PROVE  /\ s.pc = 2 => st = Insert(Dataset(t, RandomUUID(c)), [version |-> 1])
         /\ s.pc > 2 => st = Refuse("200")
<1> DEFINE q == OfTenant(s.q, s.began)
           j == s.pc - 1
<1>1. q.op = s.q.op /\ q.t = t /\ q.id = s.q.id /\ q.v = s.q.v
  BY OfTenantFields
<1>2. j \in Nat \ {0} /\ s.pc = j + 1
  OBVIOUS
<1>3. st = StatementAt(TenantMethod(q, c, s.reads), j)
  BY RouteAt DEF Routes
<1> HIDE DEF q, j
<1>4. st = StatementAt(CreateDataset(q, c, s.reads), j)
  BY <1>1, <1>3 DEF TenantMethod, ExperimentMethod
<1> QED BY <1>1, <1>2, <1>4, AtCreateDataset

LEMMA AddCaseAt ==
  ASSUME NEW c, NEW s, Legal(s.q), s.q.op = "addCase", s.pc \in Nat \ {0}, s.pc > 1,
         Passed(s.q, s.began), IsFiniteSet(DOMAIN db),
         NEW st, st = SessionAt(c, s), NEW t, t = Owner(s.q, s.began)
  PROVE  /\ s.pc = 2 => st = Select({Dataset(t, s.q.id)})
         /\ s.pc = 3 /\ At(s.reads, Dataset(t, s.q.id)) = None => st = Refuse("404")
         /\ s.pc > 3 /\ At(s.reads, Dataset(t, s.q.id)) = None => st = Refuse("200")
         /\ s.pc = 3 /\ At(s.reads, Dataset(t, s.q.id)) # None => st = AddRow("eval_dataset_cases", t, [dataset |-> s.q.id])
         /\ s.pc = 4 /\ At(s.reads, Dataset(t, s.q.id)) # None => st = Update(Dataset(t, s.q.id), [version |-> s.reads[Dataset(t, s.q.id)].version + 1])
         /\ s.pc > 4 => st = Refuse("200")
<1> DEFINE q == OfTenant(s.q, s.began)
           j == s.pc - 1
<1>1. q.op = s.q.op /\ q.t = t /\ q.id = s.q.id /\ q.v = s.q.v
  BY OfTenantFields
<1>2. j \in Nat \ {0} /\ s.pc = j + 1
  OBVIOUS
<1>3. st = StatementAt(TenantMethod(q, c, s.reads), j)
  BY RouteAt DEF Routes
<1> HIDE DEF q, j
<1>4. st = StatementAt(AddCase(q, c, s.reads), j)
  BY <1>1, <1>3 DEF TenantMethod, ExperimentMethod
<1> DEFINE row == Dataset(q.t, q.id)
           add == AddRow("eval_dataset_cases", q.t, [dataset |-> q.id])
           update == Update(row, [version |-> s.reads[row].version + 1])
<1>5. /\ j = 1 => st = Select({row})
      /\ j = 2 /\ At(s.reads, row) = None => st = Refuse("404")
      /\ j > 2 /\ At(s.reads, row) = None => st = Refuse("200")
      /\ j = 2 /\ At(s.reads, row) # None => st = add
      /\ j = 3 /\ At(s.reads, row) # None => st = update
      /\ j > 3 => st = Refuse("200")
  BY <1>2, <1>4, AtAddCase
<1>6. /\ row = Dataset(t, s.q.id)
      /\ add = AddRow("eval_dataset_cases", t, [dataset |-> s.q.id])
      /\ update = Update(Dataset(t, s.q.id), [version |-> s.reads[Dataset(t, s.q.id)].version + 1])
  BY <1>1
<1> HIDE DEF row, add, update
<1> QED BY <1>2, <1>5, <1>6

LEMMA BenchmarkResultAt ==
  ASSUME NEW c, NEW s, Legal(s.q), s.q.op = "benchmarkResult", s.pc \in Nat \ {0}, s.pc > 1,
         Passed(s.q, s.began), IsFiniteSet(DOMAIN db),
         NEW st, st = SessionAt(c, s), NEW t, t = Owner(s.q, s.began)
  PROVE  LET growth == Column(s.reads, Account(t), "tier", "free") = "growth" IN
         /\ s.pc = 2 => st = Select({Account(t)})
         /\ s.pc = 3 /\ ~growth => st = Refuse("403")
         /\ s.pc = 3 /\ growth => st = Select({Optin(t)})
         /\ s.pc = 4 /\ growth /\ t \in OptedIn(s.reads) =>
               st = Select({o \in DOMAIN db : o[1] = "benchmark_optin"})
         /\ s.pc = 4 /\ growth /\ t \notin OptedIn(s.reads) => st = Refuse("403")
         /\ s.pc = 5 /\ growth => st = Reply([cohort |-> OptedIn(s.reads)])
         /\ s.pc > 5 => st = Refuse("200")
<1> DEFINE q == OfTenant(s.q, s.began)
           j == s.pc - 1
<1>1. q.op = s.q.op /\ q.t = t /\ q.id = s.q.id /\ q.v = s.q.v
  BY OfTenantFields
<1>2. j \in Nat \ {0} /\ s.pc = j + 1
  OBVIOUS
<1>3. st = StatementAt(TenantMethod(q, c, s.reads), j)
  BY RouteAt DEF Routes
<1> HIDE DEF q, j
<1>4. st = StatementAt(BenchmarkResult(q, c, s.reads), j)
  BY <1>1, <1>3 DEF TenantMethod, ExperimentMethod
<1>5. LET growth == Column(s.reads, Account(q.t), "tier", "free") = "growth" IN
      /\ j = 1 => st = Select({Account(q.t)})
      /\ j = 2 /\ ~growth => st = Refuse("403")
      /\ j = 2 /\ growth => st = Select({Optin(q.t)})
      /\ j = 3 /\ growth /\ q.t \in OptedIn(s.reads) =>
            st = Select({o \in DOMAIN db : o[1] = "benchmark_optin"})
      /\ j = 3 /\ growth /\ q.t \notin OptedIn(s.reads) => st = Refuse("403")
      /\ j = 4 /\ growth => st = Reply([cohort |-> OptedIn(s.reads)])
      /\ j > 4 => st = Refuse("200")
  BY ZenonT(60), <1>2, <1>4, AtBenchmarkResult
<1> QED BY <1>1, <1>2, <1>5

LEMMA SetBenchmarkOptinAt ==
  ASSUME NEW c, NEW s, Legal(s.q), s.q.op = "setBenchmarkOptin", s.pc \in Nat \ {0}, s.pc > 1,
         Passed(s.q, s.began), IsFiniteSet(DOMAIN db),
         NEW st, st = SessionAt(c, s), NEW t, t = Owner(s.q, s.began)
  PROVE  /\ s.pc = 2 => st = Upsert(Optin(t), [opted_in |-> s.q.v])
         /\ s.pc = 3 => st = Audit(t, "benchmark", "optin", s.q.v)
         /\ s.pc > 3 => st = Refuse("200")
<1> DEFINE q == OfTenant(s.q, s.began)
           j == s.pc - 1
<1>1. q.op = s.q.op /\ q.t = t /\ q.id = s.q.id /\ q.v = s.q.v
  BY OfTenantFields
<1>2. j \in Nat \ {0} /\ s.pc = j + 1
  OBVIOUS
<1>3. st = StatementAt(TenantMethod(q, c, s.reads), j)
  BY RouteAt DEF Routes
<1> HIDE DEF q, j
<1>4. st = StatementAt(SetBenchmarkOptin(q, c, s.reads), j)
  BY <1>1, <1>3 DEF TenantMethod, ExperimentMethod
<1> QED BY <1>1, <1>2, <1>4, AtSetBenchmarkOptin

LEMMA CryptoShredTenantAt ==
  ASSUME NEW c, NEW s, Legal(s.q), s.q.op = "cryptoShredTenant", s.pc \in Nat \ {0},
         NEW st, st = SessionAt(c, s), NEW t, t = Owner(s.q, s.began)
  PROVE  /\ s.pc = 1 => st = Upsert(Key(t), [wrapped |-> 0, shredded |-> TRUE])
         /\ s.pc = 2 => st = Audit(t, "retention", "crypto_shred", "shredded")
         /\ s.pc > 2 => st = Refuse("200")
<1>1. st = StatementAt(CryptoShredTenant(s.q, c, s.reads), s.pc) /\ t = s.q.t
  BY JobAt DEF JobMethod, Unrouted
<1> QED BY <1>1, AtCryptoShred

LEMMA CreateTenantAt ==
  ASSUME NEW c, NEW s, Legal(s.q), s.q.op = "createTenant", s.pc \in Nat \ {0},
         NEW st, st = SessionAt(c, s), NEW t, t = Owner(s.q, s.began)
  PROVE  /\ s.pc = 1 => st = Insert(Settings(NewTenant(c)), [retention |-> "365", redaction |-> "on",
                                                         residency |-> "us"])
         /\ s.pc = 2 => st = Insert(Token(RandomUUID(c)), [t |-> NewTenant(c), scope |-> "api:full",
                                                       revoked |-> FALSE])
         /\ s.pc = 3 => st = Audit(NewTenant(c), "seed", "taxonomy", "active")
         /\ s.pc > 3 => st = Refuse("200")
<1>1. st = StatementAt(CreateTenant(s.q, c, s.reads), s.pc) /\ t = s.q.t
  BY JobAt DEF JobMethod, Unrouted
<1> QED BY <1>1, AtCreateTenant

LEMMA SetResidencyAt ==
  ASSUME NEW c, NEW s, Legal(s.q), s.q.op = "setResidency", s.pc \in Nat \ {0},
         NEW st, st = SessionAt(c, s), NEW t, t = Owner(s.q, s.began)
  PROVE  /\ s.pc = 1 => st = Update(Settings(t), [residency |-> s.q.v])
         /\ s.pc = 2 => st = Audit(t, "retention", "residency", s.q.v)
         /\ s.pc > 2 => st = Refuse("200")
<1>1. st = StatementAt(SetResidency(s.q, c, s.reads), s.pc) /\ t = s.q.t
  BY JobAt DEF JobMethod, Unrouted
<1> QED BY <1>1, AtSetResidency

LEMMA SetRedactionOptoutAt ==
  ASSUME NEW c, NEW s, Legal(s.q), s.q.op = "setRedactionOptout", s.pc \in Nat \ {0},
         NEW st, st = SessionAt(c, s), NEW t, t = Owner(s.q, s.began)
  PROVE  /\ s.pc = 1 => st = Update(Settings(t), [redaction |-> s.q.v])
         /\ s.pc = 2 => st = Audit(t, "retention", "redaction", s.q.v)
         /\ s.pc > 2 => st = Refuse("200")
<1>1. st = StatementAt(SetRedactionOptout(s.q, c, s.reads), s.pc) /\ t = s.q.t
  BY JobAt DEF JobMethod, Unrouted
<1> QED BY <1>1, AtSetRedactionOptout

LEMMA SetRetentionDaysAt ==
  ASSUME NEW c, NEW s, Legal(s.q), s.q.op = "setRetentionDays", s.pc \in Nat \ {0},
         NEW st, st = SessionAt(c, s), NEW t, t = Owner(s.q, s.began)
  PROVE  /\ s.pc = 1 => st = Select({Settings(t)})
         /\ s.pc = 2 => st = Update(Settings(t), [retention |-> s.q.v])
         /\ s.pc = 3 => st = Audit(t, "retention", "retention", s.q.v)
         /\ s.pc > 3 => st = Refuse("200")
<1>1. st = StatementAt(SetRetentionDays(s.q, c, s.reads), s.pc) /\ t = s.q.t
  BY JobAt DEF JobMethod, Unrouted
<1>2. /\ s.pc = 1 => st = Select({Settings(s.q.t)})
      /\ s.pc = 2 => st = Update(Settings(s.q.t), [retention |-> s.q.v])
      /\ s.pc = 3 => st = Audit(s.q.t, "retention", "retention", s.q.v)
      /\ s.pc > 3 => st = Refuse("200")
  BY Zenon, <1>1, AtSetRetentionDays
<1> QED BY <1>1, <1>2

LEMMA SetRolloutPolicyAt ==
  ASSUME NEW c, NEW s, Legal(s.q), s.q.op = "setRolloutPolicy", s.pc \in Nat \ {0},
         NEW st, st = SessionAt(c, s), NEW t, t = Owner(s.q, s.began)
  PROVE  /\ s.pc = 1 => st = Upsert(Policy(t), [policy |-> s.q.v])
         /\ s.pc = 2 => st = Audit(t, "autonomy", "policy", s.q.v)
         /\ s.pc > 2 => st = Refuse("200")
<1>1. st = StatementAt(SetRolloutPolicy(s.q, c, s.reads), s.pc) /\ t = s.q.t
  BY JobAt DEF JobMethod, Unrouted
<1> QED BY <1>1, AtSetRolloutPolicy
-----------------------------------------------------------------------------
(* A step of a session keeps what holds of it.                              *)
Running(n, called, c, s) ==
    /\ n \in Nat \ {0}
    /\ RowsInv(db, n, called)
    /\ BeganSession(db, s)
    /\ SessionInv(db, n, kek, called, c, s)
    /\ s.q.op = "updateExperiment" /\ s.pc > 1 /\ s.q.v = "concluded" =>
          <<"experiments", Owner(s.q, s.began), s.q.id>> \in called

LEMMA RunningFacts ==
  ASSUME NEW n, NEW called, NEW c, NEW s, Running(n, called, c, s)
  PROVE  /\ n \in Nat \ {0} /\ TypedRows(db, n) /\ IsFiniteSet(DOMAIN db)
         /\ Legal(s.q) /\ s.pc \in Nat \ {0} /\ Settings(s.q.t) \in DOMAIN db
         /\ IsFiniteSet(DOMAIN s.reads) /\ IsFiniteSet(DOMAIN s.writes)
         /\ TypedWrites(db, n, s.q.op, s.writes)
         /\ s.pc = 1 => s.reads = NoRows /\ s.writes = NoRows
         /\ s.q.op \notin Unrouted /\ s.pc = 2 => s.writes = NoRows
  BY DEF Running, RowsInv, TypedRows, SessionInv, LegalSession, TypedSession, Legal

LEMMA StatementAllowed ==
  ASSUME NEW n, NEW called, NEW c, NEW s, Running(n, called, c, s)
  PROVE  Allowed(s.q.op, Owner(s.q, s.began), SessionAt(c, s))
  BY RunningFacts, GoodProgram, GoodAt DEF SessionAt

LEMMA OverIs ==
  ASSUME NEW g, NEW f
  PROVE  /\ DOMAIN Over(g, f) = DOMAIN g \cup DOMAIN f
         /\ \A x \in DOMAIN g : Over(g, f)[x] = g[x]
         /\ \A x \in DOMAIN f : x \notin DOMAIN g => Over(g, f)[x] = f[x]
  BY DEF Over

LEMMA SeesIs ==
  ASSUME NEW n, NEW s, NEW op, TypedWrites(db, n, op, s.writes), TypedRows(db, n), NEW row
  PROVE  /\ Sees(s, row) = None <=> row \notin DOMAIN s.writes /\ row \notin DOMAIN db
         /\ row \in DOMAIN s.writes => Sees(s, row) = s.writes[row]
         /\ row \notin DOMAIN s.writes /\ row \in DOMAIN db => Sees(s, row) = db[row]
         /\ Sees(s, row) # None => "absent" \notin DOMAIN Sees(s, row)
<1>1. "absent" \in DOMAIN None
  BY DEF None
<1>2. /\ row \in DOMAIN s.writes => "absent" \notin DOMAIN s.writes[row]
      /\ row \in DOMAIN db => "absent" \notin DOMAIN db[row]
  BY DEF TypedWrites, TypedRows
<1> QED BY <1>1, <1>2 DEF Sees, At

\* The row and the columns of a write.
LEMMA WroteIs ==
  ASSUME NEW n, NEW s, NEW op, NEW t, NEW st, NEW row, NEW columns,
         TypedWrites(db, n, op, s.writes), TypedRows(db, n),
         Wrote(n, s, st, row, columns), Allowed(op, t, st)
  PROVE  /\ "absent" \notin DOMAIN columns
         /\ \A x \in DOMAIN st.set : x \in DOMAIN columns /\ columns[x] = st.set[x]
         /\ st.do = "append" => row = <<st.table, st.t, n>> /\ columns = st.set
         /\ st.do # "append" =>
               /\ row = st.row /\ st.do \in {"insert", "upsert", "update"}
               /\ row \in DOMAIN s.writes =>
                     \A x \in DOMAIN s.writes[row] :
                        /\ x \in DOMAIN columns
                        /\ x \notin DOMAIN st.set => columns[x] = s.writes[row][x]
               /\ row \notin DOMAIN s.writes /\ row \in DOMAIN db =>
                     \A x \in DOMAIN db[row] :
                        /\ x \in DOMAIN columns
                        /\ x \notin DOMAIN st.set => columns[x] = db[row][x]
               /\ row \notin DOMAIN s.writes /\ row \notin DOMAIN db => columns = st.set
               /\ st.do = "insert" => row \notin DOMAIN s.writes /\ row \notin DOMAIN db
<1>1. "absent" \notin DOMAIN st.set
  BY DEF Allowed, Wrote
<1>2. CASE st.do = "append"
  BY <1>1, <1>2 DEF Wrote
<1>3. CASE st.do # "append" /\ Sees(s, row) = None
  <2>1. row = st.row /\ columns = st.set /\ st.do \in {"insert", "upsert"}
    BY <1>3 DEF Wrote
  <2>2. row \notin DOMAIN s.writes /\ row \notin DOMAIN db
    BY <1>3, SeesIs
  <2> QED BY <1>1, <1>3, <2>1, <2>2
<1>4. CASE st.do # "append" /\ Sees(s, row) # None
  <2> DEFINE old == Sees(s, row)
  <2>1. row = st.row /\ columns = Over(st.set, old) /\ st.do \in {"upsert", "update"}
    BY <1>4 DEF Wrote
  <2>2. /\ "absent" \notin DOMAIN old
        /\ row \in DOMAIN s.writes => old = s.writes[row]
        /\ row \notin DOMAIN s.writes /\ row \in DOMAIN db => old = db[row]
        /\ ~(row \notin DOMAIN s.writes /\ row \notin DOMAIN db)
    BY <1>4, SeesIs
  <2> HIDE DEF old
  <2>3. /\ DOMAIN columns = DOMAIN st.set \cup DOMAIN old
        /\ \A x \in DOMAIN st.set : columns[x] = st.set[x]
        /\ \A x \in DOMAIN old : x \notin DOMAIN st.set => columns[x] = old[x]
    BY <2>1 DEF Over
  <2> QED BY <1>1, <1>4, <2>1, <2>2, <2>3
<1> QED BY <1>2, <1>3, <1>4

\* The first statement of a route reads its token; so does what an operator's hook refuses.
LEMMA FirstSelects ==
  ASSUME NEW n, NEW called, NEW c, NEW s, Running(n, called, c, s), s.q.op \notin Unrouted
  PROVE  /\ s.pc = 1 => SessionAt(c, s).do = "select"
         /\ s.q.op \in Routes /\ s.pc = 2 /\ ~Passed(s.q, s.began) =>
               SessionAt(c, s).do = "return"
         /\ s.q.op \in OperatorPlane /\ s.pc = 3 /\ ~Live(s.began, OperatorToken(s.q.token)) =>
               SessionAt(c, s).do = "return"
<1>1. s.q.op \in Routes \/ s.q.op \in OperatorPlane
  BY RunningFacts DEF Legal
<1>2. s.q.op \in Routes => s.q.op \notin OperatorPlane
  BY DEF Routes, OperatorPlane
<1>3. \A rows, status : Select(rows).do = "select" /\ Refuse(status).do = "return"
  BY DEF Select, Refuse
<1>4. CASE s.q.op \in Routes
  <2>1. /\ s.pc = 1 => SessionAt(c, s) = Select({Token(s.q.token)})
        /\ s.pc = 2 /\ ~Passed(s.q, s.began) =>
              SessionAt(c, s) = Refuse("401") \/ SessionAt(c, s) = Refuse("403")
    BY <1>4, RunningFacts, RouteAt
  <2> QED BY <1>2, <1>3, <1>4, <2>1
<1>5. CASE s.q.op \in OperatorPlane
  <2> DEFINE live == Live(s.began, OperatorToken(s.q.token))
  <2>1. /\ s.pc = 1 => SessionAt(c, s) = Select({OperatorToken(s.q.token)})
        /\ s.pc = 3 /\ ~live =>
              SessionAt(c, s) = Refuse("401") \/ SessionAt(c, s) = Refuse("403")
    BY <1>5, RunningFacts, OperatorAt
  <2> QED BY <1>2, <1>3, <1>5, <2>1
<1> QED BY <1>1, <1>4, <1>5

LEMMA LegalStep ==
  ASSUME NEW n, NEW called, NEW c, NEW s, NEW s2, Running(n, called, c, s), Follows(s, s2)
  PROVE  LegalSession(db, s2)
  BY RunningFacts DEF LegalSession, Follows

LEMMA AdmittedStep ==
  ASSUME NEW n, NEW called, NEW c, NEW s, NEW s2, Running(n, called, c, s), Follows(s, s2),
         SessionAt(c, s).do # "return"
  PROVE  AdmittedSession(s2)
<1>1. AdmittedSession(s) /\ s.pc \in Nat \ {0}
  BY RunningFacts DEF Running, SessionInv
<1>2. s2.q = s.q /\ s2.pc = s.pc + 1 /\ (s.pc > 1 => s2.began = s.began)
  BY <1>1 DEF Follows
<1>3. (s.q.op \in Routes => s.q.op \notin Unrouted)
      /\ (s.q.op \in OperatorPlane => s.q.op \notin Unrouted)
  BY DEF Routes, OperatorPlane, Unrouted
<1>4. s.q.op \in Routes /\ s2.pc > 2 => Passed(s2.q, s2.began)
  <2>1. s.q.op \in Routes /\ s.pc = 2 => Passed(s.q, s.began)
    BY <1>3, FirstSelects
  <2> QED BY <1>1, <1>2, <2>1 DEF AdmittedSession
<1>5. s.q.op \in OperatorPlane /\ s2.pc > 3 => Live(s2.began, OperatorToken(s2.q.token))
  <2>1. s.q.op \in OperatorPlane /\ s.pc = 3 => Live(s.began, OperatorToken(s.q.token))
    BY <1>3, FirstSelects
  <2> QED BY <1>1, <1>2, <2>1 DEF AdmittedSession
<1> QED BY <1>2, <1>4, <1>5 DEF AdmittedSession

LEMMA BeganStep ==
  ASSUME NEW n, NEW called, NEW c, NEW s, NEW s2, Running(n, called, c, s), Follows(s, s2)
  PROVE  BeganSession(db, s2)
<1>1. s.pc \in Nat \ {0}
  BY RunningFacts
<1>2. CASE s.pc = 1
  <2>1. s2.began = db
    BY <1>2 DEF Follows
  <2>2. TypedRows(db, n) /\ KeysFit(db) /\ TenantsExist(db)
    BY DEF Running, RowsInv
  <2> QED BY <2>1, <2>2 DEF TypedRows, KeysFit, TenantsExist, BeganSession
<1>3. CASE s.pc > 1
  <2>1. s2.began = s.began /\ BeganSession(db, s)
    BY <1>3 DEF Follows, Running
  <2> QED BY <1>3, <2>1 DEF BeganSession
<1> QED BY <1>1, <1>2, <1>3

LEMMA TypedSelect ==
  ASSUME NEW n, NEW called, NEW c, NEW s, NEW s2, Running(n, called, c, s),
         Selects(s, s2, SessionAt(c, s))
  PROVE  TypedSession(db, n, s2)
<1> DEFINE st == SessionAt(c, s)
<1>1. IsFiniteSet(st.rows) /\ st.do = "select"
  BY StatementAllowed DEF Allowed, Selects
<1>2. s2.q = s.q /\ s2.pc = s.pc + 1 /\ s2.writes = s.writes
      /\ DOMAIN s2.reads = st.rows \cup DOMAIN s.reads
  BY DEF Over, Selects, Follows
<1> HIDE DEF st
<1>3. IsFiniteSet(DOMAIN s2.reads)
  <2>1. IsFiniteSet(DOMAIN s.reads)
    BY RunningFacts
  <2>2. IsFiniteSet(st.rows \cup DOMAIN s.reads)
    BY <1>1, <2>1, FS_Union
  <2> QED BY <1>2, <2>2
<1> QED BY <1>2, <1>3, RunningFacts DEF TypedSession

LEMMA TypedPass ==
  ASSUME NEW n, NEW called, NEW c, NEW s, NEW s2, Running(n, called, c, s),
         Passes(s, s2, SessionAt(c, s))
  PROVE  TypedSession(db, n, s2)
<1>1. s2.q = s.q /\ s2.pc = s.pc + 1 /\ s2.writes = s.writes /\ s2.reads = s.reads
  BY DEF Passes, Follows
<1> QED BY <1>1, RunningFacts DEF TypedSession

LEMMA TypedHold ==
  ASSUME NEW n, NEW called, NEW c, NEW s, NEW s2, NEW row, NEW columns,
         Running(n, called, c, s), Holds(n, s, s2, SessionAt(c, s), row, columns)
  PROVE  TypedSession(db, n + 1, s2)
<1> DEFINE st == SessionAt(c, s)
           op == s.q.op
<1>1. Allowed(op, Owner(s.q, s.began), st) /\ Wrote(n, s, st, row, columns) /\ ~st.own
  BY StatementAllowed DEF Holds
<1>2. /\ s2.q = s.q /\ s2.pc = s.pc + 1 /\ s2.reads = s.reads
      /\ DOMAIN s2.writes = {row} \cup DOMAIN s.writes /\ s2.writes[row] = columns
      /\ \A o \in DOMAIN s.writes : o # row => s2.writes[o] = s.writes[o]
  BY DEF Over, Holds, Follows
<1>3. /\ n \in Nat \ {0} /\ TypedRows(db, n) /\ TypedWrites(db, n, op, s.writes)
      /\ IsFiniteSet(DOMAIN s.reads) /\ IsFiniteSet(DOMAIN s.writes) /\ s.pc \in Nat \ {0}
      /\ s.pc = 1 => s.reads = NoRows /\ s.writes = NoRows
  BY RunningFacts
<1>4. op \notin Unrouted => s.pc # 1
  <2>1. st.do # "select"
    BY <1>1 DEF Wrote
  <2> QED BY <2>1, FirstSelects
<1> HIDE DEF st, op
<1>5. /\ "absent" \notin DOMAIN columns
      /\ st.do = "append" => row = <<st.table, st.t, n>>
      /\ st.do # "append" => row = st.row /\ st.do \in {"insert", "upsert", "update"}
  BY <1>1, <1>3, WroteIs
<1>6. /\ row[1] \in Sequenced \/ MayWrite(op, row[1])
      /\ row[1] \in Sequenced =>
            row = <<row[1], row[2], row[3]>> /\ row[3] \in Int /\ row[3] < n + 1 /\ row \notin DOMAIN db
  <2>1. CASE st.do = "append"
    <3>1. row = <<st.table, st.t, n>> /\ st.table \in Sequenced
      BY <1>1, <1>5, <2>1 DEF Allowed
    <3>2. row[1] = st.table /\ row[2] = st.t /\ row[3] = n
      BY <3>1
    <3>3. row \notin DOMAIN db
      BY <1>3, <3>1, <3>2 DEF TypedRows
    <3> QED BY <1>3, <3>1, <3>2, <3>3
  <2>2. CASE st.do # "append"
    <3>1. MayWrite(op, row[1])
      BY <1>1, <1>5, <2>2 DEF Allowed
    <3>2. row[1] \notin Sequenced
      BY <3>1 DEF MayWrite, Sequenced
    <3> QED BY <3>1, <3>2
  <2> QED BY <2>1, <2>2
<1>7. TypedWrites(db, n + 1, op, s2.writes)
  <2> SUFFICES ASSUME NEW o \in DOMAIN s2.writes
               PROVE  /\ "absent" \notin DOMAIN s2.writes[o]
                      /\ o[1] \in Sequenced \/ MayWrite(op, o[1])
                      /\ o[1] \in Sequenced =>
                            o = <<o[1], o[2], o[3]>> /\ o[3] \in Int /\ o[3] < n + 1 /\ o \notin DOMAIN db
    BY DEF TypedWrites
  <2>1. CASE o = row
    BY <1>2, <1>5, <1>6, <2>1
  <2>2. CASE o # row
    BY <1>2, <1>3, <2>2 DEF TypedWrites
  <2> QED BY <2>1, <2>2
<1>8. IsFiniteSet(DOMAIN s2.writes)
  BY <1>2, <1>3, FS_AddElement
<1>9. op \in Routes \cup OperatorPlane => op \notin Unrouted
  BY DEF Routes, OperatorPlane, Unrouted
<1> QED BY <1>2, <1>3, <1>4, <1>7, <1>8, <1>9 DEF TypedSession, op

\* What a step leaves of a session.
LEMMA HoldIs ==
  ASSUME NEW n, NEW called, NEW c, NEW s, NEW s2, NEW row, NEW columns,
         Running(n, called, c, s), Holds(n, s, s2, SessionAt(c, s), row, columns)
  PROVE  /\ Wrote(n, s, SessionAt(c, s), row, columns) /\ ~SessionAt(c, s).own
         /\ SessionAt(c, s).do \in {"insert", "upsert", "update", "append"}
         /\ Owner(s2.q, s2.began) = Owner(s.q, s.began)
         /\ s2.q = s.q /\ s2.pc = s.pc + 1 /\ s2.reads = s.reads
         /\ s.q.op \notin Unrouted => s.pc > 1 /\ s2.began = s.began
         /\ DOMAIN s2.writes = {row} \cup DOMAIN s.writes /\ s2.writes[row] = columns
         /\ \A o \in DOMAIN s.writes : o # row => s2.writes[o] = s.writes[o]
<1>1. Wrote(n, s, SessionAt(c, s), row, columns) /\ Follows(s, s2) /\ ~SessionAt(c, s).own
  BY DEF Holds
<1>2. SessionAt(c, s).do \in {"insert", "upsert", "update", "append"}
  BY <1>1 DEF Wrote
<1>3. /\ s2.reads = s.reads
      /\ DOMAIN s2.writes = {row} \cup DOMAIN s.writes /\ s2.writes[row] = columns
      /\ \A o \in DOMAIN s.writes : o # row => s2.writes[o] = s.writes[o]
  BY DEF Over, Holds
<1>4. s.q.op \notin Unrouted => s.pc # 1
  BY <1>2, FirstSelects
<1>5. s.pc \in Nat \ {0}
  BY RunningFacts
<1> QED BY <1>1, <1>2, <1>3, <1>4, <1>5, OwnerStays DEF Follows

LEMMA PassIs ==
  ASSUME NEW n, NEW called, NEW c, NEW s, NEW s2, Running(n, called, c, s),
         Passes(s, s2, SessionAt(c, s))
  PROVE  /\ SessionAt(c, s).do \in {"insert", "upsert", "update", "append"}
         /\ SessionAt(c, s).do # "update" => SessionAt(c, s).own
         /\ ~SessionAt(c, s).own => Sees(s, SessionAt(c, s).row) = None
         /\ Owner(s2.q, s2.began) = Owner(s.q, s.began)
         /\ s2.q = s.q /\ s2.pc = s.pc + 1 /\ s2.reads = s.reads /\ s2.writes = s.writes
         /\ s.q.op \notin Unrouted => s.pc > 1 /\ s2.began = s.began
<1>1. Follows(s, s2)
  BY DEF Passes
<1>2. SessionAt(c, s).do \in {"insert", "upsert", "update", "append"}
  BY DEF Passes
<1>3. s.q.op \notin Unrouted => s.pc # 1
  BY <1>2, FirstSelects
<1>4. s.pc \in Nat \ {0}
  BY RunningFacts
<1> QED BY <1>1, <1>2, <1>3, <1>4, OwnerStays DEF Follows, Passes

LEMMA SelectIs ==
  ASSUME NEW n, NEW called, NEW c, NEW s, NEW s2, Running(n, called, c, s),
         Selects(s, s2, SessionAt(c, s))
  PROVE  /\ SessionAt(c, s).do = "select"
         /\ s.pc # 1 \/ s.q.op \in Unrouted => Owner(s2.q, s2.began) = Owner(s.q, s.began)
         /\ s2.q = s.q /\ s2.pc = s.pc + 1 /\ s2.writes = s.writes
         /\ s.pc > 1 => s2.began = s.began
         /\ s.pc = 1 => s2.began = db
         /\ DOMAIN s2.reads = SessionAt(c, s).rows \cup DOMAIN s.reads
         /\ \A row \in SessionAt(c, s).rows : s2.reads[row] = Sees(s, row)
         /\ \A row \in DOMAIN s.reads : row \notin SessionAt(c, s).rows => s2.reads[row] = s.reads[row]
<1>1. Follows(s, s2) /\ SessionAt(c, s).do = "select" /\ s2.writes = s.writes
  BY DEF Selects
<1>2. /\ DOMAIN s2.reads = SessionAt(c, s).rows \cup DOMAIN s.reads
      /\ \A row \in SessionAt(c, s).rows : s2.reads[row] = Sees(s, row)
      /\ \A row \in DOMAIN s.reads : row \notin SessionAt(c, s).rows => s2.reads[row] = s.reads[row]
  BY DEF Selects, Over
<1>3. s.pc \in Nat \ {0}
  BY RunningFacts
<1> QED BY <1>1, <1>2, <1>3, OwnerStays DEF Follows

\* A write of a row of a table that is no sequence is the session's to make.
LEMMA HeldRow ==
  ASSUME NEW n, NEW called, NEW c, NEW s, NEW s2, NEW row, NEW columns,
         Running(n, called, c, s), Holds(n, s, s2, SessionAt(c, s), row, columns)
  PROVE  /\ SessionAt(c, s).do = "append" <=> row[1] \in Sequenced
         /\ row[1] \notin Sequenced => MayWrite(s.q.op, row[1])
         /\ row[1] \in Sequenced =>
               /\ row = <<SessionAt(c, s).table, SessionAt(c, s).t, n>>
               /\ columns = SessionAt(c, s).set /\ row \notin DOMAIN db /\ row \notin DOMAIN s.writes
<1> DEFINE st == SessionAt(c, s)
<1>1. Wrote(n, s, st, row, columns) /\ Allowed(s.q.op, Owner(s.q, s.began), st) /\ ~st.own
  BY HoldIs, StatementAllowed
<1>2. TypedRows(db, n) /\ TypedWrites(db, n, s.q.op, s.writes) /\ n \in Nat \ {0}
  BY RunningFacts
<1> HIDE DEF st
<1>3. CASE st.do = "append"
  <2>1. row = <<st.table, st.t, n>> /\ columns = st.set /\ st.table \in Sequenced
    BY <1>1, <1>3 DEF Wrote, Allowed
  <2>2. row[1] = st.table /\ row[2] = st.t /\ row[3] = n
    BY <2>1
  <2>3. row \notin DOMAIN db /\ row \notin DOMAIN s.writes
    BY <1>2, <2>1, <2>2 DEF TypedRows, TypedWrites
  <2> QED BY <1>3, <2>1, <2>2, <2>3 DEF st
<1>4. CASE st.do # "append"
  <2>1. row = st.row /\ st.do \in {"insert", "upsert", "update"}
    BY <1>1, <1>4 DEF Wrote
  <2>2. MayWrite(s.q.op, row[1])
    BY <1>1, <2>1 DEF Allowed
  <2>3. row[1] \notin Sequenced
    BY <2>2 DEF MayWrite, Sequenced
  <2> QED BY <1>4, <2>2, <2>3 DEF st
<1> QED BY <1>3, <1>4

LEMMA PassedNow ==
  ASSUME NEW n, NEW called, NEW c, NEW s, Running(n, called, c, s), s.q.op \in Routes,
         s.pc > 1, SessionAt(c, s).do # "return"
  PROVE  Passed(s.q, s.began)
<1>1. s.q.op \notin Unrouted /\ s.pc \in Nat \ {0}
  BY RunningFacts DEF Routes, Unrouted
<1>2. s.pc = 2 => Passed(s.q, s.began)
  BY <1>1, FirstSelects
<1>3. AdmittedSession(s)
  BY DEF Running, SessionInv
<1> QED BY <1>1, <1>2, <1>3 DEF AdmittedSession

\* What a request writes of the keys and the maps.
LEMMA PutSeamMapWrites ==
  ASSUME NEW n, NEW called, NEW c, NEW s, NEW s2, NEW row, NEW columns,
         Running(n, called, c, s), Holds(n, s, s2, SessionAt(c, s), row, columns),
         s.q.op = "putSeamMap", NEW t, t = Owner(s.q, s.began)
  PROVE  /\ s.pc \in {2, 3} /\ kek => s.pc = 3
         /\ row[1] = "tenant_keys" =>
               /\ kek /\ s.pc = 3 /\ At(s.reads, Key(t)) = None
               /\ row = Key(t) /\ row \notin DOMAIN db /\ row \notin DOMAIN s.writes
               /\ columns.wrapped = c /\ ~columns.shredded
         /\ row[1] = "repo_context" =>
               /\ row = Context(t, s.q.id)
               /\ columns.key # 0 =>
                     /\ kek
                     /\ \/ At(s.reads, Key(t)) # None /\ columns.key = s.reads[Key(t)].wrapped
                        \/ s.pc > 3 /\ At(s.reads, Key(t)) = None /\ columns.key = c
         /\ kek /\ s.pc = 3 /\ At(s.reads, Key(t)) = None => row[1] = "tenant_keys"
<1> DEFINE st == SessionAt(c, s)
           upsert == Upsert(Context(t, s.q.id), EncryptPayload(Dek(c, t, s.reads), s.q.v))
           insert == Insert(Key(t), [wrapped |-> GenerateDek(c), shredded |-> FALSE])
           record == Audit(t, "seam_map", s.q.id, s.q.v)
           found == At(s.reads, Key(t)) # None
<1>1. /\ Wrote(n, s, st, row, columns) /\ st.do \in {"insert", "upsert", "update", "append"}
      /\ s.pc > 1 /\ s.pc \in Nat \ {0} /\ Legal(s.q) /\ IsFiniteSet(DOMAIN db)
      /\ TypedRows(db, n) /\ TypedWrites(db, n, s.q.op, s.writes)
  BY HoldIs, RunningFacts DEF Unrouted
<1>2. Passed(s.q, s.began)
  BY <1>1, PassedNow DEF Routes
<1>3. Allowed(s.q.op, t, st)
  BY StatementAllowed
<1>4. /\ ~kek /\ s.pc = 2 => st = upsert
      /\ ~kek /\ s.pc = 3 => st = record
      /\ ~kek /\ s.pc > 3 => st = Refuse("200")
      /\ kek /\ s.pc = 2 => st = Select({Key(t)})
      /\ kek /\ found /\ s.pc = 3 => st = upsert
      /\ kek /\ found /\ s.pc = 4 => st = record
      /\ kek /\ found /\ s.pc > 4 => st = Refuse("200")
      /\ kek /\ ~found /\ s.pc = 3 => st = insert
      /\ kek /\ ~found /\ s.pc = 4 => st = upsert
      /\ kek /\ ~found /\ s.pc = 5 => st = record
      /\ kek /\ s.pc > 5 => st = Refuse("200")
  BY <1>1, <1>2, PutSeamMapAt
<1> HIDE DEF st, found
<1>5. /\ upsert.do = "upsert" /\ upsert.row = Context(t, s.q.id)
      /\ upsert.set.key = Dek(c, t, s.reads) /\ "key" \in DOMAIN upsert.set
      /\ insert.do = "insert" /\ insert.row = Key(t)
      /\ insert.set.wrapped = c /\ insert.set.shredded = FALSE
      /\ record.do = "append" /\ record.table = "audit_log"
      /\ Refuse("200").do = "return" /\ Select({Key(t)}).do = "select"
      /\ Key(t)[1] = "tenant_keys" /\ Context(t, s.q.id)[1] = "repo_context"
  BY DEF Upsert, Insert, Audit, AddRow, Refuse, Select, EncryptPayload, GenerateDek, Key, Context
<1> HIDE DEF upsert, insert, record
<1>6. /\ \A x \in DOMAIN st.set : x \in DOMAIN columns /\ columns[x] = st.set[x]
      /\ st.do = "append" => row = <<st.table, st.t, n>>
      /\ st.do # "append" =>
            /\ row = st.row
            /\ row \notin DOMAIN s.writes /\ row \notin DOMAIN db => columns = st.set
            /\ st.do = "insert" => row \notin DOMAIN s.writes /\ row \notin DOMAIN db
  BY <1>1, <1>3, WroteIs
<1>7. ~(kek /\ s.pc = 2)
  BY <1>1, <1>4, <1>5
<1>8. CASE st = insert
  <2>1. row = Key(t) /\ columns = insert.set /\ row \notin DOMAIN s.writes /\ row \notin DOMAIN db
    BY <1>5, <1>6, <1>8
  <2>2. kek /\ ~found /\ s.pc = 3
    BY <1>1, <1>4, <1>5, <1>8
  <2> QED BY <1>5, <1>7, <2>1, <2>2 DEF found
<1>9. CASE st = upsert
  <2>1. row = Context(t, s.q.id) /\ columns.key = Dek(c, t, s.reads)
    BY <1>5, <1>6, <1>9
  <2>2. (~kek /\ s.pc = 2) \/ (kek /\ found /\ s.pc = 3) \/ (kek /\ ~found /\ s.pc = 4)
    BY <1>1, <1>4, <1>5, <1>9
  <2>3. /\ ~kek => Dek(c, t, s.reads) = 0
        /\ kek /\ found => Dek(c, t, s.reads) = s.reads[Key(t)].wrapped
        /\ kek /\ ~found => Dek(c, t, s.reads) = c
    BY DEF Dek, Column, GenerateDek, found
  <2> QED BY <1>1, <1>5, <1>7, <2>1, <2>2, <2>3 DEF found
<1>10. CASE st = record
  <2>1. row[1] = "audit_log"
    BY <1>5, <1>6, <1>10
  <2>2. ~(kek /\ ~found /\ s.pc = 3)
    BY <1>4, <1>5, <1>10
  <2> QED BY <1>7, <2>1, <2>2 DEF found
<1>11. st = insert \/ st = upsert \/ st = record
  <2>1. st # Refuse("200") /\ st # Select({Key(t)})
    BY <1>1, <1>5
  <2>2. s.pc = 2 \/ s.pc = 3 \/ s.pc = 4 \/ s.pc = 5 \/ s.pc > 5
    BY <1>1
  <2>3. /\ s.pc = 4 \/ s.pc = 5 \/ s.pc > 5 => s.pc > 3
        /\ s.pc = 5 \/ s.pc > 5 => s.pc > 4
    BY <1>1
  <2>4. CASE ~kek
    BY <1>4, <2>1, <2>2, <2>3, <2>4
  <2>5. CASE kek /\ found
    BY <1>4, <2>1, <2>2, <2>3, <2>5
  <2>6. CASE kek /\ ~found
    BY <1>4, <2>1, <2>2, <2>3, <2>6
  <2> QED BY <2>4, <2>5, <2>6
<1> QED BY <1>8, <1>9, <1>10, <1>11

\* The fields of a statement.
LEMMA Kinds ==
  /\ \A rows : Select(rows).do = "select" /\ Select(rows).rows = rows
  /\ \A row, set : /\ Insert(row, set).do = "insert" /\ Insert(row, set).row = row
                   /\ Insert(row, set).set = set /\ ~Insert(row, set).own
  /\ \A row, set : /\ Upsert(row, set).do = "upsert" /\ Upsert(row, set).row = row
                   /\ Upsert(row, set).set = set /\ ~Upsert(row, set).own
  /\ \A row, set : /\ Update(row, set).do = "update" /\ Update(row, set).row = row
                   /\ Update(row, set).set = set /\ ~Update(row, set).own
  /\ \A table, t, set : /\ AddRow(table, t, set).do = "append" /\ AddRow(table, t, set).table = table
                        /\ AddRow(table, t, set).t = t /\ AddRow(table, t, set).set = set
                        /\ ~AddRow(table, t, set).own
  /\ \A t, operation, event, after :
        /\ Audit(t, operation, event, after).do = "append" /\ Audit(t, operation, event, after).t = t
        /\ Audit(t, operation, event, after).table = "audit_log"
        /\ Audit(t, operation, event, after).set =
              [operation |-> operation, event |-> event, after |-> after]
        /\ ~Audit(t, operation, event, after).own
  /\ \A status : Refuse(status).do = "return" /\ Refuse(status).value = <<status>>
  /\ \A v : Reply(v).do = "return" /\ Reply(v).value = <<"200", v>>
<1>1. \A table, t, set : /\ AddRow(table, t, set).do = "append" /\ AddRow(table, t, set).table = table
                         /\ AddRow(table, t, set).t = t /\ AddRow(table, t, set).set = set
                         /\ ~AddRow(table, t, set).own
  BY DEF AddRow
<1>2. \A t, operation, event, after :
        /\ Audit(t, operation, event, after).do = "append" /\ Audit(t, operation, event, after).t = t
        /\ Audit(t, operation, event, after).table = "audit_log"
        /\ Audit(t, operation, event, after).set =
              [operation |-> operation, event |-> event, after |-> after]
        /\ ~Audit(t, operation, event, after).own
  BY <1>1 DEF Audit
<1>3. \A row, set : /\ Insert(row, set).do = "insert" /\ Insert(row, set).row = row
                    /\ Insert(row, set).set = set /\ ~Insert(row, set).own
  BY DEF Insert
<1>4. \A row, set : /\ Upsert(row, set).do = "upsert" /\ Upsert(row, set).row = row
                    /\ Upsert(row, set).set = set /\ ~Upsert(row, set).own
  BY DEF Upsert
<1>5. \A row, set : /\ Update(row, set).do = "update" /\ Update(row, set).row = row
                    /\ Update(row, set).set = set /\ ~Update(row, set).own
  BY DEF Update
<1>6. /\ \A rows : Select(rows).do = "select" /\ Select(rows).rows = rows
      /\ \A status : Refuse(status).do = "return" /\ Refuse(status).value = <<status>>
      /\ \A v : Reply(v).do = "return" /\ Reply(v).value = <<"200", v>>
  BY DEF Select, Refuse, Reply
<1> QED BY <1>1, <1>2, <1>3, <1>4, <1>5, <1>6

\* What getSeamMap does at each of its statements.
LEMMA GettingStatements ==
  ASSUME NEW n, NEW called, NEW c, NEW s, Running(n, called, c, s), s.q.op = "getSeamMap",
         s.pc > 1, Passed(s.q, s.began), NEW t, t = Owner(s.q, s.began)
  PROVE  LET map == Context(t, s.q.id)
             sealed == s.reads[map].key
             st == SessionAt(c, s) IN
         \/ s.pc = 2 /\ st = Select({map})
         \/ s.pc = 3 /\ At(s.reads, map) # None /\ sealed = 0 /\ st = Audit(t, "seam_map", s.q.id, "read")
         \/ s.pc = 3 /\ At(s.reads, map) # None /\ sealed # 0 /\ kek /\ st = Select({Key(t)})
         \/ /\ s.pc = 4 /\ At(s.reads, map) # None /\ sealed # 0 /\ s.reads[Key(t)].wrapped # 0
            /\ st = Audit(t, "seam_map", s.q.id, "read")
         \/ /\ At(s.reads, map) # None /\ st = Reply(At(s.reads, map))
            /\ sealed # 0 => /\ At(s.reads, Key(t)) # None /\ s.reads[Key(t)].wrapped # 0
         \/ st = Refuse("404")
<1> DEFINE map == Context(t, s.q.id)
           sealed == s.reads[map].key
           st == SessionAt(c, s)
           record == Audit(t, "seam_map", s.q.id, "read")
           found == At(s.reads, Key(t)) # None
           dek == s.reads[Key(t)].wrapped
           there == At(s.reads, map) # None
           reply0 == Reply(At(s.reads, map))
<1>1. s.pc \in Nat \ {0} /\ Legal(s.q) /\ IsFiniteSet(DOMAIN db)
  BY RunningFacts
<1>2. s.pc > 3 =>
          /\ there
          /\ sealed = 0 => s.pc = 4
          /\ sealed # 0 => /\ kek /\ found /\ dek \in {sealed, 0}
                           /\ s.pc \in {4, 5}
                           /\ s.pc = 5 => dek # 0
  BY DEF Running, SessionInv, KeysSession, GettingMap
<1>3. /\ s.pc = 2 => st = Select({map})
      /\ s.pc = 3 /\ ~there => st = Refuse("404")
      /\ s.pc = 3 /\ there /\ sealed = 0 => st = record
      /\ s.pc = 4 /\ there /\ sealed = 0 => st = reply0
      /\ s.pc = 3 /\ there /\ sealed # 0 /\ kek => st = Select({Key(t)})
      /\ s.pc = 3 /\ there /\ sealed # 0 /\ ~kek => st = Refuse("404")
      /\ s.pc = 4 /\ there /\ sealed # 0 /\ kek /\ found =>
            /\ dek = 0 => st = Refuse("404")
            /\ dek # 0 /\ dek = sealed => st = record
      /\ s.pc = 5 /\ there /\ sealed # 0 /\ kek /\ found /\ dek # 0 /\ dek = sealed => st = reply0
  BY <1>1, GetSeamMapAt
<1> HIDE DEF st, map, sealed, record, found, dek, there, reply0
<1>4. s.pc = 2 \/ s.pc = 3 \/ s.pc > 3
  BY <1>1
<1>5. \/ s.pc = 2 /\ st = Select({map})
      \/ s.pc = 3 /\ there /\ sealed = 0 /\ st = record
      \/ s.pc = 3 /\ there /\ sealed # 0 /\ kek /\ st = Select({Key(t)})
      \/ s.pc = 4 /\ there /\ sealed # 0 /\ dek # 0 /\ st = record
      \/ there /\ st = reply0 /\ (sealed # 0 => found /\ dek # 0)
      \/ st = Refuse("404")
  <2>1. CASE s.pc > 3
    <3>1. s.pc = 4 \/ s.pc = 5
      BY <1>2, <2>1
    <3> QED BY <1>2, <1>3, <2>1, <3>1
  <2> QED BY <1>3, <1>4, <2>1
<1> QED BY <1>5 DEF st, map, sealed, record, found, dek, there, reply0

LEMMA GetSeamMapWrites ==
  ASSUME NEW n, NEW called, NEW c, NEW s, NEW s2, NEW row, NEW columns,
         Running(n, called, c, s), Holds(n, s, s2, SessionAt(c, s), row, columns),
         s.q.op = "getSeamMap", NEW t, t = Owner(s.q, s.began)
  PROVE  LET map == Context(t, s.q.id)
             sealed == s.reads[map].key IN
         /\ row[1] = "audit_log" /\ At(s.reads, map) # None
         /\ \/ s.pc = 3 /\ sealed = 0
            \/ s.pc = 4 /\ sealed # 0 /\ s.reads[Key(t)].wrapped # 0
<1> DEFINE st == SessionAt(c, s)
           map == Context(t, s.q.id)
           sealed == s.reads[map].key
           record == Audit(t, "seam_map", s.q.id, "read")
           there == At(s.reads, map) # None
           dek == s.reads[Key(t)].wrapped
           reply0 == Reply(At(s.reads, map))
<1>1. /\ Wrote(n, s, st, row, columns) /\ st.do \in {"insert", "upsert", "update", "append"}
      /\ s.pc > 1
  BY HoldIs DEF Unrouted
<1>2. Passed(s.q, s.began)
  BY <1>1, PassedNow DEF Routes
<1>3. \/ s.pc = 2 /\ st = Select({map})
      \/ s.pc = 3 /\ there /\ sealed = 0 /\ st = record
      \/ s.pc = 3 /\ there /\ sealed # 0 /\ kek /\ st = Select({Key(t)})
      \/ s.pc = 4 /\ there /\ sealed # 0 /\ dek # 0 /\ st = record
      \/ there /\ st = reply0
      \/ st = Refuse("404")
  BY <1>1, <1>2, GettingStatements
<1>4. /\ record.do = "append" /\ record.table = "audit_log" /\ reply0.do = "return"
      /\ Refuse("404").do = "return" /\ Select({map}).do = "select" /\ Select({Key(t)}).do = "select"
  BY Kinds
<1> HIDE DEF st, map, sealed, record, dek, there, reply0
<1>5. st = record /\ there /\ ((s.pc = 3 /\ sealed = 0) \/ (s.pc = 4 /\ sealed # 0 /\ dek # 0))
  BY <1>1, <1>3, <1>4
<1>6. row[1] = "audit_log"
  BY <1>1, <1>4, <1>5 DEF Wrote
<1> QED BY <1>5, <1>6 DEF map, sealed, there, dek

LEMMA CryptoShredWrites ==
  ASSUME NEW n, NEW called, NEW c, NEW s, NEW s2, NEW row, NEW columns,
         Running(n, called, c, s), Holds(n, s, s2, SessionAt(c, s), row, columns),
         s.q.op = "cryptoShredTenant", NEW t, t = Owner(s.q, s.began), row[1] = "tenant_keys"
  PROVE  row = Key(t) /\ columns.wrapped = 0
<1> DEFINE st == SessionAt(c, s)
           shred == Upsert(Key(t), [wrapped |-> 0, shredded |-> TRUE])
           record == Audit(t, "retention", "crypto_shred", "shredded")
<1>1. /\ Wrote(n, s, st, row, columns) /\ st.do \in {"insert", "upsert", "update", "append"}
      /\ s.pc \in Nat \ {0} /\ Legal(s.q) /\ Allowed(s.q.op, t, st)
      /\ TypedRows(db, n) /\ TypedWrites(db, n, s.q.op, s.writes)
  BY HoldIs, RunningFacts, StatementAllowed
<1>2. /\ s.pc = 1 => st = shred
      /\ s.pc = 2 => st = record
      /\ s.pc > 2 => st = Refuse("200")
  BY <1>1, CryptoShredTenantAt
<1>3. /\ shred.do = "upsert" /\ shred.row = Key(t) /\ shred.set.wrapped = 0 /\ "wrapped" \in DOMAIN shred.set
      /\ record.do = "append" /\ record.table = "audit_log" /\ Refuse("200").do = "return"
  BY Kinds
<1> HIDE DEF st, shred, record
<1>4. st = shred
  <2>1. s.pc = 1 \/ s.pc = 2 \/ s.pc > 2
    BY <1>1
  <2>2. st # record
    BY <1>1, <1>3 DEF Wrote
  <2> QED BY <1>1, <1>2, <1>3, <2>1, <2>2
<1>5. /\ \A x \in DOMAIN st.set : x \in DOMAIN columns /\ columns[x] = st.set[x]
      /\ row = st.row
  BY <1>1, <1>3, <1>4, WroteIs
<1> QED BY <1>3, <1>4, <1>5

\* What a session writes of keys, whatever its method.
LEMMA KeyHeld ==
  ASSUME NEW n, NEW called, NEW c, NEW s, NEW s2, NEW row, NEW columns,
         Running(n, called, c, s), Holds(n, s, s2, SessionAt(c, s), row, columns),
         NEW t, t = Owner(s.q, s.began), row[1] = "tenant_keys"
  PROVE  /\ row = Key(t) /\ s.q.op \in {"putSeamMap", "cryptoShredTenant"}
         /\ columns.wrapped # 0 => ~columns.shredded /\ columns.wrapped = c /\ row \notin DOMAIN db
         /\ s.q.op = "putSeamMap" => s.pc = 3 /\ kek
<1>1. row[1] \notin Sequenced
  BY DEF Sequenced
<1>2. MayWrite(s.q.op, row[1])
  BY <1>1, HeldRow
<1>3. s.q.op \in {"putSeamMap", "getSeamMap", "cryptoShredTenant"}
  BY <1>2 DEF MayWrite
<1>4. s.q.op # "getSeamMap"
  BY GetSeamMapWrites
<1>5. CASE s.q.op = "putSeamMap"
  BY <1>5, PutSeamMapWrites
<1>6. CASE s.q.op = "cryptoShredTenant"
  BY <1>6, CryptoShredWrites
<1> QED BY <1>3, <1>4, <1>5, <1>6

\* A map is written under the key its session read or made.
LEMMA MapHeld ==
  ASSUME NEW n, NEW called, NEW c, NEW s, NEW s2, NEW row, NEW columns,
         Running(n, called, c, s), Holds(n, s, s2, SessionAt(c, s), row, columns),
         NEW t, t = Owner(s.q, s.began), row[1] = "repo_context", columns.key # 0
  PROVE  /\ row[2] = t
         /\ Key(t) \in DOMAIN s.writes => s.writes[Key(t)].wrapped = columns.key
         /\ Key(t) \notin DOMAIN s.writes =>
               Key(t) \in DOMAIN db /\ db[Key(t)].wrapped \in {columns.key, 0}
<1>1. row[1] \notin Sequenced
  BY DEF Sequenced
<1>2. s.q.op = "putSeamMap"
  BY <1>1, HeldRow DEF MayWrite
<1>3. /\ row = Context(t, s.q.id) /\ kek
      /\ \/ At(s.reads, Key(t)) # None /\ columns.key = s.reads[Key(t)].wrapped
         \/ s.pc > 3 /\ At(s.reads, Key(t)) = None /\ columns.key = c
  BY <1>2, PutSeamMapWrites
<1>4. KeyRead(db, t, s) /\ PuttingMap(kek, c, t, s) /\ s.pc > 1
  BY <1>2, HoldIs DEF Running, SessionInv, KeysSession, Unrouted
<1>5. row[2] = t
  BY <1>3 DEF Context
<1>6. CASE At(s.reads, Key(t)) # None
  BY <1>3, <1>4, <1>5, <1>6 DEF KeyRead, PuttingMap
<1>7. CASE At(s.reads, Key(t)) = None
  BY <1>3, <1>4, <1>5, <1>7 DEF PuttingMap
<1> QED BY <1>6, <1>7

LEMMA KeysHold ==
  ASSUME NEW n, NEW called, NEW c, NEW s, NEW s2, NEW row, NEW columns,
         Running(n, called, c, s), Holds(n, s, s2, SessionAt(c, s), row, columns)
  PROVE  KeysSession(db, kek, c, s2)
<1> DEFINE t == Owner(s.q, s.began)
           w == s.writes
           w2 == s2.writes
<1>1. /\ Owner(s2.q, s2.began) = t /\ s2.q = s.q /\ s2.pc = s.pc + 1 /\ s2.reads = s.reads
      /\ s.q.op \notin Unrouted => s.pc > 1 /\ s2.began = s.began
      /\ DOMAIN w2 = {row} \cup DOMAIN w /\ w2[row] = columns
      /\ \A o \in DOMAIN w : o # row => w2[o] = w[o]
      /\ s.pc \in Nat \ {0}
  BY HoldIs, RunningFacts
<1>2. /\ KeyWrites(db, c, t, w)
      /\ s.q.op \in {"putSeamMap", "getSeamMap"} => KeyRead(db, t, s)
      /\ s.q.op = "putSeamMap" => PuttingMap(kek, c, t, s)
      /\ s.q.op = "getSeamMap" => GettingMap(db, kek, t, s)
      /\ TypedWrites(db, n, s.q.op, w)
  BY RunningFacts DEF Running, SessionInv, KeysSession
<1>3. row[1] = "tenant_keys" =>
         /\ row = Key(t) /\ s.q.op \in {"putSeamMap", "cryptoShredTenant"}
         /\ columns.wrapped # 0 => ~columns.shredded /\ columns.wrapped = c /\ row \notin DOMAIN db
         /\ s.q.op = "putSeamMap" => s.pc = 3 /\ kek
  BY KeyHeld
<1>4. row[1] = "repo_context" /\ columns.key # 0 =>
         /\ row[2] = t
         /\ Key(t) \in DOMAIN w => w[Key(t)].wrapped = columns.key
         /\ Key(t) \notin DOMAIN w => Key(t) \in DOMAIN db /\ db[Key(t)].wrapped \in {columns.key, 0}
  BY MapHeld
<1>5. Key(t)[1] = "tenant_keys" /\ (s.q.op \in {"putSeamMap", "getSeamMap"} => s.q.op \notin Unrouted)
  BY DEF Key, Unrouted
<1>6. KeyWrites(db, c, t, w2)
  <2> SUFFICES ASSUME NEW o \in DOMAIN w2
               PROVE  /\ o[1] = "tenant_keys" =>
                            /\ o = Key(t)
                            /\ w2[o].shredded => w2[o].wrapped = 0
                            /\ w2[o].wrapped # 0 => w2[o].wrapped = c /\ o \notin DOMAIN db
                      /\ o[1] = "repo_context" /\ w2[o].key # 0 =>
                            /\ o[2] = t
                            /\ Key(t) \in DOMAIN w2 => w2[Key(t)].wrapped = w2[o].key
                            /\ Key(t) \notin DOMAIN w2 =>
                                  Key(t) \in DOMAIN db /\ db[Key(t)].wrapped \in {w2[o].key, 0}
    BY DEF KeyWrites
  <2>1. CASE o = row
    <3>1. row[1] = "repo_context" => Key(t) # row
      BY <1>5
    <3> QED BY <1>1, <1>3, <1>4, <2>1, <3>1
  <2>2. CASE o # row
    <3>1. o \in DOMAIN w /\ w2[o] = w[o]
      BY <1>1, <2>2
    <3>2. /\ o[1] = "tenant_keys" =>
                /\ o = Key(t)
                /\ w[o].shredded => w[o].wrapped = 0
                /\ w[o].wrapped # 0 => w[o].wrapped = c /\ o \notin DOMAIN db
          /\ o[1] = "repo_context" /\ w[o].key # 0 =>
                /\ o[2] = t
                /\ Key(t) \in DOMAIN w => w[Key(t)].wrapped = w[o].key
                /\ Key(t) \notin DOMAIN w =>
                      Key(t) \in DOMAIN db /\ db[Key(t)].wrapped \in {w[o].key, 0}
      BY <1>2, <3>1 DEF KeyWrites
    <3>3. row = Key(t) => o[1] # "repo_context"
      <4>1. SUFFICES ASSUME row = Key(t), o[1] = "repo_context"
                     PROVE  FALSE
        OBVIOUS
      <4>2. s.q.op = "putSeamMap"
        <5>1. o[1] \notin Sequenced
          BY <4>1 DEF Sequenced
        <5>2. MayWrite(s.q.op, o[1])
          BY <1>2, <3>1, <5>1 DEF TypedWrites
        <5> QED BY <4>1, <5>2 DEF MayWrite
      <4>3. w = NoRows
        BY <1>2, <1>3, <1>5, <4>1, <4>2 DEF PuttingMap
      <4>4. DOMAIN w = {}
        BY <4>3 DEF NoRows
      <4> QED BY <3>1, <4>4
    <3>4. CASE row = Key(t)
      BY <3>1, <3>2, <3>3, <3>4
    <3>5. CASE row # Key(t)
      <4>1. (Key(t) \in DOMAIN w2 <=> Key(t) \in DOMAIN w)
            /\ (Key(t) \in DOMAIN w => w2[Key(t)] = w[Key(t)])
        BY <1>1, <3>5
      <4> QED BY <3>1, <3>2, <4>1
    <3> QED BY <3>4, <3>5
  <2> QED BY <2>1, <2>2
<1>7. s.q.op \in {"putSeamMap", "getSeamMap"} => KeyRead(db, t, s2)
  BY <1>1, <1>2, <1>5 DEF KeyRead
<1>8. s.q.op = "putSeamMap" => PuttingMap(kek, c, t, s2)
  <2> SUFFICES ASSUME s.q.op = "putSeamMap" PROVE PuttingMap(kek, c, t, s2)
    OBVIOUS
  <2>1. /\ s.pc \in {2, 3} /\ kek => s.pc = 3
        /\ row[1] = "tenant_keys" =>
              /\ kek /\ s.pc = 3 /\ At(s.reads, Key(t)) = None
              /\ row = Key(t) /\ columns.wrapped = c
        /\ kek /\ s.pc = 3 /\ At(s.reads, Key(t)) = None => row[1] = "tenant_keys"
    BY PutSeamMapWrites
  <2>2. /\ Key(t) \in DOMAIN w => At(s.reads, Key(t)) = None /\ w[Key(t)].wrapped = c
        /\ s.pc > 3 /\ kek /\ At(s.reads, Key(t)) = None => Key(t) \in DOMAIN w
    BY <1>2 DEF PuttingMap
  <2>3. Key(t) \in DOMAIN w2 => At(s2.reads, Key(t)) = None /\ w2[Key(t)].wrapped = c
    <3>1. CASE row = Key(t)
      BY <1>1, <1>5, <2>1, <3>1
    <3>2. CASE row # Key(t)
      BY <1>1, <2>2, <3>2
    <3> QED BY <3>1, <3>2
  <2>4. ~(s2.pc = 3 /\ kek)
    BY <1>1, <2>1
  <2>5. s2.pc > 3 /\ kek /\ At(s2.reads, Key(t)) = None => Key(t) \in DOMAIN w2
    <3>1. CASE s.pc = 3
      BY <1>1, <2>1, <3>1
    <3>2. CASE s.pc # 3
      BY <1>1, <2>2, <3>2
    <3> QED BY <3>1, <3>2
  <2> QED BY <2>3, <2>4, <2>5 DEF PuttingMap
<1>9. s.q.op = "getSeamMap" => GettingMap(db, kek, t, s2)
  <2> SUFFICES ASSUME s.q.op = "getSeamMap" PROVE GettingMap(db, kek, t, s2)
    OBVIOUS
  <2> DEFINE map == Context(t, s.q.id)
             sealed == s.reads[map].key
  <2>1. /\ At(s.reads, map) # None
        /\ \/ s.pc = 3 /\ sealed = 0
           \/ s.pc = 4 /\ sealed # 0 /\ s.reads[Key(t)].wrapped # 0
    BY GetSeamMapWrites
  <2>2. GettingMap(db, kek, t, s)
    BY <1>2
  <2> QED BY <1>1, <2>1, <2>2 DEF GettingMap
<1> HIDE DEF t, w2
<1>10. Owner(s2.q, s2.began) = t
  BY <1>1
<1> QED BY <1>1, <1>6, <1>7, <1>8, <1>9, <1>10 DEF KeysSession, w2

\* What putSeamMap reads, and that it passes no statement by.
LEMMA PuttingStatements ==
  ASSUME NEW n, NEW called, NEW c, NEW s, Running(n, called, c, s), s.q.op = "putSeamMap",
         s.pc > 1, Passed(s.q, s.began), NEW t, t = Owner(s.q, s.began)
  PROVE  /\ SessionAt(c, s).do = "select" =>
               kek /\ s.pc = 2 /\ SessionAt(c, s) = Select({Key(t)})
         /\ SessionAt(c, s).do # "update"
         /\ SessionAt(c, s).do \in {"insert", "upsert", "append"} => ~SessionAt(c, s).own
<1> DEFINE st == SessionAt(c, s)
           upsert == Upsert(Context(t, s.q.id), EncryptPayload(Dek(c, t, s.reads), s.q.v))
           insert == Insert(Key(t), [wrapped |-> GenerateDek(c), shredded |-> FALSE])
           record == Audit(t, "seam_map", s.q.id, s.q.v)
           found == At(s.reads, Key(t)) # None
<1>1. s.pc \in Nat \ {0} /\ Legal(s.q) /\ IsFiniteSet(DOMAIN db)
  BY RunningFacts
<1>2. /\ ~kek /\ s.pc = 2 => st = upsert
      /\ ~kek /\ s.pc = 3 => st = record
      /\ ~kek /\ s.pc > 3 => st = Refuse("200")
      /\ kek /\ s.pc = 2 => st = Select({Key(t)})
      /\ kek /\ found /\ s.pc = 3 => st = upsert
      /\ kek /\ found /\ s.pc = 4 => st = record
      /\ kek /\ found /\ s.pc > 4 => st = Refuse("200")
      /\ kek /\ ~found /\ s.pc = 3 => st = insert
      /\ kek /\ ~found /\ s.pc = 4 => st = upsert
      /\ kek /\ ~found /\ s.pc = 5 => st = record
      /\ kek /\ s.pc > 5 => st = Refuse("200")
  BY <1>1, PutSeamMapAt
<1>3. /\ upsert.do = "upsert" /\ ~upsert.own /\ insert.do = "insert" /\ ~insert.own
      /\ record.do = "append" /\ ~record.own
      /\ Refuse("200").do = "return" /\ Select({Key(t)}).do = "select"
  BY Kinds
<1> HIDE DEF st, found, upsert, insert, record
<1>4. s.pc = 2 \/ s.pc = 3 \/ s.pc = 4 \/ s.pc = 5 \/ s.pc > 5
  BY <1>1
<1>5. /\ s.pc = 4 \/ s.pc = 5 \/ s.pc > 5 => s.pc > 3
      /\ s.pc = 5 \/ s.pc > 5 => s.pc > 4
  BY <1>1
<1>6. \/ kek /\ s.pc = 2 /\ st = Select({Key(t)})
      \/ st = upsert \/ st = insert \/ st = record \/ st = Refuse("200")
  <2>1. CASE ~kek
    BY <1>2, <1>4, <1>5, <2>1
  <2>2. CASE kek /\ found
    BY <1>2, <1>4, <1>5, <2>2
  <2>3. CASE kek /\ ~found
    BY <1>2, <1>4, <1>5, <2>3
  <2> QED BY <2>1, <2>2, <2>3
<1> QED BY <1>3, <1>6 DEF st

LEMMA KeysPass ==
  ASSUME NEW n, NEW called, NEW c, NEW s, NEW s2, Running(n, called, c, s),
         Passes(s, s2, SessionAt(c, s))
  PROVE  KeysSession(db, kek, c, s2)
<1> DEFINE t == Owner(s.q, s.began)
           st == SessionAt(c, s)
<1>1. /\ st.do \in {"insert", "upsert", "update", "append"}
      /\ st.do # "update" => st.own
      /\ Owner(s2.q, s2.began) = t /\ s2.q = s.q /\ s2.writes = s.writes
      /\ s.q.op \notin Unrouted => s.pc > 1
  BY PassIs
<1>2. KeyWrites(db, c, t, s.writes)
  BY DEF Running, SessionInv, KeysSession
<1>3. s.q.op \in {"putSeamMap", "getSeamMap"} => Passed(s.q, s.began) /\ s.pc > 1
  BY <1>1, PassedNow DEF Routes, Unrouted
<1>4. s.q.op # "putSeamMap"
  BY <1>1, <1>3, PuttingStatements
<1>5. s.q.op # "getSeamMap"
  <2> SUFFICES ASSUME s.q.op = "getSeamMap" PROVE FALSE
    OBVIOUS
  <2> DEFINE map == Context(t, s.q.id)
             record == Audit(t, "seam_map", s.q.id, "read")
             reply0 == Reply(At(s.reads, map))
  <2>1. st = Select({map}) \/ st = record \/ st = Select({Key(t)}) \/ st = reply0 \/ st = Refuse("404")
    BY <1>1, <1>3, GettingStatements
  <2>2. /\ record.do = "append" /\ ~record.own /\ reply0.do = "return" /\ Refuse("404").do = "return"
        /\ Select({map}).do = "select" /\ Select({Key(t)}).do = "select"
    BY Kinds
  <2> HIDE DEF st, map, record, reply0
  <2> QED BY <1>1, <2>1, <2>2
<1> HIDE DEF t
<1> QED BY <1>1, <1>2, <1>4, <1>5 DEF KeysSession

LEMMA KeysSelect ==
  ASSUME NEW n, NEW called, NEW c, NEW s, NEW s2, Running(n, called, c, s),
         Selects(s, s2, SessionAt(c, s))
  PROVE  KeysSession(db, kek, c, s2)
<1> DEFINE t == Owner(s2.q, s2.began)
           st == SessionAt(c, s)
<1>1. /\ st.do = "select" /\ s2.q = s.q /\ s2.pc = s.pc + 1 /\ s2.writes = s.writes
      /\ s.pc # 1 \/ s.q.op \in Unrouted => t = Owner(s.q, s.began)
      /\ s.pc > 1 => s2.began = s.began
      /\ DOMAIN s2.reads = st.rows \cup DOMAIN s.reads
      /\ \A row \in st.rows : s2.reads[row] = Sees(s, row)
      /\ \A row \in DOMAIN s.reads : row \notin st.rows => s2.reads[row] = s.reads[row]
  BY SelectIs
<1>2. /\ s.pc \in Nat \ {0} /\ Legal(s.q) /\ IsFiniteSet(DOMAIN db)
      /\ s.pc = 1 => s.reads = NoRows /\ s.writes = NoRows
      /\ s.q.op \notin Unrouted /\ s.pc = 2 => s.writes = NoRows
      /\ TypedRows(db, n) /\ TypedWrites(db, n, s.q.op, s.writes)
  BY RunningFacts
<1>3. DOMAIN NoRows = {}
  BY DEF NoRows
<1>4. /\ KeyWrites(db, c, Owner(s.q, s.began), s.writes)
      /\ s.q.op \in {"putSeamMap", "getSeamMap"} => KeyRead(db, Owner(s.q, s.began), s)
      /\ s.q.op = "putSeamMap" => PuttingMap(kek, c, Owner(s.q, s.began), s)
      /\ s.q.op = "getSeamMap" => GettingMap(db, kek, Owner(s.q, s.began), s)
      /\ BeganSession(db, s) /\ KeysFit(db)
  BY DEF Running, SessionInv, KeysSession, RowsInv
<1> HIDE DEF t, st
<1>5. KeyWrites(db, c, t, s2.writes)
  <2>1. CASE s.pc = 1
    BY <1>1, <1>2, <1>3, <2>1 DEF KeyWrites
  <2>2. CASE s.pc # 1
    BY <1>1, <1>4, <2>2
  <2> QED BY <2>1, <2>2
<1>6. ASSUME s.q.op \in {"putSeamMap", "getSeamMap"}, s.pc = 1
      PROVE  /\ At(s2.reads, Key(t)) = None /\ s2.pc = 2 /\ s2.writes = NoRows
             /\ At(s2.reads, Context(t, s.q.id)) = None
  <2>1. st = Select({Token(s.q.token)})
    BY <1>2, <1>6, RouteAt DEF Routes, st
  <2>2. st.rows = {Token(s.q.token)}
    BY <2>1, Kinds
  <2>3. Key(t) # Token(s.q.token) /\ Context(t, s.q.id) # Token(s.q.token)
    BY DEF Key, Token, Context
  <2>4. DOMAIN s.reads = {}
    BY <1>2, <1>3, <1>6
  <2> QED BY <1>1, <1>2, <1>6, <2>2, <2>3, <2>4 DEF At
<1>7. ASSUME s.q.op \in {"putSeamMap", "getSeamMap"}, s.pc > 1
      PROVE  /\ t = Owner(s.q, s.began) /\ s2.began = s.began
             /\ st.rows = {Key(t)} => s.writes = NoRows
             /\ st.rows \in {{Key(t)}, {Context(t, s.q.id)}}
             /\ Passed(s.q, s.began)
  <2>1. Passed(s.q, s.began) /\ t = Owner(s.q, s.began) /\ s2.began = s.began
    BY <1>1, <1>2, <1>7, PassedNow DEF Routes, st
  <2>2. Key(t) # Context(t, s.q.id)
    BY DEF Key, Context
  <2>3. CASE s.q.op = "putSeamMap"
    <3>1. s.pc = 2 /\ st = Select({Key(t)})
      BY <1>1, <1>7, <2>1, <2>3, PuttingStatements DEF st
    <3> QED BY <1>2, <2>1, <2>3, <3>1, Kinds DEF Unrouted
  <2>4. CASE s.q.op = "getSeamMap"
    <3> DEFINE map == Context(t, s.q.id)
               record == Audit(t, "seam_map", s.q.id, "read")
               reply0 == Reply(At(s.reads, map))
    <3>1. \/ s.pc = 2 /\ st = Select({map})
          \/ s.pc = 3 /\ st = Select({Key(t)})
          \/ st = record \/ st = reply0 \/ st = Refuse("404")
      BY <1>1, <1>7, <2>1, <2>4, GettingStatements DEF st
    <3>2. /\ record.do = "append" /\ reply0.do = "return" /\ Refuse("404").do = "return"
          /\ Select({map}).rows = {map} /\ Select({Key(t)}).rows = {Key(t)}
      BY Kinds
    <3>3. s.pc = 3 => s.writes = NoRows
      BY <1>4, <2>1, <2>4 DEF GettingMap
    <3> HIDE DEF record, reply0, map
    <3>4. (s.pc = 2 /\ st = Select({map})) \/ (s.pc = 3 /\ st = Select({Key(t)}))
      BY <1>1, <3>1, <3>2
    <3>5. st.rows = {map} \/ (st.rows = {Key(t)} /\ s.writes = NoRows)
      BY <3>2, <3>3, <3>4
    <3> QED BY <2>1, <2>2, <3>5 DEF map
  <2> QED BY <1>7, <2>3, <2>4
<1>8. s.q.op \in {"putSeamMap", "getSeamMap"} => KeyRead(db, t, s2)
  <2>1. CASE s.pc = 1
    BY <1>6, <2>1 DEF KeyRead
  <2>2. ASSUME s.q.op \in {"putSeamMap", "getSeamMap"}, s.pc > 1, st.rows = {Key(t)}
        PROVE  KeyRead(db, t, s2)
    <3>1. s2.reads[Key(t)] = At(db, Key(t)) /\ Key(t) \in DOMAIN s2.reads /\ s2.began = s.began
      BY <1>1, <1>3, <1>7, <2>2 DEF Sees
    <3>2. Key(t) \in DOMAIN s.began /\ s.began[Key(t)].shredded => db[Key(t)].wrapped = 0
      BY <1>4, <2>2 DEF BeganSession, Key
    <3>3. At(s2.reads, Key(t)) # None =>
             Key(t) \in DOMAIN db /\ s2.reads[Key(t)] = db[Key(t)]
      BY <3>1 DEF At
    <3>4. Column(s2.began, Key(t), "shredded", FALSE) =>
             Key(t) \in DOMAIN s.began /\ s.began[Key(t)].shredded
      BY <3>1 DEF Column, At
    <3> QED BY <3>2, <3>3, <3>4 DEF KeyRead
  <2>3. ASSUME s.q.op \in {"putSeamMap", "getSeamMap"}, s.pc > 1, st.rows # {Key(t)}
        PROVE  KeyRead(db, t, s2)
    <3>1. Key(t) \notin st.rows
      <4>1. Key(t) # Context(t, s.q.id)
        BY DEF Key, Context
      <4> QED BY <1>7, <2>3, <4>1
    <3>2. At(s2.reads, Key(t)) = At(s.reads, Key(t))
          /\ (At(s.reads, Key(t)) # None => s2.reads[Key(t)] = s.reads[Key(t)])
      BY <1>1, <3>1 DEF At
    <3>3. s2.began = s.began /\ t = Owner(s.q, s.began)
      BY <1>7, <2>3
    <3> QED BY <1>4, <2>3, <3>2, <3>3 DEF KeyRead
  <2> QED BY <1>2, <2>1, <2>2, <2>3
<1>9. s.q.op = "putSeamMap" => PuttingMap(kek, c, t, s2)
  <2> SUFFICES ASSUME s.q.op = "putSeamMap" PROVE PuttingMap(kek, c, t, s2)
    OBVIOUS
  <2>1. CASE s.pc = 1
    BY <1>3, <1>6, <2>1 DEF PuttingMap
  <2>2. CASE s.pc # 1
    <3>1. Passed(s.q, s.began) /\ s.pc > 1 /\ t = Owner(s.q, s.began)
      BY <1>2, <1>7, <2>2
    <3>2. s.pc = 2
      <4>1. SessionAt(c, s).do = "select"
        BY <1>1 DEF st
      <4>2. s.pc > 1 /\ Passed(s.q, s.began)
        BY <3>1
      <4> QED BY <4>1, <4>2, PuttingStatements
    <3>3. s2.writes = NoRows /\ s2.pc = 3
      BY <1>1, <1>2, <3>2 DEF Unrouted
    <3> QED BY <1>3, <3>3 DEF PuttingMap
  <2> QED BY <2>1, <2>2
<1>10. s.q.op = "getSeamMap" => GettingMap(db, kek, t, s2)
  <2> SUFFICES ASSUME s.q.op = "getSeamMap" PROVE GettingMap(db, kek, t, s2)
    OBVIOUS
  <2>1. CASE s.pc = 1
    BY <1>1, <1>6, <2>1 DEF GettingMap
  <2>2. CASE s.pc # 1
    <3> DEFINE map == Context(t, s.q.id)
               record == Audit(t, "seam_map", s.q.id, "read")
               reply0 == Reply(At(s.reads, map))
               there == At(s.reads, map) # None
               sealed == s.reads[map].key
    <3>1. Passed(s.q, s.began) /\ s.pc > 1 /\ t = Owner(s.q, s.began)
      BY <1>2, <1>7, <2>2
    <3>2. \/ s.pc = 2 /\ st = Select({map})
          \/ s.pc = 3 /\ there /\ sealed # 0 /\ kek /\ st = Select({Key(t)})
          \/ st = record \/ st = reply0 \/ st = Refuse("404")
      BY <3>1, GettingStatements DEF st
    <3>3. /\ record.do = "append" /\ reply0.do = "return" /\ Refuse("404").do = "return"
          /\ Select({map}).rows = {map} /\ Select({Key(t)}).rows = {Key(t)}
      BY Kinds
    <3>4. Key(t) # map /\ map[1] = "repo_context" /\ map[2] = t
      BY DEF Key, Context
    <3> HIDE DEF record, reply0, map
    <3>5. CASE s.pc = 2 /\ st = Select({map})
      <4>1. s2.writes = NoRows /\ s2.pc = 3
        BY <1>1, <1>2, <3>5 DEF Unrouted
      <4>2. s2.reads[map] = At(db, map) /\ map \in DOMAIN s2.reads
        BY <1>1, <1>3, <3>3, <3>5, <4>1 DEF Sees
      <4>3. At(s2.reads, map) # None /\ s2.reads[map].key # 0 =>
               Key(t) \in DOMAIN db /\ db[Key(t)].wrapped \in {s2.reads[map].key, 0}
        BY <1>4, <3>4, <4>2 DEF KeysFit, At
      <4> QED BY <1>1, <4>1, <4>3 DEF GettingMap, map
    <3>6. CASE s.pc = 3 /\ there /\ sealed # 0 /\ kek /\ st = Select({Key(t)})
      <4>1. Key(t) \in DOMAIN db /\ db[Key(t)].wrapped \in {sealed, 0} /\ s.writes = NoRows
        BY <1>4, <3>1, <3>6 DEF GettingMap, map
      <4>2. s2.reads[Key(t)] = db[Key(t)] /\ Key(t) \in DOMAIN s2.reads
        BY <1>1, <1>3, <3>3, <3>6, <4>1 DEF Sees, At
      <4>3. s2.reads[map] = s.reads[map] /\ At(s2.reads, map) # None
        BY <1>1, <3>3, <3>4, <3>6 DEF At
      <4>4. "absent" \notin DOMAIN db[Key(t)] /\ "absent" \in DOMAIN None
        BY <1>2, <4>1 DEF TypedRows, None
      <4>5. At(s2.reads, Key(t)) # None
        BY <4>2, <4>4 DEF At
      <4>6. s2.pc = 4
        BY <1>1, <3>6
      <4> QED BY <1>1, <3>6, <4>1, <4>2, <4>3, <4>5, <4>6 DEF GettingMap, map
    <3> QED BY <1>1, <3>2, <3>3, <3>5, <3>6
  <2> QED BY <2>1, <2>2
<1> QED BY <1>1, <1>5, <1>8, <1>9, <1>10 DEF KeysSession, t

\* The tenant of a session exists, and only an operator's session may have none.
LEMMA OwnerExists ==
  ASSUME NEW n, NEW called, NEW c, NEW s, Running(n, called, c, s),
         \/ s.q.op \in Unrouted
         \/ s.q.op \in Routes /\ s.pc > 1 /\ Passed(s.q, s.began)
  PROVE  Settings(Owner(s.q, s.began)) \in DOMAIN db
<1>1. CASE s.q.op \in Unrouted
  BY <1>1, RunningFacts DEF Owner
<1>2. CASE Passed(s.q, s.began) /\ s.pc > 1 /\ s.q.op \in Routes
  <2> DEFINE row == Token(s.q.token)
  <2>1. row \in DOMAIN s.began /\ At(s.began, row) # None
    BY <1>2 DEF Passed, Live, At
  <2>2. Owner(s.q, s.began) = s.began[row].t
    BY <1>2, <2>1 DEF Owner, Column, Routes, Unrouted
  <2>3. Settings(s.began[row].t) \in DOMAIN db
    <3>1. BeganSession(db, s) /\ row[1] = "tenant_tokens"
      BY DEF Running, Token
    <3> QED BY <1>2, <2>1, <3>1 DEF BeganSession
  <2> QED BY <2>2, <2>3
<1> QED BY <1>1, <1>2

\* The statements of a method that changes a setting.
LEMMA SetterAt ==
  ASSUME NEW n, NEW called, NEW c, NEW s, Running(n, called, c, s),
         s.q.op \in DOMAIN Setters, SessionAt(c, s).do # "return",
         NEW t, t = Owner(s.q, s.began)
  PROVE  LET name == Setters[s.q.op]
             at == WrittenAt(s.q.op)
             st == SessionAt(c, s) IN
         /\ at \in {1, 2} /\ RecordedAt(s.q.op) = at + 1
         /\ s.pc < at \/ s.pc = at \/ s.pc = at + 1
         /\ s.pc < at => st.do = "select"
         /\ s.pc = at =>
               /\ st.do \in {"upsert", "update"} /\ ~st.own /\ st.row = Home(name, t)
               /\ DOMAIN st.set = {ColumnOf(name)} /\ st.set[ColumnOf(name)] = s.q.v
               /\ st.do = "update" => Home(name, t) = Settings(t)
         /\ s.pc = at + 1 => st = Audit(t, Operation[name], name, s.q.v)
         /\ s.q.op \in Unrouted \/ s.pc > 1 => Settings(t) \in DOMAIN db
<1> DEFINE st == SessionAt(c, s)
<1>1. s.pc \in Nat \ {0} /\ Legal(s.q) /\ IsFiniteSet(DOMAIN db)
  BY RunningFacts
<1>2. s.q.op \in {"setResidency", "setRedactionOptout", "setRetentionDays", "setRolloutPolicy",
                  "setBenchmarkOptin"}
  BY DEF Setters
<1>3. CASE s.q.op = "setResidency"
  <2> DEFINE write == Update(Settings(t), [residency |-> s.q.v])
             record == Audit(t, "retention", "residency", s.q.v)
  <2>2. /\ s.pc = 1 => st = write
        /\ s.pc = 2 => st = record
        /\ s.pc > 2 => st = Refuse("200")
    BY <1>1, <1>3, SetResidencyAt
  <2>3. Settings(t) \in DOMAIN db
    BY <1>3, OwnerExists DEF Unrouted
  <2>4. /\ write.do = "update" /\ ~write.own /\ write.row = Settings(t)
        /\ DOMAIN write.set = {"residency"} /\ write.set["residency"] = s.q.v /\ Refuse("200").do = "return"
    BY Kinds
  <2>5. /\ Setters[s.q.op] = "residency" /\ RecordedAt(s.q.op) = 2 /\ WrittenAt(s.q.op) = 1 /\ Operation["residency"] = "retention"
        /\ Home("residency", t) = Settings(t) /\ ColumnOf("residency") = "residency"
    BY <1>3 DEF Setters, RecordedAt, WrittenAt, Operation, Home, ColumnOf
  <2> HIDE DEF st, write
  <2> QED BY <1>1, <2>2, <2>3, <2>4, <2>5 DEF st
<1>4. CASE s.q.op = "setRedactionOptout"
  <2> DEFINE write == Update(Settings(t), [redaction |-> s.q.v])
             record == Audit(t, "retention", "redaction", s.q.v)
  <2>2. /\ s.pc = 1 => st = write
        /\ s.pc = 2 => st = record
        /\ s.pc > 2 => st = Refuse("200")
    BY <1>1, <1>4, SetRedactionOptoutAt
  <2>3. Settings(t) \in DOMAIN db
    BY <1>4, OwnerExists DEF Unrouted
  <2>4. /\ write.do = "update" /\ ~write.own /\ write.row = Settings(t)
        /\ DOMAIN write.set = {"redaction"} /\ write.set["redaction"] = s.q.v /\ Refuse("200").do = "return"
    BY Kinds
  <2>5. /\ Setters[s.q.op] = "redaction" /\ RecordedAt(s.q.op) = 2 /\ WrittenAt(s.q.op) = 1 /\ Operation["redaction"] = "retention"
        /\ Home("redaction", t) = Settings(t) /\ ColumnOf("redaction") = "redaction"
    BY <1>4 DEF Setters, RecordedAt, WrittenAt, Operation, Home, ColumnOf
  <2> HIDE DEF st, write
  <2> QED BY <1>1, <2>2, <2>3, <2>4, <2>5 DEF st
<1>5. CASE s.q.op = "setRetentionDays"
  <2> DEFINE write == Update(Settings(t), [retention |-> s.q.v])
             record == Audit(t, "retention", "retention", s.q.v)
             token == Select({Settings(t)})
  <2>2. /\ s.pc = 1 => st = token
        /\ s.pc = 2 => st = write
        /\ s.pc = 3 => st = record
        /\ s.pc > 3 => st = Refuse("200")
    BY <1>1, <1>5, SetRetentionDaysAt
  <2>3. Settings(t) \in DOMAIN db
    BY <1>5, OwnerExists DEF Unrouted
  <2>4. /\ write.do = "update" /\ ~write.own /\ write.row = Settings(t)
        /\ DOMAIN write.set = {"retention"} /\ write.set["retention"] = s.q.v /\ Refuse("200").do = "return"
        /\ token.do = "select"
    BY Kinds
  <2>5. /\ Setters[s.q.op] = "retention" /\ RecordedAt(s.q.op) = 3 /\ WrittenAt(s.q.op) = 2 /\ Operation["retention"] = "retention"
        /\ Home("retention", t) = Settings(t) /\ ColumnOf("retention") = "retention"
    BY <1>5 DEF Setters, RecordedAt, WrittenAt, Operation, Home, ColumnOf
  <2> HIDE DEF st, write, token
  <2> QED BY <1>1, <2>2, <2>3, <2>4, <2>5 DEF st
<1>6. CASE s.q.op = "setRolloutPolicy"
  <2> DEFINE write == Upsert(Policy(t), [policy |-> s.q.v])
             record == Audit(t, "autonomy", "policy", s.q.v)
  <2>2. /\ s.pc = 1 => st = write
        /\ s.pc = 2 => st = record
        /\ s.pc > 2 => st = Refuse("200")
    BY <1>1, <1>6, SetRolloutPolicyAt
  <2>3. Settings(t) \in DOMAIN db
    BY <1>6, OwnerExists DEF Unrouted
  <2>4. /\ write.do = "upsert" /\ ~write.own /\ write.row = Policy(t)
        /\ DOMAIN write.set = {"policy"} /\ write.set["policy"] = s.q.v /\ Refuse("200").do = "return"
    BY Kinds
  <2>5. /\ Setters[s.q.op] = "policy" /\ RecordedAt(s.q.op) = 2 /\ WrittenAt(s.q.op) = 1 /\ Operation["policy"] = "autonomy"
        /\ Home("policy", t) = Policy(t) /\ ColumnOf("policy") = "policy"
    BY <1>6 DEF Setters, RecordedAt, WrittenAt, Operation, Home, ColumnOf
  <2> HIDE DEF st, write
  <2> QED BY <1>1, <2>2, <2>3, <2>4, <2>5 DEF st
<1>7. CASE s.q.op = "setBenchmarkOptin"
  <2> DEFINE write == Upsert(Optin(t), [opted_in |-> s.q.v])
             record == Audit(t, "benchmark", "optin", s.q.v)
             token == Select({Token(s.q.token)})
  <2>1. s.pc > 1 => Passed(s.q, s.began)
    BY <1>7, PassedNow DEF Routes
  <2>2. /\ s.pc = 1 => st = token
        /\ s.pc = 2 => st = write
        /\ s.pc = 3 => st = record
        /\ s.pc > 3 => st = Refuse("200")
    <3>1. CASE s.pc = 1
      BY <1>1, <1>7, <3>1, RouteAt DEF Routes
    <3>2. CASE s.pc > 1
      BY <1>1, <1>7, <2>1, <3>2, SetBenchmarkOptinAt
    <3> QED BY <1>1, <3>1, <3>2
  <2>3. (s.pc > 1 => Settings(t) \in DOMAIN db) /\ s.q.op \notin Unrouted
    BY <1>1, <1>7, <2>1, OwnerExists DEF Routes, Unrouted
  <2>4. /\ write.do = "upsert" /\ ~write.own /\ write.row = Optin(t)
        /\ DOMAIN write.set = {"opted_in"} /\ write.set["opted_in"] = s.q.v /\ Refuse("200").do = "return"
        /\ token.do = "select"
    BY Kinds
  <2>5. /\ Setters[s.q.op] = "optin" /\ RecordedAt(s.q.op) = 3 /\ WrittenAt(s.q.op) = 2 /\ Operation["optin"] = "benchmark"
        /\ Home("optin", t) = Optin(t) /\ ColumnOf("optin") = "opted_in"
    BY <1>7 DEF Setters, RecordedAt, WrittenAt, Operation, Home, ColumnOf
  <2> HIDE DEF st, write, token
  <2> QED BY <1>1, <2>2, <2>3, <2>4, <2>5 DEF st
<1> QED BY <1>2, <1>3, <1>4, <1>5, <1>6, <1>7

\* A later session with the same writes has recorded no less.
LEMMA AuditWritesStay ==
  ASSUME NEW f, NEW t, NEW s, NEW s2, AuditWrites(f, t, s), s2.q = s.q, s2.writes = s.writes,
         s.pc \in Nat, s2.pc = s.pc + 1
  PROVE  AuditWrites(f, t, s2)
<1>1. RecordedAt(s.q.op) \in {2, 3}
  BY DEF RecordedAt
<1>2. s.pc > RecordedAt(s.q.op) => s2.pc > RecordedAt(s.q.op)
  BY <1>1
<1> QED BY <1>2 DEF AuditWrites

\* createTenant writes the tenant's row first.
LEMMA CreateTenantFirst ==
  ASSUME NEW n, NEW called, NEW c, NEW s, Running(n, called, c, s), s.q.op = "createTenant"
  PROVE  /\ s.pc = 1 => /\ SessionAt(c, s).do = "insert" /\ ~SessionAt(c, s).own
                        /\ SessionAt(c, s).row = Settings(NewTenant(c))
                        /\ DOMAIN SessionAt(c, s).set = Columns
         /\ s.pc = 2 => /\ SessionAt(c, s).do = "insert" /\ SessionAt(c, s).row[1] = "tenant_tokens"
                        /\ SessionAt(c, s).set.t = NewTenant(c) /\ "t" \in DOMAIN SessionAt(c, s).set
         /\ s.pc = 3 => SessionAt(c, s) = Audit(NewTenant(c), "seed", "taxonomy", "active")
         /\ s.pc > 3 => SessionAt(c, s).do = "return"
<1> DEFINE st == SessionAt(c, s)
           tenant == Insert(Settings(NewTenant(c)), [retention |-> "365", redaction |-> "on",
                                                     residency |-> "us"])
           token == Insert(Token(RandomUUID(c)), [t |-> NewTenant(c), scope |-> "api:full",
                                                  revoked |-> FALSE])
           record == Audit(NewTenant(c), "seed", "taxonomy", "active")
<1>1. s.pc \in Nat \ {0} /\ Legal(s.q)
  BY RunningFacts
<1>2. /\ s.pc = 1 => st = tenant
      /\ s.pc = 2 => st = token
      /\ s.pc = 3 => st = record
      /\ s.pc > 3 => st = Refuse("200")
  BY <1>1, CreateTenantAt
<1>3. /\ tenant.do = "insert" /\ ~tenant.own /\ tenant.row = Settings(NewTenant(c))
      /\ DOMAIN tenant.set = Columns
      /\ token.do = "insert" /\ token.row[1] = "tenant_tokens"
      /\ token.set.t = NewTenant(c) /\ "t" \in DOMAIN token.set
      /\ Refuse("200").do = "return"
  BY Kinds DEF Columns, Token
<1> HIDE DEF st, tenant, token
<1> QED BY <1>2, <1>3 DEF st

LEMMA SettingsSelect ==
  ASSUME NEW n, NEW called, NEW c, NEW s, NEW s2, Running(n, called, c, s),
         Selects(s, s2, SessionAt(c, s))
  PROVE  SettingsSession(db, c, s2)
<1> DEFINE t == Owner(s2.q, s2.began)
           st == SessionAt(c, s)
<1>1. /\ st.do = "select" /\ s2.q = s.q /\ s2.pc = s.pc + 1 /\ s2.writes = s.writes
      /\ s.pc # 1 \/ s.q.op \in Unrouted => t = Owner(s.q, s.began)
  BY SelectIs
<1>2. s.pc \in Nat \ {0} /\ (s.pc = 1 => s.writes = NoRows) /\ DOMAIN NoRows = {}
  BY RunningFacts DEF NoRows
<1>3. SettingsSession(db, c, s)
  BY DEF Running, SessionInv
<1> HIDE DEF t, st
<1>4. TenantWrites(db, s.q.op, t, s2.writes) /\ TokenWrites(db, s2.writes) /\ AuditWrites(db, t, s2)
  <2>1. CASE s.pc = 1
    <3>1. DOMAIN s2.writes = {}
      BY <1>1, <1>2, <2>1
    <3> QED BY <3>1 DEF TenantWrites, TokenWrites, AuditWrites
  <2>2. CASE s.pc # 1
    <3>1. TenantWrites(db, s.q.op, t, s.writes) /\ TokenWrites(db, s.writes) /\ AuditWrites(db, t, s)
      BY <1>1, <1>3, <2>2 DEF SettingsSession
    <3> QED BY <1>1, <1>2, <3>1, AuditWritesStay
  <2> QED BY <2>1, <2>2
<1>5. ASSUME s.q.op = "createTenant" PROVE Settings(NewTenant(c)) \in DOMAIN s2.writes
  <2>1. s.pc # 1
    BY <1>1, <1>5, CreateTenantFirst DEF st
  <2> QED BY <1>1, <1>2, <1>3, <1>5, <2>1 DEF SettingsSession
<1>6. ASSUME s.q.op \in DOMAIN Setters PROVE SetAndRecorded(t, s2)
  <2> DEFINE u == Owner(s.q, s.began)
             name == Setters[s.q.op]
             at == WrittenAt(s.q.op)
             record == Audit(u, Operation[name], name, s.q.v)
  <2>1. /\ at \in {1, 2} /\ RecordedAt(s.q.op) = at + 1
        /\ s.pc < at \/ s.pc = at \/ s.pc = at + 1
        /\ s.pc = at => st.do \in {"upsert", "update"}
        /\ s.pc = at + 1 => st = record
    BY <1>1, <1>6, SetterAt DEF st
  <2>2. record.do = "append"
    BY Kinds
  <2> HIDE DEF record, at
  <2>3. s.pc < at
    BY <1>1, <2>1, <2>2
  <2>4. ~(s2.pc >= RecordedAt(s.q.op)) /\ ~(s2.pc > RecordedAt(s.q.op))
    BY <1>1, <1>2, <2>1, <2>3
  <2> QED BY <1>1, <2>4 DEF SetAndRecorded
<1> QED BY <1>1, <1>4, <1>5, <1>6 DEF SettingsSession, t

LEMMA SettingsPass ==
  ASSUME NEW n, NEW called, NEW c, NEW s, NEW s2, Running(n, called, c, s),
         Passes(s, s2, SessionAt(c, s))
  PROVE  SettingsSession(db, c, s2)
<1> DEFINE t == Owner(s.q, s.began)
           st == SessionAt(c, s)
<1>1. /\ st.do \in {"insert", "upsert", "update", "append"}
      /\ st.do # "update" => st.own
      /\ ~st.own => Sees(s, st.row) = None
      /\ Owner(s2.q, s2.began) = t /\ s2.q = s.q /\ s2.pc = s.pc + 1 /\ s2.writes = s.writes
      /\ s.q.op \notin Unrouted => s.pc > 1
  BY PassIs
<1>2. s.pc \in Nat \ {0} /\ TypedRows(db, n) /\ TypedWrites(db, n, s.q.op, s.writes)
  BY RunningFacts
<1>3. SettingsSession(db, c, s)
  BY DEF Running, SessionInv
<1> HIDE DEF st
<1>4. TenantWrites(db, s.q.op, t, s2.writes) /\ TokenWrites(db, s2.writes) /\ AuditWrites(db, t, s2)
  <2>1. TenantWrites(db, s.q.op, t, s.writes) /\ TokenWrites(db, s.writes) /\ AuditWrites(db, t, s)
    BY <1>3 DEF SettingsSession
  <2> QED BY <1>1, <1>2, <2>1, AuditWritesStay
<1>5. ASSUME s.q.op = "createTenant" PROVE Settings(NewTenant(c)) \in DOMAIN s2.writes
  <2>1. s.pc # 1
    BY <1>1, <1>5, CreateTenantFirst DEF st
  <2> QED BY <1>1, <1>2, <1>3, <1>5, <2>1 DEF SettingsSession
<1>6. s.q.op \notin DOMAIN Setters
  <2> SUFFICES ASSUME s.q.op \in DOMAIN Setters PROVE FALSE
    OBVIOUS
  <2> DEFINE name == Setters[s.q.op]
             at == WrittenAt(s.q.op)
             record == Audit(t, Operation[name], name, s.q.v)
  <2>1. /\ s.pc < at \/ s.pc = at \/ s.pc = at + 1
        /\ s.pc < at => st.do = "select"
        /\ s.pc = at =>
              /\ ~st.own /\ st.row = Home(name, t)
              /\ st.do = "update" => Home(name, t) = Settings(t)
        /\ s.pc = at + 1 => st = record
        /\ s.q.op \in Unrouted \/ s.pc > 1 => Settings(t) \in DOMAIN db
    BY <1>1, SetterAt DEF st
  <2>2. record.do = "append" /\ ~record.own
    BY Kinds
  <2>3. Sees(s, Settings(t)) # None
    BY <1>1, <1>2, <2>1, SeesIs
  <2> HIDE DEF record, at
  <2> QED BY <1>1, <2>1, <2>2, <2>3
<1> HIDE DEF t
<1>7. Owner(s2.q, s2.began) = t
  BY <1>1
<1> QED BY <1>1, <1>4, <1>5, <1>6, <1>7 DEF SettingsSession

\* What a method that changes a setting writes: the setting, and then its record.
LEMMA SettingHeld ==
  ASSUME NEW n, NEW called, NEW c, NEW s, NEW s2, NEW row, NEW columns,
         Running(n, called, c, s), Holds(n, s, s2, SessionAt(c, s), row, columns),
         s.q.op \in DOMAIN Setters, NEW t, t = Owner(s.q, s.began)
  PROVE  LET name == Setters[s.q.op]
             at == WrittenAt(s.q.op) IN
         /\ s.pc \in {at, at + 1} /\ at \in {1, 2} /\ RecordedAt(s.q.op) = at + 1
         /\ s.pc = at =>
               /\ row = Home(name, t)
               /\ ColumnOf(name) \in DOMAIN columns /\ columns[ColumnOf(name)] = s.q.v
               /\ row \in DOMAIN s.writes =>
                     \A x \in DOMAIN s.writes[row] :
                        x \in DOMAIN columns /\ (x # ColumnOf(name) => columns[x] = s.writes[row][x])
               /\ row \notin DOMAIN s.writes /\ row \in DOMAIN db =>
                     \A x \in DOMAIN db[row] :
                        x \in DOMAIN columns /\ (x # ColumnOf(name) => columns[x] = db[row][x])
         /\ s.pc = at + 1 =>
               /\ row = <<"audit_log", t, n>>
               /\ RecordsSetting(columns, name) /\ columns.after = s.q.v
<1> DEFINE st == SessionAt(c, s)
           name == Setters[s.q.op]
           at == WrittenAt(s.q.op)
           record == Audit(t, Operation[name], name, s.q.v)
<1>1. /\ Wrote(n, s, st, row, columns) /\ st.do \in {"insert", "upsert", "update", "append"}
  BY HoldIs
<1>2. /\ s.pc \in Nat \ {0} /\ TypedRows(db, n) /\ TypedWrites(db, n, s.q.op, s.writes)
      /\ Allowed(s.q.op, t, st)
  BY RunningFacts, StatementAllowed
<1>3. /\ at \in {1, 2} /\ RecordedAt(s.q.op) = at + 1
      /\ s.pc < at \/ s.pc = at \/ s.pc = at + 1
      /\ s.pc < at => st.do = "select"
      /\ s.pc = at =>
            /\ st.do \in {"upsert", "update"} /\ st.row = Home(name, t)
            /\ DOMAIN st.set = {ColumnOf(name)} /\ st.set[ColumnOf(name)] = s.q.v
      /\ s.pc = at + 1 => st = record
  BY <1>1, SetterAt
<1>4. /\ record.do = "append" /\ record.table = "audit_log" /\ record.t = t
      /\ record.set = [operation |-> Operation[name], event |-> name, after |-> s.q.v]
  BY Kinds
<1> HIDE DEF st, at, record
<1>5. s.pc = at \/ s.pc = at + 1
  BY <1>1, <1>3
<1>6. CASE s.pc = at
  <2>1. /\ st.do \in {"upsert", "update"} /\ st.row = Home(name, t)
        /\ DOMAIN st.set = {ColumnOf(name)} /\ st.set[ColumnOf(name)] = s.q.v
    BY <1>3, <1>6
  <2>2. /\ \A x \in DOMAIN st.set : x \in DOMAIN columns /\ columns[x] = st.set[x]
        /\ row = st.row
        /\ row \in DOMAIN s.writes =>
              \A x \in DOMAIN s.writes[row] :
                 /\ x \in DOMAIN columns
                 /\ x \notin DOMAIN st.set => columns[x] = s.writes[row][x]
        /\ row \notin DOMAIN s.writes /\ row \in DOMAIN db =>
              \A x \in DOMAIN db[row] :
                 /\ x \in DOMAIN columns
                 /\ x \notin DOMAIN st.set => columns[x] = db[row][x]
    BY <1>1, <1>2, <2>1, WroteIs
  <2>3. s.pc # at + 1
    BY <1>3, <1>6
  <2> QED BY <1>3, <1>6, <2>1, <2>2, <2>3 DEF at
<1>7. CASE s.pc = at + 1
  <2>1. row = <<"audit_log", t, n>> /\ columns = record.set
    BY <1>1, <1>3, <1>4, <1>7 DEF Wrote
  <2>2. s.pc # at
    BY <1>3, <1>7
  <2> QED BY <1>3, <1>4, <1>7, <2>1, <2>2 DEF RecordsSetting, at
<1> QED BY <1>5, <1>6, <1>7

\* What a session writes of a tenant's settings.
LEMMA TenantHeld ==
  ASSUME NEW n, NEW called, NEW c, NEW s, NEW s2, NEW row, NEW columns,
         Running(n, called, c, s), Holds(n, s, s2, SessionAt(c, s), row, columns),
         NEW t, t = Owner(s.q, s.began)
  PROVE  /\ row[1] = "tenants" =>
               /\ row = Settings(row[2]) /\ Columns \subseteq DOMAIN columns
               /\ row \in DOMAIN db =>
                     /\ s.q.op \in {"setResidency", "setRedactionOptout", "setRetentionDays"}
                     /\ row[2] = t
                     /\ \A col \in Columns \ {Setters[s.q.op]} : columns[col] = db[row][col]
         /\ row[1] = "benchmark_optin" => row = Optin(t)
         /\ row[1] = "rollout_policies" => row = Policy(t)
<1> DEFINE st == SessionAt(c, s)
           op == s.q.op
<1>1. /\ row[1] \notin Sequenced => MayWrite(op, row[1])
      /\ st.do = "append" <=> row[1] \in Sequenced
  BY HeldRow
<1>2. /\ Wrote(n, s, st, row, columns) /\ Allowed(op, t, st) /\ s.pc \in Nat \ {0}
      /\ TypedRows(db, n) /\ TypedWrites(db, n, op, s.writes)
  BY HoldIs, RunningFacts, StatementAllowed
<1>3. TenantWrites(db, op, t, s.writes) /\ TenantsExist(db)
  BY DEF Running, SessionInv, SettingsSession, RowsInv
<1>4. ASSUME row[1] = "benchmark_optin" PROVE row = Optin(t)
  <2>1. op = "setBenchmarkOptin"
    BY <1>1, <1>4 DEF MayWrite, Sequenced
  <2>2. op \in DOMAIN Setters /\ Setters[op] = "optin" /\ Home("optin", t) = Optin(t)
    BY <2>1 DEF Setters, Home
  <2>3. row = Home("optin", t) \/ row = <<"audit_log", t, n>>
    BY <2>2, SettingHeld
  <2> QED BY <1>4, <2>2, <2>3
<1>5. ASSUME row[1] = "rollout_policies" PROVE row = Policy(t)
  <2>1. op = "setRolloutPolicy"
    BY <1>1, <1>5 DEF MayWrite, Sequenced
  <2>2. op \in DOMAIN Setters /\ Setters[op] = "policy" /\ Home("policy", t) = Policy(t)
    BY <2>1 DEF Setters, Home
  <2>3. row = Home("policy", t) \/ row = <<"audit_log", t, n>>
    BY <2>2, SettingHeld
  <2> QED BY <1>5, <2>2, <2>3
<1>6. ASSUME row[1] = "tenants"
      PROVE  /\ row = Settings(row[2]) /\ Columns \subseteq DOMAIN columns
             /\ row \in DOMAIN db =>
                   /\ op \in {"setResidency", "setRedactionOptout", "setRetentionDays"}
                   /\ row[2] = t
                   /\ \A col \in Columns \ {Setters[op]} : columns[col] = db[row][col]
  <2>1. op \in {"createTenant", "setResidency", "setRedactionOptout", "setRetentionDays"}
    BY <1>1, <1>6 DEF MayWrite, Sequenced
  <2>2. st.do # "append"
    BY <1>1, <1>6 DEF Sequenced
  <2>3. CASE op = "createTenant"
    <3>1. /\ s.pc = 1 => /\ st.do = "insert" /\ st.row = Settings(NewTenant(c))
                         /\ DOMAIN st.set = Columns
          /\ s.pc = 2 => st.do = "insert" /\ st.row[1] = "tenant_tokens"
          /\ s.pc = 3 => st = Audit(NewTenant(c), "seed", "taxonomy", "active")
          /\ s.pc > 3 => st.do = "return"
      BY <2>3, CreateTenantFirst
    <3>2. Audit(NewTenant(c), "seed", "taxonomy", "active").do = "append"
      BY Kinds
    <3> HIDE DEF st
    <3>3. st.do \in {"insert", "upsert", "update"} /\ row = st.row
      BY <1>2, <2>2 DEF Wrote
    <3>4. s.pc = 1
      BY <1>2, <1>6, <2>2, <3>1, <3>2, <3>3
    <3>5. row \notin DOMAIN s.writes /\ row \notin DOMAIN db /\ columns = st.set
      BY <1>2, <3>1, <3>4, WroteIs
    <3> QED BY <3>1, <3>3, <3>4, <3>5 DEF Settings
  <2>4. CASE op \in {"setResidency", "setRedactionOptout", "setRetentionDays"}
    <3> DEFINE name == Setters[op]
               at == WrittenAt(op)
    <3>1. op \in DOMAIN Setters /\ name \in Columns /\ Home(name, t) = Settings(t) /\ ColumnOf(name) = name
      BY <2>4 DEF Setters, Columns, Home, ColumnOf
    <3>2. /\ s.pc = at => row = Home(name, t)
          /\ s.pc = at =>
                /\ ColumnOf(name) \in DOMAIN columns
                /\ row \in DOMAIN s.writes =>
                      \A x \in DOMAIN s.writes[row] :
                         x \in DOMAIN columns /\ (x # ColumnOf(name) => columns[x] = s.writes[row][x])
                /\ row \notin DOMAIN s.writes /\ row \in DOMAIN db =>
                      \A x \in DOMAIN db[row] :
                         x \in DOMAIN columns /\ (x # ColumnOf(name) => columns[x] = db[row][x])
          /\ s.pc \in {at, at + 1}
          /\ s.pc = at + 1 => row = <<"audit_log", t, n>>
      BY <3>1, SettingHeld
    <3> HIDE DEF st, name, at
    <3>3. s.pc = at /\ row = Settings(t)
      BY <1>6, <3>1, <3>2
    <3>4. Settings(t)[2] = t /\ row \in DOMAIN db
      <4>1. op \in Unrouted
        BY <2>4 DEF Unrouted
      <4> QED BY <3>3, <4>1, OwnerExists DEF Settings
    <3>5. Columns \subseteq DOMAIN db[row]
      BY <1>3, <1>6, <3>4 DEF TenantsExist
    <3>6. CASE row \in DOMAIN s.writes
      <4>1. /\ Columns \subseteq DOMAIN s.writes[row]
            /\ \A col \in Columns \ {Setters[op]} : s.writes[row][col] = db[row][col]
        BY <1>3, <1>6, <3>4, <3>6 DEF TenantWrites
      <4> QED BY <2>4, <3>1, <3>2, <3>3, <3>4, <3>6, <4>1 DEF name
    <3>7. CASE row \notin DOMAIN s.writes
      BY <2>4, <3>1, <3>2, <3>3, <3>4, <3>5, <3>7 DEF name
    <3> QED BY <3>6, <3>7
  <2> QED BY <2>1, <2>3, <2>4
<1> QED BY <1>4, <1>5, <1>6

\* What a session writes of a token.
LEMMA TokenHeld ==
  ASSUME NEW n, NEW called, NEW c, NEW s, NEW s2, NEW row, NEW columns,
         Running(n, called, c, s), Holds(n, s, s2, SessionAt(c, s), row, columns),
         row[1] = "tenant_tokens"
  PROVE  /\ {"t", "scope"} \subseteq DOMAIN columns
         /\ Settings(columns.t) \in DOMAIN db \cup DOMAIN s.writes
         /\ row \in DOMAIN db => columns.t = db[row].t /\ columns.scope = db[row].scope
<1> DEFINE st == SessionAt(c, s)
           op == s.q.op
           t == Owner(s.q, s.began)
<1>1. /\ MayWrite(op, row[1]) /\ st.do # "append"
  BY HeldRow DEF Sequenced
<1>2. /\ Wrote(n, s, st, row, columns) /\ Allowed(op, t, st) /\ s.pc \in Nat \ {0}
      /\ TypedRows(db, n) /\ TypedWrites(db, n, op, s.writes) /\ Legal(s.q) /\ IsFiniteSet(DOMAIN db)
      /\ s.q.op \notin Unrouted => s.pc > 1
  BY HoldIs, RunningFacts, StatementAllowed
<1>3. /\ TokenWrites(db, s.writes) /\ TenantsExist(db)
      /\ op = "createTenant" /\ s.pc > 1 => Settings(NewTenant(c)) \in DOMAIN s.writes
  BY DEF Running, SessionInv, SettingsSession, RowsInv
<1>4. st.do \in {"insert", "upsert", "update"} /\ row = st.row
  BY <1>1, <1>2 DEF Wrote
<1>5. op \in {"createTenant", "issueToken", "revokeToken"}
  BY <1>1 DEF MayWrite
<1>6. op \in {"issueToken", "revokeToken"} =>
         op \in Routes /\ s.pc > 1 /\ Passed(s.q, s.began)
  BY <1>2, <1>4, PassedNow DEF Routes, Unrouted
<1>7. CASE op = "createTenant"
  <2>1. st = Insert(Token(RandomUUID(c)), [t |-> NewTenant(c), scope |-> "api:full",
                                           revoked |-> FALSE])
        /\ s.pc = 2
    <3> DEFINE token == Insert(Token(RandomUUID(c)), [t |-> NewTenant(c), scope |-> "api:full",
                                                      revoked |-> FALSE])
               tenant == Insert(Settings(NewTenant(c)), [retention |-> "365", redaction |-> "on",
                                                         residency |-> "us"])
               record == Audit(NewTenant(c), "seed", "taxonomy", "active")
    <3>1. /\ s.pc = 1 => st = tenant
          /\ s.pc = 2 => st = token
          /\ s.pc = 3 => st = record
          /\ s.pc > 3 => st = Refuse("200")
      BY <1>2, <1>7, CreateTenantAt
    <3>2. tenant.row[1] = "tenants" /\ record.do = "append" /\ Refuse("200").do = "return"
      BY Kinds DEF Settings
    <3> HIDE DEF st, tenant, token, record
    <3> QED BY <1>1, <1>2, <1>4, <3>1, <3>2 DEF token
  <2>2. /\ st.do = "insert" /\ st.set.t = NewTenant(c) /\ {"t", "scope"} \subseteq DOMAIN st.set
    BY <2>1, Kinds
  <2> HIDE DEF st
  <2>3. columns = st.set /\ row \notin DOMAIN db
    BY <1>2, <2>2, WroteIs
  <2> QED BY <1>3, <1>7, <2>1, <2>2, <2>3
<1>8. CASE op = "issueToken"
  <2> DEFINE token == Insert(Token(RandomUUID(c)), [t |-> t, scope |-> s.q.v, revoked |-> FALSE])
             record == Audit(t, "token", ToString(RandomUUID(c)), "issued")
  <2>1. /\ s.pc = 2 => st = token
        /\ s.pc = 3 => st = record
        /\ s.pc > 3 => st = Refuse("200")
    BY <1>2, <1>6, <1>8, IssueTokenAt
  <2>2. /\ token.do = "insert" /\ token.set.t = t /\ {"t", "scope"} \subseteq DOMAIN token.set
        /\ record.do = "append" /\ Refuse("200").do = "return"
    BY Kinds
  <2>3. Settings(t) \in DOMAIN db
    BY <1>6, <1>8, OwnerExists
  <2> HIDE DEF st, token, record, t
  <2>4. st = token
    BY <1>1, <1>2, <1>4, <1>6, <1>8, <2>1, <2>2
  <2>5. columns = st.set /\ row \notin DOMAIN db
    BY <1>2, <2>2, <2>4, WroteIs
  <2> QED BY <2>2, <2>3, <2>4, <2>5
<1>9. CASE op = "revokeToken"
  <2> DEFINE revoke == Update(Token(s.q.id), [revoked |-> TRUE])
             record == Audit(t, "token", ToString(s.q.id), "revoked")
             read == Select({Token(s.q.id)})
             found == Live(s.reads, Token(s.q.id)) /\ At(s.reads, Token(s.q.id)).t = t
  <2>1. /\ s.pc = 2 => st = read
        /\ s.pc = 3 /\ ~found => st = Refuse("404")
        /\ s.pc > 3 /\ ~found => st = Refuse("200")
        /\ s.pc = 3 /\ found => st = revoke
        /\ s.pc = 4 /\ found => st = record
        /\ s.pc > 4 => st = Refuse("200")
    BY <1>2, <1>6, <1>9, RevokeTokenAt
  <2>2. /\ revoke.do = "update" /\ DOMAIN revoke.set = {"revoked"}
        /\ record.do = "append" /\ Refuse("200").do = "return" /\ Refuse("404").do = "return"
        /\ read.do = "select"
    BY Kinds
  <2> HIDE DEF st, revoke, record, found, read
  <2>3. st = revoke
    <3>1. s.pc = 2 \/ s.pc = 3 \/ s.pc = 4 \/ s.pc > 4
      BY <1>2, <1>6, <1>9
    <3>2. s.pc = 4 => s.pc > 3
      OBVIOUS
    <3> QED BY <1>1, <1>2, <1>4, <2>1, <2>2, <3>1, <3>2
  <2>4. /\ row \in DOMAIN s.writes =>
              \A x \in DOMAIN s.writes[row] :
                 x \in DOMAIN columns /\ (x # "revoked" => columns[x] = s.writes[row][x])
        /\ row \notin DOMAIN s.writes /\ row \in DOMAIN db =>
              \A x \in DOMAIN db[row] :
                 x \in DOMAIN columns /\ (x # "revoked" => columns[x] = db[row][x])
    BY <1>2, <2>2, <2>3, WroteIs
  <2>5. row \in DOMAIN s.writes \/ row \in DOMAIN db
    <3>1. Sees(s, row) # None
      BY <1>2, <2>2, <2>3 DEF Wrote
    <3> QED BY <1>2, <3>1, SeesIs
  <2>6. CASE row \in DOMAIN s.writes
    <3>1. /\ {"t", "scope"} \subseteq DOMAIN s.writes[row]
          /\ Settings(s.writes[row].t) \in DOMAIN db \cup DOMAIN s.writes
          /\ row \in DOMAIN db => s.writes[row].t = db[row].t /\ s.writes[row].scope = db[row].scope
      BY <1>3, <2>6 DEF TokenWrites
    <3> QED BY <2>4, <2>6, <3>1
  <2>7. CASE row \notin DOMAIN s.writes
    <3>1. {"t", "scope"} \subseteq DOMAIN db[row] /\ Settings(db[row].t) \in DOMAIN db
      BY <1>3, <2>5, <2>7 DEF TenantsExist
    <3> QED BY <2>4, <2>5, <2>7, <3>1
  <2> QED BY <2>6, <2>7
<1> QED BY <1>5, <1>7, <1>8, <1>9

\* The record a session writes: for the tenant it is of, and of a setting only when it set it.
LEMMA AuditHeld ==
  ASSUME NEW n, NEW called, NEW c, NEW s, NEW s2, NEW row, NEW columns,
         Running(n, called, c, s), Holds(n, s, s2, SessionAt(c, s), row, columns),
         row[1] = "audit_log", NEW t, t = Owner(s.q, s.began)
  PROVE  /\ row = <<"audit_log", row[2], n>> /\ row \notin DOMAIN db /\ row \notin DOMAIN s.writes
         /\ Settings(row[2]) \in DOMAIN db \cup DOMAIN s.writes
         /\ \A name \in DOMAIN Operation : RecordsSetting(columns, name) =>
               /\ s.q.op \in DOMAIN Setters /\ name = Setters[s.q.op] /\ row[2] = t
               /\ s.pc = RecordedAt(s.q.op) /\ columns.after = s.q.v
<1> DEFINE st == SessionAt(c, s)
           op == s.q.op
<1>1. /\ st.do = "append" /\ row = <<st.table, st.t, n>> /\ columns = st.set
      /\ row \notin DOMAIN db /\ row \notin DOMAIN s.writes
  BY HeldRow DEF Sequenced
<1>2. /\ Allowed(op, t, st) /\ s.pc \in Nat \ {0} /\ Legal(s.q)
      /\ s.q.op \notin Unrouted => s.pc > 1
  BY HoldIs, RunningFacts, StatementAllowed
<1>3. row[1] = st.table /\ row[2] = st.t /\ row[3] = n /\ st.table = "audit_log"
  BY <1>1
<1>4. op \notin OperatorPlane
  <2> SUFFICES ASSUME op \in OperatorPlane PROVE FALSE
    OBVIOUS
  <2>1. \A u : Allowed(op, u, st)
    <3> TAKE u
    <3>1. Good(s.q.op, u, Program(s.q, c, s.reads, s.began))
      BY RunningFacts, GoodOperator DEF op
    <3> QED BY <1>2, <3>1, GoodAt DEF SessionAt
  <2>2. op # "createTenant"
    BY DEF OperatorPlane
  <2> HIDE DEF st, op
  <2>3. \A u : st.t = u
    BY <1>1, <1>3, <2>1, <2>2 DEF Allowed
  <2>4. st.t = 0 /\ st.t = 1
    BY <2>3
  <2> QED BY <2>4
<1>5. Settings(row[2]) \in DOMAIN db \cup DOMAIN s.writes
  <2>1. CASE op = "createTenant"
    <3> DEFINE record == Audit(NewTenant(c), "seed", "taxonomy", "active")
    <3>1. /\ s.pc = 1 => st.do = "insert"
          /\ s.pc = 2 => st.do = "insert"
          /\ s.pc = 3 => st = record
          /\ s.pc > 3 => st.do = "return"
      BY <2>1, CreateTenantFirst
    <3>2. record.t = NewTenant(c)
      BY Kinds
    <3>3. s.pc > 1 => Settings(NewTenant(c)) \in DOMAIN s.writes
      BY <2>1 DEF Running, SessionInv, SettingsSession
    <3> HIDE DEF st, record
    <3> QED BY <1>1, <1>2, <1>3, <3>1, <3>2, <3>3
  <2>2. CASE op # "createTenant"
    <3>1. st.t = t
      BY <1>1, <1>2, <1>3, <2>2 DEF Allowed
    <3>2. op \in Unrouted \/ op \in Routes
      BY <1>2, <1>4 DEF Legal
    <3>3. op \in Routes => s.pc > 1 /\ Passed(s.q, s.began)
      BY <1>1, <1>2, PassedNow DEF Routes, Unrouted
    <3>4. Settings(t) \in DOMAIN db
      BY <3>2, <3>3, OwnerExists
    <3> QED BY <1>3, <3>1, <3>4
  <2> QED BY <2>1, <2>2
<1>6. ASSUME NEW name \in DOMAIN Operation, RecordsSetting(columns, name)
      PROVE  /\ op \in DOMAIN Setters /\ name = Setters[op] /\ row[2] = t
             /\ s.pc = RecordedAt(op) /\ columns.after = s.q.v
  <2>1. op \in DOMAIN Setters /\ name = Setters[op]
    <3> HIDE DEF st, op
    <3> QED BY <1>1, <1>2, <1>3, <1>6 DEF Allowed
  <2>2. op # "createTenant"
    BY <2>1 DEF Setters
  <2>3. st.t = t
    BY <1>1, <1>2, <1>3, <2>2 DEF Allowed
  <2> DEFINE at == WrittenAt(op)
  <2>4. /\ s.pc \in {at, at + 1} /\ RecordedAt(op) = at + 1
        /\ s.pc = at => row = Home(Setters[op], t)
        /\ s.pc = at + 1 => columns.after = s.q.v
    BY <2>1, SettingHeld
  <2>5. Home(name, t)[1] # "audit_log"
    BY DEF Home, Policy, Optin, Settings
  <2> HIDE DEF at
  <2>6. s.pc = at + 1
    BY <1>3, <1>1, <2>1, <2>4, <2>5
  <2> QED BY <1>3, <2>1, <2>3, <2>4, <2>6
<1> QED BY <1>1, <1>3, <1>5, <1>6

\* A record is a row of the log that says so.
LEMMA RecordsAre ==
  ASSUME NEW f, NEW t, NEW name, NEW row
  PROVE  row \in Records(f, t, name) <=>
            /\ row \in DOMAIN f /\ row[1] = "audit_log" /\ row[2] = t
            /\ RecordsSetting(f[row], name)
  BY DEF Records, RowsOf, RecordsSetting

LEMMA HeldRecords ==
  ASSUME NEW n, NEW called, NEW c, NEW s, NEW s2, NEW row, NEW columns,
         Running(n, called, c, s), Holds(n, s, s2, SessionAt(c, s), row, columns),
         NEW t, t = Owner(s.q, s.began)
  PROVE  AuditWrites(db, t, s2)
<1> DEFINE op == s.q.op
<1>1. /\ s2.q = s.q /\ s2.pc = s.pc + 1
      /\ DOMAIN s2.writes = {row} \cup DOMAIN s.writes /\ s2.writes[row] = columns
      /\ \A o \in DOMAIN s.writes : o # row => s2.writes[o] = s.writes[o]
  BY HoldIs
<1>2. /\ s.pc \in Nat \ {0} /\ TypedRows(db, n) /\ AuditWrites(db, t, s)
  BY RunningFacts DEF Running, SessionInv, SettingsSession
<1>3. RecordedAt(op) \in {2, 3}
  BY DEF RecordedAt
<1>4. row[1] = "audit_log" =>
         /\ row = <<"audit_log", row[2], n>> /\ row \notin DOMAIN db /\ row \notin DOMAIN s.writes
         /\ Settings(row[2]) \in DOMAIN db \cup DOMAIN s.writes
         /\ \A name \in DOMAIN Operation : RecordsSetting(columns, name) =>
               /\ op \in DOMAIN Setters /\ name = Setters[op] /\ row[2] = t
               /\ s.pc = RecordedAt(op) /\ columns.after = s.q.v
  BY AuditHeld
<1> SUFFICES ASSUME NEW o \in DOMAIN s2.writes, o[1] = "audit_log"
             PROVE  /\ Settings(o[2]) \in DOMAIN db \cup DOMAIN s2.writes
                    /\ \A name \in DOMAIN Operation : RecordsSetting(s2.writes[o], name) =>
                          /\ op \in DOMAIN Setters /\ name = Setters[op] /\ o[2] = t
                          /\ s2.pc > RecordedAt(op) /\ s2.writes[o].after = s.q.v
                          /\ \A other \in Records(db, t, name) : other[3] < o[3]
                          /\ \A other \in Records(s2.writes, t, name) : other = o
  BY <1>1 DEF AuditWrites
<1> HIDE DEF op
<1>5. CASE o = row
  <2>1. Settings(o[2]) \in DOMAIN db \cup DOMAIN s2.writes
    BY <1>1, <1>4, <1>5
  <2> SUFFICES ASSUME NEW name \in DOMAIN Operation, RecordsSetting(columns, name)
               PROVE  /\ op \in DOMAIN Setters /\ name = Setters[op] /\ o[2] = t
                      /\ s2.pc > RecordedAt(op) /\ s2.writes[o].after = s.q.v
                      /\ \A other \in Records(db, t, name) : other[3] < o[3]
                      /\ \A other \in Records(s2.writes, t, name) : other = o
    BY <1>1, <1>5, <2>1
  <2>2. /\ op \in DOMAIN Setters /\ name = Setters[op] /\ o[2] = t
        /\ s.pc = RecordedAt(op) /\ columns.after = s.q.v /\ o[3] = n
    BY <1>4, <1>5
  <2>3. ASSUME NEW other \in Records(db, t, name) PROVE other[3] < n
    BY <1>2, <2>3, RecordsAre DEF TypedRows, Sequenced
  <2>4. ASSUME NEW other \in Records(s2.writes, t, name), other # row PROVE FALSE
    <3>1. /\ other \in DOMAIN s.writes /\ other[1] = "audit_log"
          /\ RecordsSetting(s.writes[other], name)
      BY <1>1, <2>4, RecordsAre
    <3>2. s.pc > RecordedAt(op)
      BY <1>2, <3>1 DEF AuditWrites, op
    <3> QED BY <1>2, <1>3, <2>2, <3>2
  <2> QED BY <1>1, <1>2, <1>3, <1>5, <2>2, <2>3, <2>4
<1>6. CASE o # row
  <2>1. o \in DOMAIN s.writes /\ s2.writes[o] = s.writes[o]
    BY <1>1, <1>6
  <2>2. Settings(o[2]) \in DOMAIN db \cup DOMAIN s2.writes
    BY <1>1, <1>2, <2>1 DEF AuditWrites
  <2> SUFFICES ASSUME NEW name \in DOMAIN Operation, RecordsSetting(s.writes[o], name)
               PROVE  /\ op \in DOMAIN Setters /\ name = Setters[op] /\ o[2] = t
                      /\ s2.pc > RecordedAt(op) /\ s2.writes[o].after = s.q.v
                      /\ \A other \in Records(db, t, name) : other[3] < o[3]
                      /\ \A other \in Records(s2.writes, t, name) : other = o
    BY <2>1, <2>2
  <2>3. /\ op \in DOMAIN Setters /\ name = Setters[op] /\ o[2] = t
        /\ s.pc > RecordedAt(op) /\ s.writes[o].after = s.q.v
        /\ \A other \in Records(db, t, name) : other[3] < o[3]
        /\ \A other \in Records(s.writes, t, name) : other = o
    BY <1>2, <2>1 DEF AuditWrites, op
  <2>4. ASSUME NEW other \in Records(s2.writes, t, name) PROVE other = o
    <3>1. other \in DOMAIN s2.writes /\ other[1] = "audit_log" /\ other[2] = t
          /\ RecordsSetting(s2.writes[other], name)
      BY <2>4, RecordsAre
    <3>2. other # row
      <4> SUFFICES ASSUME other = row PROVE FALSE
        OBVIOUS
      <4>1. s.pc = RecordedAt(op)
        BY <1>1, <1>4, <3>1
      <4> QED BY <1>2, <1>3, <2>3, <4>1
    <3>3. other \in Records(s.writes, t, name)
      BY <1>1, <3>1, <3>2, RecordsAre
    <3> QED BY <2>3, <3>3
  <2> QED BY <1>1, <1>2, <1>3, <2>1, <2>3, <2>4
<1> QED BY <1>5, <1>6

LEMMA SettingsHold ==
  ASSUME NEW n, NEW called, NEW c, NEW s, NEW s2, NEW row, NEW columns,
         Running(n, called, c, s), Holds(n, s, s2, SessionAt(c, s), row, columns)
  PROVE  SettingsSession(db, c, s2)
<1> DEFINE op == s.q.op
           t == Owner(s.q, s.began)
<1>1. /\ s2.q = s.q /\ s2.pc = s.pc + 1 /\ Owner(s2.q, s2.began) = t
      /\ DOMAIN s2.writes = {row} \cup DOMAIN s.writes /\ s2.writes[row] = columns
      /\ \A o \in DOMAIN s.writes : o # row => s2.writes[o] = s.writes[o]
      /\ Wrote(n, s, SessionAt(c, s), row, columns)
  BY HoldIs
<1>2. s.pc \in Nat \ {0}
  BY RunningFacts
<1>3. /\ op = "createTenant" /\ s.pc > 1 => Settings(NewTenant(c)) \in DOMAIN s.writes
      /\ TenantWrites(db, op, t, s.writes) /\ TokenWrites(db, s.writes)
      /\ op \in DOMAIN Setters => SetAndRecorded(t, s)
  BY DEF Running, SessionInv, SettingsSession
<1>4. op = "createTenant" => Settings(NewTenant(c)) \in DOMAIN s2.writes
  <2>1. CASE op = "createTenant" /\ s.pc = 1
    <3>1. SessionAt(c, s).do = "insert" /\ SessionAt(c, s).row = Settings(NewTenant(c))
      BY <2>1, CreateTenantFirst
    <3> QED BY <1>1, <3>1 DEF Wrote
  <2> QED BY <1>1, <1>2, <1>3, <2>1
<1>5. AuditWrites(db, t, s2)
  BY HeldRecords
<1>6. TenantWrites(db, op, t, s2.writes)
  <2>1. /\ row[1] = "tenants" =>
               /\ row = Settings(row[2]) /\ Columns \subseteq DOMAIN columns
               /\ row \in DOMAIN db =>
                     /\ s.q.op \in {"setResidency", "setRedactionOptout", "setRetentionDays"}
                     /\ row[2] = t
                     /\ \A col \in Columns \ {Setters[s.q.op]} : columns[col] = db[row][col]
        /\ row[1] = "benchmark_optin" => row = Optin(t)
        /\ row[1] = "rollout_policies" => row = Policy(t)
    BY TenantHeld
  <2> SUFFICES ASSUME NEW o \in DOMAIN s2.writes
               PROVE /\ o[1] = "tenants" =>
                           /\ o = Settings(o[2]) /\ Columns \subseteq DOMAIN s2.writes[o]
                           /\ o \in DOMAIN db =>
                                 /\ op \in {"setResidency", "setRedactionOptout", "setRetentionDays"}
                                 /\ o[2] = t
                                 /\ \A col \in Columns \ {Setters[op]} : s2.writes[o][col] = db[o][col]
                     /\ o[1] = "benchmark_optin" => o = Optin(t)
                     /\ o[1] = "rollout_policies" => o = Policy(t)
    BY DEF TenantWrites
  <2>2. CASE o = row
    <3> HIDE DEF t
    <3> QED BY <1>1, <2>1, <2>2
  <2>3. CASE o # row
    <3>1. o \in DOMAIN s.writes /\ s2.writes[o] = s.writes[o]
      BY <1>1, <2>3
    <3> HIDE DEF t
    <3> QED BY <1>3, <3>1 DEF TenantWrites
  <2> QED BY <2>2, <2>3
<1>7. TokenWrites(db, s2.writes)
  <2>1. row[1] = "tenant_tokens" =>
          /\ {"t", "scope"} \subseteq DOMAIN columns
          /\ Settings(columns.t) \in DOMAIN db \cup DOMAIN s.writes
          /\ row \in DOMAIN db => columns.t = db[row].t /\ columns.scope = db[row].scope
    BY TokenHeld
  <2> SUFFICES ASSUME NEW o \in DOMAIN s2.writes, o[1] = "tenant_tokens"
               PROVE  /\ {"t", "scope"} \subseteq DOMAIN s2.writes[o]
                      /\ Settings(s2.writes[o].t) \in DOMAIN db \cup DOMAIN s2.writes
                      /\ o \in DOMAIN db => s2.writes[o].t = db[o].t /\ s2.writes[o].scope = db[o].scope
    BY DEF TokenWrites
  <2>2. CASE o = row
    BY <1>1, <2>1, <2>2
  <2>3. CASE o # row
    <3>1. o \in DOMAIN s.writes /\ s2.writes[o] = s.writes[o]
      BY <1>1, <2>3
    <3> QED BY <1>1, <1>3, <3>1 DEF TokenWrites
  <2> QED BY <2>2, <2>3
<1>8. ASSUME op \in DOMAIN Setters PROVE SetAndRecorded(t, s2)
  <2> DEFINE name == Setters[op]
             at == WrittenAt(op)
  <2>1. /\ s.pc \in {at, at + 1} /\ at \in {1, 2} /\ RecordedAt(op) = at + 1
        /\ s.pc = at => row = Home(name, t) /\ columns[ColumnOf(name)] = s.q.v
        /\ s.pc = at + 1 => row = <<"audit_log", t, n>> /\ RecordsSetting(columns, name)
    BY <1>8, SettingHeld
  <2>2. /\ s.pc >= RecordedAt(op) =>
              /\ Home(name, t) \in DOMAIN s.writes
              /\ s.writes[Home(name, t)][ColumnOf(name)] = s.q.v
    BY <1>3, <1>8 DEF SetAndRecorded
  <2>3. Home(name, t)[1] # "audit_log"
    BY DEF Home, Policy, Optin, Settings
  <2> SUFFICES /\ Home(name, t) \in DOMAIN s2.writes
               /\ s2.writes[Home(name, t)][ColumnOf(name)] = s.q.v
               /\ s.pc = at + 1 => Records(s2.writes, t, name) # {}
    <3> HIDE DEF at
    <3> QED BY <1>1, <1>2, <2>1 DEF SetAndRecorded
  <2> HIDE DEF at
  <2>4. CASE s.pc = at
    BY <1>1, <2>1, <2>4
  <2>5. CASE s.pc = at + 1
    <3>1. Home(name, t) \in DOMAIN s.writes /\ s.writes[Home(name, t)][ColumnOf(name)] = s.q.v
      BY <2>1, <2>2, <2>5
    <3>2. row = <<"audit_log", t, n>> /\ RecordsSetting(columns, name)
      BY <2>1, <2>5
    <3>3. row[1] = "audit_log" /\ row[2] = t
      BY <3>2
    <3>4. row \in Records(s2.writes, t, name)
      BY <1>1, <3>2, <3>3, RecordsAre
    <3> QED BY <1>1, <2>3, <3>1, <3>3, <3>4
  <2> QED BY <2>1, <2>4, <2>5
<1> QED BY <1>1, <1>4, <1>5, <1>6, <1>7, <1>8 DEF SettingsSession

\* The step of an operator's request: it reads nothing of a tenant before it is audited,
\* and what it audits is committed at once.
LEMMA OperatorStep ==
  ASSUME NEW n, NEW called, NEW c, NEW s, NEW s2, NEW row, NEW columns, NEW g,
         Running(n, called, c, s), s.q.op \in OperatorPlane, DOMAIN db \subseteq DOMAIN g,
         \/ Selects(s, s2, SessionAt(c, s))
         \/ Holds(n, s, s2, SessionAt(c, s), row, columns)
         \/ /\ Passes(s, s2, SessionAt(c, s))
            /\ SessionAt(c, s).do = "append" =>
                  <<SessionAt(c, s).table, SessionAt(c, s).t, n>> \in DOMAIN g
  PROVE  OperatorSession(g, s2)
<1> DEFINE st == SessionAt(c, s)
           live == Live(s.began, OperatorToken(s.q.token))
           at == AuditedAt(s.q.op)
<1>1. /\ s.pc \in Nat \ {0} /\ Legal(s.q) /\ IsFiniteSet(DOMAIN db) /\ IsFiniteSet(DOMAIN s.reads)
      /\ s.pc = 1 => s.reads = NoRows
  BY RunningFacts
<1>2. s.q.op \notin Unrouted
  BY DEF OperatorPlane, Unrouted
<1>3. /\ s2.q = s.q /\ s2.pc = s.pc + 1 /\ (s.pc > 1 => s2.began = s.began)
      /\ \/ st.do = "select" /\ DOMAIN s2.reads = st.rows \cup DOMAIN s.reads
         \/ st.do # "select" /\ s.pc > 1 /\ s2.reads = s.reads
      /\ st.do # "return"
  <2>1. CASE Selects(s, s2, st)
    BY <1>1, <2>1, SelectIs
  <2>2. CASE Holds(n, s, s2, st, row, columns)
    BY <1>1, <1>2, <2>2, HoldIs
  <2>3. CASE Passes(s, s2, st)
    BY <1>1, <1>2, <2>3, PassIs
  <2> QED BY <2>1, <2>2, <2>3
<1>4. ASSUME OperatorAudited(db, s.q) PROVE OperatorAudited(g, s2.q)
  BY <1>3, <1>4 DEF OperatorAudited
<1>5. ASSUME Audits(s.q, st) PROVE OperatorAudited(g, s2.q)
  <2>1. PICK action : st = OperatorAudit(s.q, action)
    BY <1>5 DEF Audits
  <2>2. /\ st.do = "append" /\ st.table = "operator_audit" /\ st.t = s.q.token /\ st.own
    BY <2>1 DEF OperatorAudit, OnItsOwn, AddRow
  <2> HIDE DEF st
  <2>3. Passes(s, s2, st)
    <3>1. ~Selects(s, s2, st)
      BY <2>2 DEF Selects
    <3>2. ~Holds(n, s, s2, st, row, columns)
      BY <2>2 DEF Holds
    <3> QED BY <3>1, <3>2 DEF st
  <2>4. <<st.table, st.t, n>> \in DOMAIN g
    <3>1. ~Selects(s, s2, st)
      BY <2>2 DEF Selects
    <3>2. ~Holds(n, s, s2, st, row, columns)
      BY <2>2 DEF Holds
    <3> QED BY <2>2, <3>1, <3>2 DEF st
  <2>5. <<"operator_audit", s.q.token, n>>[1] = "operator_audit"
        /\ <<"operator_audit", s.q.token, n>>[2] = s.q.token
    OBVIOUS
  <2> QED BY <1>3, <2>2, <2>4, <2>5 DEF OperatorAudited
<1>6. /\ Operators(DOMAIN s.reads) \/ OperatorAudited(db, s.q)
      /\ s.pc > at /\ live => OperatorAudited(db, s.q)
      /\ s.pc > 3 => live
  BY <1>2 DEF Running, SessionInv, ServedSession, OperatorSession, AdmittedSession
<1>7. /\ s.pc = 1 => st = Select({OperatorToken(s.q.token)})
      /\ s.pc = 2 /\ ~live => st = Select({Token(s.q.token)})
      /\ s.pc = 3 /\ ~live => st = Refuse("401") \/ st = Refuse("403")
      /\ live /\ s.q.op # "tenantSnapshot" /\ s.pc = 2 => Audits(s.q, st)
      /\ live /\ s.q.op = "tenantSnapshot" /\ s.pc = 2 => st = Select({Settings(s.q.id)})
      /\ live /\ s.q.op = "tenantSnapshot" /\ s.pc = 3 => Audits(s.q, st) \/ st = Refuse("404")
  BY <1>1, OperatorAt
<1>8. /\ \A rows : Select(rows).do = "select" /\ Select(rows).rows = rows
      /\ \A status : Refuse(status).do = "return"
  BY Kinds
<1>9. at = IF s.q.op = "tenantSnapshot" THEN 3 ELSE 2
  BY DEF AuditedAt
<1>10. /\ OperatorToken(s.q.token)[1] = "operator_tokens"
       /\ Token(s.q.token)[1] = "tenant_tokens"
       /\ Settings(s.q.id)[1] = "tenants"
  BY DEF OperatorToken, Token, Settings
<1> DEFINE live2 == Live(s2.began, OperatorToken(s2.q.token))
<1>11. s.pc > 1 => (live2 <=> live)
  BY <1>3
<1>12. OperatorSession(g, s2) <=>
          /\ Operators(DOMAIN s2.reads) \/ OperatorAudited(g, s2.q)
          /\ s2.pc > at /\ live2 => OperatorAudited(g, s2.q)
  BY <1>3 DEF OperatorSession
<1> HIDE DEF st, live, live2, at
<1>13. CASE s.pc = 1
  <2>1. DOMAIN s2.reads = {OperatorToken(s.q.token)}
    BY <1>1, <1>3, <1>7, <1>8, <1>13 DEF NoRows
  <2>2. ~(s2.pc > at)
    BY <1>3, <1>9, <1>13
  <2> QED BY <1>10, <1>12, <2>1, <2>2 DEF Operators
<1>14. CASE OperatorAudited(g, s2.q)
  BY <1>12, <1>14
<1>15. CASE s.pc > 1 /\ ~OperatorAudited(g, s2.q)
  <2>1. /\ ~OperatorAudited(db, s.q) /\ ~Audits(s.q, st)
    BY <1>4, <1>5, <1>15
  <2>2. ~(s.pc > at /\ live)
    BY <1>6, <2>1
  <2>3. s.pc = 2 \/ s.pc = 3
    BY <1>1, <1>6, <1>9, <1>15, <2>2
  <2>4. /\ s.pc = 2 /\ live => s.q.op = "tenantSnapshot"
        /\ s.pc = 3 => ~live \/ s.q.op = "tenantSnapshot"
    BY <1>7, <1>9, <2>1, <2>2
  <2>5. s.pc # 3
    BY <1>3, <1>7, <1>8, <2>1, <2>4
  <2>6. /\ st = Select({Token(s.q.token)}) \/ st = Select({Settings(s.q.id)})
        /\ live => st = Select({Settings(s.q.id)}) /\ at = 3
    BY <1>7, <1>9, <2>3, <2>4, <2>5
  <2>7. Operators(DOMAIN s2.reads)
    BY <1>3, <1>6, <1>8, <1>10, <2>1, <2>6 DEF Operators
  <2>8. ~(s2.pc > at /\ live2)
    BY <1>3, <1>11, <1>15, <2>3, <2>5, <2>6
  <2> QED BY <1>12, <2>7, <2>8
<1> QED BY <1>1, <1>13, <1>14, <1>15

\* The benchmark only reads, and what it reads is consented.
LEMMA BenchmarkStep ==
  ASSUME NEW n, NEW called, NEW c, NEW s, Running(n, called, c, s), s.q.op = "benchmarkResult"
  PROVE  LET t == Owner(s.q, s.began)
             growth == Column(s.reads, Account(t), "tier", "free") = "growth" IN
         /\ SessionAt(c, s).do \in {"select", "return"} /\ s.pc \in 1..5
         /\ s.pc > 2 /\ SessionAt(c, s).do = "select" =>
               growth /\ s.pc < 5 /\ Account(t) \notin SessionAt(c, s).rows
<1> DEFINE st == SessionAt(c, s)
           t == Owner(s.q, s.began)
           growth == Column(s.reads, Account(t), "tier", "free") = "growth"
           all == {o \in DOMAIN db : o[1] = "benchmark_optin"}
           body == [cohort |-> OptedIn(s.reads)]
<1>1. /\ s.pc \in Nat \ {0} /\ Legal(s.q) /\ IsFiniteSet(DOMAIN db) /\ s.q.op \in Routes
      /\ s.q.op \notin Unrouted
  BY RunningFacts DEF Routes, Unrouted
<1>2. s.pc <= 5
  BY DEF Running, SessionInv, ServedSession, BenchmarkSession
<1>3. CASE s.pc = 1
  BY <1>1, <1>3, FirstSelects
<1>4. CASE s.pc > 1 /\ ~Passed(s.q, s.began)
  <2>1. st.do = "return"
    BY <1>1, <1>4, PassedNow
  <2> QED BY <1>1, <1>2, <2>1
<1>5. CASE s.pc > 1 /\ Passed(s.q, s.began)
  <2>1. /\ s.pc = 2 => st = Select({Account(t)})
        /\ s.pc = 3 /\ ~growth => st = Refuse("403")
        /\ s.pc = 3 /\ growth => st = Select({Optin(t)})
        /\ s.pc = 4 /\ growth /\ t \in OptedIn(s.reads) => st = Select(all)
        /\ s.pc = 4 /\ growth /\ t \notin OptedIn(s.reads) => st = Refuse("403")
        /\ s.pc = 5 /\ growth => st = Reply(body)
    BY <1>1, <1>5, BenchmarkResultAt
  <2>2. s.pc > 3 => growth
    BY DEF Running, SessionInv, ServedSession, BenchmarkSession
  <2>3. /\ \A rows : Select(rows).do = "select" /\ Select(rows).rows = rows
        /\ \A status : Refuse(status).do = "return"
        /\ \A v : Reply(v).do = "return"
    BY Kinds
  <2>4. Account(t) \notin all /\ Account(t) # Optin(t)
    BY DEF Account, Optin
  <2> HIDE DEF st, t, growth, all, body
  <2>5. s.pc = 2 \/ s.pc = 3 \/ s.pc = 4 \/ s.pc = 5
    BY <1>1, <1>2, <1>5
  <2>6. s.pc = 4 \/ s.pc = 5 => growth
    BY <2>2
  <2>7. CASE s.pc = 2
    BY <2>1, <2>3, <2>7 DEF st, t, growth
  <2>8. CASE s.pc = 3
    BY <2>1, <2>3, <2>4, <2>8 DEF st, t, growth
  <2>9. CASE s.pc = 4
    BY <2>1, <2>3, <2>4, <2>6, <2>9 DEF st, t, growth
  <2>10. CASE s.pc = 5
    BY <2>1, <2>3, <2>6, <2>10 DEF st, t, growth
  <2> QED BY <2>5, <2>7, <2>8, <2>9, <2>10
<1> QED BY <1>1, <1>3, <1>4, <1>5

LEMMA BenchmarkSelect ==
  ASSUME NEW n, NEW called, NEW c, NEW s, NEW s2, Running(n, called, c, s),
         s.q.op = "benchmarkResult", Selects(s, s2, SessionAt(c, s))
  PROVE  BenchmarkSession(db, s2)
<1> DEFINE st == SessionAt(c, s)
           t == Owner(s.q, s.began)
<1>1. /\ st.do = "select" /\ s2.q = s.q /\ s2.pc = s.pc + 1 /\ s2.writes = s.writes
      /\ s.pc # 1 => Owner(s2.q, s2.began) = t
      /\ DOMAIN s2.reads = st.rows \cup DOMAIN s.reads
      /\ \A row \in st.rows : s2.reads[row] = Sees(s, row)
      /\ \A row \in DOMAIN s.reads : row \notin st.rows => s2.reads[row] = s.reads[row]
  BY SelectIs
<1>2. /\ s.writes = NoRows
      /\ \A u \in OptedIn(s.reads) : Consented(db, u)
      /\ SettingsRecorded(db)
  BY DEF Running, SessionInv, ServedSession, BenchmarkSession, RowsInv
<1>3. /\ s.pc \in 1..5
      /\ s.pc > 2 => /\ Column(s.reads, Account(t), "tier", "free") = "growth" /\ s.pc < 5
                     /\ Account(t) \notin st.rows
  BY <1>1, BenchmarkStep
<1> HIDE DEF st, t
<1>4. ASSUME NEW u \in OptedIn(s2.reads) PROVE Consented(db, u)
  <2>1. PICK o \in DOMAIN s2.reads : /\ u = o[2] /\ o[1] = "benchmark_optin"
                                      /\ s2.reads[o] # None /\ s2.reads[o].opted_in = "yes"
    BY DEF OptedIn
  <2>2. CASE o \in st.rows
    <3>1. o \in DOMAIN db /\ db[o].opted_in = "yes"
      BY <1>1, <1>2, <2>1, <2>2 DEF Sees, At, NoRows
    <3> QED BY <1>2, <2>1, <3>1 DEF SettingsRecorded, Consented
  <2>3. CASE o \notin st.rows
    <3>1. o \in DOMAIN s.reads /\ s.reads[o] # None /\ s.reads[o].opted_in = "yes"
      BY <1>1, <2>1, <2>3
    <3>2. u \in OptedIn(s.reads)
      BY <2>1, <3>1 DEF OptedIn
    <3> QED BY <1>2, <3>2
  <2> QED BY <2>2, <2>3
<1>5. s2.pc > 3 => Column(s2.reads, Account(Owner(s2.q, s2.began)), "tier", "free") = "growth"
  <2> SUFFICES ASSUME s2.pc > 3 PROVE Column(s2.reads, Account(t), "tier", "free") = "growth"
    BY <1>1, <1>3
  <2>1. s.pc > 2
    BY <1>1, <1>3
  <2>2. /\ Column(s.reads, Account(t), "tier", "free") = "growth"
        /\ Account(t) \notin st.rows
    BY <1>3, <2>1
  <2>3. Account(t) \in DOMAIN s2.reads <=> Account(t) \in DOMAIN s.reads
    BY <1>1, <2>2
  <2>4. Account(t) \in DOMAIN s.reads => s2.reads[Account(t)] = s.reads[Account(t)]
    BY <1>1, <2>2
  <2> QED BY <2>2, <2>3, <2>4 DEF Column, At
<1>6. s2.pc <= 5
  BY <1>1, <1>3
<1> QED BY <1>1, <1>2, <1>4, <1>5, <1>6 DEF BenchmarkSession

LEMMA ServedSelect ==
  ASSUME NEW n, NEW called, NEW c, NEW s, NEW s2, Running(n, called, c, s),
         Selects(s, s2, SessionAt(c, s))
  PROVE  ServedSession(db, s2)
<1>1. s2.q = s.q
  BY SelectIs
<1> QED BY <1>1, OperatorStep, BenchmarkSelect DEF ServedSession

LEMMA ServedHold ==
  ASSUME NEW n, NEW called, NEW c, NEW s, NEW s2, NEW row, NEW columns,
         Running(n, called, c, s), Holds(n, s, s2, SessionAt(c, s), row, columns)
  PROVE  ServedSession(db, s2)
<1>1. s2.q = s.q /\ SessionAt(c, s).do \notin {"select", "return"}
  BY HoldIs
<1>2. s.q.op # "benchmarkResult"
  BY <1>1, BenchmarkStep
<1> QED BY <1>1, <1>2, OperatorStep DEF ServedSession

LEMMA ServedPass ==
  ASSUME NEW n, NEW called, NEW c, NEW s, NEW s2, NEW g, Running(n, called, c, s),
         Passes(s, s2, SessionAt(c, s)), DOMAIN db \subseteq DOMAIN g,
         SessionAt(c, s).do = "append" =>
            <<SessionAt(c, s).table, SessionAt(c, s).t, n>> \in DOMAIN g
  PROVE  ServedSession(g, s2)
<1>1. s2.q = s.q /\ SessionAt(c, s).do \notin {"select", "return"}
  BY PassIs
<1>2. s.q.op # "benchmarkResult"
  BY <1>1, BenchmarkStep
<1> QED BY <1>1, <1>2, OperatorStep DEF ServedSession
-----------------------------------------------------------------------------
(* Milestones, experiments and datasets: what a method is at.               *)
LEMMA MilestoneStatements ==
  ASSUME NEW n, NEW called, NEW c, NEW s, Running(n, called, c, s), s.q.op = "recordMilestone",
         SessionAt(c, s).do # "return", NEW t, t = Owner(s.q, s.began)
  PROVE  LET st == SessionAt(c, s) IN
         /\ s.pc \in {1, 2}
         /\ s.pc = 1 => st.do = "select"
         /\ s.pc = 2 => /\ s.writes = NoRows /\ st.do = "upsert" /\ ~st.own
                        /\ st.row = Timeline(t) /\ DOMAIN st.set = {s.q.id}
                        /\ st.set[s.q.id] # Null
<1> DEFINE st == SessionAt(c, s)
           write == Upsert(Timeline(t), [m \in {s.q.id} |-> s.q.v])
<1>1. /\ s.pc \in Nat \ {0} /\ Legal(s.q) /\ IsFiniteSet(DOMAIN db)
      /\ s.q.op \notin Unrouted /\ s.q.op \in Routes
      /\ s.pc = 2 => s.writes = NoRows
  BY RunningFacts DEF Routes, Unrouted
<1>2. s.q.v # Null
  BY <1>1 DEF Legal
<1>3. s.pc > 1 => Passed(s.q, s.began)
  BY <1>1, PassedNow
<1>4. /\ s.pc = 1 => st.do = "select"
      /\ s.pc > 1 => (s.pc = 2 => st = write) /\ (s.pc > 2 => st = Refuse("200"))
  BY <1>1, <1>3, FirstSelects, RecordMilestoneAt
<1>5. /\ write.do = "upsert" /\ ~write.own /\ write.row = Timeline(t)
      /\ DOMAIN write.set = {s.q.id} /\ write.set[s.q.id] = s.q.v
      /\ Refuse("200").do = "return"
  BY Kinds
<1> HIDE DEF st, write
<1>6. s.pc = 1 \/ s.pc = 2 \/ s.pc > 2
  BY <1>1
<1> QED BY <1>1, <1>2, <1>4, <1>5, <1>6 DEF st

LEMMA VerdictStatements ==
  ASSUME NEW n, NEW called, NEW c, NEW s, Running(n, called, c, s), s.q.op = "writeVerdict",
         SessionAt(c, s).do # "return", NEW t, t = Owner(s.q, s.began)
  PROVE  LET st == SessionAt(c, s) IN
         /\ s.pc \in 1..5
         /\ s.pc \in {1, 2} => st.do = "select"
         /\ s.pc = 3 => /\ st.do = "upsert" /\ ~st.own /\ st.row = Verdict(t, s.q.id)
                        /\ "decision" \in DOMAIN st.set /\ st.set.decision # Null
         /\ s.pc = 4 => /\ st.do = "update" /\ st.row = <<"experiments", t, s.q.id>>
         /\ s.pc = 5 => /\ st.do = "append" /\ st.table = "audit_log" /\ ~st.own
<1> DEFINE st == SessionAt(c, s)
           experiment == <<"experiments", t, s.q.id>>
           found == At(s.reads, experiment) # None
           write == Upsert(Verdict(t, s.q.id), [decision |-> s.q.v])
           conclude == Update(experiment, [status |-> "concluded"])
           record == Audit(t, "experiment", ToString(s.q.id), "concluded")
<1>1. /\ s.pc \in Nat \ {0} /\ Legal(s.q) /\ IsFiniteSet(DOMAIN db)
      /\ s.q.op \notin Unrouted /\ s.q.op \in Routes
  BY RunningFacts DEF Routes, Unrouted
<1>2. s.q.v # Null
  BY <1>1 DEF Legal
<1>3. s.pc > 1 => Passed(s.q, s.began)
  BY <1>1, PassedNow
<1>4. /\ s.pc = 1 => st.do = "select"
      /\ s.pc = 2 => st = Select({experiment})
      /\ s.pc = 3 /\ ~found => st = Refuse("404")
      /\ s.pc > 3 /\ ~found => st = Refuse("200")
      /\ s.pc = 3 /\ found => st = write
      /\ s.pc = 4 /\ found => st = conclude
      /\ s.pc = 5 /\ found => st = record
      /\ s.pc > 5 => st = Refuse("200")
  <2>1. CASE s.pc = 1
    BY <1>1, <2>1, FirstSelects
  <2>2. CASE s.pc > 1
    BY <1>1, <1>3, <2>2, WriteVerdictAt
  <2> QED BY <1>1, <2>1, <2>2
<1>5. /\ write.do = "upsert" /\ ~write.own /\ write.row = Verdict(t, s.q.id)
      /\ "decision" \in DOMAIN write.set /\ write.set.decision = s.q.v
      /\ conclude.do = "update" /\ conclude.row = experiment
      /\ record.do = "append" /\ record.table = "audit_log" /\ ~record.own
      /\ Select({experiment}).do = "select"
      /\ Refuse("200").do = "return" /\ Refuse("404").do = "return"
  BY Kinds
<1> HIDE DEF st, write, conclude, record, found, experiment
<1>6. s.pc = 1 \/ s.pc = 2 \/ s.pc = 3 \/ s.pc = 4 \/ s.pc = 5 \/ s.pc > 5
  BY <1>1
<1>7. (s.pc = 4 => s.pc > 3) /\ (s.pc = 5 => s.pc > 3)
  OBVIOUS
<1> QED BY <1>2, <1>4, <1>5, <1>6, <1>7 DEF st, experiment

LEMMA UpdateStatements ==
  ASSUME NEW n, NEW called, NEW c, NEW s, Running(n, called, c, s), s.q.op = "updateExperiment",
         SessionAt(c, s).do # "return", NEW t, t = Owner(s.q, s.began)
  PROVE  LET st == SessionAt(c, s) IN
         /\ s.pc \in 1..4
         /\ s.pc \in {1, 2} => st.do = "select"
         /\ s.pc = 3 => /\ st.do = "update" /\ st.row = <<"experiments", t, s.q.id>>
                        /\ "status" \in DOMAIN st.set /\ st.set.status = s.q.v
         /\ s.pc = 4 => /\ st.do = "append"
<1> DEFINE st == SessionAt(c, s)
           experiment == <<"experiments", t, s.q.id>>
           found == At(s.reads, experiment) # None
           write == Update(experiment, [status |-> s.q.v])
           record == Audit(t, "experiment", ToString(s.q.id), s.q.v)
<1>1. /\ s.pc \in Nat \ {0} /\ Legal(s.q) /\ IsFiniteSet(DOMAIN db)
      /\ s.q.op \notin Unrouted /\ s.q.op \in Routes
  BY RunningFacts DEF Routes, Unrouted
<1>3. s.pc > 1 => Passed(s.q, s.began)
  BY <1>1, PassedNow
<1>4. /\ s.pc = 1 => st.do = "select"
      /\ s.pc = 2 => st = Select({experiment})
      /\ s.pc = 3 /\ ~found => st = Refuse("404")
      /\ s.pc > 3 /\ ~found => st = Refuse("200")
      /\ s.pc = 3 /\ found => st = write
      /\ s.pc = 4 /\ found => st = record
      /\ s.pc > 4 => st = Refuse("200")
  <2>1. CASE s.pc = 1
    BY <1>1, <2>1, FirstSelects
  <2>2. CASE s.pc > 1
    BY <1>1, <1>3, <2>2, UpdateExperimentAt
  <2> QED BY <1>1, <2>1, <2>2
<1>5. /\ write.do = "update" /\ write.row = experiment
      /\ "status" \in DOMAIN write.set /\ write.set.status = s.q.v
      /\ record.do = "append" /\ Select({experiment}).do = "select"
      /\ Refuse("200").do = "return" /\ Refuse("404").do = "return"
  BY Kinds
<1> HIDE DEF st, write, record, found, experiment
<1>6. s.pc = 1 \/ s.pc = 2 \/ s.pc = 3 \/ s.pc = 4 \/ s.pc > 4
  BY <1>1
<1>7. s.pc = 4 => s.pc > 3
  OBVIOUS
<1> QED BY <1>4, <1>5, <1>6, <1>7 DEF st, experiment

LEMMA CreateStatements ==
  ASSUME NEW n, NEW called, NEW c, NEW s, Running(n, called, c, s),
         s.q.op \in {"createExperiment", "createDataset"},
         SessionAt(c, s).do # "return", NEW t, t = Owner(s.q, s.began)
  PROVE  LET st == SessionAt(c, s) IN
         /\ s.pc \in 1..3
         /\ s.pc = 1 => st.do = "select"
         /\ s.pc = 2 /\ s.q.op = "createExperiment" =>
               /\ st.do = "insert" /\ st.row[1] = "experiments"
               /\ "status" \in DOMAIN st.set /\ st.set.status = "created"
         /\ s.pc = 2 /\ s.q.op = "createDataset" =>
               /\ st.do = "insert" /\ "version" \in DOMAIN st.set /\ st.set.version = 1
         /\ s.pc = 3 => st.do = "append"
<1> DEFINE st == SessionAt(c, s)
           experiment == Insert(<<"experiments", t, RandomUUID(c)>>, [status |-> "created"])
           dataset == Insert(Dataset(t, RandomUUID(c)), [version |-> 1])
           record == Audit(t, "experiment", ToString(RandomUUID(c)), "created")
<1>1. /\ s.pc \in Nat \ {0} /\ Legal(s.q) /\ IsFiniteSet(DOMAIN db)
      /\ s.q.op \notin Unrouted /\ s.q.op \in Routes
  BY RunningFacts DEF Routes, Unrouted
<1>3. s.pc > 1 => Passed(s.q, s.began)
  BY <1>1, PassedNow
<1>4. s.pc = 1 => st.do = "select"
  BY <1>1, FirstSelects
<1>5. s.pc > 1 /\ s.q.op = "createExperiment" =>
         /\ s.pc = 2 => st = experiment
         /\ s.pc = 3 => st = record
         /\ s.pc > 3 => st = Refuse("200")
  BY <1>1, <1>3, CreateExperimentAt
<1>6. s.pc > 1 /\ s.q.op = "createDataset" =>
         /\ s.pc = 2 => st = dataset
         /\ s.pc > 2 => st = Refuse("200")
  BY <1>1, <1>3, CreateDatasetAt
<1>7. /\ experiment.do = "insert" /\ experiment.row[1] = "experiments"
      /\ "status" \in DOMAIN experiment.set /\ experiment.set.status = "created"
      /\ dataset.do = "insert" /\ "version" \in DOMAIN dataset.set /\ dataset.set.version = 1
      /\ record.do = "append" /\ Refuse("200").do = "return"
  BY Kinds
<1> HIDE DEF st, experiment, dataset, record
<1>8. s.pc = 1 \/ s.pc = 2 \/ s.pc = 3 \/ s.pc > 3
  BY <1>1
<1>9. (s.pc = 2 => s.pc > 1) /\ (s.pc = 3 => s.pc > 1 /\ s.pc > 2) /\ (s.pc > 3 => s.pc > 1 /\ s.pc > 2)
  BY <1>1
<1>10. CASE s.pc = 1
  BY <1>4, <1>10 DEF st
<1>11. CASE s.pc > 1 /\ s.q.op = "createExperiment"
  BY <1>5, <1>7, <1>8, <1>9, <1>11 DEF st
<1>12. CASE s.pc > 1 /\ s.q.op = "createDataset"
  BY <1>6, <1>7, <1>8, <1>9, <1>12 DEF st
<1> QED BY <1>1, <1>10, <1>11, <1>12

LEMMA CaseStatements ==
  ASSUME NEW n, NEW called, NEW c, NEW s, Running(n, called, c, s), s.q.op = "addCase",
         SessionAt(c, s).do # "return", NEW t, t = Owner(s.q, s.began)
  PROVE  LET st == SessionAt(c, s)
             dataset == Dataset(t, s.q.id) IN
         /\ s.pc \in 1..4
         /\ s.pc = 1 => st.do = "select"
         /\ s.pc = 2 => st.do = "select" /\ st.rows = {dataset} /\ s.writes = NoRows
         /\ s.pc > 2 => At(s.reads, dataset) # None
         /\ s.pc = 3 => /\ st.do = "append" /\ st.table = "eval_dataset_cases" /\ st.t = t /\ ~st.own
                        /\ "dataset" \in DOMAIN st.set /\ st.set.dataset = s.q.id
         /\ s.pc = 4 => /\ st.do = "update" /\ st.row = dataset
                        /\ "version" \in DOMAIN st.set
                        /\ st.set.version = s.reads[dataset].version + 1
<1> DEFINE st == SessionAt(c, s)
           dataset == Dataset(t, s.q.id)
           found == At(s.reads, dataset) # None
           add == AddRow("eval_dataset_cases", t, [dataset |-> s.q.id])
           bump == Update(dataset, [version |-> s.reads[dataset].version + 1])
<1>1. /\ s.pc \in Nat \ {0} /\ Legal(s.q) /\ IsFiniteSet(DOMAIN db)
      /\ s.q.op \notin Unrouted /\ s.q.op \in Routes
      /\ s.pc = 2 => s.writes = NoRows
  BY RunningFacts DEF Routes, Unrouted
<1>3. s.pc > 1 => Passed(s.q, s.began)
  BY <1>1, PassedNow
<1>4. /\ s.pc = 1 => st.do = "select"
      /\ s.pc = 2 => st = Select({dataset})
      /\ s.pc = 3 /\ ~found => st = Refuse("404")
      /\ s.pc > 3 /\ ~found => st = Refuse("200")
      /\ s.pc = 3 /\ found => st = add
      /\ s.pc = 4 /\ found => st = bump
      /\ s.pc > 4 => st = Refuse("200")
  <2>1. CASE s.pc = 1
    BY <1>1, <2>1, FirstSelects
  <2>2. CASE s.pc > 1
    <3> HIDE DEF st
    <3>1. st = SessionAt(c, s) /\ Passed(s.q, s.began)
      BY <1>3, <2>2 DEF st
    <3>2. /\ s.pc = 2 => st = Select({dataset})
          /\ s.pc = 3 /\ ~found => st = Refuse("404")
          /\ s.pc > 3 /\ ~found => st = Refuse("200")
          /\ s.pc = 3 /\ found => st = add
          /\ s.pc = 4 /\ found => st = bump
          /\ s.pc > 4 => st = Refuse("200")
      BY <1>1, <2>2, <3>1, AddCaseAt
    <3> QED BY <2>2, <3>2
  <2> QED BY <1>1, <2>1, <2>2
<1>5. /\ add.do = "append" /\ add.table = "eval_dataset_cases" /\ add.t = t /\ ~add.own
      /\ "dataset" \in DOMAIN add.set /\ add.set.dataset = s.q.id
      /\ bump.do = "update" /\ bump.row = dataset
      /\ "version" \in DOMAIN bump.set /\ bump.set.version = s.reads[dataset].version + 1
      /\ Select({dataset}).do = "select" /\ Select({dataset}).rows = {dataset}
      /\ Refuse("200").do = "return" /\ Refuse("404").do = "return"
  BY Kinds
<1> HIDE DEF st, add, bump, found, dataset
<1>6. s.pc = 1 \/ s.pc = 2 \/ s.pc = 3 \/ s.pc = 4 \/ s.pc > 4
  BY <1>1
<1>7. (s.pc = 4 => s.pc > 3) /\ (s.pc > 4 => s.pc > 3)
  BY <1>1
<1>8. CASE s.pc = 1
  BY <1>4, <1>8 DEF st
<1>9. CASE s.pc = 2
  BY <1>1, <1>4, <1>5, <1>9 DEF st, dataset
<1>10. CASE s.pc = 3
  BY <1>4, <1>5, <1>10 DEF st, dataset, found
<1>11. CASE s.pc = 4
  BY <1>4, <1>5, <1>7, <1>11 DEF st, dataset, found
<1> QED BY <1>4, <1>5, <1>6, <1>8, <1>9, <1>10, <1>11 DEF st

LEMMA ReadStatements ==
  ASSUME NEW n, NEW called, NEW c, NEW s, Running(n, called, c, s), s.q.op = "getExperiment",
         NEW t, t = Owner(s.q, s.began)
  PROVE  LET st == SessionAt(c, s)
             experiment == <<"experiments", t, s.q.id>> IN
         /\ st.do \in {"select", "return"}
         /\ s.pc \in 1..4
         /\ s.pc = 2 /\ st.do = "select" => st.rows = {experiment}
         /\ s.pc = 3 /\ st.do = "select" =>
               st.rows = {Verdict(t, s.q.id)} /\ At(s.reads, experiment) # None
         /\ s.pc = 4 => st.do = "return"
<1> DEFINE st == SessionAt(c, s)
           experiment == <<"experiments", t, s.q.id>>
           found == At(s.reads, experiment) # None
           body == [status |-> s.reads[experiment].status,
                    verdict |-> Column(s.reads, Verdict(t, s.q.id), "decision", Null)]
<1>1. /\ s.pc \in Nat \ {0} /\ Legal(s.q) /\ IsFiniteSet(DOMAIN db)
      /\ s.q.op \notin Unrouted /\ s.q.op \in Routes
  BY RunningFacts DEF Routes, Unrouted
<1>2. s.pc <= 4 /\ (s.pc > 3 => found)
  BY DEF Running, SessionInv, WorkSession, ReadingExperiment
<1>3. CASE s.pc = 1
  BY <1>1, <1>3, FirstSelects
<1>4. CASE s.pc > 1 /\ ~Passed(s.q, s.began)
  <2>1. st.do = "return"
    BY <1>1, <1>4, PassedNow
  <2> QED BY <1>1, <1>2, <2>1
<1>5. CASE s.pc > 1 /\ Passed(s.q, s.began)
  <2>1. /\ s.pc = 2 => st = Select({experiment})
        /\ s.pc = 3 /\ ~found => st = Refuse("404")
        /\ s.pc = 3 /\ found => st = Select({Verdict(t, s.q.id)})
        /\ s.pc = 4 /\ found => st = Reply(body)
    BY <1>1, <1>5, GetExperimentAt
  <2>2. /\ \A rows : Select(rows).do = "select" /\ Select(rows).rows = rows
        /\ \A status : Refuse(status).do = "return"
        /\ \A v : Reply(v).do = "return"
    BY Kinds
  <2> HIDE DEF st, experiment, found, body
  <2>3. s.pc = 2 \/ s.pc = 3 \/ s.pc = 4
    BY <1>1, <1>2, <1>5
  <2>4. s.pc = 4 => found
    BY <1>2
  <2>5. CASE s.pc = 2
    BY <2>1, <2>2, <2>5 DEF st, experiment
  <2>6. CASE s.pc = 3
    BY <2>1, <2>2, <2>6 DEF st, experiment, found
  <2>7. CASE s.pc = 4
    BY <2>1, <2>2, <2>4, <2>7 DEF st, experiment
  <2> QED BY <2>3, <2>5, <2>6, <2>7
<1> QED BY <1>1, <1>3, <1>4, <1>5

LEMMA CasesAreNat ==
  ASSUME NEW f, IsFiniteSet(DOMAIN f), NEW t, NEW id
  PROVE  CasesOf(f, t, id) \in Nat
<1> DEFINE cases == {row \in RowsOf(f, "eval_dataset_cases", t) : f[row].dataset = id}
<1>1. cases \subseteq DOMAIN f
  BY DEF RowsOf
<1>2. IsFiniteSet(cases)
  BY <1>1, FS_Subset
<1>3. Cardinality(cases) \in Nat
  BY <1>2, FS_CardinalityType
<1> QED BY <1>3 DEF CasesOf

\* What a session writes of the tenant's work.
LEMMA MilestoneHeld ==
  ASSUME NEW n, NEW called, NEW c, NEW s, NEW s2, NEW row, NEW columns,
         Running(n, called, c, s), Holds(n, s, s2, SessionAt(c, s), row, columns),
         s.q.op = "recordMilestone", NEW t, t = Owner(s.q, s.began)
  PROVE  /\ s.pc = 2 /\ row = Timeline(t) /\ s.q.id \in DOMAIN columns /\ columns[s.q.id] # Null
         /\ row \in DOMAIN db =>
               \A m \in DOMAIN db[row] :
                  m \in DOMAIN columns /\ (db[row][m] # Null => columns[m] # Null)
<1> DEFINE st == SessionAt(c, s)
<1>1. /\ Wrote(n, s, st, row, columns) /\ st.do \in {"insert", "upsert", "update", "append"}
      /\ TypedRows(db, n) /\ TypedWrites(db, n, s.q.op, s.writes)
      /\ Allowed(s.q.op, t, st)
  BY HoldIs, RunningFacts, StatementAllowed
<1>2. /\ s.pc \in {1, 2}
      /\ s.pc = 1 => st.do = "select"
      /\ s.pc = 2 => /\ s.writes = NoRows /\ st.do = "upsert"
                     /\ st.row = Timeline(t) /\ DOMAIN st.set = {s.q.id}
                     /\ st.set[s.q.id] # Null
  BY <1>1, MilestoneStatements
<1> HIDE DEF st
<1>3. s.pc = 2
  BY <1>1, <1>2
<1>4. row \notin DOMAIN s.writes
  BY <1>2, <1>3 DEF NoRows
<1>5. /\ \A x \in DOMAIN st.set : x \in DOMAIN columns /\ columns[x] = st.set[x]
      /\ row = st.row
      /\ row \in DOMAIN db =>
            \A x \in DOMAIN db[row] :
               /\ x \in DOMAIN columns
               /\ x \notin DOMAIN st.set => columns[x] = db[row][x]
  BY <1>1, <1>2, <1>3, <1>4, WroteIs
<1> QED BY <1>2, <1>3, <1>5

LEMMA VerdictHeld ==
  ASSUME NEW n, NEW called, NEW c, NEW s, NEW s2, NEW row, NEW columns,
         Running(n, called, c, s), Holds(n, s, s2, SessionAt(c, s), row, columns)
  PROVE  /\ row[1] = "experiment_verdicts" => columns.decision # Null
         /\ s.q.op = "writeVerdict" =>
               /\ s.pc \in 3..5
               /\ s.pc = 3 => row = Verdict(Owner(s.q, s.began), s.q.id)
<1> DEFINE st == SessionAt(c, s)
           t == Owner(s.q, s.began)
<1>1. /\ Wrote(n, s, st, row, columns) /\ st.do \in {"insert", "upsert", "update", "append"}
      /\ TypedRows(db, n) /\ TypedWrites(db, n, s.q.op, s.writes)
      /\ Allowed(s.q.op, t, st)
      /\ row[1] \notin Sequenced => MayWrite(s.q.op, row[1])
  BY HoldIs, HeldRow, RunningFacts, StatementAllowed
<1>2. row[1] = "experiment_verdicts" => s.q.op = "writeVerdict"
  BY <1>1 DEF MayWrite, Sequenced
<1>3. ASSUME s.q.op = "writeVerdict"
      PROVE  /\ row[1] = "experiment_verdicts" => columns.decision # Null
             /\ s.pc \in 3..5
             /\ s.pc = 3 => row = Verdict(t, s.q.id)
  <2>1. /\ s.pc \in 1..5
        /\ s.pc \in {1, 2} => st.do = "select"
        /\ s.pc = 3 => /\ st.do = "upsert" /\ st.row = Verdict(t, s.q.id)
                       /\ "decision" \in DOMAIN st.set /\ st.set.decision # Null
        /\ s.pc = 4 => st.do = "update" /\ st.row = <<"experiments", t, s.q.id>>
        /\ s.pc = 5 => st.do = "append" /\ st.table = "audit_log"
    BY <1>1, <1>3, VerdictStatements
  <2> HIDE DEF st, t
  <2>2. s.pc = 3 \/ s.pc = 4 \/ s.pc = 5
    BY <1>1, <2>1
  <2>3. CASE s.pc = 3
    <3>1. row = st.row /\ columns["decision"] = st.set["decision"]
      BY <1>1, <2>1, <2>3, WroteIs
    <3> QED BY <2>1, <2>3, <3>1
  <2>4. CASE s.pc = 4
    <3>1. row = <<"experiments", t, s.q.id>>
      BY <1>1, <2>1, <2>4 DEF Wrote
    <3> QED BY <2>4, <3>1
  <2>5. CASE s.pc = 5
    <3>1. row = <<"audit_log", st.t, n>>
      BY <1>1, <2>1, <2>5 DEF Wrote
    <3> QED BY <2>5, <3>1
  <2> QED BY <2>2, <2>3, <2>4, <2>5
<1> QED BY <1>2, <1>3

LEMMA ExperimentHeld ==
  ASSUME NEW n, NEW called, NEW c, NEW s, NEW s2, NEW row, NEW columns,
         Running(n, called, c, s), Holds(n, s, s2, SessionAt(c, s), row, columns),
         row[1] = "experiments", columns.status = "concluded"
  PROVE  Verdict(row[2], row[3]) \in DOMAIN s.writes \/ row \in called
<1> DEFINE st == SessionAt(c, s)
           t == Owner(s.q, s.began)
<1>1. /\ Wrote(n, s, st, row, columns) /\ st.do \in {"insert", "upsert", "update", "append"}
      /\ TypedRows(db, n) /\ TypedWrites(db, n, s.q.op, s.writes)
      /\ Allowed(s.q.op, t, st)
      /\ st.do # "append" /\ MayWrite(s.q.op, row[1])
  BY HoldIs, HeldRow, RunningFacts, StatementAllowed DEF Sequenced
<1>2. s.q.op \in {"createExperiment", "updateExperiment", "writeVerdict"}
  BY <1>1 DEF MayWrite
<1>3. /\ row = st.row
      /\ \A x \in DOMAIN st.set : columns[x] = st.set[x]
  BY <1>1, WroteIs
<1>4. CASE s.q.op = "createExperiment"
  <2>1. /\ s.pc \in 1..3
        /\ s.pc = 1 => st.do = "select"
        /\ s.pc = 2 => "status" \in DOMAIN st.set /\ st.set.status = "created"
        /\ s.pc = 3 => st.do = "append"
    BY <1>1, <1>4, CreateStatements
  <2> HIDE DEF st, t
  <2>2. s.pc = 2
    BY <1>1, <2>1
  <2>3. columns["status"] = "created"
    BY <1>3, <2>1, <2>2
  <2> QED BY <2>3
<1>5. CASE s.q.op = "updateExperiment"
  <2>1. /\ s.pc \in 1..4
        /\ s.pc \in {1, 2} => st.do = "select"
        /\ s.pc = 3 => /\ st.row = <<"experiments", t, s.q.id>>
                       /\ "status" \in DOMAIN st.set /\ st.set.status = s.q.v
        /\ s.pc = 4 => st.do = "append"
    BY <1>1, <1>5, UpdateStatements
  <2>2. s.pc > 1 /\ s.q.v = "concluded" => <<"experiments", t, s.q.id>> \in called
    BY <1>5 DEF Running
  <2> HIDE DEF st, t
  <2>3. s.pc = 3
    BY <1>1, <2>1
  <2>4. columns["status"] = s.q.v
    BY <1>3, <2>1, <2>3
  <2> QED BY <1>3, <2>1, <2>2, <2>3, <2>4
<1>6. CASE s.q.op = "writeVerdict"
  <2>1. /\ s.pc \in 1..5
        /\ s.pc \in {1, 2} => st.do = "select"
        /\ s.pc = 3 => st.row = Verdict(t, s.q.id)
        /\ s.pc = 4 => st.row = <<"experiments", t, s.q.id>>
        /\ s.pc = 5 => st.do = "append"
    BY <1>1, <1>6, VerdictStatements
  <2>2. s.pc > 3 => Verdict(t, s.q.id) \in DOMAIN s.writes
    BY <1>6 DEF Running, SessionInv, WorkSession
  <2> HIDE DEF st, t
  <2>3. s.pc = 4
    <3>1. Verdict(t, s.q.id)[1] = "experiment_verdicts"
      BY DEF Verdict
    <3> QED BY <1>1, <1>3, <2>1, <3>1
  <2>4. row[2] = t /\ row[3] = s.q.id
    BY <1>3, <2>1, <2>3
  <2> QED BY <2>2, <2>3, <2>4
<1> QED BY <1>2, <1>4, <1>5, <1>6

LEMMA DatasetHeld ==
  ASSUME NEW n, NEW called, NEW c, NEW s, NEW s2, NEW row, NEW columns,
         Running(n, called, c, s), Holds(n, s, s2, SessionAt(c, s), row, columns),
         row[1] = "eval_datasets"
  PROVE  DatasetFits(db, s2.writes, row)
<1> DEFINE st == SessionAt(c, s)
           t == Owner(s.q, s.began)
<1>1. /\ Wrote(n, s, st, row, columns) /\ st.do \in {"insert", "upsert", "update", "append"}
      /\ TypedRows(db, n) /\ TypedWrites(db, n, s.q.op, s.writes) /\ IsFiniteSet(DOMAIN db)
      /\ Allowed(s.q.op, t, st)
      /\ st.do # "append" /\ MayWrite(s.q.op, row[1])
      /\ DOMAIN s2.writes = {row} \cup DOMAIN s.writes /\ s2.writes[row] = columns
      /\ \A o \in DOMAIN s.writes : o # row => s2.writes[o] = s.writes[o]
  BY HoldIs, HeldRow, RunningFacts, StatementAllowed DEF Sequenced
<1>2. s.q.op \in {"createDataset", "addCase"}
  BY <1>1 DEF MayWrite
<1>3. /\ row = st.row
      /\ \A x \in DOMAIN st.set : columns[x] = st.set[x]
  BY <1>1, WroteIs
<1>4. CASE s.q.op = "createDataset"
  <2>1. /\ s.pc \in 1..3
        /\ s.pc = 1 => st.do = "select"
        /\ s.pc = 2 => "version" \in DOMAIN st.set /\ st.set.version = 1
        /\ s.pc = 3 => st.do = "append"
    BY <1>1, <1>4, CreateStatements
  <2> HIDE DEF st, t
  <2>2. s.pc = 2
    BY <1>1, <2>1
  <2>3. columns["version"] = 1
    BY <1>3, <2>1, <2>2
  <2>4. CasesOf(db, row[2], row[3]) \in Nat
    BY <1>1, CasesAreNat
  <2> QED BY <1>1, <2>3, <2>4 DEF DatasetFits
<1>5. CASE s.q.op = "addCase"
  <2> DEFINE dataset == Dataset(t, s.q.id)
  <2>1. /\ s.pc \in 1..4
        /\ s.pc = 1 => st.do = "select"
        /\ s.pc = 2 => st.do = "select"
        /\ s.pc > 2 => At(s.reads, dataset) # None
        /\ s.pc = 3 => st.do = "append"
        /\ s.pc = 4 => /\ st.row = dataset /\ "version" \in DOMAIN st.set
                       /\ st.set.version = s.reads[dataset].version + 1
    BY <1>1, <1>5, CaseStatements
  <2>2. /\ s.pc > 2 /\ At(s.reads, dataset) # None =>
              /\ s.reads[dataset].version \in Nat
              /\ s.reads[dataset].version <= 1 + CasesOf(db, t, s.q.id)
        /\ s.pc > 3 => \E o \in DOMAIN s.writes :
                          o[1] = "eval_dataset_cases" /\ o[2] = t /\ s.writes[o].dataset = s.q.id
    BY <1>5 DEF Running, SessionInv, WorkSession, AddingCase
  <2>3. dataset[2] = t /\ dataset[3] = s.q.id
    BY DEF Dataset
  <2> HIDE DEF st, t, dataset
  <2>4. s.pc = 4 /\ s.pc > 2 /\ s.pc > 3
    BY <1>1, <2>1
  <2>5. row = dataset /\ columns["version"] = s.reads[dataset].version + 1
    BY <1>3, <2>1, <2>4
  <2>6. PICK o \in DOMAIN s.writes :
           o[1] = "eval_dataset_cases" /\ o[2] = t /\ s.writes[o].dataset = s.q.id
    BY <2>2, <2>4
  <2>7. o # row
    BY <2>6
  <2>8. o \in DOMAIN s2.writes /\ s2.writes[o] = s.writes[o]
    BY <1>1, <2>6, <2>7
  <2>9. CasesOf(db, t, s.q.id) \in Nat
    BY <1>1, CasesAreNat
  <2>10. /\ s2.writes[row].version \in Nat
         /\ s2.writes[row].version <= 2 + CasesOf(db, row[2], row[3])
    BY <1>1, <2>1, <2>2, <2>3, <2>4, <2>5, <2>9
  <2>11. s2.writes[o].dataset = row[3] /\ o[2] = row[2]
    BY <2>3, <2>5, <2>6, <2>8
  <2> QED BY <2>6, <2>8, <2>10, <2>11 DEF DatasetFits
<1> QED BY <1>2, <1>4, <1>5

LEMMA WorkSelect ==
  ASSUME NEW n, NEW called, NEW c, NEW s, NEW s2, Running(n, called, c, s),
         Selects(s, s2, SessionAt(c, s))
  PROVE  WorkSession(db, called, s2)
<1> DEFINE t == Owner(s2.q, s2.began)
           st == SessionAt(c, s)
<1>1. /\ st.do = "select" /\ s2.q = s.q /\ s2.pc = s.pc + 1 /\ s2.writes = s.writes
      /\ s.pc # 1 => t = Owner(s.q, s.began)
      /\ DOMAIN s2.reads = st.rows \cup DOMAIN s.reads
      /\ \A row \in st.rows : s2.reads[row] = Sees(s, row)
      /\ \A row \in DOMAIN s.reads : row \notin st.rows => s2.reads[row] = s.reads[row]
  BY SelectIs
<1>2. /\ s.pc \in Nat \ {0} /\ TypedRows(db, n)
      /\ TypedWrites(db, n, s.q.op, s.writes)
  BY RunningFacts
<1>3. WorkSession(db, called, s) /\ WorkFits(db, called)
  BY DEF Running, SessionInv, RowsInv
<1> HIDE DEF t, st
<1>4. WorkWrites(db, called, s2.writes)
  BY <1>1, <1>3 DEF WorkSession
<1>5. ASSUME s.q.op = "recordMilestone" PROVE ReachingMilestone(t, s2)
  <2>1. s.pc = 1
    <3>1. /\ s.pc \in {1, 2}
          /\ s.pc = 2 => st.do = "upsert"
      BY <1>1, <1>5, MilestoneStatements DEF st
    <3> QED BY <1>1, <3>1
  <2> QED BY <1>1, <2>1 DEF ReachingMilestone
<1>6. ASSUME s.q.op = "writeVerdict", s2.pc > 3 PROVE FALSE
  <2>1. /\ s.pc \in 1..5
        /\ s.pc = 3 => st.do = "upsert"
        /\ s.pc = 4 => st.do = "update"
        /\ s.pc = 5 => st.do = "append"
    BY <1>1, <1>6, VerdictStatements DEF st
  <2> QED BY <1>1, <1>6, <2>1
<1>7. ASSUME s.q.op = "addCase" PROVE AddingCase(db, t, s2)
  <2> DEFINE dataset == Dataset(t, s.q.id)
             u == Owner(s.q, s.began)
  <2>1. /\ s.pc \in 1..4
        /\ s.pc = 2 => st.rows = {Dataset(u, s.q.id)} /\ s.writes = NoRows
        /\ s.pc = 3 => st.do = "append"
        /\ s.pc = 4 => st.do = "update"
    BY <1>1, <1>7, CaseStatements DEF st
  <2>2. s.pc = 1 \/ s.pc = 2
    BY <1>1, <2>1
  <2>3. CASE s.pc = 1
    <3>1. ~(s2.pc > 2) /\ ~(s2.pc > 3)
      BY <1>1, <2>3
    <3> QED BY <3>1 DEF AddingCase
  <2>4. CASE s.pc = 2
    <3>1. t = u /\ s2.pc = 3
      BY <1>1, <2>4
    <3>2. s2.reads[dataset] = At(db, dataset) /\ dataset \in DOMAIN s2.reads
      BY <1>1, <2>1, <2>4, <3>1 DEF Sees, NoRows
    <3>3. dataset[1] = "eval_datasets" /\ dataset[2] = t /\ dataset[3] = s.q.id
      BY DEF Dataset
    <3> HIDE DEF dataset
    <3>4. At(s2.reads, dataset) # None =>
             dataset \in DOMAIN db /\ s2.reads[dataset] = db[dataset]
      BY <3>2 DEF At
    <3>5. At(s2.reads, dataset) # None =>
            /\ s2.reads[dataset].version \in Nat
            /\ s2.reads[dataset].version <= 1 + CasesOf(db, t, s.q.id)
      BY <1>3, <3>3, <3>4 DEF WorkFits
    <3> QED BY <1>1, <3>1, <3>5 DEF AddingCase, dataset
  <2> QED BY <2>2, <2>3, <2>4
<1>8. ASSUME s.q.op = "getExperiment" PROVE ReadingExperiment(db, called, t, s2)
  <2> DEFINE u == Owner(s.q, s.began)
             experiment == <<"experiments", u, s.q.id>>
             verdict == Verdict(u, s.q.id)
  <2>1. /\ s.pc \in 1..4
        /\ s.pc = 2 => st.rows = {experiment}
        /\ s.pc = 3 => st.rows = {verdict} /\ At(s.reads, experiment) # None
        /\ s.pc = 4 => st.do = "return"
    BY <1>1, <1>8, ReadStatements DEF st
  <2>2. /\ s.writes = NoRows
        /\ s.pc > 2 /\ At(s.reads, experiment) # None
              /\ s.reads[experiment].status = "concluded" =>
              verdict \in DOMAIN db \/ experiment \in called
    BY <1>3, <1>8 DEF WorkSession, ReadingExperiment
  <2>3. /\ experiment[1] = "experiments" /\ experiment[2] = u /\ experiment[3] = s.q.id
        /\ verdict[1] = "experiment_verdicts"
    BY DEF Verdict
  <2>4. s.pc = 1 \/ s.pc = 2 \/ s.pc = 3
    BY <1>1, <2>1
  <2>5. CASE s.pc = 1
    <3>1. s2.pc = 2
      BY <1>1, <2>5
    <3> QED BY <1>1, <2>2, <3>1 DEF ReadingExperiment
  <2>6. ASSUME s.pc # 1 PROVE t = u /\ (\A row : Sees(s, row) = At(db, row))
    BY <1>1, <2>2, <2>6 DEF Sees, NoRows
  <2>7. CASE s.pc = 2
    <3>1. s2.pc = 3 /\ t = u
      BY <1>1, <2>6, <2>7
    <3>2. s2.reads[experiment] = At(db, experiment) /\ experiment \in DOMAIN s2.reads
      BY <1>1, <2>1, <2>6, <2>7
    <3>3. verdict = Verdict(experiment[2], experiment[3])
      BY <2>3
    <3>4. At(s2.reads, experiment) # None /\ s2.reads[experiment].status = "concluded" =>
             verdict \in DOMAIN db \/ experiment \in called
      <4> HIDE DEF experiment, verdict
      <4>1. At(s2.reads, experiment) # None =>
               experiment \in DOMAIN db /\ s2.reads[experiment] = db[experiment]
        BY <3>2 DEF At
      <4> QED BY <1>3, <2>3, <3>3, <4>1 DEF WorkFits
    <3> QED BY <1>1, <2>2, <3>1, <3>4 DEF ReadingExperiment
  <2>8. CASE s.pc = 3
    <3>1. s2.pc = 4 /\ t = u
      BY <1>1, <2>6, <2>8
    <3>2. s2.reads[verdict] = At(db, verdict) /\ verdict \in DOMAIN s2.reads
      BY <1>1, <2>1, <2>6, <2>8
    <3>3. experiment \in DOMAIN s.reads /\ At(s.reads, experiment) # None
      BY <2>1, <2>8 DEF At
    <3>4. experiment # verdict
      BY <2>3
    <3>5. experiment \in DOMAIN s2.reads /\ s2.reads[experiment] = s.reads[experiment]
      BY <1>1, <2>1, <2>8, <3>3, <3>4
    <3>6. At(s2.reads, experiment) # None
      BY <3>3, <3>5 DEF At
    <3>7. s2.reads[experiment].status = "concluded" => verdict \in DOMAIN db \/ experiment \in called
      BY <2>2, <2>8, <3>3, <3>5
    <3>8. verdict \in DOMAIN db => Column(s2.reads, verdict, "decision", Null) # Null
      <4> SUFFICES ASSUME verdict \in DOMAIN db PROVE Column(s2.reads, verdict, "decision", Null) # Null
        OBVIOUS
      <4> HIDE DEF verdict
      <4>1. db[verdict].decision # Null /\ "absent" \notin DOMAIN db[verdict]
        BY <1>2, <1>3, <2>3 DEF WorkFits, TypedRows
      <4>2. s2.reads[verdict] = db[verdict] /\ db[verdict] # None
        BY <3>2, <4>1 DEF At, None
      <4> QED BY <3>2, <4>1, <4>2 DEF Column, At
    <3> HIDE DEF experiment, verdict
    <3>9. s2.reads[experiment].status = "concluded" =>
             Column(s2.reads, verdict, "decision", Null) # Null \/ experiment \in called
      BY <3>7, <3>8
    <3> QED BY <1>1, <2>2, <3>1, <3>6, <3>7, <3>9 DEF ReadingExperiment, experiment, verdict
  <2> QED BY <2>4, <2>5, <2>7, <2>8
<1>9. s2.q.op = "writeVerdict" /\ s2.pc > 3 => Verdict(t, s2.q.id) \in DOMAIN s2.writes
  BY <1>1, <1>6
<1> QED BY <1>1, <1>4, <1>5, <1>7, <1>8, <1>9 DEF WorkSession, t

LEMMA WorkPass ==
  ASSUME NEW n, NEW called, NEW c, NEW s, NEW s2, Running(n, called, c, s),
         Passes(s, s2, SessionAt(c, s))
  PROVE  WorkSession(db, called, s2)
<1> DEFINE t == Owner(s.q, s.began)
           st == SessionAt(c, s)
<1>1. /\ st.do \in {"insert", "upsert", "update", "append"}
      /\ st.do # "update" => st.own
      /\ Owner(s2.q, s2.began) = t
      /\ s2.q = s.q /\ s2.pc = s.pc + 1 /\ s2.reads = s.reads /\ s2.writes = s.writes
  BY PassIs
<1>2. s.pc \in Nat \ {0} /\ WorkSession(db, called, s)
  BY RunningFacts DEF Running, SessionInv
<1>3. s.q.op # "recordMilestone"
  <2> SUFFICES ASSUME s.q.op = "recordMilestone" PROVE FALSE
    OBVIOUS
  <2>1. /\ s.pc \in {1, 2}
        /\ s.pc = 1 => st.do = "select"
        /\ s.pc = 2 => st.do = "upsert" /\ ~st.own
    BY <1>1, MilestoneStatements
  <2> QED BY <1>1, <2>1
<1>4. s.q.op # "getExperiment"
  <2> SUFFICES ASSUME s.q.op = "getExperiment" PROVE FALSE
    OBVIOUS
  <2>1. st.do \in {"select", "return"}
    BY ReadStatements
  <2> QED BY <1>1, <2>1
<1>5. s.q.op = "writeVerdict" => s.pc > 3
  <2> SUFFICES ASSUME s.q.op = "writeVerdict" PROVE s.pc > 3
    OBVIOUS
  <2>1. /\ s.pc \in 1..5
        /\ s.pc \in {1, 2} => st.do = "select"
        /\ s.pc = 3 => st.do = "upsert" /\ ~st.own
    BY <1>1, VerdictStatements
  <2> HIDE DEF st
  <2> QED BY <1>1, <2>1
<1>6. s.q.op = "addCase" => s.pc > 3
  <2> SUFFICES ASSUME s.q.op = "addCase" PROVE s.pc > 3
    OBVIOUS
  <2>1. /\ s.pc \in 1..4
        /\ s.pc = 1 => st.do = "select"
        /\ s.pc = 2 => st.do = "select"
        /\ s.pc = 3 => st.do = "append" /\ ~st.own
    BY <1>1, CaseStatements
  <2> HIDE DEF st
  <2> QED BY <1>1, <2>1
<1> HIDE DEF t
<1>7. WorkWrites(db, called, s2.writes)
  BY <1>1, <1>2 DEF WorkSession
<1>8. s.q.op = "writeVerdict" => Verdict(t, s.q.id) \in DOMAIN s2.writes
  BY <1>1, <1>2, <1>5 DEF WorkSession, t
<1>9. s.q.op = "addCase" => AddingCase(db, t, s2)
  <2> SUFFICES ASSUME s.q.op = "addCase" PROVE AddingCase(db, t, s2)
    OBVIOUS
  <2>1. AddingCase(db, t, s) /\ s.pc > 3 /\ s.pc > 2
    BY <1>2, <1>6 DEF WorkSession, t
  <2> QED BY <1>1, <2>1 DEF AddingCase
<1> QED BY <1>1, <1>3, <1>4, <1>7, <1>8, <1>9 DEF WorkSession

LEMMA HeldWork ==
  ASSUME NEW n, NEW called, NEW c, NEW s, NEW s2, NEW row, NEW columns,
         Running(n, called, c, s), Holds(n, s, s2, SessionAt(c, s), row, columns)
  PROVE  WorkWrites(db, called, s2.writes)
<1>1. /\ DOMAIN s2.writes = {row} \cup DOMAIN s.writes /\ s2.writes[row] = columns
      /\ \A o \in DOMAIN s.writes : o # row => s2.writes[o] = s.writes[o]
  BY HoldIs
<1>2. WorkWrites(db, called, s.writes)
  BY DEF Running, SessionInv, WorkSession
<1>3. /\ row[1] \notin Sequenced => MayWrite(s.q.op, row[1])
      /\ row[1] \in Sequenced => row \notin DOMAIN s.writes
  BY HeldRow
<1>4. row[1] = "onboarding_timeline" /\ row \in DOMAIN db =>
         \A m \in DOMAIN db[row] :
            m \in DOMAIN columns /\ (db[row][m] # Null => columns[m] # Null)
  <2>1. row[1] = "onboarding_timeline" => s.q.op = "recordMilestone"
    BY <1>3 DEF MayWrite, Sequenced
  <2> QED BY <2>1, MilestoneHeld
<1>5. /\ row[1] = "experiment_verdicts" => columns.decision # Null
      /\ row[1] = "experiments" /\ columns.status = "concluded" =>
            Verdict(row[2], row[3]) \in DOMAIN s.writes \/ row \in called
      /\ row[1] = "eval_datasets" => DatasetFits(db, s2.writes, row)
  BY VerdictHeld, ExperimentHeld, DatasetHeld
<1> SUFFICES ASSUME NEW o \in DOMAIN s2.writes
             PROVE  /\ o[1] = "experiment_verdicts" => s2.writes[o].decision # Null
                    /\ o[1] = "experiments" /\ s2.writes[o].status = "concluded" =>
                          Verdict(o[2], o[3]) \in DOMAIN s2.writes \/ o \in called
                    /\ o[1] = "onboarding_timeline" /\ o \in DOMAIN db =>
                          \A m \in DOMAIN db[o] :
                             m \in DOMAIN s2.writes[o] /\ (db[o][m] # Null => s2.writes[o][m] # Null)
                    /\ o[1] = "eval_datasets" => DatasetFits(db, s2.writes, o)
  BY DEF WorkWrites
<1>6. CASE o = row
  BY <1>1, <1>4, <1>5, <1>6
<1>7. CASE o # row
  <2>1. o \in DOMAIN s.writes /\ s2.writes[o] = s.writes[o]
    BY <1>1, <1>7
  <2>2. /\ o[1] = "experiment_verdicts" => s.writes[o].decision # Null
        /\ o[1] = "experiments" /\ s.writes[o].status = "concluded" =>
              Verdict(o[2], o[3]) \in DOMAIN s.writes \/ o \in called
        /\ o[1] = "onboarding_timeline" /\ o \in DOMAIN db =>
              \A m \in DOMAIN db[o] :
                 m \in DOMAIN s.writes[o] /\ (db[o][m] # Null => s.writes[o][m] # Null)
        /\ o[1] = "eval_datasets" => DatasetFits(db, s.writes, o)
    BY <1>2, <2>1 DEF WorkWrites
  <2>3. ASSUME DatasetFits(db, s.writes, o) PROVE DatasetFits(db, s2.writes, o)
    <3>1. ASSUME NEW x \in DOMAIN s.writes, x[1] = "eval_dataset_cases"
          PROVE  x \in DOMAIN s2.writes /\ s2.writes[x] = s.writes[x]
      <4>1. x # row
        BY <1>3, <3>1 DEF Sequenced
      <4> QED BY <1>1, <4>1
    <3> QED BY <2>1, <2>3, <3>1 DEF DatasetFits
  <2> QED BY <1>1, <2>1, <2>2, <2>3
<1> QED BY <1>6, <1>7

LEMMA WorkHold ==
  ASSUME NEW n, NEW called, NEW c, NEW s, NEW s2, NEW row, NEW columns,
         Running(n, called, c, s), Holds(n, s, s2, SessionAt(c, s), row, columns)
  PROVE  WorkSession(db, called, s2)
<1> DEFINE t == Owner(s.q, s.began)
           st == SessionAt(c, s)
<1>1. /\ Wrote(n, s, st, row, columns)
      /\ st.do \in {"insert", "upsert", "update", "append"}
      /\ Owner(s2.q, s2.began) = t
      /\ s2.q = s.q /\ s2.pc = s.pc + 1 /\ s2.reads = s.reads
      /\ DOMAIN s2.writes = {row} \cup DOMAIN s.writes /\ s2.writes[row] = columns
      /\ \A o \in DOMAIN s.writes : o # row => s2.writes[o] = s.writes[o]
  BY HoldIs
<1>2. s.pc \in Nat \ {0} /\ WorkSession(db, called, s)
  BY RunningFacts DEF Running, SessionInv
<1>3. WorkWrites(db, called, s2.writes)
  BY HeldWork
<1>4. ASSUME s.q.op = "recordMilestone" PROVE ReachingMilestone(t, s2)
  <2>1. row = Timeline(t) /\ s.q.id \in DOMAIN columns /\ columns[s.q.id] # Null
    BY <1>4, MilestoneHeld
  <2> HIDE DEF t
  <2> QED BY <1>1, <2>1 DEF ReachingMilestone
<1>5. s.q.op # "getExperiment"
  <2> SUFFICES ASSUME s.q.op = "getExperiment" PROVE FALSE
    OBVIOUS
  <2>1. st.do \in {"select", "return"}
    BY ReadStatements
  <2> QED BY <1>1, <2>1
<1>6. ASSUME s.q.op = "writeVerdict" PROVE Verdict(t, s.q.id) \in DOMAIN s2.writes
  <2>1. s.pc \in 3..5 /\ (s.pc = 3 => row = Verdict(t, s.q.id))
    BY <1>6, VerdictHeld
  <2>2. s.pc > 3 => Verdict(t, s.q.id) \in DOMAIN s.writes
    BY <1>2, <1>6 DEF WorkSession
  <2> HIDE DEF t
  <2> QED BY <1>1, <2>1, <2>2
<1>7. ASSUME s.q.op = "addCase" PROVE AddingCase(db, t, s2)
  <2>1. /\ s.pc \in 1..4
        /\ s.pc = 1 => st.do = "select"
        /\ s.pc = 2 => st.do = "select"
        /\ s.pc = 3 => /\ st.do = "append" /\ st.table = "eval_dataset_cases" /\ st.t = t
                       /\ st.set.dataset = s.q.id
        /\ s.pc = 4 => /\ st.do = "update" /\ st.row = Dataset(t, s.q.id)
    BY <1>1, <1>7, CaseStatements
  <2>2. AddingCase(db, t, s)
    BY <1>2, <1>7 DEF WorkSession
  <2>3. Dataset(t, s.q.id)[1] # "eval_dataset_cases"
    BY DEF Dataset
  <2> HIDE DEF st, t
  <2>4. (s.pc = 3 \/ s.pc = 4) /\ s.pc > 2 /\ s2.pc > 2 /\ s2.pc > 3
    BY <1>1, <2>1
  <2>5. \E o \in DOMAIN s2.writes :
           o[1] = "eval_dataset_cases" /\ o[2] = t /\ s2.writes[o].dataset = s.q.id
    <3>1. CASE s.pc = 3
      <4>1. row = <<"eval_dataset_cases", t, n>> /\ columns = st.set
        BY <1>1, <2>1, <3>1 DEF Wrote
      <4>2. row[1] = "eval_dataset_cases" /\ row[2] = t
        BY <4>1
      <4> QED BY <1>1, <2>1, <3>1, <4>1, <4>2
    <3>2. CASE s.pc = 4
      <4>1. row = Dataset(t, s.q.id)
        BY <1>1, <2>1, <3>2 DEF Wrote
      <4>2. s.pc > 3
        BY <3>2
      <4>3. PICK o \in DOMAIN s.writes :
               o[1] = "eval_dataset_cases" /\ o[2] = t /\ s.writes[o].dataset = s.q.id
        BY <2>2, <4>2 DEF AddingCase
      <4>4. o # row
        BY <2>3, <4>1, <4>3
      <4> QED BY <1>1, <4>3, <4>4
    <3> QED BY <2>4, <3>1, <3>2
  <2> QED BY <1>1, <2>2, <2>4, <2>5 DEF AddingCase
<1> HIDE DEF t
<1> QED BY <1>1, <1>3, <1>4, <1>5, <1>6, <1>7 DEF WorkSession
-----------------------------------------------------------------------------
\* A step of a session, with everything that holds of it.
LEMMA SelectStep ==
  ASSUME NEW n, NEW called, NEW c, NEW s, NEW s2, Running(n, called, c, s),
         Selects(s, s2, SessionAt(c, s))
  PROVE  SessionInv(db, n, kek, called, c, s2) /\ BeganSession(db, s2)
<1>1. Follows(s, s2) /\ SessionAt(c, s).do # "return"
  BY DEF Selects
<1> QED BY <1>1, LegalStep, AdmittedStep, BeganStep, TypedSelect, KeysSelect, SettingsSelect,
           ServedSelect, WorkSelect DEF SessionInv

LEMMA HoldStep ==
  ASSUME NEW n, NEW called, NEW c, NEW s, NEW s2, NEW row, NEW columns,
         Running(n, called, c, s), Holds(n, s, s2, SessionAt(c, s), row, columns)
  PROVE  SessionInv(db, n + 1, kek, called, c, s2) /\ BeganSession(db, s2)
<1>1. Follows(s, s2) /\ SessionAt(c, s).do # "return"
  BY HoldIs DEF Holds
<1> QED BY <1>1, LegalStep, AdmittedStep, BeganStep, TypedHold, KeysHold, SettingsHold,
           ServedHold, WorkHold DEF SessionInv

\* Everything but what is served, which what it commits at once decides.
LEMMA PassStep ==
  ASSUME NEW n, NEW called, NEW c, NEW s, NEW s2, Running(n, called, c, s),
         Passes(s, s2, SessionAt(c, s))
  PROVE  /\ LegalSession(db, s2) /\ TypedSession(db, n, s2) /\ AdmittedSession(s2)
         /\ KeysSession(db, kek, c, s2) /\ SettingsSession(db, c, s2)
         /\ WorkSession(db, called, s2) /\ BeganSession(db, s2)
<1>1. Follows(s, s2) /\ SessionAt(c, s).do # "return"
  BY PassIs DEF Passes
<1> QED BY <1>1, LegalStep, AdmittedStep, BeganStep, TypedPass, KeysPass, SettingsPass, WorkPass
-----------------------------------------------------------------------------
(* A commit: the rows only grow, and what holds of the other sessions stays. *)
Grows(f, g) ==
    /\ DOMAIN f \subseteq DOMAIN g /\ IsFiniteSet(DOMAIN g)
    /\ \A row \in DOMAIN f :
          /\ row[1] \in Sequenced => g[row] = f[row]
          /\ row[1] = "tenant_tokens" => g[row].t = f[row].t /\ g[row].scope = f[row].scope
          /\ row[1] = "tenant_keys" => g[row].wrapped \in {f[row].wrapped, 0}
          /\ row[1] = "onboarding_timeline" =>
                \A m \in DOMAIN f[row] : m \in DOMAIN g[row] /\ (f[row][m] # Null => g[row][m] # Null)
\* What session s holds the locks of is left alone.
Apart(f, g, s) ==
    /\ \A row \in DOMAIN s.writes :
          (row \in DOMAIN g <=> row \in DOMAIN f) /\ (row \in DOMAIN f => g[row] = f[row])
    /\ \A t : \A name \in DOMAIN Operation :
          Home(name, t) \in DOMAIN s.writes => Records(g, t, name) = Records(f, t, name)

LEMMA RecordsGrow ==
  ASSUME NEW f, NEW g, Grows(f, g), NEW t, NEW name, NEW row \in Records(f, t, name)
  PROVE  row \in Records(g, t, name) /\ g[row] = f[row]
<1>1. row \in DOMAIN f /\ row[1] = "audit_log" /\ row[2] = t /\ RecordsSetting(f[row], name)
  BY RecordsAre
<1>2. row \in DOMAIN g /\ g[row] = f[row]
  BY <1>1 DEF Grows, Sequenced
<1> QED BY <1>1, <1>2, RecordsAre

LEMMA ConsentedGrows ==
  ASSUME NEW f, NEW g, Grows(f, g), NEW t, Consented(f, t)
  PROVE  Consented(g, t)
<1>1. PICK row \in Records(f, t, "optin") : f[row].after = "yes"
  BY DEF Consented
<1>2. row \in Records(g, t, "optin") /\ g[row] = f[row]
  BY RecordsGrow
<1> QED BY <1>1, <1>2 DEF Consented

LEMMA CasesGrow ==
  ASSUME NEW f, NEW g, Grows(f, g), NEW t, NEW id
  PROVE  /\ CasesOf(f, t, id) \in Nat /\ CasesOf(g, t, id) \in Nat
         /\ CasesOf(f, t, id) <= CasesOf(g, t, id)
         /\ \A row \in DOMAIN g \ DOMAIN f :
               row[1] = "eval_dataset_cases" /\ row[2] = t /\ g[row].dataset = id =>
                  CasesOf(f, t, id) + 1 <= CasesOf(g, t, id)
<1> DEFINE cases(h) == {row \in RowsOf(h, "eval_dataset_cases", t) : h[row].dataset = id}
<1>1. /\ DOMAIN f \subseteq DOMAIN g /\ IsFiniteSet(DOMAIN g) /\ IsFiniteSet(DOMAIN f)
  BY FS_Subset DEF Grows
<1>2. \A row \in DOMAIN f : row[1] = "eval_dataset_cases" => g[row] = f[row]
  BY DEF Grows, Sequenced
<1>3. cases(f) \subseteq DOMAIN f /\ cases(g) \subseteq DOMAIN g /\ cases(f) \subseteq cases(g)
  BY <1>1, <1>2 DEF RowsOf
<1>4. /\ IsFiniteSet(cases(f)) /\ IsFiniteSet(cases(g))
  BY <1>1, <1>3, FS_Subset
<1>5. Cardinality(cases(f)) \in Nat /\ Cardinality(cases(g)) \in Nat
  BY <1>4, FS_CardinalityType
<1>6. Cardinality(cases(f)) <= Cardinality(cases(g))
  BY <1>3, <1>4, FS_Subset
<1>7. ASSUME NEW row \in DOMAIN g \ DOMAIN f,
             row[1] = "eval_dataset_cases", row[2] = t, g[row].dataset = id
      PROVE  Cardinality(cases(f)) + 1 <= Cardinality(cases(g))
  <2>1. row \in cases(g) /\ row \notin cases(f)
    BY <1>3, <1>7 DEF RowsOf
  <2> HIDE DEF cases
  <2>2. /\ IsFiniteSet(cases(f) \cup {row})
        /\ Cardinality(cases(f) \cup {row}) = Cardinality(cases(f)) + 1
    BY <1>4, <2>1, FS_AddElement
  <2>3. cases(f) \cup {row} \subseteq cases(g)
    BY <1>3, <2>1
  <2>4. Cardinality(cases(f) \cup {row}) <= Cardinality(cases(g))
    BY <1>4, <2>3, FS_Subset
  <2> QED BY <2>2, <2>4
<1> QED BY <1>5, <1>6, <1>7 DEF CasesOf

LEMMA BeganGrows ==
  ASSUME NEW f, NEW g, Grows(f, g), NEW s, BeganSession(f, s)
  PROVE  BeganSession(g, s)
<1> SUFFICES ASSUME s.pc > 1, NEW row \in DOMAIN s.began
             PROVE  /\ row \in DOMAIN g /\ "absent" \notin DOMAIN s.began[row]
                    /\ row[1] = "tenant_tokens" =>
                          /\ g[row].t = s.began[row].t /\ g[row].scope = s.began[row].scope
                          /\ Settings(s.began[row].t) \in DOMAIN g
                    /\ row[1] = "tenant_keys" => (s.began[row].shredded => g[row].wrapped = 0)
  BY DEF BeganSession
<1>1. /\ row \in DOMAIN f /\ "absent" \notin DOMAIN s.began[row]
      /\ row[1] = "tenant_tokens" =>
            /\ f[row].t = s.began[row].t /\ f[row].scope = s.began[row].scope
            /\ Settings(s.began[row].t) \in DOMAIN f
      /\ row[1] = "tenant_keys" => (s.began[row].shredded => f[row].wrapped = 0)
  BY DEF BeganSession
<1> QED BY <1>1 DEF Grows

LEMMA KeysGrow ==
  ASSUME NEW f, NEW g, NEW k, NEW c, NEW s, Grows(f, g), Apart(f, g, s), KeysSession(f, k, c, s)
  PROVE  KeysSession(g, k, c, s)
<1> DEFINE t == Owner(s.q, s.began)
<1>1. /\ KeyWrites(f, c, t, s.writes)
      /\ s.q.op \in {"putSeamMap", "getSeamMap"} => KeyRead(f, t, s)
      /\ s.q.op = "putSeamMap" => PuttingMap(k, c, t, s)
      /\ s.q.op = "getSeamMap" => GettingMap(f, k, t, s)
  BY DEF KeysSession
<1>2. Key(t) \in DOMAIN f => Key(t) \in DOMAIN g /\ g[Key(t)].wrapped \in {f[Key(t)].wrapped, 0}
  BY DEF Grows, Key
<1> HIDE DEF t
<1>3. KeyWrites(g, c, t, s.writes)
  <2> SUFFICES ASSUME NEW row \in DOMAIN s.writes
               PROVE  /\ row[1] = "tenant_keys" =>
                            /\ row = Key(t)
                            /\ s.writes[row].shredded => s.writes[row].wrapped = 0
                            /\ s.writes[row].wrapped # 0 => s.writes[row].wrapped = c /\ row \notin DOMAIN g
                      /\ row[1] = "repo_context" /\ s.writes[row].key # 0 =>
                            /\ row[2] = t
                            /\ Key(t) \in DOMAIN s.writes => s.writes[Key(t)].wrapped = s.writes[row].key
                            /\ Key(t) \notin DOMAIN s.writes =>
                                  Key(t) \in DOMAIN g /\ g[Key(t)].wrapped \in {s.writes[row].key, 0}
    BY DEF KeyWrites
  <2>1. row \in DOMAIN g <=> row \in DOMAIN f
    BY DEF Apart
  <2>2. /\ row[1] = "tenant_keys" =>
              /\ row = Key(t)
              /\ s.writes[row].shredded => s.writes[row].wrapped = 0
              /\ s.writes[row].wrapped # 0 => s.writes[row].wrapped = c /\ row \notin DOMAIN f
        /\ row[1] = "repo_context" /\ s.writes[row].key # 0 =>
              /\ row[2] = t
              /\ Key(t) \in DOMAIN s.writes => s.writes[Key(t)].wrapped = s.writes[row].key
              /\ Key(t) \notin DOMAIN s.writes =>
                    Key(t) \in DOMAIN f /\ f[Key(t)].wrapped \in {s.writes[row].key, 0}
    BY <1>1 DEF KeyWrites
  <2> QED BY <1>2, <2>1, <2>2
<1>4. ASSUME s.q.op \in {"putSeamMap", "getSeamMap"} PROVE KeyRead(g, t, s)
  BY <1>1, <1>2, <1>4 DEF KeyRead
<1>5. ASSUME s.q.op = "getSeamMap" PROVE GettingMap(g, k, t, s)
  <2> DEFINE map == Context(t, s.q.id)
             sealed == s.reads[map].key
  <2>1. s.pc > 2 /\ At(s.reads, map) # None /\ sealed # 0 =>
           Key(t) \in DOMAIN g /\ g[Key(t)].wrapped \in {sealed, 0}
    BY <1>1, <1>2, <1>5 DEF GettingMap
  <2> QED BY <1>1, <1>5, <2>1 DEF GettingMap
<1> QED BY <1>1, <1>3, <1>4, <1>5 DEF KeysSession, t

LEMMA SettingsGrow ==
  ASSUME NEW f, NEW g, NEW c, NEW s, Grows(f, g), Apart(f, g, s), SettingsSession(f, c, s),
         s.pc \in Nat
  PROVE  SettingsSession(g, c, s)
<1> DEFINE t == Owner(s.q, s.began)
<1>1. /\ s.q.op = "createTenant" /\ s.pc > 1 => Settings(NewTenant(c)) \in DOMAIN s.writes
      /\ TenantWrites(f, s.q.op, t, s.writes) /\ TokenWrites(f, s.writes) /\ AuditWrites(f, t, s)
      /\ s.q.op \in DOMAIN Setters => SetAndRecorded(t, s)
  BY DEF SettingsSession
<1> HIDE DEF t
<1>2. /\ DOMAIN f \subseteq DOMAIN g
      /\ \A row \in DOMAIN s.writes :
            (row \in DOMAIN g <=> row \in DOMAIN f) /\ (row \in DOMAIN f => g[row] = f[row])
  BY DEF Grows, Apart
<1>3. TenantWrites(g, s.q.op, t, s.writes)
  BY <1>1, <1>2 DEF TenantWrites
<1>4. TokenWrites(g, s.writes)
  BY <1>1, <1>2 DEF TokenWrites
<1>5. AuditWrites(g, t, s)
  <2> SUFFICES ASSUME NEW row \in DOMAIN s.writes, row[1] = "audit_log"
               PROVE  /\ Settings(row[2]) \in DOMAIN g \cup DOMAIN s.writes
                      /\ \A name \in DOMAIN Operation : RecordsSetting(s.writes[row], name) =>
                            /\ s.q.op \in DOMAIN Setters /\ name = Setters[s.q.op] /\ row[2] = t
                            /\ s.pc > RecordedAt(s.q.op) /\ s.writes[row].after = s.q.v
                            /\ \A other \in Records(g, t, name) : other[3] < row[3]
                            /\ \A other \in Records(s.writes, t, name) : other = row
    BY DEF AuditWrites
  <2>1. Settings(row[2]) \in DOMAIN g \cup DOMAIN s.writes
    BY <1>1, <1>2 DEF AuditWrites
  <2> SUFFICES ASSUME NEW name \in DOMAIN Operation, RecordsSetting(s.writes[row], name)
               PROVE  /\ s.q.op \in DOMAIN Setters /\ name = Setters[s.q.op] /\ row[2] = t
                      /\ s.pc > RecordedAt(s.q.op) /\ s.writes[row].after = s.q.v
                      /\ \A other \in Records(g, t, name) : other[3] < row[3]
                      /\ \A other \in Records(s.writes, t, name) : other = row
    BY <2>1
  <2>2. /\ s.q.op \in DOMAIN Setters /\ name = Setters[s.q.op] /\ row[2] = t
        /\ s.pc > RecordedAt(s.q.op) /\ s.writes[row].after = s.q.v
        /\ \A other \in Records(f, t, name) : other[3] < row[3]
        /\ \A other \in Records(s.writes, t, name) : other = row
    BY <1>1 DEF AuditWrites
  <2>3. RecordedAt(s.q.op) \in Nat
    BY DEF RecordedAt
  <2>4. s.pc >= RecordedAt(s.q.op)
    BY <2>2, <2>3
  <2>5. Home(name, t) \in DOMAIN s.writes
    BY <1>1, <2>2, <2>4 DEF SetAndRecorded
  <2>6. Records(g, t, name) = Records(f, t, name)
    BY <2>5 DEF Apart
  <2> QED BY <2>2, <2>6
<1> QED BY <1>1, <1>3, <1>4, <1>5 DEF SettingsSession, t

LEMMA WorkGrows ==
  ASSUME NEW f, NEW g, NEW called, NEW called2, NEW s, Grows(f, g), Apart(f, g, s),
         called \subseteq called2, WorkSession(f, called, s)
  PROVE  WorkSession(g, called2, s)
<1> DEFINE t == Owner(s.q, s.began)
           w == s.writes
<1>1. /\ WorkWrites(f, called, w)
      /\ s.q.op = "recordMilestone" => ReachingMilestone(t, s)
      /\ s.q.op = "writeVerdict" /\ s.pc > 3 => Verdict(t, s.q.id) \in DOMAIN w
      /\ s.q.op = "addCase" => AddingCase(f, t, s)
      /\ s.q.op = "getExperiment" => ReadingExperiment(f, called, t, s)
  BY DEF WorkSession
<1> HIDE DEF t
<1>2. /\ DOMAIN f \subseteq DOMAIN g
      /\ \A row \in DOMAIN w :
            (row \in DOMAIN g <=> row \in DOMAIN f) /\ (row \in DOMAIN f => g[row] = f[row])
  BY DEF Grows, Apart
<1>3. \A u, id : /\ CasesOf(f, u, id) \in Nat /\ CasesOf(g, u, id) \in Nat
                 /\ CasesOf(f, u, id) <= CasesOf(g, u, id)
  BY CasesGrow
<1>4. WorkWrites(g, called2, w)
  <2> SUFFICES ASSUME NEW row \in DOMAIN w
               PROVE  /\ row[1] = "experiment_verdicts" => w[row].decision # Null
                      /\ row[1] = "experiments" /\ w[row].status = "concluded" =>
                            Verdict(row[2], row[3]) \in DOMAIN w \/ row \in called2
                      /\ row[1] = "onboarding_timeline" /\ row \in DOMAIN g =>
                            \A m \in DOMAIN g[row] :
                               m \in DOMAIN w[row] /\ (g[row][m] # Null => w[row][m] # Null)
                      /\ row[1] = "eval_datasets" => DatasetFits(g, w, row)
    BY DEF WorkWrites
  <2> HIDE DEF w
  <2>1. /\ row[1] = "experiment_verdicts" => w[row].decision # Null
        /\ row[1] = "experiments" /\ w[row].status = "concluded" =>
              Verdict(row[2], row[3]) \in DOMAIN w \/ row \in called
        /\ row[1] = "onboarding_timeline" /\ row \in DOMAIN f =>
              \A m \in DOMAIN f[row] :
                 m \in DOMAIN w[row] /\ (f[row][m] # Null => w[row][m] # Null)
        /\ row[1] = "eval_datasets" => DatasetFits(f, w, row)
    BY <1>1 DEF WorkWrites
  <2>2. ASSUME DatasetFits(f, w, row) PROVE DatasetFits(g, w, row)
    BY <1>3, <2>2 DEF DatasetFits
  <2> QED BY <1>2, <2>1, <2>2
<1>5. ASSUME s.q.op = "addCase" PROVE AddingCase(g, t, s)
  <2> DEFINE dataset == Dataset(t, s.q.id)
             version == s.reads[dataset].version
  <2>1. /\ s.pc > 2 /\ At(s.reads, dataset) # None =>
              version \in Nat /\ version <= 1 + CasesOf(f, t, s.q.id)
        /\ s.pc > 3 => \E o \in DOMAIN s.writes :
                          o[1] = "eval_dataset_cases" /\ o[2] = t /\ s.writes[o].dataset = s.q.id
    BY <1>1, <1>5 DEF AddingCase
  <2> HIDE DEF version
  <2>2. s.pc > 2 /\ At(s.reads, dataset) # None =>
           version \in Nat /\ version <= 1 + CasesOf(g, t, s.q.id)
    BY <1>3, <2>1
  <2> QED BY <2>1, <2>2 DEF AddingCase, version
<1>6. ASSUME s.q.op = "getExperiment" PROVE ReadingExperiment(g, called2, t, s)
  BY <1>1, <1>2, <1>6 DEF ReadingExperiment
<1> QED BY <1>1, <1>4, <1>5, <1>6 DEF WorkSession, t

LEMMA ServedGrows ==
  ASSUME NEW f, NEW g, NEW s, Grows(f, g), ServedSession(f, s)
  PROVE  ServedSession(g, s)
<1>1. OperatorAudited(f, s.q) => OperatorAudited(g, s.q)
  BY DEF OperatorAudited, Grows
<1>2. \A t : Consented(f, t) => Consented(g, t)
  BY ConsentedGrows
<1>3. s.q.op \in OperatorPlane => OperatorSession(g, s)
  BY <1>1 DEF ServedSession, OperatorSession
<1>4. s.q.op = "benchmarkResult" => BenchmarkSession(g, s)
  BY <1>2 DEF ServedSession, BenchmarkSession
<1> QED BY <1>3, <1>4 DEF ServedSession

LEMMA TypedGrows ==
  ASSUME NEW f, NEW g, NEW n \in Int, NEW n2 \in Int, n <= n2, NEW s, Grows(f, g), Apart(f, g, s),
         TypedSession(f, n, s)
  PROVE  TypedSession(g, n2, s)
<1>1. TypedWrites(f, n, s.q.op, s.writes)
  BY DEF TypedSession
<1>2. \A row \in DOMAIN s.writes : row \in DOMAIN g <=> row \in DOMAIN f
  BY DEF Apart
<1>3. TypedWrites(g, n2, s.q.op, s.writes)
  BY <1>1, <1>2 DEF TypedWrites
<1> QED BY <1>3 DEF TypedSession

\* What holds of a session still holds beside rows that grew apart from it.
LEMMA SessionGrows ==
  ASSUME NEW f, NEW g, NEW n \in Int, NEW n2 \in Int, n <= n2, NEW k, NEW called, NEW called2,
         called \subseteq called2, NEW c, NEW s, Grows(f, g), Apart(f, g, s),
         SessionInv(f, n, k, called, c, s)
  PROVE  SessionInv(g, n2, k, called2, c, s)
<1>1. LegalSession(f, s) /\ AdmittedSession(s)
  BY DEF SessionInv
<1>2. LegalSession(g, s)
  BY <1>1 DEF LegalSession, Grows
<1>3. s.pc \in Nat
  BY <1>1 DEF LegalSession
<1>4. /\ TypedSession(f, n, s) /\ KeysSession(f, k, c, s) /\ SettingsSession(f, c, s)
      /\ ServedSession(f, s) /\ WorkSession(f, called, s)
  BY DEF SessionInv
<1>5. TypedSession(g, n2, s)
  BY <1>4, TypedGrows
<1>6. KeysSession(g, k, c, s) /\ SettingsSession(g, c, s) /\ ServedSession(g, s)
  BY <1>3, <1>4, KeysGrow, SettingsGrow, ServedGrows
<1>7. WorkSession(g, called2, s)
  BY <1>4, WorkGrows
<1> QED BY <1>1, <1>2, <1>5, <1>6, <1>7 DEF SessionInv

LEMMA AnswerGrows ==
  ASSUME NEW f, NEW g, NEW called, NEW called2, called \subseteq called2, NEW lost, NEW lost2,
         lost2 = 0 => lost = 0, NEW q, NEW b, NEW y, Grows(f, g), Answer(f, called, lost, q, b, y)
  PROVE  Answer(g, called2, lost2, q, b, y)
<1> DEFINE t == Owner(q, b)
           experiment == <<"experiments", t, q.id>>
           row == Timeline(t)
<1>1. \A u : Consented(f, u) => Consented(g, u)
  BY ConsentedGrows
<1>2. row \in DOMAIN f /\ q.id \in DOMAIN f[row] /\ f[row][q.id] # Null =>
         row \in DOMAIN g /\ q.id \in DOMAIN g[row] /\ g[row][q.id] # Null
  <2>1. row[1] = "onboarding_timeline"
    BY DEF Timeline
  <2> HIDE DEF row
  <2> QED BY <2>1 DEF Grows
<1>3. /\ q.op = "getSeamMap" /\ y[1] = "200" /\ y[2].key # 0 =>
            ~Column(b, Key(t), "shredded", FALSE)
      /\ q.op = "getSeamMap" /\ y[1] = "500" => lost # 0
      /\ q.op \in Routes /\ y[1] # "500" /\ ~Passed(q, b) => y[1] \in {"401", "403"}
      /\ q.op \in OperatorPlane /\ y[1] # "500" /\ ~Live(b, OperatorToken(q.token)) =>
            y[1] \in {"401", "403"}
      /\ q.op = "benchmarkResult" /\ y[1] = "200" => \A u \in y[2].cohort : Consented(f, u)
      /\ q.op = "recordMilestone" /\ y[1] = "200" =>
            row \in DOMAIN f /\ q.id \in DOMAIN f[row] /\ f[row][q.id] # Null
      /\ q.op = "getExperiment" /\ y[1] = "200" /\ y[2].status = "concluded" =>
            y[2].verdict # Null \/ experiment \in called
  BY DEF Answer
<1> HIDE DEF t, experiment, row
<1>4. /\ q.op = "getSeamMap" /\ y[1] = "500" => lost2 # 0
      /\ q.op = "benchmarkResult" /\ y[1] = "200" => \A u \in y[2].cohort : Consented(g, u)
      /\ q.op = "recordMilestone" /\ y[1] = "200" =>
            row \in DOMAIN g /\ q.id \in DOMAIN g[row] /\ g[row][q.id] # Null
      /\ q.op = "getExperiment" /\ y[1] = "200" /\ y[2].status = "concluded" =>
            y[2].verdict # Null \/ experiment \in called2
  BY <1>1, <1>2, <1>3
<1> QED BY <1>3, <1>4 DEF Answer, t, experiment, row

\* What a session commits when its callback returns.
LEMMA CommitGrows ==
  ASSUME NEW n, NEW called, NEW c, NEW s, Running(n, called, c, s)
  PROVE  Grows(db, Over(s.writes, db))
<1> DEFINE w == s.writes
           g == Over(w, db)
           t == Owner(s.q, s.began)
<1>1. /\ DOMAIN g = DOMAIN w \cup DOMAIN db
      /\ \A x \in DOMAIN w : g[x] = w[x]
      /\ \A x \in DOMAIN db : x \notin DOMAIN w => g[x] = db[x]
  BY OverIs
<1>2. /\ IsFiniteSet(DOMAIN db) /\ IsFiniteSet(DOMAIN w) /\ TypedWrites(db, n, s.q.op, w)
  BY RunningFacts
<1>3. /\ KeyWrites(db, c, t, w) /\ TokenWrites(db, w) /\ WorkWrites(db, called, w)
  BY DEF Running, SessionInv, KeysSession, SettingsSession, WorkSession
<1> HIDE DEF g, w, t
<1>4. IsFiniteSet(DOMAIN g)
  BY <1>1, <1>2, FS_Union
<1> SUFFICES ASSUME NEW row \in DOMAIN db
             PROVE  /\ row[1] \in Sequenced => g[row] = db[row]
                    /\ row[1] = "tenant_tokens" => g[row].t = db[row].t /\ g[row].scope = db[row].scope
                    /\ row[1] = "tenant_keys" => g[row].wrapped \in {db[row].wrapped, 0}
                    /\ row[1] = "onboarding_timeline" =>
                          \A m \in DOMAIN db[row] :
                             m \in DOMAIN g[row] /\ (db[row][m] # Null => g[row][m] # Null)
  BY <1>1, <1>4 DEF Grows, g, w
<1>5. CASE row \notin DOMAIN w
  BY <1>1, <1>5
<1>6. CASE row \in DOMAIN w
  <2>1. g[row] = w[row]
    BY <1>1, <1>6
  <2>2. row[1] \notin Sequenced
    BY <1>2, <1>6 DEF TypedWrites
  <2>3. row[1] = "tenant_tokens" => w[row].t = db[row].t /\ w[row].scope = db[row].scope
    BY <1>3, <1>6 DEF TokenWrites
  <2>4. row[1] = "tenant_keys" => w[row].wrapped = 0
    BY <1>3, <1>6 DEF KeyWrites
  <2>5. row[1] = "onboarding_timeline" =>
          \A m \in DOMAIN db[row] : m \in DOMAIN w[row] /\ (db[row][m] # Null => w[row][m] # Null)
    BY <1>3, <1>6 DEF WorkWrites
  <2> QED BY <2>1, <2>2, <2>3, <2>4, <2>5
<1> QED BY <1>5, <1>6

\* A record it commits is of a setting whose row it commits too.
LEMMA RecordedWrites ==
  ASSUME NEW n, NEW called, NEW c, NEW s, Running(n, called, c, s),
         NEW row \in DOMAIN s.writes, row[1] = "audit_log",
         NEW name \in DOMAIN Operation, RecordsSetting(s.writes[row], name)
  PROVE  LET t == Owner(s.q, s.began) IN
         /\ s.q.op \in DOMAIN Setters /\ name = Setters[s.q.op] /\ row[2] = t
         /\ s.writes[row].after = s.q.v
         /\ Home(name, t) \in DOMAIN s.writes /\ s.writes[Home(name, t)][ColumnOf(name)] = s.q.v
         /\ \A other \in Records(db, t, name) : other[3] < row[3]
         /\ \A other \in Records(s.writes, t, name) : other = row
<1> DEFINE t == Owner(s.q, s.began)
<1>1. /\ AuditWrites(db, t, s)
      /\ s.q.op \in DOMAIN Setters => SetAndRecorded(t, s)
  BY DEF Running, SessionInv, SettingsSession
<1>2. s.pc \in Nat /\ RecordedAt(s.q.op) \in Nat
  BY RunningFacts DEF RecordedAt
<1> HIDE DEF t
<1>3. /\ s.q.op \in DOMAIN Setters /\ name = Setters[s.q.op] /\ row[2] = t
      /\ s.pc > RecordedAt(s.q.op) /\ s.writes[row].after = s.q.v
      /\ \A other \in Records(db, t, name) : other[3] < row[3]
      /\ \A other \in Records(s.writes, t, name) : other = row
  BY <1>1 DEF AuditWrites
<1>4. s.pc >= RecordedAt(s.q.op)
  BY <1>2, <1>3
<1>5. Home(name, t) \in DOMAIN s.writes /\ s.writes[Home(name, t)][ColumnOf(name)] = s.q.v
  BY <1>1, <1>3, <1>4 DEF SetAndRecorded
<1> QED BY <1>3, <1>5 DEF t

LEMMA OverRecords ==
  ASSUME NEW n, NEW op, NEW w, TypedWrites(db, n, op, w), NEW t, NEW name
  PROVE  /\ Records(Over(w, db), t, name) = Records(w, t, name) \cup Records(db, t, name)
         /\ \A row \in Records(w, t, name) : Over(w, db)[row] = w[row]
<1> DEFINE g == Over(w, db)
<1>1. /\ DOMAIN g = DOMAIN w \cup DOMAIN db
      /\ \A x \in DOMAIN w : g[x] = w[x]
      /\ \A x \in DOMAIN db : x \notin DOMAIN w => g[x] = db[x]
  BY OverIs
<1> HIDE DEF g
<1>2. \A row \in DOMAIN w : row[1] = "audit_log" => row \notin DOMAIN db
  BY DEF TypedWrites, Sequenced
<1>3. \A row : row \in Records(g, t, name) <=>
          row \in Records(w, t, name) \/ row \in Records(db, t, name)
  <2> TAKE row
  <2>1. CASE row \in DOMAIN w
    BY <1>1, <1>2, <2>1, RecordsAre
  <2>2. CASE row \notin DOMAIN w
    BY <1>1, <2>2, RecordsAre
  <2> QED BY <2>1, <2>2
<1>4. \A row \in Records(w, t, name) : g[row] = w[row]
  BY <1>1, RecordsAre
<1> QED BY <1>3, <1>4 DEF g

LEMMA CommitApart ==
  ASSUME NEW n, NEW called, NEW c, NEW s, Running(n, called, c, s),
         NEW d, DOMAIN s.writes \cap DOMAIN d.writes = {}
  PROVE  Apart(db, Over(s.writes, db), d)
<1> DEFINE w == s.writes
           g == Over(w, db)
<1>1. /\ DOMAIN g = DOMAIN w \cup DOMAIN db
      /\ \A x \in DOMAIN w : g[x] = w[x]
      /\ \A x \in DOMAIN db : x \notin DOMAIN w => g[x] = db[x]
  BY DEF Over
<1>2. TypedWrites(db, n, s.q.op, w)
  BY RunningFacts
<1>3. ASSUME NEW t, NEW name \in DOMAIN Operation, Home(name, t) \in DOMAIN d.writes
      PROVE  Records(g, t, name) = Records(db, t, name)
  <2>1. Records(g, t, name) = Records(w, t, name) \cup Records(db, t, name)
    BY <1>2, OverRecords
  <2>2. Records(w, t, name) = {}
    <3> SUFFICES ASSUME NEW row \in Records(w, t, name) PROVE FALSE
      OBVIOUS
    <3>1. row \in DOMAIN w /\ row[1] = "audit_log" /\ row[2] = t /\ RecordsSetting(w[row], name)
      BY RecordsAre
    <3>2. row[2] = Owner(s.q, s.began) /\ Home(name, Owner(s.q, s.began)) \in DOMAIN w
      BY <3>1, RecordedWrites
    <3> QED BY <1>3, <3>1, <3>2
  <2> QED BY <2>1, <2>2
<1>4. \A row \in DOMAIN d.writes :
         (row \in DOMAIN g <=> row \in DOMAIN db) /\ (row \in DOMAIN db => g[row] = db[row])
  BY <1>1
<1> HIDE DEF g
<1> QED BY <1>3, <1>4 DEF Apart, g

\* A method that sets a setting returns when it has recorded it, or has written nothing.
LEMMA SetterReturns ==
  ASSUME NEW n, NEW called, NEW c, NEW s, Running(n, called, c, s),
         s.q.op \in DOMAIN Setters, SessionAt(c, s).do = "return"
  PROVE  s.writes = NoRows \/ s.pc > RecordedAt(s.q.op)
<1> DEFINE st == SessionAt(c, s)
           t == Owner(s.q, s.began)
<1>1. /\ s.pc \in Nat \ {0} /\ Legal(s.q) /\ IsFiniteSet(DOMAIN db)
      /\ s.q.op \notin Unrouted /\ s.pc = 2 => s.writes = NoRows
  BY RunningFacts
<1>2. s.q.op \in {"setResidency", "setRedactionOptout", "setRetentionDays", "setRolloutPolicy",
                  "setBenchmarkOptin"}
  BY DEF Setters
<1>3. CASE s.q.op = "setResidency"
  <2> DEFINE write == Update(Settings(t), [residency |-> s.q.v])
             record == Audit(t, "retention", "residency", s.q.v)
  <2>1. (s.pc = 1 => st = write) /\ (s.pc = 2 => st = record)
    BY <1>1, <1>3, SetResidencyAt
  <2>2. write.do = "update" /\ record.do = "append"
    BY Kinds
  <2> HIDE DEF st, write, record
  <2>3. s.pc # 1 /\ s.pc # 2
    BY <2>1, <2>2 DEF st
  <2> QED BY <1>1, <1>3, <2>3 DEF RecordedAt
<1>4. CASE s.q.op = "setRedactionOptout"
  <2> DEFINE write == Update(Settings(t), [redaction |-> s.q.v])
             record == Audit(t, "retention", "redaction", s.q.v)
  <2>1. (s.pc = 1 => st = write) /\ (s.pc = 2 => st = record)
    BY <1>1, <1>4, SetRedactionOptoutAt
  <2>2. write.do = "update" /\ record.do = "append"
    BY Kinds
  <2> HIDE DEF st, write, record
  <2>3. s.pc # 1 /\ s.pc # 2
    BY <2>1, <2>2 DEF st
  <2> QED BY <1>1, <1>4, <2>3 DEF RecordedAt
<1>5. CASE s.q.op = "setRetentionDays"
  <2> DEFINE read == Select({Settings(t)})
             write == Update(Settings(t), [retention |-> s.q.v])
             record == Audit(t, "retention", "retention", s.q.v)
  <2>1. (s.pc = 1 => st = read) /\ (s.pc = 2 => st = write) /\ (s.pc = 3 => st = record)
    BY <1>1, <1>5, SetRetentionDaysAt
  <2>2. read.do = "select" /\ write.do = "update" /\ record.do = "append"
    BY Kinds
  <2> HIDE DEF st, read, write, record
  <2>3. s.pc # 1 /\ s.pc # 2 /\ s.pc # 3
    BY <2>1, <2>2 DEF st
  <2> QED BY <1>1, <1>5, <2>3 DEF RecordedAt
<1>6. CASE s.q.op = "setRolloutPolicy"
  <2> DEFINE write == Upsert(Policy(t), [policy |-> s.q.v])
             record == Audit(t, "autonomy", "policy", s.q.v)
  <2>1. (s.pc = 1 => st = write) /\ (s.pc = 2 => st = record)
    BY <1>1, <1>6, SetRolloutPolicyAt
  <2>2. write.do = "upsert" /\ record.do = "append"
    BY Kinds
  <2> HIDE DEF st, write, record
  <2>3. s.pc # 1 /\ s.pc # 2
    BY <2>1, <2>2 DEF st
  <2> QED BY <1>1, <1>6, <2>3 DEF RecordedAt
<1>7. CASE s.q.op = "setBenchmarkOptin"
  <2> DEFINE record == Audit(t, "benchmark", "optin", s.q.v)
  <2>1. s.q.op \notin Unrouted /\ s.q.op \in Routes
    BY <1>7 DEF Routes, Unrouted
  <2>2. s.pc # 1
    <3>1. s.pc = 1 => st.do = "select"
      BY <2>1, FirstSelects
    <3> QED BY <3>1
  <2>3. ASSUME s.pc > 2 PROVE s.pc # 3
    <3>1. Passed(s.q, s.began)
      BY <2>1, <2>3 DEF Running, SessionInv, AdmittedSession
    <3>2. s.pc = 3 => st = record
      <4>1. s.pc > 1
        BY <1>1, <2>3
      <4>2. st = SessionAt(c, s) /\ t = Owner(s.q, s.began)
        OBVIOUS
      <4> HIDE DEF st, t
      <4> QED BY <1>1, <1>7, <3>1, <4>1, <4>2, SetBenchmarkOptinAt
    <3>3. record.do = "append"
      BY Kinds
    <3> HIDE DEF st, record
    <3> QED BY <3>2, <3>3 DEF st
  <2> QED BY <1>1, <1>7, <2>1, <2>2, <2>3 DEF RecordedAt
<1> QED BY <1>2, <1>3, <1>4, <1>5, <1>6, <1>7

\* What is committed still holds of the rows.
LEMMA CommitTyped ==
  ASSUME NEW n, NEW called, NEW c, NEW s, Running(n, called, c, s)
  PROVE  TypedRows(Over(s.writes, db), n) /\ KeysFit(Over(s.writes, db))
         /\ TenantsExist(Over(s.writes, db))
<1> DEFINE w == s.writes
           g == Over(w, db)
           t == Owner(s.q, s.began)
<1>1. /\ DOMAIN g = DOMAIN w \cup DOMAIN db
      /\ \A x \in DOMAIN w : g[x] = w[x]
      /\ \A x \in DOMAIN db : x \notin DOMAIN w => g[x] = db[x]
  BY OverIs
<1>2. /\ TypedWrites(db, n, s.q.op, w) /\ TypedRows(db, n)
  BY RunningFacts
<1>3. /\ KeyWrites(db, c, t, w) /\ TenantWrites(db, s.q.op, t, w) /\ TokenWrites(db, w)
      /\ AuditWrites(db, t, s) /\ KeysFit(db) /\ TenantsExist(db)
  BY DEF Running, SessionInv, KeysSession, SettingsSession, RowsInv
<1>4. Grows(db, g)
  BY CommitGrows
<1>5. \A row \in DOMAIN w : row[1] = "audit_log" => Settings(row[2]) \in DOMAIN db \cup DOMAIN w
  BY <1>3 DEF AuditWrites
<1> HIDE DEF g, w, t
<1>6. TypedRows(g, n)
  <2> SUFFICES ASSUME NEW row \in DOMAIN g
               PROVE  /\ "absent" \notin DOMAIN g[row]
                      /\ row[1] \in Sequenced =>
                            row = <<row[1], row[2], row[3]>> /\ row[3] \in Int /\ row[3] < n
    BY <1>4 DEF TypedRows, Grows
  <2>1. CASE row \in DOMAIN w
    BY <1>1, <1>2, <2>1 DEF TypedWrites
  <2>2. CASE row \notin DOMAIN w
    BY <1>1, <1>2, <2>2 DEF TypedRows
  <2> QED BY <2>1, <2>2
<1>7. KeysFit(g)
  <2> SUFFICES ASSUME NEW row \in DOMAIN g
               PROVE  /\ row[1] = "tenant_keys" => (g[row].shredded => g[row].wrapped = 0)
                      /\ row[1] = "repo_context" /\ g[row].key # 0 =>
                            Key(row[2]) \in DOMAIN g /\ g[Key(row[2])].wrapped \in {g[row].key, 0}
    BY DEF KeysFit
  <2>1. ASSUME NEW u, Key(u) \in DOMAIN db
        PROVE  Key(u) \in DOMAIN g /\ g[Key(u)].wrapped \in {db[Key(u)].wrapped, 0}
    <3>1. Key(u)[1] = "tenant_keys"
      BY DEF Key
    <3> QED BY <1>4, <2>1, <3>1 DEF Grows
  <2>2. CASE row \in DOMAIN w
    <3>1. g[row] = w[row]
      BY <1>1, <2>2
    <3>2. /\ row[1] = "tenant_keys" => (w[row].shredded => w[row].wrapped = 0)
          /\ row[1] = "repo_context" /\ w[row].key # 0 =>
                /\ row[2] = t
                /\ Key(t) \in DOMAIN w => w[Key(t)].wrapped = w[row].key
                /\ Key(t) \notin DOMAIN w =>
                      Key(t) \in DOMAIN db /\ db[Key(t)].wrapped \in {w[row].key, 0}
      BY <1>3, <2>2 DEF KeyWrites
    <3>3. Key(t) \in DOMAIN w => Key(t) \in DOMAIN g /\ g[Key(t)] = w[Key(t)]
      BY <1>1
    <3> QED BY <2>1, <3>1, <3>2, <3>3
  <2>3. CASE row \notin DOMAIN w
    <3>1. row \in DOMAIN db /\ g[row] = db[row]
      BY <1>1, <2>3
    <3>2. /\ row[1] = "tenant_keys" => (db[row].shredded => db[row].wrapped = 0)
          /\ row[1] = "repo_context" /\ db[row].key # 0 =>
                Key(row[2]) \in DOMAIN db /\ db[Key(row[2])].wrapped \in {db[row].key, 0}
      BY <1>3, <3>1 DEF KeysFit
    <3> QED BY <2>1, <3>1, <3>2
  <2> QED BY <2>2, <2>3
<1>8. TenantsExist(g)
  <2> SUFFICES ASSUME NEW row \in DOMAIN g
               PROVE  /\ row[1] = "tenants" => row = Settings(row[2]) /\ Columns \subseteq DOMAIN g[row]
                      /\ row[1] = "tenant_tokens" =>
                            {"t", "scope"} \subseteq DOMAIN g[row] /\ Settings(g[row].t) \in DOMAIN g
                      /\ row[1] = "audit_log" => Settings(row[2]) \in DOMAIN g
    BY DEF TenantsExist
  <2>1. CASE row \in DOMAIN w
    <3>1. g[row] = w[row]
      BY <1>1, <2>1
    <3>2. row[1] = "tenants" => row = Settings(row[2]) /\ Columns \subseteq DOMAIN w[row]
      BY <1>3, <2>1 DEF TenantWrites
    <3>3. row[1] = "tenant_tokens" =>
             {"t", "scope"} \subseteq DOMAIN w[row] /\ Settings(w[row].t) \in DOMAIN db \cup DOMAIN w
      BY <1>3, <2>1 DEF TokenWrites
    <3> QED BY <1>1, <1>5, <2>1, <3>1, <3>2, <3>3
  <2>2. CASE row \notin DOMAIN w
    <3>1. row \in DOMAIN db /\ g[row] = db[row]
      BY <1>1, <2>2
    <3> QED BY <1>1, <1>3, <3>1 DEF TenantsExist
  <2> QED BY <2>1, <2>2
<1> QED BY <1>6, <1>7, <1>8 DEF g, w

\* A setting is the column of its row.
LEMMA SettingIs ==
  ASSUME NEW f, NEW n, TypedRows(f, n), NEW u, NEW name \in DOMAIN Operation,
         Home(name, u) \in DOMAIN f
  PROVE  Setting(f, u)[name] = f[Home(name, u)][ColumnOf(name)]
<1>1. name \in {"retention", "redaction", "residency", "optin", "policy"}
  BY DEF Operation
<1>2. "absent" \notin DOMAIN f[Home(name, u)] /\ "absent" \in DOMAIN None
  BY DEF TypedRows, None
<1>3. At(f, Home(name, u)) = f[Home(name, u)] /\ At(f, Home(name, u)) # None
  BY <1>2 DEF At
<1>4. CASE name \in {"retention", "redaction", "residency"}
  BY <1>4 DEF Setting, Home, ColumnOf
<1>5. CASE name = "optin"
  BY <1>3, <1>5 DEF Setting, Home, ColumnOf, Column
<1>6. CASE name = "policy"
  BY <1>3, <1>6 DEF Setting, Home, ColumnOf, Column
<1> QED BY <1>1, <1>4, <1>5, <1>6

LEMMA SettingSame ==
  ASSUME NEW f, NEW g, NEW n, TypedRows(f, n), TypedRows(g, n), NEW u,
         NEW name \in DOMAIN Operation,
         Home(name, u) \in DOMAIN f <=> Home(name, u) \in DOMAIN g,
         Settings(u) \in DOMAIN f,
         Home(name, u) \in DOMAIN f =>
            g[Home(name, u)][ColumnOf(name)] = f[Home(name, u)][ColumnOf(name)]
  PROVE  Setting(g, u)[name] = Setting(f, u)[name]
<1>1. CASE Home(name, u) \in DOMAIN f
  BY <1>1, SettingIs
<1>2. CASE Home(name, u) \notin DOMAIN f
  <2>1. name \in {"retention", "redaction", "residency", "optin", "policy"}
    BY DEF Operation
  <2>2. name \in {"optin", "policy"}
    BY <1>2, <2>1 DEF Home
  <2>3. At(f, Home(name, u)) = None /\ At(g, Home(name, u)) = None
    BY <1>2 DEF At
  <2> QED BY <2>2, <2>3 DEF Setting, Column, Home
<1> QED BY <1>1, <1>2

LEMMA CommitSettings ==
  ASSUME NEW n, NEW called, NEW c, NEW s, Running(n, called, c, s),
         SessionAt(c, s).do = "return"
  PROVE  SettingsRecorded(Over(s.writes, db))
<1> DEFINE w == s.writes
           g == Over(w, db)
           t == Owner(s.q, s.began)
           op == s.q.op
<1>1. /\ DOMAIN g = DOMAIN w \cup DOMAIN db
      /\ \A x \in DOMAIN w : g[x] = w[x]
      /\ \A x \in DOMAIN db : x \notin DOMAIN w => g[x] = db[x]
  BY Zenon, OverIs
<1>2. /\ TypedWrites(db, n, op, w) /\ TypedRows(db, n) /\ n \in Nat
  BY RunningFacts
<1>3. /\ TenantWrites(db, op, t, w) /\ SettingsRecorded(db) /\ TenantsExist(db)
      /\ op \in DOMAIN Setters => SetAndRecorded(t, s)
  BY DEF Running, SessionInv, SettingsSession, RowsInv
<1>4. Grows(db, g) /\ TypedRows(g, n)
  BY CommitGrows, CommitTyped
<1>5. \A u, name : /\ Records(g, u, name) = Records(w, u, name) \cup Records(db, u, name)
                   /\ \A row \in Records(w, u, name) : g[row] = w[row]
  BY <1>2, OverRecords
<1>6. op \in DOMAIN Setters /\ w # NoRows => Records(w, t, Setters[op]) # {}
  <2>1. op \in DOMAIN Setters => w = NoRows \/ s.pc > RecordedAt(op)
    BY SetterReturns
  <2> QED BY <1>3, <2>1 DEF SetAndRecorded
<1>7. \A row \in DOMAIN w : w # NoRows
  BY DEF NoRows
<1>8. ASSUME NEW u, NEW name \in DOMAIN Operation, NEW record \in Records(w, u, name)
      PROVE  /\ op \in DOMAIN Setters /\ name = Setters[op] /\ u = t
             /\ NewestSays(g, u, name) /\ g[record].after = s.q.v
             /\ Home(name, t) \in DOMAIN w /\ w[Home(name, t)][ColumnOf(name)] = s.q.v
  <2>1. record \in DOMAIN w /\ record[1] = "audit_log" /\ record[2] = u
        /\ RecordsSetting(w[record], name)
    BY RecordsAre
  <2>2. /\ op \in DOMAIN Setters /\ name = Setters[op] /\ record[2] = t
        /\ w[record].after = s.q.v
        /\ Home(name, t) \in DOMAIN w /\ w[Home(name, t)][ColumnOf(name)] = s.q.v
        /\ \A other \in Records(db, t, name) : other[3] < record[3]
        /\ \A other \in Records(w, t, name) : other = record
    BY <2>1, RecordedWrites
  <2> HIDE DEF g, w, t, op
  <2>3. record[3] \in Int
    BY <1>2, <2>1 DEF TypedWrites, Sequenced
  <2>4. \A other \in Records(db, t, name) : other[3] \in Int
    <3>1. \A other \in Records(db, t, name) : other \in DOMAIN db /\ other[1] = "audit_log"
      BY RecordsAre
    <3> QED BY <1>2, <3>1 DEF TypedRows, Sequenced
  <2>5. \A other \in Records(g, t, name) : other[3] <= record[3]
    BY <1>5, <2>2, <2>3, <2>4
  <2>6. Home(name, t) \in DOMAIN g /\ g[Home(name, t)][ColumnOf(name)] = s.q.v
    BY <1>1, <2>2
  <2>7. Setting(g, t)[name] = s.q.v
    BY <1>4, <2>6, SettingIs
  <2>8. record \in Records(g, t, name) /\ g[record].after = s.q.v
    BY <1>1, <1>5, <2>1, <2>2
  <2>9. NewestSays(g, t, name)
    BY <2>5, <2>7, <2>8 DEF NewestSays
  <2> QED BY <2>1, <2>2, <2>8, <2>9
<1>9. ASSUME NEW u, NEW name \in DOMAIN Operation, Records(w, u, name) = {},
             Records(db, u, name) # {}
      PROVE  NewestSays(g, u, name)
  <2> HIDE DEF g, w, t, op
  <2> DEFINE h == Home(name, u)
  <2>1. PICK record \in Records(db, u, name) : TRUE
    BY <1>9
  <2>2. record \in DOMAIN db /\ record[1] = "audit_log" /\ record[2] = u
    BY <2>1, RecordsAre
  <2>3. Settings(u) \in DOMAIN db /\ Settings(u)[1] = "tenants" /\ Settings(u)[2] = u
    BY <1>3, <2>2 DEF TenantsExist, Settings
  <2>4. NewestSays(db, u, name)
    BY <1>3, <1>9, <2>3 DEF SettingsRecorded
  <2>5. name \in {"retention", "redaction", "residency", "optin", "policy"}
    BY DEF Operation
  <2>6. ASSUME h \in DOMAIN w
        PROVE  h \in DOMAIN db /\ w[h][ColumnOf(name)] = db[h][ColumnOf(name)]
    <3>1. ~(op \in DOMAIN Setters /\ u = t /\ name = Setters[op])
      BY <1>6, <1>7, <1>9, <2>6
    <3>2. CASE name = "optin"
      <4>1. h = Optin(u) /\ h[1] = "benchmark_optin" /\ h[2] = u
        BY <3>2 DEF Home, Optin
      <4>2. MayWrite(op, h[1])
        BY <1>2, <2>6, <4>1 DEF TypedWrites, Sequenced
      <4>3. op = "setBenchmarkOptin"
        BY <4>1, <4>2 DEF MayWrite
      <4>4. h = Optin(t)
        BY <1>3, <2>6, <4>1 DEF TenantWrites
      <4>5. u = t
        BY <4>1, <4>4 DEF Optin
      <4> QED BY <3>1, <3>2, <4>3, <4>5 DEF Setters
    <3>3. CASE name = "policy"
      <4>1. h = Policy(u) /\ h[1] = "rollout_policies" /\ h[2] = u
        BY <3>3 DEF Home, Policy
      <4>2. MayWrite(op, h[1])
        BY <1>2, <2>6, <4>1 DEF TypedWrites, Sequenced
      <4>3. op = "setRolloutPolicy"
        BY <4>1, <4>2 DEF MayWrite
      <4>4. h = Policy(t)
        BY <1>3, <2>6, <4>1 DEF TenantWrites
      <4>5. u = t
        BY <4>1, <4>4 DEF Policy
      <4> QED BY <3>1, <3>3, <4>3, <4>5 DEF Setters
    <3>4. CASE name \in Columns
      <4>1. h = Settings(u) /\ ColumnOf(name) = name
        BY <3>4 DEF Home, ColumnOf, Columns
      <4>2. /\ op \in {"setResidency", "setRedactionOptout", "setRetentionDays"} /\ u = t
            /\ \A col \in Columns \ {Setters[op]} : w[h][col] = db[h][col]
        BY <1>3, <2>3, <2>6, <4>1 DEF TenantWrites
      <4>3. op \in DOMAIN Setters
        BY <4>2 DEF Setters
      <4> QED BY <2>3, <3>1, <3>4, <4>1, <4>2, <4>3
    <3> QED BY <2>5, <3>2, <3>3, <3>4 DEF Columns
  <2>7. /\ h \in DOMAIN g <=> h \in DOMAIN db
        /\ h \in DOMAIN db => g[h][ColumnOf(name)] = db[h][ColumnOf(name)]
    BY <1>1, <2>6
  <2>8. Setting(g, u)[name] = Setting(db, u)[name]
    BY <1>2, <1>4, <2>3, <2>7, SettingSame
  <2>9. Records(g, u, name) = Records(db, u, name)
    BY <1>5, <1>9
  <2>10. \A other \in Records(db, u, name) : g[other] = db[other]
    BY <1>4, RecordsGrow
  <2> HIDE DEF h
  <2> QED BY <2>4, <2>8, <2>9, <2>10 DEF NewestSays
<1>10. ASSUME NEW row \in DOMAIN g, row[1] = "benchmark_optin", g[row].opted_in = "yes"
       PROVE  Consented(g, row[2])
  <2>1. CASE row \in DOMAIN w
    <3>1. row = Optin(t) /\ row[2] = t
      BY <1>3, <1>10, <2>1 DEF TenantWrites, Optin
    <3>2. MayWrite(op, row[1])
      BY <1>2, <1>10, <2>1 DEF TypedWrites, Sequenced
    <3>3. op = "setBenchmarkOptin"
      BY <1>10, <3>2 DEF MayWrite
    <3>4. op \in DOMAIN Setters /\ Setters[op] = "optin" /\ "optin" \in DOMAIN Operation
      BY <3>3 DEF Setters, Operation
    <3>5. PICK record \in Records(w, t, "optin") : TRUE
      BY <1>6, <1>7, <2>1, <3>4
    <3>6. g[record].after = s.q.v /\ w[Optin(t)].opted_in = s.q.v
      <4>1. /\ g[record].after = s.q.v
            /\ w[Home("optin", t)][ColumnOf("optin")] = s.q.v
        BY <1>8, <3>4, <3>5
      <4> QED BY <4>1 DEF Home, ColumnOf
    <3> HIDE DEF g, w, t, op
    <3>7. record \in Records(g, t, "optin") /\ g[record].after = "yes"
      BY <1>1, <1>5, <1>10, <2>1, <3>1, <3>5, <3>6
    <3> QED BY <3>1, <3>7 DEF Consented
  <2>2. CASE row \notin DOMAIN w
    <3>1. row \in DOMAIN db /\ db[row].opted_in = "yes"
      BY <1>1, <1>10, <2>2
    <3>2. Consented(db, row[2])
      BY <1>3, <1>10, <3>1 DEF SettingsRecorded, Consented
    <3> QED BY <1>4, <3>2, ConsentedGrows
  <2> QED BY <2>1, <2>2
<1> HIDE DEF g, w, t, op
<1>11. ASSUME NEW row \in DOMAIN g, row[1] = "tenants", NEW name \in DOMAIN Operation,
              Records(g, row[2], name) # {}
       PROVE  NewestSays(g, row[2], name)
  <2>1. CASE Records(w, row[2], name) = {}
    BY <1>5, <1>9, <1>11, <2>1
  <2>2. CASE Records(w, row[2], name) # {}
    BY <1>8, <2>2
  <2> QED BY <2>1, <2>2
<1>12. SettingsRecorded(g)
  BY <1>10, <1>11 DEF SettingsRecorded, Consented
<1> QED BY <1>12 DEF g, w

LEMMA CommitWork ==
  ASSUME NEW n, NEW called, NEW c, NEW s, Running(n, called, c, s)
  PROVE  WorkFits(Over(s.writes, db), called)
<1> DEFINE w == s.writes
           g == Over(w, db)
<1>1. /\ DOMAIN g = DOMAIN w \cup DOMAIN db
      /\ \A x \in DOMAIN w : g[x] = w[x]
      /\ \A x \in DOMAIN db : x \notin DOMAIN w => g[x] = db[x]
  BY OverIs
<1>2. TypedWrites(db, n, s.q.op, w) /\ Grows(db, g)
  BY RunningFacts, CommitGrows
<1>3. WorkWrites(db, called, w) /\ WorkFits(db, called)
  BY DEF Running, SessionInv, WorkSession, RowsInv
<1>4. \A u, id : /\ CasesOf(db, u, id) \in Nat /\ CasesOf(g, u, id) \in Nat
                 /\ CasesOf(db, u, id) <= CasesOf(g, u, id)
  BY <1>2, CasesGrow
<1>5. \A o \in DOMAIN w : o[1] = "eval_dataset_cases" =>
          CasesOf(db, o[2], w[o].dataset) + 1 <= CasesOf(g, o[2], w[o].dataset)
  <2> SUFFICES ASSUME NEW o \in DOMAIN w, o[1] = "eval_dataset_cases"
               PROVE  CasesOf(db, o[2], w[o].dataset) + 1 <= CasesOf(g, o[2], w[o].dataset)
    OBVIOUS
  <2>1. o \in DOMAIN g \ DOMAIN db /\ g[o] = w[o]
    BY <1>1, <1>2 DEF TypedWrites, Sequenced
  <2> QED BY <1>2, <2>1, CasesGrow
<1> HIDE DEF g, w
<1>6. ASSUME NEW row \in DOMAIN g
      PROVE  /\ row[1] = "experiment_verdicts" => g[row].decision # Null
             /\ row[1] = "experiments" /\ g[row].status = "concluded" =>
                   Verdict(row[2], row[3]) \in DOMAIN g \/ row \in called
             /\ row[1] = "eval_datasets" =>
                   g[row].version \in Nat /\ g[row].version <= 1 + CasesOf(g, row[2], row[3])
  <2>1. CASE row \notin DOMAIN w
    <3>1. row \in DOMAIN db /\ g[row] = db[row]
      BY <1>1, <1>6, <2>1
    <3>2. /\ row[1] = "experiment_verdicts" => db[row].decision # Null
          /\ row[1] = "experiments" /\ db[row].status = "concluded" =>
                Verdict(row[2], row[3]) \in DOMAIN db \/ row \in called
          /\ row[1] = "eval_datasets" =>
                db[row].version \in Nat /\ db[row].version <= 1 + CasesOf(db, row[2], row[3])
      BY <1>3, <3>1 DEF WorkFits
    <3>3. row[1] = "eval_datasets" =>
             g[row].version \in Nat /\ g[row].version <= 1 + CasesOf(g, row[2], row[3])
      BY <1>4, <3>1, <3>2
    <3> QED BY <1>1, <3>1, <3>2, <3>3
  <2>2. CASE row \in DOMAIN w
    <3>1. g[row] = w[row]
      BY <1>1, <2>2
    <3>2. /\ row[1] = "experiment_verdicts" => w[row].decision # Null
          /\ row[1] = "experiments" /\ w[row].status = "concluded" =>
                Verdict(row[2], row[3]) \in DOMAIN w \/ row \in called
          /\ row[1] = "eval_datasets" => DatasetFits(db, w, row)
      BY <1>3, <2>2 DEF WorkWrites
    <3>3. ASSUME row[1] = "eval_datasets"
          PROVE  w[row].version \in Nat /\ w[row].version <= 1 + CasesOf(g, row[2], row[3])
      <4>1. DatasetFits(db, w, row)
        BY <3>2, <3>3
      <4>2. w[row].version \in Nat
        BY <4>1 DEF DatasetFits
      <4>3. CASE w[row].version <= 1 + CasesOf(db, row[2], row[3])
        BY <1>4, <4>2, <4>3
      <4>4. CASE ~(w[row].version <= 1 + CasesOf(db, row[2], row[3]))
        <5>1. /\ w[row].version <= 2 + CasesOf(db, row[2], row[3])
              /\ \E o \in DOMAIN w :
                    o[1] = "eval_dataset_cases" /\ o[2] = row[2] /\ w[o].dataset = row[3]
          BY <4>1, <4>4 DEF DatasetFits
        <5>2. CasesOf(db, row[2], row[3]) + 1 <= CasesOf(g, row[2], row[3])
          BY <1>5, <5>1
        <5>3. CasesOf(db, row[2], row[3]) \in Nat /\ CasesOf(g, row[2], row[3]) \in Nat
          BY <1>4
        <5> QED BY <4>2, <5>1, <5>2, <5>3
      <4> QED BY <4>3, <4>4
    <3> QED BY <1>1, <3>1, <3>2, <3>3
  <2> QED BY <2>1, <2>2
<1>7. WorkFits(g, called)
  BY <1>6 DEF WorkFits
<1> QED BY <1>7 DEF g, w

LEMMA CommitRows ==
  ASSUME NEW n, NEW called, NEW c, NEW s, Running(n, called, c, s),
         SessionAt(c, s).do = "return"
  PROVE  RowsInv(Over(s.writes, db), n, called)
  BY CommitTyped, CommitSettings, CommitWork DEF RowsInv
-----------------------------------------------------------------------------
(* What is committed at once: a row of erasure_audit or operator_audit.     *)
Plus(f, row, columns) == Over([o \in {row} |-> columns], f)
OwnRow(f, n, row) ==
    \/ row[1] = "erasure_audit"
    \/ row[1] = "operator_audit" /\ row = <<row[1], row[2], n>>

LEMMA OwnRecords ==
  ASSUME NEW n, NEW row, NEW columns, OwnRow(db, n, row), NEW t, NEW name
  PROVE  Records(Plus(db, row, columns), t, name) = Records(db, t, name)
<1> DEFINE g == Plus(db, row, columns)
<1>1. DOMAIN g = DOMAIN db \cup {row} /\ \A x \in DOMAIN db : x # row => g[x] = db[x]
  BY DEF Plus, Over
<1>2. row[1] # "audit_log"
  BY DEF OwnRow
<1> HIDE DEF g
<1>3. \A o : o \in Records(g, t, name) <=> o \in Records(db, t, name)
  <2> TAKE o
  <2>1. CASE o = row
    BY <1>2, <2>1, RecordsAre
  <2>2. CASE o # row
    BY <1>1, <2>2, RecordsAre
  <2> QED BY <2>1, <2>2
<1> QED BY <1>3 DEF g

LEMMA OwnGrows ==
  ASSUME NEW n, NEW row, NEW columns, OwnRow(db, n, row), TypedRows(db, n), n \in Nat
  PROVE  Grows(db, Plus(db, row, columns))
<1> DEFINE g == Plus(db, row, columns)
<1>1. DOMAIN g = DOMAIN db \cup {row} /\ \A x \in DOMAIN db : x # row => g[x] = db[x]
  BY DEF Plus, Over
<1>2. IsFiniteSet(DOMAIN db)
  BY DEF TypedRows
<1>3. IsFiniteSet(DOMAIN g)
  BY <1>1, <1>2, FS_AddElement
<1>4. row \in DOMAIN db => row[1] = "erasure_audit"
  <2> SUFFICES ASSUME row \in DOMAIN db, row[1] = "operator_audit" PROVE FALSE
    BY DEF OwnRow
  <2>1. row[3] < n /\ row[3] = n
    BY DEF OwnRow, TypedRows, Sequenced
  <2> QED BY <2>1
<1> HIDE DEF g
<1>5. \A x \in DOMAIN db : g[x] = db[x] \/ x[1] = "erasure_audit"
  BY <1>1, <1>4
<1>6. Grows(db, g)
  BY <1>1, <1>3, <1>5 DEF Grows, Sequenced
<1> QED BY <1>6 DEF g

LEMMA OwnApart ==
  ASSUME NEW n, NEW row, NEW columns, OwnRow(db, n, row), NEW d,
         TypedWrites(db, n, d.q.op, d.writes), n \in Nat
  PROVE  Apart(db, Plus(db, row, columns), d)
<1> DEFINE g == Plus(db, row, columns)
<1>1. DOMAIN g = DOMAIN db \cup {row} /\ \A x \in DOMAIN db : x # row => g[x] = db[x]
  BY DEF Plus, Over
<1>2. \A t, name : Records(g, t, name) = Records(db, t, name)
  BY OwnRecords
<1>3. row \notin DOMAIN d.writes
  <2> SUFFICES ASSUME row \in DOMAIN d.writes PROVE FALSE
    OBVIOUS
  <2>1. CASE row[1] = "erasure_audit"
    BY <2>1 DEF TypedWrites, Sequenced, MayWrite
  <2>2. CASE row[1] = "operator_audit" /\ row = <<row[1], row[2], n>>
    <3>1. row[3] < n /\ row[3] = n
      BY <2>2 DEF TypedWrites, Sequenced
    <3> QED BY <3>1
  <2> QED BY <2>1, <2>2 DEF OwnRow
<1> HIDE DEF g
<1>4. Apart(db, g, d)
  BY <1>1, <1>2, <1>3 DEF Apart
<1> QED BY <1>4 DEF g

LEMMA OwnRows ==
  ASSUME NEW n \in Nat, NEW called, NEW row, NEW columns, OwnRow(db, n, row),
         RowsInv(db, n, called), "absent" \notin DOMAIN columns
  PROVE  RowsInv(Plus(db, row, columns), n + 1, called)
<1> DEFINE g == Plus(db, row, columns)
<1>1. /\ DOMAIN g = DOMAIN db \cup {row} /\ g[row] = columns
      /\ \A x \in DOMAIN db : x # row => g[x] = db[x]
  BY DEF Plus, Over
<1>2. /\ TypedRows(db, n) /\ KeysFit(db) /\ TenantsExist(db) /\ SettingsRecorded(db)
      /\ WorkFits(db, called)
  BY DEF RowsInv
<1>3. Grows(db, g)
  BY <1>2, OwnGrows
<1>4. /\ row[1] \in {"erasure_audit", "operator_audit"}
      /\ row[1] = "operator_audit" => row = <<row[1], row[2], row[3]>> /\ row[3] = n
  BY DEF OwnRow
<1>5. \A u, name : Records(g, u, name) = Records(db, u, name)
  BY OwnRecords
<1>6. \A u, id : /\ CasesOf(db, u, id) \in Nat /\ CasesOf(g, u, id) \in Nat
                 /\ CasesOf(db, u, id) <= CasesOf(g, u, id)
  BY <1>3, CasesGrow
<1> HIDE DEF g
<1>7. \A x \in DOMAIN g : x[1] \notin {"erasure_audit", "operator_audit"} =>
          x \in DOMAIN db /\ g[x] = db[x]
  BY <1>1, <1>4
<1>8. DOMAIN db \subseteq DOMAIN g
  BY <1>1
<1>9. TypedRows(g, n + 1)
  <2>1. IsFiniteSet(DOMAIN g)
    BY <1>3 DEF Grows
  <2>2. ASSUME NEW x \in DOMAIN g
        PROVE  /\ "absent" \notin DOMAIN g[x]
               /\ x[1] \in Sequenced =>
                     x = <<x[1], x[2], x[3]>> /\ x[3] \in Int /\ x[3] < n + 1
    <3>1. CASE x = row
      BY <1>1, <1>4, <3>1 DEF Sequenced
    <3>2. CASE x # row
      <4>1. x \in DOMAIN db /\ g[x] = db[x]
        BY <1>1, <2>2, <3>2
      <4>2. /\ "absent" \notin DOMAIN db[x]
            /\ x[1] \in Sequenced => x = <<x[1], x[2], x[3]>> /\ x[3] \in Int /\ x[3] < n
        BY <1>2, <4>1 DEF TypedRows
      <4> QED BY <4>1, <4>2
    <3> QED BY <3>1, <3>2
  <2> QED BY <2>1, <2>2 DEF TypedRows
<1>10. KeysFit(g)
  <2>1. \A u : Key(u) \in DOMAIN db => Key(u) \in DOMAIN g /\ g[Key(u)] = db[Key(u)]
    BY <1>7, <1>8 DEF Key
  <2> QED BY <1>2, <1>7, <2>1 DEF KeysFit
<1>11. TenantsExist(g)
  BY <1>2, <1>7, <1>8 DEF TenantsExist
<1>12. SettingsRecorded(g)
  <2>1. ASSUME NEW x \in DOMAIN g, x[1] = "tenants", NEW name \in DOMAIN Operation,
               Records(g, x[2], name) # {}
        PROVE  NewestSays(g, x[2], name)
    <3> DEFINE u == x[2]
    <3>1. x \in DOMAIN db /\ x = Settings(u)
      BY <1>2, <1>7, <2>1 DEF TenantsExist
    <3>2. NewestSays(db, u, name)
      BY <1>2, <1>5, <2>1, <3>1 DEF SettingsRecorded
    <3>3. TypedRows(g, n + 1) /\ TypedRows(db, n + 1)
      BY <1>2, <1>9 DEF TypedRows
    <3>4. Home(name, u)[1] \in {"tenants", "benchmark_optin", "rollout_policies"}
      BY DEF Home, Settings, Optin, Policy
    <3>5. /\ Home(name, u) \in DOMAIN db <=> Home(name, u) \in DOMAIN g
          /\ Home(name, u) \in DOMAIN db => g[Home(name, u)] = db[Home(name, u)]
      BY <1>7, <1>8, <3>4
    <3> HIDE DEF u
    <3>6. Setting(g, u)[name] = Setting(db, u)[name]
      BY <3>1, <3>3, <3>5, SettingSame
    <3>7. \A other \in Records(db, u, name) : g[other] = db[other]
      BY <1>3, RecordsGrow
    <3>8. NewestSays(g, u, name)
      BY <1>5, <3>2, <3>6, <3>7 DEF NewestSays
    <3> QED BY <3>8 DEF u
  <2>2. ASSUME NEW x \in DOMAIN g, x[1] = "benchmark_optin", g[x].opted_in = "yes"
        PROVE  Consented(g, x[2])
    <3>1. x \in DOMAIN db /\ db[x].opted_in = "yes"
      BY <1>7, <2>2
    <3>2. Consented(db, x[2])
      BY <1>2, <2>2, <3>1 DEF SettingsRecorded, Consented
    <3> QED BY <1>3, <3>2, ConsentedGrows
  <2> QED BY <2>1, <2>2 DEF SettingsRecorded, Consented
<1>13. WorkFits(g, called)
  <2> SUFFICES ASSUME NEW x \in DOMAIN g
               PROVE  /\ x[1] = "experiment_verdicts" => g[x].decision # Null
                      /\ x[1] = "experiments" /\ g[x].status = "concluded" =>
                            Verdict(x[2], x[3]) \in DOMAIN g \/ x \in called
                      /\ x[1] = "eval_datasets" =>
                            g[x].version \in Nat /\ g[x].version <= 1 + CasesOf(g, x[2], x[3])
    BY DEF WorkFits
  <2>1. CASE x[1] \in {"erasure_audit", "operator_audit"}
    BY <2>1
  <2>2. CASE x[1] \notin {"erasure_audit", "operator_audit"}
    <3>1. x \in DOMAIN db /\ g[x] = db[x]
      BY <1>7, <2>2
    <3>2. /\ x[1] = "experiment_verdicts" => db[x].decision # Null
          /\ x[1] = "experiments" /\ db[x].status = "concluded" =>
                Verdict(x[2], x[3]) \in DOMAIN db \/ x \in called
          /\ x[1] = "eval_datasets" =>
                db[x].version \in Nat /\ db[x].version <= 1 + CasesOf(db, x[2], x[3])
      BY <1>2, <3>1 DEF WorkFits
    <3>3. x[1] = "eval_datasets" =>
             db[x].version \in Nat /\ db[x].version <= 1 + CasesOf(g, x[2], x[3])
      BY <1>6, <3>2
    <3> QED BY <1>8, <3>1, <3>2, <3>3
  <2> QED BY <2>1, <2>2
<1>14. RowsInv(g, n + 1, called)
  BY <1>9, <1>10, <1>11, <1>12, <1>13 DEF RowsInv
<1> QED BY <1>14 DEF g

\* What a statement that is committed at once writes.
LEMMA OwnIs ==
  ASSUME NEW n, NEW called, NEW c, NEW s, NEW row, NEW columns, Running(n, called, c, s),
         Wrote(n, s, SessionAt(c, s), row, columns), SessionAt(c, s).own
  PROVE  OwnRow(db, n, row) /\ "absent" \notin DOMAIN columns
<1> DEFINE st == SessionAt(c, s)
<1>1. Allowed(s.q.op, Owner(s.q, s.began), st)
  BY StatementAllowed
<1>2. TypedWrites(db, n, s.q.op, s.writes) /\ TypedRows(db, n)
  BY RunningFacts
<1> HIDE DEF st
<1>3. /\ "absent" \notin DOMAIN columns
      /\ st.do = "append" => row = <<st.table, st.t, n>>
      /\ st.do # "append" => row = st.row /\ st.do \in {"insert", "upsert", "update"}
  BY <1>1, <1>2, WroteIs DEF st
<1>4. CASE st.do = "append"
  <2>1. st.table \in {"erasure_audit", "operator_audit"}
    BY <1>1, <1>4 DEF Allowed, st
  <2>2. row[1] = st.table /\ row[2] = st.t /\ row[3] = n
    BY <1>3, <1>4
  <2> QED BY <1>3, <1>4, <2>1, <2>2 DEF OwnRow
<1>5. CASE st.do # "append"
  <2>1. st.row[1] = "erasure_audit"
    BY <1>1, <1>3, <1>5 DEF Allowed, st
  <2> QED BY <1>3, <1>5, <2>1 DEF OwnRow
<1> QED BY <1>4, <1>5

\* An update that finds no row.
LEMMA MissStep ==
  ASSUME NEW n, NEW called, NEW c, NEW s, NEW s2, Running(n, called, c, s),
         Passes(s, s2, SessionAt(c, s)), SessionAt(c, s).do = "update"
  PROVE  SessionInv(db, n, kek, called, c, s2) /\ BeganSession(db, s2)
<1>1. ServedSession(db, s2)
  BY ServedPass
<1> QED BY <1>1, PassStep DEF SessionInv

\* A statement that is committed at once.
LEMMA OwnStep ==
  ASSUME NEW n, NEW called, NEW c, NEW s, NEW s2, NEW row, NEW columns,
         Running(n, called, c, s), Wrote(n, s, SessionAt(c, s), row, columns),
         Passes(s, s2, SessionAt(c, s)), SessionAt(c, s).own
  PROVE  /\ SessionInv(Plus(db, row, columns), n + 1, kek, called, c, s2)
         /\ BeganSession(Plus(db, row, columns), s2)
<1> DEFINE g == Plus(db, row, columns)
<1>1. OwnRow(db, n, row) /\ n \in Nat /\ TypedRows(db, n)
  BY OwnIs, RunningFacts
<1>2. Grows(db, g)
  BY <1>1, OwnGrows
<1>3. s2.q = s.q /\ s2.writes = s.writes /\ TypedWrites(db, n, s.q.op, s.writes)
  BY PassIs, RunningFacts
<1>4. Apart(db, g, s2)
  BY <1>1, <1>3, OwnApart
<1>5. /\ LegalSession(db, s2) /\ TypedSession(db, n, s2) /\ AdmittedSession(s2)
      /\ KeysSession(db, kek, c, s2) /\ SettingsSession(db, c, s2)
      /\ WorkSession(db, called, s2) /\ BeganSession(db, s2)
  BY PassStep
<1>6. DOMAIN db \subseteq DOMAIN g /\ row \in DOMAIN g
  BY DEF Plus, Over
<1>7. SessionAt(c, s).do = "append" => row = <<SessionAt(c, s).table, SessionAt(c, s).t, n>>
  BY DEF Wrote
<1> HIDE DEF g
<1>8. ServedSession(g, s2)
  BY <1>6, <1>7, ServedPass
<1>9. BeganSession(g, s2)
  BY <1>2, <1>5, BeganGrows
<1>10. LegalSession(g, s2) /\ s2.pc \in Nat
  BY <1>2, <1>5 DEF LegalSession, Grows
<1>11. TypedSession(g, n + 1, s2)
  BY <1>1, <1>2, <1>4, <1>5, TypedGrows
<1>12. KeysSession(g, kek, c, s2) /\ SettingsSession(g, c, s2) /\ WorkSession(g, called, s2)
  BY <1>2, <1>4, <1>5, <1>10, KeysGrow, SettingsGrow, WorkGrows
<1>13. SessionInv(g, n + 1, kek, called, c, s2)
  BY <1>5, <1>8, <1>10, <1>11, <1>12 DEF SessionInv
<1> QED BY <1>9, <1>13 DEF g
-----------------------------------------------------------------------------
\* What a session answers when its callback returns.
LEMMA RefusedAnswer ==
  ASSUME NEW n, NEW called, NEW c, NEW s, Running(n, called, c, s),
         SessionAt(c, s).do = "return"
  PROVE  LET y == SessionAt(c, s).value IN
         /\ s.q.op \in Routes /\ ~Passed(s.q, s.began) => y[1] \in {"401", "403"}
         /\ s.q.op \in OperatorPlane /\ ~Live(s.began, OperatorToken(s.q.token)) =>
               y[1] \in {"401", "403"}
         /\ s.q.op \in Routes => s.pc > 1
<1> DEFINE st == SessionAt(c, s)
           live == Live(s.began, OperatorToken(s.q.token))
<1>1. /\ s.pc \in Nat \ {0} /\ Legal(s.q) /\ IsFiniteSet(DOMAIN db) /\ IsFiniteSet(DOMAIN s.reads)
      /\ AdmittedSession(s)
  BY RunningFacts DEF Running, SessionInv
<1>2. \A status, rows : Refuse(status).value[1] = status /\ Select(rows).do = "select"
  BY Kinds
<1>3. ASSUME s.q.op \in Routes
      PROVE  s.pc > 1 /\ (~Passed(s.q, s.began) => st.value[1] \in {"401", "403"})
  <2>1. /\ s.pc = 1 => st = Select({Token(s.q.token)})
        /\ s.pc = 2 /\ ~Passed(s.q, s.began) => st = Refuse("401") \/ st = Refuse("403")
    BY <1>1, <1>3, RouteAt
  <2>2. s.pc > 2 => Passed(s.q, s.began)
    BY <1>1, <1>3 DEF AdmittedSession
  <2> HIDE DEF st
  <2>3. s.pc # 1
    BY <1>2, <2>1 DEF st
  <2> QED BY <1>1, <1>2, <2>1, <2>2, <2>3
<1>4. ASSUME s.q.op \in OperatorPlane, ~live PROVE st.value[1] \in {"401", "403"}
  <2>1. /\ s.pc = 1 => st = Select({OperatorToken(s.q.token)})
        /\ s.pc = 2 => st = Select({Token(s.q.token)})
        /\ s.pc = 3 => st = Refuse("401") \/ st = Refuse("403")
    BY <1>1, <1>4, OperatorAt
  <2>2. ~(s.pc > 3)
    BY <1>1, <1>4 DEF AdmittedSession
  <2> HIDE DEF st
  <2>3. s.pc # 1 /\ s.pc # 2
    BY <1>2, <2>1 DEF st
  <2>4. s.pc = 3
    BY <1>1, <2>2, <2>3
  <2> QED BY <1>2, <2>1, <2>4
<1> QED BY <1>3, <1>4

LEMMA MapAnswer ==
  ASSUME NEW n, NEW called, NEW c, NEW s, Running(n, called, c, s), s.q.op = "getSeamMap",
         SessionAt(c, s).do = "return", NEW t, t = Owner(s.q, s.began)
  PROVE  LET y == SessionAt(c, s).value IN
         /\ y[1] # "500"
         /\ y[1] = "200" /\ y[2].key # 0 => ~Column(s.began, Key(t), "shredded", FALSE)
<1> DEFINE st == SessionAt(c, s)
           map == Context(t, s.q.id)
           sealed == s.reads[map].key
           record == Audit(t, "seam_map", s.q.id, "read")
           there == At(s.reads, map) # None
           dek == s.reads[Key(t)].wrapped
           found == At(s.reads, Key(t)) # None
           reply0 == Reply(At(s.reads, map))
<1>1. s.q.op \in Routes
  BY DEF Routes
<1>2. CASE ~Passed(s.q, s.began)
  <2>1. st.value[1] \in {"401", "403"}
    BY <1>1, <1>2, RefusedAnswer
  <2> QED BY <2>1
<1>3. CASE Passed(s.q, s.began)
  <2>1. s.pc > 1
    BY <1>1, RefusedAnswer
  <2>2. \/ s.pc = 2 /\ st = Select({map})
        \/ s.pc = 3 /\ there /\ sealed = 0 /\ st = record
        \/ s.pc = 3 /\ there /\ sealed # 0 /\ kek /\ st = Select({Key(t)})
        \/ s.pc = 4 /\ there /\ sealed # 0 /\ dek # 0 /\ st = record
        \/ there /\ st = reply0 /\ (sealed # 0 => found /\ dek # 0)
        \/ st = Refuse("404")
    BY <1>3, <2>1, GettingStatements
  <2>3. /\ record.do = "append" /\ Select({map}).do = "select" /\ Select({Key(t)}).do = "select"
        /\ Refuse("404").value[1] = "404"
        /\ reply0.value[1] = "200" /\ reply0.value[2] = At(s.reads, map)
    BY Kinds
  <2>4. Column(s.began, Key(t), "shredded", FALSE) /\ found => dek = 0
    <3>1. KeyRead(db, t, s)
      BY DEF Running, SessionInv, KeysSession
    <3> QED BY <2>1, <3>1 DEF KeyRead
  <2>5. there => At(s.reads, map).key = sealed
    BY DEF At
  <2> HIDE DEF st, map, sealed, record, there, dek, found, reply0
  <2>6. \/ there /\ st = reply0 /\ (sealed # 0 => found /\ dek # 0)
        \/ st = Refuse("404")
    BY <2>2, <2>3 DEF st
  <2>7. CASE st = Refuse("404")
    BY <2>3, <2>7 DEF st
  <2>8. CASE there /\ st = reply0 /\ (sealed # 0 => found /\ dek # 0)
    <3>1. st.value[2].key = sealed \/ st # reply0
      BY <2>3, <2>5, <2>8
    <3> QED BY <2>3, <2>4, <2>8, <3>1 DEF st, map
  <2> QED BY <2>6, <2>7, <2>8
<1> QED BY <1>2, <1>3

LEMMA MilestoneAnswer ==
  ASSUME NEW n, NEW called, NEW c, NEW s, Running(n, called, c, s),
         s.q.op = "recordMilestone", SessionAt(c, s).do = "return",
         SessionAt(c, s).value[1] = "200", NEW t, t = Owner(s.q, s.began)
  PROVE  LET f == Over(s.writes, db) IN
         Timeline(t) \in DOMAIN f /\ s.q.id \in DOMAIN f[Timeline(t)]
         /\ f[Timeline(t)][s.q.id] # Null
<1> DEFINE st == SessionAt(c, s)
           write == Upsert(Timeline(t), [m \in {s.q.id} |-> s.q.v])
           w == s.writes
           f == Over(w, db)
<1>1. s.q.op \in Routes /\ s.pc \in Nat \ {0} /\ Legal(s.q) /\ IsFiniteSet(DOMAIN db)
  BY RunningFacts DEF Routes
<1>2. s.pc > 1
  BY <1>1, RefusedAnswer
<1>3. Passed(s.q, s.began)
  <2>1. ~Passed(s.q, s.began) => st.value[1] \in {"401", "403"}
    BY <1>1, RefusedAnswer
  <2> QED BY <2>1
<1>4. s.pc = 2 => st = write
  BY <1>1, <1>2, <1>3, RecordMilestoneAt
<1>5. write.do = "upsert"
  BY Kinds
<1>6. ReachingMilestone(t, s)
  BY DEF Running, SessionInv, WorkSession
<1>7. \A x \in DOMAIN w : x \in DOMAIN f /\ f[x] = w[x]
  BY DEF Over
<1> HIDE DEF st, write, f
<1>8. s.pc > 2
  BY <1>1, <1>2, <1>4, <1>5 DEF st
<1>9. /\ Timeline(t) \in DOMAIN w /\ s.q.id \in DOMAIN w[Timeline(t)]
      /\ w[Timeline(t)][s.q.id] # Null
  BY <1>6, <1>8 DEF ReachingMilestone
<1> HIDE DEF w
<1> QED BY <1>7, <1>9 DEF f, w

LEMMA ExperimentAnswer ==
  ASSUME NEW n, NEW called, NEW c, NEW s, Running(n, called, c, s),
         s.q.op = "getExperiment", SessionAt(c, s).do = "return",
         SessionAt(c, s).value[1] = "200", SessionAt(c, s).value[2].status = "concluded",
         NEW t, t = Owner(s.q, s.began)
  PROVE  SessionAt(c, s).value[2].verdict # Null \/ <<"experiments", t, s.q.id>> \in called
<1> DEFINE st == SessionAt(c, s)
           experiment == <<"experiments", t, s.q.id>>
           found == At(s.reads, experiment) # None
           verdict == Column(s.reads, Verdict(t, s.q.id), "decision", Null)
           body == [status |-> s.reads[experiment].status, verdict |-> verdict]
<1>1. s.q.op \in Routes /\ s.pc \in Nat \ {0} /\ Legal(s.q) /\ IsFiniteSet(DOMAIN db)
  BY RunningFacts DEF Routes
<1>2. s.pc > 1
  BY <1>1, RefusedAnswer
<1>3. Passed(s.q, s.began)
  <2>1. ~Passed(s.q, s.began) => st.value[1] \in {"401", "403"}
    BY <1>1, RefusedAnswer
  <2> QED BY <2>1
<1>4. /\ s.pc = 2 => st = Select({experiment})
      /\ s.pc = 3 /\ ~found => st = Refuse("404")
      /\ s.pc = 3 /\ found => st = Select({Verdict(t, s.q.id)})
      /\ s.pc = 4 /\ found => st = Reply(body)
  BY <1>1, <1>2, <1>3, GetExperimentAt
<1>5. ReadingExperiment(db, called, t, s)
  BY DEF Running, SessionInv, WorkSession
<1>6. s.pc <= 4 /\ (s.pc > 3 => found /\ (s.reads[experiment].status = "concluded" =>
                                              verdict # Null \/ experiment \in called))
  BY <1>5 DEF ReadingExperiment
<1>7. /\ \A rows : Select(rows).do = "select"
      /\ Refuse("404").value[1] = "404" /\ Reply(body).value[2] = body
  BY Kinds
<1>8. body.status = s.reads[experiment].status /\ body.verdict = verdict
  OBVIOUS
<1> HIDE DEF st, experiment, found, verdict, body
<1>9. s.pc = 2 \/ s.pc = 3 \/ s.pc = 4
  BY <1>1, <1>2, <1>6
<1>10. s.pc # 2 /\ s.pc # 3
  BY <1>4, <1>7 DEF st
<1>11. s.pc = 4 /\ s.pc > 3
  BY <1>9, <1>10
<1>12. st.value[2] = body
  BY <1>4, <1>6, <1>7, <1>11
<1> QED BY <1>6, <1>8, <1>11, <1>12 DEF st, experiment

LEMMA BenchmarkAnswer ==
  ASSUME NEW n, NEW called, NEW c, NEW s, Running(n, called, c, s),
         s.q.op = "benchmarkResult", SessionAt(c, s).do = "return",
         SessionAt(c, s).value[1] = "200", NEW u \in SessionAt(c, s).value[2].cohort
  PROVE  Consented(db, u)
<1> DEFINE st == SessionAt(c, s)
           t == Owner(s.q, s.began)
           growth == Column(s.reads, Account(t), "tier", "free") = "growth"
           all == {o \in DOMAIN db : o[1] = "benchmark_optin"}
           cohort == OptedIn(s.reads)
           body == [cohort |-> cohort]
<1>1. s.q.op \in Routes /\ s.pc \in Nat \ {0} /\ Legal(s.q) /\ IsFiniteSet(DOMAIN db)
  BY RunningFacts DEF Routes
<1>2. s.pc > 1
  BY <1>1, RefusedAnswer
<1>3. Passed(s.q, s.began)
  <2>1. ~Passed(s.q, s.began) => st.value[1] \in {"401", "403"}
    BY <1>1, RefusedAnswer
  <2> QED BY <2>1
<1>4. /\ s.pc = 2 => st = Select({Account(t)})
      /\ s.pc = 3 /\ ~growth => st = Refuse("403")
      /\ s.pc = 3 /\ growth => st = Select({Optin(t)})
      /\ s.pc = 4 /\ growth /\ t \in OptedIn(s.reads) => st = Select(all)
      /\ s.pc = 4 /\ growth /\ t \notin OptedIn(s.reads) => st = Refuse("403")
      /\ s.pc = 5 /\ growth => st = Reply(body)
  BY <1>1, <1>2, <1>3, BenchmarkResultAt
<1>5. s.pc <= 5 /\ (s.pc > 3 => growth) /\ (\A v \in cohort : Consented(db, v))
  BY DEF Running, SessionInv, ServedSession, BenchmarkSession
<1>6. /\ \A rows : Select(rows).do = "select"
      /\ Refuse("403").value[1] = "403" /\ Reply(body).value[2] = body
  BY Kinds
<1>7. body.cohort = cohort
  OBVIOUS
<1> HIDE DEF st, growth, all, cohort, body, t
<1>8. s.pc = 2 \/ s.pc = 3 \/ s.pc = 4 \/ s.pc = 5
  BY <1>1, <1>2, <1>5
<1>9. s.pc # 2 /\ s.pc # 3 /\ s.pc # 4
  <2>1. s.pc # 2
    BY <1>4, <1>6 DEF st
  <2>2. s.pc # 3
    BY <1>4, <1>6 DEF st
  <2>3. s.pc # 4
    <3>1. s.pc = 4 => growth
      BY <1>5
    <3> QED BY <1>4, <1>6, <3>1 DEF st
  <2> QED BY <2>1, <2>2, <2>3
<1>10. s.pc = 5 /\ growth
  BY <1>5, <1>8, <1>9
<1>11. st.value[2] = body
  BY <1>4, <1>6, <1>10
<1> QED BY <1>5, <1>7, <1>11 DEF st

LEMMA ReturnAnswer ==
  ASSUME NEW n, NEW called, NEW c, NEW s, Running(n, called, c, s),
         SessionAt(c, s).do = "return", NEW lost
  PROVE  /\ Answer(Over(s.writes, db), called, lost, s.q, s.began, SessionAt(c, s).value)
         /\ SessionAt(c, s).value[1] # "500" /\ SessionAt(c, s).value # <<>>
<1> DEFINE y == SessionAt(c, s).value
           t == Owner(s.q, s.began)
           f == Over(s.writes, db)
           experiment == <<"experiments", t, s.q.id>>
<1>1. /\ s.q.op = "getSeamMap" => y[1] # "500"
      /\ s.q.op = "getSeamMap" /\ y[1] = "200" /\ y[2].key # 0 =>
            ~Column(s.began, Key(t), "shredded", FALSE)
  BY MapAnswer
<1>2. /\ s.q.op \in Routes /\ ~Passed(s.q, s.began) => y[1] \in {"401", "403"}
      /\ s.q.op \in OperatorPlane /\ ~Live(s.began, OperatorToken(s.q.token)) =>
            y[1] \in {"401", "403"}
  BY RefusedAnswer
<1>3. s.q.op = "benchmarkResult" /\ y[1] = "200" => \A u \in y[2].cohort : Consented(f, u)
  BY BenchmarkAnswer, CommitGrows, ConsentedGrows
<1>4. s.q.op = "recordMilestone" /\ y[1] = "200" =>
         Timeline(t) \in DOMAIN f /\ s.q.id \in DOMAIN f[Timeline(t)]
         /\ f[Timeline(t)][s.q.id] # Null
  BY MilestoneAnswer
<1>5. s.q.op = "getExperiment" /\ y[1] = "200" /\ y[2].status = "concluded" =>
         y[2].verdict # Null \/ experiment \in called
  BY ExperimentAnswer
<1>6. y # <<>> /\ (s.q.op # "getSeamMap" => y[1] # "500")
  BY StatementAllowed DEF Allowed
<1> HIDE DEF y, t, f, experiment
<1>7. Answer(f, called, lost, s.q, s.began, y)
  BY <1>1, <1>2, <1>3, <1>4, <1>5 DEF Answer, t, experiment
<1> QED BY <1>1, <1>6, <1>7 DEF y, f

\* An answer of 500 promises nothing, but that a seam map's came of a failure.
LEMMA FailedAnswer ==
  ASSUME NEW f, NEW called, NEW lost, NEW q, NEW b, q.op = "getSeamMap" => lost # 0
  PROVE  Answer(f, called, lost, q, b, <<"500">>)
<1>1. <<"500">>[1] = "500"
  OBVIOUS
<1> QED BY <1>1 DEF Answer

\* getSeamMap inserts no row, so that no unique violation is why it answers 500.
LEMMA MapInserts ==
  ASSUME NEW n, NEW called, NEW c, NEW s, Running(n, called, c, s), s.q.op = "getSeamMap"
  PROVE  SessionAt(c, s).do # "insert"
<1> DEFINE st == SessionAt(c, s)
           t == Owner(s.q, s.began)
           map == Context(t, s.q.id)
           record == Audit(t, "seam_map", s.q.id, "read")
           reply0 == Reply(At(s.reads, map))
<1>1. s.q.op \in Routes /\ s.q.op \notin Unrouted /\ s.pc \in Nat \ {0}
  BY RunningFacts DEF Routes, Unrouted
<1>2. CASE s.pc = 1
  BY <1>1, <1>2, FirstSelects
<1>3. CASE s.pc > 1 /\ ~Passed(s.q, s.began)
  <2>1. st.do = "return"
    BY <1>1, <1>3, PassedNow
  <2> QED BY <2>1
<1>4. CASE s.pc > 1 /\ Passed(s.q, s.began)
  <2>1. \/ st = Select({map}) \/ st = record \/ st = Select({Key(t)})
        \/ st = reply0 \/ st = Refuse("404")
    BY <1>4, GettingStatements
  <2>2. /\ record.do = "append" /\ Select({map}).do = "select" /\ Select({Key(t)}).do = "select"
        /\ Refuse("404").do = "return" /\ reply0.do = "return"
    BY Kinds
  <2> HIDE DEF st, map, record, reply0, t
  <2> QED BY <2>1, <2>2 DEF st
<1> QED BY <1>1, <1>2, <1>3, <1>4
-----------------------------------------------------------------------------
(* Steps of the system: those of one session, beside which the rest is still. *)
LEMMA SessionHere ==
  ASSUME NEW c
  PROVE  /\ Statement(c) = SessionAt(c, Session(c))
         /\ \A row : Visible(c, row) = Sees(Session(c), row)
         /\ Session(c).q = request[c] /\ Session(c).pc = pc[c] /\ Session(c).reads = reads[c]
         /\ Session(c).writes = writes[c] /\ Session(c).began = began[c]
  BY DEF Statement, SessionAt, Session, Visible, Sees

LEMMA SessionNext ==
  ASSUME NEW c
  PROVE  /\ Session(c)'.q = request'[c] /\ Session(c)'.pc = pc'[c]
         /\ Session(c)'.reads = reads'[c] /\ Session(c)'.writes = writes'[c]
         /\ Session(c)'.began = began'[c]
  BY DEF Session

LEMMA RunningHere ==
  ASSUME IInv, NEW c \in Callers, InFlight(c)
  PROVE  Running(serial, CalledConcluded, c, Session(c))
<1>1. Asks(c, "updateExperiment") /\ pc[c] > 1 /\ request[c].v = "concluded" =>
         <<"experiments", Tenant(c), request[c].id>> \in CalledConcluded
  BY DEF CalledConcluded
<1>2. Session(c).q = request[c] /\ Session(c).pc = pc[c] /\ Session(c).began = began[c]
  BY SessionHere
<1>3. /\ serial \in Nat \ {0} /\ RowsInv(db, serial, CalledConcluded)
      /\ BeganSession(db, Session(c))
      /\ SessionInv(db, serial, kek, CalledConcluded, c, Session(c))
  BY DEF IInv, TypedState
<1> QED BY <1>1, <1>2, <1>3 DEF Running, Asks, Tenant

\* Beside a step of c.
Beside(c) ==
    /\ kek' = kek /\ area' = area /\ request' = request
    /\ \A d \in Callers \ {c} :
          /\ pc'[d] = pc[d] /\ reads'[d] = reads[d] /\ writes'[d] = writes[d]
          /\ began'[d] = began[d] /\ reply'[d] = reply[d] /\ audit'[d] = audit[d]
    /\ DOMAIN pc' = DOMAIN pc /\ DOMAIN reads' = DOMAIN reads /\ DOMAIN writes' = DOMAIN writes
    /\ DOMAIN began' = DOMAIN began /\ DOMAIN reply' = DOMAIN reply
    /\ pc' = [pc EXCEPT ![c] = pc'[c]] /\ DOMAIN audit' = DOMAIN audit
    /\ pc[c] > 1 => pc'[c] > 1 /\ began'[c] = began[c]

LEMMA CalledGrows ==
  ASSUME NEW c \in Callers, Beside(c)
  PROVE  CalledConcluded \subseteq CalledConcluded'
<1>1. /\ area' = area /\ request' = request
      /\ \A d \in Callers : pc[d] > 1 => pc'[d] > 1 /\ began'[d] = began[d]
  BY DEF Beside
<1>2. \A d \in Callers : pc[d] > 1 => Tenant(d)' = Tenant(d)
  BY <1>1 DEF Tenant
<1>3. \A d \in Callers : Asks(d, "updateExperiment")' <=> Asks(d, "updateExperiment")
  BY <1>1 DEF Asks
<1> SUFFICES ASSUME NEW row \in CalledConcluded PROVE row \in CalledConcluded'
  OBVIOUS
<1>4. CASE \E d \in Callers : /\ Asks(d, "updateExperiment") /\ pc[d] > 1
                              /\ request[d].v = "concluded"
                              /\ row = <<"experiments", Tenant(d), request[d].id>>
  <2>1. PICK d \in Callers : /\ Asks(d, "updateExperiment") /\ pc[d] > 1
                             /\ request[d].v = "concluded"
                             /\ row = <<"experiments", Tenant(d), request[d].id>>
    BY <1>4
  <2>2. /\ Asks(d, "updateExperiment")' /\ pc'[d] > 1 /\ request'[d].v = "concluded"
        /\ row = <<"experiments", Tenant(d)', request'[d].id>>
    BY <1>1, <1>2, <1>3, <2>1
  <2> QED BY <2>2 DEF CalledConcluded
<1>5. CASE ~\E d \in Callers : /\ Asks(d, "updateExperiment") /\ pc[d] > 1
                               /\ request[d].v = "concluded"
                               /\ row = <<"experiments", Tenant(d), request[d].id>>
  BY <1>1, <1>5 DEF CalledConcluded
<1> QED BY <1>4, <1>5

LEMMA OthersKeep ==
  ASSUME IInv, NEW c \in Callers, Beside(c), Grows(db, db'), serial' \in Nat,
         serial <= serial', failures' = 0 => failures = 0, NEW d \in Callers \ {c},
         InFlight(d) => Apart(db, db', Session(d))
  PROVE  /\ BeganSession(db', Session(d)')
         /\ InFlight(d)' => SessionInv(db', serial', kek', CalledConcluded', d, Session(d)')
         /\ ~InFlight(d)' =>
               Answer(db', CalledConcluded', failures', request'[d], began'[d], reply'[d])
<1>1. CalledConcluded \subseteq CalledConcluded'
  BY CalledGrows
<1>2. Session(d)' = Session(d)
  BY DEF Session, Beside
<1>3. (InFlight(d)' <=> InFlight(d)) /\ kek' = kek /\ request' = request
      /\ began'[d] = began[d] /\ reply'[d] = reply[d]
  BY DEF InFlight, Beside
<1>4. /\ BeganSession(db, Session(d))
      /\ InFlight(d) => SessionInv(db, serial, kek, CalledConcluded, d, Session(d))
      /\ ~InFlight(d) => Answer(db, CalledConcluded, failures, request[d], began[d], reply[d])
      /\ serial \in Int
  BY DEF IInv, TypedState
<1>5. BeganSession(db', Session(d))
  BY <1>4, BeganGrows
<1>6. InFlight(d) => SessionInv(db', serial', kek, CalledConcluded', d, Session(d))
  BY <1>1, <1>4, SessionGrows
<1>7. ~InFlight(d) => Answer(db', CalledConcluded', failures', request[d], began[d], reply[d])
  BY <1>1, <1>4, AnswerGrows
<1> QED BY <1>2, <1>3, <1>5, <1>6, <1>7

\* What is left to show of a step of c.
LEMMA StepKeeps ==
  ASSUME IInv, NEW c \in Callers, Beside(c), Grows(db, db'), TypedState', serial <= serial',
         failures' = 0 => failures = 0,
         \A d \in Callers \ {c} : InFlight(d) => Apart(db, db', Session(d)),
         RowsInv(db', serial', CalledConcluded'),
         BeganSession(db', Session(c)'),
         InFlight(c)' => SessionInv(db', serial', kek', CalledConcluded', c, Session(c)'),
         ~InFlight(c)' => Answer(db', CalledConcluded', failures', request'[c], began'[c], reply'[c]),
         \A d \in Callers : AuditInv(d)'
  PROVE  IInv'
<1>1. serial' \in Nat
  BY DEF TypedState
<1>2. ASSUME NEW d \in Callers
      PROVE  /\ BeganSession(db', Session(d)')
             /\ InFlight(d)' => SessionInv(db', serial', kek', CalledConcluded', d, Session(d)')
             /\ ~InFlight(d)' =>
                   Answer(db', CalledConcluded', failures', request'[d], began'[d], reply'[d])
  <2>1. CASE d = c
    BY <2>1
  <2>2. CASE d # c
    BY <1>1, <2>2, OthersKeep
  <2> QED BY <2>1, <2>2
<1> QED BY <1>2 DEF IInv

LEMMA TypedKeeps ==
  ASSUME IInv, NEW c \in Callers, Beside(c), pc'[c] \in Nat \ {0}, serial' \in Nat \ {0},
         failures' \in Nat, ~InFlight(c)' => reads'[c] = NoRows /\ writes'[c] = NoRows,
         pc'[c] = 1 => audit'[c] = 0,
         \A d \in Callers \ {c} : DOMAIN writes'[c] \cap DOMAIN writes[d] = {}
  PROVE  TypedState'
<1>1. /\ area \in DOMAIN Areas /\ kek \in BOOLEAN
      /\ pc \in [Callers -> Nat \ {0}]
      /\ DOMAIN request = Callers /\ DOMAIN reads = Callers /\ DOMAIN writes = Callers
      /\ DOMAIN reply = Callers /\ DOMAIN audit = Callers /\ DOMAIN began = Callers
      /\ \A d \in Callers : ~InFlight(d) => reads[d] = NoRows /\ writes[d] = NoRows
      /\ \A d \in Callers : pc[d] = 1 => audit[d] = 0
      /\ \A d, e \in Callers : d # e => DOMAIN writes[d] \cap DOMAIN writes[e] = {}
  BY DEF IInv, TypedState
<1>2. /\ kek' = kek /\ area' = area /\ request' = request
      /\ \A d \in Callers \ {c} :
            /\ pc'[d] = pc[d] /\ reads'[d] = reads[d] /\ writes'[d] = writes[d]
            /\ reply'[d] = reply[d] /\ audit'[d] = audit[d]
      /\ DOMAIN reads' = DOMAIN reads /\ DOMAIN writes' = DOMAIN writes
      /\ DOMAIN began' = DOMAIN began /\ DOMAIN reply' = DOMAIN reply
      /\ pc' = [pc EXCEPT ![c] = pc'[c]] /\ DOMAIN audit' = DOMAIN audit
  BY DEF Beside
<1>3. pc' \in [Callers -> Nat \ {0}]
  BY <1>1, <1>2
<1>4. \A d \in Callers : ~InFlight(d)' => reads'[d] = NoRows /\ writes'[d] = NoRows
  BY <1>1, <1>2 DEF InFlight
<1>5. \A d \in Callers : pc'[d] = 1 => audit'[d] = 0
  BY <1>1, <1>2
<1>6. ASSUME NEW d \in Callers, NEW e \in Callers, d # e
      PROVE  DOMAIN writes'[d] \cap DOMAIN writes'[e] = {}
  <2>1. CASE d = c
    BY <1>2, <1>6, <2>1
  <2>2. CASE e = c
    BY <1>2, <1>6, <2>2
  <2>3. CASE d # c /\ e # c
    BY <1>1, <1>2, <1>6, <2>3
  <2> QED BY <2>1, <2>2, <2>3
<1> QED BY <1>1, <1>2, <1>3, <1>4, <1>5, <1>6 DEF TypedState

\* A step that leaves the audit rows alone.
LEMMA AuditStill ==
  ASSUME IInv, NEW c \in Callers, Beside(c), serial' \in Nat, serial <= serial',
         writes'[c] = writes[c], reply'[c] = reply[c], audit'[c] = audit[c],
         DOMAIN db \subseteq DOMAIN db',
         \A row \in DOMAIN db' : row[1] = "audit_log" => row \in DOMAIN db
  PROVE  \A d \in Callers : AuditInv(d)'
<1> SUFFICES ASSUME NEW d \in Callers PROVE AuditInv(d)'
  OBVIOUS
<1>1. AuditInv(d) /\ serial \in Nat
  BY DEF IInv, TypedState
<1>2. /\ \A e \in Callers : writes'[e] = writes[e] /\ reply'[e] = reply[e]
      /\ audit'[d] = audit[d]
  BY DEF Beside
<1>3. (InFlight(d)' <=> InFlight(d)) /\ (Answered(d, "500")' <=> Answered(d, "500"))
  BY <1>2 DEF InFlight, Answered
<1>4. audit[d] # 0 =>
       /\ audit[d] \in Nat /\ audit[d] < serial
       /\ \A e \in Callers \ {d} : \A row \in DOMAIN writes[e] :
             row[1] = "audit_log" => row[3] # audit[d]
       /\ InFlight(d) =>
             \E row \in DOMAIN writes[d] : row[1] = "audit_log" /\ row[3] = audit[d]
       /\ InFlight(d) \/ Answered(d, "500") =>
             \A row \in DOMAIN db : row[1] = "audit_log" => row[3] # audit[d]
       /\ ~InFlight(d) /\ ~Answered(d, "500") =>
             \E row \in DOMAIN db : row[1] = "audit_log" /\ row[3] = audit[d]
  BY <1>1 DEF AuditInv
<1>5. audit[d] # 0 => audit[d] < serial'
  BY <1>1, <1>4
<1>6. audit'[d] # 0 =>
       /\ audit'[d] \in Nat /\ audit'[d] < serial'
       /\ \A e \in Callers \ {d} : \A row \in DOMAIN writes'[e] :
             row[1] = "audit_log" => row[3] # audit'[d]
       /\ InFlight(d)' =>
             \E row \in DOMAIN writes'[d] : row[1] = "audit_log" /\ row[3] = audit'[d]
       /\ InFlight(d)' \/ Answered(d, "500")' =>
             \A row \in DOMAIN db' : row[1] = "audit_log" => row[3] # audit'[d]
       /\ ~InFlight(d)' /\ ~Answered(d, "500")' =>
             \E row \in DOMAIN db' : row[1] = "audit_log" /\ row[3] = audit'[d]
  BY <1>2, <1>3, <1>4, <1>5
<1> QED BY <1>6 DEF AuditInv

LEMMA RowsBelow ==
  ASSUME NEW g, NEW n, NEW called, RowsInv(g, n + 1, called),
         \A row \in DOMAIN g : row[1] \in Sequenced => row[3] < n
  PROVE  RowsInv(g, n, called)
<1>1. TypedRows(g, n)
  BY DEF RowsInv, TypedRows
<1> QED BY <1>1 DEF RowsInv

LEMMA SessionBelow ==
  ASSUME NEW f, NEW n, NEW k, NEW called, NEW c, NEW s, SessionInv(f, n + 1, k, called, c, s),
         \A row \in DOMAIN s.writes : row[1] \in Sequenced => row[3] < n
  PROVE  SessionInv(f, n, k, called, c, s)
<1>1. TypedSession(f, n, s)
  BY DEF SessionInv, TypedSession, TypedWrites
<1> QED BY <1>1 DEF SessionInv

\* The statement a session passes.
LEMMA Advanced ==
  ASSUME IInv, NEW c \in Callers, InFlight(c), Advance(c)
  PROVE  /\ Follows(Session(c), Session(c)') /\ pc'[c] = pc[c] + 1 /\ pc'[c] > 1
         /\ pc'[c] \in Nat \ {0} /\ InFlight(c)' /\ failures' = failures
         /\ kek' = kek /\ area' = area /\ request' = request /\ reply' = reply
         /\ DOMAIN pc' = DOMAIN pc /\ DOMAIN began' = DOMAIN began
         /\ pc' = [pc EXCEPT ![c] = pc'[c]]
         /\ \A d \in Callers \ {c} : pc'[d] = pc[d] /\ began'[d] = began[d]
         /\ pc[c] > 1 => began'[c] = began[c]
<1>1. /\ pc \in [Callers -> Nat \ {0}] /\ DOMAIN began = Callers
  BY DEF IInv, TypedState
<1>2. /\ pc' = [pc EXCEPT ![c] = @ + 1]
      /\ began' = [began EXCEPT ![c] = IF pc[c] = 1 THEN db ELSE @]
      /\ kek' = kek /\ area' = area /\ failures' = failures /\ request' = request /\ reply' = reply
  BY DEF Advance
<1>3. pc'[c] = pc[c] + 1 /\ pc[c] \in Nat \ {0}
  BY <1>1, <1>2
<1>4. began'[c] = IF pc[c] = 1 THEN db ELSE began[c]
  BY <1>1, <1>2
<1>5. /\ DOMAIN pc' = DOMAIN pc /\ DOMAIN began' = DOMAIN began
      /\ \A d \in Callers \ {c} : pc'[d] = pc[d] /\ began'[d] = began[d]
  BY <1>1, <1>2
<1>6. pc' = [pc EXCEPT ![c] = pc'[c]]
  BY <1>1, <1>2, <1>3
<1>7. Follows(Session(c), Session(c)')
  BY <1>2, <1>3, <1>4 DEF Follows, Session
<1>8. InFlight(c)'
  BY <1>2 DEF InFlight
<1> QED BY <1>2, <1>3, <1>4, <1>5, <1>6, <1>7, <1>8

LEMMA GrowsSame ==
  ASSUME NEW f, NEW n, TypedRows(f, n)
  PROVE  Grows(f, f) /\ \A s : Apart(f, f, s)
  BY DEF TypedRows, Grows, Apart

LEMMA RowsCalled ==
  ASSUME NEW f, NEW n, NEW called, NEW called2, called \subseteq called2, RowsInv(f, n, called)
  PROVE  RowsInv(f, n, called2)
<1>1. WorkFits(f, called2)
  BY DEF RowsInv, WorkFits
<1> QED BY <1>1 DEF RowsInv

\* A step that commits nothing: a select, a write in a transaction, an update of no row.
LEMMA SessionKeeps ==
  ASSUME IInv, NEW c \in Callers, InFlight(c), Advance(c), Beside(c), db' = db,
         serial' \in Nat \ {0}, serial <= serial',
         pc'[c] = 1 => audit'[c] = 0,
         \A d \in Callers \ {c} : DOMAIN writes'[c] \cap DOMAIN writes[d] = {},
         SessionInv(db, serial', kek, CalledConcluded, c, Session(c)'),
         BeganSession(db, Session(c)'),
         \A d \in Callers : AuditInv(d)'
  PROVE  IInv'
<1>1. /\ pc'[c] \in Nat \ {0} /\ InFlight(c)' /\ failures' = failures
      /\ kek' = kek
  BY Advanced
<1>2. /\ RowsInv(db, serial, CalledConcluded) /\ serial \in Nat \ {0} /\ failures \in Nat
  BY DEF IInv, TypedState
<1>3. Grows(db, db') /\ \A s : Apart(db, db', s)
  BY <1>2, GrowsSame DEF RowsInv
<1>4. CalledConcluded \subseteq CalledConcluded'
  BY CalledGrows
<1>5. TypedState'
  BY <1>1, <1>2, TypedKeeps
<1>6. RowsInv(db', serial', CalledConcluded')
  <2>1. RowsInv(db, serial', CalledConcluded)
    <3>1. TypedRows(db, serial) /\ serial \in Int /\ serial' \in Int
      BY <1>2 DEF RowsInv
    <3>2. TypedRows(db, serial')
      BY <3>1 DEF TypedRows
    <3> QED BY <1>2, <3>2 DEF RowsInv
  <2> QED BY <1>4, <2>1, RowsCalled
<1>7. SessionInv(db', serial', kek', CalledConcluded', c, Session(c)')
  <2>1. serial' \in Int /\ serial' <= serial'
    OBVIOUS
  <2> QED BY <1>1, <1>3, <1>4, <2>1, SessionGrows
<1> QED BY <1>1, <1>3, <1>5, <1>6, <1>7, StepKeeps

LEMMA SelectKeeps ==
  ASSUME IInv, NEW c \in Callers, InFlight(c), SelectRows(c, Statement(c))
  PROVE  IInv'
<1> DEFINE st == Statement(c)
           s == Session(c)
<1>1. /\ st.do = "select" /\ Advance(c) /\ db' = db /\ serial' = serial
      /\ writes' = writes /\ audit' = audit
      /\ reads' = [reads EXCEPT ![c] = Over([row \in st.rows |-> Visible(c, row)], @)]
  BY DEF SelectRows
<1>2. DOMAIN reads = Callers /\ serial \in Nat \ {0}
      /\ \A d, e \in Callers : d # e => DOMAIN writes[d] \cap DOMAIN writes[e] = {}
  BY DEF IInv, TypedState
<1>3. /\ reads'[c] = Over([row \in st.rows |-> Visible(c, row)], reads[c])
      /\ DOMAIN reads' = DOMAIN reads /\ \A d \in Callers \ {c} : reads'[d] = reads[d]
  BY <1>1, <1>2
<1>4. /\ Follows(s, s') /\ pc'[c] > 1 /\ pc'[c] \in Nat \ {0}
      /\ kek' = kek /\ area' = area /\ request' = request /\ reply' = reply
      /\ DOMAIN pc' = DOMAIN pc /\ DOMAIN began' = DOMAIN began
      /\ pc' = [pc EXCEPT ![c] = pc'[c]]
      /\ \A d \in Callers \ {c} : pc'[d] = pc[d] /\ began'[d] = began[d]
      /\ pc[c] > 1 => began'[c] = began[c]
  BY <1>1, Advanced
<1>5. Beside(c)
  BY <1>1, <1>3, <1>4 DEF Beside
<1>6. Selects(s, s', SessionAt(c, s))
  <2>1. st = SessionAt(c, s)
    BY SessionHere
  <2>2. s'.writes = s.writes
    BY <1>1 DEF Session
  <2>3. s'.reads = Over([row \in st.rows |-> Sees(s, row)], s.reads)
    BY <1>3 DEF Session, Visible, Sees
  <2> HIDE DEF st
  <2> QED BY <1>1, <1>4, <2>1, <2>2, <2>3 DEF Selects, st
<1>7. Running(serial, CalledConcluded, c, s)
  BY RunningHere
<1>8. SessionInv(db, serial, kek, CalledConcluded, c, s') /\ BeganSession(db, s')
  BY <1>6, <1>7, SelectStep
<1>9. \A d \in Callers : AuditInv(d)'
  BY <1>1, <1>2, <1>4, <1>5, AuditStill
<1> QED BY <1>1, <1>2, <1>4, <1>5, <1>8, <1>9, SessionKeeps

LEMMA MissKeeps ==
  ASSUME IInv, NEW c \in Callers, InFlight(c), Statement(c).do = "update",
         Visible(c, Statement(c).row) = None, Advance(c),
         UNCHANGED <<db, reads, writes, audit>>, serial' = serial
  PROVE  IInv'
<1> DEFINE s == Session(c)
<1>1. /\ serial \in Nat \ {0}
      /\ \A d, e \in Callers : d # e => DOMAIN writes[d] \cap DOMAIN writes[e] = {}
  BY DEF IInv, TypedState
<1>2. /\ Follows(s, s') /\ pc'[c] > 1 /\ pc'[c] \in Nat \ {0}
      /\ kek' = kek /\ area' = area /\ request' = request /\ reply' = reply
      /\ DOMAIN pc' = DOMAIN pc /\ DOMAIN began' = DOMAIN began
      /\ pc' = [pc EXCEPT ![c] = pc'[c]]
      /\ \A d \in Callers \ {c} : pc'[d] = pc[d] /\ began'[d] = began[d]
      /\ pc[c] > 1 => began'[c] = began[c]
  BY Advanced
<1>3. Beside(c)
  BY <1>2 DEF Beside
<1>4. s'.reads = s.reads /\ s'.writes = s.writes
  BY DEF Session
<1>5. Passes(s, s', SessionAt(c, s)) /\ SessionAt(c, s).do = "update"
  BY <1>2, <1>4, SessionHere DEF Passes
<1>6. Running(serial, CalledConcluded, c, s)
  BY RunningHere
<1>7. SessionInv(db, serial, kek, CalledConcluded, c, s') /\ BeganSession(db, s')
  BY <1>5, <1>6, MissStep
<1>8. \A d \in Callers : AuditInv(d)'
  BY <1>1, <1>2, <1>3, AuditStill
<1> QED BY <1>1, <1>2, <1>3, <1>7, <1>8, SessionKeeps

LEMMA WritesBelow ==
  ASSUME IInv, NEW d \in Callers, NEW row \in DOMAIN writes[d], row[1] \in Sequenced
  PROVE  row = <<row[1], row[2], row[3]>> /\ row[3] \in Int /\ row[3] < serial
<1>1. InFlight(d)
  BY DEF IInv, TypedState, NoRows
<1>2. Running(serial, CalledConcluded, d, Session(d))
  BY <1>1, RunningHere
<1>3. TypedWrites(db, serial, Session(d).q.op, Session(d).writes)
  BY <1>2, RunningFacts
<1>4. Session(d).writes = writes[d]
  BY SessionHere
<1> QED BY <1>3, <1>4 DEF TypedWrites

\* A row that is written in a transaction, and the audit row of it.
LEMMA AuditHold ==
  ASSUME IInv, NEW c \in Callers, InFlight(c), Beside(c), reply' = reply, db' = db, NEW row,
         serial' \in Nat, serial <= serial',
         row[1] = "audit_log" => row[3] = serial /\ serial' = serial + 1,
         DOMAIN writes'[c] = {row} \cup DOMAIN writes[c],
         audit'[c] = IF row[1] = "audit_log" THEN row[3] ELSE audit[c]
  PROVE  \A d \in Callers : AuditInv(d)'
<1> SUFFICES ASSUME NEW d \in Callers PROVE AuditInv(d)'
  OBVIOUS
<1>1. AuditInv(d) /\ serial \in Nat \ {0} /\ TypedRows(db, serial)
  BY DEF IInv, TypedState, RowsInv
<1>2. \A e \in Callers \ {c} : writes'[e] = writes[e] /\ audit'[e] = audit[e]
  BY DEF Beside
<1>3. (InFlight(d)' <=> InFlight(d)) /\ (Answered(d, "500")' <=> Answered(d, "500"))
  BY DEF InFlight, Answered
<1>4. \A e \in Callers : \A x \in DOMAIN writes[e] : x[1] = "audit_log" =>
         x[3] \in Int /\ x[3] < serial
  BY WritesBelow DEF Sequenced
<1>5. \A x \in DOMAIN db : x[1] = "audit_log" => x[3] \in Int /\ x[3] < serial
  BY <1>1 DEF TypedRows, Sequenced
<1>6. audit[d] # 0 =>
       /\ audit[d] \in Nat /\ audit[d] < serial
       /\ \A e \in Callers \ {d} : \A x \in DOMAIN writes[e] :
             x[1] = "audit_log" => x[3] # audit[d]
       /\ InFlight(d) => \E x \in DOMAIN writes[d] : x[1] = "audit_log" /\ x[3] = audit[d]
       /\ InFlight(d) \/ Answered(d, "500") =>
             \A x \in DOMAIN db : x[1] = "audit_log" => x[3] # audit[d]
       /\ ~InFlight(d) /\ ~Answered(d, "500") =>
             \E x \in DOMAIN db : x[1] = "audit_log" /\ x[3] = audit[d]
  BY <1>1 DEF AuditInv
<1>7. CASE d = c /\ row[1] = "audit_log"
  <2>1. audit'[d] = serial /\ serial' = serial + 1 /\ row[3] = serial
    BY <1>7
  <2>2. audit'[d] \in Nat /\ audit'[d] < serial'
    BY <1>1, <2>1
  <2>3. \A e \in Callers \ {d} : \A x \in DOMAIN writes'[e] :
           x[1] = "audit_log" => x[3] # audit'[d]
    BY <1>1, <1>2, <1>4, <1>7, <2>1
  <2>4. row \in DOMAIN writes'[d] /\ row[1] = "audit_log" /\ row[3] = audit'[d]
    BY <1>7, <2>1
  <2>5. \A x \in DOMAIN db' : x[1] = "audit_log" => x[3] # audit'[d]
    BY <1>1, <1>5, <2>1
  <2>6. InFlight(d)'
    BY <1>3, <1>7
  <2> QED BY <2>2, <2>3, <2>4, <2>5, <2>6 DEF AuditInv
<1>8. CASE ~(d = c /\ row[1] = "audit_log")
  <2>1. audit'[d] = audit[d]
    BY <1>2, <1>8
  <2>2. ASSUME audit[d] # 0, NEW e \in Callers \ {d}, NEW x \in DOMAIN writes'[e],
               x[1] = "audit_log"
        PROVE  x[3] # audit[d]
    <3>1. CASE x \in DOMAIN writes[e]
      BY <1>6, <2>2, <3>1
    <3>2. CASE x \notin DOMAIN writes[e]
      <4>1. e = c /\ x = row
        BY <1>2, <2>2, <3>2
      <4> QED BY <1>1, <1>6, <2>2, <4>1
    <3> QED BY <3>1, <3>2
  <2>3. audit[d] # 0 => audit[d] < serial'
    BY <1>1, <1>6
  <2>4. DOMAIN writes[d] \subseteq DOMAIN writes'[d]
    BY <1>2
  <2>5. audit'[d] # 0 =>
         /\ audit'[d] \in Nat /\ audit'[d] < serial'
         /\ \A e \in Callers \ {d} : \A x \in DOMAIN writes'[e] :
               x[1] = "audit_log" => x[3] # audit'[d]
         /\ InFlight(d)' =>
               \E x \in DOMAIN writes'[d] : x[1] = "audit_log" /\ x[3] = audit'[d]
         /\ InFlight(d)' \/ Answered(d, "500")' =>
               \A x \in DOMAIN db' : x[1] = "audit_log" => x[3] # audit'[d]
         /\ ~InFlight(d)' /\ ~Answered(d, "500")' =>
               \E x \in DOMAIN db' : x[1] = "audit_log" /\ x[3] = audit'[d]
    BY <1>3, <1>6, <2>1, <2>2, <2>3, <2>4
  <2> QED BY <2>5 DEF AuditInv
<1> QED BY <1>7, <1>8

LEMMA HoldKeeps ==
  ASSUME IInv, NEW c \in Callers, InFlight(c), NEW row, NEW columns,
         Put(c, Statement(c), row, columns), ~Statement(c).own,
         Wrote(serial, Session(c), Statement(c), row, columns),
         serial' = IF Statement(c).do = "append" THEN serial + 1 ELSE serial,
         Statement(c).do # "append" => ~Locked(c, row)
  PROVE  IInv'
<1> DEFINE st == Statement(c)
           s == Session(c)
<1>1. /\ Advance(c) /\ db' = db /\ reads' = reads
      /\ writes' = [writes EXCEPT ![c] = Over([o \in {row} |-> columns], @)]
      /\ audit' = IF row[1] = "audit_log" THEN [audit EXCEPT ![c] = row[3]] ELSE audit
  BY DEF Put
<1>2. /\ DOMAIN writes = Callers /\ DOMAIN audit = Callers /\ serial \in Nat \ {0}
      /\ \A d, e \in Callers : d # e => DOMAIN writes[d] \cap DOMAIN writes[e] = {}
  BY DEF IInv, TypedState
<1>3. /\ writes'[c] = Over([o \in {row} |-> columns], writes[c])
      /\ DOMAIN writes' = DOMAIN writes /\ \A d \in Callers \ {c} : writes'[d] = writes[d]
  BY <1>1, <1>2
<1>4. /\ audit'[c] = IF row[1] = "audit_log" THEN row[3] ELSE audit[c]
      /\ DOMAIN audit' = DOMAIN audit /\ \A d \in Callers \ {c} : audit'[d] = audit[d]
  BY <1>1, <1>2
<1>5. /\ Follows(s, s') /\ pc'[c] > 1 /\ pc'[c] \in Nat \ {0}
      /\ kek' = kek /\ area' = area /\ request' = request /\ reply' = reply
      /\ DOMAIN pc' = DOMAIN pc /\ DOMAIN began' = DOMAIN began
      /\ pc' = [pc EXCEPT ![c] = pc'[c]]
      /\ \A d \in Callers \ {c} : pc'[d] = pc[d] /\ began'[d] = began[d]
      /\ pc[c] > 1 => began'[c] = began[c]
  BY <1>1, Advanced
<1>6. Beside(c)
  BY <1>1, <1>3, <1>4, <1>5 DEF Beside
<1>7. Running(serial, CalledConcluded, c, s)
  BY RunningHere
<1>8. st = SessionAt(c, s)
  BY SessionHere
<1>9. Holds(serial, s, s', SessionAt(c, s), row, columns)
  <2>1. s'.reads = s.reads
    BY <1>1 DEF Session
  <2>2. s'.writes = Over([o \in {row} |-> columns], s.writes)
    BY <1>3 DEF Session
  <2> HIDE DEF st
  <2> QED BY <1>5, <1>8, <2>1, <2>2 DEF Holds, st
<1>10. DOMAIN writes'[c] = {row} \cup DOMAIN writes[c]
  BY <1>3 DEF Over
<1>11. /\ st.do = "append" <=> row[1] \in Sequenced
       /\ row[1] \in Sequenced => row = <<st.table, st.t, serial>>
  BY <1>7, <1>8, <1>9, HeldRow
<1>12. serial' \in Nat \ {0} /\ serial <= serial'
  BY <1>2
<1>13. row[1] \in Sequenced => row[3] = serial /\ serial' = serial + 1
  <2> HIDE DEF st
  <2> QED BY <1>11 DEF st
<1>14. \A d \in Callers : AuditInv(d)'
  BY <1>1, <1>4, <1>5, <1>6, <1>10, <1>12, <1>13, AuditHold DEF Sequenced
<1>15. \A d \in Callers \ {c} : DOMAIN writes'[c] \cap DOMAIN writes[d] = {}
  <2> SUFFICES ASSUME NEW d \in Callers \ {c}, row \in DOMAIN writes[d] PROVE FALSE
    BY <1>2, <1>10
  <2>1. CASE st.do = "append"
    <3>1. row[3] = serial /\ row[3] < serial
      BY <1>11, <1>13, <2>1, WritesBelow
    <3> QED BY <1>2, <3>1
  <2>2. CASE st.do # "append"
    BY <2>2 DEF Locked
  <2> QED BY <2>1, <2>2
<1>16. SessionInv(db, serial', kek, CalledConcluded, c, s') /\ BeganSession(db, s')
  <2>1. SessionInv(db, serial + 1, kek, CalledConcluded, c, s') /\ BeganSession(db, s')
    BY <1>7, <1>9, HoldStep
  <2>2. CASE st.do = "append"
    BY <2>1, <2>2
  <2>3. CASE st.do # "append"
    <3>1. s'.writes = writes'[c]
      BY SessionNext
    <3>2. \A x \in DOMAIN s'.writes : x[1] \in Sequenced => x[3] < serial
      BY <1>10, <1>11, <2>3, <3>1, WritesBelow
    <3>3. SessionInv(db, serial, kek, CalledConcluded, c, s')
      BY <2>1, <3>2, SessionBelow
    <3> QED BY <2>1, <2>3, <3>3
  <2> QED BY <2>2, <2>3
<1>17. pc'[c] # 1
  BY <1>5
<1> QED BY <1>1, <1>6, <1>12, <1>14, <1>15, <1>16, <1>17, SessionKeeps

\* A statement that is committed at once.
LEMMA OwnKeeps ==
  ASSUME IInv, NEW c \in Callers, InFlight(c), NEW row, NEW columns,
         Put(c, Statement(c), row, columns), Statement(c).own,
         Wrote(serial, Session(c), Statement(c), row, columns),
         serial' = IF Statement(c).do = "append" THEN serial + 1 ELSE serial
  PROVE  IInv'
<1> DEFINE st == Statement(c)
           s == Session(c)
<1>1. /\ Advance(c) /\ db' = Plus(db, row, columns) /\ reads' = reads /\ writes' = writes
      /\ audit' = IF row[1] = "audit_log" THEN [audit EXCEPT ![c] = row[3]] ELSE audit
  BY DEF Put, Plus
<1>2. /\ serial \in Nat \ {0} /\ RowsInv(db, serial, CalledConcluded) /\ failures \in Nat
      /\ \A d, e \in Callers : d # e => DOMAIN writes[d] \cap DOMAIN writes[e] = {}
  BY DEF IInv, TypedState
<1>3. TypedRows(db, serial)
  BY <1>2 DEF RowsInv
<1>4. Running(serial, CalledConcluded, c, s) /\ st = SessionAt(c, s)
  BY RunningHere, SessionHere
<1>5. OwnRow(db, serial, row) /\ "absent" \notin DOMAIN columns
  BY <1>4, OwnIs
<1>6. st.do # "append" => row[1] = "erasure_audit"
  <2>1. Allowed(s.q.op, Owner(s.q, s.began), st)
    BY <1>4, StatementAllowed
  <2> HIDE DEF st, s
  <2>2. st.do # "append" => row = st.row /\ st.do \in {"insert", "upsert", "update"}
    BY DEF Wrote, st
  <2> QED BY <2>1, <2>2 DEF Allowed, st
<1>7. audit' = audit
  BY <1>1, <1>5 DEF OwnRow
<1>8. /\ Follows(s, s') /\ pc'[c] > 1 /\ pc'[c] \in Nat \ {0} /\ InFlight(c)'
      /\ kek' = kek /\ area' = area /\ request' = request /\ reply' = reply
      /\ failures' = failures
      /\ DOMAIN pc' = DOMAIN pc /\ DOMAIN began' = DOMAIN began
      /\ pc' = [pc EXCEPT ![c] = pc'[c]]
      /\ \A d \in Callers \ {c} : pc'[d] = pc[d] /\ began'[d] = began[d]
      /\ pc[c] > 1 => began'[c] = began[c]
  BY <1>1, Advanced
<1>9. Beside(c)
  BY <1>1, <1>7, <1>8 DEF Beside
<1>10. CalledConcluded \subseteq CalledConcluded'
  BY <1>9, CalledGrows
<1>11. Passes(s, s', SessionAt(c, s))
  <2>1. s'.reads = s.reads /\ s'.writes = s.writes
    BY <1>1 DEF Session
  <2>2. st.do \in {"insert", "upsert", "update", "append"} /\ st.own
    BY DEF Wrote
  <2> HIDE DEF st
  <2> QED BY <1>4, <1>8, <2>1, <2>2 DEF Passes
<1>12. Grows(db, db')
  BY <1>1, <1>2, <1>3, <1>5, OwnGrows
<1>13. ASSUME NEW d \in Callers, InFlight(d) PROVE Apart(db, db', Session(d))
  <2>1. TypedWrites(db, serial, Session(d).q.op, Session(d).writes)
    BY <1>13, RunningHere, RunningFacts
  <2> QED BY <1>1, <1>2, <1>5, <2>1, OwnApart
<1>14. DOMAIN db' = DOMAIN db \cup {row}
  BY <1>1 DEF Plus, Over
<1>15. serial' \in Nat \ {0} /\ serial <= serial'
  BY <1>2
<1>16. RowsInv(db', serial', CalledConcluded')
  <2>1. RowsInv(db', serial + 1, CalledConcluded)
    BY <1>1, <1>2, <1>5, OwnRows
  <2>2. RowsInv(db', serial', CalledConcluded)
    <3>1. CASE st.do = "append"
      BY <2>1, <3>1
    <3>2. CASE st.do # "append"
      <4>1. \A x \in DOMAIN db' : x[1] \in Sequenced => x[3] < serial
        BY <1>3, <1>6, <1>14, <3>2 DEF TypedRows, Sequenced
      <4>2. RowsInv(db', serial, CalledConcluded)
        BY <2>1, <4>1, RowsBelow
      <4> QED BY <3>2, <4>2
    <3> QED BY <3>1, <3>2
  <2> QED BY <1>10, <2>2, RowsCalled
<1>17. SessionInv(db', serial', kek', CalledConcluded', c, s') /\ BeganSession(db', s')
  <2>1. SessionInv(db', serial + 1, kek, CalledConcluded, c, s') /\ BeganSession(db', s')
    BY <1>1, <1>4, <1>11, OwnStep
  <2>2. SessionInv(db', serial', kek, CalledConcluded, c, s')
    <3>1. CASE st.do = "append"
      BY <2>1, <3>1
    <3>2. CASE st.do # "append"
      <4>1. s'.writes = writes[c]
        BY <1>1, SessionNext
      <4>2. \A x \in DOMAIN s'.writes : x[1] \in Sequenced => x[3] < serial
        BY <4>1, WritesBelow
      <4>3. SessionInv(db', serial, kek, CalledConcluded, c, s')
        BY <2>1, <4>2, SessionBelow
      <4> QED BY <3>2, <4>3
    <3> QED BY <3>1, <3>2
  <2>3. Grows(db', db') /\ Apart(db', db', s')
    BY <1>16, GrowsSame DEF RowsInv
  <2>4. serial' \in Int /\ serial' <= serial'
    BY <1>15
  <2> QED BY <1>8, <1>10, <2>1, <2>2, <2>3, <2>4, SessionGrows
<1>18. TypedState'
  BY <1>1, <1>2, <1>8, <1>9, <1>15, TypedKeeps
<1>19. \A d \in Callers : AuditInv(d)'
  <2>1. /\ \A x \in DOMAIN db' : x[1] = "audit_log" => x \in DOMAIN db
        /\ DOMAIN db \subseteq DOMAIN db'
    BY <1>5, <1>14 DEF OwnRow
  <2> QED BY <1>1, <1>7, <1>8, <1>9, <1>15, <2>1, AuditStill
<1> QED BY <1>2, <1>8, <1>9, <1>12, <1>13, <1>15, <1>16, <1>17, <1>18, <1>19, StepKeeps

\* The audit row of a session that ends is committed, or rolled back and answered 500.
LEMMA AuditEnd ==
  ASSUME IInv, NEW c \in Callers, InFlight(c), Beside(c), audit' = audit, serial' = serial,
         writes'[c] = NoRows, ~InFlight(c)',
         \/ Answered(c, "500")' /\ db' = db
         \/ ~Answered(c, "500")' /\ DOMAIN db' = DOMAIN writes[c] \cup DOMAIN db
  PROVE  \A d \in Callers : AuditInv(d)'
<1> SUFFICES ASSUME NEW d \in Callers PROVE AuditInv(d)'
  OBVIOUS
<1>1. AuditInv(d)
  BY DEF IInv
<1>2. \A e \in Callers \ {c} : writes'[e] = writes[e] /\ reply'[e] = reply[e]
  BY DEF Beside
<1>3. DOMAIN writes'[c] = {}
  BY DEF NoRows
<1>4. audit[d] # 0 =>
       /\ audit[d] \in Nat /\ audit[d] < serial
       /\ \A e \in Callers \ {d} : \A x \in DOMAIN writes[e] :
             x[1] = "audit_log" => x[3] # audit[d]
       /\ InFlight(d) => \E x \in DOMAIN writes[d] : x[1] = "audit_log" /\ x[3] = audit[d]
       /\ InFlight(d) \/ Answered(d, "500") =>
             \A x \in DOMAIN db : x[1] = "audit_log" => x[3] # audit[d]
       /\ ~InFlight(d) /\ ~Answered(d, "500") =>
             \E x \in DOMAIN db : x[1] = "audit_log" /\ x[3] = audit[d]
  BY <1>1 DEF AuditInv
<1>5. audit[d] # 0 => \A e \in Callers \ {d} : \A x \in DOMAIN writes'[e] :
                          x[1] = "audit_log" => x[3] # audit[d]
  BY <1>2, <1>3, <1>4
<1>6. CASE d = c
  <2>1. CASE Answered(c, "500")' /\ db' = db
    <3>1. audit[d] # 0 => \A x \in DOMAIN db' : x[1] = "audit_log" => x[3] # audit[d]
      BY <1>4, <1>6, <2>1
    <3>2. ~InFlight(d)' /\ Answered(d, "500")'
      BY <1>6, <2>1
    <3>3. audit'[d] = audit[d] /\ serial' = serial
      OBVIOUS
    <3> QED BY <1>4, <1>5, <3>1, <3>2, <3>3 DEF AuditInv
  <2>2. CASE ~Answered(c, "500")' /\ DOMAIN db' = DOMAIN writes[c] \cup DOMAIN db
    <3>1. audit[d] # 0 => \E x \in DOMAIN db' : x[1] = "audit_log" /\ x[3] = audit[d]
      BY <1>4, <1>6, <2>2
    <3>2. ~InFlight(d)' /\ ~Answered(d, "500")'
      BY <1>6, <2>2
    <3>3. audit'[d] = audit[d] /\ serial' = serial
      OBVIOUS
    <3> QED BY <1>4, <1>5, <3>1, <3>2, <3>3 DEF AuditInv
  <2> QED BY <2>1, <2>2
<1>7. CASE d # c
  <2>1. (InFlight(d)' <=> InFlight(d)) /\ (Answered(d, "500")' <=> Answered(d, "500"))
    BY <1>2, <1>7 DEF InFlight, Answered
  <2>2. DOMAIN db' \subseteq DOMAIN writes[c] \cup DOMAIN db /\ DOMAIN db \subseteq DOMAIN db'
    OBVIOUS
  <2>3. audit[d] # 0 /\ (InFlight(d) \/ Answered(d, "500")) =>
           \A x \in DOMAIN db' : x[1] = "audit_log" => x[3] # audit[d]
    BY <1>4, <1>7, <2>2
  <2>4. audit[d] # 0 /\ ~InFlight(d) /\ ~Answered(d, "500") =>
           \E x \in DOMAIN db' : x[1] = "audit_log" /\ x[3] = audit[d]
    BY <1>4, <2>2
  <2>5. writes'[d] = writes[d] /\ audit'[d] = audit[d] /\ serial' = serial
    BY <1>2, <1>7
  <2> QED BY <1>4, <1>5, <2>1, <2>3, <2>4, <2>5 DEF AuditInv
<1> QED BY <1>6, <1>7

\* What the end of a request leaves.
LEMMA Ended ==
  ASSUME IInv, NEW c \in Callers, InFlight(c), NEW answer, End(c, answer)
  PROVE  /\ Beside(c) /\ reply'[c] = answer /\ reads'[c] = NoRows /\ writes'[c] = NoRows
         /\ serial' = serial /\ pc'[c] = pc[c] /\ audit' = audit /\ began'[c] = began[c]
         /\ request' = request /\ CalledConcluded \subseteq CalledConcluded'
         /\ pc'[c] \in Nat \ {0} /\ (pc'[c] = 1 => audit'[c] = 0)
         /\ \A d \in Callers \ {c} : DOMAIN writes'[c] \cap DOMAIN writes[d] = {}
         /\ \A f, g : BeganSession(f, Session(c)) /\ Grows(f, g) => BeganSession(g, Session(c)')
<1>1. /\ pc \in [Callers -> Nat \ {0}] /\ DOMAIN reads = Callers /\ DOMAIN writes = Callers
      /\ DOMAIN reply = Callers /\ \A d \in Callers : pc[d] = 1 => audit[d] = 0
  BY DEF IInv, TypedState
<1>2. /\ reply' = [reply EXCEPT ![c] = answer] /\ reads' = [reads EXCEPT ![c] = NoRows]
      /\ writes' = [writes EXCEPT ![c] = NoRows]
      /\ kek' = kek /\ area' = area /\ serial' = serial /\ request' = request /\ pc' = pc
      /\ audit' = audit /\ began' = began
  BY DEF End
<1>3. /\ reply'[c] = answer /\ reads'[c] = NoRows /\ writes'[c] = NoRows
      /\ DOMAIN reply' = DOMAIN reply /\ DOMAIN reads' = DOMAIN reads
      /\ DOMAIN writes' = DOMAIN writes
      /\ \A d \in Callers \ {c} : reply'[d] = reply[d] /\ reads'[d] = reads[d]
                                  /\ writes'[d] = writes[d]
  BY <1>1, <1>2
<1>4. pc' = [pc EXCEPT ![c] = pc'[c]]
  BY <1>1, <1>2
<1>5. Beside(c)
  BY <1>2, <1>3, <1>4 DEF Beside
<1>6. ASSUME NEW f, NEW g, BeganSession(f, Session(c)), Grows(f, g)
      PROVE  BeganSession(g, Session(c)')
  <2>1. BeganSession(g, Session(c))
    BY <1>6, BeganGrows
  <2>2. Session(c)'.pc = Session(c).pc /\ Session(c)'.began = Session(c).began
    BY <1>2 DEF Session
  <2> QED BY <2>1, <2>2 DEF BeganSession
<1>7. DOMAIN writes'[c] = {}
  BY <1>3 DEF NoRows
<1>8. CalledConcluded \subseteq CalledConcluded'
  BY <1>5, CalledGrows
<1> QED BY <1>1, <1>2, <1>3, <1>5, <1>6, <1>7, <1>8

LEMMA ReturnKeeps ==
  ASSUME IInv, NEW c \in Callers, InFlight(c), Return(c, Statement(c))
  PROVE  IInv'
<1> DEFINE st == Statement(c)
           s == Session(c)
<1>1. st.do = "return" /\ End(c, st.value) /\ db' = Over(writes[c], db) /\ failures' = failures
  BY DEF Return
<1>2. /\ Running(serial, CalledConcluded, c, s) /\ st = SessionAt(c, s) /\ s.writes = writes[c]
      /\ s.q = request[c] /\ s.began = began[c]
  BY RunningHere, SessionHere
<1>3. /\ Beside(c) /\ reply'[c] = st.value /\ reads'[c] = NoRows /\ writes'[c] = NoRows
      /\ serial' = serial /\ pc'[c] = pc[c] /\ audit' = audit /\ began'[c] = began[c]
      /\ request' = request /\ CalledConcluded \subseteq CalledConcluded'
      /\ pc'[c] \in Nat \ {0} /\ (pc'[c] = 1 => audit'[c] = 0)
      /\ \A d \in Callers \ {c} : DOMAIN writes'[c] \cap DOMAIN writes[d] = {}
      /\ \A f, g : BeganSession(f, Session(c)) /\ Grows(f, g) => BeganSession(g, Session(c)')
  BY <1>1, Ended
<1>4. /\ serial \in Nat \ {0} /\ failures \in Nat /\ BeganSession(db, s)
      /\ \A d, e \in Callers : d # e => DOMAIN writes[d] \cap DOMAIN writes[e] = {}
  BY DEF IInv, TypedState
<1> HIDE DEF st, s
<1>5. SessionAt(c, s).do = "return"
  BY <1>1, <1>2
<1>6. Grows(db, db')
  BY <1>1, <1>2, CommitGrows
<1>7. ASSUME NEW d \in Callers \ {c} PROVE Apart(db, db', Session(d))
  <2>1. Session(d).writes = writes[d]
    BY SessionHere
  <2>2. DOMAIN s.writes \cap DOMAIN Session(d).writes = {}
    BY <1>2, <1>4, <2>1
  <2> QED BY <1>1, <1>2, <2>2, CommitApart
<1>8. RowsInv(db', serial', CalledConcluded')
  <2>1. RowsInv(db', serial', CalledConcluded)
    BY <1>1, <1>2, <1>3, <1>5, CommitRows
  <2> QED BY <1>3, <2>1, RowsCalled
<1>9. /\ Answer(db', CalledConcluded, failures', request'[c], began'[c], reply'[c])
      /\ reply'[c][1] # "500" /\ reply'[c] # <<>>
  BY <1>1, <1>2, <1>3, <1>5, ReturnAnswer
<1>10. Answer(db', CalledConcluded', failures', request'[c], began'[c], reply'[c])
  <2>1. Grows(db', db')
    BY <1>8, GrowsSame DEF RowsInv
  <2> QED BY <1>3, <1>9, <2>1, AnswerGrows
<1>11. ~InFlight(c)' /\ ~Answered(c, "500")'
  BY <1>9 DEF InFlight, Answered
<1>12. BeganSession(db', Session(c)')
  BY <1>3, <1>4, <1>6 DEF s
<1>13. TypedState'
  BY <1>1, <1>3, <1>4, TypedKeeps
<1>14. \A d \in Callers : AuditInv(d)'
  <2>1. DOMAIN db' = DOMAIN writes[c] \cup DOMAIN db
    BY <1>1, OverIs
  <2> QED BY <1>3, <1>11, <2>1, AuditEnd
<1>15. serial <= serial' /\ (failures' = 0 => failures = 0)
  BY <1>1, <1>3, <1>4
<1> QED BY <1>3, <1>6, <1>7, <1>8, <1>10, <1>11, <1>12, <1>13, <1>14, <1>15, StepKeeps

\* A rollback.
LEMMA FailKeeps ==
  ASSUME IInv, NEW c \in Callers, InFlight(c), End(c, <<"500">>), db' = db,
         failures' \in Nat, failures' = 0 => failures = 0,
         request[c].op = "getSeamMap" => failures' # 0
  PROVE  IInv'
<1>1. /\ Beside(c) /\ reply'[c] = <<"500">> /\ reads'[c] = NoRows /\ writes'[c] = NoRows
      /\ serial' = serial /\ pc'[c] = pc[c] /\ audit' = audit /\ began'[c] = began[c]
      /\ request' = request /\ CalledConcluded \subseteq CalledConcluded'
      /\ pc'[c] \in Nat \ {0} /\ (pc'[c] = 1 => audit'[c] = 0)
      /\ \A d \in Callers \ {c} : DOMAIN writes'[c] \cap DOMAIN writes[d] = {}
      /\ \A f, g : BeganSession(f, Session(c)) /\ Grows(f, g) => BeganSession(g, Session(c)')
  BY Ended
<1>2. /\ serial \in Nat \ {0} /\ BeganSession(db, Session(c))
      /\ RowsInv(db, serial, CalledConcluded)
  BY DEF IInv, TypedState
<1>3. Grows(db, db') /\ \A s : Apart(db, db', s)
  BY <1>2, GrowsSame DEF RowsInv
<1>4. RowsInv(db', serial', CalledConcluded')
  BY <1>1, <1>2, RowsCalled
<1>5. Answer(db', CalledConcluded', failures', request'[c], began'[c], reply'[c])
  BY <1>1, FailedAnswer
<1>6. ~InFlight(c)' /\ Answered(c, "500")'
  <2>1. <<"500">> # <<>> /\ <<"500">>[1] = "500"
    OBVIOUS
  <2> QED BY <1>1, <2>1 DEF InFlight, Answered
<1>7. BeganSession(db', Session(c)')
  BY <1>1, <1>2, <1>3
<1>8. TypedState'
  BY <1>1, <1>2, TypedKeeps
<1>9. \A d \in Callers : AuditInv(d)'
  BY <1>1, <1>6, AuditEnd
<1>10. serial <= serial'
  BY <1>1, <1>2
<1> QED BY <1>1, <1>3, <1>4, <1>5, <1>6, <1>7, <1>8, <1>9, <1>10, StepKeeps

\* A row that is written: held until the commit, or committed at once.
LEMMA PutKeeps ==
  ASSUME IInv, NEW c \in Callers, InFlight(c), NEW row, NEW columns,
         Put(c, Statement(c), row, columns),
         Wrote(serial, Session(c), Statement(c), row, columns),
         serial' = IF Statement(c).do = "append" THEN serial + 1 ELSE serial,
         Statement(c).do # "append" => ~Locked(c, row)
  PROVE  IInv'
<1>1. Statement(c).do \in {"insert", "upsert", "update", "append"}
  BY DEF Wrote
<1>2. Allowed(Session(c).q.op, Owner(Session(c).q, Session(c).began), SessionAt(c, Session(c)))
  BY RunningHere, StatementAllowed
<1>3. Statement(c) = SessionAt(c, Session(c))
  BY SessionHere
<1>4. Statement(c).own \in BOOLEAN
  BY <1>1, <1>2, <1>3 DEF Allowed
<1>5. CASE Statement(c).own
  BY <1>5, OwnKeeps
<1>6. CASE ~Statement(c).own
  BY <1>6, HoldKeeps
<1> QED BY <1>4, <1>5, <1>6

LEMMA WriteKeeps ==
  ASSUME IInv, NEW c \in Callers, InFlight(c), WriteRow(c, Statement(c))
  PROVE  IInv'
<1> DEFINE st == Statement(c)
           old == Visible(c, st.row)
<1>1. /\ st.do \in {"insert", "upsert", "update"} /\ ~Locked(c, st.row) /\ serial' = serial
      /\ \/ st.do # "update" /\ old = None /\ Put(c, st, st.row, st.set)
         \/ st.do # "insert" /\ old # None /\ Put(c, st, st.row, Over(st.set, old))
         \/ st.do = "update" /\ old = None /\ Advance(c) /\ UNCHANGED <<db, reads, writes, audit>>
  BY DEF WriteRow
<1>2. old = Sees(Session(c), st.row)
  BY SessionHere
<1> HIDE DEF old, st
<1>3. CASE st.do # "update" /\ old = None /\ Put(c, st, st.row, st.set)
  <2>1. Wrote(serial, Session(c), st, st.row, st.set)
    BY <1>1, <1>2, <1>3 DEF Wrote
  <2> QED BY <1>1, <1>3, <2>1, PutKeeps DEF st
<1>4. CASE st.do # "insert" /\ old # None /\ Put(c, st, st.row, Over(st.set, old))
  <2>1. Wrote(serial, Session(c), st, st.row, Over(st.set, old))
    BY <1>1, <1>2, <1>4 DEF Wrote
  <2> QED BY <1>1, <1>4, <2>1, PutKeeps DEF st
<1>5. CASE st.do = "update" /\ old = None /\ Advance(c) /\ UNCHANGED <<db, reads, writes, audit>>
  BY <1>1, <1>5, MissKeeps DEF st, old
<1> QED BY <1>1, <1>3, <1>4, <1>5

LEMMA AppendKeeps ==
  ASSUME IInv, NEW c \in Callers, InFlight(c), AppendRow(c, Statement(c))
  PROVE  IInv'
<1> DEFINE st == Statement(c)
<1>1. st.do = "append" /\ Put(c, st, <<st.table, st.t, serial>>, st.set) /\ serial' = serial + 1
  BY DEF AppendRow
<1> HIDE DEF st
<1>2. Wrote(serial, Session(c), st, <<st.table, st.t, serial>>, st.set)
  BY <1>1 DEF Wrote
<1> QED BY <1>1, <1>2, PutKeeps DEF st

\* A key that exists already: no method that inserts is one that reads a map.
LEMMA ViolationKeeps ==
  ASSUME IInv, NEW c \in Callers, InFlight(c), UniqueViolation(c, Statement(c))
  PROVE  IInv'
<1>1. Statement(c).do = "insert" /\ End(c, <<"500">>) /\ db' = db /\ failures' = failures
  BY DEF UniqueViolation
<1>2. Running(serial, CalledConcluded, c, Session(c))
  BY RunningHere
<1>3. Statement(c) = SessionAt(c, Session(c)) /\ Session(c).q = request[c]
  BY SessionHere
<1>4. request[c].op # "getSeamMap"
  BY <1>1, <1>2, <1>3, MapInserts
<1>5. failures \in Nat
  BY DEF IInv, TypedState
<1> QED BY <1>1, <1>4, <1>5, FailKeeps

LEMMA FailureKeeps ==
  ASSUME IInv, NEW c \in Callers, DatabaseFails(c)
  PROVE  IInv'
<1>1. InFlight(c) /\ End(c, <<"500">>) /\ db' = db /\ failures' = failures + 1
  BY DEF DatabaseFails
<1>2. failures \in Nat
  BY DEF IInv, TypedState
<1>3. failures' \in Nat /\ failures' # 0
  BY <1>1, <1>2
<1> QED BY <1>1, <1>3, FailKeeps

LEMMA NothingKeeps ==
  ASSUME IInv, UNCHANGED vars
  PROVE  IInv'
<1>1. /\ kek' = kek /\ db' = db /\ area' = area /\ serial' = serial /\ failures' = failures
      /\ request' = request /\ pc' = pc /\ reads' = reads /\ writes' = writes /\ reply' = reply
      /\ audit' = audit /\ began' = began
  BY DEF vars
<1>2. CalledConcluded' = CalledConcluded
  BY <1>1 DEF CalledConcluded, Asks, Tenant
<1>3. \A c : /\ Session(c)' = Session(c) /\ (InFlight(c)' <=> InFlight(c))
             /\ (Answered(c, "500")' <=> Answered(c, "500"))
  BY <1>1 DEF Session, InFlight, Answered
<1>4. TypedState'
  BY <1>1, <1>3 DEF IInv, TypedState
<1>5. RowsInv(db', serial', CalledConcluded')
  BY <1>1, <1>2 DEF IInv
<1>6. ASSUME NEW c \in Callers
      PROVE  /\ BeganSession(db', Session(c)')
             /\ InFlight(c)' => SessionInv(db', serial', kek', CalledConcluded', c, Session(c)')
             /\ ~InFlight(c)' =>
                   Answer(db', CalledConcluded', failures', request'[c], began'[c], reply'[c])
  BY <1>1, <1>2, <1>3 DEF IInv
<1>7. ASSUME NEW c \in Callers PROVE AuditInv(c)'
  <2>1. AuditInv(c)
    BY DEF IInv
  <2> QED BY <1>1, <1>3, <2>1 DEF AuditInv
<1> QED BY <1>4, <1>5, <1>6, <1>7 DEF IInv

LEMMA NextKeeps ==
  ASSUME IInv, [Next]_vars
  PROVE  IInv'
<1>1. CASE Next
  <2>1. PICK c \in Callers : Run(c) \/ DatabaseFails(c)
    BY <1>1 DEF Next
  <2>2. CASE Run(c)
    <3>1. InFlight(c)
      BY <2>2 DEF Run
    <3>2. CASE SelectRows(c, Statement(c))
      BY <3>1, <3>2, SelectKeeps
    <3>3. CASE WriteRow(c, Statement(c))
      BY <3>1, <3>3, WriteKeeps
    <3>4. CASE AppendRow(c, Statement(c))
      BY <3>1, <3>4, AppendKeeps
    <3>5. CASE Return(c, Statement(c))
      BY <3>1, <3>5, ReturnKeeps
    <3>6. CASE UniqueViolation(c, Statement(c))
      BY <3>1, <3>6, ViolationKeeps
    <3> QED BY <2>2, <3>2, <3>3, <3>4, <3>5, <3>6 DEF Run
  <2>3. CASE DatabaseFails(c)
    BY <2>3, FailureKeeps
  <2> QED BY <2>1, <2>2, <2>3
<1>2. CASE UNCHANGED vars
  BY <1>2, NothingKeeps
<1> QED BY <1>1, <1>2
-----------------------------------------------------------------------------
(* The start.                                                               *)
LEMMA StartRows ==
  ASSUME NEW a \in DOMAIN Areas, NEW called,
         \A row \in DOMAIN Areas[a].rows :
            /\ row[1] = "experiments" /\ Areas[a].rows[row].status = "concluded" =>
                  Verdict(row[2], row[3]) \in DOMAIN Areas[a].rows \/ row \in called
  PROVE  RowsInv(Areas[a].rows, 1, called)
<1> DEFINE f == Areas[a].rows
<1>1. IsFiniteSet(DOMAIN f) /\ \A row \in DOMAIN f : StartRow(f, row)
  BY AreasAssumption
<1> HIDE DEF f
<1>2. TypedRows(f, 1)
  BY <1>1 DEF TypedRows, StartRow
<1>3. KeysFit(f)
  BY <1>1 DEF KeysFit, StartRow
<1>4. TenantsExist(f)
  BY <1>1 DEF TenantsExist, StartRow, Columns
<1>5. SettingsRecorded(f)
  BY <1>1 DEF SettingsRecorded, StartRow
<1>6. WorkFits(f, called)
  BY <1>1 DEF WorkFits, StartRow, f
<1> QED BY <1>2, <1>3, <1>4, <1>5, <1>6 DEF RowsInv, f

LEMMA StartSession ==
  ASSUME NEW f, NEW n, NEW k, NEW called, NEW c, NEW s, StartCall(f, s.q),
         s.pc = 1, s.reads = NoRows, s.writes = NoRows
  PROVE  SessionInv(f, n, k, called, c, s)
<1>1. DOMAIN NoRows = {} /\ IsFiniteSet(DOMAIN NoRows)
  BY FS_EmptySet DEF NoRows
<1>2. LegalSession(f, s)
  <2>1. ToSet(MILESTONES) = {"connected", "plan_proposed", "plan_approved", "first_event",
                             "first_finding"}
    BY DEF ToSet, MILESTONES
  <2>2. s.q.op = "recordMilestone" => s.q.id # "absent" /\ s.q.v # Null
    BY <2>1 DEF StartCall
  <2> QED BY <2>2 DEF LegalSession, Legal, StartCall
<1>3. TypedSession(f, n, s)
  BY <1>1 DEF TypedSession, TypedWrites
<1>4. AdmittedSession(s)
  BY DEF AdmittedSession
<1>5. KeysSession(f, k, c, s)
  BY <1>1 DEF KeysSession, KeyWrites, KeyRead, PuttingMap, GettingMap
<1>6. SettingsSession(f, c, s)
  <2>1. \A t : SetAndRecorded(t, s)
    BY DEF SetAndRecorded, RecordedAt
  <2> QED BY <1>1, <2>1 DEF SettingsSession, TenantWrites, TokenWrites, AuditWrites
<1>7. ServedSession(f, s)
  <2>1. OptedIn(NoRows) = {}
    BY <1>1 DEF OptedIn
  <2>2. OperatorSession(f, s)
    BY <1>1 DEF OperatorSession, Operators, AuditedAt
  <2> QED BY <2>1, <2>2 DEF ServedSession, BenchmarkSession
<1>8. WorkSession(f, called, s)
  BY <1>1 DEF WorkSession, WorkWrites, ReachingMilestone, AddingCase, ReadingExperiment
<1> QED BY <1>2, <1>3, <1>4, <1>5, <1>6, <1>7, <1>8 DEF SessionInv

LEMMA InitHolds ==
  ASSUME Init
  PROVE  IInv
<1> DEFINE calls == Areas[area].calls
           callers == 1..Areas[area].callers
<1>1. /\ area \in DOMAIN Areas /\ kek \in Areas[area].kek /\ db = Areas[area].rows
      /\ serial = 1 /\ failures = 0
      /\ pc = [c \in Callers |-> 1] /\ reads = [c \in Callers |-> NoRows]
      /\ writes = [c \in Callers |-> NoRows] /\ audit = [c \in Callers |-> 0]
      /\ began = [c \in Callers |-> NoRows]
  BY Zenon DEF Init
<1>2. PICK f \in [callers -> DOMAIN calls] :
         /\ request = [c \in Callers |->
                         IF c \in callers THEN calls[f[c]] ELSE Call("none", 0, "", "")]
         /\ reply = [c \in Callers |-> IF c \in callers THEN <<>> ELSE <<"none">>]
  BY Zenon DEF Init
<1>3. DOMAIN NoRows = {}
  BY DEF NoRows
<1>4. TypedState
  <2>1. Areas[area].kek \subseteq BOOLEAN
    BY <1>1, AreasAssumption
  <2>2. pc \in [Callers -> Nat \ {0}]
    BY <1>1
  <2>3. \A c, d \in Callers : c # d => DOMAIN writes[c] \cap DOMAIN writes[d] = {}
    BY <1>1, <1>3
  <2>4. \A c \in Callers : reads[c] = NoRows /\ writes[c] = NoRows /\ audit[c] = 0
    BY <1>1
  <2>5. /\ DOMAIN request = Callers /\ DOMAIN reads = Callers /\ DOMAIN writes = Callers
        /\ DOMAIN reply = Callers /\ DOMAIN audit = Callers /\ DOMAIN began = Callers
    BY Zenon, <1>1, <1>2
  <2>6. /\ area \in DOMAIN Areas /\ kek \in BOOLEAN
        /\ serial \in Nat \ {0} /\ failures \in Nat
    BY <1>1, <2>1
  <2> QED BY <2>2, <2>3, <2>4, <2>5, <2>6 DEF TypedState
<1>5. RowsInv(db, serial, CalledConcluded)
  <2>1. \A row \in DOMAIN db :
           row[1] = "experiments" /\ db[row].status = "concluded" =>
              Verdict(row[2], row[3]) \in DOMAIN db \/ row \in CalledConcluded
    BY <1>1 DEF CalledConcluded, At
  <2> QED BY <1>1, <2>1, StartRows
<1>6. ASSUME NEW c \in Callers
      PROVE  /\ BeganSession(db, Session(c))
             /\ InFlight(c) => SessionInv(db, serial, kek, CalledConcluded, c, Session(c))
             /\ ~InFlight(c) =>
                   Answer(db, CalledConcluded, failures, request[c], began[c], reply[c])
             /\ AuditInv(c)
  <2>1. /\ Session(c).q = request[c] /\ Session(c).pc = 1 /\ Session(c).reads = NoRows
        /\ Session(c).writes = NoRows
    BY <1>1, SessionHere
  <2>2. BeganSession(db, Session(c))
    BY <2>1 DEF BeganSession
  <2>3. AuditInv(c)
    BY <1>1 DEF AuditInv
  <2>4. <<"none">> # <<>>
    OBVIOUS
  <2>5. CASE c \in callers
    <3>1. f[c] \in DOMAIN calls /\ request[c] = calls[f[c]] /\ reply[c] = <<>>
      BY Zenon, <1>2, <2>5
    <3>2. StartCall(db, request[c])
      BY <1>1, <3>1, AreasAssumption
    <3>3. SessionInv(db, serial, kek, CalledConcluded, c, Session(c))
      BY <2>1, <3>2, StartSession
    <3> QED BY <2>2, <2>3, <3>1, <3>3 DEF InFlight
  <2>6. CASE c \notin callers
    <3>1. request[c].op = "none" /\ reply[c] = <<"none">>
      BY Zenon, <1>2, <2>6 DEF Call
    <3>2. Answer(db, CalledConcluded, failures, request[c], began[c], reply[c])
      BY <3>1 DEF Answer, Routes, OperatorPlane
    <3> QED BY <2>2, <2>3, <2>4, <3>1, <3>2 DEF InFlight
  <2> QED BY <2>5, <2>6
<1> QED BY <1>4, <1>5, <1>6 DEF IInv
-----------------------------------------------------------------------------
(* What the invariant says of the rows and of the answers.                  *)

\* Every request is one the service knows, and one that ran no statement began nowhere.
Known ==
    \A c \in Callers :
       /\ request[c].op \in Routes \cup OperatorPlane \cup Unrouted
       /\ pc[c] = 1 => began[c] = NoRows

LEMMA InitKnown ==
  ASSUME Init
  PROVE  Known
<1> SUFFICES ASSUME NEW c \in Callers
             PROVE  /\ request[c].op \in Routes \cup OperatorPlane \cup Unrouted
                    /\ began[c] = NoRows
  BY DEF Known
<1> DEFINE calls == Areas[area].calls
           callers == 1..Areas[area].callers
<1>1. area \in DOMAIN Areas /\ began = [d \in Callers |-> NoRows]
  BY Zenon DEF Init
<1>2. PICK f \in [callers -> DOMAIN calls] :
         request = [d \in Callers |->
                      IF d \in callers THEN calls[f[d]] ELSE Call("none", 0, "", "")]
  BY Zenon DEF Init
<1>3. CASE c \in callers
  <2>1. f[c] \in DOMAIN calls /\ request[c] = calls[f[c]]
    BY Zenon, <1>2, <1>3
  <2>2. StartCall(Areas[area].rows, request[c])
    BY <1>1, <2>1, AreasAssumption
  <2> QED BY <1>1, <2>2 DEF StartCall
<1>4. CASE c \notin callers
  <2>1. request[c].op = "none"
    BY Zenon, <1>2, <1>4 DEF Call
  <2> QED BY <1>1, <2>1 DEF Unrouted
<1> QED BY <1>3, <1>4

LEMMA KnownKeeps ==
  ASSUME IInv, Known, [Next]_vars
  PROVE  Known'
<1>1. pc \in [Callers -> Nat \ {0}] /\ DOMAIN began = Callers
  BY DEF IInv, TypedState
<1>2. /\ request' = request
      /\ \/ pc' = pc /\ began' = began
         \/ \E c \in Callers : Advance(c)
  <2>1. CASE UNCHANGED vars
    BY <2>1 DEF vars
  <2>2. CASE Next
    <3>1. PICK c \in Callers : Run(c) \/ DatabaseFails(c)
      BY <2>2 DEF Next
    <3>2. \/ Advance(c)
          \/ \E answer : End(c, answer)
      BY <3>1 DEF Run, DatabaseFails, SelectRows, WriteRow, AppendRow, Put, Return,
                  UniqueViolation
    <3> QED BY <3>2 DEF Advance, End
  <2> QED BY <2>1, <2>2
<1>3. CASE pc' = pc /\ began' = began
  BY <1>2, <1>3 DEF Known
<1>4. CASE \E c \in Callers : Advance(c)
  <2>1. PICK c \in Callers : Advance(c)
    BY <1>4
  <2>2. /\ pc' = [pc EXCEPT ![c] = pc[c] + 1]
        /\ began' = [began EXCEPT ![c] = IF pc[c] = 1 THEN db ELSE began[c]]
    BY <2>1 DEF Advance
  <2>3. pc'[c] # 1
    BY <1>1, <2>2
  <2>4. \A d \in Callers \ {c} : pc'[d] = pc[d] /\ began'[d] = began[d]
    BY <1>1, <2>2
  <2> QED BY <1>2, <2>3, <2>4 DEF Known
<1> QED BY <1>2, <1>3, <1>4

LEMMA Present ==
  ASSUME IInv, NEW row
  PROVE  (At(db, row) = None <=> row \notin DOMAIN db)
         /\ (row \in DOMAIN db => At(db, row) = db[row])
<1>1. "absent" \in DOMAIN None
  BY DEF None
<1>2. row \in DOMAIN db => "absent" \notin DOMAIN db[row]
  BY DEF IInv, RowsInv, TypedRows
<1> QED BY <1>1, <1>2 DEF At

LEMMA KeysAreSafe ==
  ASSUME IInv
  PROVE  KeysSafe
<1>1. ASSUME NEW row \in DOMAIN db, row[1] = "repo_context", db[row].key # 0
      PROVE  /\ At(db, Key(row[2])) # None
             /\ db[Key(row[2])].wrapped \in {db[row].key, 0}
  <2>1. KeysFit(db)
    BY DEF IInv, RowsInv
  <2>2. Key(row[2]) \in DOMAIN db /\ db[Key(row[2])].wrapped \in {db[row].key, 0}
    BY <1>1, <2>1 DEF KeysFit
  <2> QED BY <2>2, Present
<1>2. ASSUME NEW c \in Callers, Asks(c, "getSeamMap"), reply[c] # <<>>
      PROVE  /\ reply[c][1] = "200" /\ Gives(c).key # 0 =>
                   ~Column(began[c], Key(Tenant(c)), "shredded", FALSE)
             /\ reply[c][1] = "500" => failures # 0
  <2>1. Answer(db, CalledConcluded, failures, request[c], began[c], reply[c])
    BY <1>2 DEF IInv, InFlight
  <2> QED BY <1>2, <2>1 DEF Answer, Asks, Gives, Tenant
<1> QED BY <1>1, <1>2 DEF KeysSafe, Answered

\* Two newest rows are one, for an id is drawn once.
LEMMA NewestIs ==
  ASSUME IInv, NEW t, NEW name, NEW row \in Records(db, t, name),
         \A other \in Records(db, t, name) : other[3] <= row[3]
  PROVE  Newest(Records(db, t, name)) = row
<1> DEFINE rows == Records(db, t, name)
<1>1. \A x \in rows : x[1] = "audit_log" /\ x[2] = t /\ x \in DOMAIN db
  BY DEF Records, RowsOf
<1>2. \A x \in rows : x = <<"audit_log", t, x[3]>> /\ x[3] \in Int
  BY <1>1 DEF IInv, RowsInv, TypedRows, Sequenced
<1> HIDE DEF rows
<1>3. \A other \in rows : other[3] <= row[3]
  BY DEF rows
<1>4. row \in rows
  BY DEF rows
<1>5. Newest(rows) \in rows /\ \A other \in rows : other[3] <= Newest(rows)[3]
  BY <1>3, <1>4 DEF Newest
<1>6. Newest(rows)[3] = row[3]
  BY <1>2, <1>3, <1>4, <1>5
<1>7. Newest(rows) = <<"audit_log", t, Newest(rows)[3]>> /\ row = <<"audit_log", t, row[3]>>
  BY <1>2, <1>4, <1>5
<1> QED BY <1>6, <1>7 DEF rows

LEMMA AuditIsTrue ==
  ASSUME IInv
  PROVE  AuditTellsTruth
<1>1. ASSUME NEW c \in Callers, audit[c] # 0, ~InFlight(c)
      PROVE  (\E row \in DOMAIN db : row[1] = "audit_log" /\ row[3] = audit[c])
                <=> ~Answered(c, "500")
  <2>1. AuditInv(c)
    BY DEF IInv
  <2> QED BY <1>1, <2>1 DEF AuditInv
<1>2. ASSUME NEW t \in Tenants, NEW name \in DOMAIN Operation, Records(db, t, name) # {}
      PROVE  db[Newest(Records(db, t, name))].after = Setting(db, t)[name]
  <2>1. PICK tenant \in DOMAIN db : tenant[1] = "tenants" /\ tenant[2] = t
    BY DEF Tenants
  <2>2. NewestSays(db, t, name)
    BY <1>2, <2>1 DEF IInv, RowsInv, SettingsRecorded
  <2>3. PICK row \in Records(db, t, name) :
           /\ \A other \in Records(db, t, name) : other[3] <= row[3]
           /\ db[row].after = Setting(db, t)[name]
    BY <2>2 DEF NewestSays
  <2>4. Newest(Records(db, t, name)) = row
    BY <2>3, NewestIs
  <2> QED BY <2>3, <2>4
<1> QED BY <1>1, <1>2 DEF AuditTellsTruth

\* A token that did not let its request in is one the plane refuses.
LEMMA AdmittedHolds ==
  ASSUME IInv, Known, NEW c \in Callers, request[c].op \notin Unrouted, ~InFlight(c),
         ~Answered(c, "500"), NEW row,
         row = IF request[c].op \in OperatorPlane THEN OperatorToken(request[c].token)
                                                  ELSE Token(request[c].token),
         \/ At(db, row) = None
         \/ request[c].op \notin OperatorPlane /\ db[row].scope # "api:full"
         \/ Column(began[c], row, "revoked", FALSE)
  PROVE  reply[c][1] \in {"401", "403"}
<1> DEFINE q == request[c]
           b == began[c]
<1>1. Answer(db, CalledConcluded, failures, q, b, reply[c]) /\ BeganSession(db, Session(c))
  BY DEF IInv
<1>2. reply[c][1] # "500"
  BY DEF Answered, InFlight
<1>3. q.op \in Routes \cup OperatorPlane /\ (pc[c] = 1 => b = NoRows)
  BY DEF Known
<1>4. pc[c] \in Nat \ {0}
  BY DEF IInv, TypedState
<1>5. row \in DOMAIN b =>
         /\ row \in DOMAIN db
         /\ row[1] = "tenant_tokens" => db[row].scope = b[row].scope
  <2>1. CASE pc[c] = 1
    BY <1>3, <2>1 DEF NoRows
  <2>2. CASE pc[c] > 1
    BY <1>1, <2>2, SessionHere DEF BeganSession
  <2> QED BY <1>4, <2>1, <2>2
<1>6. row \in DOMAIN b => At(b, row) = b[row]
  BY DEF At
<1>7. row \notin DOMAIN b => At(b, row) = None
  BY DEF At
<1>8. CASE q.op \in OperatorPlane
  <2>1. row = OperatorToken(q.token)
    BY <1>8
  <2>2. ~Live(b, row)
    <3>1. CASE row \notin DOMAIN b
      BY <1>7, <3>1 DEF Live
    <3>2. CASE row \in DOMAIN b
      <4>1. At(db, row) # None
        BY <1>5, <3>2, Present
      <4>2. Column(b, row, "revoked", FALSE)
        BY <1>8, <4>1
      <4> QED BY <1>6, <3>2, <4>2 DEF Live, Column
    <3> QED BY <3>1, <3>2
  <2> QED BY <1>1, <1>2, <1>8, <2>1, <2>2 DEF Answer
<1>9. CASE q.op \notin OperatorPlane
  <2>1. row = Token(q.token) /\ row[1] = "tenant_tokens"
    BY <1>9 DEF Token
  <2>2. ~(Live(b, row) /\ At(b, row).scope = "api:full")
    BY <1>5, <1>6, <1>7, <1>9, <2>1, Present DEF Live, Column
  <2>3. ~Passed(q, b)
    BY <2>1, <2>2 DEF Passed
  <2> QED BY <1>1, <1>2, <1>3, <1>9, <2>3 DEF Answer
<1> QED BY <1>8, <1>9

LEMMA ServedAreRight ==
  ASSUME IInv, Known
  PROVE  ServedRightly
<1> SUFFICES ASSUME NEW c \in Callers
             PROVE
       LET q == request[c]
           data == {row \in DOMAIN reads[c] :
                      row[1] \notin {"operator_tokens", "tenant_tokens", "tenants"}} IN
       /\ q.op \notin Unrouted /\ ~InFlight(c) /\ ~Answered(c, "500") =>
             LET row == IF q.op \in OperatorPlane THEN OperatorToken(q.token)
                                                  ELSE Token(q.token)
                 allowed == /\ At(db, row) # None
                            /\ q.op \notin OperatorPlane => db[row].scope = "api:full" IN
             ~allowed \/ Column(began[c], row, "revoked", FALSE) => reply[c][1] \in {"401", "403"}
       /\ q.op \in OperatorPlane /\ data # {} =>
             \E row \in DOMAIN db : row[1] = "operator_audit" /\ row[2] = q.token
       /\ Asks(c, "benchmarkResult") /\ Answered(c, "200") =>
             \A t \in Gives(c).cohort :
                \E row \in Records(db, t, "optin") : db[row].after = "yes"
  BY DEF ServedRightly
<1> DEFINE q == request[c]
           data == {row \in DOMAIN reads[c] :
                      row[1] \notin {"operator_tokens", "tenant_tokens", "tenants"}}
           token == IF q.op \in OperatorPlane THEN OperatorToken(q.token) ELSE Token(q.token)
<1>1. ASSUME q.op \notin Unrouted, ~InFlight(c), ~Answered(c, "500"),
             \/ ~(/\ At(db, token) # None
                  /\ q.op \notin OperatorPlane => db[token].scope = "api:full")
             \/ Column(began[c], token, "revoked", FALSE)
      PROVE  reply[c][1] \in {"401", "403"}
  BY <1>1, AdmittedHolds
<1>2. ASSUME q.op \in OperatorPlane, data # {}
      PROVE  \E row \in DOMAIN db : row[1] = "operator_audit" /\ row[2] = q.token
  <2>1. InFlight(c)
    BY <1>2 DEF IInv, TypedState, NoRows
  <2>2. OperatorSession(db, Session(c))
    <3>1. SessionInv(db, serial, kek, CalledConcluded, c, Session(c))
      BY <2>1 DEF IInv
    <3> QED BY <1>2, <3>1, SessionHere DEF SessionInv, ServedSession
  <2>3. ~Operators(DOMAIN reads[c])
    BY <1>2 DEF Operators
  <2> QED BY <2>2, <2>3, SessionHere DEF OperatorSession, OperatorAudited
<1>3. ASSUME Asks(c, "benchmarkResult"), Answered(c, "200"), NEW t \in Gives(c).cohort
      PROVE  \E row \in Records(db, t, "optin") : db[row].after = "yes"
  <2>1. Answer(db, CalledConcluded, failures, q, began[c], reply[c])
    BY <1>3 DEF IInv, InFlight, Answered
  <2> QED BY <1>3, <2>1 DEF Answer, Asks, Answered, Gives, Consented
<1> QED BY <1>1, <1>2, <1>3

LEMMA NothingIsTorn ==
  ASSUME IInv
  PROVE  NothingLostOrTorn
<1>1. WorkFits(db, CalledConcluded)
  BY DEF IInv, RowsInv
<1>2. ASSUME NEW c \in Callers, Answered(c, "200")
      PROVE  Answer(db, CalledConcluded, failures, request[c], began[c], reply[c])
             /\ reply[c][1] = "200"
  BY <1>2 DEF IInv, InFlight, Answered
<1>3. ASSUME NEW c \in Callers, Asks(c, "recordMilestone"), Answered(c, "200")
      PROVE  Column(db, Timeline(Tenant(c)), request[c].id, Null) # Null
  <2>1. /\ Timeline(Tenant(c)) \in DOMAIN db
        /\ db[Timeline(Tenant(c))][request[c].id] # Null
    BY <1>2, <1>3 DEF Answer, Asks, Tenant
  <2> QED BY <2>1, Present DEF Column
<1>4. ASSUME NEW row \in DOMAIN db, row[1] = "experiments", db[row].status = "concluded"
      PROVE  At(db, Verdict(row[2], row[3])) # None \/ row \in CalledConcluded
  <2>1. Verdict(row[2], row[3]) \in DOMAIN db \/ row \in CalledConcluded
    BY <1>1, <1>4 DEF WorkFits
  <2> QED BY <2>1, Present
<1>5. ASSUME NEW c \in Callers, Asks(c, "getExperiment"), Answered(c, "200"),
             Gives(c).status = "concluded"
      PROVE  \/ Gives(c).verdict # Null
             \/ <<"experiments", Tenant(c), request[c].id>> \in CalledConcluded
  BY <1>2, <1>5 DEF Answer, Asks, Tenant, Gives
<1>6. \A row \in DOMAIN db :
         row[1] = "eval_datasets" => db[row].version <= 1 + CasesOf(db, row[2], row[3])
  BY <1>1 DEF WorkFits
<1> QED BY <1>3, <1>4, <1>5, <1>6 DEF NothingLostOrTorn

-----------------------------------------------------------------------------
\* The inductive invariant: what the rows, each request in flight and each answer
\* satisfy beside each other (RegistryStore's transactions at READ COMMITTED).
THEOREM StoreInvariant == Spec => [](IInv /\ Known)
<1>1. Init => IInv /\ Known
  BY InitHolds, InitKnown
<1>2. IInv /\ Known /\ [Next]_vars => (IInv /\ Known)'
  BY NextKeeps, KnownKeeps
<1> QED BY <1>1, <1>2, PTL DEF Spec

\* tenantDek, putSeamMap, getSeamMap, cryptoShredTenant (store.ts): every encrypted map
\* is sealed under its tenant's one key or that key is shredded; nothing is served
\* after a shred; and no request meets a map it cannot open, whatever is concurrent.
THEOREM StoreKeepsKeysSafe == Spec => []KeysSafe
<1>1. IInv /\ Known => KeysSafe
  BY KeysAreSafe
<1> QED BY <1>1, StoreInvariant, PTL

\* audit() within the transaction of each change (store.ts): a change is recorded if
\* and only if it is answered, and the newest record of a setting says what it is.
THEOREM StoreAuditsTruthfully == Spec => []AuditTellsTruth
<1>1. IInv /\ Known => AuditTellsTruth
  BY AuditIsTrue
<1> QED BY <1>1, StoreInvariant, PTL

\* The two hooks of app.ts and operator.ts: a token that is missing, revoked or out of
\* scope gets 401 or 403; no operator reads a tenant's data before operator_audit has
\* it; and a benchmark counts only tenants whose consent is on record.
THEOREM StoreServesRightly == Spec => []ServedRightly
<1>1. IInv /\ Known => ServedRightly
  BY ServedAreRight
<1> QED BY <1>1, StoreInvariant, PTL

\* recordMilestone, writeVerdict, getExperiment (store.ts), addCase (evals-store.ts):
\* no milestone is lost, a verdict comes with its conclusion, and a version counts
\* no case that is not there.
THEOREM StoreLosesNothing == Spec => []NothingLostOrTorn
<1>1. IInv /\ Known => NothingLostOrTorn
  BY NothingIsTorn
<1> QED BY <1>1, StoreInvariant, PTL
=============================================================================
