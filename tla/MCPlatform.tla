----------------------------- MODULE MCPlatform ------------------------------
(***************************************************************************)
(* Small instances of the parts that keep state of their own and share     *)
(* none, and of the computations over rows and series: each behaviour picks *)
(* a part and runs it, the others at rest.                                 *)
(***************************************************************************)
EXTENDS Databases, Agents, Collection, Figures, Integers, Sequences, FiniteSets

\* Two tenants and one end user.
MCTenantOf == [e \in Events |-> IF e = "e3" THEN "t2" ELSE "t1"]
MCSessionOf == [e \in Events |-> "u1"]

\* A function with room below its first line, and a generic one; a function that returns on
\* its first line; and, where `analytics` is imported, a function above one of a single line.
MCRepo ==
    [agent |-> <<{"import"}, {"function", "params"}, {"llm"}, {"return", "leaves"}, {"outside"},
                 {"function"}>>,
     quick |-> <<{"function", "params"}, {"llm", "leaves"}, {"outside"}>>,
     server |-> <<{"import", "analytics"}, {"route"}, {"await_local"},
                  {"await_local", "handoff_name"}, {"function", "params"},
                  {"llm", "outside"}, {"function", "params", "outside"}>>]
MCProposals == {[file |-> "server", after |-> 3], [file |-> "missing", after |-> 0]}

\* Requests: events with their properties and texts, spans with their attributes.
Text(m) == [matches |-> m, digits |-> <<>>, shows |-> "text"]
Card == <<4, 1, 1, 1, 1, 1, 1, 1, 1, 1, 1, 1, 1, 1, 1, 1>>
NotCard == <<4, 1, 1, 1, 1, 1, 1, 1, 1, 1, 1, 1, 1, 1, 1, 2>>
MCCardNumbers == {Card}
CardToken(d) == [matches |-> {"credit_card"}, digits |-> d, shows |-> "text"]
Envelope ==
    {"event_id", "schema_version", "timestamp", "task_id", "run_id", "task_type", "agent"}
Sent(e, id, valid, invalid, texts, under) ==
    [event |-> e, id |-> <<id>>, valid |-> Envelope \cup {"event"} \cup valid,
     invalid |-> invalid, texts |-> texts, under |-> under]
Failed ==
    Sent("task_failed", "e1", {"error", "retryable", "duration_ms"}, {},
         [message |-> <<Text({"email"}), Text({"email", "anthropic_key"}), Text({})>>],
         [message |-> "error"])
StepProperties == {"step_id", "step_index", "step_type", "latency_ms", "status", "tool_name"}
BadTokens ==
    Sent("step_executed", "e2", StepProperties \cup {"cost_usd"}, {"tokens_in"},
         [tool_name |-> <<Text({"email"})>>], [tool_name |-> "tool_name"])
Step ==
    Sent("step_executed", "e3", StepProperties \cup {"tenant_id"}, {},
         [tool_name |-> <<Text({"ipv4"})>>], [tool_name |-> "tool_name"])
Product ==
    Sent("lead_scored", "e4", {"tenant_id"}, {"duration_ms"},
         [notes |-> <<CardToken(Card), CardToken(NotCard), Text({"phone"})>>],
         [notes |-> "tenant_id"])
BadName == [Sent("Lead Scored", "e5", {}, {"event"}, <<>>, <<>>) EXCEPT !.valid = Envelope]
MCBodies == {<<Failed, BadTokens>>, <<Step, Product>>, <<BadName, Failed>>, <<>>}
Span(id, root, attrs) ==
    [trace |-> "tr", id |-> id, root |-> root, name |-> "task", attrs |-> attrs,
     texts |-> [x \in {"gen_ai.note"} |-> <<Text({"ssn"})>>]]
MCTraces ==
    {[resource |-> [service_name |-> "app"],
      spans |-> <<Span("s1", TRUE, [outcome |-> "completed"]),
                  Span("s2", FALSE, [model |-> "m", tokens_in |-> 3]),
                  Span("s3", FALSE, [operation |-> "execute_tool", run_id |-> ""])>>],
     [resource |-> <<>>,
      spans |-> <<[Span("s6", TRUE, [outcome |-> "failed", task_type |-> "refund"])
                      EXCEPT !.name = ""],
                  Span("s4", FALSE, [outcome |-> "failed"])>>],
     [resource |-> [service_name |-> ""],
      spans |-> <<Span("s7", TRUE, [outcome |-> "unknown", task_type |-> ""]),
                  Span("s5", FALSE, [tool_name |-> "t", operation |-> "chat"])>>]}
MCIngestSettings ==
    {[tenant |-> "t1", retention_days |-> 1, redact |-> TRUE, residency |-> "us"],
     [tenant |-> "t2", retention_days |-> 3650, redact |-> FALSE, residency |-> "eu"]}

\* A task with a failed call, a retry, two runs that complete it and an override; another
\* of a second type, and one of a second tenant.
Row ==
    [tenant |-> "t1", ts |-> 1, task |-> "k1", run |-> "r1", type |-> "refund", tool |-> "",
     status |-> "", retry |-> "", session |-> "", verification |-> "", rating |-> 1,
     cost |-> 0, tokens |-> 0, magnitude |-> 0, initiator |-> "user"]
Fill(r) == [f \in DOMAIN r \cup DOMAIN Row |-> IF f \in DOMAIN r THEN r[f] ELSE Row[f]]
MCRows ==
    {Fill(r) : r \in {
        [id |-> 1, event |-> "task_started", initiator |-> "schedule"],
        [id |-> 2, event |-> "step_executed", ts |-> 2, tool |-> "search", status |-> "error",
         tokens |-> 5, cost |-> 2],
        [id |-> 3, event |-> "step_executed", ts |-> 9, tool |-> "search", status |-> "ok",
         retry |-> "s2", cost |-> 3],
        [id |-> 4, event |-> "task_completed", ts |-> 10, verification |-> "self_reported",
         session |-> "u1"],
        [id |-> 5, event |-> "human_overrode", ts |-> 11, session |-> "u1"],
        [id |-> 6, event |-> "task_completed", ts |-> 19, run |-> "r2", cost |-> 1],
        [id |-> 7, event |-> "task_failed", ts |-> 25, task |-> "k2", type |-> "report"],
        [id |-> 8, event |-> "task_completed", ts |-> 10, tenant |-> "t2"],
        [id |-> 9, event |-> "human_edited", ts |-> 20, task |-> "k2", type |-> "report",
         magnitude |-> 4],
        [id |-> 10, event |-> "step_executed", ts |-> 20, task |-> "k2", type |-> "report",
         status |-> "timeout"]}}
MCLimits ==
    <<[events_ingested |-> 3, tasks_tracked |-> 1, agent_runs |-> 1],
      [events_ingested |-> 6, tasks_tracked |-> 2, agent_runs |-> 2]>>

MCRadius == [n \in {0, 1, 11, 12} |->
    IF n = 0 THEN 1000000 ELSE IF n = 1 THEN 2009 ELSE IF n = 11 THEN 494 ELSE 474]

MCReadings == {-2, 2, NoData}
Job(id, kind, window) == [id |-> id, kind |-> kind, window |-> window]
Metric(id, kind, metric) == [id |-> id, kind |-> kind, window |-> "w2", metric |-> metric]
MCJobs ==
    {Job(1, "sweep", "w1"),
     [id |-> 2, kind |-> "question", window |-> "w1", route |-> "cost"],
     [id |-> 3, kind |-> "question", window |-> "w1", route |-> "none"],
     Job(4, "digest", "w2"),
     Metric(5, "mcp", "override_rate"),
     [id |-> 6, kind |-> "alert", window |-> "w1", metric |-> "task_success_rate",
      above |-> NoData, below |-> 0],
     Job(7, "start", "w1"),
     [id |-> 8, kind |-> "monitor", window |-> "w1", direction |-> "increase",
      guardrails |-> {"task_success_rate", "override_rate"},
      cites |-> [target |-> "q1", task_success_rate |-> "q2"]],
     [id |-> 9, kind |-> "monitor", window |-> "w1", direction |-> "decrease",
      guardrails |-> {"latency_p95"}, cites |-> [target |-> "q3", latency_p95 |-> "q4"]],
     Metric(10, "get_run", "run")}
MCTogether == {{1, 6}, {2, 3}, {4}, {5, 10}, {7, 8, 9}}

MCCalls == {[id |-> "c1", via |-> "client"], [id |-> "c2", via |-> "k2"]}
-----------------------------------------------------------------------------
\* A part that is at rest is in one initial state.
Init ==
    /\ part \in {"migrations", "ch_migrate", "data_plane", "instrumentation", "ingest", "analytics", "statistics", "agents", "wrappers"}
    /\ Mig!Init
    /\ Chm!Init
    /\ Dp!Init
    /\ Ins!Init
    /\ Ing!Init
    /\ An!Init
    /\ St!Init
    /\ Ag!Init
    /\ Wr!Init
    /\ part # "migrations" => mig_applied = {}
    /\ part # "data_plane" => ~dp_euCluster
    /\ part # "wrappers" => ~wr_disabled /\ ~wr_warnThrows

MigNext ==
    /\ part = "migrations" /\ Mig!Next
    /\ UNCHANGED <<part, chm_vars, dp_vars, ins_vars, ing_vars, an_vars, st_vars, ag_vars,
                   wr_vars>>
ChmNext ==
    /\ part = "ch_migrate" /\ Chm!Next
    /\ UNCHANGED <<part, mig_vars, dp_vars, ins_vars, ing_vars, an_vars, st_vars, ag_vars,
                   wr_vars>>
\* Bound: where there is no EU cluster, no event is inserted twice; else one is.
DpNext ==
    /\ part = "data_plane" /\ Dp!Next
    /\ \A e, d \in Events : dp_deliveries'[e] = MaxDeliveries /\ dp_deliveries'[d] = MaxDeliveries
                             => dp_euCluster /\ e = d
    /\ UNCHANGED <<part, mig_vars, chm_vars, ins_vars, ing_vars, an_vars, st_vars, ag_vars,
                   wr_vars>>
InsNext ==
    /\ part = "instrumentation" /\ Ins!Next
    /\ UNCHANGED <<part, mig_vars, chm_vars, dp_vars, ing_vars, an_vars, st_vars, ag_vars,
                   wr_vars>>
IngNext ==
    /\ part = "ingest" /\ Ing!Next
    /\ UNCHANGED <<part, mig_vars, chm_vars, dp_vars, ins_vars, an_vars, st_vars, ag_vars,
                   wr_vars>>
\* Bound: a row is inserted again only while the table has at most three.
AnNext ==
    /\ part = "analytics" /\ An!Next
    /\ Cardinality(an_table') <= 3 \/ \A r \in Rows : an_rolled'[r] <= 1
    /\ UNCHANGED <<part, mig_vars, chm_vars, dp_vars, ins_vars, ing_vars, st_vars, ag_vars,
                   wr_vars>>
StNext ==
    /\ part = "statistics" /\ St!Next
    /\ UNCHANGED <<part, mig_vars, chm_vars, dp_vars, ins_vars, ing_vars, an_vars, ag_vars,
                   wr_vars>>
AgNext ==
    /\ part = "agents" /\ Ag!Next
    /\ UNCHANGED <<part, mig_vars, chm_vars, dp_vars, ins_vars, ing_vars, an_vars, st_vars,
                   wr_vars>>
WrNext ==
    /\ part = "wrappers" /\ Wr!Next
    /\ UNCHANGED <<part, mig_vars, chm_vars, dp_vars, ins_vars, ing_vars, an_vars, st_vars,
                   ag_vars>>

Next ==
    \/ MigNext \/ ChmNext \/ DpNext \/ InsNext
    \/ IngNext \/ AnNext \/ StNext \/ AgNext \/ WrNext
Spec == Init /\ [][Next]_<<part, mig_vars, chm_vars, dp_vars, ins_vars, ing_vars, an_vars,
                           st_vars, ag_vars, wr_vars>>
=============================================================================
