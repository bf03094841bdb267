------------------------------ MODULE AgentLoop ------------------------------
(***************************************************************************)
(* The agents that read metrics and speak: the executor that records a      *)
(* citation for every query (pipeline/src/metric-executor.ts), the sweep,   *)
(* the question answerer, the weekly digest with its delivery, the alert    *)
(* (analysis-agent/src), the MCP server's query_metric and get_run,          *)
(* and the experiment agent's start and monitoring pass                     *)
(* (experiment-agent/src/agent.ts).                                         *)
(*                                                                         *)
(* Every await is a step, and every call may fail or lose its answer after  *)
(* it took effect.  A query id is the content hash of metric and window.    *)
(* A metric's value is a small integer; an experiment's observations are    *)
(* the side of zero its confidence sequence lies on.                        *)
(***************************************************************************)
EXTENDS Integers, Sequences, FiniteSets, Functions

CONSTANTS
    Jobs,         \* calls that may be made: records [id, kind, window, ...]
    Readings,     \* values a metric may have
    NoData,       \* the one of them that is a window without rows
    Levels,       \* autonomy levels the tenant may have
    Together      \* bound: sets of ids of the calls that are made together

VARIABLES
    run,          \* per job: where it is, what it has read, what it holds
    executed,     \* toqar.executed_queries: ids
    findings,     \* published findings
    answers,      \* what callers were told: answers and sweep records
    posted,       \* jobs whose message a webhook accepted
    deliveries,   \* finding_deliveries and alert_events
    level,        \* the tenant's autonomy level
    experiment    \* the experiment's row; the verdicts ever written to it, and whether one
                  \* was while another pass was between its verdict and its status

\* What the routes let through: a question of a known route; and the calls of one
\* experiment, which is started once.  Whoever runs a monitoring pass supplies the ids of
\* its queries: the target's, and those of some guardrails.
KnownJobs ==
    /\ Levels \subseteq Int
    /\ \A j \in Jobs :
          /\ j.kind = "question" => j.route \in {"cost", "success", "autonomy", "none"}
          /\ j.kind = "monitor" => "target" \in DOMAIN j.cites
    /\ \A j, k \in Jobs : j.kind = "start" /\ k.kind = "start" => j = k

vars == <<run, executed, findings, answers, posted, deliveries, level, experiment>>
outputs == <<findings, answers, posted, deliveries>>

Read(j) == run[j].read
At(j, pc) == run[j].pc = pc
Goto(j, pc) == run' = [run EXCEPT ![j].pc = pc]
QueryId(j, metric) == <<metric, j.window>>
Started == {j \in Jobs : ~At(j, "idle")}
-----------------------------------------------------------------------------
(* What a job asks for, given what it has read, and what it makes of it.    *)

SWEEP_METRICS == <<"task_success_rate", "regression_delta", "per_tool_failure_rate">>
ROUTES == [cost |-> <<"cost_per_completed_task", "per_tool_failure_rate", "tokens_per_task">>,
           success |-> <<"task_success_rate">>, autonomy |-> <<"autonomy_rate">>, none |-> <<>>]
DIGEST_METRICS ==
    <<"task_success_rate", "cost_per_completed_task", "autonomy_rate", "override_rate",
      "weekly_task_actors">>
Number(v) == IF v = NoData THEN 0 ELSE v
Abs(n) == IF n < 0 THEN -n ELSE n

\* The sweep stops at an empty window, and at a delta below the threshold.
Moved(read) == Len(read) >= 2 /\ Abs(Number(read[2])) >= 1
SweepStops(read) ==
    \/ Len(read) = 1 /\ read[1] = NoData
    \/ Len(read) = 2 /\ ~Moved(read)
Plan(j) ==
    CASE j.kind = "sweep" -> IF SweepStops(Read(j)) THEN <<>> ELSE SWEEP_METRICS
      [] j.kind = "question" -> ROUTES[j.route]
      [] j.kind = "digest" -> DIGEST_METRICS
      [] OTHER -> <<j.metric>>
Asks(j) == Len(Read(j)) < Len(Plan(j))

\* Metrics grouped by tool or week have no row in an empty window, and are left out; the
\* others have one row, whose null is formatted as zero.
Grouped == {"per_tool_failure_rate", "weekly_task_actors"}
Entries(j, plan) ==
    {[metric |-> plan[i], value |-> Number(Read(j)[i]), query |-> QueryId(j, plan[i])] :
        i \in {k \in DOMAIN Read(j) : plan[k] \in Grouped => Read(j)[k] # NoData}}
Cites(entries) == {e.query : e \in entries}
SweepFinding(j) ==
    [by |-> j, metrics |-> Entries(j, SWEEP_METRICS),
     evidence |-> {QueryId(j, SWEEP_METRICS[i]) : i \in DOMAIN SWEEP_METRICS},
     says |-> IF Number(Read(j)[2]) < 0 THEN "critical" ELSE "positive"]
Answer(j) ==
    [by |-> j, metrics |-> Entries(j, ROUTES[j.route]),
     evidence |-> Cites(Entries(j, ROUTES[j.route])), says |-> j.route]
SweepRecord(j) ==
    [by |-> j, metrics |-> {},
     evidence |-> {QueryId(j, SWEEP_METRICS[i]) : i \in DOMAIN Read(j)},
     says |-> IF Moved(Read(j)) THEN "published"
              ELSE IF Read(j)[1] = NoData THEN "no_new_data" ELSE "no_findings"]

\* A threshold alert; an absent limit is NoData.
Fires(j) ==
    LET v == Read(j)[1]
    IN  /\ v # NoData
        /\ \/ j.above # NoData /\ v > j.above
           \/ j.below # NoData /\ v < j.below
-----------------------------------------------------------------------------
Experiment0 ==
    [status |-> "none", pr |-> FALSE, verdict |-> <<>>, written |-> {}, overlapped |-> FALSE]
Init ==
    /\ run = [j \in Jobs |-> [pc |-> "idle", read |-> <<>>, holds |-> <<>>]]
    /\ executed = {} /\ findings = {} /\ answers = {} /\ posted = {} /\ deliveries = {}
    /\ level = 0
    /\ experiment = Experiment0

First == [start |-> "level", monitor |-> "observe"]
\* A pass is given the id of an experiment that once ran; it does not ask whether it still
\* does, so it may come after a verdict, or beside another pass.
StartJob(j) ==
    /\ At(j, "idle") /\ \E ids \in Together : {i.id : i \in Started \cup {j}} \subseteq ids
    /\ j.kind = "monitor" => experiment.pr
    /\ Goto(j, IF j.kind \in {"start", "monitor"} THEN First[j.kind] ELSE "work")
    /\ UNCHANGED <<executed, outputs, level, experiment>>

SetAutonomy ==
    /\ level' \in Levels \ {level}
    /\ UNCHANGED <<run, executed, outputs, experiment>>

\* A call of a job fails, whatever it did: the job throws.
CallFails(j) ==
    /\ run[j].pc \notin {"idle", "work", "observe", "post", "record", "alert", "done", "failed"}
    /\ Goto(j, "failed")
    /\ UNCHANGED <<executed, outputs, level, experiment>>

\* execute(): the query, then its citation; the rows are returned after both.
Query(j) ==
    /\ At(j, "work") /\ Asks(j)
    /\ \E v \in Readings : run' = [run EXCEPT ![j].pc = "cite", ![j].holds = <<v>>]
    /\ UNCHANGED <<executed, outputs, level, experiment>>
\* Mutant: the rows are returned before the citation is recorded, which may fail unseen.
Cite_Forgets(j) ==
    /\ At(j, "cite")
    /\ executed' \in {executed, executed \cup {QueryId(j, Plan(j)[Len(Read(j)) + 1])}}
    /\ run' = [run EXCEPT ![j].pc = "work", ![j].read = Read(j) \o run[j].holds]
    /\ UNCHANGED <<outputs, level, experiment>>
Cite(j) ==
    /\ At(j, "cite")
    /\ executed' = executed \cup {QueryId(j, Plan(j)[Len(Read(j)) + 1])}
    /\ run' \in {[run EXCEPT ![j].pc = "work", ![j].read = Read(j) \o run[j].holds],
                 [run EXCEPT ![j].pc = "failed"]}
    /\ UNCHANGED <<outputs, level, experiment>>
QueryFails(j) ==
    /\ At(j, "work") /\ Asks(j) /\ Goto(j, "failed")
    /\ UNCHANGED <<executed, outputs, level, experiment>>

\* The caller's answer, and the sweep's record when it has nothing to publish.
Reply(j) ==
    /\ At(j, "work") /\ ~Asks(j) /\ j.kind = "question"
    /\ answers' = answers \cup {Answer(j)}
    /\ Goto(j, "done")
    /\ UNCHANGED <<executed, findings, posted, deliveries, level, experiment>>
\* The MCP server's tools answer with the rows, or the run made of them.
Told(j, says) ==
    [by |-> j, metrics |-> Entries(j, Plan(j)), evidence |-> {QueryId(j, j.metric)}, says |-> says]
QueryMetric(j) ==
    /\ At(j, "work") /\ ~Asks(j) /\ j.kind = "mcp"
    /\ answers' = answers \cup {Told(j, "rows")}
    /\ Goto(j, "done")
    /\ UNCHANGED <<executed, findings, posted, deliveries, level, experiment>>
GetRun(j) ==
    /\ At(j, "work") /\ ~Asks(j) /\ j.kind = "get_run"
    /\ answers' = answers \cup {Told(j, "run")}
    /\ Goto(j, "done")
    /\ UNCHANGED <<executed, findings, posted, deliveries, level, experiment>>
EndSweep(j) ==
    /\ At(j, "work") /\ ~Asks(j) /\ j.kind = "sweep" /\ ~Moved(Read(j))
    /\ answers' = answers \cup {SweepRecord(j)}
    /\ Goto(j, "done")
    /\ UNCHANGED <<executed, findings, posted, deliveries, level, experiment>>
PublishSweep(j) ==
    /\ At(j, "work") /\ ~Asks(j) /\ j.kind = "sweep" /\ Moved(Read(j))
    /\ findings' = findings \cup {SweepFinding(j)}
    /\ \/ answers' = answers \cup {SweepRecord(j)} /\ Goto(j, "done")
       \/ answers' = answers /\ Goto(j, "failed")
    /\ UNCHANGED <<executed, posted, deliveries, level, experiment>>
BuildDigest(j) ==
    /\ At(j, "work") /\ ~Asks(j) /\ j.kind = "digest"
    /\ findings' = findings \cup
            {[by |-> j, metrics |-> Entries(j, DIGEST_METRICS),
              evidence |-> Cites(Entries(j, DIGEST_METRICS)), says |-> "info"]}
    /\ Goto(j, "post")
    /\ UNCHANGED <<executed, answers, posted, deliveries, level, experiment>>
EvaluateAlert(j) ==
    /\ At(j, "work") /\ ~Asks(j) /\ j.kind = "alert"
    /\ IF Fires(j)
       THEN Goto(j, "post") /\ deliveries' = deliveries
       ELSE /\ Goto(j, "done")
            /\ deliveries' = deliveries \cup {[by |-> j, status |-> "skipped", detail |-> ""]}
    /\ UNCHANGED <<executed, findings, answers, posted, level, experiment>>
-----------------------------------------------------------------------------
(* Delivery: the webhook takes the message or not, and says ok, another     *)
(* status, or nothing (the call throws); the outcome is recorded, and a     *)
(* failure to record "delivered" is caught and recorded as one that threw.  *)

Attempts ==
    {a \in [took : BOOLEAN, says : {"ok", "status", "error"}] : a.says = "ok" => a.took}
Post(j) ==
    /\ At(j, "post")
    /\ \E a \in Attempts :
        /\ posted' = IF a.took THEN posted \cup {j} ELSE posted
        /\ run' = [run EXCEPT ![j].pc = "record", ![j].holds = <<a.says>>]
    /\ UNCHANGED <<executed, findings, answers, deliveries, level, experiment>>
Row(j, said) ==
    [by |-> j, status |-> IF said = "ok" THEN "delivered" ELSE "failed", detail |-> said]
Record(j) ==
    /\ At(j, "record")
    /\ LET said == run[j].holds[1]
       IN  \E stored, answered \in BOOLEAN :
            /\ answered => stored
            /\ deliveries' = IF stored THEN deliveries \cup {Row(j, said)} ELSE deliveries
            /\ run' = IF answered THEN [run EXCEPT ![j].pc = "done"]
                      ELSE IF said = "ok" /\ j.kind = "digest"
                           THEN [run EXCEPT ![j].holds = <<"error">>]
                      ELSE [run EXCEPT ![j].pc = "failed"]
    /\ UNCHANGED <<executed, findings, answers, posted, level, experiment>>
-----------------------------------------------------------------------------
(* The experiment agent.                                                    *)

EXPERIMENT_AUTONOMY_LEVEL == 2
GetAutonomyLevel(j) ==
    /\ At(j, "level")
    /\ run' = [run EXCEPT ![j].pc = IF level < EXPERIMENT_AUTONOMY_LEVEL THEN "done" ELSE "create",
                          ![j].holds = <<level>>]
    /\ UNCHANGED <<executed, outputs, level, experiment>>
CreateExperiment(j) ==
    /\ At(j, "create")
    /\ experiment' = [experiment EXCEPT !.status = "created"]
    /\ Goto(j, "assemble") \/ Goto(j, "failed")
    /\ UNCHANGED <<executed, outputs, level>>
AssembleVariantPr(j) ==
    /\ At(j, "assemble")
    /\ Goto(j, "running")
    /\ UNCHANGED <<executed, outputs, level, experiment>>
SetRunning(j) ==
    /\ At(j, "running")
    /\ experiment' = [experiment EXCEPT !.status = "running", !.pr = TRUE]
    /\ Goto(j, "done") \/ Goto(j, "failed")
    /\ UNCHANGED <<executed, outputs, level>>

GUARDRAIL_HARM ==
    [override_rate |-> "above", cost_per_completed_task |-> "above", task_success_rate |-> "below"]
HarmOf(metric) == IF metric \in DOMAIN GUARDRAIL_HARM THEN GUARDRAIL_HARM[metric] ELSE "above"
Sides == {"above", "below", "across"}
Breached(sides) == {metric \in DOMAIN sides : sides[metric] = HarmOf(metric)}
TargetDecision(direction, side) ==
    IF side = "across" THEN "inconclusive"
    ELSE IF side = (IF direction = "increase" THEN "above" ELSE "below") THEN "ship" ELSE "revert"
\* A pass: guardrails first, then the target.  Its verdict cites the target's query and those
\* of the guardrails it found breached.
Verdict(j, sides, target) ==
    LET breached == Breached(sides)
    IN  [by |-> j, breached |-> breached, observed |-> sides, target |-> target,
         decision |-> IF breached # {} THEN "revert" ELSE TargetDecision(j.direction, target),
         queries |-> {j.cites[m] : m \in (breached \cup {"target"}) \cap DOMAIN j.cites}]
MonitorExperiment(j) ==
    /\ At(j, "observe")
    /\ \E sides \in [j.guardrails -> Sides], target \in Sides :
        LET v == Verdict(j, sides, target)
        IN  run' = IF v.decision = "inconclusive" THEN [run EXCEPT ![j].pc = "done"]
                   ELSE [run EXCEPT ![j].pc = "verdict", ![j].holds = <<v>>]
    /\ UNCHANGED <<executed, outputs, level, experiment>>
\* The backend stores the verdict in place of any other and sets the row concluded; it refuses
\* one with the missing query id of a breached guardrail, and the call throws (CallFails).
WriteVerdict(j) ==
    /\ At(j, "verdict") /\ run[j].holds[1].breached \subseteq DOMAIN j.cites
    /\ experiment' = [experiment EXCEPT
            !.verdict = run[j].holds, !.written = @ \cup Range(run[j].holds),
            !.status = "concluded", !.overlapped = @ \/ \E k \in Jobs : At(k, "status")]
    /\ Goto(j, "status") \/ Goto(j, "failed")
    /\ UNCHANGED <<executed, outputs, level>>
UpdateStatus(j) ==
    /\ At(j, "status")
    /\ experiment' = [experiment EXCEPT
            !.status = IF run[j].holds[1].breached # {} THEN "stopped" ELSE "concluded"]
    /\ Goto(j, "finding") \/ Goto(j, "failed")
    /\ UNCHANGED <<executed, outputs, level>>
\* The finding gives the effect on the target and on every guardrail; a guardrail without a
\* query id of its own cites the target's.
CiteOf(j, m) == IF m \in DOMAIN j.cites THEN j.cites[m] ELSE j.cites["target"]
Effects(j, v) ==
    {[metric |-> "target", value |-> v.target, query |-> CiteOf(j, "target")]}
    \cup {[metric |-> m, value |-> v.observed[m], query |-> CiteOf(j, m)] : m \in j.guardrails}
VerdictFinding(j, v) ==
    [by |-> j, metrics |-> Effects(j, v), says |-> v,
     evidence |-> {CiteOf(j, m) : m \in j.guardrails \cup {"target"}}]
PublishVerdict(j) ==
    /\ At(j, "finding")
    /\ findings' = findings \cup {VerdictFinding(j, run[j].holds[1])}
    /\ Goto(j, "done") \/ Goto(j, "failed")
    /\ UNCHANGED <<executed, answers, posted, deliveries, level, experiment>>
-----------------------------------------------------------------------------
Next ==
    \/ SetAutonomy
    \/ \E j \in Jobs :
        \/ StartJob(j) \/ Query(j) \/ Cite(j) \/ QueryFails(j) \/ CallFails(j)
        \/ Reply(j) \/ QueryMetric(j) \/ GetRun(j) \/ EndSweep(j) \/ PublishSweep(j) \/ BuildDigest(j) \/ EvaluateAlert(j)
        \/ Post(j) \/ Record(j)
        \/ GetAutonomyLevel(j) \/ CreateExperiment(j) \/ AssembleVariantPr(j) \/ SetRunning(j)
        \/ MonitorExperiment(j) \/ WriteVerdict(j) \/ UpdateStatus(j) \/ PublishVerdict(j)
Spec == Init /\ [][Next]_vars
-----------------------------------------------------------------------------
\* Every number an agent stated is cited, and its citation resolves to a recorded query, or
\* is one that the caller of a monitoring pass supplied: the pass itself asks no query.
Supplied(j) == {j.cites[m] : m \in IF j.kind = "monitor" THEN DOMAIN j.cites ELSE {}}
CitationsResolve ==
    \A said \in findings \cup answers :
        /\ Cites(said.metrics) \subseteq said.evidence
        /\ said.evidence \subseteq executed \cup Supplied(said.by)
\* A sweep that says it published did, and publishes only a shift of the window it read.
SweepsAreHonest ==
    /\ \A a \in answers : a.says = "published" => \E f \in findings : f.by = a.by
    /\ \A f \in findings : f.by.kind = "sweep" =>
            \A e \in f.metrics : e.metric = "regression_delta" =>
                Abs(e.value) >= 1 /\ (f.says = "critical" <=> e.value < 0)
\* "delivered" is recorded only of a message a webhook took, and a call that ended recorded
\* what became of its message.  A message that is recorded as delivered and as failed is one
\* whose first record was not answered, never one that the webhook turned down.
DeliveriesAreTrue ==
    /\ \A d \in deliveries : d.status = "delivered" => d.by \in posted
    /\ \A j \in Jobs : j.kind \in {"digest", "alert"} /\ At(j, "done") =>
            \E d \in deliveries : d.by = j
    /\ \A d, e \in deliveries :
            d.by = e.by /\ d.status = "delivered" /\ e.status # "delivered" => e.detail = "error"
\* An alert is sent only of a value beyond a limit that was set, never of an empty window.
AlertsHaveGround ==
    \A j \in posted : j.kind = "alert" =>
        LET v == Read(j)[1]
        IN  /\ v # NoData
            /\ \/ j.above # NoData /\ v > j.above
               \/ j.below # NoData /\ v < j.below
\* No variant without level 2 at the start, nor a running experiment without its PR; what
\* ended has a verdict and what has a verdict ended; what ships harmed no guardrail.  However
\* passes repeat and overlap, a finding says the verdict its own pass wrote, and gives with
\* every breach the harm seen and that guardrail's query; and the row, unless passes
\* overlapped, says "stopped" exactly of a breach in the verdict it holds once the pass that
\* wrote that verdict has gone on.
ExperimentsConclude ==
    /\ \A j \in Jobs : j.kind = "start" /\ run[j].pc \in {"create", "assemble", "running"} =>
            run[j].holds[1] >= EXPERIMENT_AUTONOMY_LEVEL
    /\ experiment.status \in {"running", "stopped", "concluded"} => experiment.pr
    /\ experiment.status \in {"stopped", "concluded"} <=> experiment.verdict # <<>>
    /\ \A v \in experiment.written : v.decision = "ship" =>
            \A m \in DOMAIN v.observed :
                v.observed[m] # (IF m = "task_success_rate" THEN "below" ELSE "above")
    /\ \A f \in findings : f.by.kind = "monitor" =>
            /\ f.says \in experiment.written /\ f.says.by = f.by
            /\ f.says.queries \subseteq f.evidence
            /\ \A m \in f.says.breached :
                  [metric |-> m, query |-> f.by.cites[m],
                   value |-> IF m = "task_success_rate" THEN "below" ELSE "above"] \in f.metrics
    /\ experiment.verdict # <<>> /\ ~experiment.overlapped =>
            LET v == experiment.verdict[1]
            IN  /\ experiment.status = "stopped" => v.breached # {}
                /\ run[v.by].pc \in {"finding", "done"} /\ v.breached # {} =>
                      experiment.status = "stopped"
AgentLoopSafe ==
    /\ CitationsResolve /\ SweepsAreHonest /\ DeliveriesAreTrue
    /\ AlertsHaveGround /\ ExperimentsConclude
=============================================================================
