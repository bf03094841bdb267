------------------------------ MODULE Analytics ------------------------------
(***************************************************************************)
(* Everything that is computed from toqar.events: the semantic layer's      *)
(* metrics and daily rollup (analysis/src/semantic.ts), reconstructed runs  *)
(* (runs.ts), failure clusters (analysis-agent/src/clusters.ts), per-arm    *)
(* guardrails (experiments/src/flags.ts), trajectory scorers and the gate   *)
(* of a suite (evals/src), usage meters and invoices (billing/src).  The    *)
(* same fact is computed in several of them, by code of different packages. *)
(*                                                                         *)
(* A table is the set of rows FINAL leaves; the rollup is kept by a view    *)
(* that sees every insert.  Time is a number, ten to a day, and a week is   *)
(* two days.  A ratio is its numerator and denominator.                     *)
(***************************************************************************)
EXTENDS Integers, Sequences, FiniteSets, SequencesExt, FiniteSetsExt

CONSTANTS
    Rows,         \* rows that may be inserted
    Included,     \* tasks included before per-task billing starts
    Limits,       \* tier limits in price order: sequence of [usage metric |-> limit]
    MaxRepeats    \* bound on the inserts of a row that is there already

VARIABLES
    table,        \* toqar.events: the rows FINAL leaves
    rolled        \* toqar.daily_rollups: how often the view has added a row

\* The columns that are added up are numbers, a step has a status, there is a tier.
KnownRows ==
    /\ IsFiniteSet(Rows) /\ Included \in Nat
    /\ \A r \in Rows : {r.ts, r.cost, r.magnitude} \subseteq Nat
    /\ \A r \in Rows : r.event = "step_executed" => r.status # ""
    /\ Limits # <<>> /\ Limits \in Seq(Range(Limits))

END_EVENTS == {"task_completed", "task_failed", "task_abandoned"}
HUMAN_TOUCH == {"handoff_to_human", "human_approved", "human_edited", "human_overrode"}
Of(E, names) == {r \in E : r.event \in names}
N(E, names) == Cardinality(Of(E, names))
Tasks(E) == {r.task : r \in E}
Total(E, f) == SumFunction([r \in E |-> r[f]])
Ratio(n, d) == [num |-> n, den |-> d]
AtLeast1(n) == IF n = 0 THEN 1 ELSE n
Single(n, d) == [all |-> Ratio(n, d)]
Week(r) == r.ts \div 20
Day(r) == r.ts \div 10

\* tenant_id = ..., timestamp >= from, timestamp < to.
Scope(events, tenant, from, to) == {r \in events : r.tenant = tenant /\ r.ts >= from /\ r.ts < to}
-----------------------------------------------------------------------------
(* The metrics: per group of the result its value.  by is what the          *)
(* inner query of a per-task metric groups by; that of the cohorts groups   *)
(* by the session in place of the task, and by the week.                    *)

Failed(E) == {r \in E : r.status # "ok"}
Steps(E) == Of(E, {"step_executed"})
METRICS(E, by, pivot) ==
    LET ended == Of(E, END_EVENTS)
        Key(r) == [i \in DOMAIN by |-> r[by[i]]]
        keys == {Key(r) : r \in E}
        At(k) == {r \in E : Key(r) = k}
        after == {r \in E : r.ts >= pivot}
        before == E \ after
        Done(S) == N(S, {"task_completed"})
        tooled == {r \in Steps(E) : r.tool # ""}
        SelfReported(k) == \E r \in At(k) : r.event = "task_completed" /\ r.verification = "self_reported"
        Contested(k) == \E r \in At(k) : r.event \in {"human_edited", "human_overrode"}
                                         \/ (r.event = "feedback_given" /\ r.rating = 0)
        Completed(k) == N(At(k), {"task_completed"}) > 0
        Runs(k) == Cardinality({r.run : r \in At(k)})
        Ended(k) == N(At(k), END_EVENTS) > 0
        Touched(k) == N(At(k), HUMAN_TOUCH) > 0
        started == Of(E, {"task_started"})
        weeks(S) == {Week(r) : r \in S}
        InWeek(S, w) == {r \in S : Week(r) = w}
        actors == {r \in started : r.session # ""}
        Actor(r) == [i \in DOMAIN by |-> IF by[i] = "task" THEN r.session ELSE r[by[i]]]
        known == {r \in E : r.session # ""}
        Overridden(w, a) == \E r \in InWeek(known, w) : Actor(r) = a /\ r.event = "human_overrode"
        Cohort(w, o) == {a \in {Actor(r) : r \in InWeek(known, w)} : Overridden(w, a) = o}
        Count(P(_)) == Cardinality({k \in keys : P(k)})
    IN [task_success_rate |-> Single(Done(ended), Cardinality(ended)),
        overclaim_rate |-> Single(Count(LAMBDA k : SelfReported(k) /\ Contested(k)), Count(SelfReported)),
        first_run_resolution |-> Single(Count(LAMBDA k : Completed(k) /\ Runs(k) = 1), Count(Completed)),
        abandonment_rate |-> Single(N(E, {"task_abandoned"}), Cardinality(ended)),
        cost_per_completed_task |-> Single(Total(E, "cost"), Done(E)),
        tokens_per_task |-> Single(Total(Steps(E), "tokens"), Cardinality(Tasks(Steps(E)))),
        steps_per_task |-> Single(Cardinality(Steps(E)), Cardinality(Tasks(Steps(E)))),
        loop_retry_ratio |-> Single(Cardinality({r \in Steps(E) : r.retry # ""}), Cardinality(Steps(E))),
        per_tool_failure_rate |->
            [t \in {r.tool : r \in tooled} |->
                LET mine == {r \in tooled : r.tool = t} IN Ratio(Cardinality(Failed(mine)), Cardinality(mine))],
        human_edit_distance |-> Single(Total(Of(E, {"human_edited"}), "magnitude"), N(E, {"human_edited"})),
        regression_delta |->
            [after |-> Ratio(Done(after), AtLeast1(N(after, END_EVENTS))),
             before |-> Ratio(Done(before), AtLeast1(N(before, END_EVENTS)))],
        complaint_rate |->
            Single(Cardinality({r \in Of(E, {"feedback_given"}) : r.rating = 0}), AtLeast1(Done(E))),
        autonomy_rate |-> Single(Count(LAMBDA k : Ended(k) /\ ~Touched(k)), Count(Ended)),
        escalation_rate |-> Single(N(E, {"handoff_to_human"}), AtLeast1(Cardinality(Tasks(E)))),
        override_rate |-> Single(N(E, {"human_overrode"}), AtLeast1(Cardinality(Tasks(E)))),
        weekly_task_actors |->
            [w \in weeks(actors) |-> Ratio(Cardinality({r.session : r \in InWeek(actors, w)}), 1)],
        task_depth_expansion |->
            [w \in weeks(started) |-> Ratio(Cardinality({r.type : r \in InWeek(started, w)}), 1)],
        delegation_share |->
            Single(Cardinality({r \in started : r.initiator \in {"agent", "schedule"}}), Cardinality(started)),
        quality_cohort_retention |->
            [g \in {c \in weeks(E) \X BOOLEAN : Cohort(c[1], c[2]) # {}} |->
                Ratio(Cardinality(Cohort(g[1], g[2])), 1)],
        net_task_growth |-> Single(Done(after) - Done(before), AtLeast1(Done(before)))]

ByTask == <<"task">>
Metric(name, E) == METRICS(E, ByTask, 0)[name]
Metrics(E, pivot) == METRICS(E, ByTask, pivot)

\* segmentBy adds a column and a GROUP BY to the scoped select, which an outer query drops:
\* there a task, or a session, counts once per segment, and the segments are added up.
OuterMetrics == {"overclaim_rate", "first_run_resolution", "autonomy_rate", "quality_cohort_retention"}
Segmented(name, E, segment) ==
    IF name \in OuterMetrics
    THEN [none |-> METRICS(E, <<segment, "task">>, 0)[name]]
    ELSE [g \in {r[segment] : r \in E} |-> Metric(name, {r \in E : r[segment] = g})]

\* What the materialized view has summed for rows E, per day: it adds a row at every insert,
\* the repeated ones that FINAL hides from the metrics too.
Rolled(E) == SumFunction([r \in E |-> rolled[r]])
Rollup(E, d) ==
    LET day == {r \in E : Day(r) = d}
    IN  [completed |-> Rolled(Of(day, {"task_completed"})), ended |-> Rolled(Of(day, END_EVENTS)),
         abandoned |-> Rolled(Of(day, {"task_abandoned"})),
         cost |-> SumFunction([r \in day |-> rolled[r] * r.cost])]
\* The window's last day counts whole.
DailyRollup(tenant, from, to) ==
    LET E == {r \in {q \in Rows : rolled[q] > 0} :
                r.tenant = tenant /\ Day(r) >= from \div 10 /\ Day(r) <= to \div 10}
    IN  [d \in {Day(r) : r \in E} |-> Rollup(E, d)]
-----------------------------------------------------------------------------
(* One run: the rows of (task, run), which the query orders by time and id;  *)
(* only the first with a session and the last ending of them are told apart. *)

OutcomeOf == [task_completed |-> "completed", task_failed |-> "failed", task_abandoned |-> "abandoned"]
Before(a, b) == a.ts < b.ts \/ (a.ts = b.ts /\ a.id < b.id)
FirstOf(S) == CHOOSE r \in S : \A q \in S : ~Before(q, r)
LastOf(S) == CHOOSE r \in S : \A q \in S : ~Before(r, q)
RunRows(events, tenant, task, run) == {r \in events : r.tenant = tenant /\ r.task = task /\ r.run = run}
ReconstructRun(rows) ==
    LET ends == Of(rows, END_EVENTS)
        sessions == {r \in rows : r.session # ""}
        outcome == IF ends = {} THEN "in_flight" ELSE OutcomeOf[LastOf(ends).event]
    IN  [outcome |-> outcome,
         session |-> IF sessions = {} THEN "none" ELSE FirstOf(sessions).session,
         human |-> Of(rows, HUMAN_TOUCH),
         steps |-> Cardinality(Steps(rows)),
         errors |-> Cardinality({r \in Steps(rows) : r.status \notin {"", "ok"}}),
         retries |-> Cardinality({r \in Steps(rows) : r.retry # ""}),
         cost |-> Total(rows, "cost"),
         trajectory |-> [completed |-> outcome = "completed", steps |-> rows]]

\* The scorers read a trajectory.
IsFailedStep(r) == r.event = "step_executed" /\ r.status \notin {"", "ok"}
TaskCompleted(t) == Ratio(IF t.completed THEN 1 ELSE 0, 1)
CleanTrajectory(t) ==
    Ratio(IF t.completed /\ {r \in t.steps : IsFailedStep(r)} = {} THEN 1 ELSE 0, 1)
LowRetryChurn(t) ==
    LET steps == Cardinality(Steps(t.steps))
        retries == Cardinality({r \in Steps(t.steps) : r.retry # ""})
    IN  IF steps = 0 THEN Ratio(1, 1) ELSE Ratio(steps - retries, steps)
NoHumanIntervention(t) ==
    Ratio(IF Of(t.steps, {"handoff_to_human", "human_edited", "human_overrode"}) = {} THEN 1 ELSE 0, 1)

\* A suite's mean per scorer over its cases, and the gate: a threshold whose scorer the
\* suite did not run fails nothing.  What a case scores is cut to thousandths.
BUILTIN_SCORERS == {"task_completed", "clean_trajectory", "low_retry_churn", "no_human_intervention"}
Score(scorer, t) ==
    LET score == [task_completed |-> TaskCompleted(t), clean_trajectory |-> CleanTrajectory(t),
                  low_retry_churn |-> LowRetryChurn(t),
                  no_human_intervention |-> NoHumanIntervention(t)][scorer]
    IN  (1000 * score.num) \div score.den
RunSuite(cases, scorers) ==
    [s \in scorers |->
        Ratio(SumFunction([t \in cases |-> Score(s, t)]), 1000 * AtLeast1(Cardinality(cases)))]
EvaluateGate(result, thresholds) ==
    \A s \in DOMAIN thresholds \cap DOMAIN result :
        result[s].num * thresholds[s].den >= thresholds[s].num * result[s].den

\* Per trace the last score of each kind; pairs within the tolerance agree.
JudgeAgreement(scores, tolerance) ==
    LET Scored(trace, kind) ==
            {i \in DOMAIN scores : scores[i].trace = trace /\ scores[i].kind = kind}
        pairs == {t \in {scores[i].trace : i \in DOMAIN scores} :
                    Scored(t, "judge") # {} /\ Scored(t, "human") # {}}
        Apart(t) == scores[Max(Scored(t, "judge"))].value - scores[Max(Scored(t, "human"))].value
    IN  Ratio(Cardinality({t \in pairs : Apart(t) \in -tolerance..tolerance}), Cardinality(pairs))
-----------------------------------------------------------------------------
(* Clusters of failures, from the rows of the cited query.                 *)

FailureRows(E) ==
    {r \in Steps(E) : r.status # "ok" /\ r.tool # ""} \cup Of(E, {"human_overrode"})
IsToolFailure(r) == r.event = "step_executed" /\ r.status \notin {"", "ok"} /\ r.tool # ""
Signature(r) ==
    IF IsToolFailure(r) THEN <<"tool_failure", r.tool, r.status, r.type>>
    ELSE <<"human_override", r.type>>
ClusterFailures(rows) ==
    LET clustered == {r \in rows : IsToolFailure(r) \/ r.event = "human_overrode"}
    IN  [sig \in {Signature(r) : r \in clustered} |-> {r \in clustered : Signature(r) = sig}]
\* The draft of a cluster's finding: what it claims is cited as the rows' query.  What it calls
\* member runs is the number of rows, of however few runs.
ClusterFinding(sig, members, query) ==
    [layer |-> IF sig[1] = "human_override" THEN "A" ELSE "O",
     severity |-> IF Cardinality(members) >= 10 THEN "critical" ELSE "warning",
     member_runs |-> Cardinality(members), evidence |-> {query}]

\* The arm of a subject, from what the flag provider answers for its flag; PostHog's failures
\* and unknown flags are control.
Assign(provider, value) ==
    IF value = "true" \/ (provider = "posthog" /\ value = "variant") THEN "variant" ELSE "control"
\* Guardrails per arm: events joined with the exposures of their task, a sequence of
\* <<task, arm>>, grouped by arm.  A task exposed twice joins twice.
ArmAggregates(joined) ==
    LET Count(names) == Cardinality({j \in joined : j[1].event \in names})
    IN  [task_success_rate |-> Ratio(Count({"task_completed"}), Count(END_EVENTS)),
         cost_per_completed_task |->
            Ratio(SumFunction([j \in joined |-> j[1].cost]), Count({"task_completed"})),
         override_rate |->
            Ratio(Count({"human_overrode"}), AtLeast1(Cardinality(Tasks({j[1] : j \in joined}))))]
PerArmMetric(metric, E, exposures) ==
    LET Joined(arm) == {j \in E \X DOMAIN exposures : exposures[j[2]] = <<j[1].task, arm>>}
        arms == {exposures[i][2] : i \in DOMAIN exposures}
    IN  [arm \in {a \in arms : Joined(a) # {}} |-> ArmAggregates(Joined(arm))[metric]]

(* Billing: the meters, the tier that covers a usage, and the invoice.      *)

\* Mutant: a meter counts completion events, not completed tasks.
UsageMeters_CountEvents(E) ==
    [events_ingested |-> Cardinality(E), tasks_tracked |-> Cardinality(Tasks(E)),
     agent_runs |-> Cardinality({<<r.task, r.run>> : r \in E}),
     tasks_completed |-> N(E, {"task_completed"})]
UsageMeters(E) ==
    [events_ingested |-> Cardinality(E), tasks_tracked |-> Cardinality(Tasks(E)),
     agent_runs |-> Cardinality({<<r.task, r.run>> : r \in E}),
     tasks_completed |-> Cardinality(Tasks(Of(E, {"task_completed"})))]
Covers(i, usage) == \A m \in DOMAIN Limits[i] : usage[m] <= Limits[i][m]
ResolveTier(usage) ==
    IF \E i \in DOMAIN Limits : Covers(i, usage)
    THEN CHOOSE i \in DOMAIN Limits : Covers(i, usage) /\ \A j \in 1..(i - 1) : ~Covers(j, usage)
    ELSE Len(Limits)
\* A name that is no tier's gets the first one.
PlanFor(name, usage) ==
    LET tier == IF name \in DOMAIN Limits THEN name ELSE 1
    IN  [tier |-> tier, over_limit |-> ~Covers(tier, usage)]
Billable(completed) == IF completed > Included THEN completed - Included ELSE 0
-----------------------------------------------------------------------------
Init == table = {} /\ rolled = [r \in Rows |-> 0]
\* FINAL shows a row that is inserted again once; the view adds it again.
\* Bound: MaxRepeats such inserts.
InsertRow ==
    \E r \in Rows :
        /\ r \in table => Rolled(Rows) - Cardinality(table) < MaxRepeats
        /\ table' = table \cup {r}
        /\ rolled' = [rolled EXCEPT ![r] = @ + 1]
Next == InsertRow
Spec == Init /\ [][Next]_<<table, rolled>>
-----------------------------------------------------------------------------
Tenants == {r.tenant : r \in Rows}
Days == 0..(1 + Max({Day(r) : r \in Rows}))
All(t) == Scope(table, t, 0, 10 * Max(Days))
RunKeys(t) == {<<r.task, r.run>> : r \in All(t)}
RunOf(t, k) == ReconstructRun(RunRows(table, t, k[1], k[2]))
SumRuns(t, f) == SumFunction([k \in RunKeys(t) |-> RunOf(t, k)[f]])

\* Metrics that count rows: they add up over disjoint parts of a table.
Additive == {"task_success_rate", "abandonment_rate", "cost_per_completed_task",
             "loop_retry_ratio", "human_edit_distance", "delegation_share"}
AddsUp(ratio, parts) ==
    /\ ratio.num = SumFunction([p \in DOMAIN parts |-> parts[p].num])
    /\ ratio.den = SumFunction([p \in DOMAIN parts |-> parts[p].den])

\* Two windows that meet count no row twice and lose none, and the segments of a metric add up
\* to it.  The rollup of whole days is the metric of those days, or more when one of their rows
\* was inserted again.
PartsAddUp ==
    \A t \in Tenants :
        LET whole == METRICS(All(t), ByTask, 0)
            days == DailyRollup(t, 0, 10 * Max(Days) - 1)
            SumDays(f) == SumFunction([d \in DOMAIN days |-> days[d][f]])
            once == \A r \in All(t) : rolled[r] = 1
            Reconciles(count, f) == count <= SumDays(f) /\ (once => count = SumDays(f))
        IN  /\ \A name \in Additive :
                /\ AddsUp(whole[name].all,
                          [d \in Days |-> Metric(name, Scope(table, t, 10 * d, 10 * d + 10)).all])
                /\ LET parts == Segmented(name, All(t), "type")
                   IN  AddsUp(whole[name].all, [g \in DOMAIN parts |-> parts[g].all])
            /\ Reconciles(whole.task_success_rate.all.num, "completed")
            /\ Reconciles(whole.task_success_rate.all.den, "ended")
            /\ Reconciles(whole.abandonment_rate.all.num, "abandoned")
            /\ Reconciles(whole.cost_per_completed_task.all.num, "cost")
Flawless(run) ==
    /\ run.outcome = "completed" /\ run.errors = 0 /\ run.retries = 0
    /\ \A r \in run.human : r.event = "human_approved"
\* Reconstructed runs hold what the metrics count: steps, retries, cost, and failed steps, those
\* of tools and those that name none; scorers say of a run what the metrics say of its task; and
\* the gate that asks the most of every scorer lets through a suite of flawless runs alone.
RunsAgree ==
    \A t \in Tenants :
        LET E == All(t)
            whole == METRICS(E, ByTask, 0)
            tools == whole.per_tool_failure_rate
            Untooled == {r \in Failed(Steps(E)) : r.tool = ""}
            Untouched(task) == N({r \in E : r.task = task}, HUMAN_TOUCH) = 0
        IN  /\ whole.loop_retry_ratio.all = Ratio(SumRuns(t, "retries"), SumRuns(t, "steps"))
            /\ whole.cost_per_completed_task.all.num = SumRuns(t, "cost")
            /\ SumRuns(t, "errors") =
                    SumFunction([g \in DOMAIN tools |-> tools[g].num]) + Cardinality(Untooled)
            /\ \A k \in RunKeys(t) :
                LET run == RunOf(t, k)
                IN  /\ CleanTrajectory(run.trajectory).num = 1
                        <=> run.outcome = "completed" /\ run.errors = 0
                    /\ Untouched(k[1]) => NoHumanIntervention(run.trajectory).num = 1
                    /\ LowRetryChurn(run.trajectory).num = run.steps - run.retries \/ run.steps = 0
            /\ LET trajectories == {RunOf(t, k).trajectory : k \in RunKeys(t)}
                   result == RunSuite(trajectories, BUILTIN_SCORERS)
               IN  EvaluateGate(result, [s \in BUILTIN_SCORERS |-> Ratio(1, 1)])
                    <=> trajectories # {} /\ \A k \in RunKeys(t) : Flawless(RunOf(t, k))
            /\ LET keys == SetToSeq(RunKeys(t))
                   Says(k, kind) ==
                       [trace |-> k, kind |-> kind, value |-> CleanTrajectory(RunOf(t, k).trajectory).num]
                   judged == [i \in DOMAIN keys |-> Says(keys[i], "judge")]
                   human == [i \in DOMAIN keys |-> [Says(keys[i], "human") EXCEPT !.value =
                                    TaskCompleted(RunOf(t, keys[i]).trajectory).num]]
                   outdated == [i \in DOMAIN keys |-> [judged[i] EXCEPT !.value = 1 - @]]
               IN  JudgeAgreement(outdated \o human \o judged, 0) =
                        Ratio(Cardinality({k \in RunKeys(t) :
                                    ~(RunOf(t, k).outcome = "completed" /\ RunOf(t, k).errors > 0)}),
                              Len(keys))
\* A cluster is the failed rows of one signature, every failed row is in one, and their findings
\* claim the failed tool calls the runs show and the overrides the metric counts.
ClustersAgree ==
    \A t \in Tenants :
        LET rows == FailureRows(All(t))
            Untooled == {r \in Failed(Steps(All(t))) : r.tool = ""}
            clusters == ClusterFailures(rows)
            Claimed(layer) ==
                SumFunction([sig \in DOMAIN clusters |->
                        LET draft == ClusterFinding(sig, clusters[sig], "q")
                        IN  IF draft.layer = layer THEN draft.member_runs ELSE 0])
        IN  /\ UNION {clusters[sig] : sig \in DOMAIN clusters} = rows
            /\ SumFunction([sig \in DOMAIN clusters |-> Cardinality(clusters[sig])]) = Cardinality(rows)
            /\ Claimed("O") = SumRuns(t, "errors") - Cardinality(Untooled)
            /\ Claimed("A") = Metric("override_rate", All(t)).all.num
\* "MUST match": an arm's guardrail is the metric of the tasks exposed to that arm, where each
\* was exposed once.
ArmsAgree ==
    \A t \in Tenants, provider \in {"posthog", "launchdarkly"} :
    \A answer \in [Tasks(All(t)) -> {"true", "variant", "missing"}] :
        LET ArmOf(task) == Assign(provider, answer[task])
            tasks == SetToSeq(Tasks(All(t)))
            exposures == [i \in DOMAIN tasks |-> <<tasks[i], ArmOf(tasks[i])>>]
            InArm(arm) == {r \in All(t) : ArmOf(r.task) = arm}
        IN  \A m \in {"task_success_rate", "cost_per_completed_task", "override_rate"} :
                LET perArm == PerArmMetric(m, All(t), exposures)
                IN  \A arm \in DOMAIN perArm : perArm[arm] = Metric(m, InArm(arm)).all
\* What is billed as completed is what the metrics count as completed, and the tier is the
\* cheapest one whose limits cover the usage.
BillingAgrees ==
    \A t \in Tenants :
        LET usage == UsageMeters(All(t))
            tier == ResolveTier(usage)
        IN  /\ usage.tasks_completed = Metric("first_run_resolution", All(t)).all.den
            /\ usage.tasks_completed <= usage.tasks_tracked
            /\ usage.tasks_tracked <= usage.agent_runs /\ usage.agent_runs <= usage.events_ingested
            /\ \A i \in DOMAIN Limits : Covers(i, usage) => tier <= i
            /\ PlanFor(tier, usage).over_limit => tier = Len(Limits)
            /\ PlanFor(0, usage).over_limit <=> tier > 1 \/ PlanFor(1, usage).over_limit
            /\ Billable(usage.tasks_completed) <= usage.tasks_completed
\* Numbers that different packages compute from the same rows agree.
AnalyticsRight == PartsAddUp /\ RunsAgree /\ ClustersAgree /\ ArmsAgree /\ BillingAgrees
=============================================================================
