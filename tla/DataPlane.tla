----------------------------- MODULE DataPlane ------------------------------
(***************************************************************************)
(* Events of tenants from the topic into regional ClickHouse clusters, and  *)
(* what happens to them there: residency routing (pipeline/src/redpanda.ts),*)
(* the rollup beside the events, retention, the deletions of                *)
(* pipeline/src/ch-migrate.ts in the order of the erasure runbook           *)
(* (docs/security/erasure-runbook.md).                                      *)
(***************************************************************************)
EXTENDS Integers, FiniteSets

CONSTANTS
    Events,          \* events that may be produced
    TenantOf,        \* the tenant of an event
    SessionOf,       \* its session: the end user
    MaxDeliveries,   \* bound on how often the consumer inserts one event
    MaxMoves         \* bound on changes of a tenant's residency

Regions == {"us", "eu"}
Tenants == {TenantOf[e] : e \in Events}
Sessions == {SessionOf[e] : e \in Events}
Of(t) == {e \in Events : TenantOf[e] = t}

VARIABLES
    euCluster,       \* whether the deployment has an EU cluster
    residency,       \* the tenants' setting in the control plane
    topic,           \* the residency tag of the events in the topic, "" if not there
    deliveries,      \* how often each event was inserted
    table,           \* per region: the rows a query sees
    rollup,          \* per region and tenant: the events daily_rollups counts
    erasure,         \* per tenant: how far the runbook is
    target,          \* per tenant: the cluster the operator erases in
    late, drift, moves, resided
                     \* history: inserted after the tenant's deletion; why a rollup
                     \* and its events may differ; changes of residency; the
                     \* residencies a tenant has had

vars == <<euCluster, residency, topic, deliveries, table, rollup, erasure, target,
          late, drift, moves, resided>>

\* createResidencyRouter: anything else, and 'eu' without a cluster, goes to us.
Route(tag) == IF tag = "eu" /\ euCluster THEN "eu" ELSE "us"
-----------------------------------------------------------------------------
Init ==
    /\ euCluster \in BOOLEAN
    /\ residency = [t \in Tenants |-> "us"]
    /\ topic = [e \in Events |-> ""]
    /\ deliveries = [e \in Events |-> 0]
    /\ table = [r \in Regions |-> {}]
    /\ rollup = [r \in Regions |-> [t \in Tenants |-> 0]]
    /\ erasure = [t \in Tenants |-> "none"] /\ target = [t \in Tenants |-> "us"]
    /\ late = {} /\ moves = 0 /\ resided = [t \in Tenants |-> {"us"}]
    /\ drift = [r \in Regions |-> [t \in Tenants |-> {}]]

Settings == <<euCluster, residency, moves, resided>>
Stream == <<topic, deliveries>>
Stored == <<table, rollup, drift>>
Runbook == <<erasure, target, late>>

SetResidency(t, r) ==
    /\ residency[t] # r /\ moves < MaxMoves
    /\ residency' = [residency EXCEPT ![t] = r]
    /\ moves' = moves + 1
    /\ resided' = [resided EXCEPT ![t] = @ \cup {r}]
    /\ UNCHANGED <<euCluster, Stream, Stored, Runbook>>

\* The collector enriches an event with its tenant's residency and publishes it.
Ingest(e) ==
    /\ topic[e] = "" /\ deliveries[e] = 0
    /\ topic' = [topic EXCEPT ![e] = residency[TenantOf[e]]]
    /\ UNCHANGED <<Settings, deliveries, Stored, Runbook>>

\* The topic's retention.ms: what is gone can no longer be replayed.
ExpireInTopic(e) ==
    /\ topic[e] # "" /\ deliveries[e] > 0
    /\ topic' = [topic EXCEPT ![e] = ""]
    /\ UNCHANGED <<Settings, deliveries, Stored, Runbook>>

Excuse(r, t, why) == [drift EXCEPT ![r][t] = @ \cup {why}]

\* The consumer inserts an event, and again when it replays the topic: one row of a
\* ReplacingMergeTree, one more in the sum of the rollup.
Insert(e) ==
    LET r == Route(topic[e])
        t == TenantOf[e] IN
    /\ topic[e] # "" /\ deliveries[e] < MaxDeliveries
    /\ deliveries' = [deliveries EXCEPT ![e] = @ + 1]
    /\ table' = [table EXCEPT ![r] = @ \cup {e}]
    /\ rollup' = [rollup EXCEPT ![r][t] = @ + 1]
    /\ late' = IF erasure[t] \in {"none", "requested"} THEN late ELSE late \cup {e}
    /\ drift' = IF deliveries[e] > 0 THEN Excuse(r, t, "replayed")
                ELSE IF erasure[t] = "events deleted" THEN Excuse(r, t, "between deletes")
                ELSE drift
    /\ UNCHANGED <<Settings, topic, erasure, target>>

\* The TTL of the events table; daily_rollups has none.
ExpireRow(r, e) ==
    /\ e \in table[r]
    /\ table' = [table EXCEPT ![r] = @ \ {e}]
    /\ drift' = Excuse(r, TenantOf[e], "expired")
    /\ UNCHANGED <<Settings, Stream, rollup, Runbook>>
-----------------------------------------------------------------------------
\* The runbook's steps for a whole tenant.  requestErasure is recorded first.
RequestErasure(t) ==
    /\ erasure[t] = "none"
    /\ erasure' = [erasure EXCEPT ![t] = "requested"]
    /\ target' = [target EXCEPT ![t] = Route(residency[t])]
    /\ UNCHANGED <<Settings, Stream, Stored, late>>

\* deleteTenantEvents: one statement for the events, one for the rollups.
DeleteEvents_EveryTenant(t) ==  \* mutant: the tenant is missing in the WHERE
    /\ erasure[t] = "requested"
    /\ table' = [table EXCEPT ![target[t]] = {}]
    /\ erasure' = [erasure EXCEPT ![t] = "events deleted"]
    /\ UNCHANGED <<Settings, Stream, rollup, drift, target, late>>
DeleteEvents(t) ==
    /\ erasure[t] = "requested"
    /\ table' = [table EXCEPT ![target[t]] = @ \ Of(t)]
    /\ erasure' = [erasure EXCEPT ![t] = "events deleted"]
    /\ UNCHANGED <<Settings, Stream, rollup, drift, target, late>>

DeleteRollups(t) ==
    /\ erasure[t] = "events deleted"
    /\ rollup' = [rollup EXCEPT ![target[t]][t] = 0]
    /\ drift' = [drift EXCEPT ![target[t]][t] =
                    IF table[target[t]] \cap Of(t) = {} THEN {} ELSE {"between deletes"}]
    /\ erasure' = [erasure EXCEPT ![t] = "deleted"]
    /\ UNCHANGED <<Settings, Stream, table, target, late>>

\* completeErasure, which looks at nothing.
CompleteErasure(t) ==
    /\ erasure[t] = "deleted"
    /\ erasure' = [erasure EXCEPT ![t] = "completed"]
    /\ UNCHANGED <<Settings, Stream, Stored, target, late>>

\* deleteEndUserEvents: the events of a session, and nothing of the rollups.
DeleteEndUserEvents(t, s, r) ==
    LET theirs == {e \in table[r] : TenantOf[e] = t /\ SessionOf[e] = s} IN
    /\ r = Route(residency[t]) /\ theirs # {}
    /\ table' = [table EXCEPT ![r] = @ \ theirs]
    /\ drift' = Excuse(r, t, "end user erased")
    /\ UNCHANGED <<Settings, Stream, rollup, Runbook>>

Next ==
    \/ \E e \in Events : Ingest(e) \/ Insert(e) \/ ExpireInTopic(e)
    \/ \E r \in Regions, e \in Events : ExpireRow(r, e)
    \/ \E t \in Tenants :
          \/ RequestErasure(t) \/ DeleteEvents(t) \/ DeleteRollups(t) \/ CompleteErasure(t)
          \/ \E r \in Regions :
                \/ SetResidency(t, r)
                \/ \E s \in Sessions : DeleteEndUserEvents(t, s, r)

Spec == Init /\ [][Next]_vars
-----------------------------------------------------------------------------
\* When an erasure is recorded as complete, what the erased cluster still holds of
\* the tenant came in after its rows were deleted: out of the topic, or as new events.
ErasedInTarget ==
    \A t \in Tenants : erasure[t] = "completed" => table[target[t]] \cap Of(t) \subseteq late

\* The rollup counts what the events table holds, between the two deletes of an
\* erasure aside, except for the reasons the code gives: a replay, an end user's
\* erasure, an insert that fell between those deletes, rows past their retention.
RollupExplained ==
    \A r \in Regions, t \in Tenants :
        \/ drift[r][t] # {}
        \/ r = target[t] /\ erasure[t] = "events deleted"
        \/ rollup[r][t] = Cardinality(table[r] \cap Of(t))

\* Erasure takes nothing of another tenant: what was inserted and not erased is there.
OthersUntouched ==
    \A e \in Events :
        LET t == TenantOf[e] IN
        /\ deliveries[e] > 0 /\ erasure[t] \in {"none", "requested"}
        /\ \A r \in Regions : drift[r][t] \cap {"expired", "end user erased"} = {}
        => \E r \in Regions : e \in table[r]

\* A row is in a region that its tenant's residency, now or earlier, routes to, and only where
\* the deployment has a cluster.
InOwnRegion ==
    \A r \in Regions : \A e \in table[r] :
        \E tag \in resided[TenantOf[e]] : r = Route(tag)
OnlyWhereDeployed == ~euCluster => table["eu"] = {}

DataPlaneSafe ==
    ErasedInTarget /\ RollupExplained /\ OthersUntouched /\ InOwnRegion /\ OnlyWhereDeployed
=============================================================================
