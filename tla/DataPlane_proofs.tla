-------------------------- MODULE DataPlane_proofs --------------------------
(***************************************************************************)
(* Proofs about the databases, each for all values of its constants.       *)
(***************************************************************************)
EXTENDS Databases, Integers, Sequences, FiniteSetTheorems, TLAPS

(***************************************************************************)
(* The rows: DataPlane, for all events, tenants, sessions and bounds.  DpInv*)
(* adds to the properties what each step of the erasure runbook leaves     *)
(* behind (ErasedSoFar), and that a row in a table was delivered, which is *)
(* why a first delivery adds one to the table as it does to the rollup.    *)
(***************************************************************************)
LEMMA DpSets ==
    /\ \A S : Dp!Cardinality(S) = Cardinality(S)
    /\ \A S : Dp!IsFiniteSet(S) <=> IsFiniteSet(S)
  BY DEF Dp!Cardinality, Cardinality, Dp!IsFiniteSet, IsFiniteSet

Reasons == {"replayed", "between deletes", "expired", "end user erased"}
Stages == {"none", "requested", "events deleted", "deleted", "completed"}

DriftTyped == dp_drift \in [Dp!Regions -> [Dp!Tenants -> SUBSET Reasons]]

DpTyped ==
    /\ dp_euCluster \in BOOLEAN /\ dp_residency \in [Dp!Tenants -> Dp!Regions]
    /\ dp_topic \in [Events -> Dp!Regions \cup {""}] /\ dp_deliveries \in [Events -> Nat]
    /\ dp_table \in [Dp!Regions -> SUBSET Events]
    /\ dp_rollup \in [Dp!Regions -> [Dp!Tenants -> Nat]]
    /\ dp_erasure \in [Dp!Tenants -> Stages] /\ dp_target \in [Dp!Tenants -> Dp!Regions]
    /\ DriftTyped /\ dp_resided \in [Dp!Tenants -> SUBSET Dp!Regions]

TablesFinite == \A r \in Dp!Regions : IsFiniteSet(dp_table[r])

OnlyDelivered == \A r \in Dp!Regions : \A e \in dp_table[r] : dp_deliveries[e] > 0

\* Once a tenant's rows were deleted, the erased cluster has only late ones.
ErasedSoFar ==
    \A t \in Dp!Tenants : dp_erasure[t] \notin {"none", "requested"} =>
       dp_table[dp_target[t]] \cap Dp!Of(t) \subseteq dp_late

\* An event in the topic has the tag of a residency its tenant has had.
TaggedAsResided ==
    \A e \in Events : dp_topic[e] # "" => dp_topic[e] \in dp_resided[TenantOf[e]]
Resides ==
    /\ \A t \in Dp!Tenants : dp_residency[t] \in dp_resided[t]
    /\ TaggedAsResided /\ Dp!InOwnRegion

DpInv ==
    /\ Resides
    /\ DpTyped /\ TablesFinite /\ OnlyDelivered /\ ErasedSoFar
    /\ Dp!RollupExplained /\ Dp!OthersUntouched /\ Dp!OnlyWhereDeployed
-----------------------------------------------------------------------------
\* A tenant's rows of a finite table are finite, and no other tenant's.
LEMMA TenantRows ==
    ASSUME DpTyped, TablesFinite
    PROVE  /\ \A r \in Dp!Regions, t \in Dp!Tenants :
                 IsFiniteSet(dp_table[r] \cap Dp!Of(t)) /\ dp_table[r] \subseteq Events
           /\ \A e \in Events : TenantOf[e] \in Dp!Tenants
           /\ \A t \in Dp!Tenants, e \in Events : e \in Dp!Of(t) <=> TenantOf[e] = t
           /\ \A e \in Events : Dp!Route(dp_topic[e]) \in Dp!Regions
<1>1. \A r \in Dp!Regions, t \in Dp!Tenants : IsFiniteSet(dp_table[r] \cap Dp!Of(t))
  BY FS_Intersection DEF TablesFinite
<1>2. \A r \in Dp!Regions : dp_table[r] \subseteq Events
  BY DEF DpTyped
<1>3. \A e \in Events : TenantOf[e] \in Dp!Tenants
  BY DEF Dp!Tenants
<1>4. \A t \in Dp!Tenants, e \in Events : e \in Dp!Of(t) <=> TenantOf[e] = t
  BY DEF Dp!Of
<1>5. \A e \in Events : Dp!Route(dp_topic[e]) \in Dp!Regions
  BY DEF Dp!Route, Dp!Regions
<1> QED  BY <1>1, <1>2, <1>3, <1>4, <1>5

\* A table of tables with one entry changed.
LEMMA EntryChanged ==
    ASSUME NEW A, NEW B, NEW C, NEW f \in [A -> [B -> C]],
           NEW a \in A, NEW b \in B, NEW c \in C
    PROVE  LET g == [f EXCEPT ![a][b] = c]
           IN  /\ g \in [A -> [B -> C]]
               /\ \A x \in A, y \in B : g[x][y] = IF x = a /\ y = b THEN c ELSE f[x][y]
<1> DEFINE g == [f EXCEPT ![a][b] = c]
           row == [f[a] EXCEPT ![b] = c]
<1>1. row \in [B -> C] /\ \A y \in B : row[y] = IF y = b THEN c ELSE f[a][y]
  OBVIOUS
<1>2. g = [f EXCEPT ![a] = row]
  OBVIOUS
<1> HIDE DEF g, row
<1>3. g \in [A -> [B -> C]] /\ \A x \in A : g[x] = IF x = a THEN row ELSE f[x]
  BY <1>1, <1>2
<1>4. \A x \in A, y \in B : g[x][y] = IF x = a /\ y = b THEN c ELSE f[x][y]
  BY <1>1, <1>3
<1> QED  BY <1>3, <1>4 DEF g

\* A reason more why a rollup and its events may differ.
LEMMA Excused ==
    ASSUME DriftTyped,
           NEW r \in Dp!Regions, NEW t \in Dp!Tenants, NEW why \in Reasons,
           dp_drift' = Dp!Excuse(r, t, why)
    PROVE  /\ DriftTyped'
           /\ dp_drift'[r][t] = dp_drift[r][t] \cup {why}
           /\ \A q \in Dp!Regions, u \in Dp!Tenants :
                 ~ (q = r /\ u = t) => dp_drift'[q][u] = dp_drift[q][u]
<1> DEFINE all == SUBSET Reasons
           c == dp_drift[r][t] \cup {why}
<1>1. dp_drift \in [Dp!Regions -> [Dp!Tenants -> all]] /\ dp_drift[r] \in [Dp!Tenants -> all]
  BY DEF DriftTyped
<1>2. c \in all
  BY <1>1
<1>3. dp_drift' = [dp_drift EXCEPT ![r][t] = c]
  BY DEF Dp!Excuse
<1> HIDE DEF all, c
<1>4. /\ dp_drift' \in [Dp!Regions -> [Dp!Tenants -> all]]
      /\ \A q \in Dp!Regions, u \in Dp!Tenants :
            dp_drift'[q][u] = IF q = r /\ u = t THEN c ELSE dp_drift[q][u]
  BY <1>1, <1>2, <1>3, EntryChanged
<1> QED  BY <1>4 DEF all, c, DriftTyped

\* A step that adds no row and leaves the settings and the topic alone.
LEMMA RegionsKept ==
    ASSUME DpInv, DpTyped',
           dp_euCluster' = dp_euCluster, dp_residency' = dp_residency, dp_resided' = dp_resided,
           dp_topic' = dp_topic,
           \A q \in Dp!Regions : dp_table'[q] \subseteq dp_table[q]
    PROVE  Resides'
<1>1. (\A t \in Dp!Tenants : dp_residency[t] \in dp_resided[t])' /\ TaggedAsResided'
  BY DEF DpInv, Resides, TaggedAsResided
<1>2. \A tag : Dp!Route(tag)' = Dp!Route(tag)
  BY DEF Dp!Route
<1>3. Dp!InOwnRegion'
  BY <1>2 DEF DpInv, Resides, Dp!InOwnRegion
<1> QED  BY <1>1, <1>3 DEF Resides

\* A step that leaves the stores and the runbook alone.
LEMMA QuietStep ==
    ASSUME DpInv, DpTyped', Resides', UNCHANGED <<dp_euCluster, dp_deliveries, Dp!Stored, Dp!Runbook>>
    PROVE  DpInv'
<1>1. /\ dp_euCluster' = dp_euCluster /\ dp_deliveries' = dp_deliveries /\ dp_table' = dp_table
      /\ dp_rollup' = dp_rollup /\ dp_drift' = dp_drift /\ dp_erasure' = dp_erasure /\ dp_target' = dp_target
      /\ dp_late' = dp_late
  BY DEF Dp!Stored, Dp!Runbook
<1>2. TablesFinite' /\ OnlyDelivered' /\ ErasedSoFar' /\ Dp!OnlyWhereDeployed'
  BY <1>1 DEF DpInv, TablesFinite, OnlyDelivered, ErasedSoFar, Dp!OnlyWhereDeployed
<1>3. Dp!RollupExplained'
  BY <1>1 DEF DpInv, Dp!RollupExplained
<1>4. Dp!OthersUntouched'
  BY <1>1 DEF DpInv, Dp!OthersUntouched
<1> QED  BY <1>2, <1>3, <1>4 DEF DpInv

\* A change of residency.
LEMMA SettingStep ==
    ASSUME DpInv, NEW t \in Dp!Tenants, NEW r \in Dp!Regions, Dp!SetResidency(t, r)
    PROVE  DpInv'
<1>1. DpTyped'
  BY DEF DpInv, DpTyped, DriftTyped, Dp!SetResidency, Dp!Stream, Dp!Stored, Dp!Runbook
<1>2. /\ dp_euCluster' = dp_euCluster /\ dp_topic' = dp_topic /\ dp_table' = dp_table
      /\ dp_residency' = [dp_residency EXCEPT ![t] = r]
      /\ dp_resided' = [dp_resided EXCEPT ![t] = dp_resided[t] \cup {r}]
      /\ dp_resided \in [Dp!Tenants -> SUBSET Dp!Regions] /\ dp_residency \in [Dp!Tenants -> Dp!Regions]
  BY DEF DpInv, DpTyped, Dp!SetResidency, Dp!Stream, Dp!Stored
<1>3. \A u \in Dp!Tenants :
        dp_resided[u] \subseteq dp_resided'[u] /\ dp_residency'[u] \in dp_resided[u] \cup dp_resided'[u]
  BY <1>2 DEF DpInv, Resides
<1>4. Resides'
  <2>1. (\A u \in Dp!Tenants : dp_residency[u] \in dp_resided[u])'
    BY <1>3
  <2>2. \A e \in Events : TenantOf[e] \in Dp!Tenants
    BY DEF Dp!Tenants
  <2>3. TaggedAsResided'
    BY <1>2, <1>3, <2>2 DEF DpInv, Resides, TaggedAsResided
  <2>4. \A tag : Dp!Route(tag)' = Dp!Route(tag)
    BY <1>2 DEF Dp!Route
  <2>5. \A q \in Dp!Regions : \A e \in dp_table[q] : e \in Events
    BY DEF DpInv, DpTyped
  <2>6. Dp!InOwnRegion'
    BY <1>2, <1>3, <2>2, <2>4, <2>5 DEF DpInv, Resides, Dp!InOwnRegion
  <2> QED  BY <2>1, <2>3, <2>6 DEF Resides
<1> QED  BY <1>1, <1>4, QuietStep DEF Dp!SetResidency, Dp!Stream

\* An event enters the topic, or expires in it.
LEMMA TopicStep ==
    ASSUME DpInv, NEW e \in Events, Dp!Ingest(e) \/ Dp!ExpireInTopic(e)
    PROVE  DpInv'
<1>1. dp_residency[TenantOf[e]] \in Dp!Regions
  BY TenantRows DEF DpInv, DpTyped
<1>2. DpTyped' /\ UNCHANGED <<dp_euCluster, dp_deliveries, Dp!Stored, Dp!Runbook>>
  BY <1>1 DEF DpInv, DpTyped, DriftTyped, Dp!Ingest, Dp!ExpireInTopic, Dp!Settings, Dp!Stored,
     Dp!Runbook
<1>3. /\ dp_euCluster' = dp_euCluster /\ dp_residency' = dp_residency /\ dp_resided' = dp_resided
      /\ dp_table' = dp_table
      /\ \/ dp_topic' = [dp_topic EXCEPT ![e] = dp_residency[TenantOf[e]]]
         \/ dp_topic' = [dp_topic EXCEPT ![e] = ""]
      /\ dp_topic \in [Events -> Dp!Regions \cup {""}]
  BY DEF DpInv, DpTyped, Dp!Ingest, Dp!ExpireInTopic, Dp!Settings, Dp!Stored
<1>4. Resides'
  <2>1. TenantOf[e] \in Dp!Tenants
    BY DEF Dp!Tenants
  <2>2. (\A t \in Dp!Tenants : dp_residency[t] \in dp_resided[t])'
    BY <1>3 DEF DpInv, Resides
  <2>3. TaggedAsResided'
    BY <1>3, <2>1 DEF DpInv, Resides, TaggedAsResided
  <2>4. \A tag : Dp!Route(tag)' = Dp!Route(tag)
    BY <1>3 DEF Dp!Route
  <2>5. Dp!InOwnRegion'
    BY <1>3, <2>4 DEF DpInv, Resides, Dp!InOwnRegion
  <2> QED  BY <2>2, <2>3, <2>5 DEF Resides
<1> QED  BY <1>2, <1>4, QuietStep

\* A row more in the table, and one more in the rollup: of a first delivery both
\* count the same.
LEMMA InsertStep ==
    ASSUME DpInv, NEW e \in Events, Dp!Insert(e)
    PROVE  DpInv'
<1> DEFINE r == Dp!Route(dp_topic[e])
           t == TenantOf[e]
<1>1. /\ DpTyped /\ r \in Dp!Regions /\ t \in Dp!Tenants
      /\ \A u \in Dp!Tenants : e \in Dp!Of(u) <=> u = t
  BY TenantRows DEF DpInv
<1>2. /\ dp_deliveries' = [dp_deliveries EXCEPT ![e] = dp_deliveries[e] + 1]
      /\ dp_table' = [dp_table EXCEPT ![r] = dp_table[r] \cup {e}]
      /\ dp_rollup' = [dp_rollup EXCEPT ![r][t] = dp_rollup[r][t] + 1]
      /\ dp_late' = IF dp_erasure[t] \in {"none", "requested"} THEN dp_late ELSE dp_late \cup {e}
      /\ dp_drift' = IF dp_deliveries[e] > 0 THEN Dp!Excuse(r, t, "replayed")
                  ELSE IF dp_erasure[t] = "events deleted" THEN Dp!Excuse(r, t, "between deletes")
                  ELSE dp_drift
      /\ UNCHANGED <<dp_euCluster, dp_residency, dp_resided, dp_topic, dp_erasure, dp_target>>
      /\ r = "eu" => dp_euCluster
  BY DEF Dp!Insert, Dp!Settings, Dp!Route
<1> HIDE DEF r, t
<1>d. /\ DriftTyped'
      /\ \A q \in Dp!Regions, u \in Dp!Tenants :
            /\ dp_drift[q][u] \subseteq dp_drift'[q][u]
            /\ dp_drift'[q][u] \cap {"expired", "end user erased"} =
               dp_drift[q][u] \cap {"expired", "end user erased"}
      /\ dp_drift'[r][t] = {} => ~ (dp_deliveries[e] > 0) /\ dp_erasure[t] # "events deleted"
  <2>1. DriftTyped
    BY <1>1 DEF DpTyped
  <2>2. ASSUME NEW why \in {"replayed", "between deletes"}, dp_drift' = Dp!Excuse(r, t, why)
        PROVE  /\ DriftTyped'
               /\ dp_drift'[r][t] = dp_drift[r][t] \cup {why}
               /\ \A q \in Dp!Regions, u \in Dp!Tenants :
                     ~ (q = r /\ u = t) => dp_drift'[q][u] = dp_drift[q][u]
    <3>1. why \in Reasons /\ r \in Dp!Regions /\ t \in Dp!Tenants
      BY <1>1 DEF Reasons
    <3> QED  BY <2>1, <2>2, <3>1, Excused
  <2>3. ASSUME NEW why \in {"replayed", "between deletes"}, dp_drift' = Dp!Excuse(r, t, why)
        PROVE  /\ \A q \in Dp!Regions, u \in Dp!Tenants :
                     /\ dp_drift[q][u] \subseteq dp_drift'[q][u]
                     /\ dp_drift'[q][u] \cap {"expired", "end user erased"} =
                        dp_drift[q][u] \cap {"expired", "end user erased"}
               /\ dp_drift'[r][t] # {}
    BY <1>1, <2>2, <2>3
  <2>4. CASE dp_deliveries[e] > 0
    BY <1>2, <2>2, <2>3, <2>4
  <2>5. CASE ~ (dp_deliveries[e] > 0) /\ dp_erasure[t] = "events deleted"
    BY <1>2, <2>2, <2>3, <2>5
  <2>6. CASE ~ (dp_deliveries[e] > 0) /\ dp_erasure[t] # "events deleted"
    <3>1. dp_drift' = dp_drift
      BY <1>2, <2>6
    <3>2. DriftTyped'
      BY <2>1, <3>1 DEF DriftTyped
    <3> QED  BY <2>6, <3>1, <3>2
  <2> QED  BY <2>4, <2>5, <2>6
<1>r. /\ dp_rollup' \in [Dp!Regions -> [Dp!Tenants -> Nat]]
      /\ \A q \in Dp!Regions, u \in Dp!Tenants :
            dp_rollup'[q][u] = IF q = r /\ u = t THEN dp_rollup[r][t] + 1 ELSE dp_rollup[q][u]
  <2>1. dp_rollup \in [Dp!Regions -> [Dp!Tenants -> Nat]]
    BY <1>1 DEF DpTyped
  <2>2. r \in Dp!Regions /\ t \in Dp!Tenants
    BY <1>1
  <2>3. dp_rollup[r] \in [Dp!Tenants -> Nat]
    BY <2>1, <2>2
  <2>4. dp_rollup[r][t] \in Nat
    BY <2>2, <2>3
  <2> DEFINE n == dp_rollup[r][t] + 1
  <2>5. n \in Nat
    BY <2>4
  <2>6. dp_rollup' = [dp_rollup EXCEPT ![r][t] = n]
    BY <1>2
  <2> HIDE DEF n
  <2>7. /\ dp_rollup' \in [Dp!Regions -> [Dp!Tenants -> Nat]]
        /\ \A q \in Dp!Regions, u \in Dp!Tenants :
              dp_rollup'[q][u] = IF q = r /\ u = t THEN n ELSE dp_rollup[q][u]
    BY <2>1, <2>2, <2>5, <2>6, EntryChanged
  <2> QED  BY <2>7 DEF n
<1>4. DpTyped'
  <2>1. dp_table \in [Dp!Regions -> SUBSET Events] /\ dp_deliveries \in [Events -> Nat]
    BY <1>1 DEF DpTyped
  <2>2. dp_table[r] \cup {e} \in SUBSET Events
    BY <1>1, <2>1
  <2>3. dp_deliveries[e] + 1 \in Nat
    BY <2>1
  <2>4. dp_table' \in [Dp!Regions -> SUBSET Events] /\ dp_deliveries' \in [Events -> Nat]
    BY <1>2, <2>1, <2>2, <2>3
  <2> QED  BY <1>1, <1>2, <1>d, <1>r, <2>4 DEF DpTyped
<1>5. /\ \A q \in Dp!Regions : dp_table'[q] = IF q = r THEN dp_table[q] \cup {e} ELSE dp_table[q]
      /\ \A f \in Events :
            dp_deliveries'[f] = IF f = e THEN dp_deliveries[e] + 1 ELSE dp_deliveries[f]
      /\ dp_deliveries[e] \in Nat
  BY <1>1, <1>2 DEF DpTyped
<1>6. TablesFinite' /\ OnlyDelivered'
  <2>1. ASSUME NEW q \in Dp!Regions
        PROVE  IsFiniteSet(dp_table'[q])
    <3>1. IsFiniteSet(dp_table[q]) /\ IsFiniteSet(dp_table[q] \cup {e})
      BY FS_AddElement DEF DpInv, TablesFinite
    <3>2. dp_table'[q] = dp_table[q] \/ dp_table'[q] = dp_table[q] \cup {e}
      BY <1>5
    <3> QED  BY <3>1, <3>2
  <2>2. ASSUME NEW q \in Dp!Regions, NEW f \in dp_table'[q]
        PROVE  dp_deliveries'[f] > 0
    <3>1. CASE f = e
      BY <1>5, <3>1
    <3>2. CASE f # e
      <4>1. f \in dp_table[q]
        BY <1>5, <3>2
      <4>2. f \in Events /\ dp_deliveries[f] > 0
        BY <4>1, TenantRows DEF DpInv, OnlyDelivered
      <4> QED  BY <1>5, <3>2, <4>2
    <3> QED  BY <3>1, <3>2
  <2> QED  BY <2>1, <2>2 DEF TablesFinite, OnlyDelivered
<1>7. ErasedSoFar'
  <2> SUFFICES ASSUME NEW u \in Dp!Tenants, dp_erasure[u] \notin {"none", "requested"}
               PROVE  dp_table'[dp_target[u]] \cap Dp!Of(u) \subseteq dp_late'
    BY <1>2 DEF ErasedSoFar
  <2>1. dp_target[u] \in Dp!Regions /\ dp_table[dp_target[u]] \cap Dp!Of(u) \subseteq dp_late
    BY <1>1 DEF DpInv, ErasedSoFar, DpTyped
  <2>2. dp_late \subseteq dp_late' /\ (u = t => e \in dp_late')
    BY <1>2
  <2> QED  BY <1>1, <1>5, <2>1, <2>2
<1>8. Dp!RollupExplained'
  <2> SUFFICES ASSUME NEW q \in Dp!Regions, NEW u \in Dp!Tenants, dp_drift'[q][u] = {},
                      ~ (q = dp_target[u] /\ dp_erasure[u] = "events deleted")
               PROVE  dp_rollup'[q][u] = Cardinality(dp_table'[q] \cap Dp!Of(u))
    BY <1>2, DpSets DEF Dp!RollupExplained
  <2>1. dp_drift[q][u] = {}
    BY <1>d
  <2>2. dp_rollup[q][u] = Cardinality(dp_table[q] \cap Dp!Of(u))
    BY <2>1, DpSets DEF DpInv, Dp!RollupExplained
  <2>3. CASE q = r /\ u = t
    <3>1. ~ (dp_deliveries[e] > 0)
      BY <1>d, <2>3
    <3>2. e \notin dp_table[q]
      BY <3>1 DEF DpInv, OnlyDelivered
    <3>3. dp_table'[q] \cap Dp!Of(u) = (dp_table[q] \cap Dp!Of(u)) \cup {e}
      BY <1>1, <1>5, <2>3
    <3>4. IsFiniteSet(dp_table[q] \cap Dp!Of(u))
      BY TenantRows DEF DpInv
    <3>5. Cardinality(dp_table'[q] \cap Dp!Of(u)) = Cardinality(dp_table[q] \cap Dp!Of(u)) + 1
      BY <3>2, <3>3, <3>4, FS_AddElement
    <3>6. dp_rollup'[q][u] = dp_rollup[q][u] + 1
      BY <1>r, <2>3
    <3> QED  BY <2>2, <3>5, <3>6
  <2>4. CASE ~ (q = r /\ u = t)
    <3>1. dp_table'[q] \cap Dp!Of(u) = dp_table[q] \cap Dp!Of(u)
      BY <1>1, <1>5, <2>4
    <3>2. dp_rollup'[q][u] = dp_rollup[q][u]
      BY <1>r, <2>4
    <3> QED  BY <2>2, <3>1, <3>2
  <2> QED  BY <2>3, <2>4
<1>9. Dp!OthersUntouched'
  <2> SUFFICES ASSUME NEW f \in Events, dp_deliveries'[f] > 0,
                      dp_erasure[TenantOf[f]] \in {"none", "requested"},
                      \A q \in Dp!Regions :
                         dp_drift'[q][TenantOf[f]] \cap {"expired", "end user erased"} = {}
               PROVE  \E q \in Dp!Regions : f \in dp_table'[q]
    BY <1>2 DEF Dp!OthersUntouched
  <2>1. CASE f = e
    BY <1>1, <1>5, <2>1
  <2>2. CASE f # e
    <3>1. \A q \in Dp!Regions :
             dp_drift[q][TenantOf[f]] \cap {"expired", "end user erased"} = {}
      BY <1>d, TenantRows DEF DpInv
    <3>2. PICK q \in Dp!Regions : f \in dp_table[q]
      BY <1>5, <2>2, <3>1 DEF DpInv, Dp!OthersUntouched
    <3> QED  BY <1>5, <3>2
  <2> QED  BY <2>1, <2>2
<1>10. Dp!OnlyWhereDeployed'
  <2>1. "eu" \in Dp!Regions
    BY DEF Dp!Regions
  <2> QED  BY <1>2, <1>5, <2>1 DEF DpInv, Dp!OnlyWhereDeployed
<1>11. Resides'
  <2>0. /\ dp_euCluster' = dp_euCluster /\ dp_residency' = dp_residency /\ dp_resided' = dp_resided
        /\ dp_topic' = dp_topic /\ dp_topic[e] # ""
    BY DEF Dp!Insert, Dp!Settings
  <2>1. (\A u \in Dp!Tenants : dp_residency[u] \in dp_resided[u])' /\ TaggedAsResided'
    BY <2>0 DEF DpInv, Resides, TaggedAsResided
  <2>2. \A tag : Dp!Route(tag)' = Dp!Route(tag)
    BY <2>0 DEF Dp!Route
  <2>3. dp_topic[e] \in dp_resided[TenantOf[e]]
    BY <2>0 DEF DpInv, Resides, TaggedAsResided
  <2>4. ASSUME NEW q \in Dp!Regions, NEW f \in dp_table'[q]
        PROVE  \E tag \in dp_resided[TenantOf[f]] : q = Dp!Route(tag)
    <3>1. CASE f \in dp_table[q]
      BY <3>1 DEF DpInv, Resides, Dp!InOwnRegion
    <3>2. CASE f \notin dp_table[q]
      <4>1. f = e /\ q = r
        BY <1>5, <3>2
      <4> QED  BY <2>3, <4>1 DEF r
    <3> QED  BY <3>1, <3>2
  <2>5. Dp!InOwnRegion'
    BY <2>0, <2>2, <2>4 DEF Dp!InOwnRegion
  <2> QED  BY <2>1, <2>5 DEF Resides
<1> QED  BY <1>4, <1>6, <1>7, <1>8, <1>9, <1>10, <1>11 DEF DpInv

\* Rows of one tenant leave one table, with the reason recorded.
LEMMA RowsLeave ==
    ASSUME DpInv, NEW r \in Dp!Regions, NEW t \in Dp!Tenants,
           NEW why \in {"expired", "end user erased"},
           dp_table' \in [Dp!Regions -> SUBSET Events],
           \A q \in Dp!Regions : dp_table'[q] \subseteq dp_table[q],
           \A q \in Dp!Regions : \A f \in dp_table[q] :
              ~ (q = r /\ TenantOf[f] = t) => f \in dp_table'[q],
           dp_drift' = Dp!Excuse(r, t, why),
           UNCHANGED <<Dp!Settings, Dp!Stream, dp_rollup, Dp!Runbook>>
    PROVE  DpInv'
<1>1. /\ dp_euCluster' = dp_euCluster /\ dp_residency' = dp_residency /\ dp_topic' = dp_topic
      /\ dp_deliveries' = dp_deliveries /\ dp_rollup' = dp_rollup /\ dp_erasure' = dp_erasure
      /\ dp_target' = dp_target /\ dp_late' = dp_late /\ dp_resided' = dp_resided
  BY DEF Dp!Settings, Dp!Stream, Dp!Runbook
<1>2. DriftTyped /\ why \in Reasons
  BY DEF DpInv, DpTyped, Reasons
<1>3. /\ DriftTyped'
      /\ dp_drift'[r][t] = dp_drift[r][t] \cup {why}
      /\ \A q \in Dp!Regions, u \in Dp!Tenants :
            ~ (q = r /\ u = t) => dp_drift'[q][u] = dp_drift[q][u]
  BY <1>2, Excused
<1>4. DpTyped'
  BY <1>1, <1>3 DEF DpInv, DpTyped
<1>5. TablesFinite' /\ OnlyDelivered'
  <2>1. TablesFinite'
    BY FS_Subset DEF DpInv, TablesFinite
  <2>2. OnlyDelivered'
    BY <1>1 DEF DpInv, OnlyDelivered
  <2> QED  BY <2>1, <2>2
<1>6. ErasedSoFar'
  <2> SUFFICES ASSUME NEW u \in Dp!Tenants, dp_erasure[u] \notin {"none", "requested"}
               PROVE  dp_table'[dp_target[u]] \cap Dp!Of(u) \subseteq dp_late
    BY <1>1 DEF ErasedSoFar
  <2>1. dp_target[u] \in Dp!Regions /\ dp_table[dp_target[u]] \cap Dp!Of(u) \subseteq dp_late
    BY DEF DpInv, ErasedSoFar, DpTyped
  <2> QED  BY <2>1
<1>7. Dp!RollupExplained'
  <2> SUFFICES ASSUME NEW q \in Dp!Regions, NEW u \in Dp!Tenants, dp_drift'[q][u] = {},
                      ~ (q = dp_target[u] /\ dp_erasure[u] = "events deleted")
               PROVE  dp_rollup[q][u] = Cardinality(dp_table'[q] \cap Dp!Of(u))
    BY <1>1, DpSets DEF Dp!RollupExplained
  <2>1. ~ (q = r /\ u = t) /\ dp_drift[q][u] = {}
    BY <1>3
  <2>2. dp_table'[q] \cap Dp!Of(u) = dp_table[q] \cap Dp!Of(u)
    <3>1. \A f \in dp_table[q] \cap Dp!Of(u) : TenantOf[f] = u
      BY DEF Dp!Of
    <3> QED  BY <2>1, <3>1
  <2> QED  BY <2>1, <2>2, DpSets DEF DpInv, Dp!RollupExplained
<1>8. Dp!OthersUntouched'
  <2> SUFFICES ASSUME NEW f \in Events, dp_deliveries[f] > 0,
                      dp_erasure[TenantOf[f]] \in {"none", "requested"},
                      \A q \in Dp!Regions :
                         dp_drift'[q][TenantOf[f]] \cap {"expired", "end user erased"} = {}
               PROVE  \E q \in Dp!Regions : f \in dp_table'[q]
    BY <1>1 DEF Dp!OthersUntouched
  <2>1. TenantOf[f] \in Dp!Tenants
    BY DEF Dp!Tenants
  <2>2. TenantOf[f] # t
    <3>1. why \in dp_drift'[r][t] \cap {"expired", "end user erased"}
      BY <1>3
    <3> QED  BY <3>1
  <2>3. \A q \in Dp!Regions : dp_drift[q][TenantOf[f]] \cap {"expired", "end user erased"} = {}
    <3>1. \A q \in Dp!Regions : dp_drift'[q][TenantOf[f]] = dp_drift[q][TenantOf[f]]
      BY ONLY <1>3, <2>1, <2>2
    <3> QED  BY <3>1
  <2>4. PICK q \in Dp!Regions : f \in dp_table[q]
    BY <2>3 DEF DpInv, Dp!OthersUntouched
  <2> QED  BY <2>2, <2>4
<1>9. Dp!OnlyWhereDeployed'
  <2>1. "eu" \in Dp!Regions
    BY DEF Dp!Regions
  <2> QED  BY <1>1, <2>1 DEF DpInv, Dp!OnlyWhereDeployed
<1>10. Resides'
  BY <1>1, <1>4, RegionsKept
<1> QED  BY <1>10, <1>4, <1>5, <1>6, <1>7, <1>8, <1>9 DEF DpInv

\* Retention takes a row, or the erasure of an end user the rows of a session.
LEMMA ExpiryStep ==
    ASSUME DpInv, NEW r \in Dp!Regions, NEW e \in Events, Dp!ExpireRow(r, e)
    PROVE  DpInv'
<1>1. /\ dp_table \in [Dp!Regions -> SUBSET Events] /\ TenantOf[e] \in Dp!Tenants
      /\ dp_table' = [dp_table EXCEPT ![r] = dp_table[r] \ {e}]
      /\ dp_drift' = Dp!Excuse(r, TenantOf[e], "expired")
      /\ UNCHANGED <<Dp!Settings, Dp!Stream, dp_rollup, Dp!Runbook>>
  BY DEF DpInv, DpTyped, Dp!ExpireRow, Dp!Tenants
<1>2. /\ dp_table' \in [Dp!Regions -> SUBSET Events]
      /\ \A q \in Dp!Regions : dp_table'[q] \subseteq dp_table[q]
      /\ \A q \in Dp!Regions : \A f \in dp_table[q] :
            ~ (q = r /\ TenantOf[f] = TenantOf[e]) => f \in dp_table'[q]
  BY <1>1
<1> QED  BY <1>1, <1>2, RowsLeave

\* The erasure of an end user.
LEMMA EndUserStep ==
    ASSUME DpInv, NEW t \in Dp!Tenants, NEW s \in Dp!Sessions, NEW r \in Dp!Regions,
           Dp!DeleteEndUserEvents(t, s, r)
    PROVE  DpInv'
<1> DEFINE theirs == {e \in dp_table[r] : TenantOf[e] = t /\ SessionOf[e] = s}
<1>1. /\ dp_table \in [Dp!Regions -> SUBSET Events]
      /\ dp_table' = [dp_table EXCEPT ![r] = dp_table[r] \ theirs]
      /\ dp_drift' = Dp!Excuse(r, t, "end user erased")
      /\ UNCHANGED <<Dp!Settings, Dp!Stream, dp_rollup, Dp!Runbook>>
  BY DEF DpInv, DpTyped, Dp!DeleteEndUserEvents
<1>2. /\ dp_table' \in [Dp!Regions -> SUBSET Events]
      /\ \A q \in Dp!Regions : dp_table'[q] \subseteq dp_table[q]
      /\ \A q \in Dp!Regions : \A f \in dp_table[q] :
            ~ (q = r /\ TenantOf[f] = t) => f \in dp_table'[q]
  BY <1>1
<1> QED  BY <1>1, <1>2, RowsLeave

\* The steps of the runbook that touch no row: its start, and its completion.
LEMMA RecordStep ==
    ASSUME DpInv, NEW t \in Dp!Tenants, Dp!RequestErasure(t) \/ Dp!CompleteErasure(t)
    PROVE  DpInv'
<1>1. /\ dp_euCluster' = dp_euCluster /\ dp_residency' = dp_residency /\ dp_topic' = dp_topic
      /\ dp_deliveries' = dp_deliveries /\ dp_table' = dp_table /\ dp_rollup' = dp_rollup /\ dp_drift' = dp_drift
      /\ dp_late' = dp_late /\ dp_resided' = dp_resided
  BY DEF Dp!RequestErasure, Dp!CompleteErasure, Dp!Settings, Dp!Stream, Dp!Stored
<1>2. Dp!Route(dp_residency[t]) \in Dp!Regions
  BY DEF Dp!Route, Dp!Regions
<1>3. /\ dp_erasure \in [Dp!Tenants -> Stages] /\ dp_target \in [Dp!Tenants -> Dp!Regions]
      /\ dp_erasure' \in [Dp!Tenants -> Stages] /\ dp_target' \in [Dp!Tenants -> Dp!Regions]
  BY <1>2 DEF DpInv, DpTyped, Dp!RequestErasure, Dp!CompleteErasure, Stages
<1>4. DpTyped'
  BY <1>1, <1>3 DEF DpInv, DpTyped, DriftTyped
<1>5. /\ \A u \in Dp!Tenants : u # t => dp_erasure'[u] = dp_erasure[u] /\ dp_target'[u] = dp_target[u]
      /\ \/ dp_erasure[t] = "none" /\ dp_erasure'[t] = "requested"
         \/ dp_erasure[t] = "deleted" /\ dp_erasure'[t] = "completed" /\ dp_target'[t] = dp_target[t]
  BY <1>3 DEF Dp!RequestErasure, Dp!CompleteErasure
<1>6. TablesFinite' /\ OnlyDelivered' /\ Dp!OnlyWhereDeployed'
  BY <1>1 DEF DpInv, TablesFinite, OnlyDelivered, Dp!OnlyWhereDeployed
<1>7. ErasedSoFar'
  BY <1>1, <1>5 DEF DpInv, ErasedSoFar
<1>8. Dp!RollupExplained'
  BY <1>1, <1>5 DEF DpInv, Dp!RollupExplained
<1>9. Dp!OthersUntouched'
  <2> SUFFICES ASSUME NEW f \in Events, dp_deliveries[f] > 0,
                      dp_erasure'[TenantOf[f]] \in {"none", "requested"},
                      \A q \in Dp!Regions :
                         dp_drift[q][TenantOf[f]] \cap {"expired", "end user erased"} = {}
               PROVE  \E q \in Dp!Regions : f \in dp_table[q]
    BY <1>1 DEF Dp!OthersUntouched
  <2>1. TenantOf[f] \in Dp!Tenants
    BY DEF Dp!Tenants
  <2>2. dp_erasure[TenantOf[f]] \in {"none", "requested"}
    BY <1>5, <2>1
  <2> QED  BY <2>2 DEF DpInv, Dp!OthersUntouched
<1>10. Resides'
  BY <1>1, <1>4, RegionsKept
<1> QED  BY <1>10, <1>4, <1>6, <1>7, <1>8, <1>9 DEF DpInv

\* The first delete: the tenant's rows leave the erased cluster.
LEMMA DeleteEventsStep ==
    ASSUME DpInv, NEW t \in Dp!Tenants, Dp!DeleteEvents(t)
    PROVE  DpInv'
<1> DEFINE r == dp_target[t]
<1>1. /\ dp_euCluster' = dp_euCluster /\ dp_residency' = dp_residency /\ dp_topic' = dp_topic
      /\ dp_deliveries' = dp_deliveries /\ dp_rollup' = dp_rollup /\ dp_drift' = dp_drift
      /\ dp_target' = dp_target /\ dp_late' = dp_late /\ dp_resided' = dp_resided
      /\ dp_table' = [dp_table EXCEPT ![r] = dp_table[r] \ Dp!Of(t)]
      /\ dp_erasure' = [dp_erasure EXCEPT ![t] = "events deleted"]
  BY DEF Dp!DeleteEvents, Dp!Settings, Dp!Stream
<1>2. /\ dp_erasure \in [Dp!Tenants -> Stages] /\ dp_erasure' \in [Dp!Tenants -> Stages]
      /\ \A u \in Dp!Tenants : dp_erasure'[u] = IF u = t THEN "events deleted" ELSE dp_erasure[u]
      /\ dp_erasure[t] = "requested"
  BY <1>1 DEF DpInv, DpTyped, Stages, Dp!DeleteEvents
<1>3. dp_table \in [Dp!Regions -> SUBSET Events] /\ r \in Dp!Regions
  BY DEF DpInv, DpTyped
<1> HIDE DEF r
<1>4. /\ dp_table' \in [Dp!Regions -> SUBSET Events]
      /\ dp_table'[r] = dp_table[r] \ Dp!Of(t)
      /\ \A q \in Dp!Regions : dp_table'[q] \subseteq dp_table[q] /\ (q # r => dp_table'[q] = dp_table[q])
  BY <1>1, <1>3
<1>5. DpTyped'
  BY <1>1, <1>2, <1>4 DEF DpInv, DpTyped, DriftTyped
<1>6. TablesFinite' /\ OnlyDelivered'
  <2>1. TablesFinite'
    BY <1>4, FS_Subset DEF DpInv, TablesFinite
  <2>2. OnlyDelivered'
    BY <1>1, <1>4 DEF DpInv, OnlyDelivered
  <2> QED  BY <2>1, <2>2
<1>7. ErasedSoFar'
  <2> SUFFICES ASSUME NEW u \in Dp!Tenants, dp_erasure'[u] \notin {"none", "requested"}
               PROVE  dp_table'[dp_target[u]] \cap Dp!Of(u) \subseteq dp_late
    BY <1>1 DEF ErasedSoFar
  <2>1. CASE u = t
    BY <1>4, <2>1 DEF r
  <2>2. CASE u # t
    <3>1. dp_table[dp_target[u]] \cap Dp!Of(u) \subseteq dp_late /\ dp_target[u] \in Dp!Regions
      BY <1>2, <2>2 DEF DpInv, ErasedSoFar, DpTyped
    <3> QED  BY <1>4, <3>1
  <2> QED  BY <2>1, <2>2
<1>8. Dp!RollupExplained'
  <2> SUFFICES ASSUME NEW q \in Dp!Regions, NEW u \in Dp!Tenants, dp_drift[q][u] = {},
                      ~ (q = dp_target[u] /\ dp_erasure'[u] = "events deleted")
               PROVE  dp_rollup[q][u] = Cardinality(dp_table'[q] \cap Dp!Of(u))
    BY <1>1, DpSets DEF Dp!RollupExplained
  <2>1. ~ (q = r /\ u = t) /\ ~ (q = dp_target[u] /\ dp_erasure[u] = "events deleted")
    BY <1>2 DEF r
  <2>2. dp_table'[q] \cap Dp!Of(u) = dp_table[q] \cap Dp!Of(u)
    <3>1. CASE q # r
      BY <1>4, <3>1
    <3>2. CASE q = r /\ u # t
      BY <1>4, <3>2 DEF Dp!Of
    <3> QED  BY <2>1, <3>1, <3>2
  <2> QED  BY <2>1, <2>2, DpSets DEF DpInv, Dp!RollupExplained
<1>9. Dp!OthersUntouched'
  <2> SUFFICES ASSUME NEW f \in Events, dp_deliveries[f] > 0,
                      dp_erasure'[TenantOf[f]] \in {"none", "requested"},
                      \A q \in Dp!Regions :
                         dp_drift[q][TenantOf[f]] \cap {"expired", "end user erased"} = {}
               PROVE  \E q \in Dp!Regions : f \in dp_table'[q]
    BY <1>1 DEF Dp!OthersUntouched
  <2>1. TenantOf[f] \in Dp!Tenants
    BY DEF Dp!Tenants
  <2>2. TenantOf[f] # t /\ dp_erasure[TenantOf[f]] \in {"none", "requested"}
    BY <1>2, <2>1
  <2>3. PICK q \in Dp!Regions : f \in dp_table[q]
    BY <2>2 DEF DpInv, Dp!OthersUntouched
  <2>4. f \in dp_table'[q]
    BY <1>4, <2>2, <2>3 DEF Dp!Of
  <2> QED  BY <2>4
<1>10. Dp!OnlyWhereDeployed'
  <2>1. "eu" \in Dp!Regions
    BY DEF Dp!Regions
  <2> QED  BY <1>1, <1>4, <2>1 DEF DpInv, Dp!OnlyWhereDeployed
<1>11. Resides'
  BY <1>1, <1>4, <1>5, RegionsKept
<1> QED  BY <1>5, <1>6, <1>7, <1>8, <1>9, <1>10, <1>11 DEF DpInv

\* The second: the tenant's rollup starts again at zero, which is what is left of its
\* rows unless one came in between the two.
LEMMA DeleteRollupsStep ==
    ASSUME DpInv, NEW t \in Dp!Tenants, Dp!DeleteRollups(t)
    PROVE  DpInv'
<1> DEFINE r == dp_target[t]
           why == IF dp_table[r] \cap Dp!Of(t) = {} THEN {} ELSE {"between deletes"}
<1>1. /\ dp_euCluster' = dp_euCluster /\ dp_residency' = dp_residency /\ dp_topic' = dp_topic
      /\ dp_deliveries' = dp_deliveries /\ dp_table' = dp_table /\ dp_target' = dp_target /\ dp_late' = dp_late
      /\ dp_resided' = dp_resided
      /\ dp_rollup' = [dp_rollup EXCEPT ![r][t] = 0]
      /\ dp_drift' = [dp_drift EXCEPT ![r][t] = why]
      /\ dp_erasure' = [dp_erasure EXCEPT ![t] = "deleted"]
  BY DEF Dp!DeleteRollups, Dp!Settings, Dp!Stream
<1>2. /\ dp_erasure \in [Dp!Tenants -> Stages] /\ dp_erasure' \in [Dp!Tenants -> Stages]
      /\ \A u \in Dp!Tenants : dp_erasure'[u] = IF u = t THEN "deleted" ELSE dp_erasure[u]
      /\ dp_erasure[t] = "events deleted"
  BY <1>1 DEF DpInv, DpTyped, Stages, Dp!DeleteRollups
<1>3. r \in Dp!Regions /\ DriftTyped
  BY DEF DpInv, DpTyped
<1>4. /\ dp_rollup' \in [Dp!Regions -> [Dp!Tenants -> Nat]]
      /\ dp_rollup'[r][t] = 0
      /\ \A q \in Dp!Regions, u \in Dp!Tenants :
            ~ (q = r /\ u = t) => dp_rollup'[q][u] = dp_rollup[q][u]
  <2>1. dp_rollup \in [Dp!Regions -> [Dp!Tenants -> Nat]]
    BY DEF DpInv, DpTyped
  <2> DEFINE n == 0
  <2>2. n \in Nat /\ dp_rollup' = [dp_rollup EXCEPT ![r][t] = n]
    BY <1>1
  <2> HIDE DEF r, n
  <2>3. /\ dp_rollup' \in [Dp!Regions -> [Dp!Tenants -> Nat]]
        /\ \A q \in Dp!Regions, u \in Dp!Tenants :
              dp_rollup'[q][u] = IF q = r /\ u = t THEN n ELSE dp_rollup[q][u]
    BY <1>3, <2>1, <2>2, EntryChanged
  <2> QED  BY <1>3, <2>3 DEF n
<1>5. /\ DriftTyped'
      /\ dp_drift'[r][t] = why
      /\ \A q \in Dp!Regions, u \in Dp!Tenants :
            ~ (q = r /\ u = t) => dp_drift'[q][u] = dp_drift[q][u]
  <2> DEFINE all == SUBSET Reasons
  <2>1. dp_drift \in [Dp!Regions -> [Dp!Tenants -> all]]
    BY <1>3 DEF DriftTyped
  <2>2. why \in all
    BY DEF Reasons
  <2> HIDE DEF r, why, all
  <2>3. /\ dp_drift' \in [Dp!Regions -> [Dp!Tenants -> all]]
        /\ \A q \in Dp!Regions, u \in Dp!Tenants :
              dp_drift'[q][u] = IF q = r /\ u = t THEN why ELSE dp_drift[q][u]
    BY <1>1, <1>3, <2>1, <2>2, EntryChanged
  <2>4. DriftTyped'
    BY <2>3 DEF DriftTyped, all
  <2> QED  BY <1>3, <2>3, <2>4
<1> HIDE DEF r
<1>6. DpTyped'
  BY <1>1, <1>2, <1>4, <1>5 DEF DpInv, DpTyped
<1>7. TablesFinite' /\ OnlyDelivered' /\ Dp!OnlyWhereDeployed'
  BY <1>1 DEF DpInv, TablesFinite, OnlyDelivered, Dp!OnlyWhereDeployed
<1>8. ErasedSoFar'
  BY <1>1, <1>2 DEF DpInv, ErasedSoFar
<1>9. Dp!RollupExplained'
  <2> SUFFICES ASSUME NEW q \in Dp!Regions, NEW u \in Dp!Tenants, dp_drift'[q][u] = {},
                      ~ (q = dp_target[u] /\ dp_erasure'[u] = "events deleted")
               PROVE  dp_rollup'[q][u] = Cardinality(dp_table[q] \cap Dp!Of(u))
    BY <1>1, DpSets DEF Dp!RollupExplained
  <2>1. CASE q = r /\ u = t
    <3>1. dp_table[r] \cap Dp!Of(t) = {}
      BY <1>5, <2>1
    <3> QED  BY <1>4, <2>1, <3>1, FS_EmptySet
  <2>2. CASE ~ (q = r /\ u = t)
    <3>1. dp_drift[q][u] = {} /\ dp_rollup'[q][u] = dp_rollup[q][u]
      BY <1>4, <1>5, <2>2
    <3>2. ~ (q = dp_target[u] /\ dp_erasure[u] = "events deleted")
      BY <1>2, <2>2 DEF r
    <3> QED  BY <3>1, <3>2, DpSets DEF DpInv, Dp!RollupExplained
  <2> QED  BY <2>1, <2>2
<1>10. Dp!OthersUntouched'
  <2> SUFFICES ASSUME NEW f \in Events, dp_deliveries[f] > 0,
                      dp_erasure'[TenantOf[f]] \in {"none", "requested"},
                      \A q \in Dp!Regions :
                         dp_drift'[q][TenantOf[f]] \cap {"expired", "end user erased"} = {}
               PROVE  \E q \in Dp!Regions : f \in dp_table[q]
    BY <1>1 DEF Dp!OthersUntouched
  <2>1. TenantOf[f] \in Dp!Tenants
    BY DEF Dp!Tenants
  <2>2. TenantOf[f] # t /\ dp_erasure[TenantOf[f]] \in {"none", "requested"}
    BY <1>2, <2>1
  <2>3. \A q \in Dp!Regions : dp_drift[q][TenantOf[f]] \cap {"expired", "end user erased"} = {}
    <3>1. \A q \in Dp!Regions : dp_drift'[q][TenantOf[f]] = dp_drift[q][TenantOf[f]]
      BY <1>5, <2>1, <2>2, Zenon
    <3> QED  BY <3>1
  <2> QED  BY <2>2, <2>3 DEF DpInv, Dp!OthersUntouched
<1>11. Resides'
  BY <1>1, <1>6, RegionsKept
<1> QED  BY <1>6, <1>7, <1>8, <1>9, <1>10, <1>11 DEF DpInv
-----------------------------------------------------------------------------
\* Nothing is stored at the start, for any deployment.
LEMMA DpStarts == Dp!Init => DpInv
<1> SUFFICES ASSUME Dp!Init PROVE DpInv
  OBVIOUS
<1>1. /\ \A r \in Dp!Regions : dp_table[r] = {}
      /\ \A t \in Dp!Tenants : dp_erasure[t] = "none"
      /\ \A r \in Dp!Regions, t \in Dp!Tenants : dp_rollup[r][t] = 0
      /\ \A e \in Events : dp_deliveries[e] = 0
  BY DEF Dp!Init
<1>2. DpTyped
  <2>1. "us" \in Dp!Regions
    BY DEF Dp!Regions
  <2>2. dp_euCluster \in BOOLEAN
    BY DEF Dp!Init
  <2>3. dp_residency \in [Dp!Tenants -> Dp!Regions] /\ dp_target \in [Dp!Tenants -> Dp!Regions]
    BY <2>1 DEF Dp!Init
  <2>4. dp_topic \in [Events -> Dp!Regions \cup {""}] /\ dp_deliveries \in [Events -> Nat]
    BY DEF Dp!Init
  <2>5. dp_rollup \in [Dp!Regions -> [Dp!Tenants -> Nat]] /\ dp_table \in [Dp!Regions -> SUBSET Events]
    BY DEF Dp!Init
  <2>6. dp_erasure \in [Dp!Tenants -> Stages] /\ DriftTyped
    BY DEF Dp!Init, Stages, DriftTyped
  <2>7. dp_resided \in [Dp!Tenants -> SUBSET Dp!Regions]
    BY <2>1 DEF Dp!Init
  <2> QED  BY <2>2, <2>3, <2>4, <2>5, <2>6, <2>7 DEF DpTyped
<1>3. TablesFinite /\ OnlyDelivered /\ ErasedSoFar
  BY <1>1, FS_EmptySet DEF TablesFinite, OnlyDelivered, ErasedSoFar
<1>4. Dp!RollupExplained
  <2> SUFFICES ASSUME NEW r \in Dp!Regions, NEW t \in Dp!Tenants
               PROVE  dp_rollup[r][t] = Cardinality(dp_table[r] \cap Dp!Of(t))
    BY DpSets DEF Dp!RollupExplained
  <2>1. dp_table[r] \cap Dp!Of(t) = {}
    BY <1>1
  <2> QED  BY <1>1, <2>1, FS_EmptySet
<1>5. Dp!OthersUntouched
  <2>1. \A e \in Events : ~ (dp_deliveries[e] > 0)
    BY <1>1
  <2> QED  BY <2>1 DEF Dp!OthersUntouched
<1>6. Dp!OnlyWhereDeployed
  <2>1. "eu" \in Dp!Regions
    BY DEF Dp!Regions
  <2> QED  BY <1>1, <2>1 DEF Dp!OnlyWhereDeployed
<1>7. Resides
  <2>1. /\ \A t \in Dp!Tenants : dp_residency[t] \in dp_resided[t]
        /\ \A e \in Events : dp_topic[e] = ""
    BY DEF Dp!Init
  <2> QED  BY <1>1, <2>1 DEF Resides, TaggedAsResided, Dp!InOwnRegion
<1> QED  BY <1>2, <1>3, <1>4, <1>5, <1>6, <1>7 DEF DpInv

\* Every step keeps the invariant.
LEMMA DpKept == DpInv /\ [Dp!Next]_(Dp!vars) => DpInv'
<1> SUFFICES ASSUME DpInv, [Dp!Next]_(Dp!vars) PROVE DpInv'
  OBVIOUS
<1>1. CASE UNCHANGED Dp!vars
  <2>1. UNCHANGED <<dp_euCluster, dp_deliveries, Dp!Stored, Dp!Runbook>>
    BY <1>1 DEF Dp!vars, Dp!Stored, Dp!Runbook
  <2>2. DpTyped'
    BY <1>1 DEF Dp!vars, DpInv, DpTyped, DriftTyped
  <2>3. Resides'
    BY <1>1, <2>2, RegionsKept DEF Dp!vars
  <2> QED  BY <2>1, <2>2, <2>3, QuietStep
<1>2. ASSUME NEW e \in Events, Dp!Ingest(e) \/ Dp!Insert(e) \/ Dp!ExpireInTopic(e) PROVE DpInv'
  BY <1>2, TopicStep, InsertStep
<1>3. ASSUME NEW r \in Dp!Regions, NEW e \in Events, Dp!ExpireRow(r, e) PROVE DpInv'
  BY <1>3, ExpiryStep
<1>4. ASSUME NEW t \in Dp!Tenants,
             \/ Dp!RequestErasure(t) \/ Dp!DeleteEvents(t) \/ Dp!DeleteRollups(t)
             \/ Dp!CompleteErasure(t)
      PROVE  DpInv'
  BY <1>4, RecordStep, DeleteEventsStep, DeleteRollupsStep
<1>5. ASSUME NEW t \in Dp!Tenants, NEW r \in Dp!Regions, Dp!SetResidency(t, r) PROVE DpInv'
  BY <1>5, SettingStep
<1>6. ASSUME NEW t \in Dp!Tenants, NEW r \in Dp!Regions, NEW s \in Dp!Sessions,
             Dp!DeleteEndUserEvents(t, s, r)
      PROVE  DpInv'
  BY <1>6, EndUserStep
<1> QED  BY <1>1, <1>2, <1>3, <1>4, <1>5, <1>6 DEF Dp!Next

\* The inductive invariant, of every behaviour: what the properties rest on.
THEOREM DataPlaneInvariant == Dp!Spec => []DpInv
<1> QED  BY DpStarts, DpKept, PTL DEF Dp!Spec

\* For all tenants and events, however ingestion, replays, retention and erasures
\* interleave: a completed erasure left only late rows, the rollup counts the table
\* unless a named reason applies, no erasure takes another tenant's rows, and rows are
\* only where a cluster is and their tenant's residency routed to (createResidencyRouter, ch-migrate.ts, the runbook).
THEOREM DataPlaneCorrect == Dp!Spec => []DataPlaneSafe
<1>1. DpInv => DataPlaneSafe
  <2>1. DpInv => Dp!ErasedInTarget
    BY DEF DpInv, ErasedSoFar, Dp!ErasedInTarget
  <2> QED  BY <2>1 DEF DpInv, Resides, Dp!DataPlaneSafe, DataPlaneSafe
<1> QED  BY <1>1, DataPlaneInvariant, PTL
-----------------------------------------------------------------------------
(***************************************************************************)
(* The schema these tables are in: ChMigrate, for any number of services   *)
(* that start together.  ChmInv says what of the schema is there, or will  *)
(* be brought again by the service that took it away (Held), once a service*)
(* recorded or ran what brings it (Promised).                              *)
(***************************************************************************)
\* Which migration brings x, with which of its statements, and how many it has.
MigOf(x) ==
    IF x \in {"events", "executed_queries"} THEN 1
    ELSE IF x \in {"dedup_window", "daily_rollups", "daily_rollups_mv"} THEN 2 ELSE 3
StepOf(x) ==
    IF x \in {"events", "dedup_window", "retention_days"} THEN 1
    ELSE IF x \in {"executed_queries", "daily_rollups", "ttl"} THEN 2
    ELSE IF x \in {"daily_rollups_mv", "ttl_only_drop_parts"} THEN 3 ELSE 4
Count(i) == IF i = 1 THEN 2 ELSE IF i = 2 THEN 3 ELSE 4
Earlier(x, i, n) == MigOf(x) < i \/ (MigOf(x) = i /\ StepOf(x) <= n)

\* A service: its migration is its number, its statements done the next.
Down(s) == chm_at[s] = <<"down">>
Up(s) == chm_at[s] = <<"up">>
Doing(s) == chm_at[s][1]
Done(s) == chm_at[s][2]
On(s) == ~Down(s) /\ ~Up(s)

Closed(S) == S \subseteq 1..3 /\ \A i \in S : \A j \in 1..i : j \in S

ChmTyped ==
    /\ Closed(chm_recorded) /\ chm_database \subseteq Chm!Complete
    /\ chm_at \in [Consumers -> {<<"down">>, <<"up">>} \cup ((1..4) \X (0..4))]
    /\ chm_skips \in [Consumers -> SUBSET (1..3)]
    /\ chm_rows \in Nat /\ chm_lost \in Nat /\ chm_stops \in Nat /\ chm_raced \in BOOLEAN

\* What a service skips and has passed is recorded, and of all when it is up.
RecordsInv ==
    /\ \A s \in Consumers : Closed(chm_skips[s]) /\ chm_skips[s] \subseteq chm_recorded
    /\ \A s \in Consumers : On(s) => \A j \in 1..3 : j < Doing(s) => j \in chm_recorded
    /\ \A s \in Consumers : Up(s) => \A j \in 1..3 : j \in chm_recorded
    /\ chm_rows > 0 => \A j \in 1..3 : j \in chm_recorded

\* Without a race one service migrates, and knows all that is recorded.
AloneInv ==
    ~chm_raced =>
      /\ \A s, o \in Consumers : On(s) /\ On(o) => s = o
      /\ chm_lost = 0
      /\ \A s \in Consumers : On(s) =>
            \A j \in chm_recorded : j \in chm_skips[s] \/ j < Doing(s)

Ran(s, x) == On(s) /\ Doing(s) = MigOf(x) /\ StepOf(x) <= Done(s)
WillRun(s, x) ==
    /\ On(s) /\ MigOf(x) \notin chm_skips[s]
    /\ Doing(s) < MigOf(x) \/ (Doing(s) = MigOf(x) /\ Done(s) < StepOf(x))

Held(x) == x \in chm_database \/ (chm_raced /\ \E s \in Consumers : WillRun(s, x))
Promised(x) == MigOf(x) \in chm_recorded \/ \E s \in Consumers : Ran(s, x)

\* What was run is there, or will be run again by the service that took it away.
SchemaInv == ~chm_raced \/ chm_stops = 0 => \A x \in Chm!Complete : Promised(x) => Held(x)

ChmInv == ChmTyped /\ RecordsInv /\ AloneInv /\ SchemaInv
-----------------------------------------------------------------------------
\* Each thing is brought by one statement of one migration.
LEMMA Places ==
    /\ \A x \in Chm!Complete : MigOf(x) \in 1..3 /\ StepOf(x) \in 1..Count(MigOf(x))
    /\ \A x \in Chm!OnEvents : x \in Chm!Complete /\ MigOf(x) \in 2..3
    /\ \A i \in 1..3 : Count(i) \in 2..4
  BY DEF Chm!Complete, Chm!OnEvents, MigOf, StepOf, Count

\* ... namely by these.
LEMMA Table ==
    /\ Chm!Complete = {"events", "executed_queries", "dedup_window", "daily_rollups",
                       "daily_rollups_mv", "retention_days", "ttl", "ttl_only_drop_parts",
                       "citations_ttl"}
    /\ MigOf("events") = 1 /\ StepOf("events") = 1
    /\ MigOf("executed_queries") = 1 /\ StepOf("executed_queries") = 2
    /\ MigOf("dedup_window") = 2 /\ StepOf("dedup_window") = 1
    /\ MigOf("daily_rollups") = 2 /\ StepOf("daily_rollups") = 2
    /\ MigOf("daily_rollups_mv") = 2 /\ StepOf("daily_rollups_mv") = 3
    /\ MigOf("retention_days") = 3 /\ StepOf("retention_days") = 1
    /\ MigOf("ttl") = 3 /\ StepOf("ttl") = 2
    /\ MigOf("ttl_only_drop_parts") = 3 /\ StepOf("ttl_only_drop_parts") = 3
    /\ MigOf("citations_ttl") = 3 /\ StepOf("citations_ttl") = 4
<1>1. Chm!Complete = {"events", "executed_queries", "dedup_window", "daily_rollups",
                     "daily_rollups_mv", "retention_days", "ttl", "ttl_only_drop_parts",
                     "citations_ttl"}
  BY DEF Chm!Complete, Chm!OnEvents
<1> QED  BY <1>1 DEF MigOf, StepOf

\* What the proof needs of a statement, the n-th of migration i.
Fits(st, i, n) ==
    /\ st.gives \subseteq Chm!Complete
    /\ \A x \in Chm!Complete : MigOf(x) = i /\ StepOf(x) = n => x \in st.gives
    /\ st.takes = IF i = 1 /\ n = 1 THEN Chm!OnEvents ELSE {}
    /\ \A x \in st.needs : x \in Chm!Complete /\ Earlier(x, i, n - 1)

\* A statement fits when its parts do.
LEMMA FitsWhen ==
    ASSUME NEW i, NEW n, NEW needs, NEW gives, NEW takes,
           gives \subseteq Chm!Complete,
           \A x \in Chm!Complete : MigOf(x) = i /\ StepOf(x) = n => x \in gives,
           takes = IF i = 1 /\ n = 1 THEN Chm!OnEvents ELSE {},
           \A x \in needs : x \in Chm!Complete /\ Earlier(x, i, n - 1)
    PROVE  Fits(Chm!Statement(needs, gives, takes), i, n)
  BY DEF Fits, Chm!Statement

\* The statements of CH_MIGRATIONS fit.
LEMMA Statements ==
    /\ DOMAIN Chm!CH_MIGRATIONS = 1..3 /\ Len(Chm!CH_MIGRATIONS) = 3
    /\ \A i \in 1..3 : Len(Chm!CH_MIGRATIONS[i]) = Count(i)
    /\ \A i \in 1..3 : \A n \in 1..Count(i) : Fits(Chm!CH_MIGRATIONS[i][n], i, n)
<1>1. /\ Chm!CH_MIGRATIONS[1] = Chm!Ch001_events_v2
      /\ Chm!CH_MIGRATIONS[2] = Chm!Ch002_daily_rollups
      /\ Chm!CH_MIGRATIONS[3] = Chm!Ch003_retention_ttl
  BY DEF Chm!CH_MIGRATIONS
<1>2. DOMAIN Chm!CH_MIGRATIONS = 1..3 /\ Len(Chm!CH_MIGRATIONS) = 3
  BY DEF Chm!CH_MIGRATIONS
<1>3. Len(Chm!Ch001_events_v2) = 2 /\ Len(Chm!Ch002_daily_rollups) = 3
      /\ Len(Chm!Ch003_retention_ttl) = 4
  BY DEF Chm!Ch001_events_v2, Chm!Ch002_daily_rollups, Chm!Ch003_retention_ttl
<1>4. \A i \in 1..3 : Len(Chm!CH_MIGRATIONS[i]) = Count(i)
  <2>1. Count(1) = 2 /\ Count(2) = 3 /\ Count(3) = 4 /\ 1..3 = {1, 2, 3}
    BY DEF Count
  <2> QED  BY <1>1, <1>3, <2>1
<1>5. /\ Chm!Ch001_events_v2[1] = Chm!Statement({}, {"events"}, Chm!OnEvents)
      /\ Chm!Ch001_events_v2[2] = Chm!Statement({}, {"executed_queries"}, {})
  BY DEF Chm!Ch001_events_v2
<1>6. /\ Chm!Ch002_daily_rollups[1] = Chm!Statement({"events"}, {"dedup_window"}, {})
      /\ Chm!Ch002_daily_rollups[2] = Chm!Statement({}, {"daily_rollups"}, {})
      /\ Chm!Ch002_daily_rollups[3]
            = Chm!Statement({"events", "daily_rollups"}, {"daily_rollups_mv"}, {})
  BY DEF Chm!Ch002_daily_rollups
<1>7. /\ Chm!Ch003_retention_ttl[1] = Chm!Statement({"events"}, {"retention_days"}, {})
      /\ Chm!Ch003_retention_ttl[2]
            = Chm!Statement({"events", "retention_days"}, {"ttl"}, {})
      /\ Chm!Ch003_retention_ttl[3]
            = Chm!Statement({"events"}, {"ttl_only_drop_parts"}, {})
      /\ Chm!Ch003_retention_ttl[4]
            = Chm!Statement({"executed_queries"}, {"citations_ttl"}, {})
  BY DEF Chm!Ch003_retention_ttl
<1>a1. Fits(Chm!Statement({}, {"events"}, Chm!OnEvents), 1, 1)
  <2>1. \A x \in Chm!Complete : MigOf(x) = 1 /\ StepOf(x) = 1 => x \in {"events"}
    BY Table
  <2>2. \A x \in {} : x \in Chm!Complete /\ Earlier(x, 1, 1 - 1)
    BY Table DEF Earlier
  <2>3. {"events"} \subseteq Chm!Complete
    BY Table
  <2> QED  BY <2>1, <2>2, <2>3, FitsWhen
<1>a2. Fits(Chm!Statement({}, {"executed_queries"}, {}), 1, 2)
  <2>1. \A x \in Chm!Complete : MigOf(x) = 1 /\ StepOf(x) = 2 => x \in {"executed_queries"}
    BY Table
  <2>2. \A x \in {} : x \in Chm!Complete /\ Earlier(x, 1, 2 - 1)
    BY Table DEF Earlier
  <2>3. {"executed_queries"} \subseteq Chm!Complete
    BY Table
  <2> QED  BY <2>1, <2>2, <2>3, FitsWhen
<1>b1. Fits(Chm!Statement({"events"}, {"dedup_window"}, {}), 2, 1)
  <2>1. \A x \in Chm!Complete : MigOf(x) = 2 /\ StepOf(x) = 1 => x \in {"dedup_window"}
    BY Table
  <2>2. \A x \in {"events"} : x \in Chm!Complete /\ Earlier(x, 2, 1 - 1)
    BY Table DEF Earlier
  <2>3. {"dedup_window"} \subseteq Chm!Complete
    BY Table
  <2> QED  BY <2>1, <2>2, <2>3, FitsWhen
<1>b2. Fits(Chm!Statement({}, {"daily_rollups"}, {}), 2, 2)
  <2>1. \A x \in Chm!Complete : MigOf(x) = 2 /\ StepOf(x) = 2 => x \in {"daily_rollups"}
    BY Table
  <2>2. \A x \in {} : x \in Chm!Complete /\ Earlier(x, 2, 2 - 1)
    BY Table DEF Earlier
  <2>3. {"daily_rollups"} \subseteq Chm!Complete
    BY Table
  <2> QED  BY <2>1, <2>2, <2>3, FitsWhen
<1>b3. Fits(Chm!Statement({"events", "daily_rollups"}, {"daily_rollups_mv"}, {}), 2, 3)
  <2>1. \A x \in Chm!Complete : MigOf(x) = 2 /\ StepOf(x) = 3 => x \in {"daily_rollups_mv"}
    BY Table
  <2>2. \A x \in {"events", "daily_rollups"} : x \in Chm!Complete /\ Earlier(x, 2, 3 - 1)
    BY Table DEF Earlier
  <2>3. {"daily_rollups_mv"} \subseteq Chm!Complete
    BY Table
  <2> QED  BY <2>1, <2>2, <2>3, FitsWhen
<1>c1. Fits(Chm!Statement({"events"}, {"retention_days"}, {}), 3, 1)
  <2>1. \A x \in Chm!Complete : MigOf(x) = 3 /\ StepOf(x) = 1 => x \in {"retention_days"}
    BY Table
  <2>2. \A x \in {"events"} : x \in Chm!Complete /\ Earlier(x, 3, 1 - 1)
    BY Table DEF Earlier
  <2>3. {"retention_days"} \subseteq Chm!Complete
    BY Table
  <2> QED  BY <2>1, <2>2, <2>3, FitsWhen
<1>c2. Fits(Chm!Statement({"events", "retention_days"}, {"ttl"}, {}), 3, 2)
  <2>1. \A x \in Chm!Complete : MigOf(x) = 3 /\ StepOf(x) = 2 => x \in {"ttl"}
    BY Table
  <2>2. \A x \in {"events", "retention_days"} : x \in Chm!Complete /\ Earlier(x, 3, 2 - 1)
    BY Table DEF Earlier
  <2>3. {"ttl"} \subseteq Chm!Complete
    BY Table
  <2> QED  BY <2>1, <2>2, <2>3, FitsWhen
<1>c3. Fits(Chm!Statement({"events"}, {"ttl_only_drop_parts"}, {}), 3, 3)
  <2>1. \A x \in Chm!Complete : MigOf(x) = 3 /\ StepOf(x) = 3 => x \in {"ttl_only_drop_parts"}
    BY Table
  <2>2. \A x \in {"events"} : x \in Chm!Complete /\ Earlier(x, 3, 3 - 1)
    BY Table DEF Earlier
  <2>3. {"ttl_only_drop_parts"} \subseteq Chm!Complete
    BY Table
  <2> QED  BY <2>1, <2>2, <2>3, FitsWhen
<1>c4. Fits(Chm!Statement({"executed_queries"}, {"citations_ttl"}, {}), 3, 4)
  <2>1. \A x \in Chm!Complete : MigOf(x) = 3 /\ StepOf(x) = 4 => x \in {"citations_ttl"}
    BY Table
  <2>2. \A x \in {"executed_queries"} : x \in Chm!Complete /\ Earlier(x, 3, 4 - 1)
    BY Table DEF Earlier
  <2>3. {"citations_ttl"} \subseteq Chm!Complete
    BY Table
  <2> QED  BY <2>1, <2>2, <2>3, FitsWhen
<1>8. \A i \in 1..3 : \A n \in 1..Count(i) :
         \/ i = 1 /\ n \in {1, 2}
         \/ i = 2 /\ n \in {1, 2, 3}
         \/ i = 3 /\ n \in {1, 2, 3, 4}
  BY DEF Count
<1>9. \A i \in 1..3 : \A n \in 1..Count(i) : Fits(Chm!CH_MIGRATIONS[i][n], i, n)
  BY <1>1, <1>5, <1>6, <1>7, <1>8,
     <1>a1, <1>a2, <1>b1, <1>b2, <1>b3, <1>c1, <1>c2, <1>c3, <1>c4
<1> QED
  BY <1>2, <1>4, <1>9

\* Where a service can be.
Ats == {<<"down">>, <<"up">>} \cup ((1..4) \X (0..4))

\* A service migrates exactly when it is at a statement.
LEMMA Where ==
    ASSUME ChmTyped, NEW s \in Consumers
    PROVE  /\ Chm!Migrating(s) <=> On(s)
           /\ On(s) => Doing(s) \in 1..4 /\ Done(s) \in 0..4 /\ chm_at[s] = <<Doing(s), Done(s)>>
           /\ Up(s) => ~Down(s)
<1>1. chm_at[s] \in Ats
  BY DEF ChmTyped, Ats
<1>2. On(s) => chm_at[s] \in (1..4) \X (0..4)
  BY <1>1 DEF On, Down, Up, Ats
<1>3. Chm!Migrating(s) <=> On(s)
  BY DEF Chm!Migrating, On, Down, Up
<1>4. Up(s) => ~Down(s)
  BY DEF Up, Down
<1> QED  BY <1>2, <1>3, <1>4 DEF Doing, Done

\* A service that moves leaves the others where they are.
LEMMA Moved ==
    ASSUME ChmTyped, NEW s \in Consumers, NEW v \in Ats, chm_at' = [chm_at EXCEPT ![s] = v]
    PROVE  /\ chm_at' \in [Consumers -> Ats] /\ chm_at'[s] = v
           /\ \A o \in Consumers \ {s} :
                 /\ (On(o)' <=> On(o)) /\ (Up(o)' <=> Up(o))
                 /\ Doing(o)' = Doing(o) /\ Done(o)' = Done(o)
<1>1. chm_at \in [Consumers -> Ats]
  BY DEF ChmTyped, Ats
<1>2. chm_at' \in [Consumers -> Ats] /\ chm_at'[s] = v /\ \A o \in Consumers \ {s} : chm_at'[o] = chm_at[o]
  BY <1>1
<1> QED  BY <1>2 DEF On, Up, Down, Doing, Done

\* It moved to a statement.
LEMMA MovedOn ==
    ASSUME NEW s \in Consumers, NEW i \in 1..4, NEW n \in 0..4, chm_at'[s] = <<i, n>>
    PROVE  On(s)' /\ ~Up(s)' /\ Doing(s)' = i /\ Done(s)' = n /\ <<i, n>> \in Ats
<1>1. <<i, n>> # <<"down">> /\ <<i, n>> # <<"up">>
  OBVIOUS
<1> QED  BY <1>1 DEF On, Up, Down, Doing, Done, Ats

\* It went down or came up.
LEMMA MovedOff ==
    ASSUME NEW s \in Consumers, chm_at'[s] \in {<<"down">>, <<"up">>}
    PROVE  ~On(s)' /\ (Up(s)' <=> chm_at'[s] = <<"up">>)
  BY DEF On, Up, Down

\* What a service ran and will run depends on its place and on what it skips.
LEMMA SamePlans ==
    ASSUME NEW o, chm_skips'[o] = chm_skips[o], On(o)' <=> On(o), Doing(o)' = Doing(o), Done(o)' = Done(o)
    PROVE  \A x : (Ran(o, x)' <=> Ran(o, x)) /\ (WillRun(o, x)' <=> WillRun(o, x))
  BY DEF Ran, WillRun
-----------------------------------------------------------------------------
\* An empty database satisfies the invariant.
LEMMA ChmInit == Chm!Init => ChmInv
<1> SUFFICES ASSUME Chm!Init PROVE ChmInv
  OBVIOUS
<1>1. /\ chm_recorded = {} /\ chm_database = {} /\ chm_rows = 0 /\ chm_lost = 0 /\ chm_stops = 0 /\ chm_raced = FALSE
      /\ \A s \in Consumers : chm_at[s] = <<"down">> /\ chm_skips[s] = {}
      /\ chm_at \in [Consumers -> {<<"down">>}] /\ chm_skips \in [Consumers -> {{}}]
  BY DEF Chm!Init
<1>2. Closed({}) /\ {} \in SUBSET (1..3)
  BY DEF Closed
<1>3. ChmTyped
  BY <1>1, <1>2 DEF ChmTyped
<1>4. \A s \in Consumers : ~On(s) /\ ~Up(s)
  BY <1>1 DEF On, Down, Up
<1>5. RecordsInv
  BY <1>1, <1>2, <1>4 DEF RecordsInv
<1>6. AloneInv
  BY <1>1, <1>4 DEF AloneInv
<1>7. SchemaInv
  BY <1>1, <1>4 DEF SchemaInv, Promised, Ran
<1> QED  BY <1>3, <1>5, <1>6, <1>7 DEF ChmInv

\* A service reads what is recorded.
LEMMA ChmRead ==
    ASSUME ChmInv, NEW s \in Consumers, Chm!ReadApplied(s) PROVE ChmInv'
<1>1. /\ Down(s) /\ chm_at' = [chm_at EXCEPT ![s] = <<1, 0>>]
      /\ chm_skips' = [chm_skips EXCEPT ![s] = chm_recorded]
      /\ chm_raced' = (chm_raced \/ \E o \in Consumers \ {s} : Chm!Migrating(o))
      /\ UNCHANGED <<chm_recorded, chm_database, chm_rows, chm_lost, chm_stops>>
  BY DEF Chm!ReadApplied, Down
<1>2. ChmTyped
  BY DEF ChmInv
<1>3. <<1, 0>> \in Ats
  BY DEF Ats
<1>4. /\ chm_at' \in [Consumers -> Ats] /\ chm_at'[s] = <<1, 0>>
      /\ \A o \in Consumers \ {s} :
            /\ (On(o)' <=> On(o)) /\ (Up(o)' <=> Up(o))
            /\ Doing(o)' = Doing(o) /\ Done(o)' = Done(o)
  BY <1>1, <1>2, <1>3, Moved
<1>5. On(s)' /\ ~Up(s)' /\ Doing(s)' = 1 /\ Done(s)' = 0
  BY <1>4, MovedOn
<1>6. /\ chm_skips' \in [Consumers -> SUBSET (1..3)] /\ chm_skips'[s] = chm_recorded
      /\ \A o \in Consumers \ {s} : chm_skips'[o] = chm_skips[o]
  BY <1>1, <1>2 DEF ChmTyped, Closed
<1>7. chm_raced' \in BOOLEAN /\ (~chm_raced' => ~chm_raced /\ \A o \in Consumers \ {s} : ~On(o))
  BY <1>1, <1>2, Where DEF ChmTyped
<1>8. ChmTyped'
  BY <1>1, <1>2, <1>4, <1>6, <1>7 DEF ChmTyped, Ats
<1>9. RecordsInv'
  <2>1. RecordsInv
    BY DEF ChmInv
  <2>2. Closed(chm_recorded)
    BY <1>2 DEF ChmTyped
  <2>3. \A o \in Consumers : Closed(chm_skips'[o]) /\ chm_skips'[o] \subseteq chm_recorded
    BY <1>6, <2>1, <2>2 DEF RecordsInv
  <2>4. \A o \in Consumers : On(o)' => \A j \in 1..3 : j < Doing(o)' => j \in chm_recorded
    BY <1>4, <1>5, <2>1 DEF RecordsInv
  <2>5. \A o \in Consumers : Up(o)' => \A j \in 1..3 : j \in chm_recorded
    BY <1>4, <1>5, <2>1 DEF RecordsInv
  <2>6. chm_rows > 0 => \A j \in 1..3 : j \in chm_recorded
    BY <2>1 DEF RecordsInv
  <2> QED  BY <1>1, <2>3, <2>4, <2>5, <2>6 DEF RecordsInv
<1>10. AloneInv'
  <2>1. AloneInv
    BY DEF ChmInv
  <2>2. ~chm_raced' => \A o \in Consumers : On(o)' => o = s
    BY <1>4, <1>7
  <2> QED  BY <1>1, <1>5, <1>6, <1>7, <2>1, <2>2 DEF AloneInv
<1>11. SchemaInv'
  <2> SUFFICES ASSUME ~chm_raced' \/ chm_stops = 0, NEW x \in Chm!Complete, Promised(x)'
               PROVE  Held(x)'
    BY <1>1 DEF SchemaInv
  <2>1. StepOf(x) \in 1..4
    BY Places
  <2>2. ~Ran(s, x)'
    BY <1>5, <2>1 DEF Ran
  <2>3. \A o \in Consumers \ {s} : (Ran(o, x)' <=> Ran(o, x)) /\ (WillRun(o, x)' <=> WillRun(o, x))
    BY <1>4, <1>6, SamePlans
  <2>4. Promised(x)
    BY <1>1, <2>2, <2>3 DEF Promised
  <2>5. Held(x)
    BY <1>1, <1>7, <2>4 DEF ChmInv, SchemaInv
  <2>6. ~WillRun(s, x)
    BY <1>1 DEF WillRun, On
  <2> QED  BY <1>1, <2>3, <2>5, <2>6 DEF Held
<1> QED  BY <1>8, <1>9, <1>10, <1>11 DEF ChmInv

\* SkipMigration and Record: the service goes on, its migration is recorded.
LEMMA ChmAdvance ==
    ASSUME ChmInv, NEW s \in Consumers, On(s), Doing(s) \in 1..3,
           Doing(s) \in chm_skips[s] \/ Done(s) = Count(Doing(s)),
           chm_recorded' = chm_recorded \cup {Doing(s)},
           chm_at' = [chm_at EXCEPT ![s] = <<Doing(s) + 1, 0>>],
           UNCHANGED <<chm_database, chm_skips, chm_rows, chm_lost, chm_stops, chm_raced>>
    PROVE  ChmInv'
<1>1. ChmTyped /\ RecordsInv /\ AloneInv /\ SchemaInv
  BY DEF ChmInv
<1> DEFINE i == Doing(s)
<1>2. i \in 1..3 /\ i + 1 \in 1..4 /\ chm_recorded' = chm_recorded \cup {i}
      /\ chm_at' = [chm_at EXCEPT ![s] = <<i + 1, 0>>]
  OBVIOUS
<1> HIDE DEF i
<1>3. <<i + 1, 0>> \in Ats
  BY <1>2 DEF Ats
<1>4. /\ chm_at' \in [Consumers -> Ats] /\ chm_at'[s] = <<i + 1, 0>>
      /\ \A o \in Consumers \ {s} :
            /\ (On(o)' <=> On(o)) /\ (Up(o)' <=> Up(o))
            /\ Doing(o)' = Doing(o) /\ Done(o)' = Done(o)
  BY <1>1, <1>2, <1>3, Moved
<1>5. On(s)' /\ ~Up(s)' /\ Doing(s)' = i + 1 /\ Done(s)' = 0
  BY <1>2, <1>4, MovedOn
<1>6. \A j \in 1..3 : j < i => j \in chm_recorded
  BY <1>1 DEF RecordsInv, i
<1>7. Closed(chm_recorded')
  <2>1. \A a \in chm_recorded : a \in 1..3 /\ \A j \in 1..a : j \in chm_recorded
    BY <1>1 DEF ChmTyped, Closed
  <2>2. \A j \in 1..i : j \in chm_recorded'
    BY <1>2, <1>6
  <2>3. \A a \in chm_recorded' : a \in 1..3 /\ \A j \in 1..a : j \in chm_recorded'
    BY <1>2, <2>1, <2>2
  <2> QED  BY <2>3 DEF Closed
<1>8. ChmTyped'
  BY <1>1, <1>4, <1>7 DEF ChmTyped, Ats
<1>9. RecordsInv'
  <2>1. \A o \in Consumers : Closed(chm_skips'[o]) /\ chm_skips'[o] \subseteq chm_recorded'
    BY <1>1, <1>2 DEF RecordsInv
  <2>2. \A j \in 1..3 : j < i + 1 => j \in chm_recorded'
    BY <1>2, <1>6
  <2>3. \A o \in Consumers : On(o)' => \A j \in 1..3 : j < Doing(o)' => j \in chm_recorded'
    BY <1>1, <1>2, <1>4, <1>5, <2>2 DEF RecordsInv
  <2>4. \A o \in Consumers : Up(o)' => \A j \in 1..3 : j \in chm_recorded'
    BY <1>1, <1>2, <1>4, <1>5 DEF RecordsInv
  <2>5. chm_rows > 0 => \A j \in 1..3 : j \in chm_recorded'
    BY <1>1, <1>2 DEF RecordsInv
  <2> QED  BY <2>1, <2>3, <2>4, <2>5 DEF RecordsInv
<1>10. AloneInv'
  <2>1. \A o \in Consumers : On(o)' <=> On(o)
    BY <1>4, <1>5
  <2>2. SUFFICES ASSUME ~chm_raced PROVE \A o \in Consumers : On(o)' =>
                    \A j \in chm_recorded' : j \in chm_skips[o] \/ j < Doing(o)'
    BY <1>1, <2>1 DEF AloneInv
  <2>3. \A o \in Consumers : On(o)' => o = s
    BY <1>1, <2>1, <2>2 DEF AloneInv
  <2>4. \A j \in chm_recorded : j \in chm_skips[s] \/ j < i
    BY <1>1, <2>2 DEF AloneInv, i
  <2>5. \A j \in chm_recorded' : j \in 1..3 /\ (j \in chm_skips[s] \/ j < i + 1)
    BY <1>2, <1>7, <2>4 DEF Closed
  <2> QED  BY <1>5, <2>3, <2>5
<1>11. SchemaInv'
  <2> SUFFICES ASSUME ~chm_raced \/ chm_stops = 0, NEW x \in Chm!Complete, Promised(x)'
               PROVE  Held(x)'
    BY DEF SchemaInv
  <2>1. MigOf(x) \in 1..3 /\ StepOf(x) \in 1..Count(MigOf(x)) /\ Count(MigOf(x)) \in 2..4
    BY Places
  <2>2. ~Ran(s, x)'
    BY <1>5, <2>1 DEF Ran
  <2>3. \A o \in Consumers \ {s} : (Ran(o, x)' <=> Ran(o, x)) /\ (WillRun(o, x)' <=> WillRun(o, x))
    BY <1>4, SamePlans
  <2>4. CASE MigOf(x) # i
    <3>1. Promised(x)
      BY <1>2, <2>2, <2>3, <2>4 DEF Promised
    <3>2. Held(x)
      BY <1>1, <3>1 DEF SchemaInv
    <3>3. WillRun(s, x) => WillRun(s, x)'
      BY <1>2, <1>5, <2>1, <2>4 DEF WillRun, i
    <3> QED  BY <2>3, <3>2, <3>3 DEF Held
  <2>5. CASE MigOf(x) = i
    <3>1. i \in chm_skips[s] => i \in chm_recorded
      BY <1>1 DEF RecordsInv
    <3>2. Done(s) = Count(i) => Ran(s, x)
      BY <2>1, <2>5 DEF Ran, i
    <3>3. Promised(x)
      BY <2>5, <3>1, <3>2 DEF Promised, i
    <3>4. Held(x)
      BY <1>1, <3>3 DEF SchemaInv
    <3>5. ~WillRun(s, x)
      BY <2>1, <2>5 DEF WillRun, i
    <3> QED  BY <2>3, <3>4, <3>5 DEF Held
  <2> QED  BY <2>4, <2>5
<1> QED  BY <1>8, <1>9, <1>10, <1>11 DEF ChmInv

\* A migration that is recorded is skipped.
LEMMA ChmSkip ==
    ASSUME ChmInv, NEW s \in Consumers, Chm!SkipMigration(s) PROVE ChmInv'
<1>1. /\ Chm!Migrating(s) /\ Doing(s) <= 3 /\ Doing(s) \in chm_skips[s]
      /\ chm_at' = [chm_at EXCEPT ![s] = <<Doing(s) + 1, 0>>]
      /\ UNCHANGED <<chm_recorded, chm_database, chm_skips, chm_rows, chm_lost, chm_stops,
                     chm_raced>>
  BY Statements DEF Chm!SkipMigration, Chm!IsApplied, Doing
<1>2. On(s) /\ Doing(s) \in 1..4
  BY <1>1, Where DEF ChmInv
<1>3. chm_recorded' = chm_recorded \cup {Doing(s)}
  BY <1>1 DEF ChmInv, RecordsInv
<1>4. Doing(s) \in 1..3
  BY <1>1, <1>2
<1> QED  BY <1>1, <1>2, <1>3, <1>4, ChmAdvance

\* Where a service is that runs the statements of a migration.
LEMMA Runs ==
    ASSUME ChmTyped, NEW s \in Consumers, NEW i \in 1..3, NEW n \in 0..4, Chm!Runs(s, i, n)
    PROVE  On(s) /\ Doing(s) = i /\ Done(s) = n /\ i \notin chm_skips[s]
  BY Where DEF Chm!Runs, Chm!IsApplied, Doing, Done

\* A migration whose statements ran is recorded.
LEMMA ChmRecord ==
    ASSUME ChmInv, NEW s \in Consumers, NEW i \in 1..3, Chm!Record(s, i) PROVE ChmInv'
<1>1. Len(Chm!CH_MIGRATIONS[i]) = Count(i) /\ Count(i) \in 0..4
  BY Statements, Places
<1>2. /\ Chm!Runs(s, i, Count(i))
      /\ chm_recorded' = chm_recorded \cup {i} /\ chm_at' = [chm_at EXCEPT ![s] = <<i + 1, 0>>]
      /\ UNCHANGED <<chm_database, chm_skips, chm_rows, chm_lost, chm_stops, chm_raced>>
  BY <1>1 DEF Chm!Record
<1>3. On(s) /\ Doing(s) = i /\ Done(s) = Count(i)
  BY <1>1, <1>2, Runs DEF ChmInv
<1> QED  BY <1>2, <1>3, ChmAdvance
-----------------------------------------------------------------------------
\* ComeUp, Stop and StatementFails: the service runs nothing more.  What only it would
\* have brought must not be missed.
LEMMA ChmLeave ==
    ASSUME ChmInv, NEW s \in Consumers, NEW v \in {<<"down">>, <<"up">>},
           chm_at' = [chm_at EXCEPT ![s] = v], chm_stops' \in Nat, chm_stops' >= chm_stops,
           v = <<"up">> => \A j \in 1..3 : j \in chm_recorded,
           chm_raced /\ chm_stops' = 0 => \A x \in Chm!Complete : WillRun(s, x) =>
              x \in chm_database \/ \E o \in Consumers \ {s} : WillRun(o, x),
           UNCHANGED <<chm_recorded, chm_database, chm_skips, chm_rows, chm_lost, chm_raced>>
    PROVE  ChmInv'
<1>1. ChmTyped /\ RecordsInv /\ AloneInv /\ SchemaInv
  BY DEF ChmInv
<1>2. v \in Ats
  BY DEF Ats
<1>3. /\ chm_at' \in [Consumers -> Ats] /\ chm_at'[s] = v
      /\ \A o \in Consumers \ {s} :
            /\ (On(o)' <=> On(o)) /\ (Up(o)' <=> Up(o))
            /\ Doing(o)' = Doing(o) /\ Done(o)' = Done(o)
  BY <1>1, <1>2, Moved
<1>4. ~On(s)' /\ (Up(s)' => \A j \in 1..3 : j \in chm_recorded)
  BY <1>3, MovedOff
<1>5. ChmTyped'
  BY <1>1, <1>3 DEF ChmTyped, Ats
<1>6. RecordsInv'
  <2>1. \A o \in Consumers : Closed(chm_skips'[o]) /\ chm_skips'[o] \subseteq chm_recorded'
    BY <1>1 DEF RecordsInv
  <2>2. \A o \in Consumers : On(o)' => \A j \in 1..3 : j < Doing(o)' => j \in chm_recorded'
    BY <1>1, <1>3, <1>4 DEF RecordsInv
  <2>3. \A o \in Consumers : Up(o)' => \A j \in 1..3 : j \in chm_recorded'
    BY <1>1, <1>3, <1>4 DEF RecordsInv
  <2>4. chm_rows > 0 => \A j \in 1..3 : j \in chm_recorded'
    BY <1>1 DEF RecordsInv
  <2> QED  BY <2>1, <2>2, <2>3, <2>4 DEF RecordsInv
<1>7. AloneInv'
  <2>1. \A o \in Consumers : On(o)' => On(o) /\ Doing(o)' = Doing(o)
    BY <1>3, <1>4
  <2> QED  BY <1>1, <2>1 DEF AloneInv
<1>8. SchemaInv'
  <2> SUFFICES ASSUME ~chm_raced \/ chm_stops' = 0, NEW x \in Chm!Complete, Promised(x)'
               PROVE  Held(x)'
    BY DEF SchemaInv
  <2>1. ~Ran(s, x)'
    BY <1>4 DEF Ran
  <2>2. \A o \in Consumers \ {s} : (Ran(o, x)' <=> Ran(o, x)) /\ (WillRun(o, x)' <=> WillRun(o, x))
    BY <1>3, SamePlans
  <2>3. Promised(x)
    BY <2>1, <2>2 DEF Promised
  <2>4. ~chm_raced \/ chm_stops = 0
    BY <1>1 DEF ChmTyped
  <2>5. Held(x)
    BY <1>1, <2>3, <2>4 DEF SchemaInv
  <2> QED  BY <2>2, <2>5 DEF Held
<1> QED  BY <1>5, <1>6, <1>7, <1>8 DEF ChmInv

\* A service past the last migration comes up: nothing is left to it.
LEMMA ChmComeUp ==
    ASSUME ChmInv, NEW s \in Consumers, Chm!ComeUp(s) PROVE ChmInv'
<1>1. /\ Chm!Migrating(s) /\ Doing(s) > 3 /\ chm_at' = [chm_at EXCEPT ![s] = <<"up">>]
      /\ UNCHANGED <<chm_recorded, chm_database, chm_skips, chm_rows, chm_lost, chm_stops,
                     chm_raced>>
  BY Statements DEF Chm!ComeUp, Doing
<1>2. On(s) /\ Doing(s) \in 1..4
  BY <1>1, Where DEF ChmInv
<1>3. \A j \in 1..3 : j \in chm_recorded
  BY <1>1, <1>2 DEF ChmInv, RecordsInv
<1>4. \A x \in Chm!Complete : ~WillRun(s, x)
  BY <1>1, <1>2, Places DEF WillRun
<1>5. chm_stops' \in Nat /\ chm_stops' >= chm_stops
  BY <1>1 DEF ChmInv, ChmTyped
<1> QED  BY <1>1, <1>3, <1>4, <1>5, ChmLeave

\* A crash: after it, only what happens without a race is promised.
LEMMA ChmStop ==
    ASSUME ChmInv, NEW s \in Consumers, Chm!Stop(s) PROVE ChmInv'
<1>1. /\ chm_at' = [chm_at EXCEPT ![s] = <<"down">>] /\ chm_stops' = chm_stops + 1
      /\ UNCHANGED <<chm_recorded, chm_database, chm_skips, chm_rows, chm_lost, chm_raced>>
  BY DEF Chm!Stop
<1>2. chm_stops \in Nat
  BY DEF ChmInv, ChmTyped
<1>3. chm_stops' \in Nat /\ chm_stops' >= chm_stops /\ chm_stops' # 0
  BY <1>1, <1>2
<1>4. <<"down">> # <<"up">>
  OBVIOUS
<1> QED  BY <1>1, <1>3, <1>4, ChmLeave

\* A statement that needs what is not there: another service took it away, and that
\* one will run, after what is missing, all that this one had left.
LEMMA ChmFails ==
    ASSUME ChmInv, NEW s \in Consumers, NEW i \in 1..3, NEW n \in 0..4,
           Chm!StatementFails(s, i, n)
    PROVE  ChmInv'
<1>1. ChmTyped /\ RecordsInv /\ SchemaInv
  BY DEF ChmInv
<1>2. /\ Chm!Runs(s, i, n) /\ n < Count(i)
      /\ ~ (Chm!CH_MIGRATIONS[i][n + 1].needs \subseteq chm_database)
      /\ chm_at' = [chm_at EXCEPT ![s] = <<"down">>]
      /\ UNCHANGED <<chm_recorded, chm_database, chm_skips, chm_rows, chm_lost, chm_stops,
                     chm_raced>>
  BY Statements DEF Chm!StatementFails
<1>3. On(s) /\ Doing(s) = i /\ Done(s) = n /\ i \notin chm_skips[s]
  BY <1>1, <1>2, Runs
<1>4. n + 1 \in 1..Count(i)
  BY <1>2, Places
<1>5. Fits(Chm!CH_MIGRATIONS[i][n + 1], i, n + 1)
  BY <1>4, Statements
<1>6. PICK y \in Chm!Complete : y \notin chm_database /\ Earlier(y, i, n)
  BY <1>2, <1>5 DEF Fits
<1>7. MigOf(y) \in 1..3 /\ StepOf(y) \in 1..4
  BY Places
<1>8. Promised(y)
  BY <1>1, <1>3, <1>6, <1>7 DEF Promised, Earlier, Ran, RecordsInv
<1>9. chm_raced /\ chm_stops = 0 => \A x \in Chm!Complete : WillRun(s, x) =>
         x \in chm_database \/ \E o \in Consumers \ {s} : WillRun(o, x)
  <2> SUFFICES ASSUME chm_raced, chm_stops = 0, NEW x \in Chm!Complete, WillRun(s, x)
               PROVE  \E o \in Consumers \ {s} : WillRun(o, x)
    OBVIOUS
  <2>1. Held(y)
    BY <1>1, <1>8 DEF SchemaInv
  <2>2. PICK o \in Consumers : WillRun(o, y)
    BY <1>6, <2>1 DEF Held
  <2>3. On(o) /\ Doing(o) \in 1..4 /\ Done(o) \in 0..4
    BY <1>1, <2>2, Where DEF WillRun
  <2>4. MigOf(x) \in 1..3 /\ StepOf(x) \in 1..4
    BY Places
  <2>5. ~WillRun(s, y)
    BY <1>3, <1>6, <1>7 DEF WillRun, Earlier
  <2>6. MigOf(y) < MigOf(x) \/ (MigOf(y) = MigOf(x) /\ StepOf(y) < StepOf(x))
    BY <1>3, <1>6, <1>7, <2>4 DEF WillRun, Earlier
  <2>7. MigOf(x) \notin chm_skips[o]
    BY <1>1, <1>7, <2>2, <2>4, <2>6 DEF WillRun, RecordsInv, Closed
  <2>8. WillRun(o, x)
    BY <1>7, <2>2, <2>3, <2>4, <2>6, <2>7 DEF WillRun
  <2> QED  BY <2>2, <2>5, <2>8
<1>10. chm_stops' \in Nat /\ chm_stops' >= chm_stops
  BY <1>1, <1>2 DEF ChmTyped
<1>11. <<"down">> # <<"up">>
  OBVIOUS
<1> QED  BY <1>2, <1>9, <1>10, <1>11, ChmLeave
-----------------------------------------------------------------------------
\* A service that is up inserts events.
LEMMA ChmInsert ==
    ASSUME ChmInv, NEW s \in Consumers, Chm!InsertEvents(s) PROVE ChmInv'
<1>1. /\ Up(s) /\ chm_rows' = chm_rows + 1
      /\ UNCHANGED <<chm_recorded, chm_database, chm_at, chm_skips, chm_lost, chm_stops, chm_raced>>
  BY DEF Chm!InsertEvents, Up
<1>2. ChmTyped /\ RecordsInv /\ AloneInv /\ SchemaInv
  BY DEF ChmInv
<1>3. \A o \in Consumers :
         /\ (On(o)' <=> On(o)) /\ (Up(o)' <=> Up(o))
         /\ Doing(o)' = Doing(o) /\ Done(o)' = Done(o)
  BY <1>1 DEF On, Up, Down, Doing, Done
<1>4. ChmTyped'
  BY <1>1, <1>2 DEF ChmTyped
<1>5. RecordsInv'
  <2>1. \A j \in 1..3 : j \in chm_recorded
    BY <1>1, <1>2 DEF RecordsInv
  <2> QED  BY <1>1, <1>2, <1>3, <2>1 DEF RecordsInv
<1>6. AloneInv'
  BY <1>1, <1>2, <1>3 DEF AloneInv
<1>7. SchemaInv'
  <2>1. \A o \in Consumers : \A x \in Chm!Complete :
           (Ran(o, x)' <=> Ran(o, x)) /\ (WillRun(o, x)' <=> WillRun(o, x))
    BY <1>1, <1>3, SamePlans
  <2>2. \A x \in Chm!Complete : (Promised(x)' <=> Promised(x)) /\ (Held(x)' <=> Held(x))
    BY <1>1, <2>1 DEF Promised, Held
  <2> QED  BY <1>1, <1>2, <2>2 DEF SchemaInv
<1> QED  BY <1>4, <1>5, <1>6, <1>7 DEF ChmInv

\* The next statement of a migration.  The first one of all takes away what a service
\* that migrates as well had brought, and this one will bring again.
LEMMA ChmRun ==
    ASSUME ChmInv, NEW s \in Consumers, NEW i \in 1..3, NEW n \in 0..4,
           Chm!RunStatement(s, i, n)
    PROVE  ChmInv'
<1>1. ChmTyped /\ RecordsInv /\ AloneInv /\ SchemaInv
  BY DEF ChmInv
<1> DEFINE st == Chm!CH_MIGRATIONS[i][n + 1]
<1>2. /\ Chm!Runs(s, i, n) /\ n < Count(i)
      /\ chm_database' = (chm_database \ st.takes) \cup st.gives
      /\ IF st.takes # {} THEN chm_rows' = 0 /\ chm_lost' = chm_lost + chm_rows
                          ELSE UNCHANGED <<chm_rows, chm_lost>>
      /\ chm_at' = [chm_at EXCEPT ![s] = <<i, n + 1>>]
      /\ UNCHANGED <<chm_recorded, chm_skips, chm_stops, chm_raced>>
  BY Statements DEF Chm!RunStatement
<1>3. On(s) /\ Doing(s) = i /\ Done(s) = n /\ i \notin chm_skips[s]
  BY <1>1, <1>2, Runs
<1>4. Count(i) \in 2..4 /\ n + 1 \in 1..Count(i) /\ n + 1 \in 0..4 /\ i \in 1..4
  BY <1>2, Places
<1>5. Fits(st, i, n + 1)
  BY <1>4, Statements
<1> HIDE DEF st
<1>6. /\ st.gives \subseteq Chm!Complete
      /\ \A x \in Chm!Complete : MigOf(x) = i /\ StepOf(x) = n + 1 => x \in st.gives
      /\ st.takes = IF i = 1 /\ n = 0 THEN Chm!OnEvents ELSE {}
  BY <1>5 DEF Fits
<1>7. <<i, n + 1>> \in Ats
  BY <1>4 DEF Ats
<1>8. /\ chm_at' \in [Consumers -> Ats] /\ chm_at'[s] = <<i, n + 1>>
      /\ \A o \in Consumers \ {s} :
            /\ (On(o)' <=> On(o)) /\ (Up(o)' <=> Up(o))
            /\ Doing(o)' = Doing(o) /\ Done(o)' = Done(o)
  BY <1>1, <1>2, <1>7, Moved
<1>9. On(s)' /\ ~Up(s)' /\ Doing(s)' = i /\ Done(s)' = n + 1
  BY <1>4, <1>8, MovedOn
<1>10. chm_rows' \in Nat /\ chm_lost' \in Nat /\ (chm_rows' > 0 => chm_rows > 0)
  BY <1>1, <1>2 DEF ChmTyped
<1>11. ChmTyped'
  <2>1. chm_database' \subseteq Chm!Complete
    BY <1>1, <1>2, <1>6 DEF ChmTyped
  <2> QED  BY <1>1, <1>2, <1>8, <1>10, <2>1 DEF ChmTyped, Ats
<1>12. RecordsInv'
  <2>1. \A o \in Consumers : Closed(chm_skips'[o]) /\ chm_skips'[o] \subseteq chm_recorded'
    BY <1>1, <1>2 DEF RecordsInv
  <2>2. \A o \in Consumers : On(o)' => \A j \in 1..3 : j < Doing(o)' => j \in chm_recorded'
    BY <1>1, <1>2, <1>3, <1>8, <1>9 DEF RecordsInv
  <2>3. \A o \in Consumers : Up(o)' => \A j \in 1..3 : j \in chm_recorded'
    BY <1>1, <1>2, <1>8, <1>9 DEF RecordsInv
  <2>4. chm_rows' > 0 => \A j \in 1..3 : j \in chm_recorded'
    BY <1>1, <1>2, <1>10 DEF RecordsInv
  <2> QED  BY <2>1, <2>2, <2>3, <2>4 DEF RecordsInv
<1>13. AloneInv'
  <2>1. \A o \in Consumers : (On(o)' <=> On(o)) /\ Doing(o)' = Doing(o)
    BY <1>3, <1>8, <1>9
  <2>2. ~chm_raced /\ st.takes # {} => chm_rows = 0
    <3> SUFFICES ASSUME ~chm_raced, i = 1 PROVE chm_rows = 0
      BY <1>6
    <3>1. 1 \notin chm_recorded
      BY <1>1, <1>3 DEF AloneInv
    <3> QED  BY <1>1, <3>1 DEF RecordsInv, ChmTyped
  <2>3. ~chm_raced => chm_lost' = 0
    BY <1>1, <1>2, <2>2 DEF AloneInv
  <2> QED  BY <1>1, <1>2, <2>1, <2>3 DEF AloneInv
<1>14. SchemaInv'
  <2> SUFFICES ASSUME ~chm_raced \/ chm_stops = 0, NEW x \in Chm!Complete, Promised(x)'
               PROVE  Held(x)'
    BY <1>2 DEF SchemaInv
  <2>1. MigOf(x) \in 1..3 /\ StepOf(x) \in 1..4
    BY Places
  <2>2. \A o \in Consumers \ {s} : (Ran(o, x)' <=> Ran(o, x)) /\ (WillRun(o, x)' <=> WillRun(o, x))
    BY <1>2, <1>8, SamePlans
  <2>3. CASE x \in st.gives
    BY <1>2, <2>3 DEF Held
  <2>4. CASE x \notin st.gives
    <3>1. ~ (MigOf(x) = i /\ StepOf(x) = n + 1)
      BY <1>6, <2>4
    <3>2. Ran(s, x)' <=> Ran(s, x)
      BY <1>3, <1>9, <2>1, <3>1 DEF Ran
    <3>3. WillRun(s, x)' <=> WillRun(s, x)
      BY <1>2, <1>3, <1>9, <2>1, <3>1 DEF WillRun
    <3>4. Promised(x)
      BY <1>2, <2>2, <3>2 DEF Promised
    <3>5. Held(x)
      BY <1>1, <3>4 DEF SchemaInv
    <3>6. CASE x \notin st.takes
      BY <1>2, <2>2, <3>3, <3>5, <3>6 DEF Held
    <3>7. CASE x \in st.takes
      <4>1. i = 1 /\ n = 0 /\ MigOf(x) \in 2..3
        BY <1>6, <3>7, Places
      <4>2. \A j \in chm_skips[s] : FALSE
        BY <1>1, <1>3, <4>1 DEF RecordsInv, Closed
      <4>3. WillRun(s, x)
        BY <1>3, <4>1, <4>2 DEF WillRun
      <4>4. CASE chm_raced
        BY <1>2, <3>3, <4>3, <4>4 DEF Held
      <4>5. CASE ~chm_raced
        <5>1. MigOf(x) \notin chm_recorded
          BY <1>1, <1>3, <4>1, <4>2, <4>5 DEF AloneInv
        <5>2. \A o \in Consumers : Ran(o, x) => o = s
          BY <1>1, <1>3, <4>5 DEF AloneInv, Ran
        <5>3. ~Ran(s, x)
          BY <1>3, <4>1 DEF Ran
        <5> QED  BY <3>4, <5>1, <5>2, <5>3 DEF Promised
      <4> QED  BY <4>4, <4>5
    <3> QED  BY <3>6, <3>7
  <2> QED  BY <2>3, <2>4
<1> QED  BY <1>11, <1>12, <1>13, <1>14 DEF ChmInv
-----------------------------------------------------------------------------
\* Every step keeps the invariant.
LEMMA ChmKept == ChmInv /\ [Chm!Next]_(Chm!vars) => ChmInv'
<1> SUFFICES ASSUME ChmInv, [Chm!Next]_(Chm!vars) PROVE ChmInv'
  OBVIOUS
<1>1. CASE UNCHANGED Chm!vars
  BY <1>1 DEF ChmInv, ChmTyped, RecordsInv, AloneInv, SchemaInv, Held, Promised, WillRun, Ran,
              On, Up, Down, Doing, Done, Chm!vars
<1>2. ASSUME NEW s \in Consumers,
             \/ Chm!ReadApplied(s) \/ Chm!SkipMigration(s) \/ Chm!ComeUp(s)
             \/ Chm!Stop(s) \/ Chm!InsertEvents(s)
      PROVE  ChmInv'
  BY <1>2, ChmRead, ChmSkip, ChmComeUp, ChmStop, ChmInsert
<1>3. ASSUME NEW s \in Consumers, NEW i \in 1..3, Chm!Record(s, i) PROVE ChmInv'
  BY <1>3, ChmRecord
<1>4. ASSUME NEW s \in Consumers, NEW i \in 1..3, NEW n \in 0..Count(i),
             Chm!RunStatement(s, i, n) \/ Chm!StatementFails(s, i, n)
      PROVE  ChmInv'
  <2>1. n \in 0..4
    BY Places
  <2> QED  BY <1>4, <2>1, ChmRun, ChmFails
<1>5. /\ DOMAIN Chm!CH_MIGRATIONS = 1..3
      /\ \A i \in 1..3 : Len(Chm!CH_MIGRATIONS[i]) = Count(i)
  BY Statements
<1> QED  BY <1>1, <1>2, <1>3, <1>4, <1>5 DEF Chm!Next

\* What is recorded is a beginning of the migrations.
LEMMA ClosedIsInterval ==
    ASSUME NEW S, Closed(S) PROVE \E n \in 0..3 : S = 1..n
<1>1. \A j \in S : j \in 1..3 /\ \A k \in 1..j : k \in S
  BY DEF Closed
<1>2. 1..3 = {1, 2, 3} /\ 1..2 = {1, 2} /\ 1..1 = {1} /\ 1..0 = {}
  OBVIOUS
<1>3. CASE 3 \in S
  <2>1. 2 \in S /\ 1 \in S
    BY <1>1, <1>3
  <2>2. S = {1, 2, 3}
    BY <1>1, <1>2, <1>3, <2>1
  <2> QED  BY <1>2, <2>2
<1>4. CASE 3 \notin S /\ 2 \in S
  <2>1. 1 \in S
    BY <1>1, <1>4
  <2>2. S = {1, 2}
    BY <1>1, <1>2, <1>4, <2>1
  <2> QED  BY <1>2, <2>2
<1>5. CASE 3 \notin S /\ 2 \notin S
  <2>1. S = {1} \/ S = {}
    BY <1>1, <1>2, <1>5
  <2> QED  BY <1>2, <2>1
<1> QED  BY <1>3, <1>4, <1>5

\* The inductive invariant of the ClickHouse migrations.
THEOREM SchemaInvariant == Chm!Spec => []ChmInv
<1> QED  BY ChmInit, ChmKept, PTL DEF Chm!Spec

\* For all services and bounds, however they start together, die and start again: events are
\* lost only when two of them migrate at once, a service that is up finds the whole schema
\* unless one raced and one died, and migrations are recorded in order (ch-migrate.ts).
THEOREM SchemaMigratesSafely == Chm!Spec => []Chm!ChMigratesSafely
<1>1. ChmInv => Chm!LostOnlyByRace
  BY DEF ChmInv, ChmTyped, AloneInv, Chm!LostOnlyByRace
<1>2. ChmInv => Chm!RecordsInOrder
  BY ClosedIsInterval, Statements DEF ChmInv, ChmTyped, Chm!RecordsInOrder
<1>3. ChmInv => Chm!CompleteWhenUp
  <2> SUFFICES ASSUME ChmInv, NEW s \in Consumers, Up(s),
                      \A o \in Consumers : ~Chm!Migrating(o), ~chm_raced \/ chm_stops = 0
               PROVE  chm_database = Chm!Complete
    BY DEF Chm!CompleteWhenUp, Up
  <2>1. \A j \in 1..3 : j \in chm_recorded
    BY DEF ChmInv, RecordsInv
  <2>2. \A o \in Consumers : ~On(o)
    BY Where DEF ChmInv
  <2>3. \A x \in Chm!Complete : Promised(x)
    BY <2>1, Places DEF Promised
  <2>4. \A x \in Chm!Complete : x \in chm_database
    BY <2>2, <2>3 DEF ChmInv, SchemaInv, Held, WillRun
  <2> QED  BY <2>4 DEF ChmInv, ChmTyped
<1>4. ChmInv => Chm!ChMigratesSafely
  BY <1>1, <1>2, <1>3 DEF Chm!ChMigratesSafely
<1> QED  BY <1>4, SchemaInvariant, PTL
-----------------------------------------------------------------------------
(***************************************************************************)
(* The control plane's database: Migrations, for any services, tenants,    *)
(* crashes and release it starts from.  A release is told by the migration *)
(* that brought each table (Born): IsRelease(s, n) says what the schema s  *)
(* after n migrations is, and MigInv that the database always is at a      *)
(* release and a service's list of what is left never misses one.          *)
(***************************************************************************)
\* g is Released, up to release k.
IsTo(g, k) ==
    g = [n \in 0..k |->
            IF n = 0 THEN Mig!Empty ELSE Mig!Exec(g[n - 1], Mig!MIGRATIONS[n])]

\* There are 22 migrations.
LEMMA Has22 ==
    /\ Mig!Last = Len(Mig!MIGRATIONS) /\ Mig!Last = 22
    /\ Mig!Ids = DOMAIN Mig!MIGRATIONS /\ Mig!Ids = 1..22
  BY DEF Mig!MIGRATIONS, Mig!Ids, Mig!Last

\* A prefix of Released can be continued ...
LEMMA Longer == ASSUME NEW k \in 0..21, NEW g, IsTo(g, k)
   PROVE \E h : IsTo(h, k + 1)
<1> DEFINE h == [n \in 0..k + 1 |->
       IF n <= k THEN g[n] ELSE Mig!Exec(g[k], Mig!MIGRATIONS[k + 1])]
<1>1. \A n \in 0..k : g[n] = IF n = 0 THEN Mig!Empty ELSE Mig!Exec(g[n - 1], Mig!MIGRATIONS[n])
  BY DEF IsTo
<1>2. \A n \in 0..k + 1 : h[n] = IF n <= k THEN g[n] ELSE Mig!Exec(g[k], Mig!MIGRATIONS[k + 1])
  OBVIOUS
<1>3. DOMAIN h = 0..k + 1 /\ h = [n \in 0..k + 1 |-> h[n]]
  OBVIOUS
<1> HIDE DEF h
<1>4. \A n \in 0..k + 1 : h[n] = IF n = 0 THEN Mig!Empty ELSE Mig!Exec(h[n - 1], Mig!MIGRATIONS[n])
  <2> TAKE n \in 0..k + 1
  <2>1. CASE n = 0
    BY <1>1, <1>2, <2>1
  <2>2. CASE n \in 1..k
    <3>1. h[n] = g[n] /\ h[n - 1] = g[n - 1] /\ n # 0 /\ n \in 0..k
      BY <1>2, <2>2
    <3> QED  BY <1>1, <3>1
  <2>3. CASE n = k + 1
    <3>1. h[n] = Mig!Exec(g[k], Mig!MIGRATIONS[n]) /\ h[n - 1] = g[k] /\ n # 0
      BY <1>2, <2>3
    <3> QED  BY <3>1
  <2> QED  BY <2>1, <2>2, <2>3
<1>5. IsTo(h, k + 1)
  BY <1>3, <1>4 DEF IsTo
<1> QED  BY <1>5

\* ... up to the last release.
LEMMA Exists == \E g : IsTo(g, 22)
<1>1. \E g : IsTo(g, 0)
  <2>1. IsTo([n \in 0..0 |-> Mig!Empty], 0)
    BY DEF IsTo
  <2> QED  BY <2>1
<1>2. \A k \in 0..21 : (\E g : IsTo(g, k)) => \E g : IsTo(g, k + 1)
  BY Longer
<1>3. \E g : IsTo(g, 8)
  BY <1>1, <1>2
<1>4. \E g : IsTo(g, 15)
  BY <1>3, <1>2
<1> QED  BY <1>2, <1>4

\* So Released is what its definition says.
LEMMA Rel == IsTo(Mig!Released, 22)
<1>1. Mig!Released =
         CHOOSE g : g = [n \in 0..22 |->
            IF n = 0 THEN Mig!Empty ELSE Mig!Exec(g[n - 1], Mig!MIGRATIONS[n])]
  BY Has22 DEF Mig!Released
<1> QED  BY <1>1, Exists DEF IsTo
-----------------------------------------------------------------------------
\* Which migration brings a table or a column; 99 for what none brings.
Born(x) ==
    IF x = "migrations" THEN 0
    ELSE IF x \in {"tenants", "registry_entries", "audit_log"} THEN 1
    ELSE IF x = "repo_context" THEN 2
    ELSE IF x = "instrument_runs" THEN 3
    ELSE IF x \in {"findings", "finding_deliveries", "finding_rejections"} THEN 4
    ELSE IF x = "autonomy_grants" THEN 5
    ELSE IF x = "tenant_tokens" THEN 6
    ELSE IF x \in {"experiments", "experiment_verdicts"} THEN 8
    ELSE IF x = "onboarding_timeline" THEN 9
    ELSE IF x \in {"billing_accounts", "billing_invoices"} THEN 10
    ELSE IF x = "benchmark_optin" THEN 11
    ELSE IF x \in {"operator_tokens", "operator_audit"} THEN 12
    ELSE IF x = "tenant_keys" THEN 16
    ELSE IF x = "erasure_audit" THEN 17
    ELSE IF x \in {"eval_scores", "eval_datasets", "eval_dataset_cases"} THEN 19
    ELSE IF x \in {"alerts", "alert_events"} THEN 20
    ELSE IF x = "rollout_policies" THEN 21
    ELSE 99

\* ... the same of a column.
BornColumn(x) ==
    IF x = "retention_days" THEN 13 ELSE IF x = "redaction_optout" THEN 15
    ELSE IF x = "residency" THEN 18 ELSE IF x = "level_3" THEN 21
    ELSE IF x = "free_tier" THEN 22 ELSE 99

\* Tables without a tenant, and tables with an identity sequence.
Operators == {"migrations", "operator_tokens", "operator_audit", "erasure_audit"}
Counted ==
    {"audit_log", "finding_deliveries", "finding_rejections", "autonomy_grants",
     "billing_invoices", "operator_audit", "erasure_audit", "eval_dataset_cases",
     "alert_events"}

\* What migration n does to a table, in terms of when the table was brought.
Does(m, n) ==
    /\ \A x : x \in m.creates <=> Born(x) = n
    /\ \A x : x \in m.identity <=> Born(x) = n /\ x \in Counted
    /\ \A x : x \in m.owned <=> Born(x) = n /\ x \in Operators
    /\ \A x : x \in m.columns <=> BornColumn(x) = n
    /\ (m.tokens <=> n = 6) /\ (m.role <=> n = 7) /\ (m.grantAll <=> n = 7)
    /\ (m.sequences <=> n \in {7, 14, 19, 20})
    /\ \A x : x \in m.grants <=> n >= 8 /\ Born(x) = n /\ x \notin Operators
    /\ \A x : x \in m.rls <=>
          x \notin Operators /\ ((Born(x) = n /\ n >= 8) \/ (n = 7 /\ Born(x) \in 1..7))
    /\ \A x : x \in m.drops <=> x \notin Operators /\ n = 14 /\ Born(x) \in 1..13
    /\ \A x : x \in m.perRow <=>
          x \notin Operators /\ ((Born(x) = n /\ n \in 8..13) \/ (n = 7 /\ Born(x) \in 1..7))
    /\ \A x : x \in m.initPlan <=>
          x \notin Operators /\ ((Born(x) = n /\ n >= 15) \/ (n = 14 /\ Born(x) \in 1..13))
\* M001_init.
LEMMA Does1 == Does(Mig!M001_init, 1)
<1> DEFINE m == Mig!M001_init
<1>1. /\ m.creates = {"tenants", "registry_entries", "audit_log"}
      /\ m.identity = {"audit_log"} /\ m.owned = {} /\ m.columns = {}
      /\ m.tokens = FALSE /\ m.role = FALSE /\ m.grantAll = FALSE /\ m.grants = {}
      /\ m.sequences = FALSE /\ m.rls = {} /\ m.drops = {} /\ m.perRow = {}
      /\ m.initPlan = {}
  BY DEF Mig!M001_init, Mig!Nothing
<1> HIDE DEF m
<1>2. \A x : Born(x) = 1 <=> x \in {"tenants", "registry_entries", "audit_log"}
  BY DEF Born
<1>3. \A x : BornColumn(x) # 1
  BY DEF BornColumn
<1>4. \A x \in {"tenants", "registry_entries", "audit_log"} :
         (x \in Counted <=> x \in {"audit_log"})
         /\ (x \in Operators <=> x \in {})
  BY DEF Counted, Operators
<1>5. Does(m, 1)
  BY <1>1, <1>2, <1>3, <1>4 DEF Does
<1> QED  BY <1>5 DEF m

\* M002_repo_context.
LEMMA Does2 == Does(Mig!M002_repo_context, 2)
<1> DEFINE m == Mig!M002_repo_context
<1>1. /\ m.creates = {"repo_context"} /\ m.identity = {} /\ m.owned = {}
      /\ m.columns = {} /\ m.tokens = FALSE /\ m.role = FALSE /\ m.grantAll = FALSE
      /\ m.grants = {} /\ m.sequences = FALSE /\ m.rls = {} /\ m.drops = {}
      /\ m.perRow = {} /\ m.initPlan = {}
  BY DEF Mig!M002_repo_context, Mig!Nothing
<1> HIDE DEF m
<1>2. \A x : Born(x) = 2 <=> x \in {"repo_context"}
  BY DEF Born
<1>3. \A x : BornColumn(x) # 2
  BY DEF BornColumn
<1>4. \A x \in {"repo_context"} :
         (x \in Counted <=> x \in {})
         /\ (x \in Operators <=> x \in {})
  BY DEF Counted, Operators
<1>5. Does(m, 2)
  BY <1>1, <1>2, <1>3, <1>4 DEF Does
<1> QED  BY <1>5 DEF m

\* M003_instrument_runs.
LEMMA Does3 == Does(Mig!M003_instrument_runs, 3)
<1> DEFINE m == Mig!M003_instrument_runs
<1>1. /\ m.creates = {"instrument_runs"} /\ m.identity = {} /\ m.owned = {}
      /\ m.columns = {} /\ m.tokens = FALSE /\ m.role = FALSE /\ m.grantAll = FALSE
      /\ m.grants = {} /\ m.sequences = FALSE /\ m.rls = {} /\ m.drops = {}
      /\ m.perRow = {} /\ m.initPlan = {}
  BY DEF Mig!M003_instrument_runs, Mig!Nothing
<1> HIDE DEF m
<1>2. \A x : Born(x) = 3 <=> x \in {"instrument_runs"}
  BY DEF Born
<1>3. \A x : BornColumn(x) # 3
  BY DEF BornColumn
<1>4. \A x \in {"instrument_runs"} :
         (x \in Counted <=> x \in {})
         /\ (x \in Operators <=> x \in {})
  BY DEF Counted, Operators
<1>5. Does(m, 3)
  BY <1>1, <1>2, <1>3, <1>4 DEF Does
<1> QED  BY <1>5 DEF m

\* M004_findings.
LEMMA Does4 == Does(Mig!M004_findings, 4)
<1> DEFINE m == Mig!M004_findings
<1>1. /\ m.creates = {"findings", "finding_deliveries", "finding_rejections"}
      /\ m.identity = {"finding_deliveries", "finding_rejections"} /\ m.owned = {}
      /\ m.columns = {} /\ m.tokens = FALSE /\ m.role = FALSE /\ m.grantAll = FALSE
      /\ m.grants = {} /\ m.sequences = FALSE /\ m.rls = {} /\ m.drops = {}
      /\ m.perRow = {} /\ m.initPlan = {}
  BY DEF Mig!M004_findings, Mig!Nothing
<1> HIDE DEF m
<1>2. \A x : Born(x) = 4 <=> x \in {"findings", "finding_deliveries", "finding_rejections"}
  BY DEF Born
<1>3. \A x : BornColumn(x) # 4
  BY DEF BornColumn
<1>4. \A x \in {"findings", "finding_deliveries", "finding_rejections"} :
         (x \in Counted <=> x \in {"finding_deliveries", "finding_rejections"})
         /\ (x \in Operators <=> x \in {})
  BY DEF Counted, Operators
<1>5. Does(m, 4)
  BY <1>1, <1>2, <1>3, <1>4 DEF Does
<1> QED  BY <1>5 DEF m

\* M005_autonomy_grants.
LEMMA Does5 == Does(Mig!M005_autonomy_grants, 5)
<1> DEFINE m == Mig!M005_autonomy_grants
<1>1. /\ m.creates = {"autonomy_grants"} /\ m.identity = {"autonomy_grants"}
      /\ m.owned = {} /\ m.columns = {} /\ m.tokens = FALSE /\ m.role = FALSE
      /\ m.grantAll = FALSE /\ m.grants = {} /\ m.sequences = FALSE /\ m.rls = {}
      /\ m.drops = {} /\ m.perRow = {} /\ m.initPlan = {}
  BY DEF Mig!M005_autonomy_grants, Mig!Nothing
<1> HIDE DEF m
<1>2. \A x : Born(x) = 5 <=> x \in {"autonomy_grants"}
  BY DEF Born
<1>3. \A x : BornColumn(x) # 5
  BY DEF BornColumn
<1>4. \A x \in {"autonomy_grants"} :
         (x \in Counted <=> x \in {"autonomy_grants"})
         /\ (x \in Operators <=> x \in {})
  BY DEF Counted, Operators
<1>5. Does(m, 5)
  BY <1>1, <1>2, <1>3, <1>4 DEF Does
<1> QED  BY <1>5 DEF m

\* M006_tenant_tokens.
LEMMA Does6 == Does(Mig!M006_tenant_tokens, 6)
<1> DEFINE m == Mig!M006_tenant_tokens
<1>1. /\ m.creates = {"tenant_tokens"} /\ m.identity = {} /\ m.owned = {}
      /\ m.columns = {} /\ m.tokens = TRUE /\ m.role = FALSE /\ m.grantAll = FALSE
      /\ m.grants = {} /\ m.sequences = FALSE /\ m.rls = {} /\ m.drops = {}
      /\ m.perRow = {} /\ m.initPlan = {}
  BY DEF Mig!M006_tenant_tokens, Mig!Nothing
<1> HIDE DEF m
<1>2. \A x : Born(x) = 6 <=> x \in {"tenant_tokens"}
  BY DEF Born
<1>3. \A x : BornColumn(x) # 6
  BY DEF BornColumn
<1>4. \A x \in {"tenant_tokens"} :
         (x \in Counted <=> x \in {})
         /\ (x \in Operators <=> x \in {})
  BY DEF Counted, Operators
<1>5. Does(m, 6)
  BY <1>1, <1>2, <1>3, <1>4 DEF Does
<1> QED  BY <1>5 DEF m

\* M007_rls.
LEMMA Does7 == Does(Mig!M007_rls, 7)
<1> DEFINE m == Mig!M007_rls
<1>1. /\ m.creates = {} /\ m.identity = {} /\ m.owned = {} /\ m.columns = {}
      /\ m.tokens = FALSE /\ m.role = TRUE /\ m.grantAll = TRUE /\ m.grants = {}
      /\ m.sequences = TRUE /\ m.rls = Mig!FirstTables /\ m.drops = {}
      /\ m.perRow = Mig!FirstTables /\ m.initPlan = {}
  BY DEF Mig!M007_rls, Mig!Nothing
<1> HIDE DEF m
<1>2. \A x : Born(x) # 7
  BY DEF Born
<1>3. \A x : BornColumn(x) # 7
  BY DEF BornColumn
<1>5. \A x : x \notin Operators /\ Born(x) \in 1..7
              <=> x \in Mig!FirstTables
  BY DEF Born, Operators, Mig!FirstTables
<1>6. Does(m, 7)
  BY <1>1, <1>2, <1>3, <1>5 DEF Does
<1> QED  BY <1>6 DEF m

\* M008_experiments.
LEMMA Does8 == Does(Mig!M008_experiments, 8)
<1> DEFINE m == Mig!M008_experiments
<1>1. /\ m.creates = {"experiments", "experiment_verdicts"} /\ m.identity = {}
      /\ m.owned = {} /\ m.columns = {} /\ m.tokens = FALSE /\ m.role = FALSE
      /\ m.grantAll = FALSE /\ m.grants = {"experiments", "experiment_verdicts"}
      /\ m.sequences = FALSE /\ m.rls = {"experiments", "experiment_verdicts"}
      /\ m.drops = {} /\ m.perRow = {"experiments", "experiment_verdicts"}
      /\ m.initPlan = {}
  BY DEF Mig!M008_experiments, Mig!Nothing, Mig!IsolatedPerRow
<1> HIDE DEF m
<1>2. \A x : Born(x) = 8 <=> x \in {"experiments", "experiment_verdicts"}
  BY DEF Born
<1>3. \A x : BornColumn(x) # 8
  BY DEF BornColumn
<1>4. \A x \in {"experiments", "experiment_verdicts"} :
         (x \in Counted <=> x \in {})
         /\ (x \in Operators <=> x \in {})
  BY DEF Counted, Operators
<1>5. Does(m, 8)
  BY <1>1, <1>2, <1>3, <1>4 DEF Does
<1> QED  BY <1>5 DEF m

\* M009_onboarding.
LEMMA Does9 == Does(Mig!M009_onboarding, 9)
<1> DEFINE m == Mig!M009_onboarding
<1>1. /\ m.creates = {"onboarding_timeline"} /\ m.identity = {} /\ m.owned = {}
      /\ m.columns = {} /\ m.tokens = FALSE /\ m.role = FALSE /\ m.grantAll = FALSE
      /\ m.grants = {"onboarding_timeline"} /\ m.sequences = FALSE
      /\ m.rls = {"onboarding_timeline"} /\ m.drops = {}
      /\ m.perRow = {"onboarding_timeline"} /\ m.initPlan = {}
  BY DEF Mig!M009_onboarding, Mig!Nothing, Mig!IsolatedPerRow
<1> HIDE DEF m
<1>2. \A x : Born(x) = 9 <=> x \in {"onboarding_timeline"}
  BY DEF Born
<1>3. \A x : BornColumn(x) # 9
  BY DEF BornColumn
<1>4. \A x \in {"onboarding_timeline"} :
         (x \in Counted <=> x \in {})
         /\ (x \in Operators <=> x \in {})
  BY DEF Counted, Operators
<1>5. Does(m, 9)
  BY <1>1, <1>2, <1>3, <1>4 DEF Does
<1> QED  BY <1>5 DEF m

\* M010_billing.
LEMMA Does10 == Does(Mig!M010_billing, 10)
<1> DEFINE m == Mig!M010_billing
<1>1. /\ m.creates = {"billing_accounts", "billing_invoices"}
      /\ m.identity = {"billing_invoices"} /\ m.owned = {} /\ m.columns = {}
      /\ m.tokens = FALSE /\ m.role = FALSE /\ m.grantAll = FALSE
      /\ m.grants = {"billing_accounts", "billing_invoices"} /\ m.sequences = FALSE
      /\ m.rls = {"billing_accounts", "billing_invoices"} /\ m.drops = {}
      /\ m.perRow = {"billing_accounts", "billing_invoices"} /\ m.initPlan = {}
  BY DEF Mig!M010_billing, Mig!Nothing, Mig!IsolatedPerRow
<1> HIDE DEF m
<1>2. \A x : Born(x) = 10 <=> x \in {"billing_accounts", "billing_invoices"}
  BY DEF Born
<1>3. \A x : BornColumn(x) # 10
  BY DEF BornColumn
<1>4. \A x \in {"billing_accounts", "billing_invoices"} :
         (x \in Counted <=> x \in {"billing_invoices"})
         /\ (x \in Operators <=> x \in {})
  BY DEF Counted, Operators
<1>5. Does(m, 10)
  BY <1>1, <1>2, <1>3, <1>4 DEF Does
<1> QED  BY <1>5 DEF m

\* M011_benchmark_optin.
LEMMA Does11 == Does(Mig!M011_benchmark_optin, 11)
<1> DEFINE m == Mig!M011_benchmark_optin
<1>1. /\ m.creates = {"benchmark_optin"} /\ m.identity = {} /\ m.owned = {}
      /\ m.columns = {} /\ m.tokens = FALSE /\ m.role = FALSE /\ m.grantAll = FALSE
      /\ m.grants = {"benchmark_optin"} /\ m.sequences = FALSE
      /\ m.rls = {"benchmark_optin"} /\ m.drops = {} /\ m.perRow = {"benchmark_optin"}
      /\ m.initPlan = {}
  BY DEF Mig!M011_benchmark_optin, Mig!Nothing, Mig!IsolatedPerRow
<1> HIDE DEF m
<1>2. \A x : Born(x) = 11 <=> x \in {"benchmark_optin"}
  BY DEF Born
<1>3. \A x : BornColumn(x) # 11
  BY DEF BornColumn
<1>4. \A x \in {"benchmark_optin"} :
         (x \in Counted <=> x \in {})
         /\ (x \in Operators <=> x \in {})
  BY DEF Counted, Operators
<1>5. Does(m, 11)
  BY <1>1, <1>2, <1>3, <1>4 DEF Does
<1> QED  BY <1>5 DEF m

\* M012_operator.
LEMMA Does12 == Does(Mig!M012_operator, 12)
<1> DEFINE m == Mig!M012_operator
<1>1. /\ m.creates = {"operator_tokens", "operator_audit"}
      /\ m.identity = {"operator_audit"}
      /\ m.owned = {"operator_tokens", "operator_audit"} /\ m.columns = {}
      /\ m.tokens = FALSE /\ m.role = FALSE /\ m.grantAll = FALSE /\ m.grants = {}
      /\ m.sequences = FALSE /\ m.rls = {} /\ m.drops = {} /\ m.perRow = {}
      /\ m.initPlan = {}
  BY DEF Mig!M012_operator, Mig!Nothing
<1> HIDE DEF m
<1>2. \A x : Born(x) = 12 <=> x \in {"operator_tokens", "operator_audit"}
  BY DEF Born
<1>3. \A x : BornColumn(x) # 12
  BY DEF BornColumn
<1>4. \A x \in {"operator_tokens", "operator_audit"} :
         (x \in Counted <=> x \in {"operator_audit"})
         /\ (x \in Operators <=> x \in {"operator_tokens", "operator_audit"})
  BY DEF Counted, Operators
<1>5. Does(m, 12)
  BY <1>1, <1>2, <1>3, <1>4 DEF Does
<1> QED  BY <1>5 DEF m

\* M013_retention.
LEMMA Does13 == Does(Mig!M013_retention, 13)
<1> DEFINE m == Mig!M013_retention
<1>1. /\ m.creates = {} /\ m.identity = {} /\ m.owned = {}
      /\ m.columns = {"retention_days"} /\ m.tokens = FALSE /\ m.role = FALSE
      /\ m.grantAll = FALSE /\ m.grants = {} /\ m.sequences = FALSE /\ m.rls = {}
      /\ m.drops = {} /\ m.perRow = {} /\ m.initPlan = {}
  BY DEF Mig!M013_retention, Mig!Nothing
<1> HIDE DEF m
<1>2. \A x : Born(x) # 13
  BY DEF Born
<1>3. \A x : BornColumn(x) = 13 <=> x \in {"retention_days"}
  BY DEF BornColumn
<1>4. Does(m, 13)
  BY <1>1, <1>2, <1>3 DEF Does
<1> QED  BY <1>4 DEF m

\* M014_rls_initplan.
LEMMA Does14 == Does(Mig!M014_rls_initplan, 14)
<1> DEFINE m == Mig!M014_rls_initplan
<1>1. /\ m.creates = {} /\ m.identity = {} /\ m.owned = {} /\ m.columns = {}
      /\ m.tokens = FALSE /\ m.role = FALSE /\ m.grantAll = FALSE /\ m.grants = {}
      /\ m.sequences = TRUE /\ m.rls = {} /\ m.drops = Mig!PolicyTables /\ m.perRow = {}
      /\ m.initPlan = Mig!PolicyTables
  BY DEF Mig!M014_rls_initplan, Mig!Nothing
<1> HIDE DEF m
<1>2. \A x : Born(x) # 14
  BY DEF Born
<1>3. \A x : BornColumn(x) # 14
  BY DEF BornColumn
<1>5. \A x : x \notin Operators /\ Born(x) \in 1..13
              <=> x \in Mig!PolicyTables
  BY DEF Born, Operators, Mig!FirstTables, Mig!PolicyTables
<1>6. Does(m, 14)
  BY <1>1, <1>2, <1>3, <1>5 DEF Does
<1> QED  BY <1>6 DEF m

\* M015_redaction_optout.
LEMMA Does15 == Does(Mig!M015_redaction_optout, 15)
<1> DEFINE m == Mig!M015_redaction_optout
<1>1. /\ m.creates = {} /\ m.identity = {} /\ m.owned = {}
      /\ m.columns = {"redaction_optout"} /\ m.tokens = FALSE /\ m.role = FALSE
      /\ m.grantAll = FALSE /\ m.grants = {} /\ m.sequences = FALSE /\ m.rls = {}
      /\ m.drops = {} /\ m.perRow = {} /\ m.initPlan = {}
  BY DEF Mig!M015_redaction_optout, Mig!Nothing
<1> HIDE DEF m
<1>2. \A x : Born(x) # 15
  BY DEF Born
<1>3. \A x : BornColumn(x) = 15 <=> x \in {"redaction_optout"}
  BY DEF BornColumn
<1>4. Does(m, 15)
  BY <1>1, <1>2, <1>3 DEF Does
<1> QED  BY <1>4 DEF m

\* M016_tenant_keys.
LEMMA Does16 == Does(Mig!M016_tenant_keys, 16)
<1> DEFINE m == Mig!M016_tenant_keys
<1>1. /\ m.creates = {"tenant_keys"} /\ m.identity = {} /\ m.owned = {}
      /\ m.columns = {} /\ m.tokens = FALSE /\ m.role = FALSE /\ m.grantAll = FALSE
      /\ m.grants = {"tenant_keys"} /\ m.sequences = FALSE /\ m.rls = {"tenant_keys"}
      /\ m.drops = {} /\ m.perRow = {} /\ m.initPlan = {"tenant_keys"}
  BY DEF Mig!M016_tenant_keys, Mig!Nothing, Mig!Isolated
<1> HIDE DEF m
<1>2. \A x : Born(x) = 16 <=> x \in {"tenant_keys"}
  BY DEF Born
<1>3. \A x : BornColumn(x) # 16
  BY DEF BornColumn
<1>4. \A x \in {"tenant_keys"} :
         (x \in Counted <=> x \in {})
         /\ (x \in Operators <=> x \in {})
  BY DEF Counted, Operators
<1>5. Does(m, 16)
  BY <1>1, <1>2, <1>3, <1>4 DEF Does
<1> QED  BY <1>5 DEF m

\* M017_erasure_audit.
LEMMA Does17 == Does(Mig!M017_erasure_audit, 17)
<1> DEFINE m == Mig!M017_erasure_audit
<1>1. /\ m.creates = {"erasure_audit"} /\ m.identity = {"erasure_audit"}
      /\ m.owned = {"erasure_audit"} /\ m.columns = {} /\ m.tokens = FALSE
      /\ m.role = FALSE /\ m.grantAll = FALSE /\ m.grants = {} /\ m.sequences = FALSE
      /\ m.rls = {} /\ m.drops = {} /\ m.perRow = {} /\ m.initPlan = {}
  BY DEF Mig!M017_erasure_audit, Mig!Nothing
<1> HIDE DEF m
<1>2. \A x : Born(x) = 17 <=> x \in {"erasure_audit"}
  BY DEF Born
<1>3. \A x : BornColumn(x) # 17
  BY DEF BornColumn
<1>4. \A x \in {"erasure_audit"} :
         (x \in Counted <=> x \in {"erasure_audit"})
         /\ (x \in Operators <=> x \in {"erasure_audit"})
  BY DEF Counted, Operators
<1>5. Does(m, 17)
  BY <1>1, <1>2, <1>3, <1>4 DEF Does
<1> QED  BY <1>5 DEF m

\* M018_residency.
LEMMA Does18 == Does(Mig!M018_residency, 18)
<1> DEFINE m == Mig!M018_residency
<1>1. /\ m.creates = {} /\ m.identity = {} /\ m.owned = {} /\ m.columns = {"residency"}
      /\ m.tokens = FALSE /\ m.role = FALSE /\ m.grantAll = FALSE /\ m.grants = {}
      /\ m.sequences = FALSE /\ m.rls = {} /\ m.drops = {} /\ m.perRow = {}
      /\ m.initPlan = {}
  BY DEF Mig!M018_residency, Mig!Nothing
<1> HIDE DEF m
<1>2. \A x : Born(x) # 18
  BY DEF Born
<1>3. \A x : BornColumn(x) = 18 <=> x \in {"residency"}
  BY DEF BornColumn
<1>4. Does(m, 18)
  BY <1>1, <1>2, <1>3 DEF Does
<1> QED  BY <1>4 DEF m

\* M019_evals.
LEMMA Does19 == Does(Mig!M019_evals, 19)
<1> DEFINE m == Mig!M019_evals
<1>1. /\ m.creates = {"eval_scores", "eval_datasets", "eval_dataset_cases"}
      /\ m.identity = {"eval_dataset_cases"} /\ m.owned = {} /\ m.columns = {}
      /\ m.tokens = FALSE /\ m.role = FALSE /\ m.grantAll = FALSE
      /\ m.grants = {"eval_scores", "eval_datasets", "eval_dataset_cases"}
      /\ m.sequences = TRUE
      /\ m.rls = {"eval_scores", "eval_datasets", "eval_dataset_cases"} /\ m.drops = {}
      /\ m.perRow = {}
      /\ m.initPlan = {"eval_scores", "eval_datasets", "eval_dataset_cases"}
  BY DEF Mig!M019_evals, Mig!Nothing, Mig!Isolated
<1> HIDE DEF m
<1>2. \A x : Born(x) = 19 <=> x \in {"eval_scores", "eval_datasets", "eval_dataset_cases"}
  BY DEF Born
<1>3. \A x : BornColumn(x) # 19
  BY DEF BornColumn
<1>4. \A x \in {"eval_scores", "eval_datasets", "eval_dataset_cases"} :
         (x \in Counted <=> x \in {"eval_dataset_cases"})
         /\ (x \in Operators <=> x \in {})
  BY DEF Counted, Operators
<1>5. Does(m, 19)
  BY <1>1, <1>2, <1>3, <1>4 DEF Does
<1> QED  BY <1>5 DEF m

\* M020_alerts.
LEMMA Does20 == Does(Mig!M020_alerts, 20)
<1> DEFINE m == Mig!M020_alerts
<1>1. /\ m.creates = {"alerts", "alert_events"} /\ m.identity = {"alert_events"}
      /\ m.owned = {} /\ m.columns = {} /\ m.tokens = FALSE /\ m.role = FALSE
      /\ m.grantAll = FALSE /\ m.grants = {"alerts", "alert_events"}
      /\ m.sequences = TRUE /\ m.rls = {"alerts", "alert_events"} /\ m.drops = {}
      /\ m.perRow = {} /\ m.initPlan = {"alerts", "alert_events"}
  BY DEF Mig!M020_alerts, Mig!Nothing, Mig!Isolated
<1> HIDE DEF m
<1>2. \A x : Born(x) = 20 <=> x \in {"alerts", "alert_events"}
  BY DEF Born
<1>3. \A x : BornColumn(x) # 20
  BY DEF BornColumn
<1>4. \A x \in {"alerts", "alert_events"} :
         (x \in Counted <=> x \in {"alert_events"})
         /\ (x \in Operators <=> x \in {})
  BY DEF Counted, Operators
<1>5. Does(m, 20)
  BY <1>1, <1>2, <1>3, <1>4 DEF Does
<1> QED  BY <1>5 DEF m

\* M021_autonomy_level3.
LEMMA Does21 == Does(Mig!M021_autonomy_level3, 21)
<1> DEFINE m == Mig!M021_autonomy_level3
<1>1. /\ m.creates = {"rollout_policies"} /\ m.identity = {} /\ m.owned = {}
      /\ m.columns = {"level_3"} /\ m.tokens = FALSE /\ m.role = FALSE
      /\ m.grantAll = FALSE /\ m.grants = {"rollout_policies"} /\ m.sequences = FALSE
      /\ m.rls = {"rollout_policies"} /\ m.drops = {} /\ m.perRow = {}
      /\ m.initPlan = {"rollout_policies"}
  BY DEF Mig!M021_autonomy_level3, Mig!Nothing, Mig!Isolated
<1> HIDE DEF m
<1>2. \A x : Born(x) = 21 <=> x \in {"rollout_policies"}
  BY DEF Born
<1>3. \A x : BornColumn(x) = 21 <=> x \in {"level_3"}
  BY DEF BornColumn
<1>4. \A x \in {"rollout_policies"} :
         (x \in Counted <=> x \in {})
         /\ (x \in Operators <=> x \in {})
  BY DEF Counted, Operators
<1>5. Does(m, 21)
  BY <1>1, <1>2, <1>3, <1>4 DEF Does
<1> QED  BY <1>5 DEF m

\* M022_free_tier_default.
LEMMA Does22 == Does(Mig!M022_free_tier_default, 22)
<1> DEFINE m == Mig!M022_free_tier_default
<1>1. /\ m.creates = {} /\ m.identity = {} /\ m.owned = {} /\ m.columns = {"free_tier"}
      /\ m.tokens = FALSE /\ m.role = FALSE /\ m.grantAll = FALSE /\ m.grants = {}
      /\ m.sequences = FALSE /\ m.rls = {} /\ m.drops = {} /\ m.perRow = {}
      /\ m.initPlan = {}
  BY DEF Mig!M022_free_tier_default, Mig!Nothing
<1> HIDE DEF m
<1>2. \A x : Born(x) # 22
  BY DEF Born
<1>3. \A x : BornColumn(x) = 22 <=> x \in {"free_tier"}
  BY DEF BornColumn
<1>4. Does(m, 22)
  BY <1>1, <1>2, <1>3 DEF Does
<1> QED  BY <1>4 DEF m
-----------------------------------------------------------------------------
\* The last migration up to n that granted the sequences there were.
Granted(n) ==
    IF n < 7 THEN -1 ELSE IF n < 14 THEN 7 ELSE IF n < 19 THEN 14 ELSE IF n = 19 THEN 19 ELSE 20

\* The schema s is what the first n migrations made.
IsRelease(s, n) ==
    /\ \A x : x \in s.tables <=> Born(x) \in 0..n
    /\ \A x : x \in s.identity <=> Born(x) \in 0..n /\ x \in Counted
    /\ \A x : x \in s.owned <=> Born(x) \in 0..n /\ x \in Operators
    /\ \A x : x \in s.columns <=> BornColumn(x) \in 1..n
    /\ (s.role <=> n >= 7)
    /\ \A x : x \in s.granted <=>
          n >= 7 /\ Born(x) \in 0..n /\ (x \notin Operators \/ x = "migrations")
    /\ \A x : x \in s.sequences <=> Born(x) \in 0..Granted(n) /\ x \in Counted
    /\ \A x : x \in s.rls <=> n >= 7 /\ Born(x) \in 0..n /\ x \notin Operators
    /\ \A x : x \in s.perRow <=> n \in 7..13 /\ Born(x) \in 0..n /\ x \notin Operators
    /\ \A x : x \in s.initPlan <=> n >= 14 /\ Born(x) \in 0..n /\ x \notin Operators

\* Where the special tables are among the migrations.
LEMMA Births ==
    /\ \A x : Born(x) \in Nat /\ BornColumn(x) \in Nat /\ BornColumn(x) > 0
    /\ \A x : Born(x) = 0 <=> x = "migrations"
    /\ \A x \in Operators : Born(x) = 0 \/ Born(x) > 7
    /\ \A x \in Counted : Born(x) < 21
    /\ "migrations" \notin Counted /\ "migrations" \in Operators
<1>1. \A x : Born(x) \in Nat
  BY DEF Born
<1>2. \A x : BornColumn(x) \in Nat /\ BornColumn(x) > 0
  BY DEF BornColumn
<1>3. \A x : Born(x) = 0 <=> x = "migrations"
  BY DEF Born
<1>4. \A x \in Operators : Born(x) = 0 \/ Born(x) > 7
  BY DEF Born, Operators
<1>5. \A x \in Counted : Born(x) < 21
  BY DEF Born, Counted
<1>6. "migrations" \notin Counted /\ "migrations" \in Operators
  BY DEF Counted, Operators
<1> QED  BY <1>1, <1>2, <1>3, <1>4, <1>5, <1>6

\* The database before any migration.
LEMMA EmptyIsRelease == IsRelease(Mig!Empty, 0)
<1>1. /\ Mig!Empty.tables = {"migrations"} /\ Mig!Empty.identity = {}
      /\ Mig!Empty.columns = {} /\ Mig!Empty.role = FALSE /\ Mig!Empty.granted = {}
      /\ Mig!Empty.sequences = {} /\ Mig!Empty.rls = {} /\ Mig!Empty.owned = {"migrations"}
      /\ Mig!Empty.perRow = {} /\ Mig!Empty.initPlan = {}
  BY DEF Mig!Empty
<1>2. Granted(0) = -1 /\ 0..0 = {0}
  BY DEF Granted
<1> QED  BY <1>1, <1>2, Births DEF IsRelease

\* A migration makes of a release the next one.
LEMMA NextRelease ==
    ASSUME NEW n \in 1..22, NEW s, NEW m, IsRelease(s, n - 1), Does(m, n)
    PROVE  IsRelease(Mig!Exec(s, m), n)
<1> DEFINE e == Mig!Exec(s, m)
<1>1. /\ e.tables = s.tables \cup m.creates
      /\ e.identity = s.identity \cup m.identity
      /\ e.columns = s.columns \cup m.columns
      /\ e.owned = s.owned \cup m.owned
      /\ e.role = (s.role \/ m.role)
      /\ e.granted = s.granted \cup m.grants \cup
                        (IF m.grantAll THEN s.tables \cup m.creates ELSE {})
      /\ e.sequences = s.sequences \cup
                        (IF m.sequences THEN s.identity \cup m.identity ELSE {})
      /\ e.rls = s.rls \cup m.rls
      /\ e.perRow = (s.perRow \ m.drops) \cup m.perRow
      /\ e.initPlan = (s.initPlan \ m.drops) \cup m.initPlan
  BY DEF Mig!Exec
<1> HIDE DEF e
<1>2. \A x : Born(x) \in Nat /\ BornColumn(x) \in Nat /\ BornColumn(x) > 0
  BY Births
<1>3. /\ \A x : x \in e.tables <=> Born(x) \in 0..n
      /\ \A x : x \in e.identity <=> Born(x) \in 0..n /\ x \in Counted
      /\ \A x : x \in e.owned <=> Born(x) \in 0..n /\ x \in Operators
      /\ \A x : x \in e.columns <=> BornColumn(x) \in 1..n
      /\ (e.role <=> n >= 7)
  <2>1. \A x : /\ Born(x) \in 0..n <=> Born(x) \in 0..n - 1 \/ Born(x) = n
               /\ BornColumn(x) \in 1..n <=> BornColumn(x) \in 1..n - 1 \/ BornColumn(x) = n
    BY <1>2
  <2>2. \A x : x \in e.tables <=> Born(x) \in 0..n
    BY <1>1, <2>1 DEF IsRelease, Does
  <2>3. \A x : x \in e.identity <=> Born(x) \in 0..n /\ x \in Counted
    BY <1>1, <2>1 DEF IsRelease, Does
  <2>4. \A x : x \in e.owned <=> Born(x) \in 0..n /\ x \in Operators
    BY <1>1, <2>1 DEF IsRelease, Does
  <2>5. \A x : x \in e.columns <=> BornColumn(x) \in 1..n
    BY <1>1, <2>1 DEF IsRelease, Does
  <2>6. e.role <=> n >= 7
    <3>1. e.role = (s.role \/ m.role)
      BY <1>1
    <3>2. e.role <=> s.role \/ m.role
      BY ONLY <3>1, Zenon
    <3>3. (s.role <=> n - 1 >= 7) /\ (m.role <=> n = 7)
      BY DEF IsRelease, Does
    <3>4. n >= 7 <=> n - 1 >= 7 \/ n = 7
      OBVIOUS
    <3> QED  BY <3>2, <3>3, <3>4, Zenon
  <2> QED  BY <2>2, <2>3, <2>4, <2>5, <2>6
<1>4. \A x : x \in e.granted <=>
         n >= 7 /\ Born(x) \in 0..n /\ (x \notin Operators \/ x = "migrations")
  <2>1. /\ \A x : x \in s.granted <=>
              n >= 8 /\ Born(x) \in 0..n - 1 /\ (x \notin Operators \/ x = "migrations")
        /\ \A x : x \in m.grants <=> n >= 8 /\ Born(x) = n /\ x \notin Operators
        /\ (m.grantAll <=> n = 7)
        /\ \A x : x \in s.tables \cup m.creates <=> Born(x) \in 0..n
    BY <1>2 DEF IsRelease, Does
  <2>2. \A x \in Operators : Born(x) <= 7 => x = "migrations"
    BY Births
  <2>3. CASE n = 7
    BY <1>1, <1>2, <2>1, <2>2, <2>3
  <2>4. CASE n # 7
    BY <1>1, <1>2, <2>1, <2>4, Births
  <2> QED  BY <2>3, <2>4
<1>5. \A x : x \in e.sequences <=> Born(x) \in 0..Granted(n) /\ x \in Counted
  <2>1. /\ \A x : x \in s.sequences <=> Born(x) \in 0..Granted(n - 1) /\ x \in Counted
        /\ \A x : x \in s.identity \cup m.identity <=> Born(x) \in 0..n /\ x \in Counted
        /\ (m.sequences <=> n \in {7, 14, 19, 20})
    BY <1>2 DEF IsRelease, Does
  <2>2. CASE n \in {7, 14, 19, 20}
    <3>1. Granted(n) = n /\ Granted(n - 1) <= n
      BY <2>2 DEF Granted
    <3>2. Granted(n - 1) \in Int
      BY DEF Granted
    <3> QED  BY <1>1, <1>2, <2>1, <2>2, <3>1, <3>2
  <2>3. CASE n \notin {7, 14, 19, 20}
    <3>1. Granted(n) = Granted(n - 1)
      BY <2>3 DEF Granted
    <3> QED  BY <1>1, <2>1, <2>3, <3>1
  <2> QED  BY <2>2, <2>3
<1>6. \A x : x \in e.rls <=> n >= 7 /\ Born(x) \in 0..n /\ x \notin Operators
  BY <1>1, <1>2, Births DEF IsRelease, Does
<1>7. \A x : x \in e.perRow <=> n \in 7..13 /\ Born(x) \in 0..n /\ x \notin Operators
  <2>1. /\ \A x : x \in s.perRow <=>
              n \in 8..14 /\ Born(x) \in 0..n - 1 /\ x \notin Operators
        /\ \A x : x \in m.drops <=> x \notin Operators /\ n = 14 /\ Born(x) \in 1..13
        /\ \A x : x \in m.perRow <=>
              x \notin Operators /\ ((Born(x) = n /\ n \in 8..13) \/ (n = 7 /\ Born(x) \in 1..7))
    BY <1>2 DEF IsRelease, Does
  <2>2. \A x : x \notin Operators => Born(x) # 0
    BY Births
  <2>3. CASE n = 7
    BY <1>1, <1>2, <2>1, <2>2, <2>3
  <2>4. CASE n = 14
    BY <1>1, <1>2, <2>1, <2>2, <2>4
  <2>5. CASE n \notin {7, 14}
    BY <1>1, <1>2, <2>1, <2>5
  <2> QED  BY <2>3, <2>4, <2>5
<1>8. \A x : x \in e.initPlan <=> n >= 14 /\ Born(x) \in 0..n /\ x \notin Operators
  <2>1. /\ \A x : x \in s.initPlan <=> n >= 15 /\ Born(x) \in 0..n - 1 /\ x \notin Operators
        /\ \A x : x \in m.drops <=> x \notin Operators /\ n = 14 /\ Born(x) \in 1..13
        /\ \A x : x \in m.initPlan <=>
              x \notin Operators /\ ((Born(x) = n /\ n >= 15) \/ (n = 14 /\ Born(x) \in 1..13))
    BY <1>2 DEF IsRelease, Does
  <2>2. \A x : x \notin Operators => Born(x) # 0
    BY Births
  <2>3. CASE n = 14
    <3>1. \A x : Born(x) # 14
      BY DEF Born
    <3> QED  BY <1>1, <1>2, <2>1, <2>2, <2>3, <3>1
  <2>4. CASE n # 14
    BY <1>1, <1>2, <2>1, <2>4
  <2> QED  BY <2>3, <2>4
<1>9. IsRelease(e, n)
  BY <1>3, <1>4, <1>5, <1>6, <1>7, <1>8 DEF IsRelease
<1> QED  BY <1>9 DEF e

\* On the release before it, no statement of a migration fails.
LEMMA NextRuns ==
    ASSUME NEW n \in 1..22, NEW s, NEW m, IsRelease(s, n - 1), Does(m, n)
    PROVE  ~Mig!Fails(s, m)
<1>1. \A x : Born(x) \in Nat /\ BornColumn(x) \in Nat
  BY Births
<1>2. m.creates \cap s.tables = {} /\ m.columns \cap s.columns = {} /\ ~ (m.role /\ s.role)
  BY <1>1 DEF IsRelease, Does
<1>3. ~ ((m.grantAll \/ m.grants # {} \/ m.sequences) /\ ~m.role /\ ~s.role)
  BY <1>1 DEF IsRelease, Does
<1>4. m.drops \subseteq s.perRow \cup s.initPlan
  BY <1>1 DEF IsRelease, Does
<1>5. (m.perRow \cup m.initPlan) \cap ((s.perRow \cup s.initPlan) \ m.drops) = {}
  <2>1. /\ \A x : x \in s.perRow => n \in 8..14 /\ Born(x) \in 0..n - 1 /\ x \notin Operators
        /\ \A x : x \in s.initPlan => n >= 15 /\ Born(x) \in 0..n - 1
        /\ \A x : x \in m.drops <=> x \notin Operators /\ n = 14 /\ Born(x) \in 1..13
        /\ \A x : x \in m.perRow => (Born(x) = n /\ n \in 8..13) \/ n = 7
        /\ \A x : x \in m.initPlan => (Born(x) = n /\ n >= 15) \/ n = 14
    BY <1>1 DEF IsRelease, Does
  <2>2. \A x : x \notin Operators => Born(x) # 0
    BY Births
  <2> QED  BY <1>1, <2>1, <2>2
<1>6. m.rls \cup m.grants \subseteq s.tables \cup m.creates
  BY <1>1 DEF IsRelease, Does
<1> QED  BY <1>2, <1>3, <1>4, <1>5, <1>6 DEF Mig!Fails

\* No release exposes a tenant's table, and the last one can be worked with.
LEMMA ReleaseSafe ==
    ASSUME NEW n \in 0..22, NEW s, IsRelease(s, n)
    PROVE  /\ s.granted \ s.owned \subseteq s.rls \cap (s.perRow \cup s.initPlan)
           /\ s.granted \cap s.owned \subseteq {"migrations"}
           /\ n = 22 => /\ s.tables \ s.owned = s.granted \ s.owned
                        /\ s.identity \ s.owned \subseteq s.sequences
                        /\ s.perRow = {} /\ s.initPlan = s.tables \ s.owned
<1>1. s.granted \cap s.owned \subseteq {"migrations"}
  BY DEF IsRelease
<1>2. \A x : x \in s.granted \ s.owned <=> n >= 7 /\ Born(x) \in 0..n /\ x \notin Operators
  BY Births DEF IsRelease
<1>3. \A x \in s.granted \ s.owned : x \in s.rls /\ (x \in s.perRow \/ x \in s.initPlan)
  BY <1>2 DEF IsRelease
<1>4. n = 22 => s.tables \ s.owned = s.granted \ s.owned
  BY <1>2 DEF IsRelease
<1>5. n = 22 => s.identity \ s.owned \subseteq s.sequences
  BY Births DEF IsRelease, Granted
<1>6. n = 22 => s.perRow = {} /\ s.initPlan = s.tables \ s.owned
  BY DEF IsRelease
<1> QED  BY <1>1, <1>3, <1>4, <1>5, <1>6
-----------------------------------------------------------------------------
\* All of MIGRATIONS.
LEMMA AllDo == \A n \in 1..22 : Does(Mig!MIGRATIONS[n], n)
<1>1. /\ Mig!MIGRATIONS[1] = Mig!M001_init
      /\ Mig!MIGRATIONS[2] = Mig!M002_repo_context
      /\ Mig!MIGRATIONS[3] = Mig!M003_instrument_runs
      /\ Mig!MIGRATIONS[4] = Mig!M004_findings
      /\ Mig!MIGRATIONS[5] = Mig!M005_autonomy_grants
      /\ Mig!MIGRATIONS[6] = Mig!M006_tenant_tokens
      /\ Mig!MIGRATIONS[7] = Mig!M007_rls
      /\ Mig!MIGRATIONS[8] = Mig!M008_experiments
      /\ Mig!MIGRATIONS[9] = Mig!M009_onboarding
      /\ Mig!MIGRATIONS[10] = Mig!M010_billing
      /\ Mig!MIGRATIONS[11] = Mig!M011_benchmark_optin
      /\ Mig!MIGRATIONS[12] = Mig!M012_operator
      /\ Mig!MIGRATIONS[13] = Mig!M013_retention
      /\ Mig!MIGRATIONS[14] = Mig!M014_rls_initplan
      /\ Mig!MIGRATIONS[15] = Mig!M015_redaction_optout
      /\ Mig!MIGRATIONS[16] = Mig!M016_tenant_keys
      /\ Mig!MIGRATIONS[17] = Mig!M017_erasure_audit
      /\ Mig!MIGRATIONS[18] = Mig!M018_residency
      /\ Mig!MIGRATIONS[19] = Mig!M019_evals
      /\ Mig!MIGRATIONS[20] = Mig!M020_alerts
      /\ Mig!MIGRATIONS[21] = Mig!M021_autonomy_level3
      /\ Mig!MIGRATIONS[22] = Mig!M022_free_tier_default
  BY DEF Mig!MIGRATIONS
<1>2. 1..22 = {1, 2, 3, 4, 5, 6, 7, 8, 9, 10, 11, 12, 13, 14, 15, 16, 17, 18, 19, 20, 21, 22}
  OBVIOUS
<1> QED
  BY <1>1, <1>2, Does1, Does2, Does3, Does4, Does5, Does6, Does7, Does8, Does9, Does10,
     Does11, Does12, Does13, Does14, Does15, Does16, Does17, Does18, Does19, Does20, Does21,
     Does22

\* What every release is.
LEMMA Releases22 ==
    /\ Mig!Released[0] = Mig!Empty
    /\ \A n \in 1..22 : Mig!Released[n] = Mig!Exec(Mig!Released[n - 1], Mig!MIGRATIONS[n])
    /\ \A n \in 0..22 : IsRelease(Mig!Released[n], n)
<1>1. \A n \in 0..22 : Mig!Released[n] = IF n = 0 THEN Mig!Empty
         ELSE Mig!Exec(Mig!Released[n - 1], Mig!MIGRATIONS[n])
  BY Rel DEF IsTo
<1>2. Mig!Released[0] = Mig!Empty
  BY <1>1
<1>3. \A n \in 1..22 : Mig!Released[n] = Mig!Exec(Mig!Released[n - 1], Mig!MIGRATIONS[n])
  BY <1>1
<1> DEFINE P(n) == IsRelease(Mig!Released[n], n)
<1>4. P(0)
  BY <1>2, EmptyIsRelease
<1>5. \A n \in 1..22 : P(n - 1) => P(n)
  BY <1>3, AllDo, NextRelease
<1> HIDE DEF P
<1>6. P(1) /\ P(2) /\ P(3) /\ P(4) /\ P(5) /\ P(6) /\ P(7) /\ P(8)
  BY <1>4, <1>5
<1>7. P(9) /\ P(10) /\ P(11) /\ P(12) /\ P(13) /\ P(14) /\ P(15)
  BY <1>5, <1>6
<1>8. P(16) /\ P(17) /\ P(18) /\ P(19) /\ P(20) /\ P(21) /\ P(22)
  BY <1>5, <1>7
<1>9. \A n \in 0..22 : P(n)
  BY <1>4, <1>6, <1>7, <1>8
<1> QED  BY <1>2, <1>3, <1>9 DEF P
-----------------------------------------------------------------------------
\* What a service that migrates has left includes what no service ran; one that failed met
\* what another had run.
MigLeft(s) ==
    /\ mig_todo[s] \subseteq 1..22
    /\ mig_pc[s] = "loop" => \A i \in 1..22 \ mig_applied : i \in mig_todo[s]
    /\ mig_pc[s] = "up" => mig_applied = 1..22
    /\ mig_pc[s] = "failed" => \E i \in mig_todo[s] \cap mig_applied : \A j \in mig_todo[s] : i <= j

\* The database is at a release, and has the tokens of its tenants from the sixth on.
AtRelease ==
    \E n \in 0..22 : /\ mig_applied = 1..n /\ mig_schema = Mig!Released[n]
                     /\ mig_tokens = IF n < 6 THEN {} ELSE Customers

\* The inductive invariant.
MigInv ==
    /\ AtRelease /\ mig_crashes \in Nat
    /\ mig_pc \in [Services -> {"start", "loop", "failed", "up"}]
    /\ mig_todo \in [Services -> SUBSET (1..22)]
    /\ \A s \in Services : MigLeft(s)

\* Initially it holds.
LEMMA MigInit == Mig!Init => MigInv
<1> SUFFICES ASSUME Mig!Init PROVE MigInv
  OBVIOUS
<1>1. /\ mig_pc = [s \in Services |-> "start"] /\ mig_todo = [s \in Services |-> {}] /\ mig_crashes = 0
  BY DEF Mig!Init
<1>2. AtRelease
  BY Has22 DEF Mig!Init, AtRelease
<1> QED  BY <1>1, <1>2 DEF MigInv, MigLeft

\* A step of one service that leaves the database as it is.
LEMMA MigQuiet ==
    ASSUME MigInv, NEW s \in Services,
           NEW p \in {"start", "loop", "failed", "up"}, NEW t \in SUBSET (1..22),
           mig_pc' = [mig_pc EXCEPT ![s] = p], mig_todo' = [mig_todo EXCEPT ![s] = t], mig_crashes' \in Nat,
           UNCHANGED <<mig_applied, mig_schema, mig_tokens>>,
           p = "loop" => \A i \in 1..22 \ mig_applied : i \in t,
           p = "up" => mig_applied = 1..22,
           p = "failed" => \E i \in t \cap mig_applied : \A j \in t : i <= j
    PROVE  MigInv'
<1>1. /\ mig_pc' \in [Services -> {"start", "loop", "failed", "up"}]
      /\ mig_todo' \in [Services -> SUBSET (1..22)]
      /\ mig_pc'[s] = p /\ mig_todo'[s] = t
      /\ \A o \in Services \ {s} : mig_pc'[o] = mig_pc[o] /\ mig_todo'[o] = mig_todo[o]
  BY DEF MigInv
<1>2. MigLeft(s)'
  BY <1>1 DEF MigLeft
<1>3. \A o \in Services \ {s} : MigLeft(o)'
  BY <1>1 DEF MigInv, MigLeft
<1>4. AtRelease'
  BY DEF MigInv, AtRelease
<1> QED  BY <1>1, <1>2, <1>3, <1>4 DEF MigInv

\* What a service runs is the next migration of the database.
LEMMA MigRun ==
    ASSUME MigInv, NEW s \in Services, NEW i \in 1..22, Mig!RunMigration(s, i)
    PROVE  MigInv'
<1>1. /\ mig_pc[s] = "loop" /\ i \in mig_todo[s] /\ (\A j \in mig_todo[s] : i <= j) /\ i \notin mig_applied
      /\ mig_schema' = Mig!Exec(mig_schema, Mig!MIGRATIONS[i])
      /\ mig_tokens' = IF Mig!MIGRATIONS[i].tokens THEN Customers ELSE mig_tokens
      /\ mig_applied' = mig_applied \cup {i}
      /\ mig_todo' = [mig_todo EXCEPT ![s] = mig_todo[s] \ {i}]
      /\ UNCHANGED <<mig_pc, mig_crashes>>
  BY DEF Mig!RunMigration, Mig!IsNext, Mig!Conflicts
<1>2. PICK n \in 0..22 : /\ mig_applied = 1..n /\ mig_schema = Mig!Released[n]
                         /\ mig_tokens = IF n < 6 THEN {} ELSE Customers
  BY DEF MigInv, AtRelease
<1>3. i = n + 1
  <2>1. n + 1 \in 1..22 \ mig_applied
    BY <1>1, <1>2
  <2>2. n + 1 \in mig_todo[s]
    BY <1>1, <2>1 DEF MigInv, MigLeft
  <2> QED  BY <1>1, <1>2, <2>2
<1>4. AtRelease'
  <2>1. mig_applied' = 1..i
    BY <1>1, <1>2, <1>3
  <2>2. mig_schema' = Mig!Released[i]
    <3>1. i - 1 = n
      BY <1>3
    <3> QED  BY <1>1, <1>2, <3>1, Releases22
  <2>3. Mig!MIGRATIONS[i].tokens <=> i = 6
    BY AllDo DEF Does
  <2>4. mig_tokens' = IF i < 6 THEN {} ELSE Customers
    BY <1>1, <1>2, <1>3, <2>3
  <2>5. i \in 0..22
    OBVIOUS
  <2> QED  BY <2>1, <2>2, <2>4, <2>5 DEF AtRelease
<1>5. /\ mig_todo' \in [Services -> SUBSET (1..22)] /\ mig_todo'[s] = mig_todo[s] \ {i}
      /\ \A o \in Services \ {s} : mig_todo'[o] = mig_todo[o]
  BY <1>1 DEF MigInv
<1>6. MigLeft(s)'
  BY <1>1, <1>5 DEF MigInv, MigLeft
<1>7. \A o \in Services \ {s} : MigLeft(o)'
  BY <1>1, <1>2, <1>3, <1>5 DEF MigInv, MigLeft
<1> QED  BY <1>1, <1>4, <1>5, <1>6, <1>7 DEF MigInv

\* What fails has been run by another service.
LEMMA MigFails ==
    ASSUME MigInv, NEW s \in Services, NEW i \in 1..22, Mig!MigrationFails(s, i)
    PROVE  MigInv'
<1>1. /\ mig_pc[s] = "loop" /\ i \in mig_todo[s] /\ (\A j \in mig_todo[s] : i <= j)
      /\ i \in mig_applied \/ Mig!Fails(mig_schema, Mig!MIGRATIONS[i])
      /\ mig_pc' = [mig_pc EXCEPT ![s] = "failed"]
      /\ UNCHANGED <<mig_applied, mig_schema, mig_tokens, mig_todo, mig_crashes>>
  BY DEF Mig!MigrationFails, Mig!IsNext, Mig!Conflicts
<1>2. PICK n \in 0..22 : mig_applied = 1..n /\ mig_schema = Mig!Released[n]
  BY DEF MigInv, AtRelease
<1>3. i \in mig_applied
  <2> SUFFICES ASSUME i \notin mig_applied PROVE FALSE
    OBVIOUS
  <2>1. n + 1 \in 1..22 \ mig_applied
    BY <1>2
  <2>2. n + 1 \in mig_todo[s]
    BY <1>1, <2>1 DEF MigInv, MigLeft
  <2>3. i = n + 1 /\ i - 1 = n
    <3>1. i <= n + 1
      BY <1>1, <2>2
    <3>2. ~ (i <= n)
      BY <1>2
    <3> QED  BY <3>1, <3>2
  <2>4. IsRelease(mig_schema, i - 1)
    BY <1>2, <2>3, Releases22
  <2> QED  BY <1>1, <2>4, AllDo, NextRuns
<1>4. mig_todo' = [mig_todo EXCEPT ![s] = mig_todo[s]] /\ mig_todo[s] \in SUBSET (1..22) /\ mig_crashes' \in Nat
  BY <1>1 DEF MigInv
<1> QED  BY <1>1, <1>3, <1>4, MigQuiet

\* Every step keeps the invariant.
LEMMA MigKept == MigInv /\ [Mig!Next]_(Mig!vars) => MigInv'
<1> SUFFICES ASSUME MigInv, [Mig!Next]_(Mig!vars) PROVE MigInv'
  OBVIOUS
<1>1. CASE UNCHANGED Mig!vars
  BY <1>1 DEF MigInv, AtRelease, MigLeft, Mig!vars
<1>2. ASSUME NEW s \in Services, Mig!ReadApplied(s) PROVE MigInv'
  <2>1. 1..22 \ mig_applied \in SUBSET (1..22)
    OBVIOUS
  <2> QED  BY <1>2, <2>1, MigQuiet, Has22 DEF Mig!ReadApplied, MigInv
<1>3. ASSUME NEW s \in Services, Mig!Finish(s) PROVE MigInv'
  <2>1. mig_todo' = [mig_todo EXCEPT ![s] = {}] /\ {} \in SUBSET (1..22) /\ mig_crashes' \in Nat
    BY <1>3 DEF Mig!Finish, MigInv
  <2>2. mig_applied = 1..22
    <3>1. \A i \in 1..22 : i \in mig_applied
      BY <1>3 DEF Mig!Finish, MigInv, MigLeft
    <3>2. PICK n \in 0..22 : mig_applied = 1..n
      BY DEF MigInv, AtRelease
    <3>3. n = 22
      BY <3>1, <3>2
    <3> QED  BY <3>2, <3>3
  <2> QED  BY <1>3, <2>1, <2>2, MigQuiet DEF Mig!Finish
<1>4. ASSUME NEW s \in Services, Mig!Restart(s) \/ Mig!Crash(s) PROVE MigInv'
  <2>1. /\ mig_pc' = [mig_pc EXCEPT ![s] = "start"] /\ mig_todo' = [mig_todo EXCEPT ![s] = {}]
        /\ UNCHANGED <<mig_applied, mig_schema, mig_tokens>> /\ mig_crashes' \in Nat
    BY <1>4 DEF Mig!Restart, Mig!Crash, MigInv
  <2> QED  BY <2>1, MigQuiet
<1>5. ASSUME NEW s \in Services, NEW i \in 1..22,
             Mig!RunMigration(s, i) \/ Mig!MigrationFails(s, i)
      PROVE  MigInv'
  BY <1>5, MigRun, MigFails
<1> QED  BY <1>1, <1>2, <1>3, <1>4, <1>5, Has22 DEF Mig!Next, Mig!Migrate

\* The invariant, of every behaviour: what the properties rest on.
THEOREM MigrationsInvariant == Mig!Spec => []MigInv
<1> QED  BY MigInit, MigKept, PTL DEF Mig!Spec

\* For all services, tenants and releases to start from, however starts race, fail and
\* crash: the database always is at a release, the statements that ran are those recorded,
\* toqar_app never reads a tenant's table without row security, a service that is up
\* finds the schema complete and every token, and a start fails only because another
\* migrates (migrations.ts, migrate.ts).
THEOREM MigrationsAreSafe == Mig!Spec => []Mig!MigratesSafely
<1>1. MigInv => Mig!SchemaMatchesApplied
  BY Has22 DEF MigInv, AtRelease, Mig!SchemaMatchesApplied
<1>2. MigInv => Mig!NeverExposed
  <2> SUFFICES ASSUME MigInv PROVE Mig!NeverExposed
    OBVIOUS
  <2>1. PICK n \in 0..22 : IsRelease(mig_schema, n)
    BY Releases22 DEF MigInv, AtRelease
  <2> QED  BY <2>1, ReleaseSafe DEF Mig!NeverExposed
<1>3. MigInv => Mig!ServesOnlyWhenReady
  <2> SUFFICES ASSUME MigInv, NEW s \in Services, mig_pc[s] = "up"
               PROVE  /\ mig_schema.tables \ mig_schema.owned = mig_schema.granted \ mig_schema.owned
                      /\ mig_schema.identity \ mig_schema.owned \subseteq mig_schema.sequences
                      /\ mig_schema.perRow = {} /\ mig_schema.initPlan = mig_schema.tables \ mig_schema.owned
                      /\ mig_tokens = Customers
    BY DEF Mig!ServesOnlyWhenReady
  <2>1. mig_applied = 1..22
    BY DEF MigInv, MigLeft
  <2>2. PICK n \in 0..22 : /\ mig_applied = 1..n /\ mig_schema = Mig!Released[n]
                           /\ mig_tokens = IF n < 6 THEN {} ELSE Customers
    BY DEF MigInv, AtRelease
  <2>3. n = 22
    <3>1. 22 \in mig_applied
      BY <2>1
    <3> QED  BY <2>2, <3>1
  <2>4. IsRelease(mig_schema, 22) /\ 22 \in 0..22
    BY <2>2, <2>3, Releases22
  <2> QED  BY <2>2, <2>3, <2>4, ReleaseSafe
<1>4. MigInv => Mig!FailsOnlyByRace
  BY DEF MigInv, MigLeft, Mig!FailsOnlyByRace
<1>5. MigInv => Mig!MigratesSafely
  BY <1>1, <1>2, <1>3, <1>4 DEF Mig!MigratesSafely
<1> QED  BY <1>5, MigrationsInvariant, PTL
-----------------------------------------------------------------------------
\* Both databases of a deployment, for any services that start, die and restart on them: no
\* row is ever exposed or lost by a migration, and what serves has the schema it needs.
THEOREM DatabasesAreSafe == Mig!Spec /\ Chm!Spec => []DatabasesMigrateSafely
<1>1. Mig!MigratesSafely /\ Chm!ChMigratesSafely => DatabasesMigrateSafely
  BY DEF DatabasesMigrateSafely
<1> QED  BY <1>1, MigrationsAreSafe, SchemaMigratesSafely, PTL
=============================================================================
