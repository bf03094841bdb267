-------------------------- MODULE AgentLoop_proofs --------------------------
(***************************************************************************)
(* Proofs about the agents.  AgentLoop, for all jobs, readings and autonomy*)
(* levels: what an agent states is cited by queries that were recorded,    *)
(* what is recorded of a delivery is true, an alert that is sent has its   *)
(* ground, and what becomes of an experiment follows from a verdict.  AgInv*)
(* follows a job from its query to the statement made of it and from its   *)
(* message to the record of it, ExperimentInv the calls of the experiment. *)
(* Then Instrumentation, for all repositories and proposals: InsInv follows*)
(* a run from its review to its record, WiresInv what it writes from the   *)
(* scan to the commit.                                                     *)
(***************************************************************************)
EXTENDS Agents, Integers, SequenceTheorems, FiniteSetTheorems, WellFoundedInduction, TLAPS

RunTyped ==
    /\ ag_run = [j \in Jobs |-> ag_run[j]]
    /\ \A j \in Jobs :
          /\ ag_run[j] = [pc |-> ag_run[j].pc, read |-> ag_run[j].read, holds |-> ag_run[j].holds]
          /\ Ag!Read(j) \in Seq(Readings)

\* All the metrics a job can ask for, in their order.
Asked(j) ==
    CASE j.kind = "sweep" -> Ag!SWEEP_METRICS
      [] j.kind = "question" -> Ag!ROUTES[j.route]
      [] j.kind = "digest" -> Ag!DIGEST_METRICS
      [] OTHER -> <<j.metric>>

\* What a job has read is recorded, and what it is about to record was asked.
ReadIsRecorded ==
    \A j \in Jobs : \A i \in 1..Len(Ag!Read(j)) : Ag!QueryId(j, Asked(j)[i]) \in ag_executed
CitesWhatItAsks ==
    \A j \in Jobs : Ag!At(j, "cite") =>
       /\ Ag!Asks(j) /\ Ag!Plan(j) = Asked(j)
       /\ \E v \in Readings : ag_run[j].holds = <<v>>
ReadsNoMore ==
    \A j \in Jobs : j.kind \notin {"question", "digest"} =>
       Len(Ag!Read(j)) <= IF j.kind = "sweep" THEN 3 ELSE 1

\* A job that is to record "delivered" had its message taken.
HoldsTruth ==
    \A j \in Jobs : Ag!At(j, "record") => (ag_run[j].holds[1] = "ok" => j \in ag_posted)

\* A job that has a record and is still recording is recording that it threw.
RowsInv ==
    \A j \in Jobs : \A d \in ag_deliveries : d.by = j =>
       /\ ag_run[j].pc \in {"record", "done", "failed"}
       /\ ag_run[j].pc = "record" => ag_run[j].holds[1] = "error"

\* The steps of the two calls of the experiment agent.
Belongs(j, p) ==
    /\ p \in {"level", "create", "assemble", "running"} => j.kind = "start"
    /\ p \in {"observe", "verdict", "status", "finding"} => j.kind = "monitor"
OnlyExperiments == \A j \in Jobs : Belongs(j, ag_run[j].pc)

AgInv ==
    /\ RunTyped /\ ReadIsRecorded /\ CitesWhatItAsks /\ ReadsNoMore
    /\ HoldsTruth /\ RowsInv /\ OnlyExperiments /\ Ag!CitationsResolve /\ Ag!DeliveriesAreTrue
-----------------------------------------------------------------------------
\* One job moves to p, has read no more, and leaves the others where they are.
JobAt(j, p) ==
    /\ RunTyped' /\ ag_run'[j].pc = p /\ ag_run'[j].read = ag_run[j].read
    /\ \A k \in Jobs \ {j} : ag_run'[k] = ag_run[k]

\* A job that only moves.
LEMMA GotoMoves ==
    ASSUME RunTyped, NEW j \in Jobs, NEW p, Ag!Goto(j, p)
    PROVE  JobAt(j, p) /\ ag_run'[j].holds = ag_run[j].holds
<1>1. ag_run' = [ag_run EXCEPT ![j].pc = p]
  BY DEF Ag!Goto
<1>2. \A k \in Jobs \ {j} : ag_run'[k] = ag_run[k]
  BY <1>1 DEF RunTyped
<1>3. ag_run'[j] = [pc |-> p, read |-> ag_run[j].read, holds |-> ag_run[j].holds]
  BY <1>1 DEF RunTyped
<1>4. ag_run' = [k \in Jobs |-> ag_run'[k]]
  BY <1>1 DEF RunTyped
<1>5. \A k \in Jobs :
         /\ ag_run'[k] = [pc |-> ag_run'[k].pc, read |-> ag_run'[k].read, holds |-> ag_run'[k].holds]
         /\ ag_run'[k].read \in Seq(Readings)
  BY <1>2, <1>3 DEF RunTyped, Ag!Read
<1> QED  BY <1>2, <1>3, <1>4, <1>5 DEF JobAt, RunTyped, Ag!Read

\* A job that moves and takes hold of a value.
LEMMA HoldMoves ==
    ASSUME RunTyped, NEW j \in Jobs, NEW p, NEW h,
           ag_run' = [ag_run EXCEPT ![j].pc = p, ![j].holds = h]
    PROVE  JobAt(j, p) /\ ag_run'[j].holds = h
<1>2. \A k \in Jobs \ {j} : ag_run'[k] = ag_run[k]
  BY DEF RunTyped
<1> DEFINE moved == [ag_run EXCEPT ![j].pc = p]
<1>1. /\ moved = [k \in Jobs |-> moved[k]]
      /\ moved[j] = [pc |-> p, read |-> ag_run[j].read, holds |-> ag_run[j].holds]
  BY DEF RunTyped
<1>6. ag_run' = [moved EXCEPT ![j].holds = h]
  OBVIOUS
<1> HIDE DEF moved
<1>3. ag_run'[j] = [pc |-> p, read |-> ag_run[j].read, holds |-> h]
  <2>1. ag_run'[j] = [moved[j] EXCEPT !.holds = h]
    BY <1>1, <1>6
  <2> QED  BY <1>1, <2>1
<1>4. ag_run' = [k \in Jobs |-> ag_run'[k]]
  BY DEF RunTyped
<1>5. \A k \in Jobs :
         /\ ag_run'[k] = [pc |-> ag_run'[k].pc, read |-> ag_run'[k].read, holds |-> ag_run'[k].holds]
         /\ ag_run'[k].read \in Seq(Readings)
  BY <1>2, <1>3 DEF RunTyped, Ag!Read
<1> QED  BY <1>2, <1>3, <1>4, <1>5 DEF JobAt, RunTyped, Ag!Read

\* What a step of a job that records no query has to show.
LEMMA JobStep ==
    ASSUME AgInv, NEW j \in Jobs, NEW p, JobAt(j, p), ag_executed' = ag_executed,
           p # "cite", Belongs(j, p),
           p = "record" => (ag_run'[j].holds[1] = "ok" => j \in ag_posted'),
           ag_posted \subseteq ag_posted', RowsInv', Ag!CitationsResolve', Ag!DeliveriesAreTrue'
    PROVE  AgInv'
<1>1. RunTyped' /\ \A k \in Jobs : Ag!Read(k)' = Ag!Read(k)
  BY DEF JobAt, Ag!Read
<1>2. ReadIsRecorded'
  BY <1>1 DEF AgInv, ReadIsRecorded, Asked, Ag!QueryId
<1>3. ReadsNoMore'
  BY <1>1 DEF AgInv, ReadsNoMore
<1>4. CitesWhatItAsks'
  <2> SUFFICES ASSUME NEW k \in Jobs, ag_run'[k].pc = "cite"
               PROVE  /\ Ag!Asks(k)' /\ Ag!Plan(k)' = Asked(k)
                      /\ \E v \in Readings : ag_run'[k].holds = <<v>>
    BY DEF CitesWhatItAsks, Ag!At, Asked
  <2>1. k # j /\ ag_run'[k] = ag_run[k]
    BY DEF JobAt
  <2>2. Ag!Plan(k)' = Ag!Plan(k) /\ (Ag!Asks(k)' <=> Ag!Asks(k))
    BY <1>1 DEF Ag!Plan, Ag!Asks, Ag!SweepStops, Ag!Moved
  <2>3. Ag!At(k, "cite")
    BY <2>1 DEF Ag!At
  <2> QED  BY <2>1, <2>2, <2>3 DEF AgInv, CitesWhatItAsks
<1>5. HoldsTruth'
  BY DEF AgInv, HoldsTruth, JobAt, Ag!At
<1>6. OnlyExperiments'
  BY DEF AgInv, OnlyExperiments, Belongs, JobAt
<1> QED  BY <1>1, <1>2, <1>3, <1>4, <1>5, <1>6 DEF AgInv

\* A job without a record moves on: no record is its own.
LEMMA RowsStay ==
    ASSUME AgInv, NEW j \in Jobs, NEW p, JobAt(j, p), ag_deliveries' = ag_deliveries,
           ag_run[j].pc \notin {"record", "done", "failed"}
    PROVE  RowsInv'
  BY DEF AgInv, RowsInv, JobAt

\* The records of deliveries stay true when a job moves without one.
LEMMA DeliveriesStay ==
    ASSUME AgInv, NEW j \in Jobs, NEW p, JobAt(j, p), ag_deliveries' = ag_deliveries,
           ag_posted \subseteq ag_posted', p = "done" => j.kind \notin {"digest", "alert"}
    PROVE  Ag!DeliveriesAreTrue'
  BY DEF AgInv, Ag!DeliveriesAreTrue, JobAt, Ag!At

\* A job that moves and tells nobody anything.
LEMMA SilentStep ==
    ASSUME AgInv, NEW j \in Jobs, NEW p, JobAt(j, p), UNCHANGED <<ag_executed, Ag!outputs>>,
           p \notin {"cite", "record"}, p = "done" => j.kind \notin {"digest", "alert"},
           Belongs(j, p), ag_run[j].pc \notin {"record", "done", "failed"}
    PROVE  AgInv'
<1>1. /\ ag_executed' = ag_executed /\ ag_findings' = ag_findings /\ ag_answers' = ag_answers
      /\ ag_posted' = ag_posted /\ ag_deliveries' = ag_deliveries
  BY DEF Ag!outputs
<1>2. Ag!CitationsResolve'
  BY <1>1 DEF AgInv, Ag!CitationsResolve, Ag!Supplied, Ag!Cites
<1>3. Ag!DeliveriesAreTrue' /\ RowsInv'
  BY <1>1, DeliveriesStay, RowsStay
<1> QED  BY <1>1, <1>2, <1>3, JobStep

\* A job that states something and moves: the statement must be cited.
LEMMA StateStep ==
    ASSUME AgInv, NEW j \in Jobs, NEW p, JobAt(j, p),
           UNCHANGED <<ag_executed, ag_posted, ag_deliveries>>,
           p \in {"done", "failed", "post"},
           p = "done" => j.kind \notin {"digest", "alert"},
           ag_run[j].pc \notin {"record", "done", "failed"},
           \A said \in (ag_findings' \cup ag_answers') \ (ag_findings \cup ag_answers) :
              /\ Ag!Cites(said.metrics) \subseteq said.evidence
              /\ said.evidence \subseteq ag_executed \cup Ag!Supplied(said.by)
    PROVE  AgInv'
<1>1. Ag!CitationsResolve'
  BY DEF AgInv, Ag!CitationsResolve, Ag!Cites, Ag!Supplied
<1>2. Ag!DeliveriesAreTrue' /\ RowsInv'
  BY DeliveriesStay, RowsStay
<1> QED  BY <1>1, <1>2, JobStep DEF Belongs

\* The queries of what a job has read so far are recorded.
LEMMA EntriesRecorded ==
    ASSUME AgInv, NEW j \in Jobs
    PROVE  /\ Ag!Read(j) \in Seq(Readings) /\ Len(Ag!Read(j)) \in Nat
           /\ DOMAIN Ag!Read(j) = 1..Len(Ag!Read(j))
           /\ Ag!Cites(Ag!Entries(j, Asked(j))) \subseteq ag_executed
           /\ \A e \in Ag!Cites(Ag!Entries(j, Asked(j))) :
                 \E i \in DOMAIN Ag!Read(j) : e = Ag!QueryId(j, Asked(j)[i])
<1>1. Ag!Read(j) \in Seq(Readings)
  BY DEF AgInv, RunTyped
<1>2. Len(Ag!Read(j)) \in Nat /\ DOMAIN Ag!Read(j) = 1..Len(Ag!Read(j))
  BY <1>1, LenProperties
<1>3. \A e \in Ag!Cites(Ag!Entries(j, Asked(j))) :
         \E i \in DOMAIN Ag!Read(j) : e = Ag!QueryId(j, Asked(j)[i])
  <2> SUFFICES ASSUME NEW e \in Ag!Cites(Ag!Entries(j, Asked(j)))
               PROVE  \E i \in DOMAIN Ag!Read(j) : e = Ag!QueryId(j, Asked(j)[i])
    OBVIOUS
  <2>1. PICK entry \in Ag!Entries(j, Asked(j)) : e = entry.query
    BY DEF Ag!Cites
  <2>2. PICK i \in DOMAIN Ag!Read(j) :
           entry = [metric |-> Asked(j)[i], value |-> Ag!Number(Ag!Read(j)[i]),
                    query |-> Ag!QueryId(j, Asked(j)[i])]
    BY <2>1 DEF Ag!Entries
  <2> QED  BY <2>1, <2>2
<1>4. Ag!Cites(Ag!Entries(j, Asked(j))) \subseteq ag_executed
  BY <1>2, <1>3 DEF AgInv, ReadIsRecorded
<1> QED  BY <1>1, <1>2, <1>3, <1>4
-----------------------------------------------------------------------------
\* A call starts where its kind starts.
LEMMA StartStep ==
    ASSUME AgInv, NEW j \in Jobs, Ag!StartJob(j)
    PROVE  AgInv'
<1>1. /\ RunTyped /\ UNCHANGED <<ag_executed, Ag!outputs>> /\ ag_run[j].pc = "idle"
      /\ Ag!Goto(j, IF j.kind \in {"start", "monitor"} THEN Ag!First[j.kind] ELSE "work")
  BY DEF AgInv, Ag!StartJob, Ag!At
<1>2. CASE j.kind \in {"start", "monitor"}
  <2>1. PICK p \in {"level", "observe"} : Ag!Goto(j, p) /\ Belongs(j, p)
    BY <1>1, <1>2 DEF Ag!First, Belongs
  <2>2. JobAt(j, p)
    BY <1>1, <2>1, GotoMoves
  <2> QED  BY <1>1, <1>2, <2>1, <2>2, SilentStep
<1>3. CASE j.kind \notin {"start", "monitor"}
  <2>1. JobAt(j, "work")
    BY <1>1, <1>3, GotoMoves
  <2> QED  BY <1>1, <2>1, SilentStep DEF Belongs
<1> QED  BY <1>2, <1>3

\* A call that throws.
LEMMA FailStep ==
    ASSUME AgInv, NEW j \in Jobs, Ag!CallFails(j) \/ Ag!QueryFails(j)
    PROVE  AgInv'
<1>1. /\ JobAt(j, "failed") /\ UNCHANGED <<ag_executed, Ag!outputs>>
      /\ ag_run[j].pc \notin {"record", "done", "failed"}
  BY GotoMoves DEF AgInv, Ag!CallFails, Ag!QueryFails, Ag!At
<1> QED  BY <1>1, SilentStep DEF Belongs

\* While a job asks, it asks for the next of its metrics.
LEMMA AsksInOrder ==
    ASSUME AgInv, NEW j \in Jobs, Ag!Asks(j)
    PROVE  /\ Ag!Plan(j) = Asked(j)
           /\ j.kind \notin {"question", "digest"} =>
                 Len(Ag!Read(j)) < IF j.kind = "sweep" THEN 3 ELSE 1
<1>1. Len(Ag!Read(j)) \in Nat /\ Len(Ag!Read(j)) < Len(Ag!Plan(j))
  BY EntriesRecorded DEF Ag!Asks
<1>2. CASE j.kind = "sweep"
  <2>1. Ag!Plan(j) = <<>> \/ Ag!Plan(j) = Ag!SWEEP_METRICS
    BY <1>2 DEF Ag!Plan
  <2>2. Ag!Plan(j) = Ag!SWEEP_METRICS
    BY <1>1, <2>1
  <2> QED  BY <1>1, <1>2, <2>2 DEF Asked, Ag!SWEEP_METRICS
<1>3. CASE j.kind \in {"question", "digest"}
  BY <1>3 DEF Ag!Plan, Asked
<1>4. CASE j.kind \notin {"sweep", "question", "digest"}
  <2>1. Ag!Plan(j) = <<j.metric>> /\ Asked(j) = <<j.metric>>
    BY <1>4 DEF Ag!Plan, Asked
  <2> QED  BY <1>1, <1>4, <2>1
<1> QED  BY <1>2, <1>3, <1>4

\* The rows of a query are held until its citation is recorded.
LEMMA QueryStep ==
    ASSUME AgInv, NEW j \in Jobs, Ag!Query(j)
    PROVE  AgInv'
<1>1. PICK v \in Readings : ag_run' = [ag_run EXCEPT ![j].pc = "cite", ![j].holds = <<v>>]
  BY DEF Ag!Query
<1>2. JobAt(j, "cite") /\ ag_run'[j].holds = <<v>>
  BY <1>1, HoldMoves DEF AgInv
<1>3. /\ ag_executed' = ag_executed /\ ag_findings' = ag_findings /\ ag_answers' = ag_answers
      /\ ag_posted' = ag_posted /\ ag_deliveries' = ag_deliveries /\ Ag!Asks(j)
  BY DEF Ag!Query, Ag!outputs
<1>4. RunTyped' /\ \A k \in Jobs : Ag!Read(k)' = Ag!Read(k)
  BY <1>2 DEF JobAt, Ag!Read
<1>5. ReadIsRecorded' /\ ReadsNoMore'
  BY <1>3, <1>4 DEF AgInv, ReadIsRecorded, Asked, Ag!QueryId, ReadsNoMore
<1>6. CitesWhatItAsks'
  <2> SUFFICES ASSUME NEW k \in Jobs, ag_run'[k].pc = "cite"
               PROVE  /\ Ag!Asks(k)' /\ Ag!Plan(k)' = Asked(k)
                      /\ \E w \in Readings : ag_run'[k].holds = <<w>>
    BY DEF CitesWhatItAsks, Ag!At, Asked
  <2>1. Ag!Plan(k)' = Ag!Plan(k) /\ (Ag!Asks(k)' <=> Ag!Asks(k))
    BY <1>4 DEF Ag!Plan, Ag!Asks, Ag!SweepStops, Ag!Moved
  <2>2. CASE k = j
    BY <1>2, <1>3, <2>1, <2>2, AsksInOrder
  <2>3. CASE k # j
    BY <1>2, <2>1, <2>3 DEF AgInv, CitesWhatItAsks, Ag!At, JobAt
  <2> QED  BY <2>2, <2>3
<1>7. HoldsTruth' /\ OnlyExperiments' /\ Ag!DeliveriesAreTrue'
  BY <1>2, <1>3 DEF AgInv, HoldsTruth, OnlyExperiments, Ag!DeliveriesAreTrue, JobAt, Ag!At,
                    Belongs
<1>9. RowsInv'
  BY <1>2, <1>3, RowsStay DEF Ag!Query, Ag!At
<1>8. Ag!CitationsResolve'
  BY <1>3 DEF AgInv, Ag!CitationsResolve, Ag!Supplied, Ag!Cites
<1> QED  BY <1>4, <1>5, <1>6, <1>7, <1>8, <1>9 DEF AgInv

\* A citation is recorded before its rows are returned, or the job fails.
LEMMA CiteStep ==
    ASSUME AgInv, NEW j \in Jobs, Ag!Cite(j)
    PROVE  AgInv'
<1> DEFINE q == Ag!QueryId(j, Asked(j)[Len(Ag!Read(j)) + 1])
<1>1. PICK v \in Readings : ag_run[j].holds = <<v>>
  BY DEF AgInv, CitesWhatItAsks, Ag!Cite
<1>2. /\ ag_executed' = ag_executed \cup {q} /\ Ag!Asks(j) /\ ag_run[j].pc = "cite"
      /\ ag_findings' = ag_findings /\ ag_answers' = ag_answers
      /\ ag_posted' = ag_posted /\ ag_deliveries' = ag_deliveries
  BY DEF AgInv, CitesWhatItAsks, Ag!Cite, Ag!outputs, Ag!At
<1>3. Ag!CitationsResolve'
  BY <1>2 DEF AgInv, Ag!CitationsResolve, Ag!Supplied, Ag!Cites
<1>4. CASE ag_run' = [ag_run EXCEPT ![j].pc = "failed"]
  <2>1. JobAt(j, "failed")
    BY <1>4, GotoMoves DEF AgInv, Ag!Goto
  <2>2. RunTyped' /\ \A k \in Jobs : Ag!Read(k)' = Ag!Read(k)
    BY <2>1 DEF JobAt, Ag!Read
  <2>3. ReadIsRecorded' /\ ReadsNoMore'
    BY <1>2, <2>2 DEF AgInv, ReadIsRecorded, Asked, Ag!QueryId, ReadsNoMore
  <2>4. CitesWhatItAsks'
    <3> SUFFICES ASSUME NEW k \in Jobs, ag_run'[k].pc = "cite"
                 PROVE  /\ Ag!Asks(k)' /\ Ag!Plan(k)' = Asked(k)
                        /\ \E w \in Readings : ag_run'[k].holds = <<w>>
      BY DEF CitesWhatItAsks, Ag!At, Asked
    <3>1. Ag!Plan(k)' = Ag!Plan(k) /\ (Ag!Asks(k)' <=> Ag!Asks(k))
      BY <2>2 DEF Ag!Plan, Ag!Asks, Ag!SweepStops, Ag!Moved
    <3> QED  BY <2>1, <3>1 DEF AgInv, CitesWhatItAsks, Ag!At, JobAt
  <2>5. HoldsTruth' /\ OnlyExperiments' /\ Ag!DeliveriesAreTrue'
    BY <1>2, <2>1 DEF AgInv, HoldsTruth, OnlyExperiments, Ag!DeliveriesAreTrue, JobAt, Ag!At,
                      Belongs
  <2>6. RowsInv'
    BY <1>2, <2>1, RowsStay
  <2> QED  BY <1>3, <2>2, <2>3, <2>4, <2>5, <2>6 DEF AgInv
<1>5. CASE ag_run' = [ag_run EXCEPT ![j].pc = "work", ![j].read = Ag!Read(j) \o ag_run[j].holds]
  <2> DEFINE longer == Ag!Read(j) \o <<v>>
             moved == [ag_run EXCEPT ![j].pc = "work"]
  <2>1. /\ moved = [k \in Jobs |-> moved[k]]
        /\ moved[j] = [pc |-> "work", read |-> ag_run[j].read, holds |-> ag_run[j].holds]
        /\ \A k \in Jobs \ {j} : moved[k] = ag_run[k]
    BY DEF AgInv, RunTyped
  <2>2. ag_run' = [moved EXCEPT ![j].read = longer]
    BY <1>1, <1>5
  <2>3. /\ Ag!Read(j) \in Seq(Readings) /\ Len(Ag!Read(j)) \in Nat
        /\ longer \in Seq(Readings) /\ Len(longer) = Len(Ag!Read(j)) + 1
    BY EntriesRecorded, ConcatProperties
  <2> HIDE DEF moved, longer
  <2>4. ag_run'[j] = [pc |-> "work", read |-> longer, holds |-> ag_run[j].holds]
    <3>1. ag_run'[j] = [moved[j] EXCEPT !.read = longer]
      BY <2>1, <2>2
    <3> QED  BY <2>1, <3>1
  <2>5. ag_run' = [k \in Jobs |-> ag_run'[k]] /\ \A k \in Jobs \ {j} : ag_run'[k] = ag_run[k]
    BY <2>1, <2>2
  <2>6. \A k \in Jobs :
           /\ ag_run'[k] = [pc |-> ag_run'[k].pc, read |-> ag_run'[k].read, holds |-> ag_run'[k].holds]
           /\ ag_run'[k].read \in Seq(Readings)
    <3>1. ASSUME NEW k \in Jobs \ {j}
          PROVE  /\ ag_run'[k] = [pc |-> ag_run'[k].pc, read |-> ag_run'[k].read, holds |-> ag_run'[k].holds]
                 /\ ag_run'[k].read \in Seq(Readings)
      BY <2>5 DEF AgInv, RunTyped, Ag!Read
    <3>2. /\ ag_run'[j] = [pc |-> ag_run'[j].pc, read |-> ag_run'[j].read, holds |-> ag_run'[j].holds]
          /\ ag_run'[j].read \in Seq(Readings)
      BY <2>3, <2>4
    <3> QED BY <3>1, <3>2
  <2>7. RunTyped'
    BY <2>5, <2>6 DEF RunTyped, Ag!Read
  <2>8. Ag!Read(j)' = longer /\ \A k \in Jobs \ {j} : Ag!Read(k)' = Ag!Read(k)
    BY <2>4, <2>5 DEF Ag!Read
  <2>9. ReadIsRecorded'
    <3> SUFFICES ASSUME NEW k \in Jobs, NEW i \in 1..Len(Ag!Read(k)')
                 PROVE  Ag!QueryId(k, Asked(k)[i]) \in ag_executed'
      BY DEF ReadIsRecorded, Asked, Ag!QueryId
    <3>1. CASE k # j
      BY <1>2, <2>8, <3>1 DEF AgInv, ReadIsRecorded
    <3>2. CASE k = j
      <4>1. i \in 1..Len(Ag!Read(j)) \/ i = Len(Ag!Read(j)) + 1
        BY <2>3, <2>8, <3>2
      <4> QED  BY <1>2, <3>2, <4>1 DEF AgInv, ReadIsRecorded
    <3> QED  BY <3>1, <3>2
  <2>10. ReadsNoMore'
    <3> SUFFICES ASSUME NEW k \in Jobs, k.kind \notin {"question", "digest"}
                 PROVE  Len(Ag!Read(k)') <= IF k.kind = "sweep" THEN 3 ELSE 1
      BY DEF ReadsNoMore
    <3>1. CASE k # j
      BY <2>8, <3>1 DEF AgInv, ReadsNoMore
    <3>2. CASE k = j
      BY <1>2, <2>3, <2>8, <3>2, AsksInOrder
    <3> QED  BY <3>1, <3>2
  <2>11. CitesWhatItAsks'
    <3> SUFFICES ASSUME NEW k \in Jobs, ag_run'[k].pc = "cite"
                 PROVE  /\ Ag!Asks(k)' /\ Ag!Plan(k)' = Asked(k)
                        /\ \E w \in Readings : ag_run'[k].holds = <<w>>
      BY DEF CitesWhatItAsks, Ag!At, Asked
    <3>1. k # j
      BY <2>4
    <3>2. Ag!Plan(k)' = Ag!Plan(k) /\ (Ag!Asks(k)' <=> Ag!Asks(k))
      BY <2>8, <3>1 DEF Ag!Plan, Ag!Asks, Ag!SweepStops, Ag!Moved
    <3> QED  BY <2>5, <3>1, <3>2 DEF AgInv, CitesWhatItAsks, Ag!At
  <2>12. HoldsTruth' /\ OnlyExperiments' /\ Ag!DeliveriesAreTrue'
    BY <1>2, <2>4, <2>5 DEF AgInv, HoldsTruth, OnlyExperiments, Ag!DeliveriesAreTrue, Ag!At,
                            Belongs
  <2>13. RowsInv'
    BY <1>2, <2>4, <2>5 DEF AgInv, RowsInv
  <2> QED  BY <1>3, <2>7, <2>9, <2>10, <2>11, <2>12, <2>13 DEF AgInv
<1> QED  BY <1>4, <1>5 DEF Ag!Cite
-----------------------------------------------------------------------------
\* An answer cites the queries of the metrics it gives.
LEMMA ReplyStep ==
    ASSUME AgInv, NEW j \in Jobs, Ag!Reply(j)
    PROVE  AgInv'
<1>1. /\ JobAt(j, "done") /\ j.kind = "question" /\ ag_answers' = ag_answers \cup {Ag!Answer(j)}
      /\ UNCHANGED <<ag_executed, ag_findings, ag_posted, ag_deliveries>> /\ ag_run[j].pc = "work"
  BY GotoMoves DEF AgInv, Ag!Reply, Ag!At
<1>2. Asked(j) = Ag!ROUTES[j.route]
  BY <1>1 DEF Asked
<1>3. /\ Ag!Cites(Ag!Answer(j).metrics) \subseteq Ag!Answer(j).evidence
      /\ Ag!Answer(j).evidence \subseteq ag_executed
  BY <1>2, EntriesRecorded DEF Ag!Answer
<1> QED  BY <1>1, <1>3, StateStep

\* The MCP server's rows and runs cite their one query.
LEMMA ToldStep ==
    ASSUME AgInv, NEW j \in Jobs, Ag!QueryMetric(j) \/ Ag!GetRun(j)
    PROVE  AgInv'
<1>1. /\ JobAt(j, "done") /\ j.kind \in {"mcp", "get_run"} /\ ~Ag!Asks(j)
      /\ \/ ag_answers' = ag_answers \cup {Ag!Told(j, "rows")}
         \/ ag_answers' = ag_answers \cup {Ag!Told(j, "run")}
      /\ UNCHANGED <<ag_executed, ag_findings, ag_posted, ag_deliveries>> /\ ag_run[j].pc = "work"
  BY GotoMoves DEF AgInv, Ag!QueryMetric, Ag!GetRun, Ag!At
<1>2. Ag!Plan(j) = <<j.metric>> /\ Asked(j) = <<j.metric>>
  BY <1>1 DEF Asked, Ag!Plan
<1>3. DOMAIN Ag!Read(j) = {1}
  <2>1. Len(Ag!Read(j)) \in Nat /\ DOMAIN Ag!Read(j) = 1..Len(Ag!Read(j))
    BY EntriesRecorded
  <2>2. Len(Ag!Read(j)) <= 1
    BY <1>1 DEF AgInv, ReadsNoMore
  <2>3. Len(Ag!Read(j)) >= 1
    BY <1>1, <1>2, <2>1 DEF Ag!Asks
  <2> QED  BY <2>1, <2>2, <2>3
<1>4. {Ag!QueryId(j, j.metric)} \subseteq ag_executed
  <2>1. Len(Ag!Read(j)) \in Nat /\ 1 \in 1..Len(Ag!Read(j))
    BY <1>3, EntriesRecorded
  <2>2. Ag!QueryId(j, Asked(j)[1]) \in ag_executed
    BY <2>1 DEF AgInv, ReadIsRecorded
  <2> QED  BY <1>2, <2>2
<1>5. Ag!Cites(Ag!Entries(j, Ag!Plan(j))) \subseteq {Ag!QueryId(j, j.metric)}
  BY <1>2, <1>3, EntriesRecorded
<1>6. ASSUME NEW says
      PROVE  /\ Ag!Cites(Ag!Told(j, says).metrics) \subseteq Ag!Told(j, says).evidence
             /\ Ag!Told(j, says).evidence \subseteq ag_executed
  BY <1>4, <1>5 DEF Ag!Told
<1> QED  BY <1>1, <1>6, StateStep

\* A sweep cites all it read, and publishes only when it has read everything.
LEMMA SweepStep ==
    ASSUME AgInv, NEW j \in Jobs, Ag!EndSweep(j) \/ Ag!PublishSweep(j)
    PROVE  AgInv'
<1>1. /\ j.kind = "sweep" /\ ~Ag!Asks(j) /\ UNCHANGED <<ag_executed, ag_posted, ag_deliveries>>
      /\ ag_run[j].pc = "work"
      /\ JobAt(j, "done") \/ JobAt(j, "failed")
      /\ ag_answers' = ag_answers \/ ag_answers' = ag_answers \cup {Ag!SweepRecord(j)}
      /\ \/ ag_findings' = ag_findings
         \/ Ag!Moved(Ag!Read(j)) /\ ag_findings' = ag_findings \cup {Ag!SweepFinding(j)}
  BY GotoMoves DEF AgInv, Ag!EndSweep, Ag!PublishSweep, Ag!At
<1>2. /\ Asked(j) = Ag!SWEEP_METRICS
      /\ Len(Ag!Read(j)) \in Nat /\ DOMAIN Ag!Read(j) = 1..Len(Ag!Read(j)) /\ Len(Ag!Read(j)) <= 3
  BY <1>1, EntriesRecorded DEF Asked, AgInv, ReadsNoMore
<1>3. {Ag!QueryId(j, Ag!SWEEP_METRICS[i]) : i \in DOMAIN Ag!Read(j)} \subseteq ag_executed
  BY <1>2 DEF AgInv, ReadIsRecorded
<1>4. /\ Ag!Cites(Ag!SweepRecord(j).metrics) \subseteq Ag!SweepRecord(j).evidence
      /\ Ag!SweepRecord(j).evidence \subseteq ag_executed
  BY <1>3 DEF Ag!SweepRecord, Ag!Cites
<1>5. ASSUME Ag!Moved(Ag!Read(j))
      PROVE  /\ Ag!Cites(Ag!SweepFinding(j).metrics) \subseteq Ag!SweepFinding(j).evidence
             /\ Ag!SweepFinding(j).evidence \subseteq ag_executed
  <2>1. DOMAIN Ag!SWEEP_METRICS = 1..3 /\ Len(Ag!SWEEP_METRICS) = 3
    BY DEF Ag!SWEEP_METRICS
  <2>2. ~Ag!SweepStops(Ag!Read(j))
    BY <1>2, <1>5 DEF Ag!SweepStops, Ag!Moved
  <2>3. Len(Ag!Read(j)) = 3
    BY <1>1, <1>2, <2>1, <2>2 DEF Ag!Asks, Ag!Plan
  <2>4. DOMAIN Ag!Read(j) = DOMAIN Ag!SWEEP_METRICS
    BY <1>2, <2>1, <2>3
  <2>5. Ag!Cites(Ag!Entries(j, Ag!SWEEP_METRICS)) \subseteq
           {Ag!QueryId(j, Ag!SWEEP_METRICS[i]) : i \in DOMAIN Ag!SWEEP_METRICS}
    BY <1>2, <2>4, EntriesRecorded
  <2> QED  BY <1>3, <2>4, <2>5 DEF Ag!SweepFinding
<1> QED  BY <1>1, <1>4, <1>5, StateStep

\* The digest cites the queries of the metrics it lists.
LEMMA DigestStep ==
    ASSUME AgInv, NEW j \in Jobs, Ag!BuildDigest(j)
    PROVE  AgInv'
<1> DEFINE f == [by |-> j, metrics |-> Ag!Entries(j, Ag!DIGEST_METRICS),
                 evidence |-> Ag!Cites(Ag!Entries(j, Ag!DIGEST_METRICS)), says |-> "info"]
<1>1. /\ JobAt(j, "post") /\ j.kind = "digest" /\ ag_findings' = ag_findings \cup {f}
      /\ UNCHANGED <<ag_executed, ag_answers, ag_posted, ag_deliveries>> /\ ag_run[j].pc = "work"
  BY GotoMoves DEF AgInv, Ag!BuildDigest, Ag!At
<1>2. Asked(j) = Ag!DIGEST_METRICS
  BY <1>1 DEF Asked
<1>3. Ag!Cites(f.metrics) \subseteq f.evidence /\ f.evidence \subseteq ag_executed
  BY <1>2, EntriesRecorded
<1> HIDE DEF f
<1> QED  BY <1>1, <1>3, StateStep

\* An alert fires, or records that it did not.
LEMMA AlertStep ==
    ASSUME AgInv, NEW j \in Jobs, Ag!EvaluateAlert(j)
    PROVE  AgInv'
<1>1. /\ ag_executed' = ag_executed /\ ag_findings' = ag_findings /\ ag_answers' = ag_answers
      /\ ag_posted' = ag_posted /\ ag_run[j].pc = "work"
  BY DEF Ag!EvaluateAlert, Ag!At
<1>2. CASE Ag!Goto(j, "post") /\ ag_deliveries' = ag_deliveries
  <2>1. JobAt(j, "post")
    BY <1>2, GotoMoves DEF AgInv
  <2> QED  BY <1>1, <1>2, <2>1, SilentStep DEF Ag!outputs, Belongs
<1>3. CASE /\ Ag!Goto(j, "done")
           /\ ag_deliveries' =
                 ag_deliveries \cup {[by |-> j, status |-> "skipped", detail |-> ""]}
  <2>1. JobAt(j, "done")
    BY <1>3, GotoMoves DEF AgInv
  <2>2. Ag!DeliveriesAreTrue' /\ RowsInv'
    <3> DEFINE row == [by |-> j, status |-> "skipped", detail |-> ""]
    <3>1. row.by = j /\ row.status # "delivered" /\ ag_deliveries' = ag_deliveries \cup {row}
      BY <1>3
    <3> HIDE DEF row
    <3>2. \A d \in ag_deliveries' : d.status = "delivered" => d.by \in ag_posted'
      BY <1>1, <3>1 DEF AgInv, Ag!DeliveriesAreTrue
    <3>3. \A k \in Jobs : k.kind \in {"digest", "alert"} /\ ag_run'[k].pc = "done" =>
             \E d \in ag_deliveries' : d.by = k
      BY <2>1, <3>1 DEF AgInv, Ag!DeliveriesAreTrue, JobAt, Ag!At
    <3>4. \A d \in ag_deliveries : d.by # j
      BY <1>1 DEF AgInv, RowsInv
    <3>5. \A d, e \in ag_deliveries' :
             d.by = e.by /\ d.status = "delivered" /\ e.status # "delivered" => e.detail = "error"
      BY <3>1, <3>4 DEF AgInv, Ag!DeliveriesAreTrue
    <3>6. RowsInv'
      BY <2>1, <3>1, <3>4 DEF AgInv, RowsInv, JobAt
    <3> QED  BY <3>2, <3>3, <3>5, <3>6 DEF Ag!DeliveriesAreTrue, Ag!At
  <2>3. Ag!CitationsResolve'
    BY <1>1 DEF AgInv, Ag!CitationsResolve, Ag!Supplied, Ag!Cites
  <2> QED  BY <1>1, <2>1, <2>2, <2>3, JobStep DEF Belongs
<1> QED  BY <1>2, <1>3 DEF Ag!EvaluateAlert

\* A job knows of a delivery only what the webhook answered.
LEMMA PostStep ==
    ASSUME AgInv, NEW j \in Jobs, Ag!Post(j)
    PROVE  AgInv'
<1>1. PICK a \in Ag!Attempts :
         /\ ag_posted' = IF a.took THEN ag_posted \cup {j} ELSE ag_posted
         /\ ag_run' = [ag_run EXCEPT ![j].pc = "record", ![j].holds = <<a.says>>]
  BY DEF Ag!Post
<1>2. /\ ag_executed' = ag_executed /\ ag_findings' = ag_findings /\ ag_answers' = ag_answers
      /\ ag_deliveries' = ag_deliveries /\ ag_posted \subseteq ag_posted' /\ ag_run[j].pc = "post"
  BY <1>1 DEF Ag!Post, Ag!At
<1>3. JobAt(j, "record") /\ ag_run'[j].holds = <<a.says>>
  BY <1>1, HoldMoves DEF AgInv
<1>4. ag_run'[j].holds[1] = "ok" => j \in ag_posted'
  BY <1>1, <1>3 DEF Ag!Attempts
<1>5. Ag!CitationsResolve'
  BY <1>2 DEF AgInv, Ag!CitationsResolve, Ag!Supplied, Ag!Cites
<1>6. Ag!DeliveriesAreTrue' /\ RowsInv'
  BY <1>2, <1>3, DeliveriesStay, RowsStay
<1> QED  BY <1>2, <1>3, <1>4, <1>5, <1>6, JobStep DEF Belongs

\* "delivered" is recorded of what was delivered, and a job ends with its record.
LEMMA RecordStep ==
    ASSUME AgInv, NEW j \in Jobs, Ag!Record(j)
    PROVE  AgInv'
<1> DEFINE said == ag_run[j].holds[1]
           row == Ag!Row(j, said)
<1>1. PICK stored \in BOOLEAN, answered \in BOOLEAN :
         /\ answered => stored
         /\ ag_deliveries' = IF stored THEN ag_deliveries \cup {row} ELSE ag_deliveries
         /\ ag_run' = IF answered THEN [ag_run EXCEPT ![j].pc = "done"]
                   ELSE IF said = "ok" /\ j.kind = "digest"
                        THEN [ag_run EXCEPT ![j].holds = <<"error">>]
                   ELSE [ag_run EXCEPT ![j].pc = "failed"]
  BY DEF Ag!Record
<1>2. /\ ag_executed' = ag_executed /\ ag_findings' = ag_findings /\ ag_answers' = ag_answers
      /\ ag_posted' = ag_posted /\ Ag!At(j, "record") /\ RunTyped
  BY DEF Ag!Record, AgInv
<1>3. Ag!CitationsResolve'
  BY <1>2 DEF AgInv, Ag!CitationsResolve, Ag!Supplied, Ag!Cites
<1>4. \A d \in ag_deliveries' : d.status = "delivered" => d.by \in ag_posted'
  <2>1. row.status = "delivered" => row.by \in ag_posted
    BY <1>2 DEF AgInv, HoldsTruth, Ag!Row
  <2> HIDE DEF row
  <2> QED  BY <1>1, <1>2, <2>1 DEF AgInv, Ag!DeliveriesAreTrue
<1>5. \A k \in Jobs \ {j} :
         ag_run'[k] = ag_run[k] => (k.kind \in {"digest", "alert"} /\ ag_run'[k].pc = "done" =>
                                 \E d \in ag_deliveries' : d.by = k)
  BY <1>1 DEF AgInv, Ag!DeliveriesAreTrue, Ag!At
<1>9. \A d, e \in ag_deliveries' :
         d.by = e.by /\ d.status = "delivered" /\ e.status # "delivered" => e.detail = "error"
  <2>1. /\ row.by = j /\ row.detail = said
        /\ said # "error" => \A d \in ag_deliveries : d.by # j
        /\ row.status = "delivered" => said = "ok"
    BY <1>2 DEF AgInv, RowsInv, Ag!Row, Ag!At
  <2>2. ag_deliveries' \subseteq ag_deliveries \cup {row}
    BY <1>1
  <2> HIDE DEF row, said
  <2>3. \A d, e \in ag_deliveries :
           d.by = e.by /\ d.status = "delivered" /\ e.status # "delivered" => e.detail = "error"
    BY DEF AgInv, Ag!DeliveriesAreTrue
  <2>4. row.status = "delivered" => \A d \in ag_deliveries : d.by # row.by
    BY <2>1
  <2>5. row.detail # "error" => \A d \in ag_deliveries : d.by # row.by
    BY <2>1
  <2> QED BY <2>2, <2>3, <2>4, <2>5
<1>10. ASSUME NEW p, JobAt(j, p), p \in {"record", "done", "failed"},
              p = "record" => ag_run'[j].holds[1] = "error"
       PROVE  RowsInv'
  <2>1. row.by = j /\ ag_deliveries' \subseteq ag_deliveries \cup {row}
    BY <1>1 DEF Ag!Row
  <2> HIDE DEF row
  <2> QED BY <1>10, <2>1 DEF AgInv, RowsInv, JobAt
<1>6. CASE answered
  <2>1. JobAt(j, "done")
    BY <1>1, <1>2, <1>6, GotoMoves DEF Ag!Goto
  <2>2. row \in ag_deliveries' /\ row.by = j
    BY <1>1, <1>6 DEF Ag!Row
  <2> HIDE DEF row
  <2>3. Ag!DeliveriesAreTrue'
    BY <1>4, <1>5, <1>9, <2>1, <2>2 DEF Ag!DeliveriesAreTrue, JobAt, Ag!At
  <2>4. RowsInv'
    BY <1>10, <2>1
  <2> QED  BY <1>2, <1>3, <2>1, <2>3, <2>4, JobStep DEF Belongs
<1>7. CASE ~answered /\ ag_run' = [ag_run EXCEPT ![j].pc = "failed"]
  <2>1. JobAt(j, "failed")
    BY <1>2, <1>7, GotoMoves DEF Ag!Goto
  <2>2. Ag!DeliveriesAreTrue'
    BY <1>4, <1>5, <1>9, <2>1 DEF Ag!DeliveriesAreTrue, JobAt, Ag!At
  <2>3. RowsInv'
    BY <1>10, <2>1
  <2> QED  BY <1>2, <1>3, <2>1, <2>2, <2>3, JobStep DEF Belongs
<1>8. CASE ~answered /\ ag_run' = [ag_run EXCEPT ![j].holds = <<"error">>]
  <2> DEFINE no == <<"error">>
  <2>1. ag_run' = [ag_run EXCEPT ![j].holds = no]
    BY <1>8
  <2>2. no[1] = "error"
    OBVIOUS
  <2> HIDE DEF no
  <2>3. ag_run'[j] = [pc |-> ag_run[j].pc, read |-> ag_run[j].read, holds |-> no]
    BY <1>2, <2>1 DEF RunTyped
  <2>4. ag_run' = [k \in Jobs |-> ag_run'[k]]
    BY <1>2, <2>1 DEF RunTyped
  <2>5. \A k \in Jobs \ {j} : ag_run'[k] = ag_run[k]
    BY <1>2, <2>1 DEF RunTyped
  <2>6. ag_run'[j].pc = ag_run[j].pc /\ ag_run'[j].read = ag_run[j].read /\ ag_run'[j].holds = no
    BY <2>3
  <2>7. \A k \in Jobs :
           /\ ag_run'[k] = [pc |-> ag_run'[k].pc, read |-> ag_run'[k].read, holds |-> ag_run'[k].holds]
           /\ ag_run'[k].read \in Seq(Readings)
    <3>1. \A k \in Jobs \ {j} :
             /\ ag_run'[k] = [pc |-> ag_run'[k].pc, read |-> ag_run'[k].read, holds |-> ag_run'[k].holds]
             /\ ag_run'[k].read \in Seq(Readings)
      BY <1>2, <2>5 DEF RunTyped, Ag!Read
    <3>2. ag_run'[j] = [pc |-> ag_run'[j].pc, read |-> ag_run'[j].read, holds |-> ag_run'[j].holds]
      BY <2>3, <2>6
    <3>3. ag_run'[j].read \in Seq(Readings)
      BY <1>2, <2>6 DEF RunTyped, Ag!Read
    <3> QED  BY <3>1, <3>2, <3>3
  <2>8. JobAt(j, "record")
    <3>1. RunTyped'
      BY <2>7, <2>4 DEF RunTyped, Ag!Read
    <3>2. ag_run'[j].pc = "record" /\ ag_run'[j].read = ag_run[j].read
      BY <1>2, <2>6 DEF Ag!At
    <3> QED  BY <2>5, <3>1, <3>2 DEF JobAt
  <2>9. Ag!DeliveriesAreTrue'
    BY <1>4, <1>5, <1>9, <2>8 DEF Ag!DeliveriesAreTrue, JobAt, Ag!At
  <2>10. ag_run'[j].holds[1] = "error"
    BY <2>6, <2>2
  <2>11. RowsInv'
    BY <1>10, <2>8, <2>10
  <2> QED  BY <1>2, <1>3, <2>8, <2>9, <2>10, <2>11, JobStep DEF Belongs
<1> QED  BY <1>1, <1>6, <1>7, <1>8
-----------------------------------------------------------------------------
\* The experiment agent's steps before its finding state nothing.
LEMMA ExperimentStep ==
    ASSUME AgInv, NEW j \in Jobs,
           \/ Ag!GetAutonomyLevel(j) \/ Ag!CreateExperiment(j) \/ Ag!AssembleVariantPr(j)
           \/ Ag!SetRunning(j) \/ Ag!MonitorExperiment(j) \/ Ag!WriteVerdict(j) \/ Ag!UpdateStatus(j)
    PROVE  AgInv'
<1>1. ag_run[j].pc \notin {"record", "done", "failed"} /\ UNCHANGED <<ag_executed, Ag!outputs>>
  BY DEF Ag!GetAutonomyLevel, Ag!CreateExperiment, Ag!AssembleVariantPr, Ag!SetRunning,
         Ag!MonitorExperiment, Ag!WriteVerdict, Ag!UpdateStatus, Ag!At
<1>2. Belongs(j, ag_run[j].pc) /\ RunTyped
  BY DEF AgInv, OnlyExperiments
<1>3. \E p \in {"done", "failed", "create", "assemble", "running", "verdict", "status", "finding"} :
         JobAt(j, p) /\ Belongs(j, p) /\ j.kind \in {"start", "monitor"}
  <2>1. CASE Ag!GetAutonomyLevel(j)
    <3>1. PICK p \in {"done", "create"} :
             ag_run' = [ag_run EXCEPT ![j].pc = p, ![j].holds = <<ag_level>>]
      BY <2>1 DEF Ag!GetAutonomyLevel
    <3>2. j.kind = "start"
      BY <1>2, <2>1 DEF Belongs, Ag!GetAutonomyLevel, Ag!At
    <3>3. JobAt(j, p) /\ Belongs(j, p)
      BY <1>2, <3>1, <3>2, HoldMoves DEF Belongs
    <3> QED  BY <3>2, <3>3
  <2>2. CASE Ag!MonitorExperiment(j)
    <3>1. PICK sides \in [j.guardrails -> Ag!Sides], target \in Ag!Sides :
             LET v == Ag!Verdict(j, sides, target)
             IN  ag_run' = IF v.decision = "inconclusive" THEN [ag_run EXCEPT ![j].pc = "done"]
                           ELSE [ag_run EXCEPT ![j].pc = "verdict", ![j].holds = <<v>>]
      BY <2>2 DEF Ag!MonitorExperiment
    <3>2. Ag!Goto(j, "done") \/ \E h : ag_run' = [ag_run EXCEPT ![j].pc = "verdict", ![j].holds = h]
      BY <3>1 DEF Ag!Goto
    <3>3. j.kind = "monitor"
      BY <1>2, <2>2 DEF Belongs, Ag!MonitorExperiment, Ag!At
    <3>4. JobAt(j, "done") \/ JobAt(j, "verdict")
      BY <1>2, <3>2, GotoMoves, HoldMoves
    <3> QED  BY <3>3, <3>4 DEF Belongs
  <2>3. CASE Ag!CreateExperiment(j) \/ Ag!AssembleVariantPr(j) \/ Ag!SetRunning(j)
    <3>1. j.kind = "start"
      BY <1>2, <2>3 DEF Belongs, Ag!CreateExperiment, Ag!AssembleVariantPr, Ag!SetRunning, Ag!At
    <3>2. PICK p \in {"assemble", "running", "done", "failed"} : Ag!Goto(j, p)
      BY <2>3 DEF Ag!CreateExperiment, Ag!AssembleVariantPr, Ag!SetRunning
    <3>3. JobAt(j, p)
      BY <1>2, <3>2, GotoMoves
    <3> QED  BY <3>1, <3>3 DEF Belongs
  <2>4. CASE Ag!WriteVerdict(j) \/ Ag!UpdateStatus(j)
    <3>1. j.kind = "monitor"
      BY <1>2, <2>4 DEF Belongs, Ag!WriteVerdict, Ag!UpdateStatus, Ag!At
    <3>2. PICK p \in {"status", "finding", "failed"} : Ag!Goto(j, p)
      BY <2>4 DEF Ag!WriteVerdict, Ag!UpdateStatus
    <3>3. JobAt(j, p)
      BY <1>2, <3>2, GotoMoves
    <3> QED  BY <3>1, <3>3 DEF Belongs
  <2> QED  BY <2>1, <2>2, <2>3, <2>4
<1> QED  BY <1>1, <1>2, <1>3, SilentStep

\* The finding of a verdict cites, for every effect it states, an id the caller supplied.
LEMMA VerdictStep ==
    ASSUME AgInv, NEW j \in Jobs, Ag!PublishVerdict(j)
    PROVE  AgInv'
<1> DEFINE v == ag_run[j].holds[1]
           f == Ag!VerdictFinding(j, v)
<1>1. /\ ag_findings' = ag_findings \cup {f} /\ UNCHANGED <<ag_executed, ag_answers, ag_posted,
                                                            ag_deliveries>>
      /\ JobAt(j, "done") \/ JobAt(j, "failed")
      /\ ag_run[j].pc = "finding"
  BY GotoMoves DEF AgInv, Ag!PublishVerdict, Ag!At
<1>2. j.kind = "monitor"
  BY <1>1 DEF AgInv, OnlyExperiments, Belongs
<1>3. /\ f.by = j /\ f.metrics = Ag!Effects(j, v)
      /\ f.evidence = {Ag!CiteOf(j, m) : m \in j.guardrails \cup {"target"}}
  BY DEF Ag!VerdictFinding
<1>4. Ag!Cites(f.metrics) \subseteq f.evidence
  <2>1. \A e \in Ag!Effects(j, v) : \E m \in j.guardrails \cup {"target"} : e.query = Ag!CiteOf(j, m)
    BY DEF Ag!Effects
  <2> HIDE DEF f, v
  <2> QED BY <1>3, <2>1 DEF Ag!Cites
<1>5. f.evidence \subseteq Ag!Supplied(f.by)
  <2>1. "target" \in DOMAIN j.cites
    BY <1>2, AgentsAssumption DEF Ag!KnownJobs
  <2>2. \A m : Ag!CiteOf(j, m) \in Ag!Supplied(j)
    BY <1>2, <2>1 DEF Ag!CiteOf, Ag!Supplied
  <2> HIDE DEF f, v
  <2> QED BY <1>3, <2>2
<1> HIDE DEF f, v
<1> QED  BY <1>1, <1>2, <1>4, <1>5, StateStep

\* Before any call nothing is read, stated or recorded.
LEMMA AgStarts == Ag!Init => AgInv
<1> SUFFICES ASSUME Ag!Init PROVE AgInv
  OBVIOUS
<1>1. ag_run = [j \in Jobs |-> [pc |-> "idle", read |-> <<>>, holds |-> <<>>]]
  BY DEF Ag!Init
<1>2. \A j \in Jobs : ag_run[j] = [pc |-> "idle", read |-> <<>>, holds |-> <<>>]
  BY <1>1
<1>3. \A j \in Jobs : Ag!Read(j) = <<>> /\ ag_run[j].pc = "idle"
  BY <1>2 DEF Ag!Read
<1>4. RunTyped
  <2>1. <<>> \in Seq(Readings)
    BY EmptySeq
  <2>2. ag_run = [j \in Jobs |-> ag_run[j]]
    BY <1>1
  <2>3. \A j \in Jobs :
           ag_run[j] = [pc |-> ag_run[j].pc, read |-> ag_run[j].read, holds |-> ag_run[j].holds]
    BY <1>2
  <2>4. \A j \in Jobs : Ag!Read(j) \in Seq(Readings)
    BY <1>3, <2>1
  <2> QED  BY <2>2, <2>3, <2>4 DEF RunTyped
<1>5. ReadIsRecorded /\ ReadsNoMore
  <2>1. Len(<<>>) = 0
    BY EmptySeq
  <2> QED  BY <1>3, <2>1 DEF ReadIsRecorded, ReadsNoMore
<1>6. CitesWhatItAsks /\ HoldsTruth /\ OnlyExperiments
  BY <1>3 DEF CitesWhatItAsks, HoldsTruth, OnlyExperiments, Ag!At, Belongs
<1>7. Ag!CitationsResolve /\ Ag!DeliveriesAreTrue /\ RowsInv
  BY <1>3 DEF Ag!Init, Ag!CitationsResolve, Ag!DeliveriesAreTrue, RowsInv, Ag!At
<1> QED  BY <1>4, <1>5, <1>6, <1>7 DEF AgInv

\* Every step keeps the inductive invariant.
LEMMA AgKept == AgInv /\ [Ag!Next]_(Ag!vars) => AgInv'
<1> SUFFICES ASSUME AgInv, [Ag!Next]_(Ag!vars) PROVE AgInv'
  OBVIOUS
<1>1. CASE UNCHANGED <<ag_run, ag_executed, Ag!outputs>>
  <2>1. UNCHANGED <<ag_run, ag_executed, ag_findings, ag_answers, ag_posted, ag_deliveries>>
    BY <1>1 DEF Ag!outputs
  <2> QED
    BY <2>1 DEF AgInv, RunTyped, ReadIsRecorded, CitesWhatItAsks, ReadsNoMore, HoldsTruth,
                RowsInv, Belongs, Ag!Supplied, Ag!Cites,
                OnlyExperiments, Ag!CitationsResolve, Ag!DeliveriesAreTrue, Ag!Read, Ag!At, Ag!Asks,
                Ag!Plan, Asked, Ag!SweepStops, Ag!Moved, Ag!QueryId
<1>2. CASE Ag!SetAutonomy \/ UNCHANGED Ag!vars
  BY <1>1, <1>2 DEF Ag!SetAutonomy, Ag!vars, Ag!outputs
<1>3. CASE Ag!Next /\ ~Ag!SetAutonomy
  BY <1>3, StartStep, FailStep, QueryStep, CiteStep, ReplyStep, ToldStep, SweepStep,
     DigestStep, AlertStep, PostStep, RecordStep, ExperimentStep, VerdictStep DEF Ag!Next
<1> QED  BY <1>2, <1>3
-----------------------------------------------------------------------------
\* The inductive invariant holds in every state of the agents.
THEOREM AgentInvariant == Ag!Spec => []AgInv
<1> QED  BY AgStarts, AgKept, PTL DEF Ag!Spec

\* Every metric in a finding, an answer or a digest is cited, and every citation is of a
\* recorded query or, in the finding of an experiment's verdict, an id that the caller of the
\* pass supplied, for any calls made together and wherever each fails.
THEOREM StatementsAreCited == Ag!Spec => []Ag!CitationsResolve
<1>1. AgInv => Ag!CitationsResolve
  BY DEF AgInv
<1> QED  BY <1>1, AgentInvariant, PTL

\* A delivery is recorded as delivered only if a webhook took the message, and as failed as
\* well only if that record was not answered; a digest or an alert that ended has a record.
THEOREM DeliveriesAreRecorded == Ag!Spec => []Ag!DeliveriesAreTrue
<1>1. AgInv => Ag!DeliveriesAreTrue
  BY DEF AgInv
<1> QED  BY <1>1, AgentInvariant, PTL
-----------------------------------------------------------------------------
(* The other parts of AgentLoopSafe, of the jobs there are (KnownJobs).     *)

\* What is newly stated is honest, so all is.
LEMMA HonestStep ==
    ASSUME Ag!SweepsAreHonest, ag_findings \subseteq ag_findings',
           \A a \in ag_answers' \ ag_answers :
              a.says = "published" => \E f \in ag_findings' : f.by = a.by,
           \A f \in ag_findings' \ ag_findings : f.by.kind = "sweep" =>
              \A e \in f.metrics : e.metric = "regression_delta" =>
                 Ag!Abs(e.value) >= 1 /\ (f.says = "critical" <=> e.value < 0)
    PROVE  Ag!SweepsAreHonest'
  BY DEF Ag!SweepsAreHonest

\* The one delta in a sweep's finding is the one that moved.
LEMMA FindingSpeaksOfDelta ==
    ASSUME AgInv, NEW j \in Jobs, j.kind = "sweep", Ag!Moved(Ag!Read(j)),
           NEW e \in Ag!SweepFinding(j).metrics, e.metric = "regression_delta"
    PROVE  Ag!Abs(e.value) >= 1 /\ (Ag!SweepFinding(j).says = "critical" <=> e.value < 0)
<1>1. e \in Ag!Entries(j, Ag!SWEEP_METRICS)
  BY DEF Ag!SweepFinding
<1>2. PICK i \in DOMAIN Ag!Read(j) :
         e = [metric |-> Ag!SWEEP_METRICS[i], value |-> Ag!Number(Ag!Read(j)[i]),
              query |-> Ag!QueryId(j, Ag!SWEEP_METRICS[i])]
  BY <1>1 DEF Ag!Entries
<1>3. i \in 1..3
  BY EntriesRecorded DEF AgInv, ReadsNoMore
<1>4. e.metric = Ag!SWEEP_METRICS[i] /\ e.value = Ag!Number(Ag!Read(j)[i])
  BY <1>2
<1>5. i = 2
  BY <1>3, <1>4 DEF Ag!SWEEP_METRICS
<1>6. Ag!Abs(Ag!Number(Ag!Read(j)[2])) >= 1
  BY DEF Ag!Moved
<1>7. Ag!SweepFinding(j).says = IF Ag!Number(Ag!Read(j)[2]) < 0 THEN "critical" ELSE "positive"
  BY DEF Ag!SweepFinding
<1> QED
  BY <1>4, <1>5, <1>6, <1>7

\* A step keeps the sweeps honest: only a sweep that published says so.
LEMMA SweepsNext ==
    ASSUME Ag!KnownJobs, AgInv, Ag!SweepsAreHonest, [Ag!Next]_(Ag!vars)
    PROVE  Ag!SweepsAreHonest'
<1>1. CASE ag_findings' = ag_findings /\ ag_answers' = ag_answers
  BY <1>1, HonestStep
<1>2. ASSUME NEW j \in Jobs, Ag!Reply(j) \/ Ag!QueryMetric(j) \/ Ag!GetRun(j) \/ Ag!EndSweep(j)
      PROVE  Ag!SweepsAreHonest'
  <2>1. ag_findings' = ag_findings
    BY <1>2 DEF Ag!Reply, Ag!QueryMetric, Ag!GetRun, Ag!EndSweep
  <2>2. CASE Ag!Reply(j)
    <3>1. Ag!Answer(j).says # "published"
      BY <2>2 DEF Ag!KnownJobs, Ag!Reply, Ag!Answer
    <3> QED BY <2>1, <2>2, <3>1, HonestStep DEF Ag!Reply
  <2>3. CASE Ag!QueryMetric(j) \/ Ag!GetRun(j)
    <3>1. Ag!Told(j, "rows").says # "published" /\ Ag!Told(j, "run").says # "published"
      BY DEF Ag!Told
    <3> QED BY <2>1, <2>3, <3>1, HonestStep DEF Ag!QueryMetric, Ag!GetRun
  <2>4. CASE Ag!EndSweep(j)
    <3>1. Ag!SweepRecord(j).says # "published"
      BY <2>4 DEF Ag!SweepRecord, Ag!EndSweep
    <3> QED BY <2>1, <2>4, <3>1, HonestStep DEF Ag!EndSweep
  <2> QED BY <1>2, <2>2, <2>3, <2>4
<1>3. ASSUME NEW j \in Jobs, Ag!PublishSweep(j)
      PROVE  Ag!SweepsAreHonest'
  <2>1. /\ j.kind = "sweep" /\ Ag!Moved(Ag!Read(j)) /\ ag_findings' = ag_findings \cup {Ag!SweepFinding(j)}
        /\ ag_answers' = ag_answers \/ ag_answers' = ag_answers \cup {Ag!SweepRecord(j)}
    BY <1>3 DEF Ag!PublishSweep
  <2>2. Ag!SweepFinding(j).by = j /\ Ag!SweepRecord(j).by = j
    BY DEF Ag!SweepFinding, Ag!SweepRecord
  <2>3. \A e \in Ag!SweepFinding(j).metrics : e.metric = "regression_delta" =>
           Ag!Abs(e.value) >= 1 /\ (Ag!SweepFinding(j).says = "critical" <=> e.value < 0)
    BY <2>1, FindingSpeaksOfDelta
  <2> QED BY <2>1, <2>2, <2>3, HonestStep
<1>4. ASSUME NEW j \in Jobs, Ag!BuildDigest(j) \/ Ag!PublishVerdict(j)
      PROVE  Ag!SweepsAreHonest'
  <2>1. j.kind # "sweep"
    BY <1>4 DEF Ag!BuildDigest, Ag!PublishVerdict, AgInv, OnlyExperiments, Belongs, Ag!At
  <2>2. ag_answers' = ag_answers /\ \E f : f.by = j /\ ag_findings' = ag_findings \cup {f}
    <3>1. \A m, e, s : [by |-> j, metrics |-> m, evidence |-> e, says |-> s].by = j
      OBVIOUS
    <3> QED BY <1>4, <3>1 DEF Ag!BuildDigest, Ag!PublishVerdict, Ag!VerdictFinding
  <2> QED BY <2>1, <2>2, HonestStep
<1>5. CASE UNCHANGED Ag!vars \/ Ag!SetAutonomy
  BY <1>1, <1>5 DEF Ag!vars, Ag!SetAutonomy, Ag!outputs
<1>6. ASSUME NEW j \in Jobs,
             \/ Ag!StartJob(j) \/ Ag!Query(j) \/ Ag!Cite(j) \/ Ag!QueryFails(j) \/ Ag!CallFails(j)
             \/ Ag!EvaluateAlert(j) \/ Ag!Post(j) \/ Ag!Record(j)
      PROVE  Ag!SweepsAreHonest'
  BY <1>1, <1>6 DEF Ag!StartJob, Ag!Query, Ag!Cite, Ag!QueryFails, Ag!CallFails, Ag!EvaluateAlert,
     Ag!Post,
     Ag!Record, Ag!outputs
<1>7. ASSUME NEW j \in Jobs,
             \/ Ag!GetAutonomyLevel(j) \/ Ag!CreateExperiment(j) \/ Ag!AssembleVariantPr(j)
             \/ Ag!SetRunning(j) \/ Ag!MonitorExperiment(j) \/ Ag!WriteVerdict(j) \/ Ag!UpdateStatus(j)
      PROVE  Ag!SweepsAreHonest'
  BY <1>1, <1>7 DEF Ag!GetAutonomyLevel, Ag!CreateExperiment, Ag!AssembleVariantPr, Ag!SetRunning,
     Ag!MonitorExperiment, Ag!WriteVerdict, Ag!UpdateStatus, Ag!outputs
<1> QED
  BY <1>2, <1>3, <1>4, <1>5, <1>6, <1>7 DEF Ag!Next

\* An alert that is sent, or about to be, has its ground, and is at the end of its call.
AlertsInv ==
    /\ \A j \in Jobs : j.kind = "alert" /\ ag_run[j].pc \in {"post", "record"} => Ag!Fires(j)
    /\ ag_posted \subseteq Jobs
    /\ \A j \in ag_posted :
          ag_run[j].pc \in {"record", "done", "failed"} /\ (j.kind = "alert" => Ag!Fires(j))

\* A job that reads nothing more and, if it was posted, goes on to its end.
LEMMA AlertsMove ==
    ASSUME AlertsInv, NEW j \in Jobs, NEW p, JobAt(j, p), ag_posted' = ag_posted,
           p \in {"post", "record"} => (j.kind = "alert" => Ag!Fires(j)),
           j \in ag_posted => p \in {"record", "done", "failed"}
    PROVE  AlertsInv'
<1>1. \A k \in Jobs : Ag!Read(k)' = Ag!Read(k) /\ (Ag!Fires(k)' <=> Ag!Fires(k))
  BY DEF JobAt, Ag!Read, Ag!Fires
<1>2. \A k \in Jobs \ {j} : ag_run'[k].pc = ag_run[k].pc
  BY DEF JobAt
<1>3. ag_run'[j].pc = p
  BY DEF JobAt
<1> QED
  BY <1>1, <1>2, <1>3 DEF AlertsInv

\* Every step keeps the grounds of the alerts.
LEMMA AlertsNext ==
    ASSUME AgInv, AlertsInv, [Ag!Next]_(Ag!vars)
    PROVE  AlertsInv'
<1>1. RunTyped
  BY DEF AgInv
<1>2. CASE UNCHANGED <<ag_run, ag_posted>>
  BY <1>2 DEF AlertsInv, Ag!Fires, Ag!Read
<1>3. ASSUME NEW j \in Jobs,
             \/ Ag!StartJob(j) \/ Ag!QueryFails(j) \/ Ag!CallFails(j) \/ Ag!Reply(j) \/ Ag!QueryMetric(j)
             \/ Ag!GetRun(j) \/ Ag!EndSweep(j) \/ Ag!PublishSweep(j) \/ Ag!CreateExperiment(j)
             \/ Ag!AssembleVariantPr(j) \/ Ag!SetRunning(j) \/ Ag!WriteVerdict(j) \/ Ag!UpdateStatus(j)
             \/ Ag!PublishVerdict(j)
      PROVE  AlertsInv'
  <2>1. ag_posted' = ag_posted /\ ag_run[j].pc \notin {"record", "done", "failed"}
    BY <1>3 DEF Ag!StartJob, Ag!QueryFails, Ag!CallFails, Ag!Reply, Ag!QueryMetric, Ag!GetRun,
       Ag!EndSweep,
       Ag!PublishSweep, Ag!CreateExperiment, Ag!AssembleVariantPr, Ag!SetRunning, Ag!WriteVerdict,
       Ag!UpdateStatus, Ag!PublishVerdict, Ag!At, Ag!outputs
  <2>2. j \notin ag_posted
    BY <2>1 DEF AlertsInv
  <2>3. \E p : p \notin {"post", "record"} /\ Ag!Goto(j, p)
    BY <1>3 DEF Ag!StartJob, Ag!QueryFails, Ag!CallFails, Ag!Reply, Ag!QueryMetric, Ag!GetRun,
       Ag!EndSweep,
       Ag!PublishSweep, Ag!CreateExperiment, Ag!AssembleVariantPr, Ag!SetRunning, Ag!WriteVerdict,
       Ag!UpdateStatus, Ag!PublishVerdict, Ag!First
  <2> QED BY <1>1, <2>1, <2>2, <2>3, GotoMoves, AlertsMove
<1>4. ASSUME NEW j \in Jobs, Ag!Query(j) \/ Ag!GetAutonomyLevel(j) \/ Ag!MonitorExperiment(j)
      PROVE  AlertsInv'
  <2>1. ag_posted' = ag_posted /\ ag_run[j].pc \notin {"record", "done", "failed"}
    BY <1>4 DEF Ag!Query, Ag!GetAutonomyLevel, Ag!MonitorExperiment, Ag!At, Ag!outputs
  <2>2. j \notin ag_posted
    BY <2>1 DEF AlertsInv
  <2>3. \E p : p \notin {"post", "record"} /\ JobAt(j, p)
    <3>1. \/ Ag!Goto(j, "done")
          \/ \E p \in {"cite", "create", "done", "verdict"} : \E h :
                ag_run' = [ag_run EXCEPT ![j].pc = p, ![j].holds = h]
      BY <1>4 DEF Ag!Query, Ag!GetAutonomyLevel, Ag!MonitorExperiment, Ag!Goto
    <3> QED BY <1>1, <3>1, GotoMoves, HoldMoves
  <2> QED BY <2>1, <2>2, <2>3, AlertsMove
<1>5. ASSUME NEW j \in Jobs, Ag!Cite(j)
      PROVE  AlertsInv'
  <2>1. ag_posted' = ag_posted /\ ag_run[j].pc = "cite" /\ j \notin ag_posted
    BY <1>5 DEF Ag!Cite, AlertsInv, Ag!At, Ag!outputs
  <2>2. \A k \in Jobs \ {j} : ag_run'[k] = ag_run[k]
    BY <1>1, <1>5 DEF Ag!Cite, RunTyped
  <2>3. ag_run'[j].pc \in {"work", "failed"}
    <3> DEFINE r == ag_run[j]
    <3>1. r = [pc |-> r.pc, read |-> r.read, holds |-> r.holds] /\ j \in DOMAIN ag_run
      BY <1>1 DEF RunTyped
    <3>2. \A q : [r EXCEPT !.pc = "work", !.read = q].pc = "work"
      BY <3>1
    <3>3. [r EXCEPT !.pc = "failed"].pc = "failed"
      BY <3>1
    <3> QED BY <1>5, <3>1, <3>2, <3>3 DEF Ag!Cite
  <2>4. \A k \in Jobs \ {j} : Ag!Fires(k)' <=> Ag!Fires(k)
    BY <2>2 DEF Ag!Fires, Ag!Read
  <2> QED BY <2>1, <2>2, <2>3, <2>4 DEF AlertsInv
<1>6. ASSUME NEW j \in Jobs, Ag!BuildDigest(j) \/ Ag!EvaluateAlert(j)
      PROVE  AlertsInv'
  <2>1. ag_posted' = ag_posted /\ ag_run[j].pc = "work" /\ j \notin ag_posted
    BY <1>6 DEF Ag!BuildDigest, Ag!EvaluateAlert, AlertsInv, Ag!At
  <2>2. \/ Ag!Goto(j, "done")
        \/ Ag!Goto(j, "post") /\ (j.kind = "alert" => Ag!Fires(j))
    BY <1>6 DEF Ag!BuildDigest, Ag!EvaluateAlert
  <2> QED BY <1>1, <2>1, <2>2, GotoMoves, AlertsMove
<1>7. ASSUME NEW j \in Jobs, Ag!Post(j)
      PROVE  AlertsInv'
  <2>1. JobAt(j, "record")
    <3>1. \E h : ag_run' = [ag_run EXCEPT ![j].pc = "record", ![j].holds = h]
      BY <1>7 DEF Ag!Post
    <3> QED BY <1>1, <3>1, HoldMoves
  <2>2. /\ ag_posted' = ag_posted \/ ag_posted' = ag_posted \cup {j}
        /\ ag_run[j].pc = "post" /\ (j.kind = "alert" => Ag!Fires(j))
    BY <1>7 DEF Ag!Post, AlertsInv, Ag!At
  <2>3. \A k \in Jobs : Ag!Fires(k)' <=> Ag!Fires(k)
    BY <2>1 DEF JobAt, Ag!Read, Ag!Fires
  <2>4. ag_run'[j].pc = "record" /\ \A k \in Jobs \ {j} : ag_run'[k].pc = ag_run[k].pc
    BY <2>1 DEF JobAt
  <2> QED BY <2>2, <2>3, <2>4 DEF AlertsInv
<1>8. ASSUME NEW j \in Jobs, Ag!Record(j)
      PROVE  AlertsInv'
  <2>1. ag_posted' = ag_posted /\ ag_run[j].pc = "record" /\ (j.kind = "alert" => Ag!Fires(j))
    BY <1>8 DEF Ag!Record, AlertsInv, Ag!At
  <2>2. \/ Ag!Goto(j, "done") \/ Ag!Goto(j, "failed")
        \/ ag_run' = [ag_run EXCEPT ![j].holds = <<"error">>]
    BY <1>8 DEF Ag!Record, Ag!Goto
  <2>3. CASE Ag!Goto(j, "done") \/ Ag!Goto(j, "failed")
    BY <1>1, <2>1, <2>3, GotoMoves, AlertsMove
  <2>4. CASE ag_run' = [ag_run EXCEPT ![j].holds = <<"error">>]
    <3> DEFINE no == <<"error">>
    <3>0. ag_run' = [ag_run EXCEPT ![j].holds = no]
      BY <2>4
    <3> HIDE DEF no
    <3>1. \A k \in Jobs \ {j} : ag_run'[k] = ag_run[k]
      BY <1>1, <3>0 DEF RunTyped
    <3>2. ag_run'[j] = [pc |-> ag_run[j].pc, read |-> ag_run[j].read, holds |-> no]
      BY <1>1, <3>0 DEF RunTyped
    <3>3. \A k \in Jobs : ag_run'[k].pc = ag_run[k].pc /\ ag_run'[k].read = ag_run[k].read
      BY <3>1, <3>2
    <3>4. \A k \in Jobs : Ag!Fires(k)' <=> Ag!Fires(k)
      BY <3>3 DEF Ag!Fires, Ag!Read
    <3> QED BY <2>1, <3>3, <3>4 DEF AlertsInv
  <2> QED BY <2>2, <2>3, <2>4
<1>9. CASE UNCHANGED Ag!vars \/ Ag!SetAutonomy
  BY <1>2, <1>9 DEF Ag!vars, Ag!SetAutonomy, Ag!outputs
<1> QED
  BY <1>3, <1>4, <1>5, <1>6, <1>7, <1>8, <1>9 DEF Ag!Next

\* Where a call of the experiment stands, and what it holds there.
Starting == {"create", "assemble", "running"}
Ended == ag_experiment.status \in {"stopped", "concluded"}
Harmless(v) ==
    v.decision = "ship" =>
       \A m \in DOMAIN v.observed :
          v.observed[m] # (IF m = "task_success_rate" THEN "below" ELSE "above")
Harm(m) == IF m = "task_success_rate" THEN "below" ELSE "above"
\* A verdict that pass j can have come to.
VerdictOf(j, v) ==
    \E sides \in [j.guardrails -> Ag!Sides], target \in Ag!Sides : v = Ag!Verdict(j, sides, target)
CallInv(j) ==
    /\ ag_run[j].pc \in Starting \cup {"level"} => j.kind = "start"
    /\ ag_run[j].pc \in {"observe", "verdict", "status", "finding"} => j.kind = "monitor"
    /\ ag_run[j].pc \in Starting =>
          \E n \in Int : n >= Ag!EXPERIMENT_AUTONOMY_LEVEL /\ ag_run[j].holds = <<n>>
    /\ ag_run[j].pc = "verdict" => \E v : VerdictOf(j, v) /\ ag_run[j].holds = <<v>>
    /\ ag_run[j].pc \in {"status", "finding"} =>
          /\ ag_experiment.verdict # <<>>
          /\ \E v \in ag_experiment.written :
                VerdictOf(j, v) /\ v.breached \subseteq DOMAIN j.cites /\ ag_run[j].holds = <<v>>
    /\ j.kind = "start" /\ ag_experiment.pr => ag_run[j].pc \in {"done", "failed"}
    /\ j.kind = "monitor" /\ ag_run[j].pc # "idle" => ag_experiment.pr

\* The experiment has its PR before a pass watches it, and then nobody starts it again.
RowInv ==
    /\ ag_experiment = [status |-> ag_experiment.status, pr |-> ag_experiment.pr,
                     verdict |-> ag_experiment.verdict, written |-> ag_experiment.written,
                     overlapped |-> ag_experiment.overlapped]
    /\ ag_experiment.pr \in BOOLEAN
    /\ ag_experiment.status \in {"running", "stopped", "concluded"} => ag_experiment.pr
    /\ Ended <=> ag_experiment.verdict # <<>>
    /\ ag_experiment.verdict = <<>> => ag_experiment.written = {}
    /\ \A v \in ag_experiment.written : Harmless(v)
\* A finding gives with each breach of its verdict the harm and the query.
Founded(f) ==
    /\ f.says.by = f.by /\ f.says.queries \subseteq f.evidence
    /\ \A m \in f.says.breached :
          [metric |-> m, query |-> f.by.cites[m], value |-> Harm(m)] \in f.metrics
FindingsInv ==
    \A f \in ag_findings : f.by.kind = "monitor" =>
       f.says \in ag_experiment.written /\ Founded(f)
ExperimentInv ==
    ag_level \in Int /\ RowInv /\ FindingsInv /\ \A j \in Jobs : CallInv(j)

\* A pass does not come to another verdict as time goes on.
LEMMA VerdictsAreRigid ==
    \A j, v : (VerdictOf(j, v)' <=> VerdictOf(j, v)) /\ (Harmless(v)' <=> Harmless(v))
  BY DEF VerdictOf, Harmless, Ag!Sides, Ag!Verdict, Ag!Breached, Ag!HarmOf, Ag!GUARDRAIL_HARM,
         Ag!TargetDecision

LEMMA FoundedIsRigid == \A f : Founded(f)' <=> Founded(f)
  BY DEF Founded, Harm

\* Before any call there is no experiment.
LEMMA ExperimentInit == ASSUME Ag!KnownJobs, Ag!Init PROVE ExperimentInv
<1>1. \A j \in Jobs : ag_run[j].pc = "idle"
  BY DEF Ag!Init
<1>2. /\ ag_experiment = [status |-> "none", pr |-> FALSE, verdict |-> <<>>, written |-> {},
                         overlapped |-> FALSE]
      /\ ag_level = 0 /\ ag_findings = {}
  BY DEF Ag!Init, Ag!Experiment0
<1>3. /\ ag_experiment.status = "none" /\ ag_experiment.pr = FALSE
      /\ ag_experiment.written = {} /\ ag_experiment.verdict = <<>>
  BY <1>2
<1>4. RowInv
  <2>1. ag_experiment = [status |-> ag_experiment.status, pr |-> ag_experiment.pr,
                     verdict |-> ag_experiment.verdict, written |-> ag_experiment.written,
                     overlapped |-> ag_experiment.overlapped]
    BY <1>2
  <2> QED BY <1>3, <2>1 DEF RowInv, Ended
<1>5. FindingsInv
  BY <1>2 DEF FindingsInv
<1>6. \A j \in Jobs : CallInv(j)
  BY <1>1, <1>3 DEF CallInv, Starting
<1> QED
  BY <1>2, <1>4, <1>5, <1>6 DEF ExperimentInv

\* The row moves on: a verdict, a PR and an end are never taken back.
Forward ==
    /\ ag_experiment.written \subseteq ag_experiment'.written
    /\ ag_experiment.pr => ag_experiment'.pr
    /\ ag_experiment.verdict # <<>> => ag_experiment'.verdict # <<>>

\* Under which the calls that do not move keep their place.
LEMMA OthersKeep ==
    ASSUME NEW k \in Jobs, CallInv(k), ag_run'[k] = ag_run[k], Forward,
           k.kind = "start" => ag_experiment'.pr = ag_experiment.pr
    PROVE  CallInv(k)'
  BY VerdictsAreRigid DEF CallInv, Forward

\* One call moves to p, and the others stay where they are.
OneMoves(j, p) ==
    ag_run'[j].pc = p /\ \A k \in Jobs \ {j} : ag_run'[k] = ag_run[k]

\* One call moves, and the row moves forward.
LEMMA CallStep ==
    ASSUME ExperimentInv, NEW j \in Jobs, NEW p, OneMoves(j, p), CallInv(j)',
           ag_level' = ag_level, Forward, RowInv', FindingsInv',
           \A k \in Jobs \ {j} : k.kind = "start" => ag_experiment'.pr = ag_experiment.pr
    PROVE  ExperimentInv'
<1>1. \A k \in Jobs \ {j} : CallInv(k)'
  BY OthersKeep DEF ExperimentInv, OneMoves
<1> QED
  BY <1>1 DEF ExperimentInv

\* One call moves and the row stays.
LEMMA CallMoves ==
    ASSUME ExperimentInv, NEW j \in Jobs, NEW p, OneMoves(j, p), CallInv(j)',
           UNCHANGED <<ag_level, ag_experiment>>, FindingsInv'
    PROVE  ExperimentInv'
<1>1. Forward
  BY DEF Forward
<1>2. RowInv'
  BY VerdictsAreRigid DEF ExperimentInv, RowInv, Ended
<1> QED
  BY <1>1, <1>2, CallStep

\* A call that moves to a place of which nothing is said.
LEMMA CallLeaves ==
    ASSUME ExperimentInv, NEW j \in Jobs,
           NEW p \in {"work", "cite", "post", "record", "done", "failed"}, OneMoves(j, p),
           UNCHANGED <<ag_level, ag_experiment>>, FindingsInv',
           ag_run[j].pc \notin {"idle", "done", "failed"}
    PROVE  ExperimentInv'
<1>1. ag_run'[j].pc = p /\ CallInv(j)
  BY DEF OneMoves, ExperimentInv
<1>2. CallInv(j)'
  BY <1>1, VerdictsAreRigid DEF CallInv, Starting
<1> QED
  BY <1>2, CallMoves

\* Findings of others than the experiment's passes.
LEMMA FindingsKeep ==
    ASSUME ExperimentInv, ag_experiment' = ag_experiment,
           \A f \in ag_findings' \ ag_findings : f.by.kind # "monitor"
    PROVE  FindingsInv'
  BY FoundedIsRigid DEF ExperimentInv, FindingsInv

\* Calls that do nothing to the experiment.
LEMMA OtherCallsKeep ==
    ASSUME AgInv, ExperimentInv, NEW j \in Jobs,
           \/ Ag!Query(j) \/ Ag!QueryFails(j) \/ Ag!CallFails(j) \/ Ag!Reply(j) \/ Ag!QueryMetric(j)
           \/ Ag!GetRun(j) \/ Ag!EndSweep(j) \/ Ag!PublishSweep(j) \/ Ag!BuildDigest(j)
           \/ Ag!EvaluateAlert(j) \/ Ag!Post(j)
    PROVE  ExperimentInv'
<1> DEFINE Left == {"work", "cite", "post", "record", "done", "failed"}
<1>1. RunTyped
  BY DEF AgInv
<1>2. UNCHANGED <<ag_level, ag_experiment>> /\ ag_run[j].pc \notin {"idle", "done", "failed"}
  BY DEF Ag!Query, Ag!QueryFails, Ag!CallFails, Ag!Reply, Ag!QueryMetric, Ag!GetRun, Ag!EndSweep,
     Ag!PublishSweep,
     Ag!BuildDigest, Ag!EvaluateAlert, Ag!Post, Ag!At, Ag!outputs
<1>3. \E p \in Left : JobAt(j, p)
  <2>1. \/ \E p \in Left : Ag!Goto(j, p)
        \/ \E p \in Left : \E h : ag_run' = [ag_run EXCEPT ![j].pc = p, ![j].holds = h]
    BY DEF Ag!Query, Ag!QueryFails, Ag!CallFails, Ag!Reply, Ag!QueryMetric, Ag!GetRun, Ag!EndSweep,
       Ag!PublishSweep, Ag!BuildDigest, Ag!EvaluateAlert, Ag!Post
  <2> QED BY <1>1, <2>1, GotoMoves, HoldMoves
<1>4. FindingsInv'
  <2>1. CASE ag_findings' = ag_findings
    BY <1>2, <2>1, FindingsKeep
  <2>2. CASE Ag!PublishSweep(j) \/ Ag!BuildDigest(j)
    <3>1. j.kind # "monitor"
      BY <2>2 DEF Ag!PublishSweep, Ag!BuildDigest
    <3>2. \A m, e, s : [by |-> j, metrics |-> m, evidence |-> e, says |-> s].by = j
      OBVIOUS
    <3>3. \A f \in ag_findings' \ ag_findings : f.by = j
      BY <2>2, <3>2 DEF Ag!PublishSweep, Ag!BuildDigest, Ag!SweepFinding
    <3> QED BY <1>2, <3>1, <3>3, FindingsKeep
  <2> QED
    BY <2>1, <2>2 DEF Ag!Query, Ag!QueryFails, Ag!CallFails, Ag!Reply, Ag!QueryMetric, Ag!GetRun,
       Ag!EndSweep,
       Ag!EvaluateAlert, Ag!Post, Ag!outputs
<1>5. PICK p \in Left : OneMoves(j, p)
  BY <1>3 DEF JobAt, OneMoves
<1> QED
  BY <1>2, <1>4, <1>5, CallLeaves

\* So do the steps that change what a call has read or holds.
LEMMA CiteAndRecordKeep ==
    ASSUME AgInv, ExperimentInv, NEW j \in Jobs, Ag!Cite(j) \/ Ag!Record(j)
    PROVE  ExperimentInv'
<1> DEFINE r == ag_run[j]
<1>1. /\ ag_run = [k \in Jobs |-> ag_run[k]]
      /\ r = [pc |-> r.pc, read |-> r.read, holds |-> r.holds]
  BY DEF AgInv, RunTyped
<1>2. /\ UNCHANGED <<ag_level, ag_experiment, ag_findings>>
      /\ ag_run[j].pc \in {"cite", "record"}
  BY DEF Ag!Cite, Ag!Record, Ag!At, Ag!outputs
<1>3. \E p \in {"work", "failed", "done", "record"} : OneMoves(j, p)
  <2> DEFINE no == <<"error">>
             longer == Ag!Read(j) \o ag_run[j].holds
  <2>1. \/ Ag!Goto(j, "failed") \/ Ag!Goto(j, "done")
        \/ ag_run' = [ag_run EXCEPT ![j].pc = "work", ![j].read = longer]
        \/ ag_run[j].pc = "record" /\ ag_run' = [ag_run EXCEPT ![j].holds = no]
    BY DEF Ag!Cite, Ag!Record, Ag!At, Ag!Goto
  <2> HIDE DEF no, longer
  <2>2. CASE Ag!Goto(j, "failed") \/ Ag!Goto(j, "done")
    BY <2>2, GotoMoves DEF AgInv, JobAt, OneMoves
  <2>3. CASE ag_run' = [ag_run EXCEPT ![j].pc = "work", ![j].read = longer]
    <3>1. ag_run'[j] = [pc |-> "work", read |-> longer, holds |-> r.holds]
      <4> DEFINE moved == [ag_run EXCEPT ![j].pc = "work"]
      <4>1. moved = [k \in Jobs |-> moved[k]]
        BY <1>1
      <4>2. moved[j] = [pc |-> "work", read |-> r.read, holds |-> r.holds]
        BY <1>1
      <4>3. ag_run' = [moved EXCEPT ![j].read = longer]
        BY <2>3
      <4> HIDE DEF moved
      <4>4. ag_run'[j] = [moved[j] EXCEPT !.read = longer]
        BY <4>1, <4>3
      <4> QED BY <4>2, <4>4
    <3>2. \A k \in Jobs \ {j} : ag_run'[k] = ag_run[k]
      BY <1>1, <2>3
    <3> QED BY <3>1, <3>2 DEF OneMoves
  <2>4. CASE ag_run[j].pc = "record" /\ ag_run' = [ag_run EXCEPT ![j].holds = no]
    <3>1. ag_run'[j] = [pc |-> r.pc, read |-> r.read, holds |-> no]
      BY <1>1, <2>4
    <3>2. \A k \in Jobs \ {j} : ag_run'[k] = ag_run[k]
      BY <1>1, <2>4
    <3> QED BY <2>4, <3>1, <3>2 DEF OneMoves
  <2> QED BY <2>1, <2>2, <2>3, <2>4
<1>4. FindingsInv'
  BY <1>2, FindingsKeep
<1> QED
  BY <1>2, <1>3, <1>4, CallLeaves

\* A pass starts only after the experiment ran, and so has its PR.
LEMMA StartKeeps ==
    ASSUME AgInv, ExperimentInv, NEW j \in Jobs, Ag!StartJob(j)
    PROVE  ExperimentInv'
<1>1. /\ RunTyped /\ UNCHANGED <<ag_level, ag_experiment, ag_findings>> /\ ag_run[j].pc = "idle"
      /\ Ag!Goto(j, IF j.kind \in {"start", "monitor"} THEN Ag!First[j.kind] ELSE "work")
      /\ j.kind = "monitor" => ag_experiment.pr
  BY DEF AgInv, Ag!StartJob, Ag!At, Ag!outputs
<1>2. \E p \in {"level", "observe", "work"} :
         /\ Ag!Goto(j, p)
         /\ p = "level" <=> j.kind = "start"
         /\ p = "observe" <=> j.kind = "monitor"
  <2>1. Ag!First["start"] = "level" /\ Ag!First["monitor"] = "observe"
    BY DEF Ag!First
  <2>2. CASE j.kind = "start"
    BY <1>1, <2>1, <2>2
  <2>3. CASE j.kind = "monitor"
    BY <1>1, <2>1, <2>3
  <2>4. CASE j.kind \notin {"start", "monitor"}
    BY <1>1, <2>4
  <2> QED BY <2>2, <2>3, <2>4
<1>3. PICK p \in {"level", "observe", "work"} :
         /\ OneMoves(j, p)
         /\ p = "level" <=> j.kind = "start"
         /\ p = "observe" <=> j.kind = "monitor"
  BY <1>1, <1>2, GotoMoves DEF JobAt, OneMoves
<1>4. CallInv(j)'
  <2>1. j.kind = "monitor" => ag_experiment.pr
    BY <1>1 DEF ExperimentInv, RowInv
  <2>2. j.kind = "start" => ~ag_experiment.pr
    BY <1>1 DEF ExperimentInv, CallInv
  <2> QED BY <1>1, <1>3, <2>1, <2>2 DEF CallInv, Starting, OneMoves
<1> QED
  BY <1>1, <1>3, <1>4, CallMoves, FindingsKeep

\* The agent goes on to create a variant only at level 2.
LEMMA LevelKeeps ==
    ASSUME AgInv, ExperimentInv, NEW j \in Jobs, Ag!GetAutonomyLevel(j)
    PROVE  ExperimentInv'
<1>1. /\ RunTyped /\ UNCHANGED <<ag_level, ag_experiment, ag_findings>> /\ ag_run[j].pc = "level"
  BY DEF AgInv, Ag!GetAutonomyLevel, Ag!At, Ag!outputs
<1>2. PICK p \in {"done", "create"} :
         /\ ag_run' = [ag_run EXCEPT ![j].pc = p, ![j].holds = <<ag_level>>]
         /\ p = "create" => ~(ag_level < Ag!EXPERIMENT_AUTONOMY_LEVEL)
  BY DEF Ag!GetAutonomyLevel
<1>3. OneMoves(j, p) /\ ag_run'[j].holds = <<ag_level>>
  BY <1>1, <1>2, HoldMoves DEF JobAt, OneMoves
<1>4. CallInv(j) /\ ag_level \in Int
  BY DEF ExperimentInv
<1>5. j.kind = "start" /\ ~ag_experiment.pr /\ ag_level \in Int
  BY <1>1, <1>4 DEF CallInv
<1>6. p = "create" =>
         \E n \in Int : n >= Ag!EXPERIMENT_AUTONOMY_LEVEL /\ ag_run'[j].holds = <<n>>
  <2>1. Ag!EXPERIMENT_AUTONOMY_LEVEL \in Int
    BY DEF Ag!EXPERIMENT_AUTONOMY_LEVEL
  <2>2. p = "create" => ag_level >= Ag!EXPERIMENT_AUTONOMY_LEVEL
    BY <1>2, <1>5, <2>1
  <2> QED BY <1>3, <1>5, <2>2
<1>7. ag_run'[j].pc = p /\ ag_experiment' = ag_experiment
  BY <1>1, <1>3 DEF OneMoves
<1>8. CallInv(j)'
  BY <1>5, <1>6, <1>7 DEF CallInv, Starting
<1> QED
  BY <1>1, <1>3, <1>8, CallMoves, FindingsKeep

\* While the experiment is being started it has no PR, so no pass has ended it.
LEMMA BeforePr ==
    ASSUME ExperimentInv, NEW j \in Jobs, ag_run[j].pc \in Starting
    PROVE  /\ j.kind = "start" /\ ~ag_experiment.pr /\ ag_experiment.verdict = <<>>
           /\ \A f \in ag_findings : f.by.kind # "monitor"
<1>1. j.kind = "start" /\ ~ag_experiment.pr
  BY DEF ExperimentInv, CallInv, Starting
<1>2. ag_experiment.verdict = <<>>
  BY <1>1 DEF ExperimentInv, RowInv, Ended
<1> QED
  BY <1>1, <1>2 DEF ExperimentInv, FindingsInv, RowInv

\* The row is created, the variant's PR opened, and the row set running.
LEMMA StartingKeeps ==
    ASSUME Ag!KnownJobs, AgInv, ExperimentInv, NEW j \in Jobs,
           Ag!CreateExperiment(j) \/ Ag!AssembleVariantPr(j) \/ Ag!SetRunning(j)
    PROVE  ExperimentInv'
<1>1. /\ RunTyped /\ UNCHANGED <<ag_level, ag_findings>> /\ ag_run[j].pc \in Starting
  BY DEF AgInv, Ag!CreateExperiment, Ag!AssembleVariantPr, Ag!SetRunning, Ag!At, Ag!outputs,
     Starting
<1>2. /\ j.kind = "start" /\ ~ag_experiment.pr /\ FindingsInv'
      /\ ag_experiment.verdict = <<>> /\ ag_experiment.written = {} /\ ~Ended
      /\ CallInv(j)
  BY <1>1, BeforePr DEF FindingsInv, ExperimentInv, RowInv
<1>3. CASE Ag!AssembleVariantPr(j)
  <2>1. /\ JobAt(j, "running") /\ ag_run'[j].holds = ag_run[j].holds /\ ag_experiment' = ag_experiment
    BY <1>1, <1>3, GotoMoves DEF Ag!AssembleVariantPr
  <2>2. OneMoves(j, "running")
    BY <2>1 DEF JobAt, OneMoves
  <2>3. CallInv(j)'
    BY <1>1, <1>2, <2>1, <2>2 DEF CallInv, Starting, OneMoves
  <2> QED BY <1>1, <1>2, <2>1, <2>2, <2>3, CallMoves
<1>4. CASE Ag!CreateExperiment(j) \/ Ag!SetRunning(j)
  <2> DEFINE row(s, p) == [status |-> s, pr |-> p, verdict |-> ag_experiment.verdict,
                           written |-> ag_experiment.written,
                           overlapped |-> ag_experiment.overlapped]
  <2>1. /\ Ag!CreateExperiment(j) => ag_experiment' = row("created", ag_experiment.pr)
        /\ Ag!SetRunning(j) => ag_experiment' = row("running", TRUE)
    BY DEF Ag!CreateExperiment, Ag!SetRunning, ExperimentInv, RowInv
  <2>2. PICK s \in {"created", "running"}, p \in BOOLEAN :
           /\ ag_experiment' = row(s, p)
           /\ s = "running" => p = TRUE
           /\ Ag!SetRunning(j) \/ p = FALSE
    BY <1>2, <1>4, <2>1 DEF ExperimentInv, RowInv
  <2>3. /\ ag_experiment'.status = s /\ ag_experiment'.pr = p
        /\ ag_experiment'.verdict = ag_experiment.verdict
        /\ ag_experiment'.written = ag_experiment.written
        /\ ag_experiment' = [status |-> ag_experiment'.status, pr |-> ag_experiment'.pr,
                     verdict |-> ag_experiment'.verdict, written |-> ag_experiment'.written,
                     overlapped |-> ag_experiment'.overlapped]
    BY <2>2
  <2>4. RowInv'
    BY <1>2, <2>2, <2>3 DEF ExperimentInv, RowInv, Ended
  <2>5. Forward
    BY <1>2, <2>3 DEF Forward
  <2>6. PICK q \in {"assemble", "done", "failed"} :
           /\ JobAt(j, q) /\ ag_run'[j].holds = ag_run[j].holds
           /\ Ag!SetRunning(j) => q # "assemble"
    <3>1. CASE Ag!SetRunning(j)
      BY <1>1, <3>1, GotoMoves DEF Ag!SetRunning
    <3>2. CASE Ag!CreateExperiment(j) /\ ~Ag!SetRunning(j)
      BY <1>1, <3>2, GotoMoves DEF Ag!CreateExperiment
    <3> QED BY <1>4, <3>1, <3>2
  <2>7. OneMoves(j, q)
    BY <2>6 DEF JobAt, OneMoves
  <2>8. CallInv(j)'
    BY <1>1, <1>2, <2>2, <2>3, <2>6, <2>7 DEF CallInv, Starting, OneMoves
  <2>9. \A k \in Jobs \ {j} : k.kind # "start"
    BY <1>2 DEF Ag!KnownJobs
  <2> QED BY <1>1, <1>2, <2>4, <2>5, <2>7, <2>8, <2>9, CallStep
<1> QED
  BY <1>3, <1>4

\* A side that is no guardrail's harm, by name.
LEMMA HarmByName ==
    ASSUME NEW m
    PROVE  Ag!HarmOf(m) = IF m = "task_success_rate" THEN "below" ELSE "above"
<1>1. CASE m = "task_success_rate"
  BY <1>1 DEF Ag!HarmOf, Ag!GUARDRAIL_HARM
<1>2. CASE m \in {"override_rate", "cost_per_completed_task"}
  BY <1>2 DEF Ag!HarmOf, Ag!GUARDRAIL_HARM
<1>3. CASE m \notin {"task_success_rate", "override_rate", "cost_per_completed_task"}
  <2>1. m \notin DOMAIN Ag!GUARDRAIL_HARM
    BY <1>3 DEF Ag!GUARDRAIL_HARM
  <2> QED BY <1>3, <2>1 DEF Ag!HarmOf
<1> QED
  BY <1>1, <1>2, <1>3

\* A pass ships only what breached no guardrail, and what it calls a breach was harm.
LEMMA VerdictRight ==
    ASSUME NEW j, NEW v, VerdictOf(j, v)
    PROVE  /\ Harmless(v) /\ v.by = j /\ v.breached \subseteq j.guardrails
           /\ \A m \in v.breached : v.observed[m] = Harm(m)
           /\ v.queries = {j.cites[m] : m \in (v.breached \cup {"target"}) \cap DOMAIN j.cites}
<1>1. PICK sides \in [j.guardrails -> Ag!Sides], target \in Ag!Sides : v = Ag!Verdict(j, sides, target)
  BY DEF VerdictOf
<1>2. /\ v.by = j /\ v.breached = Ag!Breached(sides) /\ v.observed = sides
      /\ v.queries = {j.cites[m] : m \in (v.breached \cup {"target"}) \cap DOMAIN j.cites}
      /\ v.breached # {} => v.decision = "revert"
  BY <1>1 DEF Ag!Verdict
<1>3. Ag!Breached(sides) = {m \in j.guardrails : sides[m] = Harm(m)}
  BY HarmByName DEF Ag!Breached, Harm
<1>4. Harmless(v)
  BY <1>2, <1>3 DEF Harmless, Harm
<1> QED
  BY <1>2, <1>3, <1>4

\* A pass that came to a verdict holds it.
LEMMA PassKeeps ==
    ASSUME AgInv, ExperimentInv, NEW j \in Jobs, Ag!MonitorExperiment(j)
    PROVE  ExperimentInv'
<1>1. /\ RunTyped /\ UNCHANGED <<ag_level, ag_experiment, ag_findings>> /\ ag_run[j].pc = "observe"
  BY DEF AgInv, Ag!MonitorExperiment, Ag!At, Ag!outputs
<1>2. CallInv(j) /\ j.kind = "monitor" /\ ag_experiment.pr /\ FindingsInv'
  BY <1>1, FindingsKeep DEF ExperimentInv, CallInv
<1>3. PICK sides \in [j.guardrails -> Ag!Sides], target \in Ag!Sides :
         LET v == Ag!Verdict(j, sides, target)
         IN  ag_run' = IF v.decision = "inconclusive" THEN [ag_run EXCEPT ![j].pc = "done"]
                       ELSE [ag_run EXCEPT ![j].pc = "verdict", ![j].holds = <<v>>]
  BY DEF Ag!MonitorExperiment
<1> DEFINE v == Ag!Verdict(j, sides, target)
<1>4. VerdictOf(j, v)
  BY DEF VerdictOf
<1>5. \/ Ag!Goto(j, "done")
      \/ ag_run' = [ag_run EXCEPT ![j].pc = "verdict", ![j].holds = <<v>>]
  BY <1>3 DEF Ag!Goto
<1> HIDE DEF v
<1>6. CASE Ag!Goto(j, "done")
  <2>1. OneMoves(j, "done")
    BY <1>1, <1>6, GotoMoves DEF JobAt, OneMoves
  <2> QED BY <1>1, <1>2, <2>1, CallLeaves
<1>7. CASE ag_run' = [ag_run EXCEPT ![j].pc = "verdict", ![j].holds = <<v>>]
  <2>1. OneMoves(j, "verdict") /\ ag_run'[j].holds = <<v>>
    BY <1>1, <1>7, HoldMoves DEF JobAt, OneMoves
  <2>2. CallInv(j)'
    <3>1. \E w : VerdictOf(j, w)' /\ ag_run'[j].holds = <<w>>
      BY <1>4, <2>1, VerdictsAreRigid
    <3>2. ag_run'[j].pc = "verdict" /\ ag_experiment'.pr
      BY <1>1, <1>2, <2>1 DEF OneMoves
    <3> QED BY <1>2, <3>1, <3>2 DEF CallInv, Starting
  <2> QED BY <1>1, <1>2, <2>1, <2>2, CallMoves
<1> QED
  BY <1>5, <1>6, <1>7

\* A pass writes its verdict in place of any other, and the row is concluded.
LEMMA Writes ==
    ASSUME AgInv, ExperimentInv, NEW j \in Jobs, Ag!WriteVerdict(j)
    PROVE  \E v : \E q \in {"status", "failed"} :
              /\ UNCHANGED <<ag_level, ag_findings>> /\ ag_run[j].pc = "verdict"
              /\ OneMoves(j, q) /\ ag_run'[j].holds = <<v>>
              /\ VerdictOf(j, v) /\ v.breached \subseteq DOMAIN j.cites
              /\ ag_experiment' =
                    [status |-> "concluded", pr |-> ag_experiment.pr, verdict |-> <<v>>,
                     written |-> ag_experiment.written \cup {v},
                     overlapped |-> ag_experiment.overlapped
                                    \/ \E k \in Jobs : ag_run[k].pc = "status"]
<1> DEFINE over == ag_experiment.overlapped \/ \E k \in Jobs : ag_run[k].pc = "status"
<1>1. /\ RunTyped /\ UNCHANGED <<ag_level, ag_findings>> /\ ag_run[j].pc = "verdict"
      /\ ag_run[j].holds[1].breached \subseteq DOMAIN j.cites
      /\ Ag!Goto(j, "status") \/ Ag!Goto(j, "failed")
  BY DEF AgInv, Ag!WriteVerdict, Ag!At, Ag!outputs
<1>2. ag_experiment' = [ag_experiment EXCEPT
         !.verdict = ag_run[j].holds, !.written = @ \cup Ag!Range(ag_run[j].holds),
         !.status = "concluded", !.overlapped = over]
  BY DEF Ag!WriteVerdict, Ag!At
<1> HIDE DEF over
<1>3. PICK v : VerdictOf(j, v) /\ ag_run[j].holds = <<v>>
  BY <1>1 DEF ExperimentInv, CallInv
<1>4. Ag!Range(<<v>>) = {v} /\ ag_run[j].holds[1] = v
  BY <1>3 DEF Ag!Range
<1>5. ag_experiment' =
        [status |-> "concluded", pr |-> ag_experiment.pr, verdict |-> <<v>>,
         written |-> ag_experiment.written \cup {v}, overlapped |-> over]
  BY <1>2, <1>3, <1>4 DEF ExperimentInv, RowInv
<1>6. PICK q \in {"status", "failed"} : OneMoves(j, q) /\ ag_run'[j].holds = <<v>>
  BY <1>1, <1>3, GotoMoves DEF JobAt, OneMoves
<1> QED
  BY <1>1, <1>3, <1>4, <1>5, <1>6 DEF over

\* The verdict is written, then the row's end, then the finding.
LEMMA VerdictKeeps ==
    ASSUME AgInv, ExperimentInv, NEW j \in Jobs, Ag!WriteVerdict(j)
    PROVE  ExperimentInv'
<1> DEFINE over == ag_experiment.overlapped \/ \E k \in Jobs : ag_run[k].pc = "status"
<1>1. PICK v : \E q \in {"status", "failed"} :
         /\ UNCHANGED <<ag_level, ag_findings>> /\ ag_run[j].pc = "verdict"
         /\ OneMoves(j, q) /\ ag_run'[j].holds = <<v>>
         /\ VerdictOf(j, v) /\ v.breached \subseteq DOMAIN j.cites
         /\ ag_experiment' = [status |-> "concluded", pr |-> ag_experiment.pr, verdict |-> <<v>>,
                              written |-> ag_experiment.written \cup {v}, overlapped |-> over]
  BY Writes
<1> HIDE DEF over
<1>2. PICK q \in {"status", "failed"} : OneMoves(j, q) /\ ag_run'[j].holds = <<v>>
  BY <1>1
<1>3. /\ ag_experiment'.status = "concluded" /\ ag_experiment'.pr = ag_experiment.pr
      /\ ag_experiment'.verdict = <<v>>
      /\ ag_experiment'.written = ag_experiment.written \cup {v}
      /\ ag_experiment' = [status |-> ag_experiment'.status, pr |-> ag_experiment'.pr,
                     verdict |-> ag_experiment'.verdict, written |-> ag_experiment'.written,
                     overlapped |-> ag_experiment'.overlapped]
  BY <1>1
<1>4. CallInv(j) /\ j.kind = "monitor" /\ ag_experiment.pr /\ <<v>> # <<>>
  BY <1>1 DEF ExperimentInv, CallInv
<1>5. RowInv'
  <2>1. \A w \in ag_experiment'.written : Harmless(w)
    BY <1>1, <1>3, VerdictRight DEF ExperimentInv, RowInv
  <2>2. \A w \in ag_experiment'.written : Harmless(w)'
    BY <2>1, VerdictsAreRigid
  <2>3. ag_experiment.pr \in BOOLEAN
    BY DEF ExperimentInv, RowInv
  <2> QED BY <1>3, <1>4, <2>2, <2>3 DEF RowInv, Ended
<1>6. Forward /\ FindingsInv'
  BY <1>1, <1>3, <1>4, FoundedIsRigid DEF Forward, ExperimentInv, FindingsInv
<1>7. CallInv(j)'
  <2>1. VerdictOf(j, v)'
    BY <1>1, VerdictsAreRigid
  <2> QED BY <1>1, <1>2, <1>3, <1>4, <2>1 DEF CallInv, Starting, OneMoves
<1> QED
  BY <1>1, <1>2, <1>3, <1>5, <1>6, <1>7, CallStep

\* A pass sets the row's end by the verdict it holds.
LEMMA Sets ==
    ASSUME AgInv, ExperimentInv, NEW j \in Jobs, Ag!UpdateStatus(j)
    PROVE  \E v \in ag_experiment.written : \E q \in {"finding", "failed"} :
              /\ UNCHANGED <<ag_level, ag_findings>> /\ ag_run[j].pc = "status"
              /\ OneMoves(j, q) /\ ag_run[j].holds = <<v>> /\ ag_run'[j].holds = <<v>>
              /\ ag_experiment' =
                    [status |-> IF v.breached # {} THEN "stopped" ELSE "concluded",
                     pr |-> ag_experiment.pr, verdict |-> ag_experiment.verdict,
                     written |-> ag_experiment.written,
                     overlapped |-> ag_experiment.overlapped]
<1>1. /\ RunTyped /\ UNCHANGED <<ag_level, ag_findings>> /\ ag_run[j].pc = "status"
      /\ Ag!Goto(j, "finding") \/ Ag!Goto(j, "failed")
      /\ ag_experiment' = [ag_experiment EXCEPT
            !.status = IF ag_run[j].holds[1].breached # {} THEN "stopped" ELSE "concluded"]
  BY DEF AgInv, Ag!UpdateStatus, Ag!At, Ag!outputs
<1>2. PICK v \in ag_experiment.written : ag_run[j].holds = <<v>>
  BY <1>1 DEF ExperimentInv, CallInv
<1>3. ag_run[j].holds[1] = v
  BY <1>2
<1>4. ag_experiment' =
         [status |-> IF v.breached # {} THEN "stopped" ELSE "concluded",
          pr |-> ag_experiment.pr, verdict |-> ag_experiment.verdict,
          written |-> ag_experiment.written, overlapped |-> ag_experiment.overlapped]
  BY <1>1, <1>3 DEF ExperimentInv, RowInv
<1>5. PICK q \in {"finding", "failed"} : OneMoves(j, q) /\ ag_run'[j].holds = <<v>>
  BY <1>1, <1>2, GotoMoves DEF JobAt, OneMoves
<1> QED
  BY <1>1, <1>2, <1>4, <1>5

LEMMA StatusKeeps ==
    ASSUME AgInv, ExperimentInv, NEW j \in Jobs, Ag!UpdateStatus(j)
    PROVE  ExperimentInv'
<1>1. PICK v \in ag_experiment.written : \E q \in {"finding", "failed"} :
         /\ UNCHANGED <<ag_level, ag_findings>> /\ ag_run[j].pc = "status"
         /\ OneMoves(j, q) /\ ag_run[j].holds = <<v>> /\ ag_run'[j].holds = <<v>>
         /\ ag_experiment' =
                    [status |-> IF v.breached # {} THEN "stopped" ELSE "concluded",
                     pr |-> ag_experiment.pr, verdict |-> ag_experiment.verdict,
                     written |-> ag_experiment.written,
                     overlapped |-> ag_experiment.overlapped]
  BY Sets
<1>2. PICK q \in {"finding", "failed"} : OneMoves(j, q)
  BY <1>1
<1>3. /\ ag_experiment'.status \in {"stopped", "concluded"}
      /\ ag_experiment'.pr = ag_experiment.pr
      /\ ag_experiment'.verdict = ag_experiment.verdict
      /\ ag_experiment'.written = ag_experiment.written
      /\ ag_experiment' = [status |-> ag_experiment'.status, pr |-> ag_experiment'.pr,
                     verdict |-> ag_experiment'.verdict, written |-> ag_experiment'.written,
                     overlapped |-> ag_experiment'.overlapped]
  BY <1>1
<1>4. /\ CallInv(j) /\ j.kind = "monitor" /\ ag_experiment.pr /\ ag_experiment.verdict # <<>>
  BY <1>1 DEF ExperimentInv, CallInv
<1>5. RowInv'
  BY <1>3, <1>4, VerdictsAreRigid DEF ExperimentInv, RowInv, Ended
<1>6. Forward /\ FindingsInv'
  BY <1>1, <1>3, FoundedIsRigid DEF Forward, ExperimentInv, FindingsInv
<1>7. CallInv(j)'
  <2>1. ag_run'[j].holds = ag_run[j].holds /\ ag_run'[j].pc = q
    BY <1>1, <1>2 DEF OneMoves
  <2> QED BY <1>1, <1>3, <1>4, <2>1, VerdictsAreRigid DEF CallInv, Starting
<1> QED
  BY <1>1, <1>2, <1>3, <1>5, <1>6, <1>7, CallStep

\* The finding says the verdict written, and cites every breach it gives.
LEMMA FindingKeeps ==
    ASSUME AgInv, ExperimentInv, NEW j \in Jobs, Ag!PublishVerdict(j)
    PROVE  ExperimentInv'
<1>1. /\ RunTyped /\ UNCHANGED <<ag_level, ag_experiment>> /\ ag_run[j].pc = "finding"
      /\ ag_findings' = ag_findings \cup {Ag!VerdictFinding(j, ag_run[j].holds[1])}
      /\ Ag!Goto(j, "done") \/ Ag!Goto(j, "failed")
  BY DEF AgInv, Ag!PublishVerdict, Ag!At, Ag!outputs
<1>2. CallInv(j)
  BY DEF ExperimentInv
<1>3. PICK v \in ag_experiment.written :
         VerdictOf(j, v) /\ v.breached \subseteq DOMAIN j.cites /\ ag_run[j].holds = <<v>>
  BY <1>1, <1>2 DEF CallInv
<1> DEFINE f == Ag!VerdictFinding(j, v)
<1>4. ag_findings' = ag_findings \cup {f}
  BY <1>1, <1>3
<1>5. f.says = v /\ Founded(f)
  <2>1. /\ f.by = j /\ f.says = v /\ f.metrics = Ag!Effects(j, v)
        /\ f.evidence = {Ag!CiteOf(j, m) : m \in j.guardrails \cup {"target"}}
    BY DEF Ag!VerdictFinding
  <2> HIDE DEF f
  <2>2. /\ v.by = j /\ v.breached \subseteq j.guardrails
        /\ \A m \in v.breached : v.observed[m] = Harm(m)
        /\ v.queries = {j.cites[m] : m \in (v.breached \cup {"target"}) \cap DOMAIN j.cites}
    BY <1>3, VerdictRight
  <2>3. \A m \in DOMAIN j.cites : Ag!CiteOf(j, m) = j.cites[m]
    BY DEF Ag!CiteOf
  <2>4. v.queries \subseteq f.evidence
    BY <2>1, <2>2, <2>3
  <2>5. ASSUME NEW m \in v.breached
        PROVE  [metric |-> m, query |-> j.cites[m], value |-> Harm(m)] \in f.metrics
    <3>1. [metric |-> m, value |-> v.observed[m], query |-> Ag!CiteOf(j, m)] \in Ag!Effects(j, v)
      BY <2>2 DEF Ag!Effects
    <3>2. Ag!CiteOf(j, m) = j.cites[m] /\ v.observed[m] = Harm(m)
      BY <1>3, <2>2, <2>3
    <3> QED BY <2>1, <3>1, <3>2
  <2> QED BY <2>1, <2>2, <2>4, <2>5 DEF Founded
<1> HIDE DEF f
<1>6. FindingsInv'
  <2>1. \A g \in ag_findings' : g.by.kind = "monitor" => g.says \in ag_experiment.written /\ Founded(g)
    BY <1>3, <1>4, <1>5 DEF ExperimentInv, FindingsInv
  <2> QED BY <1>1, <2>1, FoundedIsRigid DEF FindingsInv
<1>7. PICK q \in {"done", "failed"} : OneMoves(j, q)
  BY <1>1, GotoMoves DEF JobAt, OneMoves
<1> QED
  BY <1>1, <1>6, <1>7, CallLeaves

\* Every step keeps the experiment in order.
LEMMA ExperimentNext ==
    ASSUME Ag!KnownJobs, AgInv, ExperimentInv, [Ag!Next]_(Ag!vars)
    PROVE  ExperimentInv'
<1>1. CASE Ag!SetAutonomy \/ UNCHANGED Ag!vars
  <2>1. ag_level' \in Int /\ UNCHANGED <<ag_run, ag_experiment, ag_findings>>
    BY <1>1 DEF Ag!SetAutonomy, Ag!vars, Ag!outputs, Ag!KnownJobs, ExperimentInv
  <2>2. Ended' <=> Ended
    BY <2>1 DEF Ended
  <2>3. RowInv' /\ FindingsInv'
    BY <2>1, <2>2, VerdictsAreRigid, FoundedIsRigid DEF ExperimentInv, RowInv, FindingsInv
  <2>4. ASSUME NEW k \in Jobs PROVE CallInv(k)'
    BY <2>1, VerdictsAreRigid DEF ExperimentInv, CallInv, Starting
  <2> QED
    BY <2>1, <2>3, <2>4 DEF ExperimentInv
<1>2. CASE Ag!Next /\ ~Ag!SetAutonomy
  BY <1>2, StartKeeps, LevelKeeps, StartingKeeps, PassKeeps, VerdictKeeps, StatusKeeps,
     FindingKeeps, OtherCallsKeep, CiteAndRecordKeep DEF Ag!Next
<1> QED
  BY <1>1, <1>2

\* The passes and the row.  A verdict's writer is past it; and unless another pass was
\* between its verdict and its status when one was written, the verdict that the row holds
\* is that of every pass about to set the status, and the status says what it found.
Late == {"status", "finding", "done", "failed"}
SettledBy(v) ==
    /\ ag_experiment.status = "stopped" => v.breached # {}
    /\ \A j \in Jobs : ag_run[j].pc = "status" => ag_run[j].holds = <<v>> /\ v.by = j
    /\ ag_run[v.by].pc \in {"finding", "done"} /\ v.breached # {} => ag_experiment.status = "stopped"
PassInv ==
    /\ \A v \in ag_experiment.written : v.by \in Jobs /\ ag_run[v.by].pc \in Late
    /\ ag_experiment.verdict # <<>> => \E v \in ag_experiment.written :
          ag_experiment.verdict = <<v>> /\ (~ag_experiment.overlapped => SettledBy(v))

\* A call that does nothing to the row, and is no pass between its verdict and its finding
\* unless it fails, or publishes.
LEMMA PassMoves ==
    ASSUME PassInv, NEW j \in Jobs, NEW p, OneMoves(j, p), ag_experiment' = ag_experiment,
           p # "status",
           ag_run[j].pc \in Late => p = "failed" \/ (ag_run[j].pc = "finding" /\ p = "done")
    PROVE  PassInv'
<1>1. ag_run'[j].pc = p /\ \A k \in Jobs \ {j} : ag_run'[k] = ag_run[k]
  BY DEF OneMoves
<1>2. \A v \in ag_experiment'.written : v.by \in Jobs /\ ag_run'[v.by].pc \in Late
  BY <1>1 DEF PassInv, Late
<1>3. ASSUME NEW v \in ag_experiment.written, SettledBy(v)
      PROVE  SettledBy(v)'
  <2>1. v.by \in Jobs /\ ag_run[v.by].pc \in Late
    BY DEF PassInv
  <2> QED BY <1>1, <1>3, <2>1 DEF SettledBy, Late
<1> QED
  BY <1>2, <1>3 DEF PassInv, Late

\* Calls that are not passes on their way from the verdict to its end.
LEMMA PassOthers ==
    ASSUME AgInv, PassInv, NEW j \in Jobs,
           \/ Ag!Query(j) \/ Ag!QueryFails(j) \/ Ag!CallFails(j) \/ Ag!Reply(j) \/ Ag!QueryMetric(j)
           \/ Ag!GetRun(j) \/ Ag!EndSweep(j) \/ Ag!PublishSweep(j) \/ Ag!BuildDigest(j)
           \/ Ag!EvaluateAlert(j) \/ Ag!Post(j) \/ Ag!StartJob(j) \/ Ag!GetAutonomyLevel(j)
           \/ Ag!AssembleVariantPr(j) \/ Ag!MonitorExperiment(j) \/ Ag!PublishVerdict(j)
           \/ Ag!Cite(j) \/ Ag!Record(j)
    PROVE  PassInv'
<1> DEFINE Left == {"work", "cite", "post", "record", "done", "failed", "level", "observe", "create",
                    "running", "verdict"}
<1>1. RunTyped
  BY DEF AgInv
<1>2. /\ ag_experiment' = ag_experiment
      /\ \/ ag_run[j].pc \notin Late
         \/ Ag!CallFails(j)
         \/ Ag!PublishVerdict(j) /\ ag_run[j].pc = "finding"
  BY DEF Ag!Query, Ag!QueryFails, Ag!CallFails, Ag!Reply, Ag!QueryMetric, Ag!GetRun, Ag!EndSweep,
     Ag!PublishSweep, Ag!BuildDigest, Ag!EvaluateAlert, Ag!Post, Ag!StartJob,
     Ag!GetAutonomyLevel, Ag!AssembleVariantPr, Ag!MonitorExperiment, Ag!PublishVerdict,
     Ag!Cite, Ag!Record, Ag!At, Late
<1>3. CASE Ag!Cite(j) \/ Ag!Record(j)
  <2> DEFINE r == ag_run[j]
  <2>1. /\ ag_run = [k \in Jobs |-> ag_run[k]]
        /\ r = [pc |-> r.pc, read |-> r.read, holds |-> r.holds]
    BY <1>1 DEF RunTyped
  <2>2. ag_run[j].pc \in {"cite", "record"}
    BY <1>3 DEF Ag!Cite, Ag!Record, Ag!At
  <2>3. \E p \in Left : OneMoves(j, p)
    <3>1. CASE Ag!Cite(j)
      <4>1. \/ \E q : ag_run' = [ag_run EXCEPT ![j].pc = "work", ![j].read = q]
            \/ Ag!Goto(j, "failed")
        BY <3>1 DEF Ag!Cite, Ag!Goto
      <4>2. ASSUME NEW q, ag_run' = [ag_run EXCEPT ![j].pc = "work", ![j].read = q]
            PROVE  OneMoves(j, "work")
        BY <2>1, <4>2 DEF OneMoves
      <4>3. Ag!Goto(j, "failed") => OneMoves(j, "failed")
        BY <1>1, GotoMoves DEF JobAt, OneMoves
      <4> QED BY <4>1, <4>2, <4>3
    <3>2. CASE Ag!Record(j)
      <4>1. \/ Ag!Goto(j, "done") \/ Ag!Goto(j, "failed")
            \/ \E h : ag_run' = [ag_run EXCEPT ![j].holds = h]
        BY <3>2 DEF Ag!Record, Ag!Goto
      <4>2. ASSUME NEW h, ag_run' = [ag_run EXCEPT ![j].holds = h]
            PROVE  OneMoves(j, "record")
        <5>1. ag_run[j].pc = "record"
          BY <3>2 DEF Ag!Record, Ag!At
        <5> QED BY <2>1, <4>2, <5>1 DEF OneMoves
      <4>3. \A p : Ag!Goto(j, p) => OneMoves(j, p)
        BY <1>1, GotoMoves DEF JobAt, OneMoves
      <4> QED BY <4>1, <4>2, <4>3
    <3> QED BY <1>3, <3>1, <3>2
  <2>4. PICK p \in Left : OneMoves(j, p)
    BY <2>3
  <2>5. p # "status" /\ ag_run[j].pc \notin Late
    BY <2>2 DEF Late
  <2> QED BY <1>2, <2>4, <2>5, PassMoves
<1>4. CASE Ag!CallFails(j) \/ Ag!PublishVerdict(j)
  <2>1. \E p \in {"failed", "done"} :
           Ag!Goto(j, p) /\ (p = "done" => ag_run[j].pc = "finding")
    BY <1>4 DEF Ag!CallFails, Ag!PublishVerdict, Ag!At
  <2>2. PICK p \in {"failed", "done"} : OneMoves(j, p) /\ (p = "done" => ag_run[j].pc = "finding")
    BY <1>1, <2>1, GotoMoves DEF JobAt, OneMoves
  <2>3. CASE p = "failed"
    <3>1. OneMoves(j, "failed") /\ "failed" # "status"
      BY <2>2, <2>3
    <3>2. ag_experiment' = ag_experiment
      BY <1>2
    <3> QED BY <3>1, <3>2, PassMoves
  <2>4. CASE p = "done"
    <3>1. p # "status" /\ ag_run[j].pc = "finding"
      BY <2>2, <2>4
    <3> QED BY <1>2, <2>2, <2>4, <3>1, PassMoves
  <2> QED BY <2>3, <2>4
<1>5. CASE ~(Ag!Cite(j) \/ Ag!Record(j) \/ Ag!CallFails(j) \/ Ag!PublishVerdict(j))
  <2>0. ASSUME Ag!MonitorExperiment(j)
        PROVE  \/ Ag!Goto(j, "done")
               \/ \E h : ag_run' = [ag_run EXCEPT ![j].pc = "verdict", ![j].holds = h]
    <3>1. \E v : ag_run' = IF v.decision = "inconclusive" THEN [ag_run EXCEPT ![j].pc = "done"]
                           ELSE [ag_run EXCEPT ![j].pc = "verdict", ![j].holds = <<v>>]
      BY <2>0 DEF Ag!MonitorExperiment
    <3> QED BY <3>1 DEF Ag!Goto
  <2>1. \/ \E p \in Left : Ag!Goto(j, p)
        \/ \E p \in Left : \E h : ag_run' = [ag_run EXCEPT ![j].pc = p, ![j].holds = h]
    <3>1. CASE Ag!Query(j) \/ Ag!Post(j) \/ Ag!GetAutonomyLevel(j)
      BY <3>1 DEF Ag!Query, Ag!Post, Ag!GetAutonomyLevel
    <3>2. CASE \/ Ag!QueryFails(j) \/ Ag!Reply(j) \/ Ag!QueryMetric(j) \/ Ag!GetRun(j)
               \/ Ag!EndSweep(j) \/ Ag!PublishSweep(j) \/ Ag!BuildDigest(j)
               \/ Ag!EvaluateAlert(j) \/ Ag!AssembleVariantPr(j)
      BY <3>2 DEF Ag!QueryFails, Ag!Reply, Ag!QueryMetric, Ag!GetRun, Ag!EndSweep,
         Ag!PublishSweep, Ag!BuildDigest, Ag!EvaluateAlert, Ag!AssembleVariantPr
    <3>3. CASE Ag!StartJob(j)
      <4>1. \E p \in {Ag!First["start"], Ag!First["monitor"], "work"} : Ag!Goto(j, p)
        BY <3>3 DEF Ag!StartJob
      <4> QED BY <4>1 DEF Ag!First
    <3> QED BY <1>5, <2>0, <3>1, <3>2, <3>3
  <2>2. \E p \in Left : JobAt(j, p)
    BY <1>1, <2>1, GotoMoves, HoldMoves
  <2>4. PICK p \in Left : OneMoves(j, p)
    BY <2>2 DEF JobAt, OneMoves
  <2>3. p # "status" /\ ag_run[j].pc \notin Late
    BY <1>2, <1>5
  <2> QED BY <1>2, <2>3, <2>4, PassMoves
<1> QED
  BY <1>3, <1>4, <1>5

\* Every step keeps the passes and the row together.
LEMMA PassNext ==
    ASSUME Ag!KnownJobs, AgInv, ExperimentInv, PassInv, [Ag!Next]_(Ag!vars)
    PROVE  PassInv'
<1>1. CASE Ag!SetAutonomy \/ UNCHANGED Ag!vars
  <2>1. UNCHANGED <<ag_run, ag_experiment>>
    BY <1>1 DEF Ag!SetAutonomy, Ag!vars
  <2> QED
    BY <2>1 DEF PassInv, SettledBy
<1>2. ASSUME NEW j \in Jobs, Ag!CreateExperiment(j) \/ Ag!SetRunning(j)
      PROVE  PassInv'
  <2>1. ag_run[j].pc \in Starting
    BY <1>2 DEF Ag!CreateExperiment, Ag!SetRunning, Ag!At, Starting
  <2>2. ag_experiment.verdict = <<>> /\ ag_experiment.written = {}
    BY <2>1, BeforePr DEF ExperimentInv, RowInv
  <2>3. ag_experiment'.verdict = <<>> /\ ag_experiment'.written = {}
    BY <1>2, <2>2 DEF Ag!CreateExperiment, Ag!SetRunning, ExperimentInv, RowInv
  <2> QED BY <2>3 DEF PassInv
<1>3. ASSUME NEW j \in Jobs, Ag!WriteVerdict(j)
      PROVE  PassInv'
  <2> DEFINE over == ag_experiment.overlapped \/ \E k \in Jobs : ag_run[k].pc = "status"
  <2>1. PICK v : \E q \in {"status", "failed"} :
           /\ OneMoves(j, q) /\ ag_run'[j].holds = <<v>> /\ VerdictOf(j, v)
           /\ ag_experiment' = [status |-> "concluded", pr |-> ag_experiment.pr, verdict |-> <<v>>,
                              written |-> ag_experiment.written \cup {v}, overlapped |-> over]
    BY <1>3, Writes
  <2>2. PICK q \in {"status", "failed"} : OneMoves(j, q)
    BY <2>1
  <2> HIDE DEF over
  <2>3. /\ ag_experiment'.status = "concluded" /\ ag_experiment'.verdict = <<v>>
        /\ ag_experiment'.written = ag_experiment.written \cup {v}
        /\ ag_experiment'.overlapped = over
    BY <2>1
  <2>4. v.by = j /\ ag_run'[j].pc = q /\ \A k \in Jobs \ {j} : ag_run'[k] = ag_run[k]
    BY <2>1, <2>2, VerdictRight DEF OneMoves
  <2>5. \A w \in ag_experiment'.written : w.by \in Jobs /\ ag_run'[w.by].pc \in Late
    BY <2>3, <2>4 DEF PassInv, Late
  <2>6. ASSUME ~over PROVE SettledBy(v)'
    <3>1. \A k \in Jobs : ag_run[k].pc # "status"
      BY <2>6 DEF over
    <3> QED BY <2>1, <2>3, <2>4, <3>1 DEF SettledBy
  <2> QED BY <2>3, <2>5, <2>6 DEF PassInv, Late
<1>4. ASSUME NEW j \in Jobs, Ag!UpdateStatus(j)
      PROVE  PassInv'
  <2>1. PICK v \in ag_experiment.written : \E q \in {"finding", "failed"} :
           /\ ag_run[j].pc = "status" /\ OneMoves(j, q) /\ ag_run[j].holds = <<v>>
           /\ ag_experiment' =
                    [status |-> IF v.breached # {} THEN "stopped" ELSE "concluded",
                     pr |-> ag_experiment.pr, verdict |-> ag_experiment.verdict,
                     written |-> ag_experiment.written,
                     overlapped |-> ag_experiment.overlapped]
    BY <1>4, Sets
  <2>2. PICK q \in {"finding", "failed"} : OneMoves(j, q)
    BY <2>1
  <2>3. /\ ag_experiment'.status = IF v.breached # {} THEN "stopped" ELSE "concluded"
        /\ ag_experiment'.verdict = ag_experiment.verdict
        /\ ag_experiment'.written = ag_experiment.written
        /\ ag_experiment'.overlapped = ag_experiment.overlapped
    BY <2>1
  <2>4. ag_run'[j].pc = q /\ \A k \in Jobs \ {j} : ag_run'[k] = ag_run[k]
    BY <2>2 DEF OneMoves
  <2>5. \A w \in ag_experiment'.written : w.by \in Jobs /\ ag_run'[w.by].pc \in Late
    BY <2>3, <2>4 DEF PassInv, Late
  <2>6. ASSUME NEW w \in ag_experiment.written, SettledBy(w)
        PROVE  SettledBy(w)'
    <3>1. <<w>> = <<v>> /\ w.by = j
      BY <2>1, <2>6 DEF SettledBy
    <3>2. w = v /\ \A k \in Jobs \ {j} : ag_run'[k].pc # "status"
      BY <2>4, <2>6, <3>1 DEF SettledBy
    <3> QED BY <2>3, <2>4, <3>1, <3>2 DEF SettledBy
  <2> QED BY <2>3, <2>5, <2>6 DEF PassInv, Late
<1>5. CASE Ag!Next /\ ~Ag!SetAutonomy
  BY <1>2, <1>3, <1>4, <1>5, PassOthers DEF Ag!Next
<1> QED
  BY <1>1, <1>5

\* What the experiment promises follows.
LEMMA ExperimentSafe == ASSUME AgInv, ExperimentInv, PassInv PROVE Ag!ExperimentsConclude
<1>1. ASSUME NEW j \in Jobs, ag_run[j].pc \in Starting
      PROVE  ag_run[j].holds[1] >= Ag!EXPERIMENT_AUTONOMY_LEVEL
  <2>1. CallInv(j)
    BY DEF ExperimentInv
  <2>2. PICK n \in Int : n >= Ag!EXPERIMENT_AUTONOMY_LEVEL /\ ag_run[j].holds = <<n>>
    BY <1>1, <2>1 DEF CallInv
  <2> QED BY <2>2
<1>2. RowInv /\ FindingsInv
  BY DEF ExperimentInv
<1>3. ASSUME ag_experiment.verdict # <<>>, ~ag_experiment.overlapped
      PROVE  LET v == ag_experiment.verdict[1]
             IN  /\ ag_experiment.status = "stopped" => v.breached # {}
                 /\ ag_run[v.by].pc \in {"finding", "done"} /\ v.breached # {} =>
                       ag_experiment.status = "stopped"
  <2>1. PICK v \in ag_experiment.written : ag_experiment.verdict = <<v>> /\ SettledBy(v)
    BY <1>3 DEF PassInv
  <2>2. ag_experiment.verdict[1] = v
    BY <2>1
  <2> QED BY <2>1, <2>2 DEF SettledBy
<1>4. /\ ag_experiment.status \in {"running", "stopped", "concluded"} => ag_experiment.pr
      /\ ag_experiment.status \in {"stopped", "concluded"} <=> ag_experiment.verdict # <<>>
  BY <1>2 DEF RowInv, Ended
<1>5. \A v \in ag_experiment.written : v.decision = "ship" =>
         \A m \in DOMAIN v.observed :
            v.observed[m] # (IF m = "task_success_rate" THEN "below" ELSE "above")
  BY <1>2 DEF RowInv, Harmless
<1>6. \A f \in ag_findings : f.by.kind = "monitor" =>
         /\ f.says \in ag_experiment.written /\ f.says.by = f.by
         /\ f.says.queries \subseteq f.evidence
         /\ \A m \in f.says.breached :
               [metric |-> m, query |-> f.by.cites[m],
                value |-> IF m = "task_success_rate" THEN "below" ELSE "above"] \in f.metrics
  BY <1>2 DEF FindingsInv, Founded, Harm
<1> QED
  BY <1>1, <1>3, <1>4, <1>5, <1>6 DEF Ag!ExperimentsConclude, Starting

\* All that AgentLoopSafe says, of the calls there are: for any readings and levels,
\* any calls made together, and wherever each fails or loses its answer.
THEOREM AgentsAreSafe ==
    ASSUME Ag!KnownJobs
    PROVE  Ag!Spec => []Ag!AgentLoopSafe
<1> DEFINE All == AgInv /\ Ag!SweepsAreHonest /\ AlertsInv /\ ExperimentInv /\ PassInv
<1>1. Ag!Init => All
  <2>1. ASSUME Ag!Init PROVE Ag!SweepsAreHonest /\ AlertsInv
    BY <2>1 DEF Ag!Init, Ag!SweepsAreHonest, AlertsInv
  <2>2. ASSUME Ag!Init PROVE PassInv
    BY <2>2 DEF Ag!Init, Ag!Experiment0, PassInv
  <2> QED BY <2>1, <2>2, AgStarts, ExperimentInit
<1>2. All /\ [Ag!Next]_(Ag!vars) => All'
  BY AgKept, SweepsNext, AlertsNext, ExperimentNext, PassNext
<1>3. All => Ag!AgentLoopSafe
  <2>1. ASSUME AlertsInv PROVE Ag!AlertsHaveGround
    BY <2>1 DEF AlertsInv, Ag!AlertsHaveGround, Ag!Fires
  <2> QED BY <2>1, ExperimentSafe DEF Ag!AgentLoopSafe, AgInv
<1> HIDE DEF All
<1> QED
  BY <1>1, <1>2, <1>3, PTL DEF Ag!Spec
-----------------------------------------------------------------------------
(***************************************************************************)
(* The agent that writes code: Instrumentation, for any repository, any    *)
(* proposals of a model and any number of runs.  InsInv follows a run from *)
(* its review to its record; what the scanner and the edits compute is not *)
(* needed for it, but that no line scanned is of the kind "none".          *)
(***************************************************************************)
RunFields == {"mode", "approve", "session", "seams", "base", "plan", "code", "checked"}
ScannedOnly == \A s \in ins_run.seams : s.kind # "none"
ApprovedFrom ==
    ins_pc \in {"write_generated", "wire", "model_edits", "checks", "checkout", "commit",
               "record_run"} => ins_run.approve
HasGenerated ==
    ins_pc \in {"wire", "model_edits", "checks", "checkout", "commit"} => DOMAIN ins_generated # {}
CommitsWhatPassed ==
    ins_pc \in {"checkout", "commit"} => ins_run.checked = <<ins_files, ins_generated>>

\* There is one commit, on the branch that only one run can make.
OneCommit ==
    /\ ~ins_branch => ins_commits = {} /\ ins_recorded = 0
    /\ ins_pc = "commit" => ins_branch /\ ins_commits = {} /\ ins_recorded = 0
    /\ ins_pc = "record_run" => ins_branch /\ ins_commits = {ins_run.checked} /\ ins_recorded = 0
    /\ ins_recorded = 0 \/ (ins_recorded = 1 /\ ins_commits # {})
    /\ \A c \in ins_commits : DOMAIN c[2] # {}
DoneIsRecorded == ins_pc = "idle" /\ ins_run.mode # "none" /\ ins_run.code = 0 => ins_recorded = 1
MilestoneHasMap ==
    ins_pc = "plan_proposed" \/ "plan_proposed" \in ins_milestones => ins_stored # Ins!NoMap

InsInv ==
    /\ DOMAIN ins_run = RunFields
    /\ ScannedOnly /\ ApprovedFrom /\ HasGenerated /\ CommitsWhatPassed
    /\ OneCommit /\ DoneIsRecorded /\ MilestoneHasMap

LEMMA ScanFindsKinds == \A fs : \A s \in Ins!Scan(fs) : s.kind # "none"
  BY DEF Ins!Scan

LEMMA ScannedIsMap == ScannedOnly => ins_run.seams # Ins!NoMap
<1> SUFFICES ASSUME ScannedOnly, ins_run.seams = Ins!NoMap
             PROVE  FALSE
  OBVIOUS
<1> DEFINE none == [kind |-> "none", file |-> "none", line |-> 0]
<1>1. none \in ins_run.seams
  BY DEF Ins!NoMap
<1>2. none.kind = "none"
  OBVIOUS
<1> QED  BY <1>1, <1>2 DEF ScannedOnly

LEMMA InsInit ==
    ASSUME Ins!Init
    PROVE  InsInv
<1>1. DOMAIN ins_run = RunFields /\ ins_run.seams = {} /\ ins_run.mode = "none"
  BY DEF Ins!Init, Ins!NoRun, RunFields
<1> QED  BY <1>1 DEF Ins!Init, InsInv, ScannedOnly, ApprovedFrom, HasGenerated,
              CommitsWhatPassed, OneCommit, DoneIsRecorded, MilestoneHasMap

\* A run starts with a scan and nothing else.
LEMMA RunStarts ==
    ASSUME InsInv, Ins!StartInstrument \/ Ins!StartOnboard
    PROVE  InsInv'
<1>1. /\ UNCHANGED <<ins_files, ins_generated, ins_branch, ins_commits, ins_stored, ins_recorded>>
      /\ ins_milestones' \in {ins_milestones, ins_milestones \cup {"connected"}}
      /\ ins_pc' = IF Frameworks = {} THEN "idle" ELSE "get_seam_map"
  BY DEF Ins!StartInstrument, Ins!StartOnboard, Ins!GoTo, Ins!Milestone, Ins!tree, Ins!git,
         Ins!backend
<1>2. /\ DOMAIN ins_run' = RunFields
      /\ ins_run'.seams = Ins!Scan(ins_files)
      /\ ins_run'.code = IF Frameworks = {} THEN 1 ELSE 0
  BY DEF Ins!StartInstrument, Ins!StartOnboard, Ins!NoRun, RunFields
<1>3. ScannedOnly'
  BY <1>2, ScanFindsKinds DEF ScannedOnly
<1>4. MilestoneHasMap'
  BY <1>1 DEF InsInv, MilestoneHasMap
<1>5. DoneIsRecorded'
  BY <1>1, <1>2 DEF DoneIsRecorded
<1> QED  BY <1>1, <1>2, <1>3, <1>4, <1>5
         DEF InsInv, ApprovedFrom, HasGenerated, CommitsWhatPassed, OneCommit

\* The run keeps what it scanned, and its approval.
KeepsRun ==
    /\ DOMAIN ins_run' = RunFields
    /\ ins_run'.seams = ins_run.seams /\ ins_run'.approve = ins_run.approve

\* The steps up to the review gate: no code is written.
LEMMA ReadStep ==
    ASSUME InsInv, Ins!GetSeamMap \/ Ins!FetchRegistry \/ Ins!ReviewPlan
    PROVE  InsInv'
<1>1. /\ UNCHANGED <<ins_files, ins_generated, ins_branch, ins_commits, ins_stored,
                     ins_milestones, ins_recorded>>
      /\ ins_pc' \in {"fetch_registry", "review", "put_seam_map"}
  BY DEF Ins!GetSeamMap, Ins!FetchRegistry, Ins!ReviewPlan, Ins!GoTo, Ins!tree, Ins!git,
         Ins!backend
<1>2. KeepsRun
  BY DEF Ins!GetSeamMap, Ins!FetchRegistry, Ins!ReviewPlan, KeepsRun, InsInv, RunFields
<1> QED  BY <1>1, <1>2 DEF InsInv, KeepsRun, ScannedOnly, ApprovedFrom, HasGenerated,
              CommitsWhatPassed, OneCommit, DoneIsRecorded, MilestoneHasMap

\* A command that ends, with another code than that of a run that is done.
Ends(code) ==
    /\ ins_pc' = "idle" /\ KeepsRun /\ ins_run'.code = code
LEMMA ExitEnds ==
    ASSUME InsInv, NEW code, Ins!Exit(code)
    PROVE  Ends(code)
  BY DEF InsInv, Ins!Exit, Ends, KeepsRun, RunFields

LEMMA PutStep ==
    ASSUME InsInv, Ins!PutSeamMap
    PROVE  InsInv'
<1>1. /\ UNCHANGED <<ins_files, ins_generated, ins_branch, ins_commits, ins_milestones,
                     ins_recorded>>
      /\ ins_stored' = ins_run.seams /\ ins_pc = "put_seam_map"
  BY DEF Ins!PutSeamMap, Ins!tree, Ins!git
<1>2. \/ ins_pc' = "plan_proposed" /\ ins_run' = ins_run
      \/ ins_pc' = "write_generated" /\ ins_run' = ins_run /\ ins_run.approve
      \/ Ends(2)
  BY ExitEnds DEF Ins!PutSeamMap, Ins!GoTo
<1>3. ins_stored' # Ins!NoMap
  BY <1>1, ScannedIsMap DEF InsInv
<1>4. MilestoneHasMap'
  BY <1>3 DEF MilestoneHasMap, Ins!NoMap
<1> QED  BY <1>1, <1>2, <1>4 DEF InsInv, Ends, KeepsRun, ScannedOnly, ApprovedFrom,
              HasGenerated, CommitsWhatPassed, OneCommit, DoneIsRecorded

LEMMA ProposedStep ==
    ASSUME InsInv, Ins!PlanProposed
    PROVE  InsInv'
<1>1. /\ UNCHANGED <<ins_files, ins_generated, ins_branch, ins_commits, ins_stored, ins_recorded>>
      /\ ins_pc = "plan_proposed"
  BY DEF Ins!PlanProposed, Ins!tree, Ins!git
<1>2. Ends(2)
  BY ExitEnds DEF Ins!PlanProposed
<1>3. MilestoneHasMap'
  BY <1>1 DEF InsInv, MilestoneHasMap
<1> QED  BY <1>1, <1>2, <1>3 DEF InsInv, Ends, KeepsRun, ScannedOnly, ApprovedFrom,
              HasGenerated, CommitsWhatPassed, OneCommit, DoneIsRecorded

\* Code is written, and nothing committed.
LEMMA WriteStep ==
    ASSUME InsInv, Ins!WriteGenerated \/ Ins!Wire \/ Ins!ModelEdits
    PROVE  InsInv'
<1>1. /\ UNCHANGED <<ins_branch, ins_commits, ins_stored, ins_milestones, ins_recorded, ins_run>>
      /\ ins_pc \in {"write_generated", "wire", "model_edits"}
      /\ ins_pc' \in {"wire", "model_edits", "checks"}
  BY DEF Ins!WriteGenerated, Ins!Wire, Ins!ModelEdits, Ins!GoTo, Ins!git, Ins!backend
<1>2. DOMAIN ins_generated' # {}
  <2>1. CASE Ins!WriteGenerated
    <3>1. ins_generated' = [plan |-> ins_run.plan, wrapper |-> ins_run.plan]
      BY <2>1 DEF Ins!WriteGenerated
    <3>2. "plan" \in DOMAIN ins_generated'
      BY <3>1
    <3> QED  BY <3>2
  <2>2. CASE Ins!Wire \/ Ins!ModelEdits
    BY <2>2 DEF Ins!Wire, Ins!ModelEdits, InsInv, HasGenerated
  <2> QED  BY <2>1, <2>2
<1> QED  BY <1>1, <1>2 DEF InsInv, ScannedOnly, ApprovedFrom, HasGenerated,
              CommitsWhatPassed, OneCommit, DoneIsRecorded, MilestoneHasMap

\* What passes the checks is what will be committed.
LEMMA CheckStep ==
    ASSUME InsInv, Ins!ChecksPass
    PROVE  InsInv'
<1>1. /\ UNCHANGED <<ins_files, ins_generated, ins_branch, ins_commits, ins_stored,
                     ins_milestones, ins_recorded>>
      /\ ins_pc = "checks" /\ ins_pc' = "checkout"
      /\ ins_run' = [ins_run EXCEPT !.checked = <<ins_files, ins_generated>>]
  BY DEF Ins!ChecksPass, Ins!GoTo, Ins!tree, Ins!git, Ins!backend
<1>2. KeepsRun /\ ins_run'.checked = <<ins_files, ins_generated>>
  BY <1>1 DEF KeepsRun, InsInv, RunFields
<1>3. CommitsWhatPassed'
  BY <1>1, <1>2 DEF CommitsWhatPassed
<1> QED  BY <1>1, <1>2, <1>3 DEF InsInv, KeepsRun, ScannedOnly, ApprovedFrom, HasGenerated,
              OneCommit, DoneIsRecorded, MilestoneHasMap

LEMMA GitStep ==
    ASSUME InsInv, Ins!Checkout \/ Ins!Commit
    PROVE  InsInv'
<1>1. CASE Ins!Checkout
  <2>1. /\ UNCHANGED <<ins_files, ins_generated, ins_commits, ins_stored, ins_milestones,
                       ins_recorded, ins_run>>
        /\ ins_pc = "checkout" /\ ins_pc' = "commit" /\ ~ins_branch /\ ins_branch' = TRUE
    BY <1>1 DEF Ins!Checkout, Ins!GoTo, Ins!tree, Ins!backend
  <2> QED  BY <2>1 DEF InsInv, ScannedOnly, ApprovedFrom, HasGenerated, CommitsWhatPassed,
                OneCommit, DoneIsRecorded, MilestoneHasMap
<1>2. CASE Ins!Commit
  <2> DEFINE t == <<ins_files, ins_generated>>
  <2>1. /\ UNCHANGED <<ins_files, ins_generated, ins_branch, ins_stored, ins_milestones,
                       ins_recorded, ins_run>>
        /\ ins_pc = "commit" /\ ins_pc' = "record_run"
        /\ ins_commits' = ins_commits \cup {t}
    BY <1>2 DEF Ins!Commit, Ins!GoTo, Ins!tree, Ins!backend
  <2>2. ins_branch /\ ins_commits = {} /\ ins_recorded = 0 /\ ins_run.checked = t /\ DOMAIN ins_generated # {}
    BY <2>1 DEF InsInv, OneCommit, CommitsWhatPassed, HasGenerated
  <2>3. t[2] = ins_generated
    OBVIOUS
  <2> HIDE DEF t
  <2>4. ins_commits' = {t} /\ ins_run'.checked = t /\ ins_recorded' = 0 /\ ins_branch'
    BY <2>1, <2>2
  <2>5. OneCommit'
    BY <2>1, <2>2, <2>3, <2>4 DEF OneCommit
  <2> QED  BY <2>1, <2>5 DEF InsInv, ScannedOnly, ApprovedFrom, HasGenerated,
                CommitsWhatPassed, DoneIsRecorded, MilestoneHasMap
<1> QED  BY <1>1, <1>2

LEMMA RecordedStep ==
    ASSUME InsInv, Ins!RecordRun
    PROVE  InsInv'
<1>1. /\ UNCHANGED <<ins_files, ins_generated, ins_branch, ins_commits, ins_stored, ins_milestones>>
      /\ ins_pc = "record_run" /\ ins_recorded' = ins_recorded + 1
  BY DEF Ins!RecordRun, Ins!tree, Ins!git
<1>2. Ends(0)
  BY ExitEnds DEF Ins!RecordRun
<1>3. ins_branch /\ ins_commits # {} /\ ins_recorded' = 1
  BY <1>1 DEF InsInv, OneCommit
<1> QED  BY <1>1, <1>2, <1>3 DEF InsInv, Ends, KeepsRun, ScannedOnly, ApprovedFrom,
              HasGenerated, CommitsWhatPassed, OneCommit, DoneIsRecorded, MilestoneHasMap

\* A command that fails ends where it is, with what a request did before its answer was lost.
LEMMA RunFails ==
    ASSUME InsInv,
           Ins!VerificationFails \/ Ins!AwaitFails \/ Ins!AnswerLost \/ Ins!WireFails
    PROVE  InsInv'
<1>1. Ends(1)
  BY ExitEnds DEF Ins!VerificationFails, Ins!AwaitFails, Ins!AnswerLost, Ins!WireFails
<1>2. UNCHANGED <<ins_branch, ins_commits, ins_milestones>>
  BY DEF Ins!VerificationFails, Ins!AwaitFails, Ins!AnswerLost, Ins!WireFails, Ins!git,
         Ins!backend
<1>3. /\ ins_stored' \in {ins_stored, ins_run.seams}
      /\ ins_recorded' = ins_recorded \/ (ins_recorded' = ins_recorded + 1 /\ ins_pc = "record_run")
  BY DEF Ins!VerificationFails, Ins!AwaitFails, Ins!AnswerLost, Ins!WireFails, Ins!backend
<1>4. MilestoneHasMap'
  <2>1. ins_run.seams # Ins!NoMap
    BY ScannedIsMap DEF InsInv
  <2>2. Ins!NoMap' = Ins!NoMap
    BY DEF Ins!NoMap
  <2> QED  BY <1>1, <1>2, <1>3, <2>1, <2>2 DEF InsInv, MilestoneHasMap, Ends
<1>5. OneCommit'
  BY <1>1, <1>2, <1>3 DEF InsInv, OneCommit, Ends
<1> QED  BY <1>1, <1>4, <1>5 DEF InsInv, Ends, KeepsRun, ScannedOnly, ApprovedFrom,
              HasGenerated, CommitsWhatPassed, DoneIsRecorded

LEMMA DeveloperStep ==
    ASSUME InsInv, Ins!DeveloperEdits \/ Ins!DeveloperResets
    PROVE  InsInv'
<1>1. /\ UNCHANGED <<ins_branch, ins_commits, ins_stored, ins_milestones, ins_recorded, ins_pc,
                     ins_run>>
      /\ ins_pc = "idle"
  BY DEF Ins!DeveloperEdits, Ins!DeveloperResets, Ins!git, Ins!backend
<1> QED  BY <1>1 DEF InsInv, ScannedOnly, ApprovedFrom, HasGenerated, CommitsWhatPassed,
              OneCommit, DoneIsRecorded, MilestoneHasMap

LEMMA InsKept ==
    ASSUME InsInv, [Ins!Next]_(Ins!vars)
    PROVE  InsInv'
<1>1. CASE UNCHANGED Ins!vars
  <2>1. UNCHANGED <<ins_files, ins_generated, ins_branch, ins_commits, ins_stored, ins_milestones,
                    ins_recorded, ins_pc,
                    ins_run>>
    BY <1>1 DEF Ins!vars
  <2> QED  BY <2>1 DEF InsInv, ScannedOnly, ApprovedFrom, HasGenerated, CommitsWhatPassed,
                OneCommit, DoneIsRecorded, MilestoneHasMap, Ins!NoMap
<1>2. CASE Ins!Next
  BY <1>2, RunStarts, ReadStep, PutStep, ProposedStep, WriteStep, CheckStep, GitStep,
     RecordedStep, RunFails, DeveloperStep DEF Ins!Next
<1> QED  BY <1>1, <1>2

\* Whatever is scanned, proposed, refused or lost, in any number of runs: no code is written
\* before a human approved the plan, what is committed is what the checks passed on, a run is
\* recorded once and only if there is its commit (runInstrument, runOnboard in the CLI).
THEOREM AgentRunsAreHonest == Ins!Spec => []Ins!RunsAreHonest
<1>1. Ins!Init => InsInv
  BY InsInit
<1>2. InsInv /\ [Ins!Next]_(Ins!vars) => InsInv'
  BY InsKept
<1>3. InsInv => Ins!RunsAreHonest
  BY DEF InsInv, Ins!RunsAreHonest, ApprovedFrom, OneCommit, DoneIsRecorded, MilestoneHasMap
<1> QED  BY <1>1, <1>2, <1>3, PTL DEF Ins!Spec
-----------------------------------------------------------------------------
(***************************************************************************)
(* What is committed is wired.  Placed says what an insertion makes of a   *)
(* file, by induction on its lines; Moves is what other lines keep of it,  *)
(* Tidy what every tree has, Emitting what it has once the implementer's   *)
(* own edits are in it, and WiresInv follows that from scan to commit.     *)
(***************************************************************************)
\* Induction over the naturals, as a fact about sets.
LEMMA SetInduction ==
    ASSUME NEW T, 0 \in T, \A n \in Nat : n \in T => n + 1 \in T
    PROVE  Nat \subseteq T
<1> SUFFICES ASSUME Nat \ T # {} PROVE FALSE
  OBVIOUS
<1>1. PICK x \in Nat \ T : \A y \in Nat \ T : ~(<<y, x>> \in OpToRel(<, Nat))
  <2>1. (Nat \ T) \subseteq Nat
    OBVIOUS
  <2> QED  BY NatLessThanWellFounded, WFMin, <2>1, Zenon
<1>2. \A y \in Nat \ T : ~(y < x)
  BY <1>1 DEF OpToRel
<1>3. x # 0 /\ x - 1 \in Nat
  OBVIOUS
<1>4. x - 1 \in T
  BY <1>2, <1>3
<1> QED  BY <1>3, <1>4

\* A loop of N rounds over the values of X, from base: it has a value after each.
LoopOf(X, N, base, round) ==
    \E f \in [0..N -> X] : f[0] = base /\ \A n \in 1..N : f[n] = round[n][f[n - 1]]
\* Such a loop always has one.
LEMMA LoopExists ==
    ASSUME NEW X, NEW N \in Nat, NEW base \in X, NEW round \in [1..N -> [X -> X]]
    PROVE  LoopOf(X, N, base, round)
<1> DEFINE Upto(n) == \E f \in [0..n -> X] :
              f[0] = base /\ \A i \in 1..n : f[i] = round[i][f[i - 1]]
           T == {n \in Nat : n <= N => Upto(n)}
<1>1. Upto(0)
  <2> DEFINE f == [i \in 0..0 |-> base]
  <2>1. f \in [0..0 -> X] /\ f[0] = base /\ 1..0 = {}
    OBVIOUS
  <2> QED  BY <2>1
<1>2. ASSUME NEW n \in Nat, n + 1 <= N, Upto(n)
      PROVE  Upto(n + 1)
  <2>1. PICK f \in [0..n -> X] : f[0] = base /\ \A i \in 1..n : f[i] = round[i][f[i - 1]]
    BY <1>2
  <2> DEFINE g == [i \in 0..(n + 1) |-> IF i = n + 1 THEN round[n + 1][f[n]] ELSE f[i]]
  <2>2. n + 1 \in 1..N /\ f[n] \in X /\ round[n + 1][f[n]] \in X
    BY <1>2
  <2>3. g \in [0..(n + 1) -> X] /\ g[0] = base
    BY <2>1, <2>2
  <2>4. \A i \in 1..(n + 1) : g[i] = round[i][g[i - 1]]
    BY <2>1, <2>2
  <2> QED  BY <2>3, <2>4
<1>3. 0 \in T
  BY <1>1
<1>4. \A n \in Nat : n \in T => n + 1 \in T
  <2> HIDE DEF Upto
  <2> QED  BY <1>2
<1>5. Nat \subseteq T
  <2> HIDE DEF T
  <2> QED  BY <1>3, <1>4, SetInduction
<1>6. Upto(N)
  BY <1>5
<1> QED  BY <1>6 DEF LoopOf

\* The library's definitions are the same in every module.
LEMMA InsSets ==
    /\ \A S : Ins!Cardinality(S) = Cardinality(S)
    /\ \A S : Ins!IsFiniteSet(S) <=> IsFiniteSet(S)
  BY DEF Ins!Cardinality, Cardinality, Ins!IsFiniteSet, IsFiniteSet

\* The lines of finitely many edits, as a sequence.
LineOf(S) == [i \in 1..Ins!Cardinality(S) |-> Ins!SetToSeq(S)[i].line]
LEMMA EditsInSeq ==
    ASSUME NEW X, NEW S, IsFiniteSet(S), \A e \in S : e.line \in X
    PROVE  /\ LineOf(S) \in Seq(X)
           /\ \A i \in 1..Len(LineOf(S)) : LineOf(S)[i] \in {e.line : e \in S}
           /\ \A x \in {e.line : e \in S} : \E i \in 1..Len(LineOf(S)) : LineOf(S)[i] = x
<1> DEFINE c == Cardinality(S)
           q == Ins!SetToSeq(S)
<1>1. c \in Nat /\ ExistsBijection(1..c, S) /\ Ins!Cardinality(S) = c
  BY FS_CardinalityType, InsSets
<1>2. \E f \in [1..c -> S] : Ins!IsInjective(f)
  <2>1. PICK f \in Bijection(1..c, S) : TRUE
    BY <1>1 DEF ExistsBijection
  <2>2. f \in [1..c -> S] /\ \A a, b \in 1..c : f[a] = f[b] => a = b
    BY <2>1 DEF Bijection, Injection, IsInjective
  <2> QED  BY <2>2 DEF Ins!IsInjective
<1>3. q \in [1..c -> S] /\ Ins!IsInjective(q)
  BY <1>1, <1>2 DEF Ins!SetToSeq
<1> HIDE DEF q, c
<1>4. q \in Injection(1..c, S)
  BY <1>3 DEF Injection, IsInjective, Ins!IsInjective
<1>5. IsFiniteSet(1..c) /\ Cardinality(1..c) = c
  BY <1>1, FS_Interval
<1>6. q \in Surjection(1..c, S)
  BY <1>4, <1>5, FS_Injection DEF c
<1>7. \A e \in S : \E i \in 1..c : q[i] = e
  BY <1>6 DEF Surjection
<1>8. LineOf(S) = [i \in 1..c |-> q[i].line]
  BY <1>1 DEF LineOf, q
<1>9. \A i \in 1..c : q[i] \in S /\ q[i].line \in X
  BY <1>3
<1> DEFINE lines == LineOf(S)
<1>10. lines \in Seq(X) /\ Len(lines) = c /\ \A i \in 1..c : lines[i] = q[i].line
  BY <1>1, <1>8, <1>9
<1> HIDE DEF lines
<1>11. \A i \in 1..Len(lines) : lines[i] \in {e.line : e \in S}
  BY <1>9, <1>10
<1>12. \A x \in {e.line : e \in S} : \E i \in 1..Len(lines) : lines[i] = x
  BY <1>7, <1>10
<1> QED  BY <1>10, <1>11, <1>12 DEF lines

\* The edits that go after line p, and what they insert there.
Here(p, lines, edits) == {e \in edits : Ins!AtMost(e.after, Len(lines)) = p}
New(p, lines, edits) == {e.line : e \in Here(p, lines, edits)}

\* s is the first p lines with the edits that go after each of them: line i is at at[i], what
\* was inserted after it is before at[i + 1].
Placed(s, p, at, X, lines, edits) ==
    /\ s \in Seq(X) /\ at[0] = 0 /\ at[p + 1] = Len(s) + 1
    /\ \A i \in 1..p : at[i] \in 1..Len(s) /\ s[at[i]] = lines[i]
    /\ \A i, j \in 0..(p + 1) : i < j => at[i] < at[j]
    /\ \A k \in 1..Len(s) : \E i \in 0..p :
          \/ i > 0 /\ k = at[i]
          \/ at[i] < k /\ k < at[i + 1] /\ s[k] \in New(i, lines, edits)
    /\ \A i \in 0..p : \A x \in New(i, lines, edits) :
          \E k \in 1..Len(s) : at[i] < k /\ k < at[i + 1] /\ s[k] = x

LEMMA PlacedFirst ==
    ASSUME NEW X, NEW lines, NEW edits, NEW at, NEW s \in Seq(X),
           \A i \in 1..Len(s) : s[i] \in New(0, lines, edits),
           \A x \in New(0, lines, edits) : \E i \in 1..Len(s) : s[i] = x,
           at[0] = 0, at[1] = Len(s) + 1
    PROVE  Placed(s, 0, at, X, lines, edits)
  BY DEF Placed

LEMMA PlacedNext ==
    ASSUME NEW X, NEW lines \in Seq(X), NEW edits, NEW p \in Nat, p < Len(lines),
           NEW at \in [0..(Len(lines) + 1) -> Nat], NEW s, NEW more \in Seq(X), NEW t,
           Placed(s, p, at, X, lines, edits),
           \A i \in 1..Len(more) : more[i] \in New(p + 1, lines, edits),
           \A x \in New(p + 1, lines, edits) : \E i \in 1..Len(more) : more[i] = x,
           t = Append(s, lines[p + 1]) \o more, at[p + 2] = Len(t) + 1
    PROVE  Placed(t, p + 1, at, X, lines, edits)
<1> DEFINE m == Len(s) + 1
<1>0. s \in Seq(X) /\ lines[p + 1] \in X
  BY DEF Placed
<1> DEFINE n == Len(more)
<1>1. Len(s) \in Nat /\ m \in Nat /\ n \in Nat /\ Len(lines) \in Nat
  BY <1>0
<1>2. /\ t \in Seq(X) /\ Len(t) = m + n
      /\ \A i \in 1..Len(s) : t[i] = s[i]
      /\ t[m] = lines[p + 1]
      /\ \A i \in (m + 1)..(m + n) : t[i] = more[i - m]
  BY <1>0
<1>3. at[0] = 0 /\ at[p + 1] = m /\ at[p + 2] = m + n + 1 /\ (p + 1) + 1 = p + 2
  BY <1>2 DEF Placed
<1> HIDE DEF m, n
<1>4. \A i \in 1..(p + 1) : at[i] \in 1..Len(t) /\ t[at[i]] = lines[i]
  <2> SUFFICES ASSUME NEW i \in 1..(p + 1) PROVE at[i] \in 1..Len(t) /\ t[at[i]] = lines[i]
    OBVIOUS
  <2>1. CASE i = p + 1
    BY <1>1, <1>2, <1>3, <2>1 DEF m
  <2>2. CASE i \in 1..p
    <3>1. at[i] \in 1..Len(s) /\ s[at[i]] = lines[i]
      BY <2>2 DEF Placed
    <3>2. at[i] \in 1..Len(t)
      BY <1>1, <1>2, <3>1 DEF m
    <3>3. t[at[i]] = s[at[i]]
      BY <1>2, <3>1
    <3> QED  BY <3>1, <3>2, <3>3
  <2>3. i = p + 1 \/ i \in 1..p
    OBVIOUS
  <2> QED  BY <2>1, <2>2, <2>3
<1>5. \A i, j \in 0..(p + 2) : i < j => at[i] < at[j]
  <2> SUFFICES ASSUME NEW i \in 0..(p + 2), NEW j \in 0..(p + 2), i < j PROVE at[i] < at[j]
    OBVIOUS
  <2>1. \A x, y \in 0..(p + 1) : x < y => at[x] < at[y]
    BY DEF Placed
  <2>2. CASE j \in 0..(p + 1)
    <3>1. i \in 0..(p + 1)
      BY <2>2
    <3> QED  BY <2>1, <2>2, <3>1
  <2>3. CASE j = p + 2
    <3>1. i = p + 1 \/ at[i] < at[p + 1]
      BY <2>1
    <3>2. at[i] \in Nat
      <4>1. i \in 0..(Len(lines) + 1)
        BY <1>1
      <4> QED  BY <4>1
    <3> QED  BY <1>1, <1>3, <2>3, <3>1, <3>2
  <2> QED  BY <2>2, <2>3
<1>6. \A k \in 1..Len(t) : \E i \in 0..(p + 1) :
          \/ i > 0 /\ k = at[i]
          \/ at[i] < k /\ k < at[i + 1] /\ t[k] \in New(i, lines, edits)
  <2> SUFFICES ASSUME NEW k \in 1..Len(t)
               PROVE  \E i \in 0..(p + 1) :
                         \/ i > 0 /\ k = at[i]
                         \/ at[i] < k /\ k < at[i + 1]
                            /\ t[k] \in New(i, lines, edits)
    OBVIOUS
  <2>1. CASE k \in 1..Len(s)
    <3>1. PICK i \in 0..p :
             \/ i > 0 /\ k = at[i]
             \/ at[i] < k /\ k < at[i + 1] /\ s[k] \in New(i, lines, edits)
      BY <2>1 DEF Placed
    <3> QED  BY <1>2, <2>1, <3>1
  <2>2. CASE k = m
    <3>1. p + 1 \in 0..(p + 1) /\ p + 1 > 0
      OBVIOUS
    <3>2. k = at[p + 1]
      BY <1>3, <2>2
    <3> QED  BY <3>1, <3>2
  <2>3. CASE k > m
    <3>1. k \in (m + 1)..(m + n) /\ k - m \in 1..n
      BY <1>1, <1>2, <2>3
    <3>2. more[k - m] \in New(p + 1, lines, edits)
      BY <3>1 DEF n
    <3>3. t[k] = more[k - m]
      BY <1>2, <3>1
    <3>4. at[p + 1] < k /\ k < at[p + 2]
      BY <1>1, <1>2, <1>3, <2>3, <3>1
    <3>5. p + 1 \in 0..(p + 1) /\ (p + 1) + 1 = p + 2
      OBVIOUS
    <3> QED  BY <3>2, <3>3, <3>4, <3>5
  <2>4. k \in 1..Len(s) \/ k = m \/ k > m
    BY <1>1, <1>2 DEF m
  <2> QED  BY <2>1, <2>2, <2>3, <2>4
<1>7. \A i \in 0..(p + 1) : \A x \in New(i, lines, edits) :
          \E k \in 1..Len(t) : at[i] < k /\ k < at[i + 1] /\ t[k] = x
  <2> SUFFICES ASSUME NEW i \in 0..(p + 1), NEW x \in New(i, lines, edits)
               PROVE  \E k \in 1..Len(t) : at[i] < k /\ k < at[i + 1] /\ t[k] = x
    OBVIOUS
  <2>1. CASE i \in 0..p
    <3>1. PICK k \in 1..Len(s) : at[i] < k /\ k < at[i + 1] /\ s[k] = x
      BY <2>1 DEF Placed
    <3>2. k \in 1..Len(t) /\ t[k] = x
      BY <1>1, <1>2, <3>1 DEF m
    <3> QED  BY <3>1, <3>2
  <2>3. i \in 0..p \/ i = p + 1
    OBVIOUS
  <2>2. CASE i = p + 1
    <3>1. PICK k \in 1..Len(more) : more[k] = x
      BY <2>2
    <3> DEFINE h == m + k
    <3>2. h \in 1..Len(t) /\ h \in (m + 1)..(m + n) /\ h - m = k
      BY <1>1, <1>2 DEF n
    <3> HIDE DEF h
    <3>4. t[h] = x
      BY <1>2, <3>1, <3>2
    <3>5. i + 1 = p + 2 /\ at[i] = m /\ at[i + 1] = m + n + 1
      BY <1>3, <2>2
    <3>6. m < h /\ h < m + n + 1
      BY <1>1, <3>2
    <3>7. at[i] < h /\ h < at[i + 1]
      BY <3>5, <3>6, Zenon
    <3> QED  BY <3>2, <3>4, <3>7
  <2> QED  BY <2>1, <2>2, <2>3
<1> QED  BY <1>2, <1>3, <1>4, <1>5, <1>6, <1>7 DEF Placed

\* InsertInto puts every edit's line after the line it names, and changes nothing else.
LEMMA InsertRight ==
    ASSUME NEW X, NEW lines \in Seq(X), NEW edits, IsFiniteSet(edits),
           \A e \in edits : e.line \in X
    PROVE  \E at \in [0..(Len(lines) + 1) -> Nat] :
              Placed(Ins!InsertInto(lines, edits), Len(lines), at, X, lines, edits)
<1> DEFINE N == Len(lines)
           more(p) == LineOf(Here(p, lines, edits))
           Step(f) == [p \in 0..N |->
                          (IF p = 0 THEN <<>> ELSE Append(f[p - 1], lines[p])) \o more(p)]
           u == CHOOSE f : f = Step(f)
<1>1. Ins!InsertInto(lines, edits) = u[N]
  BY DEF Ins!InsertInto, Here, LineOf
<1>2. N \in Nat /\ \A p \in 1..N : lines[p] \in X
  OBVIOUS
<1>3. \A p : /\ more(p) \in Seq(X)
             /\ \A i \in 1..Len(more(p)) : more(p)[i] \in New(p, lines, edits)
             /\ \A x \in New(p, lines, edits) : \E i \in 1..Len(more(p)) : more(p)[i] = x
  <2> TAKE p
  <2> DEFINE S == Here(p, lines, edits)
  <2>1. S \subseteq edits
    BY DEF Here
  <2>2. IsFiniteSet(S) /\ \A e \in S : e.line \in X
    BY <2>1, FS_Subset
  <2>3. New(p, lines, edits) = {e.line : e \in S}
    BY DEF New
  <2> HIDE DEF S
  <2>4. /\ LineOf(S) \in Seq(X)
        /\ \A i \in 1..Len(LineOf(S)) : LineOf(S)[i] \in {e.line : e \in S}
        /\ \A x \in {e.line : e \in S} : \E i \in 1..Len(LineOf(S)) : LineOf(S)[i] = x
    BY <2>2, EditsInSeq
  <2> QED  BY <2>3, <2>4 DEF S
<1> HIDE DEF more, N
<1>4. u = Step(u)
  <2> DEFINE round == [p \in 1..N |-> [s \in Seq(X) |-> Append(s, lines[p]) \o more(p)]]
  <2>1. round \in [1..N -> [Seq(X) -> Seq(X)]]
    BY <1>2, <1>3
  <2>2. more(0) \in Seq(X)
    BY <1>3
  <2> HIDE DEF round
  <2>3. LoopOf(Seq(X), N, more(0), round)
    BY <1>2, <2>1, <2>2, LoopExists
  <2>4. PICK f \in [0..N -> Seq(X)] :
           f[0] = more(0) /\ \A n \in 1..N : f[n] = round[n][f[n - 1]]
    BY <2>3 DEF LoopOf
  <2>5. \A p \in 1..N : f[p] = Append(f[p - 1], lines[p]) \o more(p)
    <3> TAKE p \in 1..N
    <3>1. f[p - 1] \in Seq(X) /\ f[p] = round[p][f[p - 1]]
      BY <1>2, <2>4
    <3> QED  BY <3>1 DEF round
  <2>6. f[0] = <<>> \o more(0)
    BY <2>2, <2>4
  <2>7. \A p \in 0..N : f[p] = Step(f)[p]
    <3> TAKE p \in 0..N
    <3>1. Step(f)[p] = (IF p = 0 THEN <<>> ELSE Append(f[p - 1], lines[p])) \o more(p)
      OBVIOUS
    <3>2. CASE p = 0
      BY <2>6, <3>1, <3>2
    <3>3. CASE p # 0
      <4>1. p \in 1..N
        BY <1>2, <3>3
      <4> QED  BY <2>5, <3>1, <3>3, <4>1
    <3> QED  BY <3>2, <3>3
  <2>8. f = Step(f)
    <3>1. f = [p \in 0..N |-> f[p]] /\ Step(f) = [p \in 0..N |-> Step(f)[p]]
      BY <2>4
    <3> HIDE DEF Step
    <3> QED  BY <2>7, <3>1
  <2> HIDE DEF Step
  <2> QED  BY <2>8
<1> HIDE DEF u
<1>5. u[0] = more(0) /\ \A p \in 0..N : p < N => u[p + 1] = Append(u[p], lines[p + 1]) \o more(p + 1)
  <2>0. 0 \in 0..N /\ \A p \in 0..N : p < N => p + 1 \in 0..N /\ p + 1 # 0 /\ (p + 1) - 1 = p
    BY <1>2
  <2>1. u[0] = <<>> \o more(0)
    BY <1>4, <2>0
  <2>2. \A p \in 0..N : p < N => u[p + 1] = Append(u[p], lines[p + 1]) \o more(p + 1)
    <3> SUFFICES ASSUME NEW p \in 0..N, p < N
                 PROVE  u[p + 1] = Append(u[p], lines[p + 1]) \o more(p + 1)
      OBVIOUS
    <3>1. p + 1 \in 0..N /\ p + 1 # 0 /\ (p + 1) - 1 = p
      BY <2>0
    <3>2. Step(u)[p + 1] = Append(u[p], lines[p + 1]) \o more(p + 1)
      BY <3>1
    <3> QED  BY <1>4, <3>2
  <2>3. <<>> \o more(0) = more(0)
    BY <1>3
  <2> QED  BY <2>1, <2>2, <2>3
<1> HIDE DEF Step
<1> DEFINE T == {p \in Nat : p <= N => u[p] \in Seq(X)}
<1>6. \A p \in 0..N : u[p] \in Seq(X)
  <2>1. 0 \in T
    BY <1>3, <1>5
  <2>2. \A p \in Nat : p \in T => p + 1 \in T
    <3> SUFFICES ASSUME NEW p \in Nat, p <= N => u[p] \in Seq(X), p + 1 <= N
                 PROVE  u[p + 1] \in Seq(X)
      OBVIOUS
    <3>1. p \in 0..N /\ p < N /\ p + 1 \in 1..N /\ u[p] \in Seq(X)
      BY <1>2
    <3>2. u[p + 1] = Append(u[p], lines[p + 1]) \o more(p + 1)
      BY <1>5, <3>1
    <3>3. more(p + 1) \in Seq(X) /\ lines[p + 1] \in X
      BY <1>2, <1>3, <3>1
    <3> QED  BY <3>1, <3>2, <3>3
  <2> HIDE DEF T
  <2>3. Nat \subseteq T
    BY <2>1, <2>2, SetInduction
  <2> QED  BY <1>2, <2>3 DEF T
<1> DEFINE at == [i \in 0..(N + 1) |-> IF i = 0 THEN 0 ELSE Len(u[i - 1]) + 1]
<1>7. at \in [0..(N + 1) -> Nat] /\ at[0] = 0 /\ \A p \in 0..N : at[p + 1] = Len(u[p]) + 1
  <2>1. \A i \in 0..(N + 1) : i # 0 => Len(u[i - 1]) \in Nat
    BY <1>2, <1>6
  <2>2. \A p \in 0..N : p + 1 \in 0..(N + 1) /\ p + 1 # 0 /\ (p + 1) - 1 = p
    BY <1>2
  <2>3. at \in [0..(N + 1) -> Nat] /\ at[0] = 0
    BY <1>2, <2>1
  <2>4. \A p \in 0..N : at[p + 1] = Len(u[p]) + 1
    BY <2>2
  <2> QED  BY <2>3, <2>4
<1> HIDE DEF at
<1> DEFINE R == {p \in Nat : p <= N => Placed(u[p], p, at, X, lines, edits)}
<1>8. \A p \in 0..N : Placed(u[p], p, at, X, lines, edits)
  <2>1. 0 \in R
    <3>1. 0 \in 0..N /\ 0 + 1 = 1
      BY <1>2
    <3>2. at[1] = Len(u[0]) + 1 /\ at[0] = 0 /\ u[0] \in Seq(X) /\ u[0] = more(0)
      BY <1>5, <1>6, <1>7, <3>1
    <3>3. /\ \A i \in 1..Len(u[0]) : u[0][i] \in New(0, lines, edits)
          /\ \A x \in New(0, lines, edits) : \E i \in 1..Len(u[0]) : u[0][i] = x
      BY <1>3, <3>2
    <3>4. Placed(u[0], 0, at, X, lines, edits)
      BY <3>2, <3>3, PlacedFirst
    <3> QED  BY <3>4
  <2>2. \A p \in Nat : p \in R => p + 1 \in R
    <3> SUFFICES ASSUME NEW p \in Nat, p <= N => Placed(u[p], p, at, X, lines, edits),
                        p + 1 <= N
                 PROVE  Placed(u[p + 1], p + 1, at, X, lines, edits)
      OBVIOUS
    <3>1. p \in 0..N /\ p < N /\ p + 1 \in 0..N /\ (p + 1) + 1 = p + 2
      BY <1>2
    <3>2. Placed(u[p], p, at, X, lines, edits)
      BY <3>1
    <3>3. u[p + 1] = Append(u[p], lines[p + 1]) \o more(p + 1)
      BY <1>5, <3>1
    <3>4. at[p + 2] = Len(u[p + 1]) + 1
      BY <1>7, <3>1
    <3> DEFINE w == more(p + 1)
    <3>5. /\ w \in Seq(X)
          /\ \A i \in 1..Len(w) : w[i] \in New(p + 1, lines, edits)
          /\ \A x \in New(p + 1, lines, edits) : \E i \in 1..Len(w) : w[i] = x
      BY <1>3
    <3> HIDE DEF w
    <3>6. at \in [0..(Len(lines) + 1) -> Nat] /\ p < Len(lines)
      BY <1>7, <3>1 DEF N
    <3>7. u[p + 1] = Append(u[p], lines[p + 1]) \o w
      BY <3>3 DEF w
    <3> QED  BY <3>2, <3>4, <3>5, <3>6, <3>7, PlacedNext
  <2> HIDE DEF R
  <2>3. Nat \subseteq R
    BY <2>1, <2>2, SetInduction
  <2> QED  BY <1>2, <2>3 DEF R
<1>9. Placed(u[N], N, at, X, lines, edits)
  BY <1>2, <1>8
<1> QED  BY <1>1, <1>7, <1>9 DEF N

\* A function that the implementer wires; what is inserted.
Task(L, i) == Ins!IsEntry(L, i) /\ {"function", "params"} \subseteq L[i]
Plain == Ins!Inserted

\* A file as the agent finds it and leaves it: an emission is a line of its own, where it goes
\* for a function that is wired.
Owned(f, L) ==
    \A j \in 1..Len(L) : "emission" \in L[j] =>
        L[j] = {"emission"} /\ \E i \in 1..Len(L) : Task(L, i) /\ Ins!PlacedFor(f, L, i, j)
Tidy(f, L) ==
    /\ L \in Seq(SUBSET Ins!Patterns) /\ Owned(f, L)
    /\ Ins!Imported(Repo[f]) => Ins!Imported(L)
\* ... and one that is wired.
Emitting(f, L) ==
    \A i \in 1..Len(L) : Task(L, i) =>
        \E j \in 1..Len(L) : "emission" \in L[j] /\ Ins!PlacedFor(f, L, i, j)

\* Line i of `lines` is now line at[i] of s, in the order they were in, among Plain ones.
Moves(s, at, lines) ==
    /\ \A i \in 1..Len(lines) : at[i] \in 1..Len(s) /\ s[at[i]] = lines[i]
    /\ \A i, j \in 1..Len(lines) : i < j => at[i] < at[j]
    /\ \A k \in 1..Len(s) : s[k] \notin Plain => \E i \in 1..Len(lines) : k = at[i]

LEMMA PlainIsPlain ==
    /\ \A x \in Plain : /\ "function" \notin x /\ "llm" \notin x /\ "route" \notin x
                        /\ "leaves" \notin x /\ "outside" \notin x
    /\ \A x \in Plain : "emission" \in x => x = {"emission"}
  BY DEF Plain, Ins!Inserted

LEMMA TaskMoves ==
    ASSUME NEW X, NEW lines \in Seq(X), NEW s \in Seq(X), NEW at, Moves(s, at, lines)
    PROVE  /\ \A i \in 1..Len(lines) : Task(s, at[i]) <=> Task(lines, i)
           /\ \A k \in 1..Len(s) : "function" \in s[k] =>
                 \E i \in 1..Len(lines) : k = at[i] /\ "function" \in lines[i]
<1>1. Ins!HasLlm(s) <=> Ins!HasLlm(lines)
  <2>0. DOMAIN s = 1..Len(s) /\ DOMAIN lines = 1..Len(lines)
    OBVIOUS
  <2>1. ASSUME NEW k \in 1..Len(s), "llm" \in s[k] PROVE \E i \in 1..Len(lines) : "llm" \in lines[i]
    <3>1. s[k] \notin Plain
      BY <2>1, PlainIsPlain
    <3>2. PICK i \in 1..Len(lines) : k = at[i]
      BY <3>1 DEF Moves
    <3>3. s[at[i]] = lines[i]
      BY DEF Moves
    <3> QED  BY <2>1, <3>2, <3>3
  <2>2. ASSUME NEW i \in 1..Len(lines), "llm" \in lines[i] PROVE \E k \in 1..Len(s) : "llm" \in s[k]
    <3>1. at[i] \in 1..Len(s) /\ s[at[i]] = lines[i]
      BY DEF Moves
    <3> QED  BY <2>2, <3>1
  <2> QED  BY <2>0, <2>1, <2>2 DEF Ins!HasLlm
<1>2. \A i \in 1..Len(lines) : Task(s, at[i]) <=> Task(lines, i)
  <2> TAKE i \in 1..Len(lines)
  <2>1. s[at[i]] = lines[i]
    BY DEF Moves
  <2> QED  BY <1>1, <2>1 DEF Task, Ins!IsEntry
<1>3. \A k \in 1..Len(s) : "function" \in s[k] =>
                 \E i \in 1..Len(lines) : k = at[i] /\ "function" \in lines[i]
  <2> SUFFICES ASSUME NEW k \in 1..Len(s), "function" \in s[k]
               PROVE  \E i \in 1..Len(lines) : k = at[i] /\ "function" \in lines[i]
    OBVIOUS
  <2>1. s[k] \notin Plain
    BY PlainIsPlain
  <2>2. PICK i \in 1..Len(lines) : k = at[i]
    BY <2>1 DEF Moves
  <2>3. s[at[i]] = lines[i]
    BY DEF Moves
  <2> QED  BY <2>2, <2>3
<1> QED  BY <1>2, <1>3

\* The order of the old lines is the order they have now.
LEMMA OrderMoves ==
    ASSUME NEW X, NEW lines \in Seq(X), NEW s \in Seq(X), NEW at, Moves(s, at, lines)
    PROVE  \A i, j \in 1..Len(lines) : (at[i] < at[j] <=> i < j) /\ (at[i] <= at[j] <=> i <= j)
<1> TAKE i, j \in 1..Len(lines)
<1>1. at[i] \in 1..Len(s) /\ at[j] \in 1..Len(s) /\ Len(s) \in Nat /\ Len(lines) \in Nat
  BY DEF Moves
<1>2. (i < j => at[i] < at[j]) /\ (j < i => at[j] < at[i])
  BY DEF Moves
<1>3. i = j \/ i < j \/ j < i
  BY <1>1
<1> QED  BY <1>1, <1>2, <1>3

\* An emission that was where it goes still is.
LEMMA PlaceMoves ==
    ASSUME NEW X, NEW lines \in Seq(X), NEW s \in Seq(X), NEW at, Moves(s, at, lines),
           NEW i \in 1..Len(lines), NEW j \in 1..Len(lines), NEW f,
           Ins!PlacedFor(f, lines, i, j)
    PROVE  Ins!PlacedFor(f, s, at[i], at[j])
<1>0. Len(lines) \in Nat /\ Len(s) \in Nat
  OBVIOUS
<1>1. /\ i < j
      /\ Ins!Imported(Repo[f]) => Ins!Between(lines, i, j) = {}
      /\ \A k, m \in Ins!Between(lines, i, j) : k = m
  BY DEF Ins!PlacedFor
<1>2. at[i] \in 1..Len(s) /\ at[j] \in 1..Len(s) /\ at[i] < at[j]
  <2>1. at[i] < at[j] <=> i < j
    BY OrderMoves
  <2>2. at[i] \in 1..Len(s) /\ at[j] \in 1..Len(s)
    BY DEF Moves
  <2> QED  BY <1>1, <2>1, <2>2
<1>3. \A q \in Ins!Between(s, at[i], at[j]) : \E k \in Ins!Between(lines, i, j) : q = at[k]
  <2> TAKE q \in Ins!Between(s, at[i], at[j])
  <2>1. q \in 1..Len(s) /\ at[i] < q /\ q < at[j] /\ s[q] \notin Plain
    BY <1>0, <1>2 DEF Ins!Between, Plain
  <2>2. PICK k \in 1..Len(lines) : q = at[k]
    BY <2>1 DEF Moves
  <2>3. i < k /\ k < j /\ lines[k] = s[q]
    BY <2>1, <2>2, OrderMoves DEF Moves
  <2>4. k \in (i + 1)..(j - 1)
    BY <1>0, <2>3
  <2>5. k \in Ins!Between(lines, i, j)
    BY <2>1, <2>3, <2>4 DEF Ins!Between, Plain
  <2> QED  BY <2>2, <2>5
<1>4. Ins!Between(lines, i, j) = {} => Ins!Between(s, at[i], at[j]) = {}
  BY <1>3
<1>5. \A p, q \in Ins!Between(s, at[i], at[j]) : p = q
  <2> TAKE p, q \in Ins!Between(s, at[i], at[j])
  <2>1. PICK k \in Ins!Between(lines, i, j) : p = at[k]
    BY <1>3
  <2>2. PICK m \in Ins!Between(lines, i, j) : q = at[m]
    BY <1>3
  <2>3. k = m
    BY <1>1
  <2> QED  BY <2>1, <2>2, <2>3
<1> QED
  BY <1>1, <1>2, <1>4, <1>5 DEF Ins!PlacedFor

LEMMA EmittingMoves ==
    ASSUME NEW X, NEW lines \in Seq(X), NEW s \in Seq(X), NEW at, Moves(s, at, lines), NEW f,
           Emitting(f, lines)
    PROVE  Emitting(f, s)
<1> SUFFICES ASSUME NEW k \in 1..Len(s), Task(s, k)
             PROVE  \E j \in 1..Len(s) : "emission" \in s[j] /\ Ins!PlacedFor(f, s, k, j)
  BY DEF Emitting
<1>1. "function" \in s[k]
  BY DEF Task
<1>2. PICK i \in 1..Len(lines) : k = at[i]
  BY <1>1, TaskMoves
<1>3. Task(lines, i)
  BY <1>2, TaskMoves
<1>4. PICK j \in 1..Len(lines) : "emission" \in lines[j] /\ Ins!PlacedFor(f, lines, i, j)
  BY <1>3 DEF Emitting
<1>5. Ins!PlacedFor(f, s, k, at[j])
  BY <1>2, <1>4, PlaceMoves
<1>6. at[j] \in 1..Len(s) /\ s[at[j]] = lines[j]
  BY DEF Moves
<1> QED  BY <1>4, <1>5, <1>6

\* A file that imported `analytics` still does.
LEMMA ImportedMoves ==
    ASSUME NEW X, NEW lines \in Seq(X), NEW s \in Seq(X), NEW at, Moves(s, at, lines),
           Ins!Imported(lines)
    PROVE  Ins!Imported(s)
<1>1. DOMAIN s = 1..Len(s) /\ DOMAIN lines = 1..Len(lines)
  OBVIOUS
<1>2. PICK i \in 1..Len(lines) : "analytics" \in lines[i]
  BY <1>1 DEF Ins!Imported
<1>3. at[i] \in 1..Len(s) /\ s[at[i]] = lines[i]
  BY DEF Moves
<1> QED  BY <1>1, <1>2, <1>3 DEF Ins!Imported

\* What is inserted moves the lines that were there.
LEMMA PlacedMoves ==
    ASSUME NEW X, NEW lines \in Seq(X), NEW edits, NEW s, NEW at,
           Placed(s, Len(lines), at, X, lines, edits), \A e \in edits : e.line \in Plain
    PROVE  Moves(s, at, lines)
<1>0. Len(lines) \in Nat
  OBVIOUS
<1>1. \A i \in 1..Len(lines) : at[i] \in 1..Len(s) /\ s[at[i]] = lines[i]
  BY DEF Placed
<1>2. \A i, j \in 1..Len(lines) : i < j => at[i] < at[j]
  <2>1. \A i, j \in 0..(Len(lines) + 1) : i < j => at[i] < at[j]
    BY DEF Placed
  <2>2. \A i \in 1..Len(lines) : i \in 0..(Len(lines) + 1)
    BY <1>0
  <2> QED  BY <2>1, <2>2
<1>3. \A k \in 1..Len(s) : s[k] \notin Plain => \E i \in 1..Len(lines) : k = at[i]
  <2> SUFFICES ASSUME NEW k \in 1..Len(s), s[k] \notin Plain
               PROVE  \E i \in 1..Len(lines) : k = at[i]
    OBVIOUS
  <2>1. PICK i \in 0..Len(lines) :
           \/ i > 0 /\ k = at[i]
           \/ at[i] < k /\ k < at[i + 1] /\ s[k] \in New(i, lines, edits)
    BY DEF Placed
  <2>2. s[k] \notin New(i, lines, edits)
    BY DEF New, Here
  <2> QED  BY <1>0, <2>1, <2>2
<1> QED  BY <1>1, <1>2, <1>3 DEF Moves

\* What is inserted after line x of a function, or the line after that, goes there.
LEMMA EmitsThere ==
    ASSUME NEW X, NEW lines \in Seq(X), NEW edits, NEW s \in Seq(X), NEW at, NEW f,
           Placed(s, Len(lines), at, X, lines, edits), Moves(s, at, lines),
           NEW x \in 1..Len(lines),
           NEW i \in 0..Len(lines), i \in x..(x + 1), Ins!Imported(Repo[f]) => i = x,
           NEW k \in 1..Len(s), at[i] < k, k < at[i + 1]
    PROVE  Ins!PlacedFor(f, s, at[x], k)
<1>0. Len(lines) \in Nat /\ Len(s) \in Nat /\ i \in 1..Len(lines)
  OBVIOUS
<1>1. at[x] \in 1..Len(s) /\ at[i] \in 1..Len(s) /\ at[x] <= at[i]
  <2>1. x <= i
    OBVIOUS
  <2> QED  BY <1>0, <2>1, OrderMoves DEF Moves
<1>2. \A q \in Ins!Between(s, at[x], k) : q = at[i] /\ i # x
  <2> TAKE q \in Ins!Between(s, at[x], k)
  <2>1. q \in 1..Len(s) /\ at[x] < q /\ q < k /\ s[q] \notin Plain
    BY <1>0, <1>1 DEF Ins!Between, Plain
  <2>2. PICK m \in 1..Len(lines) : q = at[m]
    BY <2>1 DEF Moves
  <2>3. x < m
    BY <2>1, <2>2, OrderMoves
  <2>4. m <= i
    <3> SUFFICES ASSUME i < m PROVE FALSE
      BY <1>0
    <3>1. i + 1 \in 1..Len(lines) /\ i + 1 <= m
      BY <1>0
    <3> DEFINE n == i + 1
    <3>2. n \in 1..Len(lines) /\ n <= m
      BY <3>1
    <3> HIDE DEF n
    <3>3. at[n] <= at[m]
      BY <3>2, OrderMoves
    <3>4. at[n] \in 1..Len(s) /\ at[m] \in 1..Len(s) /\ k < at[n]
      BY <3>2 DEF Moves, n
    <3> QED  BY <2>1, <2>2, <3>3, <3>4
  <2>5. m = i /\ i # x
    BY <1>0, <2>3, <2>4
  <2> QED  BY <2>2, <2>5
<1>3. at[x] < k
  BY <1>0, <1>1
<1> QED  BY <1>2, <1>3 DEF Ins!PlacedFor

\* The edit puts its line where function x's emission goes.
Aims(e, x, f, lines) ==
    /\ Task(lines, x) /\ Ins!AtMost(e.after, Len(lines)) \in x..(x + 1)
    /\ Ins!Imported(Repo[f]) => Ins!AtMost(e.after, Len(lines)) = x
Fits(f, lines, edits) ==
    /\ IsFiniteSet(edits)
    /\ \A e \in edits : e.line \in Plain
    /\ \A e \in edits : e.line = {"emission"} => \E x \in 1..Len(lines) : Aims(e, x, f, lines)

\* An insertion keeps a file tidy, and wired if it was; one that has an emission for every
\* function that is to be wired makes it so.
LEMMA InsertKeeps ==
    ASSUME NEW f, NEW lines, Tidy(f, lines), NEW edits, Fits(f, lines, edits)
    PROVE  /\ Tidy(f, Ins!InsertInto(lines, edits))
           /\ Emitting(f, lines) => Emitting(f, Ins!InsertInto(lines, edits))
           /\ (\A x \in 1..Len(lines) : Task(lines, x) =>
                  \E e \in edits : e.line = {"emission"} /\ Aims(e, x, f, lines))
              => Emitting(f, Ins!InsertInto(lines, edits))
<1> DEFINE X == SUBSET Ins!Patterns
           s == Ins!InsertInto(lines, edits)
<1>1. lines \in Seq(X) /\ Owned(f, lines) /\ (Ins!Imported(Repo[f]) => Ins!Imported(lines))
  BY DEF Tidy
<1>2. \A e \in edits : e.line \in X
  BY DEF Fits, Plain, Ins!Inserted, Ins!Patterns
<1> HIDE DEF X, s
<1>3. PICK at \in [0..(Len(lines) + 1) -> Nat] : Placed(s, Len(lines), at, X, lines, edits)
  BY <1>1, <1>2, InsertRight DEF Fits, s
<1>4. Moves(s, at, lines)
  BY <1>1, <1>3, PlacedMoves DEF Fits
<1>5. s \in Seq(X) /\ Len(s) \in Nat /\ Len(lines) \in Nat
  BY <1>1, <1>3 DEF Placed
<1>6. Ins!Imported(Repo[f]) => Ins!Imported(s)
  BY <1>1, <1>4, <1>5, ImportedMoves
<1>7. ASSUME NEW e \in edits, NEW x \in 1..Len(lines),
             Aims(e, x, f, lines), NEW i \in 0..Len(lines),
             Ins!AtMost(e.after, Len(lines)) = i, NEW k \in 1..Len(s),
             at[i] < k, k < at[i + 1]
      PROVE  Ins!PlacedFor(f, s, at[x], k)
  <2>1. i \in x..(x + 1) /\ (Ins!Imported(Repo[f]) => i = x)
    BY <1>7 DEF Aims
  <2> QED  BY <1>1, <1>3, <1>4, <1>5, <1>7, <2>1, EmitsThere
<1>8. Owned(f, s)
  <2> SUFFICES ASSUME NEW k \in 1..Len(s), "emission" \in s[k]
               PROVE  s[k] = {"emission"}
                      /\ \E i \in 1..Len(s) : Task(s, i) /\ Ins!PlacedFor(f, s, i, k)
    BY DEF Owned
  <2>1. PICK i \in 0..Len(lines) :
           \/ i > 0 /\ k = at[i]
           \/ at[i] < k /\ k < at[i + 1] /\ s[k] \in New(i, lines, edits)
    BY <1>3 DEF Placed
  <2>2. CASE i > 0 /\ k = at[i]
    <3>1. i \in 1..Len(lines) /\ s[k] = lines[i]
      BY <1>4, <1>5, <2>2 DEF Moves
    <3>2. lines[i] = {"emission"}
      BY <1>1, <3>1 DEF Owned
    <3>3. PICK x \in 1..Len(lines) : Task(lines, x) /\ Ins!PlacedFor(f, lines, x, i)
      BY <1>1, <3>1 DEF Owned
    <3>4. Ins!PlacedFor(f, s, at[x], k)
      BY <1>1, <1>4, <1>5, <2>2, <3>1, <3>3, PlaceMoves
    <3>5. Task(s, at[x]) /\ at[x] \in 1..Len(s)
      BY <1>1, <1>4, <1>5, <3>3, TaskMoves DEF Moves
    <3> QED  BY <3>1, <3>2, <3>4, <3>5
  <2>3. CASE at[i] < k /\ k < at[i + 1] /\ s[k] \in New(i, lines, edits)
    <3>1. PICK e \in edits : e.line = s[k] /\ Ins!AtMost(e.after, Len(lines)) = i
      BY <2>3 DEF New, Here
    <3>2. s[k] = {"emission"}
      BY <3>1, PlainIsPlain DEF Fits
    <3>3. PICK x \in 1..Len(lines) : Aims(e, x, f, lines)
      BY <3>1, <3>2 DEF Fits
    <3>4. Ins!PlacedFor(f, s, at[x], k)
      BY <1>7, <2>3, <3>1, <3>3
    <3>5. Task(s, at[x]) /\ at[x] \in 1..Len(s)
      BY <1>1, <1>4, <1>5, <3>3, TaskMoves DEF Moves, Aims
    <3> QED  BY <3>2, <3>4, <3>5
  <2> QED  BY <2>1, <2>2, <2>3
<1>9. Tidy(f, s)
  BY <1>5, <1>6, <1>8 DEF Tidy, X
<1>10. Emitting(f, lines) => Emitting(f, s)
  BY <1>1, <1>4, <1>5, EmittingMoves
<1>11. ASSUME \A x \in 1..Len(lines) : Task(lines, x) =>
                  \E e \in edits : e.line = {"emission"} /\ Aims(e, x, f, lines)
       PROVE  Emitting(f, s)
  <2> SUFFICES ASSUME NEW k \in 1..Len(s), Task(s, k)
               PROVE  \E j \in 1..Len(s) : "emission" \in s[j] /\ Ins!PlacedFor(f, s, k, j)
    BY DEF Emitting
  <2>1. PICK x \in 1..Len(lines) : k = at[x]
    BY <1>1, <1>4, <1>5, TaskMoves DEF Task
  <2>2. Task(lines, x)
    BY <1>1, <1>4, <1>5, <2>1, TaskMoves
  <2>3. PICK e \in edits : e.line = {"emission"} /\ Aims(e, x, f, lines)
    BY <1>11, <2>2
  <2> DEFINE i == Ins!AtMost(e.after, Len(lines))
  <2>4. i \in 0..Len(lines)
    BY <1>5, <2>3 DEF Ins!AtMost, Aims
  <2>5. {"emission"} \in New(i, lines, edits)
    BY <2>3 DEF New, Here
  <2>6. Ins!AtMost(e.after, Len(lines)) = i
    OBVIOUS
  <2> HIDE DEF i
  <2>7. PICK j \in 1..Len(s) : at[i] < j /\ j < at[i + 1] /\ s[j] = {"emission"}
    BY <1>3, <2>4, <2>5 DEF Placed
  <2>8. Ins!PlacedFor(f, s, at[x], j)
    BY <1>7, <2>3, <2>4, <2>6, <2>7
  <2> QED  BY <2>1, <2>7, <2>8
<1> QED  BY <1>9, <1>10, <1>11 DEF s

LEMMA ImageFinite ==
    ASSUME NEW N \in Nat, NEW f
    PROVE  IsFiniteSet({f[i] : i \in 1..N})
<1> DEFINE S == {f[i] : i \in 1..N}
           g == [i \in 1..N |-> f[i]]
<1>1. g \in Surjection(1..N, S)
  BY DEF Surjection
<1>2. IsFiniteSet(1..N)
  BY FS_Interval
<1> HIDE DEF S, g
<1>3. IsFiniteSet(S)
  BY <1>1, <1>2, FS_Surjection
<1> QED  BY <1>3 DEF S

TidyFiles(fs) ==
    fs \in [DOMAIN Repo -> Seq(SUBSET Ins!Patterns)] /\ \A f \in DOMAIN Repo : Tidy(f, fs[f])
EmittingFiles(fs) == \A f \in DOMAIN Repo : Emitting(f, fs[f])

\* What the scan finds of a file's tasks.
TaskSeams(fs) ==
    {s \in Ins!Scan(fs) :
        s.kind = "task_start" /\ {"function", "params"} \subseteq fs[s.file][s.line]}
LEMMA ScanRight ==
    ASSUME NEW fs
    PROVE  /\ \A s \in TaskSeams(fs) :
                 s.file \in DOMAIN fs /\ s.line \in DOMAIN fs[s.file] /\ Task(fs[s.file], s.line)
           /\ \A f \in DOMAIN fs : \A i \in DOMAIN fs[f] : Task(fs[f], i) =>
                 \E s \in TaskSeams(fs) : s.file = f /\ s.line = i
<1>0. \A L, i : Ins!SeamKind(L, i) = "task_start" <=> Ins!IsEntry(L, i)
  <2> TAKE L, i
  <2>1. Ins!IsEntry(L, i) => ~("llm" \in L[i])
    BY DEF Ins!IsEntry
  <2>2. CASE Ins!IsEntry(L, i)
    BY <2>1, <2>2 DEF Ins!SeamKind
  <2>3. CASE ~Ins!IsEntry(L, i)
    BY <2>3 DEF Ins!SeamKind
  <2> QED  BY <2>2, <2>3
<1>1. ASSUME NEW s \in TaskSeams(fs)
      PROVE  s.file \in DOMAIN fs /\ s.line \in DOMAIN fs[s.file] /\ Task(fs[s.file], s.line)
  <2>1. /\ s \in Ins!Scan(fs) /\ s.kind = "task_start"
        /\ {"function", "params"} \subseteq fs[s.file][s.line]
    BY DEF TaskSeams
  <2>2. PICK f \in DOMAIN fs : \E i \in DOMAIN fs[f] :
           s = [kind |-> Ins!SeamKind(fs[f], i), file |-> f, line |-> i]
    BY <2>1 DEF Ins!Scan
  <2>3. PICK i \in DOMAIN fs[f] :
           s = [kind |-> Ins!SeamKind(fs[f], i), file |-> f, line |-> i]
    BY <2>2
  <2>4. s.file = f /\ s.line = i /\ s.kind = Ins!SeamKind(fs[f], i)
    BY <2>3
  <2> QED  BY <1>0, <2>1, <2>4 DEF Task
<1>2. ASSUME NEW f \in DOMAIN fs, NEW i \in DOMAIN fs[f], Task(fs[f], i)
      PROVE  \E s \in TaskSeams(fs) : s.file = f /\ s.line = i
  <2> DEFINE s == [kind |-> Ins!SeamKind(fs[f], i), file |-> f, line |-> i]
  <2>1. Ins!SeamKind(fs[f], i) = "task_start" /\ {"function", "params"} \subseteq fs[f][i]
    BY <1>0, <1>2 DEF Task
  <2>2. s.file = f /\ s.line = i /\ s.kind = "task_start"
    BY <2>1
  <2>3. s \in {[kind |-> Ins!SeamKind(fs[f], l), file |-> f, line |-> l] : l \in DOMAIN fs[f]}
    OBVIOUS
  <2> HIDE DEF s
  <2>4. s \in Ins!Scan(fs)
    BY <2>2, <2>3 DEF Ins!Scan
  <2>5. s \in TaskSeams(fs)
    BY <2>1, <2>2, <2>4 DEF TaskSeams
  <2> QED  BY <2>2, <2>5
<1> QED  BY <1>1, <1>2

\* The implementer's own edits of a file, from a scan of it as it is.
OfFile(edits, f) == {e \in edits : e.file = f}
ImportEdit(fs, f, i) ==
    [file |-> f, after |-> Ins!LastImport(fs[f]), line |-> {"import", "analytics"}, for |-> i]
EmitEdit(fs, f, i) ==
    [file |-> f, line |-> {"emission"}, for |-> i,
     after |-> i + IF Ins!Imported(fs[f]) THEN 0 ELSE 1]
LEMMA WiringEdits ==
    ASSUME NEW fs
    PROVE  /\ \A e \in Ins!Wiring(fs, Ins!Scan(fs)) : \E s \in TaskSeams(fs) :
                 e = ImportEdit(fs, s.file, s.line) \/ e = EmitEdit(fs, s.file, s.line)
           /\ \A s \in TaskSeams(fs) :
                 EmitEdit(fs, s.file, s.line) \in Ins!Wiring(fs, Ins!Scan(fs))
<1> DEFINE P == TaskSeams(fs)
           A == {ImportEdit(fs, s.file, s.line) : s \in {e \in P : ~Ins!Imported(fs[e.file])}}
           B == {EmitEdit(fs, s.file, s.line) : s \in P}
<1>1. Ins!Wiring(fs, Ins!Scan(fs)) = A \cup B
  BY DEF Ins!Wiring, Ins!ToWire, TaskSeams, ImportEdit, EmitEdit
<1>2. \A e \in A : \E s \in P : e = ImportEdit(fs, s.file, s.line)
  OBVIOUS
<1>3. \A e \in B : \E s \in P : e = EmitEdit(fs, s.file, s.line)
  OBVIOUS
<1>4. \A s \in P : EmitEdit(fs, s.file, s.line) \in B
  OBVIOUS
<1> HIDE DEF A, B
<1> QED  BY <1>1, <1>2, <1>3, <1>4

LEMMA WiringFits ==
    ASSUME NEW fs, TidyFiles(fs), NEW f \in DOMAIN Repo
    PROVE  LET edits == OfFile(Ins!Wiring(fs, Ins!Scan(fs)), f)
           IN  /\ Fits(f, fs[f], edits)
               /\ \A x \in 1..Len(fs[f]) : Task(fs[f], x) =>
                     \E e \in edits : e.line = {"emission"} /\ Aims(e, x, f, fs[f])
<1> DEFINE edits == OfFile(Ins!Wiring(fs, Ins!Scan(fs)), f)
           L == fs[f]
           N == Len(fs[f])
<1>1. L \in Seq(SUBSET Ins!Patterns) /\ N \in Nat /\ DOMAIN L = 1..N /\ DOMAIN fs = DOMAIN Repo
  BY DEF TidyFiles
<1>0. Ins!Imported(Repo[f]) => Ins!Imported(fs[f])
  BY DEF TidyFiles, Tidy
<1>2. \A g, i : /\ ImportEdit(fs, g, i).file = g /\ ImportEdit(fs, g, i).line = {"import", "analytics"}
               /\ EmitEdit(fs, g, i).file = g /\ EmitEdit(fs, g, i).line = {"emission"}
               /\ EmitEdit(fs, g, i).after = i + IF Ins!Imported(fs[g]) THEN 0 ELSE 1
  BY DEF ImportEdit, EmitEdit
<1>3. \A e \in edits : \E i \in 1..N :
         Task(L, i) /\ (e = ImportEdit(fs, f, i) \/ e = EmitEdit(fs, f, i))
  <2> TAKE e \in edits
  <2>1. e.file = f /\ e \in Ins!Wiring(fs, Ins!Scan(fs))
    BY DEF OfFile
  <2>2. PICK s \in TaskSeams(fs) :
           e = ImportEdit(fs, s.file, s.line) \/ e = EmitEdit(fs, s.file, s.line)
    BY <2>1, WiringEdits
  <2>3. s.file = f
    BY <1>2, <2>1, <2>2
  <2>4. s.line \in 1..N /\ Task(L, s.line)
    BY <1>1, <2>3, ScanRight
  <2> QED  BY <2>2, <2>3, <2>4
<1>4. IsFiniteSet(edits)
  <2> DEFINE A == {ImportEdit(fs, f, i) : i \in 1..N}
             B == {EmitEdit(fs, f, i) : i \in 1..N}
             a == [i \in 1..N |-> ImportEdit(fs, f, i)]
             b == [i \in 1..N |-> EmitEdit(fs, f, i)]
  <2>1. A = {a[i] : i \in 1..N} /\ B = {b[i] : i \in 1..N}
    OBVIOUS
  <2> HIDE DEF a, b
  <2>2. IsFiniteSet(A) /\ IsFiniteSet(B)
    <3> HIDE DEF A, B
    <3>1. IsFiniteSet({a[i] : i \in 1..N}) /\ IsFiniteSet({b[i] : i \in 1..N})
      BY <1>1, ImageFinite
    <3> QED  BY <2>1, <3>1
  <2>3. edits \subseteq A \cup B
    BY <1>3
  <2> HIDE DEF A, B, edits
  <2> QED  BY <2>2, <2>3, FS_Union, FS_Subset
<1>5. \A x \in 1..N : Task(L, x) => Aims(EmitEdit(fs, f, x), x, f, L)
  <2> SUFFICES ASSUME NEW x \in 1..N, Task(L, x) PROVE Aims(EmitEdit(fs, f, x), x, f, L)
    OBVIOUS
  <2>1. EmitEdit(fs, f, x).after \in {x, x + 1}
    BY <1>2
  <2>2. Ins!AtMost(EmitEdit(fs, f, x).after, N) \in x..(x + 1)
    BY <1>1, <2>1 DEF Ins!AtMost
  <2>3. Ins!Imported(Repo[f]) => Ins!AtMost(EmitEdit(fs, f, x).after, N) = x
    <3>1. Ins!Imported(Repo[f]) => EmitEdit(fs, f, x).after = x
      BY <1>0, <1>2
    <3>2. x <= N
      BY <1>1
    <3> QED  BY <3>1, <3>2 DEF Ins!AtMost
  <2> QED  BY <2>2, <2>3 DEF Aims
<1>6. \A e \in edits : e.line \in Plain
  BY <1>2, <1>3 DEF Plain, Ins!Inserted
<1>7. \A e \in edits : e.line = {"emission"} => \E x \in 1..Len(L) : Aims(e, x, f, L)
  <2> SUFFICES ASSUME NEW e \in edits, e.line = {"emission"}
               PROVE  \E x \in 1..N : Aims(e, x, f, L)
    OBVIOUS
  <2>1. PICK i \in 1..N : Task(L, i) /\ (e = ImportEdit(fs, f, i) \/ e = EmitEdit(fs, f, i))
    BY <1>3
  <2>2. e = EmitEdit(fs, f, i)
    <3>1. {"import", "analytics"} # {"emission"}
      OBVIOUS
    <3> QED  BY <1>2, <2>1, <3>1
  <2> QED  BY <1>5, <2>1, <2>2
<1>8. Fits(f, L, edits)
  BY <1>4, <1>6, <1>7 DEF Fits
<1>9. ASSUME NEW x \in 1..N, Task(L, x)
      PROVE  \E e \in edits : e.line = {"emission"} /\ Aims(e, x, f, L)
  <2>1. PICK s \in TaskSeams(fs) : s.file = f /\ s.line = x
    BY <1>1, <1>9, ScanRight
  <2>2. EmitEdit(fs, f, x) \in Ins!Wiring(fs, Ins!Scan(fs))
    BY <2>1, WiringEdits
  <2>3. EmitEdit(fs, f, x) \in edits
    BY <1>2, <2>2 DEF OfFile
  <2> QED  BY <1>2, <1>5, <1>9, <2>3
<1> QED  BY <1>8, <1>9

\* What a model proposes is plain.
LEMMA ProposalsFit ==
    ASSUME NEW proposed, IsFiniteSet(proposed), NEW f, NEW lines
    PROVE  Fits(f, lines, OfFile(Ins!Accepted(proposed), f))
<1> DEFINE T == {q \in proposed : q.file \in DOMAIN ins_files}
           edit == [p \in T |-> [file |-> p.file, after |-> p.after, line |-> {"proposed"}, for |-> 0]]
           S == {edit[p] : p \in T}
<1>1. Ins!Accepted(proposed) = S
  BY DEF Ins!Accepted
<1>2. \A e \in S : e.line = {"proposed"}
  OBVIOUS
<1>3. IsFiniteSet(T)
  BY FS_Subset
<1>4. IsFiniteSet(S)
  <2>1. edit \in Surjection(T, S)
    BY DEF Surjection
  <2> HIDE DEF T, S, edit
  <2> QED  BY <1>3, <2>1, FS_Surjection
<1> HIDE DEF S
<1>5. OfFile(S, f) \subseteq S
  BY DEF OfFile
<1>6. IsFiniteSet(OfFile(S, f)) /\ \A e \in OfFile(S, f) : e.line = {"proposed"}
  BY <1>2, <1>4, <1>5, FS_Subset
<1>7. {"proposed"} # {"emission"} /\ {"proposed"} \in Plain
  BY DEF Plain, Ins!Inserted
<1> QED  BY <1>1, <1>6, <1>7 DEF Fits

\* What an edit of the tree keeps, whichever files were written before one failed.
LEMMA EditsKeepFiles ==
    ASSUME NEW fs, TidyFiles(fs), NEW edits, NEW written,
           \A f \in DOMAIN Repo : Fits(f, fs[f], OfFile(edits, f))
    PROVE  /\ TidyFiles(Ins!EditFiles(fs, edits, written))
           /\ EmittingFiles(fs) => EmittingFiles(Ins!EditFiles(fs, edits, written))
<1> DEFINE new == Ins!EditFiles(fs, edits, written)
<1>1. DOMAIN fs = DOMAIN Repo
  BY DEF TidyFiles
<1>2. new = [f \in DOMAIN Repo |-> IF f \in written
                THEN Ins!InsertInto(fs[f], OfFile(edits, f)) ELSE fs[f]]
  BY <1>1 DEF Ins!EditFiles, OfFile
<1>3. ASSUME NEW f \in DOMAIN Repo
      PROVE  /\ new[f] \in Seq(SUBSET Ins!Patterns) /\ Tidy(f, new[f])
             /\ Emitting(f, fs[f]) => Emitting(f, new[f])
  <2>1. Tidy(f, fs[f]) /\ fs[f] \in Seq(SUBSET Ins!Patterns)
    BY DEF TidyFiles
  <2>2. /\ Tidy(f, Ins!InsertInto(fs[f], OfFile(edits, f)))
        /\ Emitting(f, fs[f]) => Emitting(f, Ins!InsertInto(fs[f], OfFile(edits, f)))
    BY <2>1, InsertKeeps
  <2>3. Tidy(f, new[f]) /\ (Emitting(f, fs[f]) => Emitting(f, new[f]))
    <3>1. CASE f \in written
      <4>1. new[f] = Ins!InsertInto(fs[f], OfFile(edits, f))
        BY <1>2, <3>1
      <4> QED  BY <2>2, <4>1
    <3>2. CASE f \notin written
      <4>1. new[f] = fs[f]
        BY <1>2, <3>2
      <4> QED  BY <2>1, <4>1
    <3> QED  BY <3>1, <3>2
  <2> QED  BY <2>3 DEF Tidy
<1> HIDE DEF new
<1>4. new \in [DOMAIN Repo -> Seq(SUBSET Ins!Patterns)]
  <2>1. new = [f \in DOMAIN Repo |-> new[f]]
    BY <1>2
  <2> QED  BY <1>3, <2>1
<1>5. TidyFiles(new)
  BY <1>3, <1>4 DEF TidyFiles
<1>6. EmittingFiles(fs) => EmittingFiles(new)
  BY <1>3 DEF EmittingFiles
<1> QED  BY <1>5, <1>6 DEF new

\* The implementer wires all of them.
LEMMA WiringWires ==
    ASSUME NEW fs, TidyFiles(fs)
    PROVE  LET edits == Ins!Wiring(fs, Ins!Scan(fs))
           IN  /\ \A written : TidyFiles(Ins!EditFiles(fs, edits, written))
               /\ EmittingFiles(Ins!EditFiles(fs, edits, Ins!EditedFiles(edits)))
<1> DEFINE edits == Ins!Wiring(fs, Ins!Scan(fs))
           new == Ins!EditFiles(fs, edits, Ins!EditedFiles(edits))
<1>1. ASSUME NEW f \in DOMAIN Repo
      PROVE  /\ Fits(f, fs[f], OfFile(edits, f))
             /\ \A x \in 1..Len(fs[f]) : Task(fs[f], x) =>
                   \E e \in OfFile(edits, f) : e.line = {"emission"} /\ Aims(e, x, f, fs[f])
  BY WiringFits
<1> HIDE DEF edits
<1>2. \A written : TidyFiles(Ins!EditFiles(fs, edits, written))
  BY <1>1, EditsKeepFiles
<1>3. ASSUME NEW f \in DOMAIN Repo
      PROVE  Emitting(f, new[f])
  <2>1. Tidy(f, fs[f]) /\ DOMAIN fs = DOMAIN Repo
    BY DEF TidyFiles
  <2>2. Emitting(f, Ins!InsertInto(fs[f], OfFile(edits, f)))
    BY <1>1, <2>1, InsertKeeps
  <2>3. CASE f \in Ins!EditedFiles(edits)
    <3>1. new[f] = Ins!InsertInto(fs[f], OfFile(edits, f))
      BY <2>1, <2>3 DEF Ins!EditFiles, OfFile
    <3> QED  BY <2>2, <3>1
  <2>4. CASE f \notin Ins!EditedFiles(edits)
    <3>1. new[f] = fs[f]
      BY <2>1, <2>4 DEF Ins!EditFiles
    <3>2. OfFile(edits, f) = {}
      BY <2>4 DEF OfFile, Ins!EditedFiles
    <3>3. \A x \in 1..Len(fs[f]) : ~Task(fs[f], x)
      BY <1>1, <3>2
    <3> QED  BY <3>1, <3>3 DEF Emitting
  <2> QED  BY <2>3, <2>4
<1>4. EmittingFiles(new)
  BY <1>3 DEF EmittingFiles
<1> QED  BY <1>2, <1>4 DEF edits

LEMMA TidyRepo ==
    ASSUME Ins!KnownRepo
    PROVE  /\ TidyFiles(Repo)
           /\ \A f \in DOMAIN Repo : TidyFiles([Repo EXCEPT ![f] = <<{}>> \o @])
<1>1. Repo \in [DOMAIN Repo -> Seq(SUBSET Ins!Patterns)]
  BY DEF Ins!KnownRepo
<1>2. ASSUME NEW f \in DOMAIN Repo
      PROVE  Tidy(f, Repo[f])
  <2>1. Repo[f] \in Seq(SUBSET Ins!Patterns) /\ DOMAIN Repo[f] = 1..Len(Repo[f])
    BY <1>1
  <2> QED  BY <2>1 DEF Tidy, Owned, Ins!KnownRepo
<1>3. ASSUME NEW f \in DOMAIN Repo
      PROVE  Tidy(f, <<{}>> \o Repo[f])
  <2> DEFINE L == Repo[f]
             M == <<{}>> \o Repo[f]
  <2>1. L \in Seq(SUBSET Ins!Patterns) /\ Len(L) \in Nat /\ DOMAIN L = 1..Len(L)
    BY <1>1
  <2>2. \A i \in 1..Len(L) : "emission" \notin L[i]
    BY <2>1 DEF Ins!KnownRepo
  <2>3. /\ M \in Seq(SUBSET Ins!Patterns) /\ Len(M) = Len(L) + 1 /\ M[1] = {}
        /\ \A i \in 2..(Len(L) + 1) : M[i] = L[i - 1]
    BY <2>1
  <2> HIDE DEF L, M
  <2>4. \A i \in 1..Len(M) : "emission" \notin M[i]
    <3> TAKE i \in 1..Len(M)
    <3>1. CASE i = 1
      BY <2>3, <3>1
    <3>2. CASE i # 1
      <4>1. i \in 2..(Len(L) + 1) /\ i - 1 \in 1..Len(L)
        BY <2>1, <2>3, <3>2
      <4> QED  BY <2>2, <2>3, <4>1
    <3> QED  BY <3>1, <3>2
  <2>5. Ins!Imported(L) => Ins!Imported(M)
    <3> SUFFICES ASSUME Ins!Imported(L) PROVE Ins!Imported(M)
      OBVIOUS
    <3>1. PICK i \in 1..Len(L) : "analytics" \in L[i]
      BY <2>1 DEF Ins!Imported
    <3>2. i + 1 \in 2..(Len(L) + 1) /\ (i + 1) - 1 = i /\ DOMAIN M = 1..Len(M)
      BY <2>1, <2>3
    <3>3. i + 1 \in DOMAIN M /\ M[i + 1] = L[i]
      BY <2>1, <2>3, <3>2
    <3> QED  BY <3>1, <3>3 DEF Ins!Imported
  <2>6. Ins!Imported(Repo[f]) => Ins!Imported(M)
    BY <2>5 DEF L
  <2> QED  BY <2>3, <2>4, <2>6 DEF Tidy, Owned, M
<1>4. TidyFiles(Repo)
  BY <1>1, <1>2 DEF TidyFiles
<1>5. ASSUME NEW f \in DOMAIN Repo
      PROVE  TidyFiles([Repo EXCEPT ![f] = <<{}>> \o @])
  <2> DEFINE fs == [Repo EXCEPT ![f] = <<{}>> \o @]
  <2>1. \A g \in DOMAIN Repo : fs[g] = IF g = f THEN <<{}>> \o Repo[f] ELSE Repo[g]
    BY <1>1
  <2>2. \A g \in DOMAIN Repo : Tidy(g, fs[g])
    BY <1>2, <1>3, <2>1
  <2>3. fs = [g \in DOMAIN Repo |-> fs[g]]
    BY <1>1
  <2> HIDE DEF fs
  <2>4. fs \in [DOMAIN Repo -> Seq(SUBSET Ins!Patterns)]
    BY <2>2, <2>3 DEF Tidy
  <2>5. TidyFiles(fs)
    BY <2>2, <2>4 DEF TidyFiles
  <2> QED  BY <2>5 DEF fs
<1> QED  BY <1>4, <1>5

\* An emission that is where it goes is in the body, if that has the room.
LEMMA RoomEmits ==
    ASSUME NEW f, NEW L, Tidy(f, L), NEW i \in 1..Len(L), NEW j \in 1..Len(L),
           "emission" \in L[j], Ins!PlacedFor(f, L, i, j), Ins!HasRoom(f, L, i)
    PROVE  j \in Ins!EmitsFor(L, i)
<1>1. Len(L) \in Nat /\ i < j /\ L[j] = {"emission"}
  BY DEF Tidy, Owned, Ins!PlacedFor
<1>2. ASSUME NEW k \in (i + 1)..(j - 1)
      PROVE  "function" \notin L[k] /\ L[k] \cap {"leaves", "outside"} = {}
  <2>1. CASE L[k] \in Plain
    BY <2>1, PlainIsPlain
  <2>2. CASE L[k] \notin Plain
    <3>1. k \in Ins!Between(L, i, j)
      BY <2>2 DEF Ins!Between, Plain
    <3>2. ~Ins!Imported(Repo[f])
      BY <3>1 DEF Ins!PlacedFor
    <3>3. Ins!Between(L, i, k) = {}
      <4> SUFFICES ASSUME NEW m \in Ins!Between(L, i, k) PROVE FALSE
        OBVIOUS
      <4>1. m \in (i + 1)..(k - 1) /\ L[m] \notin Ins!Inserted
        BY DEF Ins!Between
      <4>2. m \in (i + 1)..(j - 1) /\ m # k
        BY <1>1, <4>1
      <4>3. m \in Ins!Between(L, i, j)
        BY <4>1, <4>2 DEF Ins!Between
      <4> QED  BY <3>1, <4>2, <4>3 DEF Ins!PlacedFor
    <3>4. k \in (i + 1)..Len(L)
      BY <1>1
    <3>5. L[k] \cap {"function", "leaves", "outside"} = {}
      BY <3>2, <3>3, <3>4 DEF Ins!HasRoom
    <3> QED  BY <3>5
  <2> QED  BY <2>1, <2>2
<1>3. L[i] \cap {"leaves", "outside"} = {}
  BY DEF Ins!HasRoom
<1>4. \A k \in (i + 1)..j : "function" \notin L[k]
  <2> TAKE k \in (i + 1)..j
  <2>1. k = j \/ k \in (i + 1)..(j - 1)
    BY <1>1
  <2>2. "function" \notin L[j]
    BY <1>1
  <2> QED  BY <1>2, <2>1, <2>2
<1>5. \A k \in i..(j - 1) : L[k] \cap {"leaves", "outside"} = {}
  <2> TAKE k \in i..(j - 1)
  <2>1. k = i \/ k \in (i + 1)..(j - 1)
    BY <1>1
  <2> QED  BY <1>2, <1>3, <2>1
<1>6. j \in i..Len(L)
  BY <1>1
<1> QED  BY <1>4, <1>5, <1>6 DEF Ins!EmitsFor

\* In a file that compiles no body has two.
LEMMA OneEmits ==
    ASSUME NEW f, NEW L, Tidy(f, L), NEW i \in 1..Len(L), NEW a \in Ins!EmitsFor(L, i),
           NEW b \in Ins!EmitsFor(L, i), a < b,
           \E k \in a..b : L[k] \cap {"function", "outside"} # {}
    PROVE  FALSE
<1>1. /\ Len(L) \in Nat /\ a \in i..Len(L) /\ b \in i..Len(L)
      /\ "emission" \in L[a] /\ "emission" \in L[b]
  BY DEF Tidy, Ins!EmitsFor
<1>2. /\ \A k \in (i + 1)..b : "function" \notin L[k]
      /\ \A k \in i..(b - 1) : L[k] \cap {"leaves", "outside"} = {}
  BY DEF Ins!EmitsFor
<1>3. a \in 1..Len(L) /\ b \in 1..Len(L)
  BY <1>1
<1>4. L[a] = {"emission"} /\ L[b] = {"emission"}
  BY <1>1, <1>3 DEF Tidy, Owned
<1>5. PICK k \in a..b : L[k] \cap {"function", "outside"} # {}
  OBVIOUS
<1>6. k # a /\ k # b
  BY <1>4, <1>5
<1>7. k \in (i + 1)..b /\ k \in i..(b - 1)
  BY <1>1, <1>6
<1>8. "function" \notin L[k] /\ "outside" \notin L[k]
  BY <1>2, <1>7
<1> QED  BY <1>5, <1>8

\* A tree that is tidy, wired and compiles is wired once.
LEMMA WiredWhenCompiled ==
    ASSUME NEW fs, TidyFiles(fs), EmittingFiles(fs), "typecheck" \in Scripts => Ins!Compiles(fs)
    PROVE  Ins!WiredOnce(fs)
<1>0. Ins!ToWire(fs, Ins!Scan(fs)) = TaskSeams(fs)
  BY DEF Ins!ToWire, TaskSeams
<1>1. ASSUME NEW s \in TaskSeams(fs)
      PROVE  /\ s.file \in DOMAIN Repo /\ s.file \in DOMAIN fs
             /\ DOMAIN fs[s.file] = 1..Len(fs[s.file])
             /\ s.line \in 1..Len(fs[s.file]) /\ Task(fs[s.file], s.line)
             /\ Tidy(s.file, fs[s.file]) /\ Emitting(s.file, fs[s.file])
  <2>1. s.file \in DOMAIN fs /\ s.line \in DOMAIN fs[s.file] /\ Task(fs[s.file], s.line)
    BY ScanRight
  <2>2. s.file \in DOMAIN Repo /\ fs[s.file] \in Seq(SUBSET Ins!Patterns)
        /\ Tidy(s.file, fs[s.file])
    BY <2>1 DEF TidyFiles
  <2>3. DOMAIN fs[s.file] = 1..Len(fs[s.file])
    BY <2>2
  <2> QED  BY <2>1, <2>2, <2>3 DEF EmittingFiles
<1>2. ASSUME NEW s \in TaskSeams(fs)
      PROVE  LET emits == Ins!EmitsFor(fs[s.file], s.line)
             IN  /\ \E j \in DOMAIN fs[s.file] :
                       "emission" \in fs[s.file][j]
                       /\ Ins!PlacedFor(s.file, fs[s.file], s.line, j)
                 /\ Ins!HasRoom(s.file, fs[s.file], s.line) => emits # {}
                 /\ "typecheck" \in Scripts => \A i, j \in emits : i = j
  <2> DEFINE f == s.file
             L == fs[s.file]
             i == s.line
  <2>1. /\ DOMAIN L = 1..Len(L) /\ i \in 1..Len(L) /\ Task(L, i) /\ Tidy(f, L)
        /\ Emitting(f, L)
    BY <1>1
  <2>2. "typecheck" \in Scripts => \A a, b \in 1..Len(L) :
           (a < b /\ "emission" \in L[a] /\ "emission" \in L[b])
           => \E k \in a..b : L[k] \cap {"function", "outside"} # {}
    BY <1>1 DEF Ins!Compiles
  <2> HIDE DEF f, L, i
  <2>3. PICK j \in 1..Len(L) : "emission" \in L[j] /\ Ins!PlacedFor(f, L, i, j)
    BY <2>1 DEF Emitting
  <2>4. Ins!HasRoom(f, L, i) => j \in Ins!EmitsFor(L, i)
    BY <2>1, <2>3, RoomEmits
  <2>5. ASSUME "typecheck" \in Scripts, NEW a \in Ins!EmitsFor(L, i),
               NEW b \in Ins!EmitsFor(L, i)
        PROVE  a = b
    <3>1. a \in 1..Len(L) /\ b \in 1..Len(L) /\ "emission" \in L[a] /\ "emission" \in L[b]
      <4>1. Len(L) \in Nat
        BY <2>1 DEF Tidy
      <4> QED  BY <2>1, <4>1 DEF Ins!EmitsFor
    <3>2. ~(a < b)
      BY <2>1, <2>2, <2>5, <3>1, OneEmits
    <3>3. ~(b < a)
      BY <2>1, <2>2, <2>5, <3>1, OneEmits
    <3> QED  BY <3>1, <3>2, <3>3
  <2>6. /\ \E k \in DOMAIN L : "emission" \in L[k] /\ Ins!PlacedFor(f, L, i, k)
        /\ Ins!HasRoom(f, L, i) => Ins!EmitsFor(L, i) # {}
        /\ "typecheck" \in Scripts =>
              \A a, b \in Ins!EmitsFor(L, i) : a = b
    BY <2>1, <2>3, <2>4, <2>5
  <2> QED  BY <2>6 DEF f, L, i
<1>3. ASSUME NEW f \in DOMAIN fs, NEW j \in DOMAIN fs[f], "emission" \in fs[f][j]
      PROVE  \E s \in TaskSeams(fs) :
                s.file = f /\ Ins!PlacedFor(f, fs[f], s.line, j)
  <2>1. f \in DOMAIN Repo /\ fs[f] \in Seq(SUBSET Ins!Patterns) /\ Owned(f, fs[f])
    BY DEF TidyFiles, Tidy
  <2>2. j \in 1..Len(fs[f]) /\ DOMAIN fs[f] = 1..Len(fs[f])
    BY <2>1
  <2>3. PICK i \in 1..Len(fs[f]) : Task(fs[f], i) /\ Ins!PlacedFor(f, fs[f], i, j)
    BY <1>3, <2>1, <2>2 DEF Owned
  <2>4. PICK s \in TaskSeams(fs) : s.file = f /\ s.line = i
    BY <2>2, <2>3, ScanRight
  <2> QED  BY <2>3, <2>4
<1> QED  BY <1>0, <1>2, <1>3 DEF Ins!WiredOnce

\* The tree is tidy throughout; what was scanned is what is edited; from the edits to the commit
\* it is wired, and from the checks on it compiles if the repository has a typecheck.
ScannedIsThere ==
    ins_pc \in {"get_seam_map", "fetch_registry", "review", "put_seam_map", "write_generated",
                "wire"} => ins_run.seams = Ins!Scan(ins_files)
WiredFrom ==
    ins_pc \in {"model_edits", "checks", "checkout", "commit"} => EmittingFiles(ins_files)
CompilesFrom ==
    ins_pc \in {"checkout", "commit"} => ("typecheck" \in Scripts => Ins!Compiles(ins_files))
CommitsAreWired == \A c \in ins_commits : Ins!WiredOnce(c[1])
WiresInv ==
    /\ TidyFiles(ins_files) /\ ScannedIsThere /\ WiredFrom /\ CompilesFrom /\ CommitsAreWired

LEMMA WiresStart ==
    ASSUME Ins!Init
    PROVE  WiresInv
<1>1. ins_files = Repo /\ ins_pc = "idle" /\ ins_commits = {}
  BY DEF Ins!Init
<1>2. TidyFiles(ins_files)
  BY <1>1, TidyRepo, InstrumentationAssumption
<1> QED  BY <1>1, <1>2 DEF WiresInv, ScannedIsThere, WiredFrom, CompilesFrom, CommitsAreWired

\* A step that writes no source and moves on along the run, or ends it.
Along == /\ UNCHANGED <<ins_files, ins_commits>>
         /\ \/ ins_pc' \in {"idle", "plan_proposed", "record_run"}
            \/ ins_pc' = "checkout" /\ ins_pc = "checks"
               /\ ("typecheck" \in Scripts => Ins!Compiles(ins_files))
            \/ ins_pc' = "commit" /\ ins_pc = "checkout"
            \/ ins_pc' \in {"get_seam_map", "fetch_registry", "review", "put_seam_map",
                            "write_generated", "wire"}
               /\ ins_run'.seams = Ins!Scan(ins_files)
LEMMA AlongKeeps ==
    ASSUME WiresInv, Along
    PROVE  WiresInv'
<1>1. UNCHANGED <<ins_files, ins_commits>>
  BY DEF Along
<1>2. TidyFiles(ins_files)' /\ CommitsAreWired'
  BY <1>1 DEF WiresInv, TidyFiles, CommitsAreWired
<1>3. ScannedIsThere' /\ WiredFrom' /\ CompilesFrom'
  BY <1>1 DEF Along, WiresInv, ScannedIsThere, WiredFrom, CompilesFrom
<1> QED  BY <1>2, <1>3 DEF WiresInv

LEMMA AlongSteps ==
    ASSUME WiresInv, DOMAIN ins_run = RunFields,
           \/ Ins!StartInstrument \/ Ins!StartOnboard \/ Ins!GetSeamMap \/ Ins!FetchRegistry
           \/ Ins!ReviewPlan \/ Ins!PutSeamMap \/ Ins!PlanProposed \/ Ins!WriteGenerated
           \/ Ins!ChecksPass \/ Ins!VerificationFails \/ Ins!Checkout \/ Ins!RecordRun
           \/ Ins!AwaitFails \/ Ins!AnswerLost
    PROVE  Along
<1>1. CASE Ins!StartInstrument \/ Ins!StartOnboard
  <2>1. /\ UNCHANGED <<ins_files, ins_commits>> /\ ins_pc' \in {"idle", "get_seam_map"}
    BY <1>1 DEF Ins!StartInstrument, Ins!StartOnboard, Ins!GoTo, Ins!tree, Ins!git
  <2>2. ins_run'.seams = Ins!Scan(ins_files)
    BY <1>1 DEF Ins!StartInstrument, Ins!StartOnboard, Ins!NoRun
  <2> QED  BY <2>1, <2>2 DEF Along
<1>2. CASE Ins!GetSeamMap \/ Ins!FetchRegistry
  <2>1. /\ UNCHANGED <<ins_files, ins_commits>>
        /\ ins_pc \in {"get_seam_map", "fetch_registry"}
        /\ ins_pc' \in {"fetch_registry", "review", "put_seam_map"}
    BY <1>2 DEF Ins!GetSeamMap, Ins!FetchRegistry, Ins!GoTo, Ins!tree, Ins!git
  <2>2. ins_run'.seams = ins_run.seams
    BY <1>2 DEF Ins!GetSeamMap, Ins!FetchRegistry, RunFields
  <2> QED  BY <2>1, <2>2 DEF Along, WiresInv, ScannedIsThere
<1>3. CASE Ins!ReviewPlan \/ Ins!WriteGenerated
  <2>1. /\ UNCHANGED <<ins_files, ins_commits, ins_run>>
        /\ ins_pc \in {"review", "write_generated"} /\ ins_pc' \in {"put_seam_map", "wire"}
    BY <1>3 DEF Ins!ReviewPlan, Ins!WriteGenerated, Ins!GoTo, Ins!tree, Ins!git
  <2> QED  BY <2>1 DEF Along, WiresInv, ScannedIsThere
<1>4. CASE Ins!PutSeamMap
  <2>1. UNCHANGED <<ins_files, ins_commits>> /\ ins_pc = "put_seam_map"
    BY <1>4 DEF Ins!PutSeamMap, Ins!tree, Ins!git
  <2>2. \/ ins_pc' \in {"idle", "plan_proposed"}
        \/ ins_pc' = "write_generated" /\ ins_run' = ins_run
    BY <1>4 DEF Ins!PutSeamMap, Ins!GoTo, Ins!Exit
  <2> QED  BY <2>1, <2>2 DEF Along, WiresInv, ScannedIsThere
<1>5. CASE Ins!ChecksPass \/ Ins!Checkout
  BY <1>5 DEF Ins!ChecksPass, Ins!Checkout, Ins!GoTo, Ins!tree, Ins!git, Along
<1>6. CASE \/ Ins!PlanProposed \/ Ins!VerificationFails \/ Ins!RecordRun \/ Ins!AwaitFails
           \/ Ins!AnswerLost
  BY <1>6 DEF Ins!PlanProposed, Ins!VerificationFails, Ins!RecordRun, Ins!AwaitFails,
              Ins!AnswerLost, Ins!Exit, Ins!tree, Ins!git, Along
<1> QED  BY <1>1, <1>2, <1>3, <1>4, <1>5, <1>6

\* The steps that write the sources.
LEMMA WritingSteps ==
    ASSUME WiresInv,
           \/ Ins!Wire \/ Ins!ModelEdits \/ Ins!WireFails
           \/ Ins!DeveloperEdits \/ Ins!DeveloperResets
    PROVE  WiresInv'
<1>1. ins_commits' = ins_commits
  BY DEF Ins!Wire, Ins!ModelEdits, Ins!WireFails, Ins!DeveloperEdits, Ins!DeveloperResets,
         Ins!git
<1>2. CommitsAreWired'
  BY <1>1 DEF WiresInv, CommitsAreWired
<1>3. TidyFiles(ins_files)
  BY DEF WiresInv
<1>4. CASE Ins!Wire
  <2> DEFINE edits == Ins!Wiring(ins_files, Ins!Scan(ins_files))
  <2>1. ins_files' = Ins!EditFiles(ins_files, edits, Ins!EditedFiles(edits))
    BY <1>4 DEF Ins!Wire, WiresInv, ScannedIsThere
  <2>2. TidyFiles(ins_files') /\ EmittingFiles(ins_files')
    BY <1>3, <2>1, WiringWires
  <2>3. ins_pc' \in {"model_edits", "checks"}
    BY <1>4 DEF Ins!Wire, Ins!GoTo
  <2>4. TidyFiles(ins_files)' /\ EmittingFiles(ins_files)'
    BY <2>2 DEF TidyFiles, EmittingFiles
  <2> QED  BY <1>2, <2>3, <2>4 DEF WiresInv, ScannedIsThere, WiredFrom, CompilesFrom
<1>5. CASE Ins!ModelEdits
  <2>1. PICK proposed \in SUBSET Proposals :
           ins_files' = Ins!EditFiles(ins_files, Ins!Accepted(proposed),
                                      Ins!EditedFiles(Ins!Accepted(proposed)))
    BY <1>5 DEF Ins!ModelEdits
  <2>2. IsFiniteSet(proposed)
    <3>1. IsFiniteSet(Proposals)
      BY InstrumentationAssumption, InsSets DEF Ins!KnownRepo
    <3> QED  BY <3>1, FS_Subset
  <2>3. \A f \in DOMAIN Repo : Fits(f, ins_files[f], OfFile(Ins!Accepted(proposed), f))
    BY <2>2, ProposalsFit
  <2>4. EmittingFiles(ins_files) /\ ins_pc' = "checks"
    BY <1>5 DEF Ins!ModelEdits, Ins!GoTo, WiresInv, WiredFrom
  <2>5. TidyFiles(ins_files') /\ EmittingFiles(ins_files')
    BY <1>3, <2>1, <2>3, <2>4, EditsKeepFiles
  <2>6. TidyFiles(ins_files)' /\ EmittingFiles(ins_files)'
    BY <2>5 DEF TidyFiles, EmittingFiles
  <2> QED  BY <1>2, <2>4, <2>6 DEF WiresInv, ScannedIsThere, WiredFrom, CompilesFrom
<1>6. CASE Ins!WireFails
  <2> DEFINE edits == Ins!Wiring(ins_files, Ins!Scan(ins_files))
  <2>1. \E written : ins_files' = Ins!EditFiles(ins_files, edits, written)
    BY <1>6 DEF Ins!WireFails, WiresInv, ScannedIsThere
  <2>2. TidyFiles(ins_files')
    BY <1>3, <2>1, WiringWires
  <2>3. ins_pc' = "idle"
    BY <1>6 DEF Ins!WireFails, Ins!Exit
  <2>4. TidyFiles(ins_files)'
    BY <2>2 DEF TidyFiles
  <2> QED  BY <1>2, <2>3, <2>4 DEF WiresInv, ScannedIsThere, WiredFrom, CompilesFrom
<1>7. CASE Ins!DeveloperEdits \/ Ins!DeveloperResets
  <2>1. \/ ins_files' = Repo
        \/ \E f \in DOMAIN Repo : ins_files' = [Repo EXCEPT ![f] = <<{}>> \o @]
    BY <1>7 DEF Ins!DeveloperEdits, Ins!DeveloperResets
  <2>2. TidyFiles(ins_files')
    BY <2>1, TidyRepo, InstrumentationAssumption
  <2>3. ins_pc' = "idle"
    BY <1>7 DEF Ins!DeveloperEdits, Ins!DeveloperResets
  <2>4. TidyFiles(ins_files)'
    BY <2>2 DEF TidyFiles
  <2> QED  BY <1>2, <2>3, <2>4 DEF WiresInv, ScannedIsThere, WiredFrom, CompilesFrom
<1> QED  BY <1>4, <1>5, <1>6, <1>7

LEMMA CommitIsWired ==
    ASSUME WiresInv, Ins!Commit
    PROVE  WiresInv'
<1>1. /\ ins_files' = ins_files /\ ins_pc = "commit" /\ ins_pc' = "record_run"
      /\ ins_commits' = ins_commits \cup {<<ins_files, ins_generated>>}
  BY DEF Ins!Commit, Ins!GoTo, Ins!tree
<1>2. Ins!WiredOnce(ins_files)
  BY <1>1, WiredWhenCompiled DEF WiresInv, WiredFrom, CompilesFrom
<1>3. \A c \in ins_commits' : Ins!WiredOnce(c[1])
  <2> TAKE c \in ins_commits'
  <2>1. CASE c \in ins_commits
    BY <2>1 DEF WiresInv, CommitsAreWired
  <2>2. CASE c = <<ins_files, ins_generated>>
    BY <1>2, <2>2
  <2> QED  BY <1>1, <2>1, <2>2
<1>4. CommitsAreWired'
  BY <1>3 DEF CommitsAreWired
<1>5. TidyFiles(ins_files)'
  BY <1>1 DEF WiresInv, TidyFiles
<1> QED  BY <1>1, <1>4, <1>5 DEF WiresInv, ScannedIsThere, WiredFrom, CompilesFrom

LEMMA WiresKept ==
    ASSUME WiresInv, DOMAIN ins_run = RunFields, [Ins!Next]_(Ins!vars)
    PROVE  WiresInv'
<1>1. CASE UNCHANGED Ins!vars
  <2>1. UNCHANGED <<ins_files, ins_commits, ins_pc, ins_run>>
    BY <1>1 DEF Ins!vars
  <2> QED  BY <2>1 DEF WiresInv, TidyFiles, ScannedIsThere, WiredFrom, EmittingFiles,
                CompilesFrom, CommitsAreWired
<1>2. CASE Ins!Next
  <2>1. \/ Along
        \/ Ins!Wire \/ Ins!ModelEdits \/ Ins!WireFails
        \/ Ins!DeveloperEdits \/ Ins!DeveloperResets
        \/ Ins!Commit
    BY <1>2, AlongSteps DEF Ins!Next
  <2> QED  BY <2>1, AlongKeeps, WritingSteps, CommitIsWired
<1> QED  BY <1>1, <1>2

\* Whatever the repository is like and a model proposes, wherever a write or a request fails:
\* in what a run commits every function that the implementer takes for a task has its emission
\* where PlacedFor says; if it has the room its tasks emit, once if the host type checks; and no
\* emission is anywhere else (implementer.ts, instrument.ts).
THEOREM RepositoriesAreWired == Ins!Spec => []Ins!InstrumentationSafe
<1>1. Ins!Init => InsInv /\ WiresInv
  BY InsInit, WiresStart
<1>2. InsInv /\ WiresInv /\ [Ins!Next]_(Ins!vars) => (InsInv /\ WiresInv)'
  BY InsKept, WiresKept DEF InsInv
<1>3. WiresInv => \A c \in ins_commits : Ins!WiredOnce(c[1])
  BY DEF WiresInv, CommitsAreWired
<1>4. Ins!Spec => [](\A c \in ins_commits : Ins!WiredOnce(c[1]))
  BY <1>1, <1>2, <1>3, PTL DEF Ins!Spec
<1>5. Ins!Spec => []Ins!RunsAreHonest
  BY AgentRunsAreHonest
<1>6. Ins!RunsAreHonest /\ (\A c \in ins_commits : Ins!WiredOnce(c[1]))
      => Ins!InstrumentationSafe
  BY DEF Ins!InstrumentationSafe
<1> QED  BY <1>4, <1>5, <1>6, PTL

\* Both agents keep what a run of MCPlatform checks of them.
THEOREM AgentsKeepPromises == Ins!Spec /\ Ag!Spec => []AgentsSafe
<1>1. Ins!Spec => []Ins!InstrumentationSafe
  BY RepositoriesAreWired
<1>2. Ag!Spec => []Ag!AgentLoopSafe
  BY AgentsAreSafe, AgentsAssumption
<1>3. Ins!InstrumentationSafe /\ Ag!AgentLoopSafe => AgentsSafe
  BY DEF AgentsSafe
<1> QED  BY <1>1, <1>2, <1>3, PTL
=============================================================================
