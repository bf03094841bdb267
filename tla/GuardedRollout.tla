--------------------------- MODULE GuardedRollout ---------------------------
(***************************************************************************)
(* Level-3 autonomy: runGuardedRollout (experiment-agent/src/rollout.ts)    *)
(* with the monitoring pass it calls (monitorExperiment, agent.ts), the     *)
(* experiment rows that pass writes, and the tenant's autonomy grants       *)
(* (registry-service/src/store.ts).  Every await is a step of its own:      *)
(* other rollouts and the tenant act in between, and the call can fail.     *)
(*                                                                          *)
(* A rollout is identified with its flag and its experiment.                *)
(***************************************************************************)
EXTENDS Integers, FiniteSets

CONSTANTS
    Rollouts,        \* requests for a guarded rollout
    MaxConcurrent,   \* policy.max_concurrent
    MaxChecks,       \* opts.maxChecks
    MaxGrants        \* bound: grants the tenant writes

ASSUME RolloutAssumption ==
    /\ IsFiniteSet(Rollouts)
    /\ MaxConcurrent \in Nat
    /\ MaxChecks \in Nat \ {0}
    /\ MaxGrants \in Nat

VARIABLES
    granted,   \* the newest autonomy grant is level 3
    grants,    \* grants written so far
    onHalt,    \* opts.onHalt
    permitted, \* requests of a declared change class and no protected task
    pc,        \* per rollout, the await it has reached
    active,    \* opts.activeAutonomousRollouts, as the caller counted it
    check,     \* the loop variable
    ending,    \* how the rollout ends, once decided
    share,     \* rollout share of the flag: "off", "canary", "full"
    status,    \* experiments.status
    verdict,   \* experiment_verdicts.decision
    findings,  \* experiments with a published verdict finding
    audit,     \* last audited transition
    revoked,   \* history: level 3 went since the rollout last read it
    together   \* history: two rollouts were between their count and exposure

store == <<status, verdict, findings>>
tenant == <<granted, grants, onHalt, permitted>>
vars == <<tenant, pc, active, check, ending, share, store, audit, revoked,
          together>>

Endings == {"requires_human", "promoted", "rolled_back", "halted"}
Over == {"done", "failed"}
Starting == {"level", "expose"}
Exposed == {r \in Rollouts : share[r] = "canary" /\ pc[r] \notin Over}

Goto(r, l) == pc' = [pc EXCEPT ![r] = l]
-----------------------------------------------------------------------------
Init ==
    /\ granted \in BOOLEAN /\ grants = 0 /\ onHalt \in {"rollback", "freeze"}
    /\ permitted \in SUBSET Rollouts
    /\ pc = [r \in Rollouts |-> "idle"]
    /\ active = [r \in Rollouts |-> 0]
    /\ check = [r \in Rollouts |-> 0]
    /\ ending = [r \in Rollouts |-> "none"]
    /\ share = [r \in Rollouts |-> "off"]
    /\ status = [r \in Rollouts |-> "running"]
    /\ verdict = [r \in Rollouts |-> "none"]
    /\ findings = {}
    /\ audit = [r \in Rollouts |-> "none"]
    /\ revoked = [r \in Rollouts |-> FALSE]
    /\ together = FALSE

\* grantAutonomy(): a grant or a revocation of level 3.
GrantAutonomy ==
    /\ grants < MaxGrants
    /\ grants' = grants + 1
    /\ granted' = ~granted
    /\ revoked' = [r \in Rollouts |-> revoked[r] \/ granted]
    /\ UNCHANGED <<onHalt, permitted, pc, active, check, ending, share, store,
                   audit, together>>

\* The caller counts the active rollouts and calls runGuardedRollout.
Start(r) ==
    /\ pc[r] = "idle"
    /\ Goto(r, "level")
    /\ active' = [active EXCEPT ![r] = Cardinality(Exposed)]
    /\ together' = (together \/ \E s \in Rollouts : pc[s] \in Starting)
    /\ UNCHANGED <<tenant, check, ending, share, store, audit, revoked>>

UnderCap_OffByOne(r) == active[r] <= MaxConcurrent   \* mutant
UnderCap(r) == active[r] < MaxConcurrent

\* The level and the blast-radius limits, before any exposure.
CheckGates(r) ==
    /\ pc[r] = "level"
    /\ revoked' = [revoked EXCEPT ![r] = FALSE]
    /\ IF granted /\ r \in permitted /\ UnderCap(r)
       THEN Goto(r, "expose") /\ UNCHANGED ending
       ELSE /\ Goto(r, "audit")
            /\ ending' = [ending EXCEPT ![r] = "requires_human"]
    /\ UNCHANGED <<tenant, active, check, share, store, audit, together>>

StartCanary(r) ==
    /\ pc[r] = "expose"
    /\ share' = [share EXCEPT ![r] = "canary"]
    /\ Goto(r, "auditCanary")
    /\ UNCHANGED <<tenant, active, check, ending, store, audit, revoked, together>>

AuditCanary(r) ==
    /\ pc[r] = "auditCanary"
    /\ audit' = [audit EXCEPT ![r] = "canary_started"]
    /\ check' = [check EXCEPT ![r] = 1]
    /\ Goto(r, "check")
    /\ UNCHANGED <<tenant, active, ending, share, store, revoked, together>>

\* Mutants: the level is read before the first pass only; freeze and rollback
\* are mixed up.
MayContinue_AfterFirst(r) == granted \/ check[r] > 1
Halt_Swapped == IF onHalt = "freeze" THEN "setShare" ELSE "audit"

MayContinue(r) == granted
Halt == IF onHalt = "rollback" THEN "setShare" ELSE "audit"

\* The kill switch, read before each monitoring pass.
CheckLevel(r) ==
    /\ pc[r] = "check"
    /\ revoked' = [revoked EXCEPT ![r] = FALSE]
    /\ IF MayContinue(r)
       THEN Goto(r, "monitor") /\ UNCHANGED ending
       ELSE /\ Goto(r, Halt)
            /\ ending' = [ending EXCEPT ![r] = "halted"]
    /\ UNCHANGED <<tenant, active, check, share, store, audit, together>>

\* Mutant: passes without end.
Inconclusive_NoBudget(r) ==
    /\ pc[r] = "monitor" /\ Goto(r, "check")
    /\ UNCHANGED <<tenant, active, check, ending, share, store, audit, revoked,
                   together>>

ChecksLeft(r) == check[r] < MaxChecks

\* The statistics of one pass: guardrails first, then the target.
Inconclusive(r) ==
    /\ pc[r] = "monitor"
    /\ IF ChecksLeft(r)
       THEN /\ check' = [check EXCEPT ![r] = @ + 1]
            /\ Goto(r, "check") /\ UNCHANGED ending
       ELSE /\ ending' = [ending EXCEPT ![r] = "requires_human"]
            /\ Goto(r, "audit") /\ UNCHANGED check
    /\ UNCHANGED <<tenant, active, share, store, audit, revoked, together>>

\* A conclusive pass writes its verdict (which also sets the status), then
\* the status, then the finding, by three calls to the registry.
WriteVerdict(r) ==
    /\ pc[r] = "monitor"
    /\ \E decision \in {"breach", "revert", "ship"} :
          verdict' = [verdict EXCEPT ![r] = decision]
    /\ status' = [status EXCEPT ![r] = "concluded"]
    /\ Goto(r, "status")
    /\ UNCHANGED <<tenant, active, check, ending, share, findings, audit,
                   revoked, together>>

\* Mutant: the verdict is acted upon before its finding is published.
UpdateExperiment_NoFinding(r) ==
    /\ pc[r] = "status"
    /\ status' = [status EXCEPT ![r] =
                    IF verdict[r] = "breach" THEN "stopped" ELSE "concluded"]
    /\ ending' = [ending EXCEPT ![r] =
                    IF verdict[r] = "ship" THEN "promoted" ELSE "rolled_back"]
    /\ Goto(r, "setShare")
    /\ UNCHANGED <<tenant, active, check, share, verdict, findings, audit,
                   revoked, together>>

UpdateExperiment(r) ==
    /\ pc[r] = "status"
    /\ status' = [status EXCEPT ![r] =
                    IF verdict[r] = "breach" THEN "stopped" ELSE "concluded"]
    /\ Goto(r, "finding")
    /\ UNCHANGED <<tenant, active, check, ending, share, verdict, findings,
                   audit, revoked, together>>

PublishFinding(r) ==
    /\ pc[r] = "finding"
    /\ findings' = findings \cup {r}
    /\ ending' = [ending EXCEPT ![r] =
                    IF verdict[r] = "ship" THEN "promoted" ELSE "rolled_back"]
    /\ Goto(r, "setShare")
    /\ UNCHANGED <<tenant, active, check, share, status, verdict, audit,
                   revoked, together>>

SetRolloutShare(r) ==
    /\ pc[r] = "setShare"
    /\ share' = [share EXCEPT ![r] =
                   IF ending[r] = "promoted" THEN "full" ELSE "off"]
    /\ Goto(r, "audit")
    /\ UNCHANGED <<tenant, active, check, ending, store, audit, revoked,
                   together>>

Audit(r) ==
    /\ pc[r] = "audit"
    /\ audit' = [audit EXCEPT ![r] = ending[r]]
    /\ Goto(r, "done")
    /\ UNCHANGED <<tenant, active, check, ending, share, store, revoked,
                   together>>

\* An awaited call throws, or the agent's process dies: nothing catches it.
Fail(r) ==
    /\ pc[r] \notin Over \cup {"idle"}
    /\ Goto(r, "failed")
    /\ UNCHANGED <<tenant, active, check, ending, share, store, audit, revoked,
                   together>>

Run(r) ==
    \/ CheckGates(r)
    \/ StartCanary(r)
    \/ AuditCanary(r)
    \/ CheckLevel(r)
    \/ Inconclusive(r)
    \/ WriteVerdict(r)
    \/ UpdateExperiment(r)
    \/ PublishFinding(r)
    \/ SetRolloutShare(r)
    \/ Audit(r)

Next ==
    \/ GrantAutonomy
    \/ \E r \in Rollouts : Start(r) \/ Run(r) \/ Fail(r)

Spec == Init /\ [][Next]_vars

\* The promise chain of a started rollout goes on: each awaited call settles.
Fairness == \A r \in Rollouts : WF_vars(Run(r))
FairSpec == Spec /\ Fairness
-----------------------------------------------------------------------------
\* The variables hold values of their types.
TypeOK ==
    /\ granted \in BOOLEAN /\ grants \in 0..MaxGrants
    /\ onHalt \in {"rollback", "freeze"}
    /\ permitted \subseteq Rollouts
    /\ pc \in [Rollouts -> Starting \cup Over \cup
          {"idle", "auditCanary", "check", "monitor", "status", "finding",
           "setShare", "audit"}]
    /\ active \in [Rollouts -> Nat]
    /\ check \in [Rollouts -> 0..MaxChecks]
    /\ ending \in [Rollouts -> Endings \cup {"none"}]
    /\ share \in [Rollouts -> {"off", "canary", "full"}]
    /\ status \in [Rollouts -> {"running", "concluded", "stopped"}]
    /\ verdict \in [Rollouts -> {"none", "breach", "revert", "ship"}]
    /\ findings \subseteq Rollouts
    /\ audit \in [Rollouts -> Endings \cup {"none", "canary_started"}]
    /\ revoked \in [Rollouts -> BOOLEAN]
    /\ together \in BOOLEAN

\* "auto-promote only on a statistically valid win with no guardrail breach":
\* full exposure has its whole evidence in the registry already, whatever
\* failed on the way, and only a permitted change gets any exposure.
PromotionHasEvidence ==
    \A r \in Rollouts :
       /\ share[r] = "full" => /\ verdict[r] = "ship"
                               /\ status[r] = "concluded"
                               /\ r \in findings
       /\ share[r] # "off" => r \in permitted

\* What the audit says last of a finished rollout is what its users get.
AuditTellsExposure ==
    \A r \in Rollouts :
       /\ audit[r] = "promoted" => share[r] = "full"
       /\ audit[r] = "rolled_back" => share[r] = "off"
       /\ audit[r] = "halted" =>
             share[r] = IF onHalt = "rollback" THEN "off" ELSE "canary"
       /\ audit[r] = "requires_human" => share[r] # "full" /\ verdict[r] = "none"

\* The blast radius: at most max_concurrent canaries, when no two rollouts are
\* started so close that neither sees the other's canary.
CapHoldsForSpacedStarts == ~together => Cardinality(Exposed) <= MaxConcurrent

\* Exposure grows after a revocation only if the revocation fell between the
\* rollout's last look at the level and that change.
ExposureNeedsGrantSeen ==
    [][\A r \in Rollouts :
          share[r] # share'[r] /\ share'[r] # "off" /\ ~granted
             => revoked[r]]_vars

\* "Level 3 is an explicit grant; below it, nothing auto-promotes, ever"
\* (rollout.ts): when a rollout decides to promote, the tenant is at level 3.
\* The level is read before a monitoring pass and not again after it.
PromotesOnlyAtLevel3 ==
    [][\A r \in Rollouts :
          ending[r] = "none" /\ ending'[r] = "promoted" => granted]_vars

\* Every rollout ends, and one that breached its guardrails without a failure
\* of its own ends with the variant off.
RolloutsEnd ==
    \A r \in Rollouts :
       /\ pc[r] # "idle" ~> pc[r] \in Over
       /\ verdict[r] = "breach" ~> share[r] = "off" \/ pc[r] = "failed"
=============================================================================
