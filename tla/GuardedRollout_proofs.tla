----------------------- MODULE GuardedRollout_proofs -----------------------
(***************************************************************************)
(* Proofs about GuardedRollout for every set of rollouts and every limit.   *)
(* The invariant says, for each await a rollout can have reached, what its  *)
(* flag, its experiment rows and its audit are there (Stage), what it still *)
(* knows of the tenant's level (LevelSeen) and what its caller's count of   *)
(* active rollouts is still good for (Crowd).                               *)
(* And about the figures verdicts rest on, for every set of rows.           *)
(***************************************************************************)
EXTENDS GuardedRollout, Figures, Sequences, FiniteSetTheorems, WellFoundedInduction, TLAPS

\* What the last audit record a of a rollout says of its flag.
Tells(a, r) ==
    /\ a = "promoted" => share[r] = "full"
    /\ a = "rolled_back" => share[r] = "off"
    /\ a = "halted" => share[r] = IF onHalt = "rollback" THEN "off" ELSE "canary"
    /\ a = "requires_human" => share[r] # "full" /\ verdict[r] = "none"

Undecided(r) == ending[r] = "none" /\ audit[r] \in {"none", "canary_started"}

\* What is written when rollout r has reached its await.
Stage(r) ==
    /\ share[r] # "off" => r \in permitted
    /\ share[r] = "full" => /\ verdict[r] = "ship" /\ status[r] = "concluded"
                            /\ r \in findings
    /\ Tells(audit[r], r)
    /\ pc[r] \in {"idle", "level", "expose"} =>
          Undecided(r) /\ share[r] = "off" /\ verdict[r] = "none"
    /\ pc[r] = "expose" => r \in permitted
    /\ pc[r] \in {"auditCanary", "check", "monitor"} =>
          Undecided(r) /\ share[r] = "canary" /\ verdict[r] = "none"
    /\ pc[r] \in {"status", "finding"} =>
          Undecided(r) /\ share[r] = "canary" /\ verdict[r] # "none"
    /\ pc[r] = "finding" =>
          status[r] = IF verdict[r] = "breach" THEN "stopped" ELSE "concluded"
    /\ pc[r] = "setShare" =>
          /\ share[r] = "canary" /\ audit[r] \in {"none", "canary_started"}
          /\ ending[r] \in {"promoted", "rolled_back", "halted"}
          /\ ending[r] = "promoted" =>
                verdict[r] = "ship" /\ status[r] = "concluded" /\ r \in findings
          /\ ending[r] = "halted" => onHalt = "rollback"
    /\ pc[r] = "audit" => ending[r] \in Endings /\ Tells(ending[r], r)

\* A rollout about to widen exposure read level 3, or level 3 went since.
Widening(r) ==
    \/ pc[r] \in {"expose", "monitor", "status", "finding"}
    \/ pc[r] = "setShare" /\ ending[r] = "promoted"
LevelSeen(r) == Widening(r) => granted \/ revoked[r]

\* While no two rollouts started together, the count a starting one holds is
\* not below the canaries there are.
Crowd ==
    /\ \A r, s \in Rollouts : pc[r] \in Starting /\ pc[s] \in Starting => r = s
    /\ \A r \in Rollouts : pc[r] \in Starting => Cardinality(Exposed) <= active[r]
    /\ \A r \in Rollouts : pc[r] = "expose" => active[r] < MaxConcurrent
    /\ Cardinality(Exposed) <= MaxConcurrent

IInv == /\ TypeOK
        /\ \A r \in Rollouts : Stage(r) /\ LevelSeen(r)
        /\ ~together => Crowd
-----------------------------------------------------------------------------
\* The variables have their types at the start.
LEMMA TypeInit == Init => TypeOK
<1> SUFFICES ASSUME Init PROVE TypeOK
  OBVIOUS
<1>1. /\ grants \in 0..MaxGrants
      /\ check \in [Rollouts -> 0..MaxChecks]
      /\ active \in [Rollouts -> Nat]
  BY RolloutAssumption DEF Init
<1>2. /\ pc \in [Rollouts -> Starting \cup Over \cup
             {"idle", "auditCanary", "check", "monitor", "status", "finding",
              "setShare", "audit"}]
      /\ ending \in [Rollouts -> Endings \cup {"none"}]
      /\ audit \in [Rollouts -> Endings \cup {"none", "canary_started"}]
  BY DEF Init
<1> QED  BY <1>1, <1>2 DEF Init, TypeOK

\* A count of rollouts is a number.
LEMMA CountIsNat == IsFiniteSet(Exposed) /\ Cardinality(Exposed) \in Nat
  BY RolloutAssumption, FS_Subset, FS_CardinalityType DEF Exposed

\* Every step keeps the types; an audit record is written of a rollout whose
\* ending is decided.
LEMMA TypeNext ==
    ASSUME TypeOK, [Next]_vars,
           \A r \in Rollouts : pc[r] = "audit" => ending[r] \in Endings
    PROVE  TypeOK'
<1> USE RolloutAssumption DEF TypeOK, Goto, Endings, Over, Starting, store, tenant
<1>1. CASE GrantAutonomy
  BY <1>1 DEF GrantAutonomy
<1>2. ASSUME NEW r \in Rollouts, Start(r) PROVE TypeOK'
  <2>1. active' \in [Rollouts -> Nat]
    BY <1>2, CountIsNat DEF Start
  <2>2. together' \in BOOLEAN
    BY <1>2 DEF Start
  <2> QED  BY <1>2, <2>1, <2>2 DEF Start
<1>3. ASSUME NEW r \in Rollouts, CheckGates(r) PROVE TypeOK'
  BY <1>3 DEF CheckGates
<1>4. ASSUME NEW r \in Rollouts, StartCanary(r) PROVE TypeOK'
  BY <1>4 DEF StartCanary
<1>5. ASSUME NEW r \in Rollouts, AuditCanary(r) PROVE TypeOK'
  BY <1>5 DEF AuditCanary
<1>6. ASSUME NEW r \in Rollouts, CheckLevel(r) PROVE TypeOK'
  BY <1>6 DEF CheckLevel, Halt
<1>7. ASSUME NEW r \in Rollouts, Inconclusive(r) PROVE TypeOK'
  BY <1>7 DEF Inconclusive, ChecksLeft
<1>8. ASSUME NEW r \in Rollouts, WriteVerdict(r) PROVE TypeOK'
  BY <1>8 DEF WriteVerdict
<1>9. ASSUME NEW r \in Rollouts, UpdateExperiment(r) PROVE TypeOK'
  BY <1>9 DEF UpdateExperiment
<1>10. ASSUME NEW r \in Rollouts, PublishFinding(r) PROVE TypeOK'
  BY <1>10 DEF PublishFinding
<1>11. ASSUME NEW r \in Rollouts, SetRolloutShare(r) PROVE TypeOK'
  BY <1>11 DEF SetRolloutShare
<1>12. ASSUME NEW r \in Rollouts, Audit(r) PROVE TypeOK'
  BY <1>12 DEF Audit
<1>13. ASSUME NEW r \in Rollouts, Fail(r) PROVE TypeOK'
  BY <1>13 DEF Fail
<1>14. CASE UNCHANGED vars
  BY <1>14 DEF vars
<1> QED
  BY <1>1, <1>2, <1>3, <1>4, <1>5, <1>6, <1>7, <1>8, <1>9, <1>10, <1>11,
     <1>12, <1>13, <1>14 DEF Next, Run
-----------------------------------------------------------------------------
(* Stage and LevelSeen.                                                     *)

Local(r) == Stage(r) /\ LevelSeen(r)

\* What another rollout or a revocation of the level leaves alone.
LEMMA OthersKeepLocal ==
    ASSUME NEW r \in Rollouts, Local(r),
           pc'[r] = pc[r], ending'[r] = ending[r], share'[r] = share[r],
           status'[r] = status[r], verdict'[r] = verdict[r],
           audit'[r] = audit[r], findings \subseteq findings',
           UNCHANGED <<onHalt, permitted>>,
           granted \/ revoked[r] => granted' \/ revoked'[r]
    PROVE  Local(r)'
<1>1. Stage(r)'
  BY DEF Local, Stage, Tells, Undecided
<1>2. LevelSeen(r)'
  BY DEF Local, LevelSeen, Widening
<1> QED  BY <1>1, <1>2 DEF Local

\* A step of rollout r changes no entry of another rollout.
LEMMA StepIsOwn ==
    ASSUME TypeOK, NEW r \in Rollouts, Start(r) \/ Run(r) \/ Fail(r),
           NEW s \in Rollouts, s # r, Local(s)
    PROVE  Local(s)'
<1>1. /\ pc'[s] = pc[s] /\ ending'[s] = ending[s] /\ share'[s] = share[s]
      /\ status'[s] = status[s] /\ verdict'[s] = verdict[s]
      /\ audit'[s] = audit[s] /\ findings \subseteq findings'
      /\ revoked'[s] = revoked[s]
      /\ UNCHANGED <<onHalt, permitted, granted>>
  <2> USE DEF TypeOK, Goto, tenant, store
  <2>1. CASE Start(r) \/ Fail(r) \/ CheckGates(r) \/ StartCanary(r)
    BY <2>1 DEF Start, Fail, CheckGates, StartCanary
  <2>2. CASE AuditCanary(r) \/ CheckLevel(r) \/ Inconclusive(r) \/ WriteVerdict(r)
    BY <2>2 DEF AuditCanary, CheckLevel, Inconclusive, WriteVerdict
  <2>3. CASE \/ UpdateExperiment(r) \/ PublishFinding(r)
             \/ SetRolloutShare(r) \/ Audit(r)
    BY <2>3 DEF UpdateExperiment, PublishFinding, SetRolloutShare, Audit
  <2> QED  BY <2>1, <2>2, <2>3 DEF Run
<1> QED  BY <1>1, OthersKeepLocal

\* Each await leaves rollout r as the next one needs it.
LEMMA StepKeepsLocal ==
    ASSUME TypeOK, NEW r \in Rollouts, Start(r) \/ Run(r) \/ Fail(r), Local(r)
    PROVE  Local(r)'
<1> USE DEF TypeOK, Local, Stage, LevelSeen, Widening, Tells, Undecided, Goto,
            Starting, Over, Endings, tenant, store
<1>1. CASE Start(r)
  BY <1>1 DEF Start
<1>2. CASE CheckGates(r)
  BY <1>2 DEF CheckGates
<1>3. CASE StartCanary(r)
  BY <1>3 DEF StartCanary
<1>4. CASE AuditCanary(r)
  BY <1>4 DEF AuditCanary
<1>5. CASE CheckLevel(r)
  BY <1>5 DEF CheckLevel, MayContinue, Halt
<1>6. CASE Inconclusive(r)
  BY <1>6 DEF Inconclusive
<1>7. CASE WriteVerdict(r)
  BY <1>7 DEF WriteVerdict
<1>8. CASE UpdateExperiment(r)
  BY <1>8 DEF UpdateExperiment
<1>9. CASE PublishFinding(r)
  BY <1>9 DEF PublishFinding
<1>10. CASE SetRolloutShare(r)
  BY <1>10 DEF SetRolloutShare
<1>11. CASE Audit(r)
  BY <1>11 DEF Audit
<1>12. CASE Fail(r)
  BY <1>12 DEF Fail
<1> QED
  BY <1>1, <1>2, <1>3, <1>4, <1>5, <1>6, <1>7, <1>8, <1>9, <1>10, <1>11,
     <1>12 DEF Run

\* A grant or a revocation marks the rollouts that had seen the old level.
LEMMA GrantKeepsLocal ==
    ASSUME TypeOK, GrantAutonomy, NEW r \in Rollouts, Local(r)
    PROVE  Local(r)'
<1>1. granted \/ revoked[r] => granted' \/ revoked'[r]
  BY DEF TypeOK, GrantAutonomy
<1> QED  BY <1>1, OthersKeepLocal DEF GrantAutonomy, store
-----------------------------------------------------------------------------
(* Crowd.                                                                   *)

\* A step that exposes nobody keeps the counts good.
LEMMA QuietCrowd ==
    ASSUME TypeOK, Crowd, Exposed' \subseteq Exposed, UNCHANGED active,
           \A r \in Rollouts :
              /\ pc'[r] \in Starting => pc[r] \in Starting
              /\ pc'[r] = "expose" => active[r] < MaxConcurrent
    PROVE  Crowd'
<1>1. /\ Cardinality(Exposed') \in Nat /\ Cardinality(Exposed) \in Nat
      /\ Cardinality(Exposed') <= Cardinality(Exposed)
  BY CountIsNat, FS_Subset, FS_CardinalityType
<1>2. MaxConcurrent \in Nat /\ \A r \in Rollouts : active[r] \in Nat
  BY RolloutAssumption DEF TypeOK
<1> QED  BY <1>1, <1>2 DEF Crowd

\* A rollout that starts alone counts the canaries there are.
LEMMA StartCrowd ==
    ASSUME TypeOK, ~together => Crowd, NEW r \in Rollouts, Start(r), Local(r),
           ~together'
    PROVE  Crowd'
<1>1. /\ pc[r] = "idle" /\ pc' = [pc EXCEPT ![r] = "level"]
      /\ active' = [active EXCEPT ![r] = Cardinality(Exposed)]
      /\ share' = share
      /\ Crowd /\ \A s \in Rollouts : pc[s] \notin Starting
  BY DEF Start, Goto
<1>2. Exposed' = Exposed
  BY <1>1 DEF Exposed, Over, TypeOK, Local, Stage
<1>3. \A s \in Rollouts : pc'[s] \in Starting => s = r /\ pc'[s] = "level"
  BY <1>1 DEF TypeOK
<1>4. active'[r] = Cardinality(Exposed) /\ Cardinality(Exposed) \in Nat
  BY <1>1, CountIsNat DEF TypeOK
<1> QED  BY <1>1, <1>2, <1>3, <1>4 DEF Crowd

\* The canary of a rollout under the cap fits under the cap.
LEMMA CanaryCrowd ==
    ASSUME TypeOK, Crowd, NEW r \in Rollouts, StartCanary(r)
    PROVE  Crowd'
<1>1. /\ pc[r] = "expose" /\ pc' = [pc EXCEPT ![r] = "auditCanary"]
      /\ share' = [share EXCEPT ![r] = "canary"] /\ active' = active
  BY DEF StartCanary, Goto
<1>2. Exposed' \subseteq Exposed \cup {r}
  BY <1>1 DEF TypeOK, Exposed, Over
<1>3. \A s \in Rollouts : pc'[s] \notin Starting
  BY <1>1 DEF TypeOK, Crowd, Starting
<1>4. Cardinality(Exposed) <= active[r] /\ active[r] < MaxConcurrent
  BY <1>1 DEF Crowd, Starting
<1>5. /\ IsFiniteSet(Exposed \cup {r})
      /\ Cardinality(Exposed \cup {r}) <= Cardinality(Exposed) + 1
      /\ Cardinality(Exposed \cup {r}) \in Nat
  BY CountIsNat, FS_AddElement, FS_CardinalityType
<1>6. /\ Cardinality(Exposed') \in Nat
      /\ Cardinality(Exposed') <= Cardinality(Exposed \cup {r})
  BY <1>2, <1>5, FS_Subset, FS_CardinalityType
<1>7. Cardinality(Exposed') <= MaxConcurrent
  BY <1>4, <1>5, <1>6, CountIsNat, RolloutAssumption DEF TypeOK
<1>8. \A s \in Rollouts : pc'[s] # "expose"
  BY <1>3 DEF Starting
<1> QED  BY <1>3, <1>7, <1>8 DEF Crowd

\* Every other step of a rollout exposes nobody, and passes the gates only
\* under the cap.
LEMMA RunCrowd ==
    ASSUME TypeOK, Crowd, NEW r \in Rollouts, Run(r) \/ Fail(r), ~StartCanary(r)
    PROVE  Crowd'
<1> USE DEF TypeOK, Goto, Exposed, Over, Starting, tenant, store
<1>1. /\ Exposed' \subseteq Exposed
      /\ UNCHANGED active
      /\ \A s \in Rollouts : /\ pc'[s] \in Starting => pc[s] \in Starting
                             /\ pc'[s] = "expose" => active[s] < MaxConcurrent
  <2>1. CASE CheckGates(r)
    BY <2>1 DEF CheckGates, UnderCap, Crowd
  <2>2. CASE AuditCanary(r) \/ CheckLevel(r)
    BY <2>2 DEF AuditCanary, CheckLevel, Halt, Crowd
  <2>3. CASE Inconclusive(r) \/ WriteVerdict(r) \/ UpdateExperiment(r)
    BY <2>3 DEF Inconclusive, WriteVerdict, UpdateExperiment, Crowd
  <2>4. CASE PublishFinding(r) \/ SetRolloutShare(r)
    BY <2>4 DEF PublishFinding, SetRolloutShare, Crowd
  <2>5. CASE Audit(r) \/ Fail(r)
    BY <2>5 DEF Audit, Fail, Crowd
  <2> QED  BY <2>1, <2>2, <2>3, <2>4, <2>5 DEF Run
<1> QED  BY <1>1, QuietCrowd
-----------------------------------------------------------------------------
\* Before any rollout nothing is exposed and nothing is decided.
LEMMA InvInit == Init => IInv
<1> SUFFICES ASSUME Init PROVE IInv
  OBVIOUS
<1>1. \A r \in Rollouts : Stage(r) /\ LevelSeen(r)
  BY DEF Init, Stage, LevelSeen, Widening, Tells, Undecided
<1>2. Exposed = {}
  BY DEF Init, Exposed
<1>3. Crowd
  BY <1>2, FS_EmptySet, RolloutAssumption DEF Init, Crowd, Starting
<1> QED  BY <1>1, <1>3, TypeInit DEF IInv

\* Every step preserves the invariant.
LEMMA InvNext == IInv /\ [Next]_vars => IInv'
<1> SUFFICES ASSUME IInv, [Next]_vars
             PROVE  IInv'
  OBVIOUS
<1>t. TypeOK /\ TypeOK'
  <2>1. \A r \in Rollouts : pc[r] = "audit" => ending[r] \in Endings
    BY DEF IInv, Stage
  <2> QED  BY <2>1, TypeNext DEF IInv
<1>l. \A r \in Rollouts : Local(r)
  BY DEF IInv, Local
<1>1. CASE GrantAutonomy
  <2>1. \A r \in Rollouts : Local(r)'
    BY <1>1, <1>t, <1>l, GrantKeepsLocal
  <2>2. ~together' => Crowd'
    <3>1. Exposed' = Exposed /\ UNCHANGED <<pc, active, together>>
      BY <1>1 DEF GrantAutonomy, Exposed
    <3>2. Crowd => Crowd'
      BY <1>t, <3>1, QuietCrowd DEF Crowd
    <3> QED  BY <3>1, <3>2 DEF IInv
  <2> QED  BY <1>t, <2>1, <2>2 DEF IInv, Local
<1>2. ASSUME NEW r \in Rollouts, Start(r) \/ Run(r) \/ Fail(r)
      PROVE  IInv'
  <2>1. \A s \in Rollouts : Local(s)'
    BY <1>2, <1>t, <1>l, StepIsOwn, StepKeepsLocal
  <2>2. CASE Start(r)
    BY <1>t, <1>l, <2>1, <2>2, StartCrowd DEF IInv, Local
  <2>3. CASE Run(r) \/ Fail(r)
    <3>1. together' = together
      BY <2>3 DEF Run, Fail, CheckGates, StartCanary, AuditCanary, CheckLevel,
                  Inconclusive, WriteVerdict, UpdateExperiment,
                  PublishFinding, SetRolloutShare, Audit
    <3>2. Crowd => Crowd'
      BY <1>t, <2>3, CanaryCrowd, RunCrowd
    <3> QED  BY <1>t, <2>1, <3>1, <3>2 DEF IInv, Local
  <2> QED  BY <1>2, <2>2, <2>3
<1>3. CASE UNCHANGED vars
  <2>1. \A r \in Rollouts : Local(r)'
    BY <1>3, <1>l, OthersKeepLocal DEF vars, tenant, store
  <2>2. Exposed' = Exposed /\ UNCHANGED <<pc, active, together>>
    BY <1>3 DEF vars, Exposed
  <2>3. Crowd => Crowd'
    BY <1>t, <2>2, QuietCrowd DEF Crowd
  <2> QED  BY <1>t, <2>1, <2>2, <2>3 DEF IInv, Local
<1> QED  BY <1>1, <1>2, <1>3 DEF Next

\* The inductive invariant holds in every state.
THEOREM RolloutInvariant == Spec => []IInv
  BY InvInit, InvNext, PTL DEF Spec

\* The variables always hold values of their types.
THEOREM RolloutTypeCorrect == Spec => []TypeOK
<1>1. IInv => TypeOK
  BY DEF IInv
<1> QED  BY <1>1, RolloutInvariant, PTL

\* A fully exposed change has its ship verdict, its concluded experiment and
\* its finding in the registry, and nothing the grant does not cover is
\* exposed at all, whatever failed on the way.
THEOREM PromotionIsEvidenced == Spec => []PromotionHasEvidence
<1>1. IInv => PromotionHasEvidence
  BY DEF IInv, Stage, PromotionHasEvidence
<1> QED  BY <1>1, RolloutInvariant, PTL

\* The last audit record of a finished rollout is what its users get.
THEOREM AuditIsTruthful == Spec => []AuditTellsExposure
<1>1. IInv => AuditTellsExposure
  BY DEF IInv, Stage, Tells, AuditTellsExposure
<1> QED  BY <1>1, RolloutInvariant, PTL

\* The cap on concurrent canaries holds for any number of rollouts, if no two
\* start so close that neither counts the other.
THEOREM CapHolds == Spec => []CapHoldsForSpacedStarts
<1>1. IInv => CapHoldsForSpacedStarts
  BY DEF IInv, Crowd, CapHoldsForSpacedStarts
<1> QED  BY <1>1, RolloutInvariant, PTL

\* Exposure grows without a level-3 grant only if the grant went after the
\* rollout last looked.
THEOREM ExposureSawGrant == Spec => ExposureNeedsGrantSeen
<1> DEFINE Widens(r) == share[r] # share'[r] /\ share'[r] # "off" /\ ~granted
<1>1. ASSUME IInv, [Next]_vars, NEW r \in Rollouts, Widens(r)
      PROVE  revoked[r]
  <2>1. \E s \in Rollouts : StartCanary(s) \/ SetRolloutShare(s)
    BY <1>1 DEF Next, Run, vars, GrantAutonomy, Start, Fail, CheckGates,
                AuditCanary, CheckLevel, Inconclusive, WriteVerdict,
                UpdateExperiment, PublishFinding, Audit
  <2>2. PICK s \in Rollouts : StartCanary(s) \/ SetRolloutShare(s)
    BY <2>1
  <2>3. s = r
    BY <1>1, <2>2 DEF IInv, TypeOK, StartCanary, SetRolloutShare
  <2>4. Widening(r)
    BY <1>1, <2>2, <2>3
       DEF IInv, TypeOK, StartCanary, SetRolloutShare, Widening
  <2> QED  BY <1>1, <2>4 DEF IInv, LevelSeen
<1>2. IInv /\ [Next]_vars => [\A r \in Rollouts : Widens(r) => revoked[r]]_vars
  BY <1>1
<1> QED
  BY <1>2, RolloutInvariant, PTL DEF Spec, ExposureNeedsGrantSeen
-----------------------------------------------------------------------------
(* Figures, for every finite set of rows: counts and totals are sums over  *)
(* sets, and a figure is known by what each row adds to it.                *)

\* Induction over the naturals, as a fact about sets.
LEMMA SetInduction ==
    ASSUME NEW T, 0 \in T, \A n \in Nat : n \in T => n + 1 \in T
    PROVE  Nat \subseteq T
<1> SUFFICES ASSUME Nat \ T # {} PROVE FALSE
  OBVIOUS
<1>1. PICK x \in Nat \ T : \A y \in Nat \ T : ~(<<y, x>> \in OpToRel(<, Nat))
  <2>1. (Nat \ T) \subseteq Nat
    OBVIOUS
  <2> QED  BY NatLessThanWellFounded, WFMin, <2>1, Zenon
<1>2. \A y \in Nat \ T : ~(y < x)
  BY <1>1 DEF OpToRel
<1>3. x # 0 /\ x - 1 \in Nat
  OBVIOUS
<1>4. x - 1 \in T
  BY <1>2, <1>3
<1> QED  BY <1>3, <1>4

\* A set of one more element has an element, without which it is as large as before.
LEMMA OneLess ==
    ASSUME NEW S, IsFiniteSet(S), NEW n \in Nat, Cardinality(S) = n + 1
    PROVE  S # {} /\ \A x \in S : Cardinality(S \ {x}) = n
<1>1. S # {}
  BY FS_EmptySet
<1>2. \A x \in S : Cardinality(S \ {x}) = Cardinality(S) - 1
  BY FS_RemoveElement
<1>3. (n + 1) - 1 = n
  OBVIOUS
<1> QED  BY <1>1, <1>2, <1>3

\* Induction over the subsets of a finite set, as a fact about sets of them.
LEMMA SubsetInduction ==
    ASSUME NEW S, IsFiniteSet(S), NEW Z, {} \in Z,
           \A U \in SUBSET S : \A x \in S \ U : U \in Z => U \cup {x} \in Z
    PROVE  S \in Z
<1> DEFINE T == {n \in Nat : \A U \in SUBSET S : Cardinality(U) = n => U \in Z}
<1>1. 0 \in T
  BY FS_EmptySet, FS_Subset
<1>2. ASSUME NEW n \in Nat, n \in T PROVE n + 1 \in T
  <2> SUFFICES ASSUME NEW U \in SUBSET S, Cardinality(U) = n + 1 PROVE U \in Z
    OBVIOUS
  <2>1. IsFiniteSet(U) /\ U # {}
    BY FS_Subset, FS_EmptySet
  <2>2. PICK x \in U : TRUE
    BY <2>1
  <2>3. Cardinality(U \ {x}) = n
    BY <2>1, OneLess
  <2>4. U \ {x} \in Z
    BY <1>2, <2>3
  <2>5. U = (U \ {x}) \cup {x} /\ x \in S \ (U \ {x})
    OBVIOUS
  <2> QED  BY <2>4, <2>5
<1>3. Nat \subseteq T
  <2> HIDE DEF T
  <2> QED  BY <1>1, <1>2, SetInduction
<1> QED  BY <1>3, FS_CardinalityType
-----------------------------------------------------------------------------
(* Sums over finite sets.                                                  *)

Pick(s) == CHOOSE x \in s : TRUE
SumStep(g, F, s) == IF s = {} THEN 0 ELSE F[Pick(s)] + g[s \ {Pick(s)}]
Sums(g, F, S) == g = [s \in SUBSET S |-> IF s = {} THEN 0 ELSE F[Pick(s)] + g[s \ {Pick(s)}]]
SumF(F, S) == (CHOOSE g : Sums(g, F, S))[S]

\* What Pick takes of a set is in it.
LEMMA PickIn == ASSUME NEW s, s # {} PROVE Pick(s) \in s
BY DEF Pick

\* There is a function that sums F over every subset of a finite set.
LEMMA SumsExist ==
    ASSUME NEW F, NEW S, IsFiniteSet(S)
    PROVE  \E g : Sums(g, F, S)
<1> DEFINE Follow(g) == [s \in SUBSET S |-> SumStep(g, F, s)]
           Upto(n) == \E g : /\ g = [s \in SUBSET S |-> g[s]]
                             /\ \A s \in SUBSET S : Cardinality(s) <= n => g[s] = SumStep(g, F, s)
           T == {n \in Nat : Upto(n)}
<1>1. 0 \in T
  <2> DEFINE g == [s \in SUBSET S |-> 0]
  <2>1. \A s \in SUBSET S : Cardinality(s) <= 0 => s = {}
    BY FS_EmptySet, FS_Subset, FS_CardinalityType
  <2>2. \A s \in SUBSET S : Cardinality(s) <= 0 => g[s] = SumStep(g, F, s)
    BY <2>1 DEF SumStep
  <2>3. g = [s \in SUBSET S |-> g[s]]
    OBVIOUS
  <2>4. Upto(0)
    <3> HIDE DEF g
    <3> QED  BY <2>2, <2>3
  <2> QED  BY <2>4
<1>2. ASSUME NEW n \in Nat, n \in T PROVE n + 1 \in T
  <2>1. PICK g : \A s \in SUBSET S : Cardinality(s) <= n => g[s] = SumStep(g, F, s)
    BY <1>2
  <2> DEFINE h == Follow(g)
  <2>2. ASSUME NEW s \in SUBSET S, Cardinality(s) <= n + 1 PROVE h[s] = SumStep(h, F, s)
    <3>1. CASE s = {}
      BY <3>1 DEF SumStep
    <3>2. CASE s # {}
      <4>1. Pick(s) \in s /\ IsFiniteSet(s) /\ s \ {Pick(s)} \in SUBSET S
        BY <3>2, PickIn, FS_Subset
      <4>2. Cardinality(s \ {Pick(s)}) = Cardinality(s) - 1 /\ Cardinality(s) \in Nat
        BY <4>1, FS_RemoveElement, FS_CardinalityType
      <4>3. Cardinality(s \ {Pick(s)}) <= n
        BY <4>2, <2>2
      <4>4. g[s \ {Pick(s)}] = h[s \ {Pick(s)}]
        BY <4>1, <4>3, <2>1
      <4> QED  BY <4>4, <3>2 DEF SumStep
    <3> QED  BY <3>1, <3>2
  <2>3. h = [s \in SUBSET S |-> h[s]]
    OBVIOUS
  <2>4. Upto(n + 1)
    <3>1. \A s \in SUBSET S : Cardinality(s) <= n + 1 => h[s] = SumStep(h, F, s)
      BY <2>2
    <3> HIDE DEF h
    <3> QED  BY <3>1, <2>3
  <2> HIDE DEF Upto
  <2> QED  BY <2>4
<1>3. Nat \subseteq T
  <2> HIDE DEF T
  <2> QED  BY <1>1, <1>2, SetInduction
<1>4. Cardinality(S) \in Nat /\ \A s \in SUBSET S : Cardinality(s) <= Cardinality(S)
  BY FS_CardinalityType, FS_Subset
<1>5. PICK g : /\ g = [s \in SUBSET S |-> g[s]]
               /\ \A s \in SUBSET S : Cardinality(s) <= Cardinality(S) => g[s] = SumStep(g, F, s)
  BY <1>3, <1>4
<1>6. g = [s \in SUBSET S |-> SumStep(g, F, s)]
  BY <1>4, <1>5
<1> QED  BY <1>6 DEF Sums, SumStep

\* Two sums over sets with a common subset agree on it.
LEMMA SumsUnique ==
    ASSUME NEW F, NEW S, NEW T, IsFiniteSet(T), T \subseteq S,
           NEW g, NEW h, Sums(g, F, S), Sums(h, F, T)
    PROVE  g[T] = h[T]
<1> DEFINE N == {n \in Nat : \A s \in SUBSET T : Cardinality(s) = n => g[s] = h[s]}
<1>0. /\ \A s \in SUBSET S : g[s] = IF s = {} THEN 0 ELSE F[Pick(s)] + g[s \ {Pick(s)}]
      /\ \A s \in SUBSET T : h[s] = IF s = {} THEN 0 ELSE F[Pick(s)] + h[s \ {Pick(s)}]
  BY DEF Sums
<1>1. 0 \in N
  <2>1. \A s \in SUBSET T : Cardinality(s) = 0 => s = {}
    BY FS_EmptySet, FS_Subset
  <2> QED  BY <2>1, <1>0
<1>2. ASSUME NEW n \in Nat, n \in N PROVE n + 1 \in N
  <2> SUFFICES ASSUME NEW s \in SUBSET T, Cardinality(s) = n + 1 PROVE g[s] = h[s]
    OBVIOUS
  <2>1. IsFiniteSet(s) /\ s # {}
    BY FS_Subset, FS_EmptySet
  <2>2. Pick(s) \in s
    BY <2>1, PickIn
  <2>3. Cardinality(s \ {Pick(s)}) = n /\ s \ {Pick(s)} \in SUBSET T
    BY <2>1, <2>2, OneLess
  <2>4. g[s \ {Pick(s)}] = h[s \ {Pick(s)}]
    BY <1>2, <2>3
  <2> QED  BY <2>1, <2>4, <1>0
<1>3. Nat \subseteq N
  <2> HIDE DEF N
  <2> QED  BY <1>1, <1>2, SetInduction
<1> QED  BY <1>3, FS_CardinalityType

\* What the operators on sums are proved to compute: a fold's function is a sum.
LEMMA SumIs ==
    ASSUME NEW F, NEW S, IsFiniteSet(S), NEW T, T \subseteq S, NEW g, Sums(g, F, S)
    PROVE  g[T] = SumF(F, T)
<1>1. IsFiniteSet(T)
  BY FS_Subset
<1>2. Sums(CHOOSE h : Sums(h, F, T), F, T)
  BY <1>1, SumsExist
<1> QED  BY <1>1, <1>2, SumsUnique DEF SumF

\* The sum over no element.
LEMMA SumEmpty == ASSUME NEW F PROVE SumF(F, {}) = 0
<1>1. PICK g : Sums(g, F, {})
  BY SumsExist, FS_EmptySet
<1>2. g[{}] = 0
  BY <1>1 DEF Sums
<1>3. IsFiniteSet({})
  BY FS_EmptySet
<1> QED  BY <1>1, <1>2, <1>3, SumIs

\* A sum is the picked element's value and the sum of the others.
LEMMA SumPick ==
    ASSUME NEW F, NEW S, IsFiniteSet(S), S # {}
    PROVE  SumF(F, S) = F[Pick(S)] + SumF(F, S \ {Pick(S)})
<1>1. PICK g : Sums(g, F, S)
  BY SumsExist
<1>2. g[S] = F[Pick(S)] + g[S \ {Pick(S)}]
  BY <1>1 DEF Sums
<1> QED  BY <1>1, <1>2, SumIs

\* A sum of integers is an integer.
LEMMA SumInt ==
    ASSUME NEW F, NEW S, IsFiniteSet(S), \A x \in S : F[x] \in Int
    PROVE  SumF(F, S) \in Int
<1> DEFINE N == {n \in Nat : \A s \in SUBSET S : Cardinality(s) = n => SumF(F, s) \in Int}
<1>1. 0 \in N
  <2>1. \A s \in SUBSET S : Cardinality(s) = 0 => s = {}
    BY FS_EmptySet, FS_Subset
  <2> QED  BY <2>1, SumEmpty
<1>2. ASSUME NEW n \in Nat, n \in N PROVE n + 1 \in N
  <2> SUFFICES ASSUME NEW s \in SUBSET S, Cardinality(s) = n + 1 PROVE SumF(F, s) \in Int
    OBVIOUS
  <2>1. IsFiniteSet(s) /\ s # {}
    BY FS_Subset, FS_EmptySet
  <2>2. Pick(s) \in s /\ F[Pick(s)] \in Int
    BY <2>1, PickIn
  <2>3. Cardinality(s \ {Pick(s)}) = n /\ s \ {Pick(s)} \in SUBSET S
    BY <2>1, <2>2, OneLess
  <2>4. SumF(F, s \ {Pick(s)}) \in Int
    BY <1>2, <2>3
  <2> QED  BY <2>1, <2>2, <2>4, SumPick
<1>3. Nat \subseteq N
  <2> HIDE DEF N
  <2> QED  BY <1>1, <1>2, SetInduction
<1> QED  BY <1>3, FS_CardinalityType

\* ... and so for any element: the order in which elements are picked is no matter.
LEMMA SumRemove ==
    ASSUME NEW F, NEW S, IsFiniteSet(S), \A x \in S : F[x] \in Int, NEW a \in S
    PROVE  SumF(F, S) = F[a] + SumF(F, S \ {a})
<1> DEFINE N == {n \in Nat : \A s \in SUBSET S : Cardinality(s) = n =>
                    \A x \in s : SumF(F, s) = F[x] + SumF(F, s \ {x})}
<1>1. 0 \in N
  BY FS_EmptySet, FS_Subset
<1>2. ASSUME NEW n \in Nat, n \in N PROVE n + 1 \in N
  <2> SUFFICES ASSUME NEW s \in SUBSET S, Cardinality(s) = n + 1, NEW x \in s
               PROVE  SumF(F, s) = F[x] + SumF(F, s \ {x})
    OBVIOUS
  <2> DEFINE p == Pick(s)
  <2>1. IsFiniteSet(s) /\ s # {} /\ p \in s
    BY FS_Subset, FS_EmptySet, PickIn
  <2>2. SumF(F, s) = F[p] + SumF(F, s \ {p})
    BY <2>1, SumPick
  <2> HIDE DEF p
  <2>3. CASE x = p
    BY <2>2, <2>3
  <2>4. CASE x # p
    <3>1. /\ Cardinality(s \ {p}) = n /\ s \ {p} \in SUBSET S /\ x \in s \ {p}
          /\ Cardinality(s \ {x}) = n /\ s \ {x} \in SUBSET S /\ p \in s \ {x}
      BY <2>1, <2>4, OneLess
    <3>2. /\ SumF(F, s \ {p}) = F[x] + SumF(F, (s \ {p}) \ {x})
          /\ SumF(F, s \ {x}) = F[p] + SumF(F, (s \ {x}) \ {p})
      BY <1>2, <3>1
    <3>3. (s \ {p}) \ {x} = (s \ {x}) \ {p}
      OBVIOUS
    <3>4. IsFiniteSet((s \ {x}) \ {p}) /\ \A y \in (s \ {x}) \ {p} : F[y] \in Int
      BY <2>1, FS_Subset
    <3>5. SumF(F, (s \ {x}) \ {p}) \in Int /\ F[x] \in Int /\ F[p] \in Int
      BY <3>4, SumInt, <2>1
    <3> DEFINE rest == SumF(F, (s \ {x}) \ {p})
    <3>6. /\ SumF(F, s) = F[p] + (F[x] + rest) /\ SumF(F, s \ {x}) = F[p] + rest
          /\ rest \in Int
      BY <2>2, <3>2, <3>3, <3>5
    <3> HIDE DEF rest
    <3> QED  BY <3>5, <3>6
  <2> QED  BY <2>3, <2>4
<1>3. Nat \subseteq N
  <2> HIDE DEF N
  <2> QED  BY <1>1, <1>2, SetInduction
<1> QED  BY <1>3, FS_CardinalityType

\* An element more adds its value.
LEMMA SumAdd ==
    ASSUME NEW F, NEW S, IsFiniteSet(S), NEW a, a \notin S, \A x \in S \cup {a} : F[x] \in Int
    PROVE  SumF(F, S \cup {a}) = F[a] + SumF(F, S)
<1>1. IsFiniteSet(S \cup {a}) /\ (S \cup {a}) \ {a} = S
  BY FS_AddElement
<1> QED  BY <1>1, SumRemove

\* Functions that agree on a set have one sum over it.
LEMMA SumCong ==
    ASSUME NEW F, NEW G, NEW S, IsFiniteSet(S), \A x \in S : F[x] = G[x]
    PROVE  SumF(F, S) = SumF(G, S)
<1>1. PICK g : Sums(g, F, S)
  BY SumsExist
<1>2. \A s \in SUBSET S : s # {} => F[Pick(s)] = G[Pick(s)]
  BY PickIn
<1>3. Sums(g, G, S)
  BY <1>1, <1>2 DEF Sums
<1> QED  BY <1>1, <1>3, SumIs

\* A sum of naturals is a natural.
LEMMA SumNat ==
    ASSUME NEW F, NEW S, IsFiniteSet(S), \A x \in S : F[x] \in Nat
    PROVE  SumF(F, S) \in Nat
<1> DEFINE Z == {s \in SUBSET S : SumF(F, s) \in Nat}
<1>1. {} \in Z
  BY SumEmpty
<1>2. ASSUME NEW U \in SUBSET S, NEW x \in S \ U, U \in Z PROVE U \cup {x} \in Z
  <2>1. IsFiniteSet(U) /\ \A y \in U \cup {x} : F[y] \in Int
    BY FS_Subset
  <2>2. SumF(F, U \cup {x}) = F[x] + SumF(F, U)
    BY <2>1, SumAdd
  <2> QED  BY <1>2, <2>2
<1> HIDE DEF Z
<1>3. S \in Z
  BY <1>1, <1>2, SubsetInduction
<1> QED  BY <1>3 DEF Z

\* The sum over two sets without a common element.
LEMMA SumUnion ==
    ASSUME NEW F, NEW S, NEW T, IsFiniteSet(S), IsFiniteSet(T), S \cap T = {},
           \A x \in S \cup T : F[x] \in Int
    PROVE  SumF(F, S \cup T) = SumF(F, S) + SumF(F, T)
<1> DEFINE Z == {U \in SUBSET T : SumF(F, S \cup U) = SumF(F, S) + SumF(F, U)}
<1>0. SumF(F, S) \in Int
  BY SumInt
<1>1. {} \in Z
  <2>1. S \cup {} = S
    OBVIOUS
  <2> QED  BY <1>0, <2>1, SumEmpty
<1>2. ASSUME NEW U \in SUBSET T, NEW x \in T \ U, U \in Z PROVE U \cup {x} \in Z
  <2>1. /\ IsFiniteSet(U) /\ IsFiniteSet(S \cup U) /\ x \notin S \cup U
        /\ S \cup (U \cup {x}) = (S \cup U) \cup {x}
        /\ \A y \in U \cup {x} : F[y] \in Int
        /\ \A y \in (S \cup U) \cup {x} : F[y] \in Int
    BY FS_Subset, FS_Union
  <2>2. /\ SumF(F, U \cup {x}) = F[x] + SumF(F, U)
        /\ SumF(F, S \cup (U \cup {x})) = F[x] + SumF(F, S \cup U)
    BY <2>1, SumAdd
  <2>3. SumF(F, U) \in Int /\ F[x] \in Int
    BY <2>1, SumInt
  <2>4. SumF(F, S \cup U) = SumF(F, S) + SumF(F, U)
    BY <1>2
  <2>5. SumF(F, S \cup (U \cup {x})) = SumF(F, S) + SumF(F, U \cup {x})
    BY <2>2, <2>3, <2>4, <1>0
  <2> QED  BY <2>5
<1> HIDE DEF Z
<1>3. T \in Z
  BY <1>1, <1>2, SubsetInduction
<1> QED  BY <1>3 DEF Z

\* A cardinality is a sum of ones.
LEMMA SumOnes ==
    ASSUME NEW F, NEW S, IsFiniteSet(S), \A x \in S : F[x] = 1
    PROVE  SumF(F, S) = Cardinality(S)
<1> DEFINE Z == {s \in SUBSET S : SumF(F, s) = Cardinality(s)}
<1>1. {} \in Z
  BY SumEmpty, FS_EmptySet
<1>2. ASSUME NEW U \in SUBSET S, NEW x \in S \ U, U \in Z PROVE U \cup {x} \in Z
  <2>1. IsFiniteSet(U) /\ \A y \in U \cup {x} : F[y] = 1
    BY FS_Subset
  <2>2. SumF(F, U \cup {x}) = 1 + SumF(F, U)
    BY <2>1, SumAdd
  <2>3. Cardinality(U \cup {x}) = Cardinality(U) + 1 /\ Cardinality(U) \in Nat
    BY <2>1, FS_AddElement, FS_CardinalityType
  <2> QED  BY <1>2, <2>2, <2>3
<1> HIDE DEF Z
<1>3. S \in Z
  BY <1>1, <1>2, SubsetInduction
<1> QED  BY <1>3 DEF Z
-----------------------------------------------------------------------------
(* Sums over the parts of a set.                                           *)

\* The parts Q[d] of a set are apart.
Apart(Q, D) == \A d, e \in D : d # e => Q[d] \cap Q[e] = {}
Parts(Q, D) == UNION {Q[d] : d \in D}

\* Every part of a finite set is finite.
LEMMA PartsFinite ==
    ASSUME NEW Q, NEW D, IsFiniteSet(D), \A d \in D : IsFiniteSet(Q[d])
    PROVE  IsFiniteSet(Parts(Q, D))
<1> DEFINE Z == {U \in SUBSET D : IsFiniteSet(Parts(Q, U))}
<1>1. {} \in Z
  <2>1. Parts(Q, {}) = {}
    BY DEF Parts
  <2> QED  BY <2>1, FS_EmptySet
<1>2. ASSUME NEW U \in SUBSET D, NEW x \in D \ U, U \in Z PROVE U \cup {x} \in Z
  <2>1. Parts(Q, U \cup {x}) = Parts(Q, U) \cup Q[x]
    BY DEF Parts
  <2> QED  BY <1>2, <2>1, FS_Union
<1> HIDE DEF Z
<1>3. D \in Z
  BY <1>1, <1>2, SubsetInduction
<1> QED  BY <1>3 DEF Z

\* A sum over all the parts is the sum of the sums over each.
LEMMA SumPartition ==
    ASSUME NEW F, NEW Q, NEW D, IsFiniteSet(D), Apart(Q, D), NEW G,
           \A d \in D : /\ IsFiniteSet(Q[d]) /\ \A x \in Q[d] : F[x] \in Int
                        /\ G[d] = SumF(F, Q[d])
    PROVE  SumF(G, D) = SumF(F, Parts(Q, D))
<1> DEFINE Z == {U \in SUBSET D : SumF(G, U) = SumF(F, Parts(Q, U))}
<1>1. {} \in Z
  <2>1. Parts(Q, {}) = {}
    BY DEF Parts
  <2> QED  BY <2>1, SumEmpty
<1>2. ASSUME NEW U \in SUBSET D, NEW d \in D \ U, U \in Z PROVE U \cup {d} \in Z
  <2>1. Parts(Q, U \cup {d}) = Parts(Q, U) \cup Q[d]
    BY DEF Parts
  <2>2. Parts(Q, U) \cap Q[d] = {}
    BY DEF Parts, Apart
  <2>3. IsFiniteSet(U) /\ IsFiniteSet(Parts(Q, U)) /\ IsFiniteSet(Q[d])
    BY FS_Subset, PartsFinite
  <2>4. \A x \in Parts(Q, U) \cup Q[d] : F[x] \in Int
    BY DEF Parts
  <2>5. SumF(F, Parts(Q, U) \cup Q[d]) = SumF(F, Parts(Q, U)) + SumF(F, Q[d])
    BY <2>2, <2>3, <2>4, SumUnion
  <2>6. \A e \in U \cup {d} : G[e] \in Int
    BY SumInt
  <2>7. SumF(G, U \cup {d}) = G[d] + SumF(G, U)
    BY <2>3, <2>6, SumAdd
  <2>8. SumF(F, Parts(Q, U)) \in Int /\ SumF(F, Q[d]) \in Int
    BY <2>3, <2>4, SumInt
  <2>9. SumF(G, U) = SumF(F, Parts(Q, U)) /\ G[d] = SumF(F, Q[d])
    BY <1>2
  <2>a. \A a, b \in Int : a + b = b + a
    OBVIOUS
  <2>b. SumF(F, Parts(Q, U)) + SumF(F, Q[d]) = SumF(F, Q[d]) + SumF(F, Parts(Q, U))
    BY <2>a, <2>8
  <2>10. SumF(G, U \cup {d}) = SumF(F, Parts(Q, U \cup {d}))
    BY <2>1, <2>5, <2>7, <2>9, <2>b
  <2> QED  BY <2>10
<1> HIDE DEF Z
<1>3. D \in Z
  BY <1>1, <1>2, SubsetInduction
<1> QED  BY <1>3 DEF Z

\* The parts' cardinalities add up.
LEMMA CardPartition ==
    ASSUME NEW Q, NEW D, IsFiniteSet(D), Apart(Q, D), NEW G,
           \A d \in D : IsFiniteSet(Q[d]) /\ G[d] = Cardinality(Q[d])
    PROVE  SumF(G, D) = Cardinality(Parts(Q, D))
<1> DEFINE one == [x \in Parts(Q, D) |-> 1]
<1>0. \A d \in D : \A x \in Q[d] : x \in Parts(Q, D)
  BY DEF Parts
<1>1. \A d \in D : \A x \in Q[d] : one[x] = 1
  BY <1>0
<1>2. \A x \in Parts(Q, D) : one[x] = 1
  OBVIOUS
<1> HIDE DEF one
<1>3. \A d \in D : G[d] = SumF(one, Q[d])
  BY <1>1, SumOnes
<1>4. \A d \in D : \A x \in Q[d] : one[x] \in Int
  BY <1>1
<1>5. SumF(G, D) = SumF(one, Parts(Q, D))
  BY <1>3, <1>4, SumPartition
<1>6. SumF(one, Parts(Q, D)) = Cardinality(Parts(Q, D))
  BY <1>2, PartsFinite, SumOnes
<1> QED  BY <1>5, <1>6

\* What the code's sums are.
LEMMA SumFunctionIs ==
    ASSUME NEW f, IsFiniteSet(DOMAIN f)
    PROVE  An!SumFunction(f) = SumF(f, DOMAIN f)
<1> DEFINE S == DOMAIN f
           Eq(g) == g = [s \in SUBSET S |->
                           IF s = {} THEN 0 ELSE f[CHOOSE x \in s : TRUE] + g[s \ {CHOOSE x \in s : TRUE}]]
<1>1. An!SumFunction(f) = (CHOOSE g : Eq(g))[S]
  BY DEF An!SumFunction, An!SumFunctionOnSet, An!FoldFunction, An!FoldFunctionOnSet, An!MapThenFoldSet
<1>2. \A g : Eq(g) <=> Sums(g, f, S)
  BY DEF Sums, Pick
<1>3. \E g : Sums(g, f, S)
  BY SumsExist
<1> HIDE DEF Eq
<1>4. \E g : Eq(g)
  BY <1>2, <1>3
<1>5. Eq(CHOOSE g : Eq(g))
  BY <1>4
<1>6. Sums(CHOOSE g : Eq(g), f, S)
  BY <1>2, <1>5
<1>7. (CHOOSE g : Eq(g))[S] = SumF(f, S)
  BY <1>6, SumIs
<1> QED  BY <1>1, <1>7
-----------------------------------------------------------------------------
(* What the operators of Analytics compute.                                *)

\* Analytics counts with the cardinality this module knows.
LEMMA AnSets ==
    /\ \A S : An!Cardinality(S) = Cardinality(S)
    /\ \A S : An!IsFiniteSet(S) <=> IsFiniteSet(S)
  BY DEF An!Cardinality, Cardinality, An!IsFiniteSet, IsFiniteSet

\* The greatest of a finite set of integers.
LEMMA MaxIs ==
    ASSUME NEW S, IsFiniteSet(S), S \subseteq Int, S # {}
    PROVE  An!Max(S) \in S /\ \A x \in S : x <= An!Max(S)
<1> DEFINE Z == {U \in SUBSET S : U # {} => \E m \in U : \A x \in U : m >= x}
<1>1. {} \in Z
  OBVIOUS
<1>2. ASSUME NEW U \in SUBSET S, NEW x \in S \ U, U \in Z PROVE U \cup {x} \in Z
  <2>1. CASE U = {}
    <3>1. x \in U \cup {x} /\ \A y \in U \cup {x} : x >= y
      BY <2>1
    <3> QED  BY <3>1
  <2>2. CASE U # {}
    <3>1. PICK m \in U : \A y \in U : m >= y
      BY <1>2, <2>2
    <3>2. CASE m >= x
      <4>1. m \in U \cup {x} /\ \A y \in U \cup {x} : m >= y
        BY <3>1, <3>2
      <4> QED  BY <4>1
    <3>3. CASE ~(m >= x)
      <4>1. \A y \in U \cup {x} : x >= y
        BY <3>1, <3>3
      <4> QED  BY <4>1
    <3> QED  BY <3>2, <3>3
  <2> QED  BY <2>1, <2>2
<1>3. S \in Z
  <2> HIDE DEF Z
  <2> QED  BY <1>1, <1>2, SubsetInduction
<1>4. \E m \in S : \A x \in S : m >= x
  BY <1>3
<1>5. An!Max(S) \in S /\ \A x \in S : An!Max(S) >= x
  BY <1>4 DEF An!Max
<1> QED  BY <1>5

\* A time lies within the ten units of its day.
LEMMA TenToADay ==
    \A n \in Nat : /\ n \div 10 \in Nat /\ 10 * (n \div 10) <= n
                  /\ n < 10 * (n \div 10) + 10
  OBVIOUS

\* Every row is before the horizon, on one of the days.
LEMMA Horizon ==
    ASSUME An!KnownRows, Rows # {}
    PROVE  /\ An!Max(An!Days) \in Nat /\ An!Days = 0..An!Max(An!Days)
           /\ \A r \in Rows : r.ts \in Nat /\ r.ts < 10 * An!Max(An!Days)
<1> DEFINE D == {An!Day(r) : r \in Rows}
           m == An!Max(D)
<1>1. IsFiniteSet(Rows) /\ \A r \in Rows : r.ts \in Nat
  BY AnSets DEF An!KnownRows
<1>2. IsFiniteSet(D) /\ D # {}
  <2> DEFINE f == [r \in Rows |-> An!Day(r)]
  <2>1. f \in Surjection(Rows, D)
    BY DEF Surjection
  <2> QED  BY <2>1, <1>1, FS_Surjection
<1>3. \A r \in Rows : An!Day(r) \in Nat /\ r.ts < 10 * An!Day(r) + 10
  BY <1>1, TenToADay DEF An!Day
<1>4. D \subseteq Int
  BY <1>3
<1>5. m \in D /\ \A x \in D : x <= m
  <2> HIDE DEF D
  <2> QED  BY <1>2, <1>4, MaxIs
<1>7. An!Days = 0..(1 + m)
  BY DEF An!Days
<1> HIDE DEF m
<1>6. m \in Nat /\ \A r \in Rows : An!Day(r) <= m
  BY <1>3, <1>5
<1>8. IsFiniteSet(0..(1 + m)) /\ 0..(1 + m) \subseteq Int /\ 0..(1 + m) # {}
  <2>1. 0 \in Int /\ 1 + m \in Int /\ 0 \in 0..(1 + m)
    BY <1>6
  <2> QED  BY <2>1, FS_Interval
<1>9. An!Max(An!Days) \in 0..(1 + m) /\ \A x \in 0..(1 + m) : x <= An!Max(An!Days)
  BY <1>7, <1>8, MaxIs
<1>10. An!Max(An!Days) = 1 + m
  BY <1>6, <1>9
<1>11. ASSUME NEW r \in Rows PROVE r.ts < 10 * (1 + m)
  <2> DEFINE d == An!Day(r)
             ts == r.ts
  <2>1. d \in Nat /\ d <= m /\ ts < 10 * d + 10 /\ ts \in Nat
    BY <1>1, <1>3, <1>6
  <2> HIDE DEF d, ts
  <2>2. ts < 10 * (1 + m)
    BY <2>1, <1>6
  <2> QED  BY <2>2 DEF ts
<1> QED  BY <1>1, <1>6, <1>7, <1>10, <1>11

\* The rows of the table are those the view has added.
AnInv ==
    /\ an_table \subseteq Rows /\ an_rolled \in [Rows -> Nat]
    /\ \A r \in Rows : r \in an_table <=> an_rolled[r] > 0

\* A tenant's rows of all time are its rows of the table.
LEMMA AllIs ==
    ASSUME An!KnownRows, AnInv, NEW t
    PROVE  /\ An!All(t) = {r \in an_table : r.tenant = t}
           /\ IsFiniteSet(An!All(t)) /\ An!All(t) \subseteq Rows
<1>1. CASE Rows = {}
  BY <1>1, FS_EmptySet DEF AnInv, An!All, An!Scope
<1>2. CASE Rows # {}
  <2>1. An!All(t) = {r \in an_table : r.tenant = t}
    BY <1>2, Horizon DEF AnInv, An!All, An!Scope
  <2>2. IsFiniteSet(Rows)
    BY AnSets DEF An!KnownRows
  <2> QED  BY <2>1, <2>2, FS_Subset DEF AnInv
<1> QED  BY <1>1, <1>2

\* A metric is a field of METRICS, whatever its groups.
LEMMA MetricIs ==
    ASSUME NEW E
    PROVE  /\ An!Metric("task_success_rate", E).all =
                An!Ratio(An!N(An!Of(E, An!END_EVENTS), {"task_completed"}), An!Cardinality(An!Of(E, An!END_EVENTS)))
           /\ An!Metric("abandonment_rate", E).all =
                An!Ratio(An!N(E, {"task_abandoned"}), An!Cardinality(An!Of(E, An!END_EVENTS)))
           /\ An!Metric("cost_per_completed_task", E).all = An!Ratio(An!Total(E, "cost"), An!N(E, {"task_completed"}))
           /\ An!Metric("loop_retry_ratio", E).all =
                An!Ratio(An!Cardinality({r \in An!Steps(E) : r.retry # ""}), An!Cardinality(An!Steps(E)))
           /\ An!Metric("human_edit_distance", E).all =
                An!Ratio(An!Total(An!Of(E, {"human_edited"}), "magnitude"), An!N(E, {"human_edited"}))
           /\ An!Metric("delegation_share", E).all =
                An!Ratio(An!Cardinality({r \in An!Of(E, {"task_started"}) : r.initiator \in {"agent", "schedule"}}),
                         An!Cardinality(An!Of(E, {"task_started"})))
  BY DEF An!Metric, An!METRICS, An!Single

\* What weighs nothing adds nothing.
LEMMA SumZero ==
    ASSUME NEW F, NEW S, IsFiniteSet(S), \A x \in S : F[x] = 0
    PROVE  SumF(F, S) = 0
<1> DEFINE Z == {s \in SUBSET S : SumF(F, s) = 0}
<1>1. {} \in Z
  BY SumEmpty
<1>2. ASSUME NEW U \in SUBSET S, NEW x \in S \ U, U \in Z PROVE U \cup {x} \in Z
  <2>1. IsFiniteSet(U) /\ \A y \in U \cup {x} : F[y] \in Int
    BY FS_Subset
  <2>2. SumF(F, U \cup {x}) = F[x] + SumF(F, U)
    BY <2>1, SumAdd
  <2> QED  BY <1>2, <2>2
<1> HIDE DEF Z
<1>3. S \in Z
  BY <1>1, <1>2, SubsetInduction
<1> QED  BY <1>3 DEF Z

\* A sum over some rows is one over all in which the others weigh nothing.
LEMMA SumFilter ==
    ASSUME NEW S, NEW W, IsFiniteSet(S), W \subseteq S, NEW F, NEW G,
           \A x \in W : F[x] \in Int /\ G[x] = F[x], \A x \in S \ W : G[x] = 0
    PROVE  SumF(G, S) = SumF(F, W)
<1>1. S = W \cup (S \ W) /\ W \cap (S \ W) = {} /\ IsFiniteSet(W) /\ IsFiniteSet(S \ W)
  BY FS_Subset
<1>2. \A x \in W \cup (S \ W) : G[x] \in Int
  OBVIOUS
<1>3. SumF(G, W \cup (S \ W)) = SumF(G, W) + SumF(G, S \ W)
  BY <1>1, <1>2, SumUnion
<1>4. SumF(G, W) = SumF(F, W) /\ SumF(F, W) \in Int
  BY <1>1, SumCong, SumInt
<1>5. SumF(G, S \ W) = 0
  BY <1>1, SumZero
<1>6. SumF(F, W) + 0 = SumF(F, W)
  BY <1>4
<1> QED  BY <1>1, <1>3, <1>4, <1>5, <1>6

\* The cardinality of some rows is a sum of ones and zeros over all.
LEMMA CardIs ==
    ASSUME NEW S, NEW W, IsFiniteSet(S), W \subseteq S, NEW G,
           \A x \in W : G[x] = 1, \A x \in S \ W : G[x] = 0
    PROVE  An!Cardinality(W) = SumF(G, S)
<1>1. SumF(G, S) = SumF(G, W)
  BY SumFilter
<1>2. SumF(G, W) = Cardinality(W)
  BY FS_Subset, SumOnes
<1> QED  BY <1>1, <1>2, AnSets

\* The total of a column is the sum of its values.
LEMMA TotalIs ==
    ASSUME NEW S, NEW W, IsFiniteSet(S), W \subseteq S, NEW f, NEW G,
           \A x \in W : x[f] \in Int /\ G[x] = x[f], \A x \in S \ W : G[x] = 0
    PROVE  An!Total(W, f) = SumF(G, S)
<1> DEFINE F == [r \in W |-> r[f]]
<1>1. An!Total(W, f) = An!SumFunction(F)
  BY DEF An!Total
<1>2. DOMAIN F = W /\ IsFiniteSet(W) /\ \A x \in W : F[x] \in Int /\ G[x] = F[x]
  BY FS_Subset
<1> HIDE DEF F
<1>3. An!SumFunction(F) = SumF(F, W)
  BY <1>2, SumFunctionIs
<1>4. SumF(G, S) = SumF(F, W)
  BY <1>2, SumFilter
<1> QED  BY <1>1, <1>3, <1>4
-----------------------------------------------------------------------------
(* What a row adds to a metric.                                            *)

\* What a row adds to the numerator and the denominator of a metric.
One(c) == IF c THEN 1 ELSE 0
Num == [
    task_success_rate |-> [r \in Rows |-> One(r.event = "task_completed")],
    abandonment_rate |-> [r \in Rows |-> One(r.event = "task_abandoned")],
    cost_per_completed_task |-> [r \in Rows |-> r.cost],
    loop_retry_ratio |-> [r \in Rows |-> One(r.event = "step_executed" /\ r.retry # "")],
    human_edit_distance |-> [r \in Rows |-> IF r.event = "human_edited" THEN r.magnitude ELSE 0],
    delegation_share |->
        [r \in Rows |-> One(r.event = "task_started" /\ r.initiator \in {"agent", "schedule"})]]
Den == [
    task_success_rate |-> [r \in Rows |-> One(r.event \in An!END_EVENTS)],
    abandonment_rate |-> [r \in Rows |-> One(r.event \in An!END_EVENTS)],
    cost_per_completed_task |-> [r \in Rows |-> One(r.event = "task_completed")],
    loop_retry_ratio |-> [r \in Rows |-> One(r.event = "step_executed")],
    human_edit_distance |-> [r \in Rows |-> One(r.event = "human_edited")],
    delegation_share |-> [r \in Rows |-> One(r.event = "task_started")]]

\* A weight of one or none is a natural.
LEMMA OneIs == \A c : One(c) \in Nat
  BY DEF One

\* The weights, one metric at a time.
LEMMA WeightIs ==
    \A r \in Rows :
        /\ Num["task_success_rate"][r] = One(r.event = "task_completed")
        /\ Den["task_success_rate"][r] = One(r.event \in An!END_EVENTS)
        /\ Num["abandonment_rate"][r] = One(r.event = "task_abandoned")
        /\ Den["abandonment_rate"][r] = One(r.event \in An!END_EVENTS)
        /\ Num["cost_per_completed_task"][r] = r.cost
        /\ Den["cost_per_completed_task"][r] = One(r.event = "task_completed")
        /\ Num["loop_retry_ratio"][r] = One(r.event = "step_executed" /\ r.retry # "")
        /\ Den["loop_retry_ratio"][r] = One(r.event = "step_executed")
        /\ Num["human_edit_distance"][r] = (IF r.event = "human_edited" THEN r.magnitude ELSE 0)
        /\ Den["human_edit_distance"][r] = One(r.event = "human_edited")
        /\ Num["delegation_share"][r] = One(r.event = "task_started" /\ r.initiator \in {"agent", "schedule"})
        /\ Den["delegation_share"][r] = One(r.event = "task_started")
<1> DEFINE
      a1 == [r \in Rows |-> One(r.event = "task_completed")]
      a2 == [r \in Rows |-> One(r.event = "task_abandoned")]
      a3 == [r \in Rows |-> r.cost]
      a4 == [r \in Rows |-> One(r.event = "step_executed" /\ r.retry # "")]
      a5 == [r \in Rows |-> IF r.event = "human_edited" THEN r.magnitude ELSE 0]
      a6 == [r \in Rows |-> One(r.event = "task_started" /\ r.initiator \in {"agent", "schedule"})]
      b1 == [r \in Rows |-> One(r.event \in An!END_EVENTS)]
      b4 == [r \in Rows |-> One(r.event = "step_executed")]
      b5 == [r \in Rows |-> One(r.event = "human_edited")]
      b6 == [r \in Rows |-> One(r.event = "task_started")]
<1>1. Num = [task_success_rate |-> a1, abandonment_rate |-> a2, cost_per_completed_task |-> a3,
             loop_retry_ratio |-> a4, human_edit_distance |-> a5, delegation_share |-> a6]
  BY DEF Num
<1>2. Den = [task_success_rate |-> b1, abandonment_rate |-> b1, cost_per_completed_task |-> a1,
             loop_retry_ratio |-> b4, human_edit_distance |-> b5, delegation_share |-> b6]
  BY DEF Den
<1>3. \A r \in Rows :
        /\ a1[r] = One(r.event = "task_completed") /\ a2[r] = One(r.event = "task_abandoned")
        /\ a3[r] = r.cost /\ a4[r] = One(r.event = "step_executed" /\ r.retry # "")
        /\ a5[r] = (IF r.event = "human_edited" THEN r.magnitude ELSE 0)
        /\ a6[r] = One(r.event = "task_started" /\ r.initiator \in {"agent", "schedule"})
        /\ b1[r] = One(r.event \in An!END_EVENTS) /\ b4[r] = One(r.event = "step_executed")
        /\ b5[r] = One(r.event = "human_edited") /\ b6[r] = One(r.event = "task_started")
  OBVIOUS
<1> HIDE DEF a1, a2, a3, a4, a5, a6, b1, b4, b5, b6
<1> QED  BY <1>1, <1>2, <1>3

\* The weights are naturals, for every row.
LEMMA WeightsAre ==
    ASSUME An!KnownRows
    PROVE  \A name \in An!Additive, r \in Rows : Num[name][r] \in Nat /\ Den[name][r] \in Nat
<1>1. \A r \in Rows : r.cost \in Nat /\ r.magnitude \in Nat
  BY DEF An!KnownRows
<1>2. ASSUME NEW r \in Rows PROVE \A n \in An!Additive : Num[n][r] \in Nat /\ Den[n][r] \in Nat
  <2>1. Num["task_success_rate"][r] \in Nat /\ Den["task_success_rate"][r] \in Nat
    BY <1>1 DEF Num, Den, One
  <2>2. Num["abandonment_rate"][r] \in Nat /\ Den["abandonment_rate"][r] \in Nat
    BY <1>1 DEF Num, Den, One
  <2>3. Num["cost_per_completed_task"][r] \in Nat /\ Den["cost_per_completed_task"][r] \in Nat
    BY <1>1 DEF Num, Den, One
  <2>4. Num["loop_retry_ratio"][r] \in Nat /\ Den["loop_retry_ratio"][r] \in Nat
    BY <1>1 DEF Num, Den, One
  <2>5. Num["human_edit_distance"][r] \in Nat /\ Den["human_edit_distance"][r] \in Nat
    BY <1>1 DEF Num, Den, One
  <2>6. Num["delegation_share"][r] \in Nat /\ Den["delegation_share"][r] \in Nat
    BY <1>1 DEF Num, Den, One
  <2> QED  BY <2>1, <2>2, <2>3, <2>4, <2>5, <2>6 DEF An!Additive
<1> QED  BY <1>2

\* Each additive metric is its two sums of weights.
LEMMA Weighted ==
    ASSUME An!KnownRows, NEW E, E \subseteq Rows, NEW name \in An!Additive
    PROVE  An!Metric(name, E).all = An!Ratio(SumF(Num[name], E), SumF(Den[name], E))
<1>1. /\ IsFiniteSet(E) /\ E \subseteq Rows
      /\ \A r \in E : r.cost \in Int /\ r.magnitude \in Int
      /\ \A r \in E : r.cost = r["cost"] /\ r.magnitude = r["magnitude"]
  <2>1. IsFiniteSet(Rows)
    BY AnSets DEF An!KnownRows
  <2>2. IsFiniteSet(E)
    BY <2>1, FS_Subset
  <2>3. \A r \in Rows : r.cost \in Nat /\ r.magnitude \in Nat
    BY DEF An!KnownRows
  <2> QED  BY <2>2, <2>3
<1>2. CASE name = "task_success_rate"
  <2>1. An!Cardinality({r \in E : r.event = "task_completed"}) = SumF(Num[name], E)
    <3> DEFINE W == {r \in E : r.event = "task_completed"}
    <3>1. W \subseteq E /\ (\A x \in W : Num[name][x] = 1) /\ \A x \in E \ W : Num[name][x] = 0
      BY <1>1, <1>2, WeightIs DEF One
    <3> HIDE DEF W
    <3>2. An!Cardinality(W) = SumF(Num[name], E)
      BY <1>1, <3>1, CardIs
    <3> QED  BY <3>2 DEF W
  <2>2. An!Cardinality({r \in E : r.event \in An!END_EVENTS}) = SumF(Den[name], E)
    <3> DEFINE W == {r \in E : r.event \in An!END_EVENTS}
    <3>1. W \subseteq E /\ (\A x \in W : Den[name][x] = 1) /\ \A x \in E \ W : Den[name][x] = 0
      BY <1>1, <1>2, WeightIs DEF One
    <3> HIDE DEF W
    <3>2. An!Cardinality(W) = SumF(Den[name], E)
      BY <1>1, <3>1, CardIs
    <3> QED  BY <3>2 DEF W
  <2>3. An!Of(An!Of(E, An!END_EVENTS), {"task_completed"}) = {r \in E : r.event = "task_completed"}
    BY DEF An!Of, An!END_EVENTS
  <2>4. An!Of(E, An!END_EVENTS) = {r \in E : r.event \in An!END_EVENTS}
    BY DEF An!Of
  <2>5. An!Metric("task_success_rate", E).all =
          An!Ratio(An!N(An!Of(E, An!END_EVENTS), {"task_completed"}), An!Cardinality(An!Of(E, An!END_EVENTS)))
    BY MetricIs
  <2> QED  BY <1>2, <2>1, <2>2, <2>3, <2>4, <2>5 DEF An!N
<1>3. CASE name = "abandonment_rate"
  <2>1. An!Cardinality({r \in E : r.event = "task_abandoned"}) = SumF(Num[name], E)
    <3> DEFINE W == {r \in E : r.event = "task_abandoned"}
    <3>1. W \subseteq E /\ (\A x \in W : Num[name][x] = 1) /\ \A x \in E \ W : Num[name][x] = 0
      BY <1>1, <1>3, WeightIs DEF One
    <3> HIDE DEF W
    <3>2. An!Cardinality(W) = SumF(Num[name], E)
      BY <1>1, <3>1, CardIs
    <3> QED  BY <3>2 DEF W
  <2>2. An!Cardinality({r \in E : r.event \in An!END_EVENTS}) = SumF(Den[name], E)
    <3> DEFINE W == {r \in E : r.event \in An!END_EVENTS}
    <3>1. W \subseteq E /\ (\A x \in W : Den[name][x] = 1) /\ \A x \in E \ W : Den[name][x] = 0
      BY <1>1, <1>3, WeightIs DEF One
    <3> HIDE DEF W
    <3>2. An!Cardinality(W) = SumF(Den[name], E)
      BY <1>1, <3>1, CardIs
    <3> QED  BY <3>2 DEF W
  <2>3. /\ An!Of(E, {"task_abandoned"}) = {r \in E : r.event = "task_abandoned"}
        /\ An!Of(E, An!END_EVENTS) = {r \in E : r.event \in An!END_EVENTS}
    BY DEF An!Of
  <2>4. An!Metric("abandonment_rate", E).all =
          An!Ratio(An!N(E, {"task_abandoned"}), An!Cardinality(An!Of(E, An!END_EVENTS)))
    BY MetricIs
  <2> QED  BY <1>3, <2>1, <2>2, <2>3, <2>4 DEF An!N
<1>4. CASE name = "cost_per_completed_task"
  <2>1. An!Total(E, "cost") = SumF(Num[name], E)
    <3>1. \A x \in E : x["cost"] \in Int /\ Num[name][x] = x["cost"]
      BY <1>1, <1>4, WeightIs
    <3> QED  BY <1>1, <3>1, TotalIs
  <2>2. An!Cardinality({r \in E : r.event = "task_completed"}) = SumF(Den[name], E)
    <3> DEFINE W == {r \in E : r.event = "task_completed"}
    <3>1. W \subseteq E /\ (\A x \in W : Den[name][x] = 1) /\ \A x \in E \ W : Den[name][x] = 0
      BY <1>1, <1>4, WeightIs DEF One
    <3> HIDE DEF W
    <3>2. An!Cardinality(W) = SumF(Den[name], E)
      BY <1>1, <3>1, CardIs
    <3> QED  BY <3>2 DEF W
  <2>3. An!Of(E, {"task_completed"}) = {r \in E : r.event = "task_completed"}
    BY DEF An!Of
  <2> QED  BY <1>4, <2>1, <2>2, <2>3, MetricIs DEF An!N
<1>5. CASE name = "loop_retry_ratio"
  <2>1. An!Cardinality({r \in E : r.event = "step_executed" /\ r.retry # ""}) = SumF(Num[name], E)
    <3> DEFINE W == {r \in E : r.event = "step_executed" /\ r.retry # ""}
    <3>1. W \subseteq E /\ (\A x \in W : Num[name][x] = 1) /\ \A x \in E \ W : Num[name][x] = 0
      BY <1>1, <1>5, WeightIs DEF One
    <3> HIDE DEF W
    <3>2. An!Cardinality(W) = SumF(Num[name], E)
      BY <1>1, <3>1, CardIs
    <3> QED  BY <3>2 DEF W
  <2>2. An!Cardinality({r \in E : r.event = "step_executed"}) = SumF(Den[name], E)
    <3> DEFINE W == {r \in E : r.event = "step_executed"}
    <3>1. W \subseteq E /\ (\A x \in W : Den[name][x] = 1) /\ \A x \in E \ W : Den[name][x] = 0
      BY <1>1, <1>5, WeightIs DEF One
    <3> HIDE DEF W
    <3>2. An!Cardinality(W) = SumF(Den[name], E)
      BY <1>1, <3>1, CardIs
    <3> QED  BY <3>2 DEF W
  <2>3. /\ An!Steps(E) = {r \in E : r.event = "step_executed"}
        /\ {r \in An!Steps(E) : r.retry # ""} = {r \in E : r.event = "step_executed" /\ r.retry # ""}
    BY DEF An!Of, An!Steps
  <2> QED  BY <1>5, <2>1, <2>2, <2>3, MetricIs
<1>6. CASE name = "human_edit_distance"
  <2> DEFINE W == {r \in E : r.event = "human_edited"}
  <2>1. An!Total(W, "magnitude") = SumF(Num[name], E)
    <3>1. W \subseteq E /\ (\A x \in W : x["magnitude"] \in Int /\ Num[name][x] = x["magnitude"])
          /\ \A x \in E \ W : Num[name][x] = 0
      BY <1>1, <1>6, WeightIs
    <3> HIDE DEF W
    <3> QED  BY <1>1, <3>1, TotalIs
  <2>2. An!Cardinality(W) = SumF(Den[name], E)
    <3>1. W \subseteq E /\ (\A x \in W : Den[name][x] = 1) /\ \A x \in E \ W : Den[name][x] = 0
      BY <1>1, <1>6, WeightIs DEF One
    <3> HIDE DEF W
    <3> QED  BY <1>1, <3>1, CardIs
  <2>3. An!Of(E, {"human_edited"}) = W
    BY DEF An!Of
  <2> HIDE DEF W
  <2> QED  BY <1>6, <2>1, <2>2, <2>3, MetricIs DEF An!N
<1>7. CASE name = "delegation_share"
  <2> DEFINE W == {r \in E : r.event = "task_started" /\ r.initiator \in {"agent", "schedule"}}
             V == {r \in E : r.event = "task_started"}
  <2>1. An!Cardinality(W) = SumF(Num[name], E)
    <3>1. W \subseteq E /\ (\A x \in W : Num[name][x] = 1) /\ \A x \in E \ W : Num[name][x] = 0
      BY <1>1, <1>7, WeightIs DEF One
    <3> HIDE DEF W
    <3> QED  BY <1>1, <3>1, CardIs
  <2>2. An!Cardinality(V) = SumF(Den[name], E)
    <3>1. V \subseteq E /\ (\A x \in V : Den[name][x] = 1) /\ \A x \in E \ V : Den[name][x] = 0
      BY <1>1, <1>7, WeightIs DEF One
    <3> HIDE DEF V
    <3> QED  BY <1>1, <3>1, CardIs
  <2>3. An!Of(E, {"task_started"}) = V /\ {r \in V : r.initiator \in {"agent", "schedule"}} = W
    BY DEF An!Of
  <2> HIDE DEF W, V
  <2> QED  BY <1>7, <2>1, <2>2, <2>3, MetricIs
<1> QED  BY <1>2, <1>3, <1>4, <1>5, <1>6, <1>7 DEF An!Additive
-----------------------------------------------------------------------------
(* Groups, days and the daily rollup.                                      *)

\* A finite set has finitely many keys.
LEMMA ImageFinite ==
    ASSUME NEW E, IsFiniteSet(E), NEW k
    PROVE  IsFiniteSet({k[r] : r \in E})
<1> DEFINE D == {k[r] : r \in E}
           f == [r \in E |-> k[r]]
<1>1. f \in Surjection(E, D)
  BY DEF Surjection
<1> QED  BY <1>1, FS_Surjection

\* A fold of a function whose values are sums over the parts of E is the sum over E.
LEMMA SumOverParts ==
    ASSUME NEW E, IsFiniteSet(E), NEW w, \A x \in E : w[x] \in Int,
           NEW h, IsFiniteSet(DOMAIN h), NEW Q, Apart(Q, DOMAIN h), Parts(Q, DOMAIN h) = E,
           \A d \in DOMAIN h : h[d] = SumF(w, Q[d])
    PROVE  An!SumFunction(h) = SumF(w, E)
<1>1. \A d \in DOMAIN h : Q[d] \subseteq E
  BY DEF Parts
<1>2. \A d \in DOMAIN h : IsFiniteSet(Q[d]) /\ \A x \in Q[d] : w[x] \in Int
  BY <1>1, FS_Subset
<1>3. SumF(h, DOMAIN h) = SumF(w, Parts(Q, DOMAIN h))
  BY <1>2, SumPartition
<1>4. An!SumFunction(h) = SumF(h, DOMAIN h)
  BY SumFunctionIs
<1> QED  BY <1>3, <1>4

\* The rows of E by their key are its parts.
Keys(E, k) == {k[r] : r \in E}
ByKey(E, k) == [g \in {k[r] : r \in E} |-> {r \in E : k[r] = g}]

\* Grouping by a key loses no row and puts none into two groups.
LEMMA Grouped ==
    ASSUME NEW E, IsFiniteSet(E), NEW k
    PROVE  /\ IsFiniteSet(Keys(E, k)) /\ Apart(ByKey(E, k), Keys(E, k)) /\ Parts(ByKey(E, k), Keys(E, k)) = E
           /\ \A g \in Keys(E, k) : ByKey(E, k)[g] = {r \in E : k[r] = g}
<1> DEFINE D == {k[r] : r \in E}
           Q == ByKey(E, k)
<1>0. Keys(E, k) = D
  BY DEF Keys
<1>1. \A g \in D : Q[g] = {r \in E : k[r] = g}
  BY DEF ByKey
<1>2. Apart(Q, D)
  BY <1>1 DEF Apart
<1>3. Parts(Q, D) = E
  <2>1. \A r \in E : k[r] \in D /\ r \in Q[k[r]]
    BY <1>1
  <2>2. \A g \in D : Q[g] \subseteq E
    BY <1>1
  <2> HIDE DEF D, Q
  <2> QED  BY <2>1, <2>2 DEF Parts
<1> QED  BY <1>0, <1>1, <1>2, <1>3, ImageFinite

\* A sum is that of its groups' sums.
LEMMA SumGrouped ==
    ASSUME NEW E, IsFiniteSet(E), NEW k, NEW w, \A x \in E : w[x] \in Int,
           NEW h, DOMAIN h = {k[r] : r \in E},
           \A g \in {k[r] : r \in E} : h[g] = SumF(w, {r \in E : k[r] = g})
    PROVE  An!SumFunction(h) = SumF(w, E)
<1>1. /\ IsFiniteSet(DOMAIN h) /\ Apart(ByKey(E, k), DOMAIN h) /\ Parts(ByKey(E, k), DOMAIN h) = E
      /\ \A g \in DOMAIN h : ByKey(E, k)[g] = {r \in E : k[r] = g}
  <2>1. DOMAIN h = Keys(E, k)
    BY DEF Keys
  <2> QED  BY <2>1, Grouped
<1>2. \A g \in DOMAIN h : h[g] = SumF(w, ByKey(E, k)[g])
  BY <1>1
<1> QED  BY <1>1, <1>2, SumOverParts

RatioParts == \A n, d : An!Ratio(n, d).num = n /\ An!Ratio(n, d).den = d

\* A ratio's two parts are what it was made of.
LEMMA RatioIs == RatioParts
  BY DEF RatioParts, An!Ratio

\* A metric's two sums are integers.
LEMMA SumsInt ==
    ASSUME An!KnownRows, NEW E, E \subseteq Rows, NEW name \in An!Additive
    PROVE  /\ IsFiniteSet(E) /\ \A x \in E : Num[name][x] \in Int /\ Den[name][x] \in Int
<1>1. IsFiniteSet(Rows)
  BY AnSets DEF An!KnownRows
<1>2. \A x \in Rows : Num[name][x] \in Nat /\ Den[name][x] \in Nat
  BY WeightsAre
<1> QED  BY <1>1, <1>2, FS_Subset

\* The metrics that count rows add up over the parts of a table.
LEMMA AddsUpOver ==
    ASSUME An!KnownRows, NEW E, E \subseteq Rows, NEW name \in An!Additive,
           NEW parts, IsFiniteSet(DOMAIN parts), NEW Q, Apart(Q, DOMAIN parts), Parts(Q, DOMAIN parts) = E,
           \A d \in DOMAIN parts : parts[d] = An!Metric(name, Q[d]).all
    PROVE  An!AddsUp(An!Metric(name, E).all, parts)
<1>1. \A d \in DOMAIN parts : Q[d] \subseteq E
  BY DEF Parts
<1>2. \A d \in DOMAIN parts : parts[d] = An!Ratio(SumF(Num[name], Q[d]), SumF(Den[name], Q[d]))
  BY <1>1, Weighted
<1> DEFINE n == [p \in DOMAIN parts |-> parts[p].num]
           m == [p \in DOMAIN parts |-> parts[p].den]
<1>3. /\ DOMAIN n = DOMAIN parts /\ DOMAIN m = DOMAIN parts
      /\ \A d \in DOMAIN n : n[d] = SumF(Num[name], Q[d])
      /\ \A d \in DOMAIN m : m[d] = SumF(Den[name], Q[d])
  BY <1>2, RatioIs DEF RatioParts
<1>4. An!AddsUp(An!Metric(name, E).all, parts) <=>
        An!Metric(name, E).all.num = An!SumFunction(n) /\ An!Metric(name, E).all.den = An!SumFunction(m)
  BY DEF An!AddsUp
<1> HIDE DEF n, m
<1>5. IsFiniteSet(E) /\ \A x \in E : Num[name][x] \in Int /\ Den[name][x] \in Int
  BY SumsInt
<1>6. An!SumFunction(n) = SumF(Num[name], E)
  BY <1>3, <1>5, SumOverParts
<1>7. An!SumFunction(m) = SumF(Den[name], E)
  BY <1>3, <1>5, SumOverParts
<1>8. An!Metric(name, E).all = An!Ratio(SumF(Num[name], E), SumF(Den[name], E))
  BY Weighted
<1> QED  BY <1>4, <1>6, <1>7, <1>8, RatioIs DEF RatioParts

\* The day of a row, and the window that day is.
LEMMA DayIs ==
    ASSUME An!KnownRows, NEW r \in Rows
    PROVE  /\ An!Day(r) \in Nat /\ 10 * An!Day(r) <= r.ts /\ r.ts < 10 * An!Day(r) + 10 /\ r.ts \in Nat
           /\ An!Day(r) < An!Max(An!Days) /\ An!Day(r) \in An!Days /\ An!Max(An!Days) \in Nat
<1> DEFINE M == An!Max(An!Days)
           d == r.ts \div 10
           ts == r.ts
<1>1. M \in Nat /\ An!Days = 0..M /\ ts \in Nat /\ ts < 10 * M
  BY Horizon
<1>2. d \in Nat /\ 10 * d <= ts /\ ts < 10 * d + 10
  BY <1>1, TenToADay
<1>3. An!Day(r) = d
  BY DEF An!Day
<1> HIDE DEF M, d, ts
<1>4. d < M /\ d \in 0..M
  BY <1>1, <1>2
<1> QED  BY <1>1, <1>2, <1>3, <1>4 DEF M, ts

\* A window of one day holds the rows of that day.
LEMMA DayWindow ==
    ASSUME An!KnownRows, AnInv, NEW t, NEW d \in An!Days, Rows # {}
    PROVE  An!Scope(an_table, t, 10 * d, 10 * d + 10) = {r \in An!All(t) : An!Day(r) = d}
<1>0. d \in Nat
  BY Horizon
<1>1. ASSUME NEW r \in an_table PROVE (r.ts >= 10 * d /\ r.ts < 10 * d + 10) <=> An!Day(r) = d
  <2> DEFINE ts == r.ts
             e == An!Day(r)
  <2>1. e \in Nat /\ 10 * e <= ts /\ ts < 10 * e + 10 /\ ts \in Nat
    BY DayIs DEF AnInv
  <2> HIDE DEF ts, e
  <2>2. (ts >= 10 * d /\ ts < 10 * d + 10) <=> e = d
    BY <1>0, <2>1
  <2> QED  BY <2>2 DEF ts, e
<1>2. An!All(t) = {r \in an_table : r.tenant = t}
  BY AllIs
<1> QED  BY <1>1, <1>2 DEF An!Scope

\* The days before the horizon cut a tenant's rows into parts.
LEMMA TheDays ==
    ASSUME An!KnownRows, AnInv, NEW t, Rows # {}
    PROVE  LET days == [d \in An!Days |-> {r \in An!All(t) : An!Day(r) = d}]
           IN  IsFiniteSet(An!Days) /\ Apart(days, An!Days) /\ Parts(days, An!Days) = An!All(t)
<1> DEFINE days == [d \in An!Days |-> {r \in An!All(t) : An!Day(r) = d}]
<1>1. IsFiniteSet(An!Days)
  <2>1. An!Days = 0..An!Max(An!Days) /\ An!Max(An!Days) \in Int /\ 0 \in Int
    BY Horizon
  <2> QED  BY <2>1, FS_Interval
<1>2. \A d \in An!Days : days[d] = {r \in An!All(t) : An!Day(r) = d}
  OBVIOUS
<1>3. Apart(days, An!Days)
  BY <1>2 DEF Apart
<1>4. \A r \in An!All(t) : An!Day(r) \in An!Days
  BY AllIs, DayIs
<1>5. \A r \in An!All(t) : r \in days[An!Day(r)]
  BY <1>2, <1>4
<1>6. \A d \in An!Days : days[d] \subseteq An!All(t)
  BY <1>2
<1> HIDE DEF days
<1>7. Parts(days, An!Days) = An!All(t)
  BY <1>4, <1>5, <1>6 DEF Parts
<1> QED  BY <1>1, <1>3, <1>7 DEF days

\* The windows of the days add up to the window of all of them.
LEMMA WindowsAddUp ==
    ASSUME An!KnownRows, AnInv, NEW t, NEW name \in An!Additive, Rows # {}
    PROVE  An!AddsUp(An!Metric(name, An!All(t)).all,
                     [d \in An!Days |-> An!Metric(name, An!Scope(an_table, t, 10 * d, 10 * d + 10)).all])
<1> DEFINE days == [d \in An!Days |-> {r \in An!All(t) : An!Day(r) = d}]
           parts == [d \in An!Days |-> An!Metric(name, An!Scope(an_table, t, 10 * d, 10 * d + 10)).all]
<1>1. IsFiniteSet(An!Days) /\ Apart(days, An!Days) /\ Parts(days, An!Days) = An!All(t)
  BY TheDays
<1>2. DOMAIN parts = An!Days /\ \A d \in An!Days : parts[d] = An!Metric(name, days[d]).all
  BY DayWindow
<1>3. An!All(t) \subseteq Rows
  BY AllIs
<1> HIDE DEF days, parts
<1>4. An!AddsUp(An!Metric(name, An!All(t)).all, parts)
  BY <1>1, <1>2, <1>3, AddsUpOver
<1> QED  BY <1>4 DEF parts

\* The groups of a metric by task type add up to its value over all.
LEMMA SegmentsAddUp ==
    ASSUME An!KnownRows, NEW E, E \subseteq Rows, NEW name \in An!Additive
    PROVE  LET parts == An!Segmented(name, E, "type")
           IN  An!AddsUp(An!Metric(name, E).all, [g \in DOMAIN parts |-> parts[g].all])
<1> DEFINE k == [r \in E |-> r["type"]]
           D == {r["type"] : r \in E}
           seg == An!Segmented(name, E, "type")
           parts == [g \in DOMAIN seg |-> seg[g].all]
<1>1. name \notin An!OuterMetrics
  BY DEF An!Additive, An!OuterMetrics
<1>2. seg = [g \in D |-> An!Metric(name, {r \in E : r["type"] = g})]
  BY <1>1 DEF An!Segmented
<1>3. Keys(E, k) = D /\ \A g \in D : {r \in E : r["type"] = g} = {r \in E : k[r] = g}
  BY DEF Keys
<1>4. IsFiniteSet(E)
  BY AnSets, FS_Subset DEF An!KnownRows
<1>5. DOMAIN parts = D /\ \A g \in D : parts[g] = An!Metric(name, {r \in E : r["type"] = g}).all
  BY <1>2
<1> HIDE DEF k, D, seg, parts
<1>6. /\ IsFiniteSet(D) /\ Apart(ByKey(E, k), D) /\ Parts(ByKey(E, k), D) = E
      /\ \A g \in D : ByKey(E, k)[g] = {r \in E : k[r] = g}
  BY <1>3, <1>4, Grouped
<1>7. \A g \in D : parts[g] = An!Metric(name, ByKey(E, k)[g]).all
  BY <1>3, <1>5, <1>6
<1>8. An!AddsUp(An!Metric(name, E).all, parts)
  BY <1>5, <1>6, <1>7, AddsUpOver
<1> QED  BY <1>8 DEF parts, seg

\* The rollup of a window of whole days is its metrics.
LEMMA RollupIs ==
    ASSUME An!KnownRows, AnInv, NEW t, Rows # {},
           NEW days, days = An!DailyRollup(t, 0, 10 * An!Max(An!Days) - 1)
    PROVE  /\ DOMAIN days = {An!Day(r) : r \in An!All(t)}
           /\ \A d \in DOMAIN days : days[d] = An!Rollup(An!All(t), d)
<1> DEFINE M == An!Max(An!Days)
<1>1. M \in Nat /\ \A r \in Rows : An!Day(r) \in Nat /\ An!Day(r) < M
  BY DayIs, Horizon
<1>2. CASE M = 0
  BY <1>1, <1>2
<1>4. {q \in Rows : an_rolled[q] > 0} = an_table
  BY DEF AnInv
<1>3. CASE M # 0
  <2>1. 0 \div 10 = 0 /\ (10 * M - 1) \div 10 = M - 1
    <3> HIDE DEF M
    <3> QED  BY <1>1, <1>3
  <2>2. \A r \in an_table : An!Day(r) >= 0 \div 10 /\ An!Day(r) <= (10 * M - 1) \div 10
    <3>1. \A r \in Rows : An!Day(r) >= 0 /\ An!Day(r) <= M - 1
      <4> SUFFICES ASSUME NEW r \in Rows PROVE An!Day(r) >= 0 /\ An!Day(r) <= M - 1
        OBVIOUS
      <4> DEFINE d == An!Day(r)
      <4>1. d \in Nat /\ d < M /\ M \in Nat
        BY <1>1
      <4> HIDE DEF M, d
      <4>2. d >= 0 /\ d <= M - 1
        BY <4>1
      <4> QED  BY <4>2 DEF d
    <3> QED  BY <2>1, <3>1 DEF AnInv
  <2>3. An!All(t) = {r \in an_table : r.tenant = t}
    BY AllIs
  <2>4. {r \in an_table : r.tenant = t /\ An!Day(r) >= 0 \div 10 /\ An!Day(r) <= (10 * M - 1) \div 10}
          = An!All(t)
    BY <2>2, <2>3
  <2> QED  BY <1>4, <2>4 DEF An!DailyRollup
<1> QED  BY <1>2, <1>3

\* A sum of smaller naturals is smaller, and as large only if each of them is.
LEMMA SumBelow ==
    ASSUME NEW S, IsFiniteSet(S), NEW F, NEW G, \A x \in S : F[x] \in Nat /\ G[x] \in Nat /\ F[x] <= G[x]
    PROVE  /\ SumF(F, S) \in Nat /\ SumF(G, S) \in Nat /\ SumF(F, S) <= SumF(G, S)
           /\ SumF(F, S) = SumF(G, S) => \A x \in S : F[x] = G[x]
<1> DEFINE P(U) == /\ SumF(F, U) <= SumF(G, U)
                   /\ SumF(F, U) = SumF(G, U) => \A x \in U : F[x] = G[x]
           Z == {U \in SUBSET S : P(U)}
<1>1. {} \in Z
  BY SumEmpty
<1>2. ASSUME NEW U \in SUBSET S, NEW x \in S \ U, U \in Z PROVE U \cup {x} \in Z
  <2>1. IsFiniteSet(U) /\ \A y \in U \cup {x} : F[y] \in Int /\ G[y] \in Int
    BY FS_Subset
  <2>2. SumF(F, U \cup {x}) = F[x] + SumF(F, U) /\ SumF(G, U \cup {x}) = G[x] + SumF(G, U)
    BY <2>1, SumAdd
  <2>3. SumF(F, U) \in Int /\ SumF(G, U) \in Int
    BY <2>1, SumInt
  <2>4. F[x] \in Nat /\ G[x] \in Nat /\ F[x] <= G[x]
    OBVIOUS
  <2>5. P(U)
    BY <1>2
  <2>6. SumF(F, U \cup {x}) <= SumF(G, U \cup {x})
    BY <2>2, <2>3, <2>4, <2>5
  <2>7. ASSUME SumF(F, U \cup {x}) = SumF(G, U \cup {x}) PROVE F[x] = G[x] /\ SumF(F, U) = SumF(G, U)
    BY <2>2, <2>3, <2>4, <2>5, <2>7
  <2> HIDE DEF P
  <2>8. SumF(F, U \cup {x}) = SumF(G, U \cup {x}) => \A y \in U \cup {x} : F[y] = G[y]
    BY <2>5, <2>7 DEF P
  <2> QED  BY <2>6, <2>8 DEF P
<1> HIDE DEF Z
<1>3. S \in Z
  BY <1>1, <1>2, SubsetInduction
<1> QED  BY <1>3, SumNat DEF Z

\* What the view has summed of some rows is a sum over all.
LEMMA RolledIs ==
    ASSUME NEW S, NEW W, IsFiniteSet(S), W \subseteq S, NEW G,
           \A x \in W : an_rolled[x] \in Int /\ G[x] = an_rolled[x], \A x \in S \ W : G[x] = 0
    PROVE  An!Rolled(W) = SumF(G, S)
<1> DEFINE F == [r \in W |-> an_rolled[r]]
<1>1. An!Rolled(W) = An!SumFunction(F)
  BY DEF An!Rolled
<1>2. DOMAIN F = W /\ IsFiniteSet(W) /\ \A x \in W : F[x] \in Int /\ G[x] = F[x]
  BY FS_Subset
<1> HIDE DEF F
<1>3. An!SumFunction(F) = SumF(F, W)
  BY <1>2, SumFunctionIs
<1>4. SumF(G, S) = SumF(F, W)
  BY <1>2, SumFilter
<1> QED  BY <1>1, <1>3, <1>4

\* What a row has added to the rollup of its day.
RolledIf(names) == [r \in Rows |-> IF r.event \in names THEN an_rolled[r] ELSE 0]
RolledCost == [r \in Rows |-> an_rolled[r] * r.cost]

\* The rollup of a day is made of what its rows have added.
LEMMA DayRollup ==
    ASSUME An!KnownRows, AnInv, NEW E, E \subseteq Rows, NEW d
    PROVE  LET day == {r \in E : An!Day(r) = d}
               roll == An!Rollup(E, d)
           IN  /\ roll.completed = SumF(RolledIf({"task_completed"}), day)
               /\ roll.ended = SumF(RolledIf(An!END_EVENTS), day)
               /\ roll.abandoned = SumF(RolledIf({"task_abandoned"}), day)
               /\ roll.cost = SumF(RolledCost, day)
<1> DEFINE day == {r \in E : An!Day(r) = d}
           roll == An!Rollup(E, d)
           cost == [r \in day |-> an_rolled[r] * r.cost]
<1>1. /\ roll.completed = An!Rolled(An!Of(day, {"task_completed"}))
      /\ roll.ended = An!Rolled(An!Of(day, An!END_EVENTS))
      /\ roll.abandoned = An!Rolled(An!Of(day, {"task_abandoned"}))
      /\ roll.cost = An!SumFunction(cost)
  BY DEF An!Rollup
<1>2. day \subseteq Rows /\ IsFiniteSet(day)
  <2>1. day \subseteq Rows
    OBVIOUS
  <2> HIDE DEF day
  <2> QED  BY <2>1, FS_Subset, AnSets DEF An!KnownRows
<1>3. DOMAIN cost = day /\ \A x \in day : cost[x] = an_rolled[x] * x.cost
  OBVIOUS
<1> HIDE DEF day, roll, cost
<1>4. ASSUME NEW names PROVE An!Rolled(An!Of(day, names)) = SumF(RolledIf(names), day)
  <2> DEFINE W == An!Of(day, names)
             G == RolledIf(names)
  <2>1. W \subseteq day /\ \A x \in day : x \in W <=> x.event \in names
    BY DEF An!Of
  <2>2. \A x \in day : G[x] = (IF x.event \in names THEN an_rolled[x] ELSE 0) /\ an_rolled[x] \in Int
    BY <1>2 DEF RolledIf, AnInv
  <2> HIDE DEF W, G
  <2>3. \A x \in W : an_rolled[x] \in Int /\ G[x] = an_rolled[x]
    BY <2>1, <2>2
  <2>4. \A x \in day \ W : G[x] = 0
    BY <2>1, <2>2
  <2> QED  BY <1>2, <2>1, <2>3, <2>4, RolledIs DEF W, G
<1>5. An!SumFunction(cost) = SumF(RolledCost, day)
  <2>1. \A x \in day : RolledCost[x] = an_rolled[x] * x.cost /\ an_rolled[x] \in Nat /\ x.cost \in Nat
    BY <1>2 DEF RolledCost, AnInv, An!KnownRows
  <2>2. \A x \in day : RolledCost[x] \in Int /\ cost[x] = RolledCost[x]
    BY <1>3, <2>1
  <2>3. An!SumFunction(cost) = SumF(cost, day)
    BY <1>2, <1>3, SumFunctionIs
  <2>4. SumF(cost, day) = SumF(RolledCost, day)
    BY <1>2, <2>2, SumCong
  <2> QED  BY <2>3, <2>4
<1> QED  BY <1>1, <1>4, <1>5 DEF day, roll

\* The daily rollup adds up to what all the tenant's rows have added.
LEMMA RollupSums ==
    ASSUME An!KnownRows, AnInv, NEW t, Rows # {},
           NEW days, days = An!DailyRollup(t, 0, 10 * An!Max(An!Days) - 1)
    PROVE  LET E == An!All(t)
               SumDays(f) == An!SumFunction([d \in DOMAIN days |-> days[d][f]])
           IN  /\ SumDays("completed") = SumF(RolledIf({"task_completed"}), E)
               /\ SumDays("ended") = SumF(RolledIf(An!END_EVENTS), E)
               /\ SumDays("abandoned") = SumF(RolledIf({"task_abandoned"}), E)
               /\ SumDays("cost") = SumF(RolledCost, E)
<1> DEFINE E == An!All(t)
           k == [r \in E |-> An!Day(r)]
           D == {k[r] : r \in E}
           SumDays(f) == An!SumFunction([d \in DOMAIN days |-> days[d][f]])
<1>1. DOMAIN days = D /\ \A d \in DOMAIN days : days[d] = An!Rollup(E, d)
  <2>1. D = {An!Day(r) : r \in E}
    OBVIOUS
  <2> QED  BY <2>1, RollupIs
<1>2. E \subseteq Rows /\ IsFiniteSet(E)
  BY AllIs
<1>3. \A d : {r \in E : An!Day(r) = d} = {r \in E : k[r] = d}
  OBVIOUS
<1>4. ASSUME NEW f, NEW w, \A x \in E : w[x] \in Int,
             \A d \in D : days[d][f] = SumF(w, {r \in E : k[r] = d})
      PROVE  SumDays(f) = SumF(w, E)
  <2> DEFINE h == [d \in DOMAIN days |-> days[d][f]]
  <2>1. DOMAIN h = D /\ \A d \in D : h[d] = SumF(w, {r \in E : k[r] = d})
    BY <1>1, <1>4
  <2> HIDE DEF h, k, E
  <2>2. An!SumFunction(h) = SumF(w, E)
    BY <1>2, <1>4, <2>1, SumGrouped
  <2> QED  BY <2>2 DEF h
<1>5. /\ \A names : \A x \in E : RolledIf(names)[x] \in Int
      /\ \A x \in E : RolledCost[x] \in Int
  <2>1. \A x \in E : an_rolled[x] \in Nat /\ x.cost \in Nat
    BY <1>2 DEF AnInv, An!KnownRows
  <2>2. \A x \in E : RolledCost[x] = an_rolled[x] * x.cost
    BY <1>2 DEF RolledCost
  <2>3. \A names : \A x \in E : RolledIf(names)[x] = (IF x.event \in names THEN an_rolled[x] ELSE 0)
    BY <1>2 DEF RolledIf
  <2> HIDE DEF E
  <2> QED  BY <2>1, <2>2, <2>3
<1> HIDE DEF E, k
<1>6. ASSUME NEW d \in D
      PROVE  /\ days[d]["completed"] = SumF(RolledIf({"task_completed"}), {r \in E : k[r] = d})
             /\ days[d]["ended"] = SumF(RolledIf(An!END_EVENTS), {r \in E : k[r] = d})
             /\ days[d]["abandoned"] = SumF(RolledIf({"task_abandoned"}), {r \in E : k[r] = d})
             /\ days[d]["cost"] = SumF(RolledCost, {r \in E : k[r] = d})
  <2> DEFINE roll == An!Rollup(E, d)
             day == {r \in E : An!Day(r) = d}
  <2>1. days[d] = roll /\ day = {r \in E : k[r] = d}
    BY <1>1, <1>3
  <2>2. /\ roll.completed = SumF(RolledIf({"task_completed"}), day)
        /\ roll.ended = SumF(RolledIf(An!END_EVENTS), day)
        /\ roll.abandoned = SumF(RolledIf({"task_abandoned"}), day)
        /\ roll.cost = SumF(RolledCost, day)
    BY <1>2, DayRollup
  <2> HIDE DEF roll, day
  <2> QED  BY <2>1, <2>2
<1> DEFINE done == RolledIf({"task_completed"})
           ended == RolledIf(An!END_EVENTS)
           left == RolledIf({"task_abandoned"})
<1>7. \A x \in E : done[x] \in Int /\ ended[x] \in Int /\ left[x] \in Int /\ RolledCost[x] \in Int
  BY <1>5
<1>8. \A d \in D : /\ days[d]["completed"] = SumF(done, {r \in E : k[r] = d})
                   /\ days[d]["ended"] = SumF(ended, {r \in E : k[r] = d})
                   /\ days[d]["abandoned"] = SumF(left, {r \in E : k[r] = d})
                   /\ days[d]["cost"] = SumF(RolledCost, {r \in E : k[r] = d})
  BY <1>6
<1> HIDE DEF D, SumDays, done, ended, left
<1>9. SumDays("completed") = SumF(done, E)
  <2>1. \A x \in E : done[x] \in Int
    BY <1>7
  <2>2. \A d \in D : days[d]["completed"] = SumF(done, {r \in E : k[r] = d})
    BY <1>8
  <2> QED  BY <1>4, <2>1, <2>2
<1>10. SumDays("ended") = SumF(ended, E)
  <2>1. \A x \in E : ended[x] \in Int
    BY <1>7
  <2>2. \A d \in D : days[d]["ended"] = SumF(ended, {r \in E : k[r] = d})
    BY <1>8
  <2> QED  BY <1>4, <2>1, <2>2
<1>11. SumDays("abandoned") = SumF(left, E)
  <2>1. \A x \in E : left[x] \in Int
    BY <1>7
  <2>2. \A d \in D : days[d]["abandoned"] = SumF(left, {r \in E : k[r] = d})
    BY <1>8
  <2> QED  BY <1>4, <2>1, <2>2
<1>12. SumDays("cost") = SumF(RolledCost, E)
  <2>1. \A x \in E : RolledCost[x] \in Int
    BY <1>7
  <2>2. \A d \in D : days[d]["cost"] = SumF(RolledCost, {r \in E : k[r] = d})
    BY <1>8
  <2> QED  BY <1>4, <2>1, <2>2
<1> QED  BY <1>9, <1>10, <1>11, <1>12 DEF E, SumDays, done, ended, left

\* A product with a positive number is no smaller.
LEMMA TimesPositive == \A n, c \in Nat : n > 0 => n * c \in Nat /\ c <= n * c
<1> SUFFICES ASSUME NEW n \in Nat, NEW c \in Nat, n > 0 PROVE n * c \in Nat /\ c <= n * c
  OBVIOUS
<1>1. n - 1 \in Nat /\ n = (n - 1) + 1
  OBVIOUS
<1>2. (n - 1) * c \in Nat
  BY <1>1
<1>3. n * c = (n - 1) * c + c
  BY <1>1
<1> QED  BY <1>2, <1>3

\* What is counted of the rows is no more than what was added, and is it when each was added once.
LEMMA SumReconciles ==
    ASSUME An!KnownRows, AnInv, NEW t, NEW F, NEW G,
           \A r \in An!All(t) : F[r] \in Nat /\ G[r] \in Nat /\ F[r] <= G[r],
           \A r \in An!All(t) : an_rolled[r] = 1 => F[r] = G[r]
    PROVE  /\ SumF(F, An!All(t)) <= SumF(G, An!All(t))
           /\ (\A r \in An!All(t) : an_rolled[r] = 1) => SumF(F, An!All(t)) = SumF(G, An!All(t))
<1>1. IsFiniteSet(An!All(t))
  BY AllIs
<1>2. SumF(F, An!All(t)) <= SumF(G, An!All(t))
  BY <1>1, SumBelow
<1>3. ASSUME \A r \in An!All(t) : an_rolled[r] = 1 PROVE SumF(F, An!All(t)) = SumF(G, An!All(t))
  <2>1. \A r \in An!All(t) : F[r] \in Int /\ F[r] = G[r]
    BY <1>3
  <2> QED  BY <1>1, <2>1, SumCong
<1> QED  BY <1>2, <1>3

\* The daily rollup reconciles with the metrics over all days.
LEMMA RollupAddsUp ==
    ASSUME An!KnownRows, AnInv, NEW t, Rows # {},
           NEW days, days = An!DailyRollup(t, 0, 10 * An!Max(An!Days) - 1)
    PROVE  LET E == An!All(t)
               SumDays(f) == An!SumFunction([d \in DOMAIN days |-> days[d][f]])
               once == \A r \in E : an_rolled[r] = 1
               Reconciles(count, f) == count <= SumDays(f) /\ (once => count = SumDays(f))
           IN  /\ Reconciles(An!Metric("task_success_rate", E).all.num, "completed")
               /\ Reconciles(An!Metric("task_success_rate", E).all.den, "ended")
               /\ Reconciles(An!Metric("abandonment_rate", E).all.num, "abandoned")
               /\ Reconciles(An!Metric("cost_per_completed_task", E).all.num, "cost")
<1> DEFINE E == An!All(t)
           SumDays(f) == An!SumFunction([d \in DOMAIN days |-> days[d][f]])
<1>1. E \subseteq Rows
  BY AllIs
<1>2. \A r \in E : an_rolled[r] \in Nat /\ an_rolled[r] > 0 /\ r.cost \in Nat
  BY AllIs DEF AnInv, An!KnownRows
<1>3. /\ SumDays("completed") = SumF(RolledIf({"task_completed"}), E)
      /\ SumDays("ended") = SumF(RolledIf(An!END_EVENTS), E)
      /\ SumDays("abandoned") = SumF(RolledIf({"task_abandoned"}), E)
      /\ SumDays("cost") = SumF(RolledCost, E)
  BY RollupSums
<1>4. {"task_success_rate", "abandonment_rate", "cost_per_completed_task"} \subseteq An!Additive
  BY DEF An!Additive
<1>5. /\ An!Metric("task_success_rate", E).all.num = SumF(Num["task_success_rate"], E)
      /\ An!Metric("task_success_rate", E).all.den = SumF(Den["task_success_rate"], E)
      /\ An!Metric("abandonment_rate", E).all.num = SumF(Num["abandonment_rate"], E)
      /\ An!Metric("cost_per_completed_task", E).all.num = SumF(Num["cost_per_completed_task"], E)
  BY <1>1, <1>4, Weighted, RatioIs DEF RatioParts
<1> HIDE DEF E, SumDays
<1>6. \A names : \A r \in E : RolledIf(names)[r] = (IF r.event \in names THEN an_rolled[r] ELSE 0)
  BY <1>1 DEF RolledIf
<1>7. \A r \in E : RolledCost[r] = an_rolled[r] * r.cost
  BY <1>1 DEF RolledCost
<1>8. \A r \in E :
        /\ Num["task_success_rate"][r] = (IF r.event \in {"task_completed"} THEN 1 ELSE 0)
        /\ Den["task_success_rate"][r] = (IF r.event \in An!END_EVENTS THEN 1 ELSE 0)
        /\ Num["abandonment_rate"][r] = (IF r.event \in {"task_abandoned"} THEN 1 ELSE 0)
        /\ Num["cost_per_completed_task"][r] = r.cost
  BY <1>1, WeightIs DEF One
<1>9. ASSUME NEW F, NEW names, \A r \in E : F[r] = (IF r.event \in names THEN 1 ELSE 0)
      PROVE  /\ SumF(F, E) <= SumF(RolledIf(names), E)
             /\ (\A r \in E : an_rolled[r] = 1) => SumF(F, E) = SumF(RolledIf(names), E)
  <2>1. \A r \in E : F[r] \in Nat /\ RolledIf(names)[r] \in Nat /\ F[r] <= RolledIf(names)[r]
    BY <1>2, <1>6, <1>9
  <2>2. \A r \in E : an_rolled[r] = 1 => F[r] = RolledIf(names)[r]
    BY <1>6, <1>9
  <2> QED  BY <2>1, <2>2, SumReconciles DEF E
<1>10. /\ SumF(Num["cost_per_completed_task"], E) <= SumF(RolledCost, E)
       /\ (\A r \in E : an_rolled[r] = 1) => SumF(Num["cost_per_completed_task"], E) = SumF(RolledCost, E)
  <2> DEFINE F == Num["cost_per_completed_task"]
  <2>1. \A r \in E : F[r] \in Nat /\ RolledCost[r] \in Nat /\ F[r] <= RolledCost[r]
    BY <1>2, <1>7, <1>8, TimesPositive
  <2>2. \A r \in E : an_rolled[r] = 1 => F[r] = RolledCost[r]
    <3>1. \A c \in Nat : 1 * c = c
      OBVIOUS
    <3> QED  BY <1>2, <1>7, <1>8, <3>1
  <2> HIDE DEF F
  <2>3. /\ SumF(F, E) <= SumF(RolledCost, E)
        /\ (\A r \in E : an_rolled[r] = 1) => SumF(F, E) = SumF(RolledCost, E)
    BY <2>1, <2>2, SumReconciles DEF E
  <2> QED  BY <2>3 DEF F
<1>11. /\ SumF(Num["task_success_rate"], E) <= SumDays("completed")
       /\ (\A r \in E : an_rolled[r] = 1) => SumF(Num["task_success_rate"], E) = SumDays("completed")
  BY <1>3, <1>8, <1>9
<1>12. /\ SumF(Den["task_success_rate"], E) <= SumDays("ended")
       /\ (\A r \in E : an_rolled[r] = 1) => SumF(Den["task_success_rate"], E) = SumDays("ended")
  BY <1>3, <1>8, <1>9
<1>13. /\ SumF(Num["abandonment_rate"], E) <= SumDays("abandoned")
       /\ (\A r \in E : an_rolled[r] = 1) => SumF(Num["abandonment_rate"], E) = SumDays("abandoned")
  BY <1>3, <1>8, <1>9
<1> QED  BY <1>3, <1>5, <1>10, <1>11, <1>12, <1>13 DEF E, SumDays

\* Additive metrics of the parts add up to those of the whole (semantic.ts, flags.ts).
LEMMA PartsDoAddUp ==
    ASSUME An!KnownRows, AnInv
    PROVE  An!PartsAddUp
<1> SUFFICES ASSUME NEW t \in An!Tenants
             PROVE  LET whole == An!METRICS(An!All(t), An!ByTask, 0)
                        days == An!DailyRollup(t, 0, 10 * An!Max(An!Days) - 1)
                        SumDays(f) == An!SumFunction([d \in DOMAIN days |-> days[d][f]])
                        once == \A r \in An!All(t) : an_rolled[r] = 1
                        Reconciles(count, f) == count <= SumDays(f) /\ (once => count = SumDays(f))
                    IN  /\ \A name \in An!Additive :
                            /\ An!AddsUp(whole[name].all,
                                    [d \in An!Days |->
                                        An!Metric(name, An!Scope(an_table, t, 10 * d, 10 * d + 10)).all])
                            /\ LET parts == An!Segmented(name, An!All(t), "type")
                               IN  An!AddsUp(whole[name].all, [g \in DOMAIN parts |-> parts[g].all])
                        /\ Reconciles(whole.task_success_rate.all.num, "completed")
                        /\ Reconciles(whole.task_success_rate.all.den, "ended")
                        /\ Reconciles(whole.abandonment_rate.all.num, "abandoned")
                        /\ Reconciles(whole.cost_per_completed_task.all.num, "cost")
  BY DEF An!PartsAddUp
<1> DEFINE E == An!All(t)
           whole == An!METRICS(E, An!ByTask, 0)
           days == An!DailyRollup(t, 0, 10 * An!Max(An!Days) - 1)
           SumDays(f) == An!SumFunction([d \in DOMAIN days |-> days[d][f]])
           once == \A r \in E : an_rolled[r] = 1
           Reconciles(count, f) == count <= SumDays(f) /\ (once => count = SumDays(f))
<1>1. Rows # {} /\ E \subseteq Rows
  BY AllIs DEF An!Tenants
<1>2. \A name : An!Metric(name, E) = whole[name]
  BY DEF An!Metric
<1>3. \A name \in An!Additive :
        An!AddsUp(whole[name].all,
            [d \in An!Days |-> An!Metric(name, An!Scope(an_table, t, 10 * d, 10 * d + 10)).all])
  BY <1>1, <1>2, WindowsAddUp
<1>4. ASSUME NEW name \in An!Additive
      PROVE  LET parts == An!Segmented(name, E, "type")
             IN  An!AddsUp(whole[name].all, [g \in DOMAIN parts |-> parts[g].all])
  BY <1>1, <1>2, SegmentsAddUp
<1>5. /\ Reconciles(An!Metric("task_success_rate", E).all.num, "completed")
      /\ Reconciles(An!Metric("task_success_rate", E).all.den, "ended")
      /\ Reconciles(An!Metric("abandonment_rate", E).all.num, "abandoned")
      /\ Reconciles(An!Metric("cost_per_completed_task", E).all.num, "cost")
  BY <1>1, RollupAddsUp
<1> QED  BY <1>2, <1>3, <1>4, <1>5
-----------------------------------------------------------------------------
(* Usage, tiers and bills.                                                 *)

\* A non-empty set of indices has a least one.
LEMMA LeastOf ==
    ASSUME NEW S, S \subseteq Nat, S # {}
    PROVE  \E i \in S : \A j \in S : i <= j
<1>1. PICK i \in S : \A y \in S : ~(<<y, i>> \in OpToRel(<, Nat))
  BY NatLessThanWellFounded, WFMin, Zenon
<1>2. \A j \in S : ~(j < i)
  BY <1>1 DEF OpToRel
<1> QED  BY <1>2

\* There are no more keys than elements.
LEMMA ImageCard ==
    ASSUME NEW E, IsFiniteSet(E), NEW k
    PROVE  /\ Cardinality({k[r] : r \in E}) <= Cardinality(E)
           /\ (\A r, q \in E : k[r] = k[q] => r = q) => Cardinality({k[r] : r \in E}) = Cardinality(E)
<1> DEFINE D == {k[r] : r \in E}
           f == [r \in E |-> k[r]]
<1>1. f \in Surjection(E, D)
  BY DEF Surjection
<1>2. ASSUME \A r, q \in E : k[r] = k[q] => r = q PROVE f \in Injection(E, D)
  BY <1>2 DEF Injection, IsInjective
<1> QED  BY <1>1, <1>2, FS_Surjection

\* The tasks the first-run resolution divides by are the completed ones.
LEMMA ResolutionDen ==
    ASSUME NEW E, IsFiniteSet(E)
    PROVE  An!Metric("first_run_resolution", E).all.den
             = Cardinality(An!Tasks(An!Of(E, {"task_completed"})))
<1> DEFINE by == An!ByTask
           Key(r) == [i \in DOMAIN by |-> r[by[i]]]
           keys == {Key(r) : r \in E}
           done == An!Of(E, {"task_completed"})
           At(c) == {r \in E : Key(r) = c}
           D == {c \in keys : An!N(At(c), {"task_completed"}) > 0}
           T == An!Tasks(done)
           k == [x \in T |-> [i \in {1} |-> x]]
<1>1. An!Metric("first_run_resolution", E).all.den = An!Cardinality(D)
  BY DEF An!Metric, An!METRICS, An!Single, An!Ratio
<1>2. \A r : Key(r) = [i \in {1} |-> r.task]
  <2>1. by = <<"task">> /\ DOMAIN by = {1} /\ by[1] = "task"
    BY DEF An!ByTask
  <2> QED  BY <2>1
<1>3. done \subseteq E /\ \A r \in E : r \in done <=> r.event = "task_completed"
  BY DEF An!Of
<1>4. IsFiniteSet(done) /\ IsFiniteSet(T)
  <2>1. IsFiniteSet(done)
    BY <1>3, FS_Subset
  <2> DEFINE task == [r \in done |-> r.task]
  <2>2. T = {task[r] : r \in done}
    BY DEF An!Tasks
  <2> HIDE DEF done, T, task
  <2> QED  BY <2>1, <2>2, ImageFinite
<1>5. \A c \in keys : An!N(At(c), {"task_completed"}) > 0 <=> \E r \in done : Key(r) = c
  <2> SUFFICES ASSUME NEW c \in keys
               PROVE  An!N(At(c), {"task_completed"}) > 0 <=> \E r \in done : Key(r) = c
    OBVIOUS
  <2> DEFINE X == An!Of(At(c), {"task_completed"})
  <2>1. X = {r \in done : Key(r) = c}
    BY DEF An!Of
  <2>2. X \subseteq done
    BY <2>1
  <2>3. An!N(At(c), {"task_completed"}) = Cardinality(X)
    BY AnSets DEF An!N
  <2> HIDE DEF X, done
  <2>4. IsFiniteSet(X)
    BY <1>4, <2>2, FS_Subset
  <2>5. Cardinality(X) \in Nat /\ (Cardinality(X) = 0 <=> X = {})
    BY <2>4, FS_EmptySet, FS_CardinalityType
  <2>6. Cardinality(X) > 0 <=> X # {}
    BY <2>5
  <2> QED  BY <2>1, <2>3, <2>6
<1>6. D = {Key(r) : r \in done}
  <2>1. \A r \in done : Key(r) \in keys
    BY <1>3
  <2> HIDE DEF done, Key
  <2> QED  BY <1>5, <2>1
<1>7. T = {r.task : r \in done}
  BY DEF An!Tasks
<1>8. D = {k[x] : x \in T}
  <2>1. \A r \in done : r.task \in T /\ Key(r) = k[r.task]
    BY <1>2, <1>7
  <2>3. \A x \in T : \E r \in done : x = r.task
    BY <1>7
  <2>2. \A x \in T : \E r \in done : k[x] = Key(r)
    <3> HIDE DEF T, done, k, Key
    <3> QED  BY <2>1, <2>3
  <2> HIDE DEF D, T, done, k, Key
  <2> QED  BY <1>6, <2>1, <2>2
<1>9. \A x, y \in T : k[x] = k[y] => x = y
  <2>1. \A x \in T : k[x][1] = x
    OBVIOUS
  <2> HIDE DEF k
  <2> QED  BY <2>1
<1> HIDE DEF D, T, k, done
<1>10. Cardinality({k[x] : x \in T}) = Cardinality(T)
  BY <1>4, <1>9, ImageCard
<1> QED  BY <1>1, <1>8, <1>10, AnSets DEF T, done

\* The usage meters are counts and sums the metrics know (billing/src/billing.ts).
LEMMA MetersAre ==
    ASSUME NEW E, IsFiniteSet(E), NEW usage, usage = An!UsageMeters(E)
    PROVE  /\ usage.tasks_completed = An!Metric("first_run_resolution", E).all.den
           /\ usage.tasks_completed <= usage.tasks_tracked
           /\ usage.tasks_tracked <= usage.agent_runs /\ usage.agent_runs <= usage.events_ingested
           /\ usage.tasks_completed \in Nat
<1> DEFINE done == An!Of(E, {"task_completed"})
           task == [r \in E |-> r.task]
           pair == [r \in E |-> <<r.task, r.run>>]
           pairs == {pair[r] : r \in E}
           first == [p \in pairs |-> p[1]]
<1>1. usage = [events_ingested |-> Cardinality(E), tasks_tracked |-> Cardinality({task[r] : r \in E}),
               agent_runs |-> Cardinality(pairs), tasks_completed |-> Cardinality(An!Tasks(done))]
  <2>1. An!Tasks(E) = {task[r] : r \in E} /\ {<<r.task, r.run>> : r \in E} = pairs
    BY DEF An!Tasks
  <2> QED  BY <2>1, AnSets DEF An!UsageMeters
<1>2. IsFiniteSet(pairs) /\ Cardinality(pairs) <= Cardinality(E)
  <2> HIDE DEF pair
  <2> QED  BY ImageCard, ImageFinite
<1>3. {task[r] : r \in E} = {first[p] : p \in pairs}
  <2>1. \A r \in E : task[r] = pair[r][1] /\ pair[r] \in pairs
    OBVIOUS
  <2>2. \A p \in pairs : first[p] = p[1] /\ \E r \in E : p = pair[r]
    OBVIOUS
  <2> HIDE DEF task, pair, pairs, first
  <2> QED  BY <2>1, <2>2
<1>4. Cardinality({task[r] : r \in E}) <= Cardinality(pairs)
  <2> HIDE DEF pairs, task, first
  <2> QED  BY <1>2, <1>3, ImageCard
<1>5. An!Tasks(done) \subseteq {task[r] : r \in E}
  BY DEF An!Tasks, An!Of
<1>6. IsFiniteSet({task[r] : r \in E})
  <2> HIDE DEF task
  <2> QED  BY ImageFinite
<1>7. /\ Cardinality(An!Tasks(done)) <= Cardinality({task[r] : r \in E})
      /\ Cardinality(An!Tasks(done)) \in Nat
  <2> HIDE DEF task, done
  <2> QED  BY <1>5, <1>6, FS_Subset, FS_CardinalityType
<1>8. An!Metric("first_run_resolution", E).all.den = Cardinality(An!Tasks(done))
  BY ResolutionDen
<1> HIDE DEF pairs, task, done
<1> QED  BY <1>1, <1>2, <1>4, <1>7, <1>8

\* The tier is the cheapest whose limits hold, or the last (billing/src/billing.ts).
LEMMA TierIs ==
    ASSUME An!KnownRows, NEW usage
    PROVE  LET tier == An!ResolveTier(usage)
           IN  /\ \A i \in DOMAIN Limits : An!Covers(i, usage) => tier <= i
               /\ An!PlanFor(tier, usage).over_limit => tier = Len(Limits)
               /\ An!PlanFor(0, usage).over_limit <=> tier > 1 \/ An!PlanFor(1, usage).over_limit
<1> DEFINE n == Len(Limits)
           tier == An!ResolveTier(usage)
           C == {i \in 1..n : An!Covers(i, usage)}
<1>1. DOMAIN Limits = 1..n /\ n \in Nat /\ n >= 1
  <2>1. Limits # <<>> /\ Limits \in Seq(An!Range(Limits))
    BY DEF An!KnownRows
  <2>2. PICK X : Limits \in Seq(X)
    BY <2>1
  <2>3. DOMAIN Limits = 1..n /\ n \in Nat
    BY <2>2
  <2>4. n # 0
    BY <2>1, <2>2
  <2> HIDE DEF n
  <2> QED  BY <2>3, <2>4
<1>2. An!Len(Limits) = n
  OBVIOUS
<1> HIDE DEF n
<1>3. /\ An!PlanFor(1, usage).over_limit <=> ~An!Covers(1, usage)
      /\ An!PlanFor(0, usage).over_limit <=> ~An!Covers(1, usage)
      /\ tier \in DOMAIN Limits => (An!PlanFor(tier, usage).over_limit <=> ~An!Covers(tier, usage))
  <2>1. \A name : An!PlanFor(name, usage) =
            [tier |-> IF name \in DOMAIN Limits THEN name ELSE 1,
             over_limit |-> ~An!Covers(IF name \in DOMAIN Limits THEN name ELSE 1, usage)]
    BY DEF An!PlanFor
  <2>2. \A name : An!PlanFor(name, usage).over_limit =
            ~An!Covers(IF name \in DOMAIN Limits THEN name ELSE 1, usage)
    <3> SUFFICES ASSUME NEW name
                 PROVE  An!PlanFor(name, usage).over_limit =
                            ~An!Covers(IF name \in DOMAIN Limits THEN name ELSE 1, usage)
      OBVIOUS
    <3> DEFINE y == ~An!Covers(IF name \in DOMAIN Limits THEN name ELSE 1, usage)
               x == IF name \in DOMAIN Limits THEN name ELSE 1
    <3>1. An!PlanFor(name, usage) = [tier |-> x, over_limit |-> y]
      BY <2>1
    <3> HIDE DEF x, y
    <3>2. An!PlanFor(name, usage).over_limit = y
      BY <3>1
    <3> QED  BY <3>2 DEF y
  <2>3. 1 \in DOMAIN Limits /\ 0 \notin DOMAIN Limits
    BY <1>1
  <2>4. An!PlanFor(1, usage).over_limit <=> ~An!Covers(1, usage)
    BY <2>2, <2>3, Zenon
  <2>5. An!PlanFor(0, usage).over_limit <=> ~An!Covers(1, usage)
    BY <2>2, <2>3, Zenon
  <2> HIDE DEF tier
  <2>6. tier \in DOMAIN Limits => (An!PlanFor(tier, usage).over_limit <=> ~An!Covers(tier, usage))
    BY <2>2, Zenon
  <2> QED  BY <2>4, <2>5, <2>6
<1>4. CASE C = {}
  <2>1. tier = n
    BY <1>1, <1>4 DEF An!ResolveTier, n
  <2>2. \A i \in 1..n : ~An!Covers(i, usage)
    BY <1>4
  <2>3. 1 \in 1..n /\ n \in 1..n
    BY <1>1
  <2> QED  BY <1>1, <1>3, <2>1, <2>2, <2>3 DEF n
<1>5. CASE C # {}
  <2>1. PICK i \in C : \A j \in C : i <= j
    <3>1. C \subseteq Nat
      BY <1>1
    <3> HIDE DEF C
    <3> QED  BY <1>5, <3>1, LeastOf
  <2>2. An!Covers(i, usage) /\ \A j \in 1..(i - 1) : ~An!Covers(j, usage)
    BY <1>1, <2>1
  <2>3. \E m \in DOMAIN Limits : An!Covers(m, usage) /\ \A j \in 1..(m - 1) : ~An!Covers(j, usage)
    BY <1>1, <2>2
  <2>4. tier \in DOMAIN Limits /\ An!Covers(tier, usage) /\ \A j \in 1..(tier - 1) : ~An!Covers(j, usage)
    BY <2>3 DEF An!ResolveTier
  <2> HIDE DEF tier
  <2>5. \A m \in DOMAIN Limits : An!Covers(m, usage) => tier <= m
    BY <1>1, <2>4
  <2>6. An!Covers(1, usage) <=> tier = 1
    BY <1>1, <2>4, <2>5
  <2>7. tier > 1 <=> tier # 1
    BY <1>1, <2>4
  <2>8. /\ \A m \in DOMAIN Limits : An!Covers(m, usage) => tier <= m
        /\ An!PlanFor(tier, usage).over_limit => tier = Len(Limits)
        /\ An!PlanFor(0, usage).over_limit <=> tier > 1 \/ An!PlanFor(1, usage).over_limit
    BY <1>3, <2>4, <2>5, <2>6, <2>7
  <2> QED  BY <2>8 DEF tier
<1> QED  BY <1>4, <1>5

\* What is billed is what the metrics show (billing/src).
LEMMA BillingDoesAgree ==
    ASSUME An!KnownRows, AnInv
    PROVE  An!BillingAgrees
<1> SUFFICES ASSUME NEW t \in An!Tenants
             PROVE  LET usage == An!UsageMeters(An!All(t))
                        tier == An!ResolveTier(usage)
                    IN  /\ usage.tasks_completed = An!Metric("first_run_resolution", An!All(t)).all.den
                        /\ usage.tasks_completed <= usage.tasks_tracked
                        /\ usage.tasks_tracked <= usage.agent_runs /\ usage.agent_runs <= usage.events_ingested
                        /\ \A i \in DOMAIN Limits : An!Covers(i, usage) => tier <= i
                        /\ An!PlanFor(tier, usage).over_limit => tier = Len(Limits)
                        /\ An!PlanFor(0, usage).over_limit <=> tier > 1 \/ An!PlanFor(1, usage).over_limit
                        /\ An!Billable(usage.tasks_completed) <= usage.tasks_completed
  BY DEF An!BillingAgrees
<1> DEFINE E == An!All(t)
           usage == An!UsageMeters(E)
           c == usage.tasks_completed
<1>1. IsFiniteSet(E)
  BY AllIs
<1>2. /\ usage.tasks_completed = An!Metric("first_run_resolution", E).all.den
      /\ usage.tasks_completed <= usage.tasks_tracked
      /\ usage.tasks_tracked <= usage.agent_runs /\ usage.agent_runs <= usage.events_ingested
      /\ usage.tasks_completed \in Nat
  <2> HIDE DEF E
  <2> QED  BY <1>1, MetersAre
<1>3. LET tier == An!ResolveTier(usage)
      IN  /\ \A i \in DOMAIN Limits : An!Covers(i, usage) => tier <= i
          /\ An!PlanFor(tier, usage).over_limit => tier = Len(Limits)
          /\ An!PlanFor(0, usage).over_limit <=> tier > 1 \/ An!PlanFor(1, usage).over_limit
  <2> HIDE DEF usage
  <2> QED  BY TierIs
<1>4. An!Billable(c) <= c
  <2>1. c \in Nat /\ Included \in Nat
    BY <1>2 DEF An!KnownRows
  <2> HIDE DEF c
  <2> QED  BY <2>1 DEF An!Billable
<1> QED  BY <1>2, <1>3, <1>4
-----------------------------------------------------------------------------
(* Runs.                                                                   *)

\* Equal ratios have equal parts.
LEMMA RatioEq ==
    \A n, d, m, e : An!Ratio(n, d) = An!Ratio(m, e) => n = m /\ d = e
  BY DEF An!Ratio

RunKey(E) == [r \in E |-> <<r.task, r.run>>]
Err == [r \in Rows |-> One(r.event = "step_executed" /\ r.status # "ok")]

\* A step's error weighs one or nothing.
LEMMA ErrIs ==
    \A r \in Rows : Err[r] = (IF r.event = "step_executed" /\ r.status # "ok" THEN 1 ELSE 0) /\ Err[r] \in Int
  BY DEF Err, One

\* The rows of a run are those of the tenant with its key.
LEMMA RowsOfRun ==
    ASSUME An!KnownRows, AnInv, NEW t, NEW k \in An!RunKeys(t)
    PROVE  /\ An!RunRows(an_table, t, k[1], k[2]) = {r \in An!All(t) : RunKey(An!All(t))[r] = k}
           /\ An!RunRows(an_table, t, k[1], k[2]) \subseteq An!All(t)
           /\ An!RunRows(an_table, t, k[1], k[2]) # {}
<1> DEFINE E == An!All(t)
<1>1. E = {r \in an_table : r.tenant = t}
  BY AllIs
<1>2. PICK q \in E : k = <<q.task, q.run>>
  BY DEF An!RunKeys
<1>3. \A r \in E : RunKey(E)[r] = <<r.task, r.run>>
  BY DEF RunKey
<1> HIDE DEF E
<1>4. \A r \in E : RunKey(E)[r] = k <=> r.task = k[1] /\ r.run = k[2]
  BY <1>2, <1>3
<1>5. An!RunRows(an_table, t, k[1], k[2]) = {r \in E : r.task = k[1] /\ r.run = k[2]}
  BY <1>1 DEF An!RunRows
<1>6. q.task = k[1] /\ q.run = k[2]
  BY <1>2
<1> QED  BY <1>2, <1>4, <1>5, <1>6 DEF E

\* What a reconstructed run holds (analysis/src/runs.ts).
LEMMA RunFields ==
    ASSUME NEW rows, NEW run, run = An!ReconstructRun(rows)
    PROVE  /\ run.steps = An!Cardinality(An!Steps(rows))
           /\ run.errors = An!Cardinality({r \in An!Steps(rows) : r.status \notin {"", "ok"}})
           /\ run.retries = An!Cardinality({r \in An!Steps(rows) : r.retry # ""})
           /\ run.cost = An!Total(rows, "cost")
           /\ run.human = An!Of(rows, An!HUMAN_TOUCH)
           /\ run.trajectory.steps = rows
           /\ run.trajectory.completed = (run.outcome = "completed")
  BY DEF An!ReconstructRun

\* A run's errors are the sum of its rows' errors.
LEMMA ErrorsAre ==
    ASSUME An!KnownRows, NEW S, S \subseteq Rows
    PROVE  /\ IsFiniteSet(S)
           /\ An!Cardinality({r \in An!Steps(S) : r.status \notin {"", "ok"}}) = SumF(Err, S)
           /\ An!Cardinality(An!Failed(An!Steps(S))) = SumF(Err, S)
<1>1. IsFiniteSet(S)
  BY AnSets, FS_Subset DEF An!KnownRows
<1> DEFINE W == {r \in S : r.event = "step_executed" /\ r.status # "ok"}
<1>2. {r \in An!Steps(S) : r.status \notin {"", "ok"}} = W
  BY DEF An!Steps, An!Of, An!KnownRows
<1>3. An!Failed(An!Steps(S)) = W
  BY DEF An!Steps, An!Of, An!Failed
<1>4. W \subseteq S /\ (\A x \in W : Err[x] = 1) /\ \A x \in S \ W : Err[x] = 0
  BY ErrIs
<1> HIDE DEF W
<1>5. An!Cardinality(W) = SumF(Err, S)
  BY <1>1, <1>4, CardIs
<1> QED  BY <1>1, <1>2, <1>3, <1>5

\* What the runs of a tenant add up to.
LEMMA SumRunsIs ==
    ASSUME An!KnownRows, AnInv, NEW t, NEW f, NEW w, \A r \in Rows : w[r] \in Int,
           \A k \in An!RunKeys(t) : An!RunOf(t, k)[f] = SumF(w, An!RunRows(an_table, t, k[1], k[2]))
    PROVE  An!SumRuns(t, f) = SumF(w, An!All(t))
<1> DEFINE E == An!All(t)
           h == [k \in An!RunKeys(t) |-> An!RunOf(t, k)[f]]
           c == RunKey(E)
<1>1. An!RunKeys(t) = {c[r] : r \in E}
  BY DEF An!RunKeys, RunKey
<1>2. IsFiniteSet(E) /\ E \subseteq Rows
  BY AllIs
<1>3. DOMAIN h = {c[r] : r \in E}
  BY <1>1
<1>4. ASSUME NEW k \in An!RunKeys(t) PROVE h[k] = SumF(w, {r \in E : c[r] = k})
  <2>1. An!RunRows(an_table, t, k[1], k[2]) = {r \in E : c[r] = k}
    BY RowsOfRun
  <2>2. h[k] = An!RunOf(t, k)[f]
    OBVIOUS
  <2>3. An!RunOf(t, k)[f] = SumF(w, An!RunRows(an_table, t, k[1], k[2]))
    OBVIOUS
  <2> HIDE DEF h, E, c
  <2> QED  BY <2>1, <2>2, <2>3
<1>5. An!SumRuns(t, f) = An!SumFunction(h)
  BY DEF An!SumRuns
<1> HIDE DEF h, E, c
<1>6. \A g \in {c[r] : r \in E} : h[g] = SumF(w, {r \in E : c[r] = g})
  BY <1>1, <1>4
<1>8. \A x \in E : w[x] \in Int
  BY <1>2
<1>7. An!SumFunction(h) = SumF(w, E)
  BY <1>8, <1>2, <1>3, <1>6, SumGrouped
<1> QED  BY <1>5, <1>7 DEF E

\* Retries, steps, cost and errors of the runs add up to what the metrics say.
LEMMA RunSums ==
    ASSUME An!KnownRows, AnInv, NEW t
    PROVE  /\ An!SumRuns(t, "errors") = SumF(Err, An!All(t))
           /\ An!Metric("loop_retry_ratio", An!All(t)).all =
                An!Ratio(An!SumRuns(t, "retries"), An!SumRuns(t, "steps"))
           /\ An!Metric("cost_per_completed_task", An!All(t)).all.num = An!SumRuns(t, "cost")
<1> DEFINE E == An!All(t)
           R(k) == An!RunRows(an_table, t, k[1], k[2])
<1>1. E \subseteq Rows
  BY AllIs
<1>2. \A k \in An!RunKeys(t) : R(k) \subseteq Rows
  BY <1>1, RowsOfRun
<1>3. \A k \in An!RunKeys(t) : An!RunOf(t, k) = An!ReconstructRun(R(k))
  BY DEF An!RunOf
<1>4. {"loop_retry_ratio", "cost_per_completed_task"} \subseteq An!Additive
  BY DEF An!Additive
<1> DEFINE wr == Num["loop_retry_ratio"]
           ws == Den["loop_retry_ratio"]
           wc == Num["cost_per_completed_task"]
<1>5. \A r \in Rows : wr[r] \in Int /\ ws[r] \in Int /\ wc[r] \in Int /\ Err[r] \in Int
  <2>1. \A name \in An!Additive, r \in Rows : Num[name][r] \in Nat /\ Den[name][r] \in Nat
    BY WeightsAre
  <2>2. \A r \in Rows : wr[r] \in Nat /\ ws[r] \in Nat /\ wc[r] \in Nat
    BY <1>4, <2>1
  <2> HIDE DEF wr, ws, wc
  <2>3. \A r \in Rows : Err[r] \in Int
    BY ErrIs
  <2> SUFFICES ASSUME NEW r \in Rows PROVE wr[r] \in Int /\ ws[r] \in Int /\ wc[r] \in Int /\ Err[r] \in Int
    OBVIOUS
  <2>4. wr[r] \in Nat /\ ws[r] \in Nat /\ wc[r] \in Nat
    BY <2>2
  <2>5. \A n \in Nat : n \in Int
    OBVIOUS
  <2>6. wr[r] \in Int /\ ws[r] \in Int /\ wc[r] \in Int
    BY <2>4, <2>5
  <2> QED  BY <2>3, <2>6
<1>6. ASSUME NEW S, S \subseteq Rows
      PROVE  /\ An!Cardinality({r \in An!Steps(S) : r.retry # ""}) = SumF(wr, S)
             /\ An!Cardinality(An!Steps(S)) = SumF(ws, S)
             /\ An!Total(S, "cost") = SumF(wc, S)
  <2>1. An!Metric("loop_retry_ratio", S).all = An!Ratio(SumF(wr, S), SumF(ws, S))
    BY <1>4, <1>6, Weighted
  <2>2. An!Metric("loop_retry_ratio", S).all =
          An!Ratio(An!Cardinality({r \in An!Steps(S) : r.retry # ""}), An!Cardinality(An!Steps(S)))
    BY MetricIs
  <2>3. \E d : An!Metric("cost_per_completed_task", S).all = An!Ratio(SumF(wc, S), d)
    BY <1>4, <1>6, Weighted
  <2>4. \E d : An!Metric("cost_per_completed_task", S).all = An!Ratio(An!Total(S, "cost"), d)
    BY MetricIs
  <2> HIDE DEF wr, ws, wc
  <2>5. An!Cardinality({r \in An!Steps(S) : r.retry # ""}) = SumF(wr, S)
    BY <2>1, <2>2, RatioEq
  <2>6. An!Cardinality(An!Steps(S)) = SumF(ws, S)
    <3> DEFINE a == SumF(wr, S)
               b == SumF(ws, S)
               c == An!Cardinality({r \in An!Steps(S) : r.retry # ""})
               d == An!Cardinality(An!Steps(S))
    <3>1. An!Ratio(c, d) = An!Ratio(a, b)
      BY <2>1, <2>2
    <3> HIDE DEF a, b, c, d
    <3>2. d = b
      BY <3>1, RatioEq
    <3> QED  BY <3>2 DEF d, b
  <2>7. An!Total(S, "cost") = SumF(wc, S)
    BY <2>3, <2>4, RatioEq
  <2> QED  BY <2>5, <2>6, <2>7
<1> HIDE DEF wr, ws, wc
<1>7. \A k \in An!RunKeys(t) :
        /\ An!RunOf(t, k)["errors"] = SumF(Err, R(k)) /\ An!RunOf(t, k)["retries"] = SumF(wr, R(k))
        /\ An!RunOf(t, k)["steps"] = SumF(ws, R(k)) /\ An!RunOf(t, k)["cost"] = SumF(wc, R(k))
  <2> SUFFICES ASSUME NEW k \in An!RunKeys(t)
               PROVE  /\ An!RunOf(t, k)["errors"] = SumF(Err, R(k)) /\ An!RunOf(t, k)["retries"] = SumF(wr, R(k))
                      /\ An!RunOf(t, k)["steps"] = SumF(ws, R(k)) /\ An!RunOf(t, k)["cost"] = SumF(wc, R(k))
    OBVIOUS
  <2> DEFINE S == R(k)
             run == An!RunOf(t, k)
  <2>1. S \subseteq Rows /\ run = An!ReconstructRun(S)
    BY <1>2, <1>3
  <2> HIDE DEF S, run
  <2>2. /\ run.steps = An!Cardinality(An!Steps(S))
        /\ run.errors = An!Cardinality({r \in An!Steps(S) : r.status \notin {"", "ok"}})
        /\ run.retries = An!Cardinality({r \in An!Steps(S) : r.retry # ""})
        /\ run.cost = An!Total(S, "cost")
    BY <2>1, RunFields
  <2>3. /\ An!Cardinality({r \in An!Steps(S) : r.retry # ""}) = SumF(wr, S)
        /\ An!Cardinality(An!Steps(S)) = SumF(ws, S)
        /\ An!Total(S, "cost") = SumF(wc, S)
    BY <1>6, <2>1
  <2>4. An!Cardinality({r \in An!Steps(S) : r.status \notin {"", "ok"}}) = SumF(Err, S)
    BY <2>1, ErrorsAre
  <2>5. run["errors"] = SumF(Err, S) /\ run["retries"] = SumF(wr, S)
        /\ run["steps"] = SumF(ws, S) /\ run["cost"] = SumF(wc, S)
    BY <2>2, <2>3, <2>4
  <2> QED  BY <2>5 DEF S, run
<1>8. An!SumRuns(t, "errors") = SumF(Err, E)
  BY <1>5, <1>7, SumRunsIs
<1>9. An!SumRuns(t, "retries") = SumF(wr, E)
  BY <1>5, <1>7, SumRunsIs
<1>10. An!SumRuns(t, "steps") = SumF(ws, E)
  BY <1>5, <1>7, SumRunsIs
<1>11. An!SumRuns(t, "cost") = SumF(wc, E)
  BY <1>5, <1>7, SumRunsIs
<1>12. An!Metric("loop_retry_ratio", E).all =
          An!Ratio(An!Cardinality({r \in An!Steps(E) : r.retry # ""}), An!Cardinality(An!Steps(E)))
  BY MetricIs
<1>13. An!Metric("cost_per_completed_task", E).all.num = An!Total(E, "cost")
  <2>1. An!Metric("cost_per_completed_task", E).all = An!Ratio(An!Total(E, "cost"), An!N(E, {"task_completed"}))
    BY MetricIs
  <2> QED  BY <2>1, RatioIs DEF RatioParts
<1> QED  BY <1>1, <1>6, <1>8, <1>9, <1>10, <1>11, <1>12, <1>13

\* Failed steps are those of the tools and those that name none.
Untooled(E) == {r \in An!Failed(An!Steps(E)) : r.tool = ""}

\* The failures of the tools and the untooled failures are all the failures.
LEMMA ToolFailures ==
    ASSUME An!KnownRows, NEW E, E \subseteq Rows,
           NEW tools, tools = An!Metric("per_tool_failure_rate", E)
    PROVE  SumF(Err, E) = An!SumFunction([g \in DOMAIN tools |-> tools[g].num]) + An!Cardinality(Untooled(E))
<1> DEFINE T == {r \in An!Steps(E) : r.tool # ""}
           U == {r \in An!Steps(E) : r.tool = ""}
           k == [r \in T |-> r.tool]
           h == [g \in DOMAIN tools |-> tools[g].num]
<1>1. T \subseteq E /\ U \subseteq E /\ T \cup U = An!Steps(E) /\ T \cap U = {} /\ An!Steps(E) \subseteq E
  BY DEF An!Steps, An!Of
<1>2. IsFiniteSet(E) /\ IsFiniteSet(T) /\ IsFiniteSet(U)
  BY <1>1, ErrorsAre, FS_Subset
<1>3. SumF(Err, E) = SumF(Err, An!Steps(E))
  <2>1. \A x \in E \ An!Steps(E) : Err[x] = 0
    BY ErrIs DEF An!Steps, An!Of
  <2> QED  BY <1>1, <1>2, <2>1, ErrIs, SumFilter
<1>4. SumF(Err, T \cup U) = SumF(Err, T) + SumF(Err, U)
  BY <1>1, <1>2, ErrIs, SumUnion
<1>5. An!Cardinality(Untooled(E)) = SumF(Err, U)
  <2>1. An!Steps(U) = U
    BY DEF An!Steps, An!Of
  <2>2. Untooled(E) = An!Failed(An!Steps(U))
    BY <2>1 DEF Untooled, An!Failed
  <2> QED  BY <1>1, <2>2, ErrorsAre
<1>6. DOMAIN tools = {k[r] : r \in T}
  <2>1. DOMAIN tools = {r.tool : r \in T}
    BY DEF An!Metric, An!METRICS
  <2> QED  BY <2>1
<1>7. \A g \in DOMAIN tools : tools[g].num = An!Cardinality(An!Failed({r \in T : r.tool = g}))
  <2>1. \A g \in DOMAIN tools :
            tools[g] = An!Ratio(An!Cardinality(An!Failed({r \in T : r.tool = g})), An!Cardinality({r \in T : r.tool = g}))
    BY DEF An!Metric, An!METRICS
  <2> HIDE DEF T
  <2>2. \A n, d : An!Ratio(n, d).num = n
    BY RatioIs DEF RatioParts
  <2> SUFFICES ASSUME NEW g \in DOMAIN tools
               PROVE  tools[g].num = An!Cardinality(An!Failed({r \in T : r.tool = g}))
    OBVIOUS
  <2>3. tools[g] = An!Ratio(An!Cardinality(An!Failed({r \in T : r.tool = g})), An!Cardinality({r \in T : r.tool = g}))
    BY <2>1
  <2>4. An!Ratio(An!Cardinality(An!Failed({r \in T : r.tool = g})), An!Cardinality({r \in T : r.tool = g})).num
          = An!Cardinality(An!Failed({r \in T : r.tool = g}))
    BY <2>2
  <2> QED  BY <2>3, <2>4
<1>8. \A g \in DOMAIN tools : h[g] = SumF(Err, {r \in T : k[r] = g})
  <2> SUFFICES ASSUME NEW g \in DOMAIN tools PROVE h[g] = SumF(Err, {r \in T : k[r] = g})
    OBVIOUS
  <2> DEFINE M == {r \in T : r.tool = g}
  <2>1. {r \in T : k[r] = g} = M /\ M \subseteq Rows /\ An!Steps(M) = M
    BY DEF An!Steps, An!Of
  <2>2. An!Cardinality(An!Failed(M)) = SumF(Err, M)
    BY <2>1, ErrorsAre
  <2>3. h[g] = An!Cardinality(An!Failed(M))
    BY <1>7
  <2> QED  BY <2>1, <2>2, <2>3
<1> HIDE DEF h, k, T, U
<1>9. DOMAIN h = DOMAIN tools
  BY DEF h
<1>10. An!SumFunction(h) = SumF(Err, T)
  <2>1. \A x \in T : Err[x] \in Int
    BY <1>1, ErrIs
  <2> QED  BY <1>2, <1>6, <1>8, <1>9, <2>1, SumGrouped
<1> QED  BY <1>1, <1>3, <1>4, <1>5, <1>10 DEF h
-----------------------------------------------------------------------------
(* Guardrails per arm of an experiment.                                    *)

\* The override guardrail of an arm as sums.
LEMMA OverrideIs ==
    ASSUME NEW E
    PROVE  An!Metric("override_rate", E).all =
             An!Ratio(An!N(E, {"human_overrode"}), An!AtLeast1(An!Cardinality(An!Tasks(E))))
  BY DEF An!Metric, An!METRICS, An!Single

\* The success guardrail of an arm as sums.
LEMMA SuccessIs ==
    ASSUME NEW E
    PROVE  An!Metric("task_success_rate", E).all =
             An!Ratio(An!N(E, {"task_completed"}), An!N(E, An!END_EVENTS))
<1>1. An!Of(An!Of(E, An!END_EVENTS), {"task_completed"}) = An!Of(E, {"task_completed"})
  BY DEF An!Of, An!END_EVENTS
<1>2. An!Metric("task_success_rate", E).all =
        An!Ratio(An!N(An!Of(E, An!END_EVENTS), {"task_completed"}), An!Cardinality(An!Of(E, An!END_EVENTS)))
  BY MetricIs
<1> QED  BY <1>1, <1>2 DEF An!N
-----------------------------------------------------------------------------
(* Clusters of failures.                                                   *)

\* The rows a signature is made of.
LEMMA FailedRows ==
    ASSUME An!KnownRows, NEW E, E \subseteq Rows, NEW rows, rows = An!FailureRows(E)
    PROVE  /\ \A r \in rows : r \in E /\ (An!IsToolFailure(r) \/ r.event = "human_overrode")
           /\ {r \in rows : An!IsToolFailure(r)} = {r \in E : An!IsToolFailure(r)}
           /\ {r \in rows : ~An!IsToolFailure(r)} = An!Of(E, {"human_overrode"})
           /\ {r \in rows : An!IsToolFailure(r) \/ r.event = "human_overrode"} = rows
<1>1. \A r \in E : r.event = "step_executed" => r.status # ""
  BY DEF An!KnownRows
<1>2. \A r \in E : r \in rows <=> An!IsToolFailure(r) \/ r.event = "human_overrode"
  BY <1>1 DEF An!FailureRows, An!IsToolFailure, An!Steps, An!Of
<1>3. rows \subseteq E
  BY DEF An!FailureRows, An!Steps, An!Of
<1>4. \A r : An!IsToolFailure(r) => r.event # "human_overrode"
  BY DEF An!IsToolFailure
<1>5. An!Of(E, {"human_overrode"}) = {r \in E : r.event = "human_overrode"}
  BY DEF An!Of
<1> QED  BY <1>2, <1>3, <1>4, <1>5

\* What a failure's signature tells of its row.
LEMMA SignatureSays ==
    \A r : An!Signature(r)[1] = (IF An!IsToolFailure(r) THEN "tool_failure" ELSE "human_override")
  BY DEF An!Signature

\* The failures of tools and the failed steps that name none are the failed steps.
LEMMA ToolsAndUntooled ==
    ASSUME An!KnownRows, NEW E, E \subseteq Rows
    PROVE  /\ Cardinality({r \in E : An!IsToolFailure(r)}) = SumF(Err, E) - An!Cardinality(Untooled(E))
<1> DEFINE T == {r \in E : An!IsToolFailure(r)}
           U == Untooled(E)
           F == An!Failed(An!Steps(E))
<1>1. T \cup U = F /\ T \cap U = {}
  BY DEF Untooled, An!IsToolFailure, An!Failed, An!Steps, An!Of, An!KnownRows
<1>2. F \subseteq E /\ T \subseteq E /\ U \subseteq E
  BY <1>1 DEF Untooled, An!Failed, An!Steps, An!Of
<1>3. IsFiniteSet(E) /\ An!Cardinality(F) = SumF(Err, E)
  BY ErrorsAre
<1> HIDE DEF T, U, F
<1>4. IsFiniteSet(T) /\ IsFiniteSet(U)
  BY <1>2, <1>3, FS_Subset
<1>5. Cardinality(F) = Cardinality(T) + Cardinality(U) - Cardinality({})
  BY <1>1, <1>4, FS_Union
<1>6. Cardinality(T) \in Nat /\ Cardinality(U) \in Nat /\ Cardinality({}) = 0
  BY <1>4, FS_CardinalityType, FS_EmptySet
<1>7. Cardinality(T) = Cardinality(F) - Cardinality(U)
  BY <1>5, <1>6
<1> QED  BY <1>3, <1>7, AnSets DEF T, U

\* Failure clusters count every failure once (analysis-agent/src/clusters.ts).
LEMMA ClustersDoAgree ==
    ASSUME An!KnownRows, AnInv
    PROVE  An!ClustersAgree
<1> SUFFICES ASSUME NEW t \in An!Tenants
             PROVE  LET rows == An!FailureRows(An!All(t))
                        U == {r \in An!Failed(An!Steps(An!All(t))) : r.tool = ""}
                        clusters == An!ClusterFailures(rows)
                        Claimed(layer) ==
                            An!SumFunction([sig \in DOMAIN clusters |->
                                LET draft == An!ClusterFinding(sig, clusters[sig], "q")
                                IN  IF draft.layer = layer THEN draft.member_runs ELSE 0])
                    IN  /\ UNION {clusters[sig] : sig \in DOMAIN clusters} = rows
                        /\ An!SumFunction([sig \in DOMAIN clusters |-> An!Cardinality(clusters[sig])])
                             = An!Cardinality(rows)
                        /\ Claimed("O") = An!SumRuns(t, "errors") - An!Cardinality(U)
                        /\ Claimed("A") = An!Metric("override_rate", An!All(t)).all.num
  BY DEF An!ClustersAgree
<1> DEFINE E == An!All(t)
           rows == An!FailureRows(E)
           U == {r \in An!Failed(An!Steps(E)) : r.tool = ""}
           clusters == An!ClusterFailures(rows)
           D == DOMAIN clusters
           Claim(layer) ==
               [sig \in DOMAIN clusters |->
                   LET draft == An!ClusterFinding(sig, clusters[sig], "q")
                   IN  IF draft.layer = layer THEN draft.member_runs ELSE 0]
           sizes == [sig \in DOMAIN clusters |-> An!Cardinality(clusters[sig])]
           k == [r \in rows |-> An!Signature(r)]
           one == [r \in rows |-> 1]
           wo == [r \in rows |-> IF An!IsToolFailure(r) THEN 1 ELSE 0]
           wa == [r \in rows |-> IF An!IsToolFailure(r) THEN 0 ELSE 1]
<1>1. E \subseteq Rows /\ IsFiniteSet(E)
  BY AllIs
<1>2. rows \subseteq E /\ {r \in rows : An!IsToolFailure(r) \/ r.event = "human_overrode"} = rows
  BY <1>1, FailedRows
<1>3. IsFiniteSet(rows)
  BY <1>1, <1>2, FS_Subset
<1>4. /\ D = {k[r] : r \in rows}
      /\ \A sig \in D : clusters[sig] = {r \in rows : k[r] = sig}
  <2>1. clusters = [sig \in {An!Signature(r) : r \in rows} |-> {r \in rows : An!Signature(r) = sig}]
    <3> HIDE DEF rows
    <3> QED  BY <1>2 DEF An!ClusterFailures
  <2>2. {An!Signature(r) : r \in rows} = {k[r] : r \in rows}
    OBVIOUS
  <2> HIDE DEF clusters, rows
  <2> QED  BY <2>1, <2>2
<1>5. /\ DOMAIN Claim("O") = D /\ DOMAIN Claim("A") = D /\ DOMAIN sizes = D
      /\ \A sig \in D : sizes[sig] = An!Cardinality(clusters[sig])
  OBVIOUS
<1>6. ASSUME NEW sig \in D
      PROVE  /\ Claim("O")[sig] = (IF sig[1] = "human_override" THEN 0 ELSE An!Cardinality(clusters[sig]))
             /\ Claim("A")[sig] = (IF sig[1] = "human_override" THEN An!Cardinality(clusters[sig]) ELSE 0)
  <2> DEFINE draft == An!ClusterFinding(sig, clusters[sig], "q")
  <2>1. /\ draft.layer = (IF sig[1] = "human_override" THEN "A" ELSE "O")
        /\ draft.member_runs = An!Cardinality(clusters[sig])
    BY DEF An!ClusterFinding
  <2>2. /\ Claim("O")[sig] = (IF draft.layer = "O" THEN draft.member_runs ELSE 0)
        /\ Claim("A")[sig] = (IF draft.layer = "A" THEN draft.member_runs ELSE 0)
    OBVIOUS
  <2> HIDE DEF draft, Claim, clusters
  <2> QED  BY <2>1, <2>2
<1>7. \A r \in rows : /\ one[r] = 1 /\ k[r] = An!Signature(r)
                      /\ wo[r] = (IF An!IsToolFailure(r) THEN 1 ELSE 0)
                      /\ wa[r] = (IF An!IsToolFailure(r) THEN 0 ELSE 1)
  OBVIOUS
<1> HIDE DEF one, k, wo, wa, Claim, sizes, clusters, D
<1>8. ASSUME NEW sig \in D
      PROVE  /\ sizes[sig] = SumF(one, {r \in rows : k[r] = sig})
             /\ Claim("O")[sig] = SumF(wo, {r \in rows : k[r] = sig})
             /\ Claim("A")[sig] = SumF(wa, {r \in rows : k[r] = sig})
  <2> DEFINE M == {r \in rows : k[r] = sig}
  <2>1. M \subseteq rows /\ clusters[sig] = M
    BY <1>4
  <2>2. \A r \in M : sig[1] = (IF An!IsToolFailure(r) THEN "tool_failure" ELSE "human_override")
    BY <1>7, SignatureSays
  <2> HIDE DEF M, rows
  <2>3. IsFiniteSet(M)
    BY <1>3, <2>1, FS_Subset
  <2>4. \A r \in M : one[r] = 1
    BY <1>7, <2>1
  <2>5. SumF(one, M) = Cardinality(M)
    BY <2>3, <2>4, SumOnes
  <2>6. CASE sig[1] = "human_override"
    <3>1. \A r \in M : wo[r] = 0 /\ wa[r] = 1
      BY <1>7, <2>1, <2>2, <2>6
    <3>2. SumF(wo, M) = 0 /\ SumF(wa, M) = Cardinality(M)
      BY <2>3, <3>1, SumOnes, SumZero
    <3>3. Claim("O")[sig] = 0 /\ Claim("A")[sig] = An!Cardinality(M) /\ sizes[sig] = An!Cardinality(M)
      BY <1>5, <1>6, <2>1, <2>6
    <3> QED  BY <2>5, <3>2, <3>3, AnSets DEF M
  <2>7. CASE sig[1] # "human_override"
    <3>1. \A r \in M : wo[r] = 1 /\ wa[r] = 0
      BY <1>7, <2>1, <2>2, <2>7
    <3>2. SumF(wa, M) = 0 /\ SumF(wo, M) = Cardinality(M)
      BY <2>3, <3>1, SumOnes, SumZero
    <3>3. Claim("A")[sig] = 0 /\ Claim("O")[sig] = An!Cardinality(M) /\ sizes[sig] = An!Cardinality(M)
      BY <1>5, <1>6, <2>1, <2>7
    <3> QED  BY <2>5, <3>2, <3>3, AnSets DEF M
  <2> QED  BY <2>6, <2>7
<1>9. \A r \in rows : one[r] \in Int /\ wo[r] \in Int /\ wa[r] \in Int
  BY <1>7
<1> DEFINE TF == {r \in rows : An!IsToolFailure(r)}
           HO == {r \in rows : ~An!IsToolFailure(r)}
<1>10. TF = {r \in E : An!IsToolFailure(r)} /\ HO = An!Of(E, {"human_overrode"})
  BY <1>1, FailedRows
<1>11. /\ TF \subseteq rows /\ (\A x \in TF : wo[x] = 1) /\ \A x \in rows \ TF : wo[x] = 0
       /\ HO \subseteq rows /\ (\A x \in HO : wa[x] = 1) /\ \A x \in rows \ HO : wa[x] = 0
  BY <1>7
<1> HIDE DEF rows, TF, HO
<1>a. ASSUME NEW h, NEW w, DOMAIN h = D, \A sig \in D : h[sig] = SumF(w, {r \in rows : k[r] = sig}),
             \A r \in rows : w[r] \in Int
      PROVE  An!SumFunction(h) = SumF(w, rows)
  <2>1. DOMAIN h = {k[r] : r \in rows}
    BY <1>4, <1>a
  <2>2. \A g \in {k[r] : r \in rows} : h[g] = SumF(w, {r \in rows : k[r] = g})
    BY <1>4, <1>a
  <2> QED  BY <1>3, <1>a, <2>1, <2>2, SumGrouped
<1>12. An!SumFunction(sizes) = SumF(one, rows)
  BY <1>5, <1>8, <1>9, <1>a
<1>13. An!SumFunction(Claim("O")) = SumF(wo, rows)
  <2> DEFINE h == Claim("O")
  <2>1. DOMAIN h = D /\ \A sig \in D : h[sig] = SumF(wo, {r \in rows : k[r] = sig})
    BY <1>5, <1>8
  <2>2. \A r \in rows : wo[r] \in Int
    BY <1>9
  <2> HIDE DEF h
  <2>3. An!SumFunction(h) = SumF(wo, rows)
    BY <2>1, <2>2, <1>a
  <2> QED  BY <2>3 DEF h
<1>14. An!SumFunction(Claim("A")) = SumF(wa, rows)
  <2> DEFINE h == Claim("A")
  <2>1. DOMAIN h = D /\ \A sig \in D : h[sig] = SumF(wa, {r \in rows : k[r] = sig})
    BY <1>5, <1>8
  <2>2. \A r \in rows : wa[r] \in Int
    BY <1>9
  <2> HIDE DEF h
  <2>3. An!SumFunction(h) = SumF(wa, rows)
    BY <2>1, <2>2, <1>a
  <2> QED  BY <2>3 DEF h
<1>15. SumF(one, rows) = Cardinality(rows)
  BY <1>3, <1>7, SumOnes
<1>16. An!Cardinality(TF) = SumF(wo, rows) /\ An!Cardinality(HO) = SumF(wa, rows)
  BY <1>3, <1>11, CardIs
<1>17. UNION {clusters[sig] : sig \in D} = rows
  <2>1. \A r \in rows : k[r] \in D /\ r \in clusters[k[r]]
    BY <1>4
  <2>2. \A sig \in D : clusters[sig] \subseteq rows
    BY <1>4
  <2> QED  BY <2>1, <2>2
<1>18. An!SumFunction(Claim("O")) = An!SumRuns(t, "errors") - An!Cardinality(U)
  <2>1. Cardinality(TF) = SumF(Err, E) - An!Cardinality(Untooled(E))
    BY <1>1, <1>10, ToolsAndUntooled
  <2>2. An!SumRuns(t, "errors") = SumF(Err, E)
    BY RunSums
  <2>3. Untooled(E) = U
    BY DEF Untooled
  <2> HIDE DEF U, E
  <2> QED  BY <1>13, <1>16, <2>1, <2>2, <2>3, AnSets
<1>19. An!SumFunction(Claim("A")) = An!Metric("override_rate", E).all.num
  <2>1. An!Metric("override_rate", E).all.num = An!N(E, {"human_overrode"})
    BY OverrideIs, RatioIs DEF RatioParts
  <2> QED  BY <1>10, <1>14, <1>16, <2>1 DEF An!N
<1>20. An!SumFunction(sizes) = An!Cardinality(rows)
  BY <1>12, <1>15, AnSets
<1> HIDE DEF E, U
<1> QED  BY <1>17, <1>18, <1>19, <1>20 DEF D, rows, clusters, Claim, sizes, E, U
-----------------------------------------------------------------------------
(* Scorers, judges and gates.                                              *)

\* The keys in some order: each once.
LEMMA KeySeq ==
    ASSUME NEW K, IsFiniteSet(K), NEW s, s = An!SetToSeq(K), NEW n, n = Cardinality(K)
    PROVE  /\ n \in Nat /\ s \in [1..n -> K] /\ Len(s) = n
           /\ \A i, j \in 1..n : s[i] = s[j] => i = j
           /\ \A k \in K : \E i \in 1..n : s[i] = k
<1>1. n \in Nat /\ ExistsBijection(1..n, K)
  BY FS_CardinalityType
<1>2. \E f \in [1..n -> K] : An!IsInjective(f)
  BY <1>1 DEF ExistsBijection, Bijection, Injection, Surjection, IsInjective, An!IsInjective
<1>3. s = CHOOSE f \in [1..n -> K] : An!IsInjective(f)
  BY AnSets DEF An!SetToSeq
<1>4. s \in [1..n -> K] /\ An!IsInjective(s)
  BY <1>2, <1>3
<1>5. \A i, j \in 1..n : s[i] = s[j] => i = j
  BY <1>4 DEF An!IsInjective
<1>6. s \in Injection(1..n, K)
  BY <1>4, <1>5 DEF Injection, IsInjective
<1>7. Cardinality(1..n) = n
  <2>1. 1 \in Int /\ n \in Int /\ n - 1 + 1 = n
    BY <1>1
  <2>2. Cardinality(1..n) = IF 1 > n THEN 0 ELSE n - 1 + 1
    BY <2>1, FS_Interval
  <2>3. n = 0 \/ ~(1 > n)
    BY <1>1
  <2> QED  BY <2>1, <2>2, <2>3
<1>8. s \in Surjection(1..n, K)
  BY <1>6, <1>7, FS_Injection
<1>9. \A k \in K : \E i \in 1..n : s[i] = k
  BY <1>8 DEF Surjection
<1>10. Len(s) = n
  BY <1>1, <1>4
<1> QED  BY <1>1, <1>4, <1>5, <1>9, <1>10

\* A sum does not depend on what its terms are called.
LEMMA SumRenamed ==
    ASSUME NEW J, IsFiniteSet(J), NEW w, DOMAIN w = J, \A j \in J : w[j] \in Int,
           NEW c, \A i, j \in J : c[i] = c[j] => i = j,
           NEW h, NEW S, DOMAIN h = S, S = {c[j] : j \in J}, \A j \in J : h[c[j]] = w[j]
    PROVE  An!SumFunction(w) = An!SumFunction(h)
<1>1. ASSUME NEW g \in {c[j] : j \in J} PROVE h[g] = SumF(w, {j \in J : c[j] = g})
  <2>1. PICK i \in J : g = c[i]
    OBVIOUS
  <2>2. {j \in J : c[j] = g} = {} \cup {i}
    BY <2>1
  <2>3. IsFiniteSet({}) /\ i \notin {} /\ \A x \in {} \cup {i} : w[x] \in Int
    BY FS_EmptySet
  <2>4. SumF(w, {} \cup {i}) = w[i] + SumF(w, {})
    BY <2>3, SumAdd
  <2>5. w[i] \in Int /\ SumF(w, {}) = 0
    BY SumEmpty
  <2>6. SumF(w, {} \cup {i}) = w[i]
    BY <2>4, <2>5
  <2> QED  BY <2>1, <2>2, <2>6
<1>2. \A g \in {c[j] : j \in J} : h[g] = SumF(w, {j \in J : c[j] = g})
  BY <1>1
<1>3. An!SumFunction(h) = SumF(w, J)
  BY <1>2, SumGrouped
<1>4. An!SumFunction(w) = SumF(w, J)
  BY SumFunctionIs
<1> QED  BY <1>3, <1>4

\* J joins each row r of S with one exposure, as k[r].
JoinsOnce(S, J, k) ==
    /\ \A j \in J : j[1] \in S /\ k[j[1]] = j
    /\ \A r \in S : k[r] \in J /\ k[r][1] = r

\* Where each row is joined once, an arm's guardrail is the rows' metric.
LEMMA ArmIs ==
    ASSUME NEW S, IsFiniteSet(S), \A r \in S : r.cost \in Int, NEW J, NEW k, JoinsOnce(S, J, k),
           NEW m \in {"task_success_rate", "cost_per_completed_task", "override_rate"}
    PROVE  An!ArmAggregates(J)[m] = An!Metric(m, S).all
<1> DEFINE Count(names) == An!Cardinality({j \in J : j[1].event \in names})
           w == [j \in J |-> j[1].cost]
<1>1. /\ An!ArmAggregates(J)["task_success_rate"] = An!Ratio(Count({"task_completed"}), Count(An!END_EVENTS))
      /\ An!ArmAggregates(J)["cost_per_completed_task"] =
            An!Ratio(An!SumFunction(w), Count({"task_completed"}))
      /\ An!ArmAggregates(J)["override_rate"] =
            An!Ratio(Count({"human_overrode"}), An!AtLeast1(An!Cardinality(An!Tasks({j[1] : j \in J}))))
  BY DEF An!ArmAggregates
<1>2. ASSUME NEW names PROVE Count(names) = An!N(S, names)
  <2> DEFINE R == An!Of(S, names)
             Q == {j \in J : j[1].event \in names}
             c == [r \in R |-> k[r]]
  <2>1. R \subseteq S /\ \A r \in S : r \in R <=> r.event \in names
    BY DEF An!Of
  <2>2. IsFiniteSet(R)
    BY <2>1, FS_Subset
  <2>3. Q = {c[r] : r \in R}
    <3>1. ASSUME NEW j \in Q PROVE j[1] \in R /\ c[j[1]] = j
      BY <2>1 DEF JoinsOnce
    <3>2. ASSUME NEW r \in R PROVE c[r] \in Q
      BY <2>1 DEF JoinsOnce
    <3> HIDE DEF Q, R, c
    <3> QED  BY <3>1, <3>2
  <2>4. \A r, q \in R : c[r] = c[q] => r = q
    BY <2>1 DEF JoinsOnce
  <2>5. Count(names) = An!Cardinality(Q) /\ An!N(S, names) = An!Cardinality(R)
    BY DEF An!N
  <2> HIDE DEF R, Q, c
  <2> QED  BY <2>2, <2>3, <2>4, <2>5, ImageCard, AnSets
<1>3. {j[1] : j \in J} = S
  <2>1. \A r \in S : \E j \in J : j[1] = r
    BY DEF JoinsOnce
  <2> QED  BY <2>1 DEF JoinsOnce
<1>4. J = {k[r] : r \in S}
  <2>1. \A j \in J : \E r \in S : j = k[r]
    BY DEF JoinsOnce
  <2> QED  BY <2>1 DEF JoinsOnce
<1>5. IsFiniteSet(J)
  BY <1>4, ImageFinite
<1>6. An!SumFunction(w) = An!Total(S, "cost")
  <2> DEFINE first == [j \in J |-> j[1]]
             h == [r \in S |-> r.cost]
  <2>1. DOMAIN w = J /\ DOMAIN h = S /\ S = {first[j] : j \in J}
    <3>1. {first[j] : j \in J} = {j[1] : j \in J}
      OBVIOUS
    <3> QED  BY <1>3, <3>1
  <2>2. \A i, j \in J : first[i] = first[j] => i = j
    BY DEF JoinsOnce
  <2>3. \A j \in J : w[j] \in Int /\ h[first[j]] = w[j]
    BY DEF JoinsOnce
  <2> HIDE DEF w, h, first
  <2>4. An!SumFunction(w) = An!SumFunction(h)
    BY <1>5, <2>1, <2>2, <2>3, SumRenamed
  <2> QED  BY <2>4 DEF h, An!Total
<1> HIDE DEF Count, w
<1>7. An!Metric("cost_per_completed_task", S).all = An!Ratio(An!Total(S, "cost"), An!N(S, {"task_completed"}))
  BY MetricIs
<1>8. CASE m = "task_success_rate"
  BY <1>1, <1>2, <1>8, SuccessIs
<1>9. CASE m = "cost_per_completed_task"
  BY <1>1, <1>2, <1>6, <1>7, <1>9
<1>10. CASE m = "override_rate"
  BY <1>1, <1>2, <1>3, <1>10, OverrideIs
<1> QED  BY <1>8, <1>9, <1>10

\* Guardrails per arm and the metrics of that arm's rows agree (experiments/src/flags.ts).
LEMMA ArmsDoAgree ==
    ASSUME An!KnownRows, AnInv
    PROVE  An!ArmsAgree
<1> SUFFICES ASSUME NEW t \in An!Tenants, NEW provider \in {"posthog", "launchdarkly"},
                    NEW answer \in [An!Tasks(An!All(t)) -> {"true", "variant", "missing"}],
                    NEW m \in {"task_success_rate", "cost_per_completed_task", "override_rate"}
             PROVE  LET ArmOf(task) == An!Assign(provider, answer[task])
                        tasks == An!SetToSeq(An!Tasks(An!All(t)))
                        exposures == [i \in DOMAIN tasks |-> <<tasks[i], ArmOf(tasks[i])>>]
                        InArm(arm) == {r \in An!All(t) : ArmOf(r.task) = arm}
                        perArm == An!PerArmMetric(m, An!All(t), exposures)
                    IN  \A arm \in DOMAIN perArm : perArm[arm] = An!Metric(m, InArm(arm)).all
  BY DEF An!ArmsAgree
<1> DEFINE E == An!All(t)
           T == An!Tasks(E)
           n == Cardinality(T)
           ArmOf(task) == An!Assign(provider, answer[task])
           tasks == An!SetToSeq(T)
           exposures == [i \in DOMAIN tasks |-> <<tasks[i], ArmOf(tasks[i])>>]
           InArm(arm) == {r \in E : ArmOf(r.task) = arm}
           perArm == An!PerArmMetric(m, E, exposures)
           Joined(arm) == {j \in E \X DOMAIN exposures : exposures[j[2]] = <<j[1].task, arm>>}
           arms == {exposures[i][2] : i \in DOMAIN exposures}
<1>1. perArm = [arm \in {a \in arms : Joined(a) # {}} |-> An!ArmAggregates(Joined(arm))[m]]
  BY DEF An!PerArmMetric
<1>2. IsFiniteSet(E) /\ \A r \in E : r.task \in T /\ r.cost \in Int
  <2>1. IsFiniteSet(E) /\ E \subseteq Rows
    BY AllIs
  <2>2. \A r \in Rows : r.cost \in Nat
    BY DEF An!KnownRows
  <2>3. \A r \in E : r.task \in T
    BY DEF An!Tasks
  <2> QED  BY <2>1, <2>2, <2>3
<1>3. IsFiniteSet(T)
  <2> DEFINE c == [r \in E |-> r.task]
  <2>1. T = {c[r] : r \in E}
    BY DEF An!Tasks
  <2> HIDE DEF c, E, T
  <2> QED  BY <1>2, <2>1, ImageFinite
<1>4. /\ n \in Nat /\ tasks \in [1..n -> T] /\ DOMAIN tasks = 1..n
      /\ \A i, j \in 1..n : tasks[i] = tasks[j] => i = j
      /\ \A x \in T : \E i \in 1..n : tasks[i] = x
  <2> HIDE DEF T
  <2> QED  BY <1>3, KeySeq
<1>5. DOMAIN exposures = 1..n /\ \A i \in 1..n : exposures[i] = <<tasks[i], ArmOf(tasks[i])>>
  BY <1>4
<1> DEFINE At == [x \in T |-> CHOOSE i \in 1..n : tasks[i] = x]
<1>6. \A x \in T : At[x] \in 1..n /\ tasks[At[x]] = x
  BY <1>4
<1>7. \A i \in 1..n : tasks[i] \in T /\ At[tasks[i]] = i
  BY <1>4, <1>6
<1> HIDE DEF At, tasks, exposures, T, n, E, ArmOf
<1>8. ASSUME NEW arm PROVE An!ArmAggregates(Joined(arm))[m] = An!Metric(m, InArm(arm)).all
  <2> DEFINE S == InArm(arm)
             J == Joined(arm)
             k == [r \in S |-> <<r, At[r.task]>>]
  <2>1. ASSUME NEW j \in J PROVE j[1] \in S /\ k[j[1]] = j
    <3>1. /\ j[1] \in E /\ j[2] \in 1..n /\ j = <<j[1], j[2]>>
          /\ exposures[j[2]] = <<j[1].task, arm>>
      BY <1>5
    <3> DEFINE x == j[1].task
    <3>2. tasks[j[2]] = x /\ ArmOf(tasks[j[2]]) = arm
      BY <1>5, <3>1
    <3> HIDE DEF x
    <3>3. ArmOf(x) = arm /\ At[x] = j[2]
      BY <1>7, <3>1, <3>2
    <3>4. j[1] \in S
      BY <3>1, <3>3 DEF x
    <3>5. k[j[1]] = <<j[1], At[x]>>
      BY <3>4 DEF x
    <3> QED  BY <3>1, <3>3, <3>4, <3>5
  <2>2. ASSUME NEW r \in S PROVE k[r] \in J /\ k[r][1] = r
    <3> DEFINE x == r.task
               i == At[x]
    <3>1. x \in T /\ r \in E /\ ArmOf(x) = arm
      BY <1>2
    <3> HIDE DEF x
    <3>2. i \in 1..n /\ tasks[i] = x
      BY <1>6, <3>1
    <3>3. k[r] = <<r, i>>
      BY DEF x
    <3> HIDE DEF i, k
    <3>4. exposures[i] = <<x, arm>>
      BY <1>5, <3>1, <3>2
    <3>5. <<r, i>> \in J
      BY <1>5, <3>1, <3>2, <3>4 DEF x
    <3> QED  BY <3>3, <3>5
  <2>3. S \subseteq E
    OBVIOUS
  <2> HIDE DEF S, J, k
  <2>4. IsFiniteSet(S) /\ \A r \in S : r.cost \in Int
    BY <1>2, <2>3, FS_Subset
  <2>5. JoinsOnce(S, J, k)
    BY <2>1, <2>2 DEF JoinsOnce
  <2>8. An!ArmAggregates(J)[m] = An!Metric(m, S).all
    BY <2>4, <2>5, ArmIs
  <2> QED  BY <2>8 DEF S, J
<1> DEFINE A == {a \in arms : Joined(a) # {}}
<1>9. DOMAIN perArm = A /\ \A arm \in A : perArm[arm] = An!ArmAggregates(Joined(arm))[m]
  BY <1>1
<1> HIDE DEF A, perArm, Joined, InArm
<1>10. \A arm \in DOMAIN perArm : perArm[arm] = An!Metric(m, InArm(arm)).all
  BY <1>8, <1>9
<1> QED  BY <1>10 DEF perArm, InArm, exposures, ArmOf, E, tasks, T

\* s is p, of length m, followed by q, of length n.
Joins(s, p, m, q, n, X) ==
    /\ s \in Seq(X) /\ Len(s) = m + n /\ DOMAIN s = 1..(m + n)
    /\ \A i \in 1..m : s[i] = p[i]
    /\ \A i \in 1..n : s[m + i] = q[i]

\* Where the elements of two concatenated sequences are.
LEMMA Concat2 ==
    ASSUME NEW X, NEW p \in Seq(X), NEW q \in Seq(X)
    PROVE  Joins(p \o q, p, Len(p), q, Len(q), X)
<1> DEFINE s == p \o q
           m == Len(p)
           n == Len(q)
<1>1. s \in Seq(X) /\ m \in Nat /\ n \in Nat
  OBVIOUS
<1>2. Len(s) = m + n
  OBVIOUS
<1>3. DOMAIN s = 1..(m + n)
  BY <1>1, <1>2
<1>4. \A i \in 1..m : s[i] = p[i]
  OBVIOUS
<1>5. ASSUME NEW i \in 1..n PROVE s[m + i] = q[i]
  <2>1. m + i \in 1..(m + n) /\ ~(m + i <= m) /\ (m + i) - m = i
    BY <1>1
  <2> QED  BY <2>1
<1> QED  BY <1>1, <1>2, <1>3, <1>4, <1>5 DEF Joins

\* The greater of two numbers.
LEMMA MaxPair ==
    ASSUME NEW l \in Int, NEW h \in Int, l <= h
    PROVE  An!Max({l, h}) = h /\ An!Max({h}) = h
<1>1. IsFiniteSet({l}) /\ IsFiniteSet({h})
  BY FS_Singleton
<1>2. {l, h} = {l} \cup {h}
  OBVIOUS
<1>3. IsFiniteSet({l, h})
  BY <1>1, <1>2, FS_Union
<1>4. An!Max({l, h}) \in {l, h} /\ \A x \in {l, h} : x <= An!Max({l, h})
  BY <1>3, MaxIs
<1>5. An!Max({h}) \in {h}
  BY <1>1, MaxIs
<1> QED  BY <1>4, <1>5

\* s is three sequences of length n.
Joins3(s, n, p, q, r) ==
    /\ DOMAIN s = 1..((n + n) + n)
    /\ \A i \in 1..n : s[i] = p[i] /\ s[n + i] = q[i] /\ s[(n + n) + i] = r[i]

\* Where the elements of three concatenated sequences are.
LEMMA Concat3 ==
    ASSUME NEW n \in Nat, NEW X, NEW p \in [1..n -> X], NEW q \in [1..n -> X], NEW r \in [1..n -> X]
    PROVE  Joins3(p \o q \o r, n, p, q, r)
<1> DEFINE s == p \o q \o r
<1>1. p \in Seq(X) /\ q \in Seq(X) /\ r \in Seq(X) /\ Len(p) = n /\ Len(q) = n /\ Len(r) = n
  OBVIOUS
<1> DEFINE pq == p \o q
           m == n + n
<1>3. m \in Nat /\ \A i \in 1..n : i \in 1..m /\ n + i \in 1..m
  OBVIOUS
<1>6. s = pq \o r
  OBVIOUS
<1> HIDE DEF s
<1>2. Joins(pq, p, n, q, n, X)
  BY <1>1, Concat2
<1>8. pq \in Seq(X) /\ Len(pq) = m
  BY <1>2 DEF Joins
<1>9. \A i \in 1..n : pq[i] = p[i] /\ pq[n + i] = q[i]
  BY <1>2 DEF Joins
<1> HIDE DEF pq, m
<1>10. Joins(s, pq, m, r, n, X)
  BY <1>1, <1>6, <1>8, Concat2
<1>4. /\ DOMAIN s = 1..(m + n) /\ \A i \in 1..m : s[i] = pq[i]
      /\ \A i \in 1..n : s[m + i] = r[i]
  BY <1>10 DEF Joins
<1>7. \A i \in 1..n : s[i] = p[i] /\ s[n + i] = q[i] /\ s[m + i] = r[i]
  BY <1>9, <1>3, <1>4
<1> QED  BY <1>4, <1>7 DEF m, s, Joins3

\* Scores in which each trace is judged twice, the second time with a, and scored by a human
\* once, with b.
JudgedTwice(K, s, lo, mid, hi, a, b) ==
    /\ \A k \in K : lo[k] \in Int /\ hi[k] \in Int /\ mid[k] \in Int /\ lo[k] <= hi[k]
    /\ \A k \in K : a[k] \in Int /\ b[k] \in Int
    /\ DOMAIN s = {lo[k] : k \in K} \cup {mid[k] : k \in K} \cup {hi[k] : k \in K}
    /\ \A k \in K : /\ s[lo[k]].trace = k /\ s[lo[k]].kind = "judge"
                    /\ s[mid[k]].trace = k /\ s[mid[k]].kind = "human" /\ s[mid[k]].value = b[k]
                    /\ s[hi[k]].trace = k /\ s[hi[k]].kind = "judge" /\ s[hi[k]].value = a[k]

\* What the judges of such scores agree upon (evals/src).
LEMMA JudgeIs ==
    ASSUME NEW K, NEW s, NEW lo, NEW mid, NEW hi, NEW a, NEW b, JudgedTwice(K, s, lo, mid, hi, a, b)
    PROVE  An!JudgeAgreement(s, 0) = An!Ratio(Cardinality({k \in K : a[k] = b[k]}), Cardinality(K))
<1> DEFINE Scored(k, kind) == {i \in DOMAIN s : s[i].trace = k /\ s[i].kind = kind}
           pairs == {k \in {s[i].trace : i \in DOMAIN s} : Scored(k, "judge") # {} /\ Scored(k, "human") # {}}
           Gap2(k) == s[An!Max(Scored(k, "judge"))].value - s[An!Max(Scored(k, "human"))].value
<1> USE DEF JudgedTwice
<1>1. An!JudgeAgreement(s, 0) =
        An!Ratio(An!Cardinality({k \in pairs : Gap2(k) \in -0..0}), An!Cardinality(pairs))
  BY DEF An!JudgeAgreement
<1>2. \A i \in DOMAIN s : \E k \in K : i = lo[k] \/ i = mid[k] \/ i = hi[k]
  OBVIOUS
<1>3. \A k \in K : lo[k] \in DOMAIN s /\ mid[k] \in DOMAIN s /\ hi[k] \in DOMAIN s
  OBVIOUS
<1>4. ASSUME NEW k \in K
      PROVE  Scored(k, "judge") = {lo[k], hi[k]} /\ Scored(k, "human") = {mid[k]}
  <2>1. ASSUME NEW i \in DOMAIN s, s[i].trace = k, s[i].kind = "judge" PROVE i \in {lo[k], hi[k]}
    <3>1. PICK m \in K : i = lo[m] \/ i = mid[m] \/ i = hi[m]
      BY <1>2
    <3>2. s[i].trace = m /\ i # mid[m]
      BY <2>1, <3>1
    <3> QED  BY <2>1, <3>1, <3>2
  <2>2. ASSUME NEW i \in DOMAIN s, s[i].trace = k, s[i].kind = "human" PROVE i = mid[k]
    <3>1. PICK m \in K : i = lo[m] \/ i = mid[m] \/ i = hi[m]
      BY <1>2
    <3>2. s[i].trace = m /\ i # lo[m] /\ i # hi[m]
      BY <2>2, <3>1
    <3> QED  BY <2>2, <3>1, <3>2
  <2> QED  BY <1>3, <2>1, <2>2
<1>5. ASSUME NEW k \in K
      PROVE  Gap2(k) = a[k] - b[k]
  <2> DEFINE l == lo[k]
             m == mid[k]
             h == hi[k]
  <2>a. l \in Int /\ h \in Int /\ l <= h /\ m \in Int
    OBVIOUS
  <2>b. m <= m
    BY <2>a
  <2> HIDE DEF l, m, h, JudgedTwice
  <2>c. An!Max({l, h}) = h
    BY <2>a, MaxPair
  <2>d. An!Max({m}) = m
    BY <2>a, <2>b, MaxPair
  <2>1. An!Max({lo[k], hi[k]}) = hi[k]
    BY <2>c DEF l, h
  <2>2. An!Max({mid[k]}) = mid[k]
    BY <2>d DEF m
  <2> USE DEF JudgedTwice
  <2>3. s[hi[k]].value = a[k] /\ s[mid[k]].value = b[k]
    OBVIOUS
  <2>4. Scored(k, "judge") = {lo[k], hi[k]} /\ Scored(k, "human") = {mid[k]}
    BY <1>4
  <2>5. Gap2(k) = s[An!Max(Scored(k, "judge"))].value - s[An!Max(Scored(k, "human"))].value
    OBVIOUS
  <2> HIDE DEF Scored, Gap2
  <2>6. An!Max(Scored(k, "judge")) = hi[k] /\ An!Max(Scored(k, "human")) = mid[k]
    BY <2>1, <2>2, <2>4
  <2> QED  BY <2>3, <2>5, <2>6
<1>6. pairs = K
  <2>1. {s[i].trace : i \in DOMAIN s} = K
    <3>1. \A i \in DOMAIN s : s[i].trace \in K
      BY <1>2
    <3>2. \A k \in K : s[lo[k]].trace = k /\ lo[k] \in DOMAIN s
      BY <1>3
    <3> QED  BY <3>1, <3>2
  <2>2. \A k \in K : Scored(k, "judge") # {} /\ Scored(k, "human") # {}
    <3> HIDE DEF Scored
    <3> QED  BY <1>4
  <2> HIDE DEF Scored
  <2> QED  BY <2>1, <2>2
<1>7. ASSUME NEW k \in K PROVE Gap2(k) \in -0..0 <=> a[k] = b[k]
  <2>2. Gap2(k) = a[k] - b[k]
    BY <1>5
  <2> HIDE DEF Gap2
  <2> DEFINE x == a[k]
             y == b[k]
  <2>3. x \in Int /\ y \in Int /\ Gap2(k) = x - y
    BY <2>2
  <2> HIDE DEF x, y
  <2>4. Gap2(k) \in -0..0 <=> x = y
    BY <2>3
  <2> QED  BY <2>4 DEF x, y
<1> HIDE DEF Gap2, pairs
<1>8. {k \in pairs : Gap2(k) \in -0..0} = {k \in K : a[k] = b[k]}
  BY <1>6, <1>7
<1> QED  BY <1>1, <1>6, <1>8, AnSets

Clean(run) == run.outcome = "completed" /\ run.errors = 0

\* A finite set of no element is empty.
LEMMA EmptyCard ==
    ASSUME NEW S, IsFiniteSet(S)
    PROVE  An!Cardinality(S) \in Nat /\ (An!Cardinality(S) = 0 <=> S = {})
  BY AnSets, FS_EmptySet, FS_CardinalityType

\* The scores of a trajectory without a reference, one scorer at a time.
LEMMA ScoresAre ==
    ASSUME An!KnownRows, NEW rows, rows \subseteq Rows, NEW run, run = An!ReconstructRun(rows)
    PROVE  /\ run.errors \in Nat
           /\ An!TaskCompleted(run.trajectory).num = (IF run.outcome = "completed" THEN 1 ELSE 0)
           /\ An!CleanTrajectory(run.trajectory).num = (IF Clean(run) THEN 1 ELSE 0)
           /\ An!LowRetryChurn(run.trajectory).num = run.steps - run.retries \/ run.steps = 0
           /\ An!N(rows, An!HUMAN_TOUCH) = 0 => An!NoHumanIntervention(run.trajectory).num = 1
<1> DEFINE t == run.trajectory
           W == {r \in An!Steps(rows) : r.status \notin {"", "ok"}}
<1>1. /\ run.steps = An!Cardinality(An!Steps(rows))
      /\ run.errors = An!Cardinality(W)
      /\ run.retries = An!Cardinality({r \in An!Steps(rows) : r.retry # ""})
      /\ t.steps = rows
      /\ t.completed = (run.outcome = "completed")
  BY RunFields
<1>2. IsFiniteSet(rows)
  BY ErrorsAre
<1>3. {r \in rows : An!IsFailedStep(r)} = W /\ W \subseteq rows
  BY DEF An!IsFailedStep, An!Steps, An!Of
<1>4. IsFiniteSet(W) /\ IsFiniteSet(An!Of(rows, An!HUMAN_TOUCH))
  <2>1. An!Of(rows, An!HUMAN_TOUCH) \subseteq rows
    BY DEF An!Of
  <2> HIDE DEF W
  <2> QED  BY <1>2, <1>3, <2>1, FS_Subset
<1> HIDE DEF t, W
<1>5. run.errors \in Nat /\ (run.errors = 0 <=> W = {})
  BY <1>1, <1>4, EmptyCard
<1>6. t.completed <=> run.outcome = "completed"
  BY <1>1
<1>7. An!TaskCompleted(t).num = (IF run.outcome = "completed" THEN 1 ELSE 0)
  BY <1>6, RatioIs DEF An!TaskCompleted, RatioParts
<1>8. An!CleanTrajectory(t).num = (IF Clean(run) THEN 1 ELSE 0)
  <2>1. An!CleanTrajectory(t).num = (IF t.completed /\ W = {} THEN 1 ELSE 0)
    BY <1>1, <1>3, RatioIs DEF An!CleanTrajectory, RatioParts
  <2> QED  BY <1>5, <1>6, <2>1 DEF Clean
<1>9. An!LowRetryChurn(t).num = run.steps - run.retries \/ run.steps = 0
  <2> DEFINE n == An!Cardinality(An!Steps(rows))
             m == An!Cardinality({r \in An!Steps(rows) : r.retry # ""})
  <2>1. An!LowRetryChurn(t) = IF n = 0 THEN An!Ratio(1, 1) ELSE An!Ratio(n - m, n)
    BY <1>1 DEF An!LowRetryChurn
  <2>2. n = run.steps /\ m = run.retries
    BY <1>1
  <2> HIDE DEF n, m
  <2>3. n = 0 \/ An!LowRetryChurn(t) = An!Ratio(n - m, n)
    BY <2>1
  <2>4. An!Ratio(n - m, n).num = n - m
    BY RatioIs DEF RatioParts
  <2> QED  BY <2>2, <2>3, <2>4
<1>10. ASSUME An!N(rows, An!HUMAN_TOUCH) = 0 PROVE An!NoHumanIntervention(t).num = 1
  <2>1. An!Of(rows, An!HUMAN_TOUCH) = {}
    BY <1>4, <1>10, EmptyCard DEF An!N
  <2>2. An!Of(rows, {"handoff_to_human", "human_edited", "human_overrode"}) = {}
    BY <2>1 DEF An!Of, An!HUMAN_TOUCH
  <2> QED  BY <1>1, <2>2, RatioIs DEF An!NoHumanIntervention, RatioParts
<1> QED  BY <1>5, <1>7, <1>8, <1>9, <1>10 DEF t

\* A part of a whole in thousandths is all of them only if it is the whole.
LEMMA Thousandths ==
    ASSUME NEW n \in Nat, NEW d \in Nat, d > 0, n <= d
    PROVE  /\ (1000 * n) \div d \in Nat /\ (1000 * n) \div d <= 1000
           /\ (1000 * n) \div d = 1000 <=> n = d
<1> DEFINE q == (1000 * n) \div d
<1>1. q \in Nat /\ d * q <= 1000 * n /\ 1000 * n < d * q + d
  OBVIOUS
<1> HIDE DEF q
<1>2. q <= 1000
  <2> SUFFICES ASSUME q >= 1001 PROVE FALSE
    BY <1>1
  <2>1. d * q >= d * 1001
    BY <1>1
  <2> QED  BY <1>1, <2>1
<1>3. ASSUME q = 1000 PROVE n = d
  <2>1. d * 1000 <= 1000 * n
    BY <1>1, <1>3
  <2> QED  BY <2>1
<1>4. ASSUME n = d PROVE q = 1000
  <2>1. 1000 * d < d * (q + 1)
    BY <1>1, <1>4
  <2>2. ~(q + 1 <= 1000)
    <3> SUFFICES ASSUME q + 1 <= 1000 PROVE FALSE
      OBVIOUS
    <3>1. d * (q + 1) <= d * 1000
      BY <1>1
    <3> QED  BY <1>1, <2>1, <3>1
  <2> QED  BY <1>1, <1>2, <2>2
<1> QED  BY <1>1, <1>2, <1>3, <1>4 DEF q

\* What a scorer that answers one or nothing scores.
LEMMA ScoreOfOne ==
    ASSUME NEW score, NEW c, score = An!Ratio(IF c THEN 1 ELSE 0, 1)
    PROVE  LET s == (1000 * score.num) \div score.den
           IN  s \in Nat /\ s <= 1000 /\ (s = 1000 <=> c)
<1>1. score.num = (IF c THEN 1 ELSE 0) /\ score.den = 1
  BY RatioIs DEF RatioParts
<1>2. CASE c
  BY <1>1, <1>2
<1>3. CASE ~c
  BY <1>1, <1>3
<1> QED  BY <1>2, <1>3

\* A score lies within its thousandths; Best is when it is all of them.
Scores(s, t, best) ==
    An!Score(s, t) \in Nat /\ An!Score(s, t) <= 1000 /\ (An!Score(s, t) = 1000 <=> best)

\* When each built-in scorer gives a run all it can (evals/src/scorers.ts).
LEMMA BestScores ==
    ASSUME An!KnownRows, NEW rows, rows \subseteq Rows, NEW run, run = An!ReconstructRun(rows)
    PROVE  /\ Scores("task_completed", run.trajectory, run.outcome = "completed")
           /\ Scores("clean_trajectory", run.trajectory, Clean(run))
           /\ Scores("low_retry_churn", run.trajectory, run.retries = 0)
           /\ Scores("no_human_intervention", run.trajectory, \A r \in run.human : r.event = "human_approved")
<1> DEFINE t == run.trajectory
           W == {r \in An!Steps(rows) : r.status \notin {"", "ok"}}
           R == {r \in An!Steps(rows) : r.retry # ""}
           H == An!Of(t.steps, {"handoff_to_human", "human_edited", "human_overrode"})
<1>1. /\ run.errors = An!Cardinality(W)
      /\ run.retries = An!Cardinality(R)
      /\ run.human = An!Of(rows, An!HUMAN_TOUCH)
      /\ t.steps = rows
      /\ t.completed <=> run.outcome = "completed"
  BY RunFields
<1>2. /\ An!Score("task_completed", t) = (1000 * An!TaskCompleted(t).num) \div An!TaskCompleted(t).den
      /\ An!Score("clean_trajectory", t) = (1000 * An!CleanTrajectory(t).num) \div An!CleanTrajectory(t).den
      /\ An!Score("low_retry_churn", t) = (1000 * An!LowRetryChurn(t).num) \div An!LowRetryChurn(t).den
      /\ An!Score("no_human_intervention", t) =
            (1000 * An!NoHumanIntervention(t).num) \div An!NoHumanIntervention(t).den
  BY DEF An!Score
<1>3. /\ IsFiniteSet(W) /\ IsFiniteSet(R) /\ IsFiniteSet(An!Steps(rows))
      /\ R \subseteq An!Steps(rows) /\ {r \in rows : An!IsFailedStep(r)} = W
  <2>1. IsFiniteSet(rows) /\ W \subseteq rows /\ R \subseteq An!Steps(rows) /\ An!Steps(rows) \subseteq rows
    BY ErrorsAre DEF An!Steps, An!Of
  <2>2. {r \in rows : An!IsFailedStep(r)} = W
    BY DEF An!IsFailedStep, An!Steps, An!Of
  <2> HIDE DEF W, R
  <2> QED  BY <2>1, <2>2, FS_Subset
<1>4. \A r \in run.human : r \in rows /\ r.event \in An!HUMAN_TOUCH
  BY <1>1 DEF An!Of
<1>5. H = {} <=> \A r \in run.human : r.event = "human_approved"
  BY <1>1 DEF An!Of, An!HUMAN_TOUCH
<1> HIDE DEF t, W, R, H
<1>6. Scores("task_completed", t, run.outcome = "completed")
  <2>1. An!TaskCompleted(t) = An!Ratio(IF t.completed THEN 1 ELSE 0, 1)
    BY DEF An!TaskCompleted
  <2> QED  BY <1>1, <1>2, <2>1, ScoreOfOne DEF Scores
<1>7. Scores("clean_trajectory", t, Clean(run))
  <2>1. An!CleanTrajectory(t) = An!Ratio(IF t.completed /\ W = {} THEN 1 ELSE 0, 1)
    BY <1>1, <1>3 DEF An!CleanTrajectory
  <2>2. run.errors = 0 <=> W = {}
    BY <1>1, <1>3, EmptyCard
  <2>3. (t.completed /\ W = {}) <=> Clean(run)
    BY <1>1, <2>2 DEF Clean
  <2> QED  BY <1>2, <2>1, <2>3, ScoreOfOne DEF Scores
<1>8. Scores("no_human_intervention", t, \A r \in run.human : r.event = "human_approved")
  <2>1. An!NoHumanIntervention(t) = An!Ratio(IF H = {} THEN 1 ELSE 0, 1)
    BY DEF An!NoHumanIntervention, H
  <2> DEFINE best == \A r \in run.human : r.event = "human_approved"
  <2>2. H = {} <=> best
    BY <1>5
  <2>3. An!Score("no_human_intervention", t) =
          (1000 * An!NoHumanIntervention(t).num) \div An!NoHumanIntervention(t).den
    BY <1>2
  <2> HIDE DEF best
  <2>4. Scores("no_human_intervention", t, best)
    BY <2>1, <2>2, <2>3, ScoreOfOne DEF Scores
  <2> QED  BY <2>4 DEF best
<1>9. Scores("low_retry_churn", t, run.retries = 0)
  <2> DEFINE n == An!Cardinality(An!Steps(rows))
             m == An!Cardinality(R)
  <2>1. An!LowRetryChurn(t) = IF n = 0 THEN An!Ratio(1, 1) ELSE An!Ratio(n - m, n)
    BY <1>1 DEF An!LowRetryChurn, R
  <2>2. n \in Nat /\ m \in Nat /\ m <= n /\ m = run.retries
    BY <1>1, <1>3, FS_Subset, FS_CardinalityType, AnSets
  <2> HIDE DEF n, m
  <2>3. \A x, y : An!Ratio(x, y).num = x /\ An!Ratio(x, y).den = y
    BY RatioIs DEF RatioParts
  <2> DEFINE score == An!LowRetryChurn(t)
             top == IF n = 0 THEN 1 ELSE n - m
             all == IF n = 0 THEN 1 ELSE n
  <2>4. score.num = top /\ score.den = all
    BY <2>1, <2>3
  <2>5. top \in Nat /\ all \in Nat /\ all > 0 /\ top <= all /\ (top = all <=> m = 0)
    BY <2>2
  <2> HIDE DEF score, top, all
  <2>6. /\ (1000 * top) \div all \in Nat /\ (1000 * top) \div all <= 1000
        /\ (1000 * top) \div all = 1000 <=> top = all
    BY <2>5, Thousandths
  <2>7. An!Score("low_retry_churn", t) = (1000 * top) \div all
    BY <1>2, <2>4 DEF score
  <2> QED  BY <2>2, <2>5, <2>6, <2>7 DEF Scores
<1> QED  BY <1>6, <1>7, <1>8, <1>9 DEF t

\* A sum of thousands.
LEMMA SumThousands ==
    ASSUME NEW S, IsFiniteSet(S), NEW F, \A x \in S : F[x] = 1000
    PROVE  SumF(F, S) = 1000 * Cardinality(S)
<1> DEFINE Z == {U \in SUBSET S : SumF(F, U) = 1000 * Cardinality(U)}
<1>1. {} \in Z
  BY SumEmpty, FS_EmptySet
<1>2. ASSUME NEW U \in SUBSET S, NEW x \in S \ U, U \in Z PROVE U \cup {x} \in Z
  <2>1. IsFiniteSet(U) /\ \A y \in U \cup {x} : F[y] = 1000
    BY FS_Subset
  <2>2. SumF(F, U \cup {x}) = 1000 + SumF(F, U)
    BY <2>1, SumAdd
  <2>3. Cardinality(U \cup {x}) = Cardinality(U) + 1 /\ Cardinality(U) \in Nat
    BY <2>1, FS_AddElement, FS_CardinalityType
  <2> QED  BY <1>2, <2>2, <2>3
<1> HIDE DEF Z
<1>3. S \in Z
  BY <1>1, <1>2, SubsetInduction
<1> QED  BY <1>3 DEF Z

\* A mean is the best there is when there is a case and every case scores the best.
LEMMA BestMean ==
    ASSUME NEW cases, IsFiniteSet(cases), NEW h, DOMAIN h = cases,
           \A c \in cases : h[c] \in Nat /\ h[c] <= 1000,
           NEW mean, mean = An!Ratio(An!SumFunction(h), 1000 * An!AtLeast1(An!Cardinality(cases)))
    PROVE  mean.num * 1 >= 1 * mean.den <=> cases # {} /\ \A c \in cases : h[c] = 1000
<1> DEFINE full == [c \in cases |-> 1000]
           n == Cardinality(cases)
           sum == SumF(h, cases)
<1>1. \A c \in cases : full[c] = 1000
  OBVIOUS
<1> HIDE DEF full
<1>2. SumF(full, cases) = 1000 * n
  BY <1>1, SumThousands
<1>3. /\ sum \in Nat /\ sum <= SumF(full, cases)
      /\ sum = SumF(full, cases) => \A c \in cases : h[c] = full[c]
  <2>1. \A c \in cases : h[c] \in Nat /\ full[c] \in Nat /\ h[c] <= full[c]
    BY <1>1
  <2> QED  BY <2>1, SumBelow
<1>4. (\A c \in cases : h[c] = 1000) => sum = 1000 * n
  BY SumThousands
<1>5. An!SumFunction(h) = sum
  BY SumFunctionIs
<1>6. n \in Nat /\ (n = 0 <=> cases = {})
  BY FS_CardinalityType, FS_EmptySet
<1>7. An!AtLeast1(An!Cardinality(cases)) = (IF n = 0 THEN 1 ELSE n)
  BY AnSets DEF An!AtLeast1
<1> HIDE DEF n, sum
<1>8. mean.num = sum /\ mean.den = 1000 * (IF n = 0 THEN 1 ELSE n)
  BY <1>5, <1>7, RatioIs DEF RatioParts
<1>9. mean.num * 1 >= 1 * mean.den <=> sum = 1000 * n /\ n # 0
  BY <1>2, <1>3, <1>6, <1>8
<1> QED  BY <1>1, <1>2, <1>3, <1>4, <1>6, <1>9

\* The gate that demands the best of every scorer passes when there is a case and every case
\* scores the best with each.
LEMMA GateIs ==
    ASSUME NEW cases, IsFiniteSet(cases),
           \A c \in cases, s \in An!BUILTIN_SCORERS : An!Score(s, c) \in Nat /\ An!Score(s, c) <= 1000,
           NEW result, result = An!RunSuite(cases, An!BUILTIN_SCORERS)
    PROVE  An!EvaluateGate(result, [s \in An!BUILTIN_SCORERS |-> An!Ratio(1, 1)])
             <=> cases # {} /\ \A c \in cases, s \in An!BUILTIN_SCORERS : An!Score(s, c) = 1000
<1> DEFINE B == An!BUILTIN_SCORERS
           th == [s \in B |-> An!Ratio(1, 1)]
           h(s) == [c \in cases |-> An!Score(s, c)]
<1>1. /\ DOMAIN result = B
      /\ \A s \in B : result[s] =
            An!Ratio(An!SumFunction(h(s)), 1000 * An!AtLeast1(An!Cardinality(cases)))
  BY DEF An!RunSuite
<1>2. DOMAIN th = B /\ \A s \in B : th[s].num = 1 /\ th[s].den = 1
  BY RatioIs DEF RatioParts
<1>3. ASSUME NEW s \in B
      PROVE  result[s].num * 1 >= 1 * result[s].den
               <=> cases # {} /\ \A c \in cases : An!Score(s, c) = 1000
  <2> DEFINE g == h(s)
             mean == result[s]
  <2>1. DOMAIN g = cases /\ \A c \in cases : g[c] = An!Score(s, c)
    OBVIOUS
  <2>2. mean = An!Ratio(An!SumFunction(g), 1000 * An!AtLeast1(An!Cardinality(cases)))
    BY <1>1
  <2> HIDE DEF g, mean
  <2>3. \A c \in cases : g[c] \in Nat /\ g[c] <= 1000
    BY <2>1
  <2>4. mean.num * 1 >= 1 * mean.den <=> cases # {} /\ \A c \in cases : g[c] = 1000
    BY <2>1, <2>2, <2>3, BestMean
  <2> QED  BY <2>1, <2>4 DEF mean
<1>4. An!EvaluateGate(result, th) <=> \A s \in B : result[s].num * 1 >= 1 * result[s].den
  <2> HIDE DEF B, th
  <2> QED  BY <1>1, <1>2 DEF An!EvaluateGate
<1>5. "task_completed" \in B
  BY DEF An!BUILTIN_SCORERS
<1> HIDE DEF B, th
<1>6. An!EvaluateGate(result, th) <=> cases # {} /\ \A c \in cases, s \in B : An!Score(s, c) = 1000
  BY <1>3, <1>4, <1>5
<1> QED  BY <1>6 DEF B, th

\* A run of a suite is one of the tenant's runs.
LEMMA RunIsOf ==
    ASSUME An!KnownRows, AnInv, NEW t, NEW k \in An!RunKeys(t)
    PROVE  \E rows \in SUBSET Rows : /\ An!RunOf(t, k) = An!ReconstructRun(rows)
                                     /\ rows \subseteq {r \in An!All(t) : r.task = k[1]}
<1> DEFINE rows == An!RunRows(an_table, t, k[1], k[2])
<1>1. rows \subseteq An!All(t) /\ An!All(t) \subseteq Rows
  BY RowsOfRun, AllIs
<1>2. \A r \in rows : r.task = k[1]
  BY DEF An!RunRows
<1>3. An!RunOf(t, k) = An!ReconstructRun(rows)
  BY DEF An!RunOf
<1> HIDE DEF rows
<1> QED  BY <1>1, <1>2, <1>3

\* A tenant has finitely many runs.
LEMMA KeysFinite ==
    ASSUME An!KnownRows, AnInv, NEW t
    PROVE  IsFiniteSet(An!RunKeys(t))
<1> DEFINE E == An!All(t)
           c == RunKey(E)
<1>1. An!RunKeys(t) = {c[r] : r \in E}
  BY DEF An!RunKeys, RunKey
<1>2. IsFiniteSet(E)
  BY AllIs
<1> HIDE DEF E, c
<1> QED  BY <1>1, <1>2, ImageFinite

\* A run's trajectory scores what the run's record says (evals/src/scorers.ts).
LEMMA RunScores ==
    ASSUME An!KnownRows, AnInv, NEW t, NEW k \in An!RunKeys(t), NEW run, run = An!RunOf(t, k)
    PROVE  /\ run.errors \in Nat
           /\ An!TaskCompleted(run.trajectory).num = (IF run.outcome = "completed" THEN 1 ELSE 0)
           /\ An!CleanTrajectory(run.trajectory).num = (IF Clean(run) THEN 1 ELSE 0)
           /\ An!LowRetryChurn(run.trajectory).num = run.steps - run.retries \/ run.steps = 0
           /\ An!N({r \in An!All(t) : r.task = k[1]}, An!HUMAN_TOUCH) = 0
                => An!NoHumanIntervention(run.trajectory).num = 1
<1>1. PICK rows \in SUBSET Rows : /\ run = An!ReconstructRun(rows)
                                  /\ rows \subseteq {r \in An!All(t) : r.task = k[1]}
  BY RunIsOf
<1>2. /\ run.errors \in Nat
      /\ An!TaskCompleted(run.trajectory).num = (IF run.outcome = "completed" THEN 1 ELSE 0)
      /\ An!CleanTrajectory(run.trajectory).num = (IF Clean(run) THEN 1 ELSE 0)
      /\ An!LowRetryChurn(run.trajectory).num = run.steps - run.retries \/ run.steps = 0
      /\ An!N(rows, An!HUMAN_TOUCH) = 0 => An!NoHumanIntervention(run.trajectory).num = 1
  BY <1>1, ScoresAre
<1> DEFINE E == {r \in An!All(t) : r.task = k[1]}
<1>3. ASSUME An!N(E, An!HUMAN_TOUCH) = 0 PROVE An!N(rows, An!HUMAN_TOUCH) = 0
  <2>1. E \subseteq An!All(t) /\ IsFiniteSet(An!All(t)) /\ rows \subseteq E
    BY <1>1, AllIs
  <2> HIDE DEF E
  <2>2. IsFiniteSet(E) /\ An!Of(E, An!HUMAN_TOUCH) \subseteq E
        /\ An!Of(rows, An!HUMAN_TOUCH) \subseteq An!Of(E, An!HUMAN_TOUCH)
    BY <2>1, FS_Subset DEF An!Of
  <2>3. IsFiniteSet(An!Of(E, An!HUMAN_TOUCH)) /\ IsFiniteSet(An!Of(rows, An!HUMAN_TOUCH))
    BY <2>2, FS_Subset
  <2>4. An!Of(E, An!HUMAN_TOUCH) = {}
    BY <1>3, <2>3, EmptyCard DEF An!N
  <2>5. An!Of(rows, An!HUMAN_TOUCH) = {}
    BY <2>2, <2>4
  <2> QED  BY <2>3, <2>5, EmptyCard DEF An!N
<1> QED  BY <1>2, <1>3

\* A run is flawless when every scorer gives it the best.
LEMMA FlawlessScores ==
    ASSUME An!KnownRows, AnInv, NEW t, NEW k \in An!RunKeys(t), NEW run, run = An!RunOf(t, k)
    PROVE  /\ \A s \in An!BUILTIN_SCORERS :
                An!Score(s, run.trajectory) \in Nat /\ An!Score(s, run.trajectory) <= 1000
           /\ An!Flawless(run) <=> \A s \in An!BUILTIN_SCORERS : An!Score(s, run.trajectory) = 1000
<1>1. PICK rows \in SUBSET Rows : run = An!ReconstructRun(rows)
  BY RunIsOf
<1>2. /\ Scores("task_completed", run.trajectory, run.outcome = "completed")
      /\ Scores("clean_trajectory", run.trajectory, Clean(run))
      /\ Scores("low_retry_churn", run.trajectory, run.retries = 0)
      /\ Scores("no_human_intervention", run.trajectory, \A r \in run.human : r.event = "human_approved")
  BY <1>1, BestScores
<1> DEFINE Says(s) == An!Score(s, run.trajectory)
<1>3. \A s \in An!BUILTIN_SCORERS :
        \/ s = "task_completed" \/ s = "clean_trajectory" \/ s = "low_retry_churn"
        \/ s = "no_human_intervention"
  BY DEF An!BUILTIN_SCORERS
<1>4. /\ "task_completed" \in An!BUILTIN_SCORERS /\ "clean_trajectory" \in An!BUILTIN_SCORERS
      /\ "low_retry_churn" \in An!BUILTIN_SCORERS /\ "no_human_intervention" \in An!BUILTIN_SCORERS
  BY DEF An!BUILTIN_SCORERS
<1>5. \A s \in An!BUILTIN_SCORERS : Says(s) \in Nat /\ Says(s) <= 1000
  BY <1>2, <1>3 DEF Scores
<1>6. (\A s \in An!BUILTIN_SCORERS : Says(s) = 1000)
        <=> /\ Says("task_completed") = 1000 /\ Says("clean_trajectory") = 1000
            /\ Says("low_retry_churn") = 1000 /\ Says("no_human_intervention") = 1000
  <2> HIDE DEF Says
  <2> QED  BY <1>3, <1>4
<1>7. An!Flawless(run)
        <=> /\ Says("task_completed") = 1000 /\ Says("clean_trajectory") = 1000
            /\ Says("low_retry_churn") = 1000 /\ Says("no_human_intervention") = 1000
  BY <1>2 DEF Scores, Clean, An!Flawless
<1> QED  BY <1>5, <1>6, <1>7

\* The gate of a suite of all runs lets through flawless runs alone.
LEMMA SuiteAgrees ==
    ASSUME An!KnownRows, AnInv, NEW t
    PROVE  LET trajectories == {An!RunOf(t, k).trajectory : k \in An!RunKeys(t)}
               result == An!RunSuite(trajectories, An!BUILTIN_SCORERS)
           IN  An!EvaluateGate(result, [s \in An!BUILTIN_SCORERS |-> An!Ratio(1, 1)])
                <=> trajectories # {} /\ \A k \in An!RunKeys(t) : An!Flawless(An!RunOf(t, k))
<1> DEFINE K == An!RunKeys(t)
           B == An!BUILTIN_SCORERS
           tr == [k \in K |-> An!RunOf(t, k).trajectory]
           cases == {An!RunOf(t, k).trajectory : k \in K}
           result == An!RunSuite(cases, B)
           gate == An!EvaluateGate(result, [s \in B |-> An!Ratio(1, 1)])
<1>1. cases = {tr[k] : k \in K}
  OBVIOUS
<1>2. \A k \in K : tr[k] = An!RunOf(t, k).trajectory
  OBVIOUS
<1>3. ASSUME NEW k \in K
      PROVE  /\ \A s \in B : An!Score(s, tr[k]) \in Nat /\ An!Score(s, tr[k]) <= 1000
             /\ An!Flawless(An!RunOf(t, k)) <=> \A s \in B : An!Score(s, tr[k]) = 1000
  <2> DEFINE run == An!RunOf(t, k)
  <2>1. tr[k] = run.trajectory
    BY <1>2
  <2> HIDE DEF run, tr
  <2>2. run = An!RunOf(t, k)
    BY DEF run
  <2>3. /\ \A s \in B : An!Score(s, run.trajectory) \in Nat /\ An!Score(s, run.trajectory) <= 1000
        /\ An!Flawless(run) <=> \A s \in B : An!Score(s, run.trajectory) = 1000
    BY <2>2, FlawlessScores
  <2> QED  BY <2>1, <2>2, <2>3
<1>4. IsFiniteSet(K)
  BY KeysFinite
<1> HIDE DEF K, tr, cases
<1>5. IsFiniteSet(cases)
  BY <1>1, <1>4, ImageFinite
<1>6. \A c \in cases, s \in B : An!Score(s, c) \in Nat /\ An!Score(s, c) <= 1000
  BY <1>1, <1>3
<1>7. (\A c \in cases, s \in B : An!Score(s, c) = 1000) <=> \A k \in K : An!Flawless(An!RunOf(t, k))
  <2> HIDE DEF B
  <2> QED  BY <1>1, <1>3
<1>8. gate <=> cases # {} /\ \A c \in cases, s \in B : An!Score(s, c) = 1000
  BY <1>5, <1>6, GateIs
<1> QED  BY <1>7, <1>8 DEF cases, K, B, gate, result

\* Judges and humans agree on scores given twice.
LEMMA JudgesAgree ==
    ASSUME An!KnownRows, AnInv, NEW t
    PROVE  LET keys == An!SetToSeq(An!RunKeys(t))
               Says(k, kind) ==
                   [trace |-> k, kind |-> kind, value |-> An!CleanTrajectory(An!RunOf(t, k).trajectory).num]
               judged == [i \in DOMAIN keys |-> Says(keys[i], "judge")]
               human == [i \in DOMAIN keys |-> [Says(keys[i], "human") EXCEPT !.value =
                                An!TaskCompleted(An!RunOf(t, keys[i]).trajectory).num]]
               outdated == [i \in DOMAIN keys |-> [judged[i] EXCEPT !.value = 1 - @]]
           IN  An!JudgeAgreement(outdated \o human \o judged, 0) =
                    An!Ratio(An!Cardinality({k \in An!RunKeys(t) :
                                ~(An!RunOf(t, k).outcome = "completed" /\ An!RunOf(t, k).errors > 0)}),
                             Len(keys))
<1> DEFINE K == An!RunKeys(t)
           n == Cardinality(K)
           keys == An!SetToSeq(K)
           a == [k \in K |-> An!CleanTrajectory(An!RunOf(t, k).trajectory).num]
           b == [k \in K |-> An!TaskCompleted(An!RunOf(t, k).trajectory).num]
           Says(k, kind) ==
               [trace |-> k, kind |-> kind, value |-> An!CleanTrajectory(An!RunOf(t, k).trajectory).num]
           judged == [i \in DOMAIN keys |-> Says(keys[i], "judge")]
           human == [i \in DOMAIN keys |-> [Says(keys[i], "human") EXCEPT !.value =
                            An!TaskCompleted(An!RunOf(t, keys[i]).trajectory).num]]
           outdated == [i \in DOMAIN keys |-> [judged[i] EXCEPT !.value = 1 - @]]
           s == outdated \o human \o judged
           X == [trace : K, kind : {"judge", "human"}, value : Int]
<1>1. IsFiniteSet(K)
  BY KeysFinite
<1>2. /\ n \in Nat /\ keys \in [1..n -> K] /\ Len(keys) = n /\ DOMAIN keys = 1..n
      /\ \A i, j \in 1..n : keys[i] = keys[j] => i = j
      /\ \A k \in K : \E i \in 1..n : keys[i] = k
  BY <1>1, KeySeq
<1>3. \A k \in K : /\ An!RunOf(t, k).errors \in Nat
                   /\ a[k] = (IF Clean(An!RunOf(t, k)) THEN 1 ELSE 0)
                   /\ b[k] = (IF An!RunOf(t, k).outcome = "completed" THEN 1 ELSE 0)
  <2> SUFFICES ASSUME NEW k \in K
               PROVE  /\ An!RunOf(t, k).errors \in Nat
                      /\ a[k] = (IF Clean(An!RunOf(t, k)) THEN 1 ELSE 0)
                      /\ b[k] = (IF An!RunOf(t, k).outcome = "completed" THEN 1 ELSE 0)
    OBVIOUS
  <2>1. /\ a[k] = An!CleanTrajectory(An!RunOf(t, k).trajectory).num
        /\ b[k] = An!TaskCompleted(An!RunOf(t, k).trajectory).num
    OBVIOUS
  <2> HIDE DEF a, b
  <2> QED  BY <2>1, RunScores
<1>4. \A k \in K : a[k] \in Int /\ b[k] \in Int
  BY <1>3
<1>5. \A k \in K : a[k] = b[k] <=> ~(An!RunOf(t, k).outcome = "completed" /\ An!RunOf(t, k).errors > 0)
  BY <1>3 DEF Clean
<1>6. \A k \in K : /\ An!CleanTrajectory(An!RunOf(t, k).trajectory).num = a[k]
                   /\ An!TaskCompleted(An!RunOf(t, k).trajectory).num = b[k]
  OBVIOUS
<1>7. \A i \in 1..n :
        /\ judged[i] = [trace |-> keys[i], kind |-> "judge", value |-> a[keys[i]]]
        /\ human[i] = [trace |-> keys[i], kind |-> "human", value |-> b[keys[i]]]
        /\ outdated[i] = [trace |-> keys[i], kind |-> "judge", value |-> 1 - a[keys[i]]]
  <2> SUFFICES ASSUME NEW i \in 1..n
               PROVE  /\ judged[i] = [trace |-> keys[i], kind |-> "judge", value |-> a[keys[i]]]
                      /\ human[i] = [trace |-> keys[i], kind |-> "human", value |-> b[keys[i]]]
                      /\ outdated[i] = [trace |-> keys[i], kind |-> "judge", value |-> 1 - a[keys[i]]]
    OBVIOUS
  <2> DEFINE k == keys[i]
  <2>1. k \in K /\ i \in DOMAIN keys
    BY <1>2
  <2>2. Says(k, "judge") = [trace |-> k, kind |-> "judge", value |-> a[k]]
    BY <1>6, <2>1
  <2>3. Says(k, "human") = [trace |-> k, kind |-> "human", value |-> a[k]]
    BY <1>6, <2>1
  <2>4. /\ judged[i] = Says(k, "judge")
        /\ human[i] = [Says(k, "human") EXCEPT !.value = An!TaskCompleted(An!RunOf(t, k).trajectory).num]
        /\ outdated[i] = [judged[i] EXCEPT !.value = 1 - @]
    BY <2>1
  <2> HIDE DEF judged, human, outdated, Says, k, a, b, K
  <2>5. judged[i] = [trace |-> k, kind |-> "judge", value |-> a[k]]
    BY <2>2, <2>4
  <2>6. human[i] = [trace |-> k, kind |-> "human", value |-> b[k]]
    BY <1>6, <2>1, <2>3, <2>4
  <2>7. outdated[i] = [trace |-> k, kind |-> "judge", value |-> 1 - a[k]]
    BY <2>4, <2>5
  <2> QED  BY <2>5, <2>6, <2>7 DEF k
<1>8. DOMAIN judged = 1..n /\ DOMAIN human = 1..n /\ DOMAIN outdated = 1..n
  BY <1>2
<1>9. judged = [i \in 1..n |-> judged[i]] /\ human = [i \in 1..n |-> human[i]]
      /\ outdated = [i \in 1..n |-> outdated[i]]
  BY <1>8
<1> HIDE DEF K, n, keys, a, b, judged, human, outdated
<1>10. ASSUME NEW i \in 1..n PROVE judged[i] \in X /\ human[i] \in X /\ outdated[i] \in X
  <2> DEFINE k == keys[i]
             x == a[k]
             y == b[k]
  <2>1. k \in K /\ x \in Int /\ y \in Int
    BY <1>2, <1>4
  <2>2. /\ judged[i] = [trace |-> k, kind |-> "judge", value |-> x]
        /\ human[i] = [trace |-> k, kind |-> "human", value |-> y]
        /\ outdated[i] = [trace |-> k, kind |-> "judge", value |-> 1 - x]
    BY <1>7
  <2> HIDE DEF k, x, y
  <2>3. 1 - x \in Int
    BY <2>1
  <2> QED  BY <2>1, <2>2, <2>3
<1>11. judged \in [1..n -> X] /\ human \in [1..n -> X] /\ outdated \in [1..n -> X]
  <2> HIDE DEF X
  <2> QED  BY <1>9, <1>10
<1>12. /\ DOMAIN s = 1..((n + n) + n)
       /\ \A i \in 1..n : s[i] = outdated[i] /\ s[n + i] = human[i] /\ s[(n + n) + i] = judged[i]
  <2> HIDE DEF X
  <2>1. n \in Nat
    BY <1>2
  <2>2. Joins3(s, n, outdated, human, judged)
    BY <1>11, <2>1, Concat3
  <2> HIDE DEF s
  <2> QED  BY <2>2 DEF Joins3
<1> HIDE DEF s, X
<1> DEFINE lo == [k \in K |-> CHOOSE i \in 1..n : keys[i] = k]
           mid == [k \in K |-> n + lo[k]]
           hi == [k \in K |-> (n + n) + lo[k]]
<1>13. \A k \in K : lo[k] \in 1..n /\ keys[lo[k]] = k
  BY <1>2
<1>14. \A i \in 1..n : keys[i] \in K /\ lo[keys[i]] = i
  BY <1>2, <1>13
<1>15. \A k \in K : mid[k] = n + lo[k] /\ hi[k] = (n + n) + lo[k]
  OBVIOUS
<1> HIDE DEF lo, mid, hi
<1>16. ASSUME NEW k \in K
       PROVE  lo[k] \in Int /\ hi[k] \in Int /\ mid[k] \in Int /\ lo[k] <= hi[k]
  <2> DEFINE l == lo[k]
  <2>1. l \in 1..n /\ n \in Nat /\ mid[k] = n + l /\ hi[k] = (n + n) + l
    BY <1>2, <1>13, <1>15
  <2> HIDE DEF l
  <2>2. l \in Int /\ hi[k] \in Int /\ mid[k] \in Int /\ l <= hi[k]
    BY <2>1
  <2> QED  BY <2>2 DEF l
<1>17. DOMAIN s = {lo[k] : k \in K} \cup {mid[k] : k \in K} \cup {hi[k] : k \in K}
  <2>1. ASSUME NEW i \in 1..((n + n) + n)
        PROVE  \E k \in K : i = lo[k] \/ i = mid[k] \/ i = hi[k]
    <3>1. CASE i <= n
      <4>1. i \in 1..n
        BY <1>2, <3>1
      <4> QED  BY <1>14, <4>1
    <3>2. CASE n < i /\ i <= n + n
      <4>1. i - n \in 1..n /\ n + (i - n) = i
        BY <1>2, <3>2
      <4>2. keys[i - n] \in K /\ lo[keys[i - n]] = i - n
        BY <1>14, <4>1
      <4> QED  BY <1>15, <4>1, <4>2
    <3>3. CASE n + n < i
      <4>1. i - (n + n) \in 1..n /\ (n + n) + (i - (n + n)) = i
        BY <1>2, <3>3
      <4>2. keys[i - (n + n)] \in K /\ lo[keys[i - (n + n)]] = i - (n + n)
        BY <1>14, <4>1
      <4> QED  BY <1>15, <4>1, <4>2
    <3> QED  BY <1>2, <3>1, <3>2, <3>3
  <2>2. ASSUME NEW k \in K
        PROVE  lo[k] \in 1..((n + n) + n) /\ mid[k] \in 1..((n + n) + n) /\ hi[k] \in 1..((n + n) + n)
    <3> DEFINE l == lo[k]
    <3>1. l \in 1..n /\ n \in Nat /\ mid[k] = n + l /\ hi[k] = (n + n) + l
      BY <1>2, <1>13, <1>15
    <3> HIDE DEF l
    <3>2. l \in 1..((n + n) + n) /\ mid[k] \in 1..((n + n) + n) /\ hi[k] \in 1..((n + n) + n)
      BY <3>1
    <3> QED  BY <3>2 DEF l
  <2>3. DOMAIN s = 1..((n + n) + n)
    BY <1>12
  <2> DEFINE D == 1..((n + n) + n)
  <2> HIDE DEF D
  <2>4. (\A i \in D : \E k \in K : i = lo[k] \/ i = mid[k] \/ i = hi[k])
        /\ (\A k \in K : lo[k] \in D /\ mid[k] \in D /\ hi[k] \in D) /\ DOMAIN s = D
    BY <2>1, <2>2, <2>3 DEF D
  <2> QED  BY <2>4
<1>18. ASSUME NEW k \in K
       PROVE  /\ s[lo[k]].trace = k /\ s[lo[k]].kind = "judge"
              /\ s[mid[k]].trace = k /\ s[mid[k]].kind = "human" /\ s[mid[k]].value = b[k]
              /\ s[hi[k]].trace = k /\ s[hi[k]].kind = "judge" /\ s[hi[k]].value = a[k]
  <2> DEFINE i == lo[k]
  <2>1. i \in 1..n /\ keys[i] = k /\ mid[k] = n + i /\ hi[k] = (n + n) + i
    BY <1>13, <1>15
  <2> HIDE DEF i
  <2>2. s[i] = outdated[i] /\ s[n + i] = human[i] /\ s[(n + n) + i] = judged[i]
    BY <1>12, <2>1
  <2>3. /\ judged[i] = [trace |-> k, kind |-> "judge", value |-> a[k]]
        /\ human[i] = [trace |-> k, kind |-> "human", value |-> b[k]]
        /\ outdated[i] = [trace |-> k, kind |-> "judge", value |-> 1 - a[k]]
    BY <1>7, <2>1
  <2>4. s[i] = outdated[i] /\ s[mid[k]] = human[i] /\ s[hi[k]] = judged[i]
    BY <2>1, <2>2
  <2>5. /\ s[i].trace = k /\ s[i].kind = "judge"
        /\ s[mid[k]].trace = k /\ s[mid[k]].kind = "human" /\ s[mid[k]].value = b[k]
        /\ s[hi[k]].trace = k /\ s[hi[k]].kind = "judge" /\ s[hi[k]].value = a[k]
    BY <2>3, <2>4
  <2> QED  BY <2>5 DEF i
<1>19. An!JudgeAgreement(s, 0) = An!Ratio(Cardinality({k \in K : a[k] = b[k]}), Cardinality(K))
  <2>1. JudgedTwice(K, s, lo, mid, hi, a, b)
    BY <1>4, <1>16, <1>17, <1>18 DEF JudgedTwice
  <2> QED  BY <2>1, JudgeIs
<1>20. {k \in K : a[k] = b[k]}
         = {k \in K : ~(An!RunOf(t, k).outcome = "completed" /\ An!RunOf(t, k).errors > 0)}
  BY <1>5
<1>21. Len(keys) = Cardinality(K)
  BY <1>2 DEF n
<1>22. An!JudgeAgreement(s, 0) =
         An!Ratio(An!Cardinality({k \in K : ~(An!RunOf(t, k).outcome = "completed" /\ An!RunOf(t, k).errors > 0)}),
                  Len(keys))
  BY <1>19, <1>20, <1>21, AnSets
<1> QED  BY <1>22 DEF s, outdated, human, judged, keys, K

\* Reconstructed runs, metrics, trajectory scorers and gates agree (runs.ts, evals/src).
LEMMA RunsDoAgree ==
    ASSUME An!KnownRows, AnInv
    PROVE  An!RunsAgree
<1> SUFFICES ASSUME NEW t \in An!Tenants
             PROVE  LET E == An!All(t)
                        whole == An!METRICS(E, An!ByTask, 0)
                        tools == whole.per_tool_failure_rate
                        U == {r \in An!Failed(An!Steps(E)) : r.tool = ""}
                        Untouched(task) == An!N({r \in E : r.task = task}, An!HUMAN_TOUCH) = 0
                    IN  /\ whole.loop_retry_ratio.all = An!Ratio(An!SumRuns(t, "retries"), An!SumRuns(t, "steps"))
                        /\ whole.cost_per_completed_task.all.num = An!SumRuns(t, "cost")
                        /\ An!SumRuns(t, "errors") =
                                An!SumFunction([g \in DOMAIN tools |-> tools[g].num]) + An!Cardinality(U)
                        /\ \A k \in An!RunKeys(t) :
                            LET run == An!RunOf(t, k)
                            IN  /\ An!CleanTrajectory(run.trajectory).num = 1
                                    <=> run.outcome = "completed" /\ run.errors = 0
                                /\ Untouched(k[1]) => An!NoHumanIntervention(run.trajectory).num = 1
                                /\ An!LowRetryChurn(run.trajectory).num = run.steps - run.retries \/ run.steps = 0
  BY SuiteAgrees, JudgesAgree DEF An!RunsAgree
<1> DEFINE E == An!All(t)
           whole == An!METRICS(E, An!ByTask, 0)
           tools == whole.per_tool_failure_rate
           U == {r \in An!Failed(An!Steps(E)) : r.tool = ""}
<1>1. \A name : An!Metric(name, E) = whole[name]
  BY DEF An!Metric
<1>2. /\ whole.loop_retry_ratio.all = An!Ratio(An!SumRuns(t, "retries"), An!SumRuns(t, "steps"))
      /\ whole.cost_per_completed_task.all.num = An!SumRuns(t, "cost")
  <2>1. /\ An!Metric("loop_retry_ratio", E).all = An!Ratio(An!SumRuns(t, "retries"), An!SumRuns(t, "steps"))
        /\ An!Metric("cost_per_completed_task", E).all.num = An!SumRuns(t, "cost")
    BY RunSums
  <2>2. An!Metric("loop_retry_ratio", E) = whole.loop_retry_ratio
        /\ An!Metric("cost_per_completed_task", E) = whole.cost_per_completed_task
    BY <1>1
  <2> HIDE DEF whole, E
  <2> QED  BY <2>1, <2>2
<1>3. An!SumRuns(t, "errors") = An!SumFunction([g \in DOMAIN tools |-> tools[g].num]) + An!Cardinality(U)
  <2>1. tools = An!Metric("per_tool_failure_rate", E)
    BY <1>1
  <2>2. E \subseteq Rows
    BY AllIs
  <2>3. U = Untooled(E)
    BY DEF Untooled
  <2>4. An!SumRuns(t, "errors") = SumF(Err, E)
    BY RunSums
  <2> HIDE DEF tools, E, U
  <2>5. SumF(Err, E) = An!SumFunction([g \in DOMAIN tools |-> tools[g].num]) + An!Cardinality(Untooled(E))
    BY <2>1, <2>2, ToolFailures
  <2> QED  BY <2>3, <2>4, <2>5
<1>4. ASSUME NEW k \in An!RunKeys(t)
      PROVE  LET run == An!RunOf(t, k)
             IN  /\ An!CleanTrajectory(run.trajectory).num = 1
                     <=> run.outcome = "completed" /\ run.errors = 0
                 /\ An!N({r \in E : r.task = k[1]}, An!HUMAN_TOUCH) = 0
                     => An!NoHumanIntervention(run.trajectory).num = 1
                 /\ An!LowRetryChurn(run.trajectory).num = run.steps - run.retries \/ run.steps = 0
  BY RunScores DEF Clean
<1> HIDE DEF whole, tools, U, E
<1> QED  BY <1>2, <1>3, <1>4 DEF whole, tools, U, E
-----------------------------------------------------------------------------
(* The figures of a table that grows row by row.                           *)

\* In every state of every table of known rows, whichever part is looked at: metrics, rollups,
\* runs, scorers, gates, clusters, guardrails, tiers and bills computed of the same rows agree
\* (analysis/src, analysis-agent/src/clusters.ts, experiments/src/flags.ts, evals/src, billing/src).
THEOREM FiguresAgree == An!Spec => []AnalyticsRight
<1>1. An!Init => AnInv
  BY DEF An!Init, AnInv
<1>2. AnInv /\ [An!Next]_<<an_table, an_rolled>> => AnInv'
  <2> SUFFICES ASSUME AnInv, [An!Next]_<<an_table, an_rolled>> PROVE AnInv'
    OBVIOUS
  <2>1. ASSUME NEW r \in Rows, an_table' = an_table \cup {r},
               an_rolled' = [an_rolled EXCEPT ![r] = @ + 1]
        PROVE  AnInv'
    <3>1. an_rolled' \in [Rows -> Nat] /\ an_rolled'[r] = an_rolled[r] + 1 /\ an_rolled[r] \in Nat
      BY <2>1 DEF AnInv
    <3>2. \A q \in Rows \ {r} : an_rolled'[q] = an_rolled[q]
      BY <2>1 DEF AnInv
    <3>3. an_rolled'[r] > 0
      BY <3>1
    <3> QED  BY <2>1, <3>1, <3>2, <3>3 DEF AnInv
  <2>2. CASE UNCHANGED <<an_table, an_rolled>>
    BY <2>2 DEF AnInv
  <2> QED  BY <2>1, <2>2 DEF An!Next, An!InsertRow
<1>3. AnInv => AnalyticsRight
  <2>1. AnInv => An!AnalyticsRight
    BY RowsAssumption, PartsDoAddUp, RunsDoAgree, ClustersDoAgree, ArmsDoAgree, BillingDoesAgree
       DEF An!AnalyticsRight
  <2> QED  BY <2>1 DEF AnalyticsRight
<1> QED  BY <1>1, <1>2, <1>3, PTL DEF An!Spec
=============================================================================
