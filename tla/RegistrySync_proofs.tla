------------------------ MODULE RegistrySync_proofs -------------------------
(***************************************************************************)
(* Proofs about RegistrySync for every number of clients, events, files and*)
(* definitions.  The properties follow from IInv, which says of each       *)
(* session what its uncommitted rows and audit rows are, what the plan     *)
(* still asks for, and what is known of the registry while nobody else     *)
(* commits; two sessions never hold the same row.                          *)
(***************************************************************************)
EXTENDS RegistrySync, Sequences, TLAPS

AuditLog == [Events -> [id : Nat, after : Entry \cup {Absent}]]
Plans == [added : SUBSET Events, modified : SUBSET Events, removed : SUBSET Events]
Sessions ==
    [pc : {"idle", "listed", "planned", "tx", "got"},
     kind : {"none", "apply", "put"},
     local : Registry, remote : Registry, fingerprint : Registry,
     plan : Plans, event : Events \cup {"none"}, before : Entry \cup {Absent},
     writes : Registry, log : AuditLog, torn : BOOLEAN, raced : BOOLEAN]

Typed ==
    /\ entries \in Registry /\ audit \in AuditLog /\ nextId \in Nat \ {0}
    /\ sess \in [Clients -> Sessions]

\* A session has one audit row per row it wrote, newer than the committed one.
LogsWrites(s, log, next) ==
    \A e \in Events :
       IF s.writes[e] = Absent THEN s.log[e] = NoAudit[e]
       ELSE /\ s.log[e].after = s.writes[e]
            /\ log[e].id < s.log[e].id /\ s.log[e].id < next

\* What a session knows of the registry while no one else has committed.
SeesRegistry(s, registry) ==
    ~s.torn =>
       /\ s.pc = "listed" => s.remote = registry
       /\ s.pc = "planned" => s.fingerprint = s.remote
       /\ s.pc \in {"tx", "got"} /\ s.kind = "apply" /\ ~s.raced => s.remote = registry

\* What is done of a plan is in the rows it wrote, the rest is still in the plan.
FullPlan(s) == ComputeDiff(s.local, s.remote)
AppliesPlan(s) ==
    /\ s.plan.added \subseteq FullPlan(s).added
    /\ s.plan.modified \subseteq FullPlan(s).modified
    /\ s.plan.removed \subseteq FullPlan(s).removed
    /\ \A e \in Events :
          s.writes[e] # Absent <=> e \in Left(FullPlan(s)) \ Left(s.plan)
    /\ \A e \in Events :
          s.writes[e] # Absent =>
             IF e \in FullPlan(s).removed THEN ~Active(s.writes[e])
                                          ELSE s.writes[e] = s.local[e]
PutsOne(s) ==
    /\ s.plan.added = {} /\ s.plan.removed = {}
    /\ \A e \in s.plan.modified : s.local[e] # Absent

Progress(s) ==
    /\ s.pc \in {"listed", "planned"} => s.writes = NoRegistry
    /\ s.pc = "planned" => s.plan = FullPlan(s)
    /\ s.pc \in {"listed", "planned"} => s.kind = "apply"
    /\ s.pc \in {"tx", "got"} =>
          \/ s.kind = "apply" /\ AppliesPlan(s)
          \/ s.kind = "put" /\ PutsOne(s)
    /\ s.pc = "got" =>
          s.event \in Left(s.plan) /\ (s.event \in s.plan.removed => s.before # Absent)

OneWriter ==
    \A c, d \in Clients, e \in Events :
       c # d => sess[c].writes[e] = Absent \/ sess[d].writes[e] = Absent

SessionInv(s) ==
    LogsWrites(s, audit, nextId) /\ SeesRegistry(s, entries) /\ Progress(s)

IInv ==
    /\ Typed /\ OneWriter /\ AuditExplainsRegistry
    /\ \A e \in Events : audit[e].id < nextId
    /\ \A c \in Clients : SessionInv(sess[c])
-----------------------------------------------------------------------------
\* The empty session, which every rollback and refused apply returns to.
LEMMA NoSessionTyped == NoSession \in Sessions /\ NoSession.writes = NoRegistry
<1>1. NoRegistry \in Registry
  BY DEF NoRegistry, Registry
<1>2. NoAudit \in AuditLog
  BY DEF NoAudit, AuditLog
<1>3. NoPlan \in Plans
  BY DEF NoPlan, Plans
<1> QED  BY <1>1, <1>2, <1>3 DEF NoSession, Sessions

\* It has done nothing that a property speaks of.
LEMMA NoSessionInv == SessionInv(NoSession)
<1>1. LogsWrites(NoSession, audit, nextId)
  BY DEF LogsWrites, NoSession, NoRegistry
<1>2. SeesRegistry(NoSession, entries)
  BY DEF SeesRegistry, NoSession
<1>3. Progress(NoSession)
  BY DEF Progress, NoSession
<1> QED  BY <1>1, <1>2, <1>3 DEF SessionInv

\* The parts of a diff are disjoint, and outside them file and registry agree or are
\* inactive.
LEMMA DiffParts ==
    ASSUME NEW local \in Registry, NEW remote \in Registry
    PROVE  LET full == ComputeDiff(local, remote)
           IN  /\ full \in Plans
               /\ full.added \cap full.modified = {} /\ full.added \cap full.removed = {}
               /\ full.modified \cap full.removed = {}
               /\ \A e \in full.added \cup full.modified : local[e] # Absent
               /\ \A e \in Events \ Left(full) :
                     \/ local[e] = remote[e]
                     \/ local[e] = Absent /\ ~Active(remote[e])
<1> DEFINE full == ComputeDiff(local, remote)
<1>1. /\ full.added = {e \in Events : local[e] # Absent /\ remote[e] = Absent}
      /\ full.modified = {e \in Events : /\ local[e] # Absent /\ remote[e] # Absent
                                         /\ local[e] # remote[e]}
      /\ full.removed = {e \in Events : Active(remote[e]) /\ local[e] = Absent}
  BY DEF ComputeDiff
<1>2. full \in Plans
  BY DEF ComputeDiff, Plans
<1> HIDE DEF full
<1>3. \A e \in full.removed : remote[e] # Absent
  BY <1>1 DEF Active
<1>4. /\ full.added \cap full.modified = {} /\ full.added \cap full.removed = {}
      /\ full.modified \cap full.removed = {}
      /\ \A e \in full.added \cup full.modified : local[e] # Absent
  BY <1>1, <1>3
<1>5. \A e \in Events \ Left(full) :
         \/ local[e] = remote[e]
         \/ local[e] = Absent /\ ~Active(remote[e])
  BY <1>1 DEF Left, Active
<1> QED  BY <1>2, <1>4, <1>5 DEF full

\* A step of one session that writes nothing and commits nothing.
LEMMA QuietStep ==
    ASSUME IInv, NEW c \in Clients, NEW s \in Sessions,
           sess' = [sess EXCEPT ![c] = s], UNCHANGED <<entries, audit, nextId>>,
           SessionInv(s), s.writes = NoRegistry \/ s.writes = sess[c].writes
    PROVE  IInv'
<1>1. Typed'
  BY DEF IInv, Typed
<1>2. sess'[c] = s /\ \A d \in Clients \ {c} : sess'[d] = sess[d]
  BY DEF IInv, Typed
<1>3. OneWriter'
  BY <1>2 DEF IInv, OneWriter, NoRegistry
<1>4. \A d \in Clients : SessionInv(sess[d])'
  <2>1. \A d \in Clients : SessionInv(sess'[d])
    BY <1>2 DEF IInv
  <2> QED  BY <2>1 DEF SessionInv
<1>5. AuditExplainsRegistry' /\ \A e \in Events : audit'[e].id < nextId'
  BY DEF IInv, AuditExplainsRegistry
<1> QED  BY <1>1, <1>3, <1>4, <1>5 DEF IInv

\* A session that gives up.
LEMMA GiveUpStep ==
    ASSUME IInv, NEW c \in Clients, sess' = [sess EXCEPT ![c] = NoSession],
           UNCHANGED <<entries, audit, nextId>>
    PROVE  IInv'
  BY NoSessionTyped, NoSessionInv, QuietStep

\* A GET reads what is committed.
LEMMA ListStep ==
    ASSUME IInv, NEW c \in Clients, ListEntries(c)
    PROVE  IInv'
<1>1. PICK local \in Files :
         sess' = [sess EXCEPT ![c] =
                    [NoSession EXCEPT !.pc = "listed", !.kind = "apply",
                                      !.local = local, !.remote = entries]]
  BY DEF ListEntries
<1> DEFINE s == [NoSession EXCEPT !.pc = "listed", !.kind = "apply",
                                  !.local = local, !.remote = entries]
<1>2. s \in Sessions /\ s.writes = NoRegistry
  BY NoSessionTyped, RegistryAssumption DEF IInv, Typed, Sessions
<1>3. LogsWrites(s, audit, nextId)
  BY DEF LogsWrites, NoSession, NoRegistry
<1>4. SeesRegistry(s, entries)
  BY DEF SeesRegistry, NoSession
<1>5. Progress(s)
  BY DEF Progress, NoSession
<1>6. SessionInv(s) /\ UNCHANGED <<entries, audit, nextId>>
  BY <1>3, <1>4, <1>5 DEF SessionInv, ListEntries
<1>7. sess' = [sess EXCEPT ![c] = s]
  BY <1>1
<1> HIDE DEF s
<1> QED  BY <1>2, <1>6, <1>7, QuietStep

\* The second read of the GET, and the diff.
LEMMA FingerprintStep ==
    ASSUME IInv, NEW c \in Clients, ReadFingerprint(c)
    PROVE  IInv'
<1> DEFINE plan == ComputeDiff(sess[c].local, sess[c].remote)
           s == [sess[c] EXCEPT !.pc = "planned", !.plan = plan, !.fingerprint = entries]
<1>1. /\ sess[c] \in Sessions /\ SessionInv(sess[c]) /\ sess[c].pc = "listed"
      /\ entries \in Registry
      /\ UNCHANGED <<entries, audit, nextId>>
  BY DEF IInv, Typed, ReadFingerprint
<1>2. sess' = [sess EXCEPT ![c] = NoSession] \/ sess' = [sess EXCEPT ![c] = s]
  BY DEF ReadFingerprint
<1>3. plan \in Plans
  BY <1>1, DiffParts DEF Sessions
<1> HIDE DEF plan
<1>4. s \in Sessions /\ s.writes = sess[c].writes
  BY <1>1, <1>3 DEF Sessions
<1>5. LogsWrites(s, audit, nextId)
  BY <1>1 DEF SessionInv, LogsWrites, Sessions
<1>6. SeesRegistry(s, entries)
  BY <1>1 DEF SessionInv, SeesRegistry, Sessions
<1>7. Progress(s)
  BY <1>1 DEF SessionInv, Progress, Sessions, FullPlan, plan
<1>8. SessionInv(s)
  BY <1>5, <1>6, <1>7 DEF SessionInv
<1> HIDE DEF s
<1> QED  BY <1>1, <1>2, <1>4, <1>8, QuietStep, GiveUpStep

\* The stale check, and the begin of the transaction.
LEMMA BeginApplyStep ==
    ASSUME IInv, NEW c \in Clients, BeginApply(c)
    PROVE  IInv'
<1> DEFINE s == [sess[c] EXCEPT !.pc = "tx", !.fingerprint = NoRegistry]
<1>1. /\ sess[c] \in Sessions /\ SessionInv(sess[c]) /\ sess[c].pc = "planned"
      /\ UNCHANGED <<entries, audit, nextId>>
  BY DEF IInv, Typed, BeginApply
<1>2. \/ sess' = [sess EXCEPT ![c] = NoSession]
      \/ sess' = [sess EXCEPT ![c] = s] /\ sess[c].fingerprint = entries
  BY DEF BeginApply, Fresh
<1>3. CASE sess' = [sess EXCEPT ![c] = s] /\ sess[c].fingerprint = entries
  <2>1. s \in Sessions /\ s.writes = sess[c].writes
    BY <1>1 DEF Sessions, NoRegistry, Registry
  <2>2. LogsWrites(s, audit, nextId)
    BY <1>1 DEF SessionInv, LogsWrites, Sessions
  <2>3. SeesRegistry(s, entries)
    BY <1>1, <1>3 DEF SessionInv, SeesRegistry, Sessions
  <2>4. AppliesPlan(s)
    <3>1. /\ s.plan = FullPlan(s) /\ s.writes = NoRegistry
      BY <1>1 DEF SessionInv, Progress, Sessions, FullPlan
    <3> QED  BY <3>1 DEF AppliesPlan, NoRegistry
  <2>5. Progress(s)
    <3>1. s.kind = "apply" /\ s.pc = "tx"
      BY <1>1 DEF SessionInv, Progress, Sessions
    <3> QED  BY <2>4, <3>1 DEF Progress
  <2>6. SessionInv(s)
    BY <2>2, <2>3, <2>5 DEF SessionInv
  <2> HIDE DEF s
  <2> QED  BY <1>1, <1>3, <2>1, <2>6, QuietStep
<1> QED  BY <1>1, <1>2, <1>3, GiveUpStep

\* A PUT begins with the one entry it carries.
LEMMA BeginPutStep ==
    ASSUME IInv, NEW c \in Clients, BeginPut(c)
    PROVE  IInv'
<1>1. PICK e \in Events, m \in Puts :
         sess' = [sess EXCEPT ![c] =
                    [NoSession EXCEPT !.pc = "tx", !.kind = "put", !.local[e] = m,
                                      !.plan.modified = {e}]]
  BY DEF BeginPut
<1> DEFINE s == [NoSession EXCEPT !.pc = "tx", !.kind = "put", !.local[e] = m,
                                  !.plan.modified = {e}]
<1>2. m \in Entry /\ m # Absent
  BY RegistryAssumption
<1>3. /\ s.local = [NoRegistry EXCEPT ![e] = m]
      /\ s.plan = [NoPlan EXCEPT !.modified = {e}]
      /\ s.pc = "tx" /\ s.kind = "put" /\ s.writes = NoRegistry /\ s.log = NoAudit
      /\ s.raced = FALSE /\ s.torn = FALSE
  BY DEF NoSession
<1>4. s.local \in Registry /\ s.plan \in Plans
  <2>1. [NoRegistry EXCEPT ![e] = m] \in Registry
    BY <1>2 DEF NoRegistry, Registry
  <2>2. [NoPlan EXCEPT !.modified = {e}] \in Plans
    BY DEF NoPlan, Plans
  <2> HIDE DEF s
  <2> QED  BY <1>3, <2>1, <2>2
<1>5. s \in Sessions
  BY <1>4, NoSessionTyped DEF Sessions, NoSession
<1>6. LogsWrites(s, audit, nextId)
  BY <1>3 DEF LogsWrites, NoRegistry
<1>7. SeesRegistry(s, entries)
  BY <1>3 DEF SeesRegistry
<1>8. PutsOne(s)
  BY <1>2, <1>3 DEF PutsOne, NoPlan, NoRegistry
<1>9. Progress(s)
  BY <1>3, <1>8 DEF Progress
<1>10. SessionInv(s) /\ UNCHANGED <<entries, audit, nextId>>
  BY <1>6, <1>7, <1>9 DEF SessionInv, BeginPut
<1>11. sess' = [sess EXCEPT ![c] = s]
  BY <1>1
<1> HIDE DEF s
<1> QED  BY <1>3, <1>5, <1>10, <1>11, QuietStep

\* Reading the entry of the next event; a conflict gives up.
LEMMA GetStep ==
    ASSUME IInv, NEW c \in Clients, NEW e \in Events, GetEntry(c, e)
    PROVE  IInv'
<1> DEFINE s == [sess[c] EXCEPT !.pc = "got", !.event = e, !.before = Visible(c, e)]
<1>1. /\ sess[c] \in Sessions /\ SessionInv(sess[c]) /\ sess[c].pc = "tx"
      /\ e \in NextEvents(sess[c].plan) /\ entries \in Registry
      /\ UNCHANGED <<entries, audit, nextId>>
  BY DEF IInv, Typed, GetEntry
<1>2. \/ sess' = [sess EXCEPT ![c] = NoSession]
      \/ sess' = [sess EXCEPT ![c] = s] /\ ~Conflict(c, e)
  BY DEF GetEntry
<1>3. CASE sess' = [sess EXCEPT ![c] = s] /\ ~Conflict(c, e)
  <2>1. Visible(c, e) \in Entry \cup {Absent}
    BY <1>1 DEF Visible, Sessions, Registry
  <2>2. /\ s \in Sessions /\ s.writes = sess[c].writes /\ s.log = sess[c].log
        /\ s.plan = sess[c].plan /\ s.kind = sess[c].kind /\ s.pc = "got"
        /\ s.local = sess[c].local /\ s.remote = sess[c].remote
        /\ s.torn = sess[c].torn /\ s.raced = sess[c].raced
        /\ s.event = e /\ s.before = Visible(c, e)
    BY <1>1, <2>1 DEF Sessions
  <2> HIDE DEF s
  <2>3. LogsWrites(s, audit, nextId)
    BY <1>1, <2>2 DEF SessionInv, LogsWrites
  <2>4. SeesRegistry(s, entries)
    BY <1>1, <2>2 DEF SessionInv, SeesRegistry
  <2>5. e \in Left(s.plan)
    BY <1>1, <2>2 DEF NextEvents, Left
  <2>6. e \in s.plan.removed => s.before # Absent
    <3> SUFFICES ASSUME e \in s.plan.removed PROVE s.before # Absent
      OBVIOUS
    <3>1. sess[c].kind = "apply" /\ AppliesPlan(sess[c])
      BY <1>1, <2>2 DEF SessionInv, Progress, PutsOne
    <3>2. e \notin sess[c].plan.added
      <4>1. FullPlan(sess[c]).added \cap FullPlan(sess[c]).removed = {}
        BY <1>1, DiffParts DEF FullPlan, Sessions
      <4> QED  BY <2>2, <3>1, <4>1 DEF AppliesPlan
    <3> QED  BY <1>3, <2>2, <3>1, <3>2 DEF Conflict
  <2>7. \/ s.kind = "apply" /\ AppliesPlan(s)
        \/ s.kind = "put" /\ PutsOne(s)
    <3>1. AppliesPlan(sess[c]) => AppliesPlan(s)
      BY <2>2 DEF AppliesPlan, FullPlan
    <3>2. PutsOne(sess[c]) => PutsOne(s)
      BY <2>2 DEF PutsOne
    <3> QED  BY <1>1, <2>2, <3>1, <3>2 DEF SessionInv, Progress
  <2>8. Progress(s)
    BY <2>2, <2>5, <2>6, <2>7 DEF Progress
  <2>9. SessionInv(s)
    BY <2>3, <2>4, <2>8 DEF SessionInv
  <2> QED  BY <1>1, <1>3, <2>2, <2>9, QuietStep
<1> QED  BY <1>1, <1>2, <1>3, GiveUpStep

\* The entry a session writes is one, and is what its plan asks for.
LEMMA AfterFits ==
    ASSUME IInv, NEW c \in Clients, sess[c].pc = "got"
    PROVE  /\ sess[c].event \in Events /\ After(c) \in Entry /\ After(c) # Absent
           /\ IF sess[c].event \in sess[c].plan.removed THEN ~Active(After(c))
              ELSE After(c) = sess[c].local[sess[c].event]
<1> DEFINE s == sess[c]
           e == sess[c].event
<1>1. s \in Sessions /\ Progress(s)
  BY DEF IInv, Typed, SessionInv
<1>2. e \in Left(s.plan) /\ (e \in s.plan.removed => s.before # Absent) /\ e \in Events
  BY <1>1 DEF Progress, Sessions, Plans, Left
<1>3. CASE e \in s.plan.removed
  <2>1. s.before \in Entry
    BY <1>1, <1>2, <1>3 DEF Sessions
  <2>2. After(c) = [s.before EXCEPT !.status = "deprecated"]
    BY <1>3 DEF After, Deprecated
  <2>3. After(c) \in Entry /\ ~Active(After(c))
    BY <2>1, <2>2 DEF Entry, Active
  <2> QED  BY <1>2, <1>3, <2>3, RegistryAssumption
<1>4. CASE e \notin s.plan.removed
  <2>1. After(c) = s.local[e]
    BY <1>4 DEF After
  <2>2. s.local[e] # Absent
    <3>1. CASE s.kind = "apply" /\ AppliesPlan(s)
      <4>1. \A f \in FullPlan(s).added \cup FullPlan(s).modified : s.local[f] # Absent
        BY <1>1, DiffParts DEF FullPlan, Sessions
      <4> QED  BY <1>2, <1>4, <3>1, <4>1 DEF AppliesPlan, Left
    <3>2. CASE s.kind = "put" /\ PutsOne(s)
      BY <1>2, <1>4, <3>2 DEF PutsOne, Left
    <3> QED  BY <1>1, <3>1, <3>2 DEF Progress
  <2>3. After(c) \in Entry
    BY <1>1, <1>2, <2>1, <2>2 DEF Sessions, Registry
  <2> QED  BY <1>2, <1>4, <2>1, <2>2, <2>3
<1> QED  BY <1>3, <1>4

\* One row and its audit row, under the row's lock.
LEMMA WriteStep ==
    ASSUME IInv, NEW c \in Clients, WriteEntry(c)
    PROVE  IInv'
<1> DEFINE e == sess[c].event
           a == After(c)
           row == AuditRow(c)
           s == [sess[c] EXCEPT !.pc = "tx", !.event = "none", !.before = Absent,
                                !.writes[e] = a, !.log[e] = row,
                                !.plan = Without(sess[c].plan, e)]
<1>1. /\ sess[c] \in Sessions /\ SessionInv(sess[c]) /\ sess[c].pc = "got"
      /\ nextId \in Nat \ {0} /\ nextId' = nextId + 1 /\ UNCHANGED <<entries, audit>>
      /\ ~Locked(c, e) /\ audit \in AuditLog /\ sess \in [Clients -> Sessions]
  BY DEF IInv, Typed, WriteEntry
<1>2. /\ e \in Events /\ a \in Entry /\ a # Absent
      /\ IF e \in sess[c].plan.removed THEN ~Active(a) ELSE a = sess[c].local[e]
  BY <1>1, AfterFits
<1>3. sess' = [sess EXCEPT ![c] = s]
  BY DEF WriteEntry
<1>r. row = [id |-> nextId, after |-> a]
  BY DEF AuditRow
<1> HIDE DEF e, a, row
<1>4. /\ [sess[c].writes EXCEPT ![e] = a] \in Registry
      /\ [sess[c].log EXCEPT ![e] = row] \in AuditLog
  BY <1>1, <1>2, <1>r DEF Sessions, Registry, AuditLog
<1>5. /\ Without(sess[c].plan, e) \in Plans
      /\ Without(sess[c].plan, e).added = sess[c].plan.added \ {e}
      /\ Without(sess[c].plan, e).modified = sess[c].plan.modified \ {e}
      /\ Without(sess[c].plan, e).removed = sess[c].plan.removed \ {e}
  BY <1>1 DEF Without, Sessions, Plans
<1>6. /\ s \in Sessions /\ s.writes = [sess[c].writes EXCEPT ![e] = a]
      /\ s.log = [sess[c].log EXCEPT ![e] = row]
      /\ s.plan = Without(sess[c].plan, e) /\ s.kind = sess[c].kind /\ s.pc = "tx"
      /\ s.local = sess[c].local /\ s.remote = sess[c].remote
      /\ s.torn = sess[c].torn /\ s.raced = sess[c].raced
  BY <1>1, <1>4, <1>5 DEF Sessions
<1> HIDE DEF s
<1>7. sess'[c] = s /\ \A d \in Clients \ {c} : sess'[d] = sess[d]
  BY <1>1, <1>3
<1>8. Typed'
  BY <1>1, <1>3, <1>6 DEF IInv, Typed
<1>9. OneWriter'
  <2>1. \A d \in Clients \ {c} : sess[d].writes[e] = Absent
    BY <1>1 DEF Locked
  <2>2. \A f \in Events \ {e} : s.writes[f] = sess[c].writes[f]
    BY <1>6
  <2> QED  BY <1>7, <2>1, <2>2 DEF IInv, OneWriter
<1>10. \A f \in Events : audit[f].id < nextId /\ audit[f].id < nextId'
  BY <1>1 DEF IInv, AuditLog
<1>11. LogsWrites(s, audit, nextId')
  <2> SUFFICES ASSUME NEW f \in Events
               PROVE  IF s.writes[f] = Absent THEN s.log[f] = NoAudit[f]
                      ELSE /\ s.log[f].after = s.writes[f]
                           /\ audit[f].id < s.log[f].id /\ s.log[f].id < nextId'
    BY DEF LogsWrites
  <2>1. CASE f = e
    <3>1. s.writes[e] = a /\ s.log[e] = row
      BY <1>1, <1>2, <1>6 DEF Sessions, Registry, AuditLog
    <3> QED  BY <1>1, <1>2, <1>10, <1>r, <2>1, <3>1
  <2>2. CASE f # e
    <3>1. s.writes[f] = sess[c].writes[f] /\ s.log[f] = sess[c].log[f]
      BY <1>6, <2>2
    <3>2. sess[c].log[f].id \in Nat
      BY <1>1 DEF Sessions, AuditLog
    <3> QED  BY <1>1, <3>1, <3>2 DEF SessionInv, LogsWrites
  <2> QED  BY <2>1, <2>2
<1>12. SeesRegistry(s, entries)
  BY <1>1, <1>6 DEF SessionInv, SeesRegistry
<1>13. Progress(s)
  <2>1. ASSUME sess[c].kind = "apply", AppliesPlan(sess[c])
        PROVE  AppliesPlan(s)
    <3>1. FullPlan(s) = FullPlan(sess[c])
      BY <1>6 DEF FullPlan
    <3>2. e \in Left(sess[c].plan) /\ Left(s.plan) = Left(sess[c].plan) \ {e}
      <4>1. e \in Left(sess[c].plan)
        BY <1>1 DEF SessionInv, Progress, e
      <4> QED  BY <1>5, <1>6, <4>1 DEF Left
    <3>3. e \in FullPlan(sess[c]).removed <=> e \in sess[c].plan.removed
      <4>1. /\ FullPlan(sess[c]).added \cap FullPlan(sess[c]).removed = {}
            /\ FullPlan(sess[c]).modified \cap FullPlan(sess[c]).removed = {}
        BY <1>1, DiffParts DEF FullPlan, Sessions
      <4> QED  BY <2>1, <3>2, <4>1 DEF AppliesPlan, Left
    <3>4. \A f \in Events : s.writes[f] = IF f = e THEN a ELSE sess[c].writes[f]
      BY <1>1, <1>6 DEF Sessions, Registry
    <3>5. e \in Left(FullPlan(sess[c]))
      BY <2>1, <3>2 DEF AppliesPlan, Left
    <3> QED
      BY <1>2, <1>5, <1>6, <2>1, <3>1, <3>2, <3>3, <3>4, <3>5 DEF AppliesPlan
  <2>2. ASSUME sess[c].kind = "put", PutsOne(sess[c])
        PROVE  PutsOne(s)
    BY <1>5, <1>6, <2>2 DEF PutsOne
  <2> QED  BY <1>1, <1>6, <2>1, <2>2 DEF SessionInv, Progress
<1>14. \A d \in Clients : SessionInv(sess[d])'
  <2>1. ASSUME NEW d \in Clients \ {c}
        PROVE  LogsWrites(sess[d], audit, nextId')
    <3>1. \A f \in Events : sess[d].log[f].id \in Nat
      BY <1>1 DEF Sessions, AuditLog
    <3> QED  BY <1>1, <3>1 DEF IInv, SessionInv, LogsWrites
  <2>2. \A d \in Clients \ {c} : SeesRegistry(sess[d], entries) /\ Progress(sess[d])
    BY DEF IInv, SessionInv
  <2>3. \A d \in Clients : /\ LogsWrites(sess'[d], audit, nextId')
                           /\ SeesRegistry(sess'[d], entries) /\ Progress(sess'[d])
    BY <1>7, <1>11, <1>12, <1>13, <2>1, <2>2
  <2> QED  BY <1>1, <2>3 DEF SessionInv
<1>15. AuditExplainsRegistry'
  BY <1>1 DEF IInv, AuditExplainsRegistry
<1> QED  BY <1>1, <1>8, <1>9, <1>10, <1>14, <1>15 DEF IInv

\* What another client makes of a commit: only its history changes.
LEMMA NoticedKeeps ==
    ASSUME NEW s \in Sessions
    PROVE  /\ Noticed(s) \in Sessions
           /\ Noticed(s).torn = (s.torn \/ s.pc = "listed")
           /\ Noticed(s).raced = (s.raced \/ s.pc \in {"tx", "got"})
           /\ \A f \in {"pc", "kind", "local", "remote", "fingerprint", "plan", "event",
                        "before", "writes", "log"} : Noticed(s)[f] = s[f]
  BY DEF Noticed, Sessions

\* The rows and their audit rows become visible at once.
LEMMA CommitStep ==
    ASSUME IInv, NEW c \in Clients, Commit(c)
    PROVE  IInv'
<1> DEFINE w == sess[c].writes
           log == sess[c].log
<1>1. /\ sess \in [Clients -> Sessions] /\ \A d \in Clients : SessionInv(sess[d])
      /\ entries \in Registry /\ audit \in AuditLog /\ nextId \in Nat \ {0}
      /\ nextId' = nextId /\ w \in Registry /\ log \in AuditLog
      /\ entries' = [e \in Events |-> IF w[e] # Absent THEN w[e] ELSE entries[e]]
      /\ audit' = [e \in Events |-> IF log[e].id > audit[e].id THEN log[e] ELSE audit[e]]
      /\ sess' = [d \in Clients |-> IF d = c THEN NoSession ELSE Noticed(sess[d])]
  BY DEF IInv, Typed, Commit, Visible, Sessions
<1>2. \A e \in Events :
         IF w[e] = Absent THEN entries'[e] = entries[e] /\ audit'[e] = audit[e]
         ELSE entries'[e] = w[e] /\ audit'[e] = log[e] /\ log[e].after = w[e]
  <2> SUFFICES ASSUME NEW e \in Events
               PROVE  IF w[e] = Absent THEN entries'[e] = entries[e] /\ audit'[e] = audit[e]
                      ELSE entries'[e] = w[e] /\ audit'[e] = log[e] /\ log[e].after = w[e]
    OBVIOUS
  <2>1. /\ w[e] = Absent => log[e] = NoAudit[e]
        /\ w[e] # Absent => log[e].after = w[e] /\ audit[e].id < log[e].id
    BY <1>1 DEF SessionInv, LogsWrites
  <2>2. audit[e].id \in Nat /\ log[e].id \in Nat /\ NoAudit[e].id = 0
    BY <1>1 DEF AuditLog, NoAudit
  <2> HIDE DEF w, log
  <2> QED  BY <1>1, <2>1, <2>2
<1>3. \A e \in Events : audit'[e].id < nextId'
  BY <1>1, <1>2 DEF IInv, SessionInv, LogsWrites
<1>4. \A d \in Clients \ {c} : sess'[d] = Noticed(sess[d]) /\ sess[d] \in Sessions
  BY <1>1
<1>5. sess'[c] = NoSession /\ NoSession \in Sessions /\ NoSession.writes = NoRegistry
  BY <1>1, NoSessionTyped
<1>6. Typed'
  <2>1. sess' \in [Clients -> Sessions]
    BY <1>1, <1>4, <1>5, NoticedKeeps
  <2>2. entries' \in Registry /\ audit' \in AuditLog
    BY <1>1 DEF Registry, AuditLog
  <2> QED  BY <1>1, <2>1, <2>2 DEF Typed
<1>7. \A d \in Clients \ {c} : sess'[d].writes = sess[d].writes
  BY <1>4, NoticedKeeps
<1>8. OneWriter'
  BY <1>5, <1>7 DEF IInv, OneWriter, NoRegistry
<1>9. AuditExplainsRegistry'
  BY <1>2 DEF IInv, AuditExplainsRegistry
<1>10. ASSUME NEW d \in Clients \ {c}
       PROVE  /\ LogsWrites(sess'[d], audit', nextId')
              /\ SeesRegistry(sess'[d], entries') /\ Progress(sess'[d])
  <2> DEFINE s == sess[d]
             t == sess'[d]
  <2>1. /\ s \in Sessions /\ t.pc = s.pc /\ t.kind = s.kind /\ t.local = s.local
        /\ t.remote = s.remote /\ t.fingerprint = s.fingerprint /\ t.plan = s.plan
        /\ t.event = s.event /\ t.before = s.before /\ t.writes = s.writes /\ t.log = s.log
        /\ t.torn = (s.torn \/ s.pc = "listed")
        /\ t.raced = (s.raced \/ s.pc \in {"tx", "got"})
    BY <1>4, NoticedKeeps
  <2>2. LogsWrites(s, audit, nextId) /\ SeesRegistry(s, entries) /\ Progress(s)
    BY <1>1 DEF SessionInv
  <2>3. \A e \in Events : s.writes[e] # Absent => w[e] = Absent
    BY DEF IInv, OneWriter
  <2> HIDE DEF s, t
  <2>4. LogsWrites(t, audit', nextId')
    BY <1>1, <1>2, <2>1, <2>2, <2>3 DEF LogsWrites
  <2>5. SeesRegistry(t, entries')
    BY <2>1, <2>2 DEF SeesRegistry
  <2>6. Progress(t)
    <3>1. AppliesPlan(s) => AppliesPlan(t)
      BY <2>1 DEF AppliesPlan, FullPlan
    <3>2. PutsOne(s) => PutsOne(t)
      BY <2>1 DEF PutsOne
    <3>3. FullPlan(t) = FullPlan(s)
      BY <2>1 DEF FullPlan
    <3> QED  BY <2>1, <2>2, <3>1, <3>2, <3>3 DEF Progress
  <2> QED  BY <2>4, <2>5, <2>6 DEF t
<1>11. /\ LogsWrites(NoSession, audit', nextId')
       /\ SeesRegistry(NoSession, entries') /\ Progress(NoSession)
  BY DEF LogsWrites, SeesRegistry, Progress, NoSession, NoRegistry
<1>12. \A d \in Clients : SessionInv(sess[d])'
  BY <1>5, <1>10, <1>11 DEF SessionInv
<1> QED  BY <1>3, <1>6, <1>8, <1>9, <1>12 DEF IInv

\* The inductive invariant holds before anyone starts.
LEMMA InvInit == Init => IInv
<1> SUFFICES ASSUME Init PROVE IInv
  OBVIOUS
<1>1. \A c \in Clients : sess[c] = NoSession
  BY DEF Init
<1>2. Typed
  BY NoSessionTyped, RegistryAssumption DEF Init, Typed, NoAudit, AuditLog
<1>3. OneWriter
  BY <1>1, NoSessionTyped DEF OneWriter, NoRegistry
<1>4. AuditExplainsRegistry /\ \A e \in Events : audit[e].id < nextId
  BY DEF Init, AuditExplainsRegistry, NoAudit
<1> QED  BY <1>1, <1>2, <1>3, <1>4, NoSessionInv DEF IInv

\* Every step keeps the inductive invariant.
LEMMA InvNext == IInv /\ [Next]_vars => IInv'
<1> SUFFICES ASSUME IInv, [Next]_vars PROVE IInv'
  OBVIOUS
<1>1. CASE UNCHANGED vars
  <2>1. UNCHANGED <<entries, audit, nextId, sess>>
    BY <1>1 DEF vars
  <2> QED
    BY <2>1 DEF IInv, Typed, OneWriter, AuditExplainsRegistry, SessionInv
<1>2. ASSUME NEW c \in Clients, Rollback(c)
      PROVE  IInv'
  BY <1>2, GiveUpStep DEF Rollback
<1>3. ASSUME NEW c \in Clients, Proceed(c)
      PROVE  IInv'
  BY <1>2, <1>3, FingerprintStep, BeginApplyStep, GetStep, WriteStep, CommitStep
     DEF Proceed, BreakDeadlock
<1> QED  BY <1>1, <1>2, <1>3, ListStep, BeginPutStep DEF Next
-----------------------------------------------------------------------------
\* The inductive invariant holds in every state of the registry.
THEOREM SyncInvariant == Spec => []IInv
<1> QED  BY InvInit, InvNext, PTL DEF Spec

\* The variables hold values of their types.
THEOREM SyncTypeCorrect == Spec => []TypeOK
<1>1. IInv => TypeOK
  BY DEF IInv, Typed, TypeOK, Sessions, AuditLog, Plans
<1> QED  BY <1>1, SyncInvariant, PTL

\* The newest audit record of an event says what its entry is, for any number
\* of concurrent syncs and PUTs, though audit ids are drawn before the commits.
THEOREM AuditTellsRegistry == Spec => []AuditExplainsRegistry
<1>1. IInv => AuditExplainsRegistry
  BY DEF IInv
<1> QED  BY <1>1, SyncInvariant, PTL

\* A plan commits on a registry other than the one its diff was computed
\* against only after a commit between the two reads of its GET, or during its
\* transaction: the stale check catches all others.
THEOREM TwoWindowsOnly == Spec => StaleOnlyInTwoWindows
<1>1. IInv /\ [Next]_vars =>
         [\A c \in Clients :
             CommitsPlan(c) /\ ~sess[c].torn /\ ~sess[c].raced
                => entries = sess[c].remote]_vars
  BY DEF IInv, SessionInv, SeesRegistry, CommitsPlan, Commit
<1> QED  BY <1>1, SyncInvariant, PTL DEF Spec, StaleOnlyInTwoWindows

\* An apply that nobody disturbed leaves the registry as the file declares it.
THEOREM ApplyReachesFile == Spec => CleanApplyMatchesFile
<1> DEFINE Clean(c) ==
              CommitsPlan(c) /\ ~sess[c].torn /\ ~sess[c].raced
                 => \A e \in Events :
                       \/ entries'[e] = sess[c].local[e]
                       \/ sess[c].local[e] = Absent /\ ~Active(entries'[e])
<1>1. ASSUME IInv, NEW c \in Clients PROVE Clean(c)
  <2> SUFFICES ASSUME CommitsPlan(c), ~sess[c].torn, ~sess[c].raced, NEW e \in Events
               PROVE  \/ entries'[e] = sess[c].local[e]
                      \/ sess[c].local[e] = Absent /\ ~Active(entries'[e])
    OBVIOUS
  <2> DEFINE s == sess[c]
  <2>1. /\ s \in Sessions /\ SessionInv(s) /\ s.pc = "tx" /\ s.kind = "apply"
        /\ Left(s.plan) = {}
        /\ entries'[e] = IF s.writes[e] # Absent THEN s.writes[e] ELSE entries[e]
    BY <1>1 DEF IInv, Typed, CommitsPlan, Commit, Visible
  <2>2. AppliesPlan(s) /\ s.remote = entries
    BY <2>1 DEF SessionInv, Progress, SeesRegistry
  <2> HIDE DEF s
  <2>3. CASE e \in Left(FullPlan(s))
    <3>1. s.writes[e] # Absent
      BY <2>1, <2>2, <2>3 DEF AppliesPlan
    <3>2. CASE e \in FullPlan(s).removed
      <4>1. s.local[e] = Absent
        BY <3>2 DEF FullPlan, ComputeDiff
      <4>2. ~Active(s.writes[e])
        BY <2>2, <3>1, <3>2 DEF AppliesPlan
      <4> QED  BY <2>1, <3>1, <4>1, <4>2 DEF s
    <3>3. CASE e \notin FullPlan(s).removed
      <4>1. s.writes[e] = s.local[e]
        BY <2>2, <3>1, <3>3 DEF AppliesPlan
      <4> QED  BY <2>1, <3>1, <4>1 DEF s
    <3> QED  BY <3>2, <3>3
  <2>4. CASE e \notin Left(FullPlan(s))
    <3>1. entries'[e] = entries[e]
      BY <2>1, <2>2, <2>4 DEF AppliesPlan
    <3>2. \/ s.local[e] = s.remote[e]
          \/ s.local[e] = Absent /\ ~Active(s.remote[e])
      BY <2>1, <2>4, DiffParts DEF FullPlan, Sessions
    <3> QED  BY <2>2, <3>1, <3>2 DEF s
  <2> QED  BY <2>3, <2>4
<1>2. IInv /\ [Next]_vars => [\A c \in Clients : Clean(c)]_vars
  BY <1>1
<1> QED  BY <1>2, SyncInvariant, PTL DEF Spec, CleanApplyMatchesFile
=============================================================================
