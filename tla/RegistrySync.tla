---------------------------- MODULE RegistrySync ----------------------------
(***************************************************************************)
(* One tenant's event registry: `toqar sync --apply` (cli/src/sync.ts,      *)
(* diff.ts) and PUT of single entries against the registry service          *)
(* (registry-service/src/app.ts, store.ts) over Postgres.                   *)
(*                                                                          *)
(* Every store method runs in one transaction at READ COMMITTED: each       *)
(* statement sees what is committed when it starts and the transaction's    *)
(* own writes, a write waits for the row's lock, and a deadlock or an error *)
(* of the database rolls the transaction back.                              *)
(***************************************************************************)
EXTENDS Integers, FiniteSets

CONSTANTS
    Clients,   \* concurrent sync runs and API callers
    Events,    \* event names, the key of registry_entries
    Defs,      \* event definitions, apart from their status
    Files,     \* contents a registry-as-code file can have
    Puts,      \* entries an API caller can PUT
    Absent,    \* no entry
    MaxAudit   \* bound: no session begins once so many audit ids are drawn

Entry == [def : Defs, status : {"active", "deprecated"}]
Registry == [Events -> Entry \cup {Absent}]

ASSUME RegistryAssumption ==
    /\ Absent \notin Entry
    /\ Files \subseteq Registry
    /\ Puts \subseteq Entry
    /\ MaxAudit \in Nat

VARIABLES
    entries,   \* committed rows of registry_entries
    audit,     \* the newest committed row of audit_log, per event
    nextId,    \* audit_log's serial
    sess       \* per client, its run of sync or its PUT

vars == <<entries, audit, nextId, sess>>

NoPlan == [added |-> {}, modified |-> {}, removed |-> {}]
NoAudit == [e \in Events |-> [id |-> 0, after |-> Absent]]
NoRegistry == [e \in Events |-> Absent]
NoSession ==
    [pc |-> "idle", kind |-> "none",
     local |-> NoRegistry,   \* the file, or for a PUT the entry it carries
     remote |-> NoRegistry,  \* entries of the GET
     fingerprint |-> NoRegistry, \* a hash of the whole state: the state itself
     plan |-> NoPlan,        \* what is left to do
     event |-> "none", before |-> Absent,
     writes |-> NoRegistry,  \* uncommitted rows, whose locks are held
     log |-> NoAudit,        \* uncommitted audit rows
     torn |-> FALSE,         \* history: a commit between list and fingerprint
     raced |-> FALSE]        \* history: a commit since the transaction began

Active(m) == m # Absent /\ m.status = "active"

\* Mutant: what the file no longer declares is never deprecated.
ComputeDiff_NoRemovals(local, remote) ==
    [added    |-> {e \in Events : local[e] # Absent /\ remote[e] = Absent},
     modified |-> {e \in Events : /\ local[e] # Absent /\ remote[e] # Absent
                                  /\ local[e] # remote[e]},
     removed  |-> {}]

\* computeDiff(): file against registry.
ComputeDiff(local, remote) ==
    [added    |-> {e \in Events : local[e] # Absent /\ remote[e] = Absent},
     modified |-> {e \in Events : /\ local[e] # Absent /\ remote[e] # Absent
                                  /\ local[e] # remote[e]},
     removed  |-> {e \in Events : Active(remote[e]) /\ local[e] = Absent}]

\* What a statement of c's transaction reads of a row.
Visible(c, e) == IF sess[c].writes[e] # Absent THEN sess[c].writes[e] ELSE entries[e]
Locked(c, e) == \E d \in Clients \ {c} : sess[d].writes[e] # Absent
InTransaction(c) == sess[c].pc \in {"tx", "got"}

\* applyPlan() goes through added, then modified, then removed.
Left(plan) == plan.added \cup plan.modified \cup plan.removed
NextEvents(plan) ==
    IF plan.added # {} THEN plan.added
    ELSE IF plan.modified # {} THEN plan.modified ELSE plan.removed
Without(plan, e) == [k \in DOMAIN plan |-> plan[k] \ {e}]
-----------------------------------------------------------------------------
Init ==
    /\ entries \in {f \in Files : \A e \in Events : f[e] = Absent \/ Active(f[e])}
    /\ audit = NoAudit
    /\ nextId = 1
    /\ sess = [c \in Clients |-> NoSession]

\* GET /v1/registry/events, first transaction: the entries.
ListEntries(c) ==
    /\ sess[c].pc = "idle" /\ nextId <= MaxAudit
    /\ \E local \in Files :
          sess' = [sess EXCEPT ![c] =
                     [NoSession EXCEPT !.pc = "listed", !.kind = "apply",
                                       !.local = local, !.remote = entries]]
    /\ UNCHANGED <<entries, audit, nextId>>

\* Second transaction: the fingerprint.  Then the client computes the diff,
\* and is done if it is empty.
ReadFingerprint(c) ==
    /\ sess[c].pc = "listed"
    /\ LET plan == ComputeDiff(sess[c].local, sess[c].remote) IN
       sess' = [sess EXCEPT ![c] =
                  IF Left(plan) = {} THEN NoSession
                  ELSE [@ EXCEPT !.pc = "planned", !.plan = plan,
                                 !.fingerprint = entries]]
    /\ UNCHANGED <<entries, audit, nextId>>

Fresh_Always(c) == TRUE   \* mutant: no stale check
Fresh(c) == sess[c].fingerprint = entries

\* POST /v1/registry/apply begins its transaction with the stale check.
BeginApply(c) ==
    /\ sess[c].pc = "planned"
    /\ sess' = [sess EXCEPT ![c] =
                  IF Fresh(c)
                  THEN [@ EXCEPT !.pc = "tx", !.fingerprint = NoRegistry]
                  ELSE NoSession]
    /\ UNCHANGED <<entries, audit, nextId>>

\* PUT /v1/registry/events/:event begins its transaction.
BeginPut(c) ==
    /\ sess[c].pc = "idle" /\ nextId <= MaxAudit
    /\ \E e \in Events, m \in Puts :
          sess' = [sess EXCEPT ![c] =
                     [NoSession EXCEPT !.pc = "tx", !.kind = "put",
                                       !.local[e] = m,
                                       !.plan.modified = {e}]]
    /\ UNCHANGED <<entries, audit, nextId>>

\* getEntryVia() for the next event of the plan; a conflict throws, which
\* rolls the whole plan back.
Conflict(c, e) ==
    /\ sess[c].kind = "apply"
    /\ (e \in sess[c].plan.added) = (Visible(c, e) # Absent)

GetEntry(c, e) ==
    /\ sess[c].pc = "tx" /\ e \in NextEvents(sess[c].plan)
    /\ sess' = [sess EXCEPT ![c] =
                  IF Conflict(c, e) THEN NoSession
                  ELSE [@ EXCEPT !.pc = "got", !.event = e,
                                 !.before = Visible(c, e)]]
    /\ UNCHANGED <<entries, audit, nextId>>

Deprecated_AsRemoved(m) == [m EXCEPT !.status = "removed"]   \* mutant
Deprecated(m) == [m EXCEPT !.status = "deprecated"]

After(c) ==
    IF sess[c].event \in sess[c].plan.removed
    THEN Deprecated(sess[c].before)
    ELSE sess[c].local[sess[c].event]

AuditRow(c) == [id |-> nextId, after |-> After(c)]

\* writeEntry(), which waits for the row's lock, and the audit row.
WriteEntry(c) ==
    /\ sess[c].pc = "got"
    /\ ~Locked(c, sess[c].event)
    /\ nextId' = nextId + 1
    /\ sess' = [sess EXCEPT ![c] =
                  [@ EXCEPT !.pc = "tx", !.event = "none", !.before = Absent,
                            !.writes[sess[c].event] = After(c),
                            !.log[sess[c].event] = AuditRow(c),
                            !.plan = Without(sess[c].plan, sess[c].event)]]
    /\ UNCHANGED <<entries, audit>>

\* History: a commit makes the other clients' half-done work stale.
Noticed(s) ==
    [s EXCEPT !.torn  = @ \/ s.pc = "listed",
              !.raced = @ \/ s.pc \in {"tx", "got"}]

Commit(c) ==
    /\ sess[c].pc = "tx" /\ Left(sess[c].plan) = {}
    /\ entries' = [e \in Events |-> Visible(c, e)]
    /\ audit' = [e \in Events |-> IF sess[c].log[e].id > audit[e].id
                                  THEN sess[c].log[e] ELSE audit[e]]
    /\ sess' = [d \in Clients |-> IF d = c THEN NoSession ELSE Noticed(sess[d])]
    /\ UNCHANGED nextId

\* Mutants: the audit rows are written outside the transaction; the
\* transaction is not rolled back and keeps its locks.
Rollback_KeepsAudit(c) ==
    /\ InTransaction(c)
    /\ audit' = [e \in Events |-> IF sess[c].log[e].id > audit[e].id
                                  THEN sess[c].log[e] ELSE audit[e]]
    /\ sess' = [sess EXCEPT ![c] = NoSession]
    /\ UNCHANGED <<entries, nextId>>
Rollback_NotIssued(c) ==
    /\ InTransaction(c)
    /\ sess' = [sess EXCEPT ![c].pc = "idle"]
    /\ UNCHANGED <<entries, audit, nextId>>

\* An error of the database, or the service dies.
Rollback(c) ==
    /\ InTransaction(c)
    /\ sess' = [sess EXCEPT ![c] = NoSession]
    /\ UNCHANGED <<entries, audit, nextId>>

\* Postgres aborts a transaction that waits for a row of one waiting for it.
WaitsFor(c, d) == sess[c].pc = "got" /\ sess[d].writes[sess[c].event] # Absent
BreakDeadlock(c) ==
    /\ \E d \in Clients \ {c} : WaitsFor(c, d) /\ WaitsFor(d, c)
    /\ Rollback(c)

Proceed(c) ==
    \/ ReadFingerprint(c)
    \/ BeginApply(c)
    \/ \E e \in Events : GetEntry(c, e)
    \/ WriteEntry(c)
    \/ Commit(c)
    \/ BreakDeadlock(c)

Next ==
    \E c \in Clients :
       ListEntries(c) \/ BeginPut(c) \/ Proceed(c) \/ Rollback(c)

\* A session that can go on does; waiting for a row ends when the other
\* transaction does, or when the server breaks the deadlock.
Fairness == \A c \in Clients : WF_vars(Proceed(c))

Spec == Init /\ [][Next]_vars
FairSpec == Spec /\ Fairness
-----------------------------------------------------------------------------
\* The variables hold values of their types.
TypeOK ==
    /\ entries \in Registry
    /\ audit \in [Events -> [id : Nat, after : Entry \cup {Absent}]]
    /\ nextId \in Nat
    /\ \A c \in Clients :
          /\ sess[c].pc \in {"idle", "listed", "planned", "tx", "got"}
          /\ sess[c].writes \in Registry
          /\ sess[c].plan \in [{"added", "modified", "removed"} -> SUBSET Events]

\* The audit trail explains the registry: the newest record of an event says
\* what its entry is, though ids are drawn before the commit and transactions
\* commit in another order.
AuditExplainsRegistry ==
    \A e \in Events : audit[e] # NoAudit[e] => entries[e] = audit[e].after

\* The stale check fails in two windows only: a plan that commits although
\* the registry was not what its diff was computed against had a commit
\* between the two reads of its GET or during its own transaction.
CommitsPlan(c) == sess[c].kind = "apply" /\ Commit(c)
StaleOnlyInTwoWindows ==
    [][\A c \in Clients :
          CommitsPlan(c) /\ ~sess[c].torn /\ ~sess[c].raced
             => entries = sess[c].remote]_vars

\* An undisturbed apply leaves the registry as the file says: what the file
\* declares is there, and all that is active is in the file.
CleanApplyMatchesFile ==
    [][\A c \in Clients :
          CommitsPlan(c) /\ ~sess[c].torn /\ ~sess[c].raced
             => \A e \in Events :
                   \/ entries'[e] = sess[c].local[e]
                   \/ sess[c].local[e] = Absent /\ ~Active(entries'[e])]_vars

\* "It SHALL refuse to apply if the diff was computed against a backend state
\* that changed meanwhile" (openspec/specs/registry-sync).
RefusesStalePlan ==
    [][\A c \in Clients : CommitsPlan(c) => entries = sess[c].remote]_vars

\* Every sync and every PUT comes to an end, also when two transactions wait
\* for each other's rows.
SessionsEnd == \A c \in Clients : sess[c].pc # "idle" ~> sess[c].pc = "idle"
=============================================================================
