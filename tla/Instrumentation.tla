--------------------------- MODULE Instrumentation ---------------------------
(***************************************************************************)
(* The instrumentation agent and the commands that run it: `toqar           *)
(* instrument` (cli/src/instrument.ts) and `toqar onboard`                  *)
(* (cli/src/onboard.ts).  A run scans the repository, reads the stored seam *)
(* map and the registry, plans, stores the new seam map and stops at the    *)
(* review gate; an approved run goes on to write code, run the host's own   *)
(* checks, commit to a branch and record the run.  Every await may fail.    *)
(*                                                                         *)
(* A source file is a sequence of lines and a line the set of what can be   *)
(* said of it (Patterns); the two lines of an emission are one.             *)
(***************************************************************************)
EXTENDS Integers, Sequences, FiniteSets, SequencesExt

CONSTANTS
    Repo,         \* [file |-> sequence of lines], the checkout before any run
    Frameworks,   \* recognised dependencies of its package.json
    Scripts,      \* "typecheck" and "test", if its package.json has them
    Registered,   \* events of the tenant's registry
    Proposals,    \* insertions a model may propose: [file, after]
    MaxRuns       \* bound on the runs of the commands

Lifecycle == {"task_completed", "task_failed", "task_abandoned"}
HumanEvents == {"handoff_to_human", "human_approved", "human_overrode", "human_edited"}
EVENT_SEAM_SOURCES ==
    [e \in Lifecycle \cup HumanEvents \cup {"task_started", "step_executed"} |->
        IF e = "task_started" THEN {"task_start"}
        ELSE IF e = "step_executed" THEN {"llm_call", "tool_call", "retrieval"}
        ELSE IF e \in Lifecycle THEN {"outcome"} ELSE {"handoff"}]

VARIABLES
    files,        \* the working tree's sources
    generated,    \* generated files in it: <<>> or [plan, wrapper] with the events in each
    branch,       \* whether analytics/toqar-instrumentation exists
    commits,      \* trees committed on it
    stored,       \* the seam map the backend has for the repository
    milestones,   \* onboarding milestones the backend recorded
    recorded,     \* number of runs the backend recorded
    runs,         \* number of runs started
    pc,           \* what the running command awaits next, or "idle"
    run           \* the running command: its flags and what it computed so far

vars == <<files, generated, branch, commits, stored, milestones, recorded, runs, pc, run>>
tree == <<files, generated>>
git == <<branch, commits>>
backend == <<stored, milestones, recorded>>

NoMap == {[kind |-> "none", file |-> "none", line |-> 0]}
-----------------------------------------------------------------------------
(* The scanner.                                                            *)

HasLlm(lines) == \E i \in DOMAIN lines : "llm" \in lines[i]
IsEntry(lines, i) ==
    /\ "llm" \notin lines[i]
    /\ \/ "route" \in lines[i] /\ "express" \in Frameworks
       \/ "function" \in lines[i] /\ HasLlm(lines)

\* The first pattern of a line wins; an outcome counts below an entry only.
SeamKind(lines, i) ==
    IF "llm" \in lines[i] THEN "llm_call"
    ELSE IF IsEntry(lines, i) THEN "task_start"
    ELSE IF "await_local" \in lines[i]
         THEN IF "handoff_name" \in lines[i] THEN "handoff" ELSE "tool_call"
    ELSE IF "return" \in lines[i] /\ \E j \in 1..(i - 1) : IsEntry(lines, j)
         THEN "outcome"
    ELSE "none"

Scan(fs) ==
    {s \in UNION {{[kind |-> SeamKind(fs[f], i), file |-> f, line |-> i] :
                      i \in DOMAIN fs[f]} : f \in DOMAIN fs} : s.kind # "none"}

\* An event without a seam of its kinds is not planned.
BuildPlan(seams) ==
    {e \in Registered \cap DOMAIN EVENT_SEAM_SOURCES :
        \E s \in seams : s.kind \in EVENT_SEAM_SOURCES[e]}
SeamChanges(old, new) ==
    LET Known == IF old = NoMap THEN {} ELSE old
    IN  [reused |-> old # NoMap, added |-> new \ Known, removed |-> Known \ new]
-----------------------------------------------------------------------------
(* The implementer's edits.                                                *)

AtMost(a, b) == IF a <= b THEN a ELSE b
LastImport(lines) ==
    LET Is == {i \in DOMAIN lines : "import" \in lines[i]}
    IN  IF Is = {} THEN 0 ELSE CHOOSE i \in Is : \A j \in Is : j <= i
Imported(lines) == \E i \in DOMAIN lines : "analytics" \in lines[i]

\* Per function that is an entry and has its parenthesis right behind its name: its emission
\* and, as long as the file on disk lacks it, the import; the emission goes one line further
\* down if the import is inserted.  The scanner's pattern asks for no parenthesis: a generic
\* function is a seam too, and is skipped here.
ToWire(fs, seams) ==
    {s \in seams : s.kind = "task_start" /\ {"function", "params"} \subseteq fs[s.file][s.line]}
Wiring(fs, seams) ==
    LET Entries == ToWire(fs, seams)
    IN  {[file |-> s.file, after |-> LastImport(fs[s.file]), line |-> {"import", "analytics"},
          for |-> s.line] : s \in {e \in Entries : ~Imported(fs[e.file])}}
        \cup
        {[file |-> s.file, line |-> {"emission"}, for |-> s.line,
          after |-> s.line + IF Imported(fs[s.file]) THEN 0 ELSE 1] : s \in Entries}

\* An edit's place is counted in the lines there are before any insertion: the code inserts
\* bottom up.
InsertInto(lines, edits) ==
    LET Here(p) == {e \in edits : AtMost(e.after, Len(lines)) = p}
        NewAt(p) == [i \in 1..Cardinality(Here(p)) |-> SetToSeq(Here(p))[i].line]
        Upto[p \in 0..Len(lines)] ==
            (IF p = 0 THEN <<>> ELSE Append(Upto[p - 1], lines[p])) \o NewAt(p)
    IN  Upto[Len(lines)]

EditFiles(fs, edits, written) ==
    [f \in DOMAIN fs |->
        IF f \in written THEN InsertInto(fs[f], {e \in edits : e.file = f}) ELSE fs[f]]
EditedFiles(edits) == {e.file : e \in edits}

\* A proposed edit must name a file that exists in the repository.
Accepted(proposed) ==
    {[file |-> p.file, after |-> p.after, line |-> {"proposed"}, for |-> 0] :
        p \in {q \in proposed : q.file \in DOMAIN files}}

\* `analytics` imported twice in a file does not compile, nor does `__toqarCtx` declared
\* twice in a body.
Compiles(fs) ==
    \A f \in DOMAIN fs :
        /\ Cardinality({i \in DOMAIN fs[f] : "analytics" \in fs[f][i]}) <= 1
        /\ \A i, j \in DOMAIN fs[f] :
              (i < j /\ "emission" \in fs[f][i] /\ "emission" \in fs[f][j])
              => \E k \in i..j : fs[f][k] \cap {"function", "outside"} # {}
-----------------------------------------------------------------------------
\* What can be said of a line: what the scanner looks for (a function is one that is exported
\* and async, its params follow its name at once), what the agent inserts, a line that always
\* leaves the body it is in (a return, a throw), and one below which a body is not: it ended
\* here, or its function's header goes on.
Patterns ==
    {"import", "function", "params", "llm", "route", "await_local", "handoff_name", "return",
     "leaves", "outside", "analytics", "emission", "proposed"}
\* Before any run nothing is emitted.
KnownRepo ==
    /\ Repo \in [DOMAIN Repo -> Seq(SUBSET Patterns)]
    /\ \A f \in DOMAIN Repo : \A i \in DOMAIN Repo[f] : "emission" \notin Repo[f][i]
    /\ IsFiniteSet(Proposals) /\ \A p \in Proposals : p.after \in Nat
-----------------------------------------------------------------------------
NoRun == [mode |-> "none", approve |-> FALSE, session |-> FALSE, seams |-> {}, base |-> NoMap,
          plan |-> {}, code |-> 0, checked |-> <<>>]

Init ==
    /\ files = Repo /\ generated = <<>> /\ branch = FALSE /\ commits = {}
    /\ stored = NoMap /\ milestones = {} /\ recorded = 0
    /\ runs = 0 /\ pc = "idle" /\ run = NoRun

GoTo(l) == pc' = l
Exit(c) == pc' = "idle" /\ run' = [run EXCEPT !.code = c]

\* The scan is local; an unsupported stack is refused before the backend is touched.
\* What the model says about the plan is advice: it changes nothing.
StartInstrument ==
    /\ pc = "idle" /\ runs < MaxRuns
    /\ \E a, s \in BOOLEAN :
          run' = [NoRun EXCEPT !.mode = "instrument", !.approve = a, !.session = s,
                               !.seams = Scan(files),
                               !.code = IF Frameworks = {} THEN 1 ELSE 0]
    /\ runs' = runs + 1
    /\ GoTo(IF Frameworks = {} THEN "idle" ELSE "get_seam_map")
    /\ UNCHANGED <<tree, git, backend>>

\* fetch() of a milestone is awaited but its status is not looked at.
Milestone(m) == milestones' \in {milestones, milestones \cup {m}}

StartOnboard ==
    /\ pc = "idle" /\ runs < MaxRuns
    /\ run' = [NoRun EXCEPT !.mode = "onboard", !.seams = Scan(files),
                            !.code = IF Frameworks = {} THEN 1 ELSE 0]
    /\ runs' = runs + 1
    /\ Milestone("connected")
    /\ GoTo(IF Frameworks = {} THEN "idle" ELSE "get_seam_map")
    /\ UNCHANGED <<tree, git, stored, recorded>>

GetSeamMap ==
    /\ pc = "get_seam_map"
    /\ run' = [run EXCEPT !.base = stored]
    /\ GoTo("fetch_registry")
    /\ UNCHANGED <<tree, git, backend, runs>>

FetchRegistry ==
    /\ pc = "fetch_registry"
    /\ run' = [run EXCEPT !.plan = BuildPlan(run.seams)]
    /\ GoTo(IF run.session THEN "review" ELSE "put_seam_map")
    /\ UNCHANGED <<tree, git, backend, runs>>

ReviewPlan ==
    /\ pc = "review"
    /\ GoTo("put_seam_map")
    /\ UNCHANGED <<tree, git, backend, runs, run>>

\* The review gate: without --approve the run ends here with exit code 2.
PutSeamMap ==
    /\ pc = "put_seam_map"
    /\ stored' = run.seams
    /\ IF run.mode = "onboard" THEN GoTo("plan_proposed") /\ UNCHANGED run
       ELSE IF run.approve THEN GoTo("write_generated") /\ UNCHANGED run
       ELSE Exit(2)
    /\ UNCHANGED <<tree, git, milestones, recorded, runs>>

PlanProposed ==
    /\ pc = "plan_proposed"
    /\ Milestone("plan_proposed")
    /\ Exit(2)
    /\ UNCHANGED <<tree, git, stored, recorded, runs>>

\* analytics/tracking-plan.md and src/analytics.ts, with emitters of planned events only.
WriteGenerated ==
    /\ pc = "write_generated"
    /\ generated' = [plan |-> run.plan, wrapper |-> run.plan]
    /\ GoTo("wire")
    /\ UNCHANGED <<files, git, backend, runs, run>>

Wire ==
    /\ pc = "wire"
    /\ LET edits == Wiring(files, run.seams)
       IN  files' = EditFiles(files, edits, EditedFiles(edits))
    /\ GoTo(IF run.session THEN "model_edits" ELSE "checks")
    /\ UNCHANGED <<generated, git, backend, runs, run>>

\* An unusable reply proposes nothing.
ModelEdits ==
    /\ pc = "model_edits"
    /\ \E proposed \in SUBSET Proposals :
          files' = EditFiles(files, Accepted(proposed), EditedFiles(Accepted(proposed)))
    /\ GoTo("checks")
    /\ UNCHANGED <<generated, git, backend, runs, run>>

\* All checks that package.json has, in turn; none is a pass.
ChecksPass ==
    /\ pc = "checks"
    /\ "typecheck" \in Scripts => Compiles(files)
    /\ run' = [run EXCEPT !.checked = <<files, generated>>]
    /\ GoTo("checkout")
    /\ UNCHANGED <<tree, git, backend, runs>>

\* The edits stay in the working tree.
VerificationFails ==
    /\ pc = "checks" /\ Scripts # {}
    /\ Exit(1)
    /\ UNCHANGED <<tree, git, backend, runs>>

\* git checkout -b fails if an earlier run made the branch.
Checkout ==
    /\ pc = "checkout" /\ ~branch
    /\ branch' = TRUE
    /\ GoTo("commit")
    /\ UNCHANGED <<tree, commits, backend, runs, run>>

\* git add -A; git commit; git rev-parse HEAD.
Commit ==
    /\ pc = "commit"
    /\ commits' = commits \cup {<<files, generated>>}
    /\ GoTo("record_run")
    /\ UNCHANGED <<tree, branch, backend, runs, run>>

RecordRun ==
    /\ pc = "record_run"
    /\ recorded' = recorded + 1
    /\ Exit(0)
    /\ UNCHANGED <<tree, git, stored, milestones, runs>>

\* An await throws before it had an effect: the command ends, nothing is undone.
AwaitFails ==
    /\ pc \notin {"idle", "wire", "model_edits", "checks"}
    /\ Exit(1)
    /\ UNCHANGED <<tree, git, backend, runs>>

\* ... or a request had its effect and its answer is lost.
AnswerLost ==
    /\ pc \in {"put_seam_map", "record_run"}
    /\ stored' = IF pc = "put_seam_map" THEN run.seams ELSE stored
    /\ recorded' = IF pc = "record_run" THEN recorded + 1 ELSE recorded
    /\ Exit(1)
    /\ UNCHANGED <<tree, git, milestones, runs>>

\* A file cannot be written: those before it are.
WireFails ==
    /\ pc = "wire"
    /\ LET edits == Wiring(files, run.seams)
       IN  \E written \in SUBSET EditedFiles(edits) \ {EditedFiles(edits)} :
              files' = EditFiles(files, edits, written)
    /\ Exit(1)
    /\ UNCHANGED <<generated, git, backend, runs>>

\* Between two runs the developer adds a line at the top of a file of the clean checkout,
\* or throws all changes away (git checkout . && git clean).
DeveloperEdits ==
    /\ pc = "idle" /\ files = Repo /\ generated = <<>>
    /\ \E f \in DOMAIN Repo : files' = [files EXCEPT ![f] = <<{}>> \o @]
    /\ UNCHANGED <<generated, git, backend, runs, pc, run>>
DeveloperResets ==
    /\ pc = "idle" /\ files # Repo /\ commits = {}
    /\ files' = Repo /\ generated' = <<>>
    /\ UNCHANGED <<git, backend, runs, pc, run>>

Next ==
    \/ StartInstrument \/ StartOnboard \/ GetSeamMap \/ FetchRegistry \/ ReviewPlan
    \/ PutSeamMap \/ PlanProposed \/ WriteGenerated \/ Wire \/ ModelEdits \/ ChecksPass
    \/ VerificationFails \/ Checkout \/ Commit \/ RecordRun \/ AwaitFails \/ AnswerLost
    \/ WireFails \/ DeveloperEdits \/ DeveloperResets

Spec == Init /\ [][Next]_vars
-----------------------------------------------------------------------------
(* Where emissions are.  The lines that are not the agent's are the host's. *)
Inserted == {{"import", "analytics"}, {"emission"}, {"proposed"}}
Between(lines, i, j) == {k \in (i + 1)..(j - 1) : lines[k] \notin Inserted}

\* An emission is run by the tasks of a function if it is in its body, before the body is left.
EmitsFor(lines, i) ==
    {j \in i..Len(lines) :
        /\ "emission" \in lines[j] /\ \A k \in (i + 1)..j : "function" \notin lines[k]
        /\ \A k \in i..(j - 1) : lines[k] \cap {"leaves", "outside"} = {}}
\* A file that imported `analytics` before any run gets a function's emission right below it;
\* any other at most one of the host's lines further down.
PlacedFor(f, lines, i, j) ==
    /\ i < j
    /\ Imported(Repo[f]) => Between(lines, i, j) = {}
    /\ \A k, m \in Between(lines, i, j) : k = m
\* That is in its body, but for a function whose own line has no body below it, and, where
\* the import is inserted, for one whose first line leaves or ends it.
HasRoom(f, lines, i) ==
    /\ lines[i] \cap {"leaves", "outside"} = {}
    /\ \/ Imported(Repo[f])
       \/ \A k \in (i + 1)..Len(lines) :
             Between(lines, i, k) = {} => lines[k] \cap {"function", "leaves", "outside"} = {}

\* Every function to be wired has its emission where PlacedFor says, and if it has the room
\* every task of it emits, once if the host type checks; no emission is anywhere else.
WiredOnce(fs) ==
    /\ \A s \in ToWire(fs, Scan(fs)) :
          LET emits == EmitsFor(fs[s.file], s.line)
          IN  /\ \E j \in DOMAIN fs[s.file] :
                    "emission" \in fs[s.file][j] /\ PlacedFor(s.file, fs[s.file], s.line, j)
              /\ HasRoom(s.file, fs[s.file], s.line) => emits # {}
              /\ "typecheck" \in Scripts => \A i, j \in emits : i = j
    /\ \A f \in DOMAIN fs : \A j \in DOMAIN fs[f] :
          "emission" \in fs[f][j]
          => \E s \in ToWire(fs, Scan(fs)) : s.file = f /\ PlacedFor(f, fs[f], s.line, j)

\* The agent writes code only in an approved run; what it commits is the tree its checks
\* passed on, with the generated files; a run is recorded once, for a commit that exists, and
\* a run that says it is done was; the onboarding milestone of a plan means that the backend
\* has the seam map the plan came from.
RunsAreHonest ==
    /\ pc \in {"write_generated", "wire", "model_edits", "checks", "checkout", "commit",
               "record_run"} => run.approve
    /\ \A c \in commits : DOMAIN c[2] # {}
    /\ pc = "record_run" => commits = {run.checked}
    /\ recorded = 0 \/ (recorded = 1 /\ commits # {})
    /\ pc = "idle" /\ run.mode # "none" /\ run.code = 0 => recorded = 1
    /\ "plan_proposed" \in milestones => stored # NoMap

\* In what is committed every function that the implementer takes for a task is wired.
InstrumentationSafe == RunsAreHonest /\ \A c \in commits : WiredOnce(c[1])
=============================================================================
