------------------------------- MODULE Agents --------------------------------
(***************************************************************************)
(* The agents: the one that writes code, with the commands that run it     *)
(* (Instrumentation), and those that read and state metrics, deliver them  *)
(* and run experiments (AgentLoop).  They share no state: a deployment is  *)
(* the conjunction of their specifications.                                *)
(***************************************************************************)

CONSTANTS
    Repo, Frameworks, Scripts, Registered, Proposals, MaxRuns,   \* of Instrumentation
    Jobs, Readings, NoData, Levels, Together                     \* of AgentLoop

VARIABLES
    ins_files, ins_generated, ins_branch, ins_commits, ins_stored, ins_milestones,
    ins_recorded, ins_runs, ins_pc, ins_run,
    ag_run, ag_executed, ag_findings, ag_answers, ag_posted, ag_deliveries, ag_level,
    ag_experiment

Ins == INSTANCE Instrumentation WITH files <- ins_files, generated <- ins_generated, branch <-
    ins_branch, commits <- ins_commits, stored <- ins_stored, milestones <- ins_milestones,
    recorded <- ins_recorded, runs <- ins_runs, pc <- ins_pc, run <- ins_run
Ag == INSTANCE AgentLoop WITH run <- ag_run, executed <- ag_executed, findings <- ag_findings,
    answers <- ag_answers, posted <- ag_posted, deliveries <- ag_deliveries, level <- ag_level,
    experiment <- ag_experiment

ins_vars == <<ins_files, ins_generated, ins_branch, ins_commits, ins_stored, ins_milestones,
    ins_recorded, ins_runs, ins_pc, ins_run>>
ag_vars == <<ag_run, ag_executed, ag_findings, ag_answers, ag_posted, ag_deliveries, ag_level,
    ag_experiment>>

\* What repositories and jobs must be like for the agents to keep their promises.
ASSUME InstrumentationAssumption == Ins!KnownRepo
ASSUME AgentsAssumption == Ag!KnownJobs
-----------------------------------------------------------------------------
\* Re-run commands, failed calls and developers' edits leave no delivery that was not
\* verified; what agents state is cited, delivered as recorded and decided by a verdict
\* (instrumentation-agent, cli, analysis-agent, experiment-agent).
AgentsSafe == Ins!InstrumentationSafe /\ Ag!AgentLoopSafe
=============================================================================
