----------------------------- MODULE Collection ------------------------------
(***************************************************************************)
(* How events come in: the wrappers that report an application's model     *)
(* calls (Wrappers), and what the collector takes, up to the rows of it    *)
(* (Ingest).  They share no state: a deployment is the conjunction of their*)
(* specifications.                                                         *)
(***************************************************************************)

CONSTANTS
    Contexts, Calls, RunIds, MaxWraps, MaxSteps,             \* of Wrappers
    Bodies, Traces, IngestSettings, CardNumbers, MaxPosts    \* of Ingest

VARIABLES
    wr_disabled, wr_warnThrows, wr_layers, wr_call, wr_steps, wr_starts,
    ing_topic, ing_rows, ing_letters, ing_rejections, ing_answers, ing_posts

Wr == INSTANCE Wrappers WITH disabled <- wr_disabled, warnThrows <- wr_warnThrows, layers <-
    wr_layers, call <- wr_call, steps <- wr_steps, starts <- wr_starts
Ing == INSTANCE Ingest WITH topic <- ing_topic, rows <- ing_rows, letters <- ing_letters,
    rejections <- ing_rejections, answers <- ing_answers, posts <- ing_posts

wr_vars == <<wr_disabled, wr_warnThrows, wr_layers, wr_call, wr_steps, wr_starts>>
ing_vars == <<ing_topic, ing_rows, ing_letters, ing_rejections, ing_answers, ing_posts>>

\* What calls and requests must be like for these promises.
ASSUME WrappersAssumption == Wr!DistinctCalls
ASSUME IngestAssumption == Ing!KnownRequests
-----------------------------------------------------------------------------
\* What reaches the table is what the tenant's token and settings allow, nothing that was
\* acknowledged is unaccounted for; a wrapped model call is told as it was and stays as it was
\* (app.ts, otel.ts, redact.ts, transform.ts, wrappers.ts).
IngestRight == Ing!IngestRight /\ Wr!WrappersFaithful
=============================================================================
