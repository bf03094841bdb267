------------------------------- MODULE Figures -------------------------------
(***************************************************************************)
(* The figures: what is computed from the rows of toqar.events, by several  *)
(* packages (Analytics), and from daily series and samples (Statistics).    *)
(* part says which of them, or of the parts of a deployment, is looked at.  *)
(***************************************************************************)

CONSTANTS
    Rows, Included, Limits, MaxRepeats,  \* of Analytics
    Values, Gap, MaxDays, Radius    \* of Statistics

VARIABLES
    part,
    an_table, an_rolled,
    st_series

An == INSTANCE Analytics WITH table <- an_table, rolled <- an_rolled
St == INSTANCE Statistics WITH series <- st_series

an_vars == <<an_table, an_rolled>>
st_vars == <<st_series>>

\* What the table's columns and the tiers must be like.
ASSUME RowsAssumption == An!KnownRows
-----------------------------------------------------------------------------
\* Numbers that different packages compute of the same rows agree
\* (semantic.ts, runs.ts, clusters.ts, flags.ts, billing.ts, suite.ts).
AnalyticsRight == part = "analytics" => An!AnalyticsRight
\* Verdicts over a series depend on nothing but the values they are about
\* (primitives.ts, benchmark.ts, sequential.ts, alerts.ts).
StatisticsRight == part = "statistics" => St!StatisticsRight
=============================================================================
