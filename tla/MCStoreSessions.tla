--------------------------- MODULE MCStoreSessions ---------------------------
(* A small instance of StoreSessions: per area, the rows it starts from and  *)
(* the requests made of it.                                                  *)
EXTENDS StoreSessions, TLC

\* Ids that were drawn before; those of new rows are the callers' numbers.
root == 10
old == 11
ingest == 12
other == 13
op == 20
e == 30
T(scope) == [t |-> "t1", scope |-> scope, revoked |-> FALSE]
Tenant0 == [retention |-> "365", redaction |-> "on", residency |-> "us"]
Base ==
    (Settings("t1") :> Tenant0)
    @@ (Token(root) :> T("api:full"))
    @@ (OperatorToken(op) :> [revoked |-> FALSE])
A(route, id, v) == Call(route, root, id, v)

KeyCalls ==
    <<A("putSeamMap", "repo", "m1"), A("putSeamMap", "repo", "m2"), A("getSeamMap", "repo", ""),
     A("cryptoShredTenant", "", "")>>
TokenCalls ==
    <<A("issueToken", "", "events:write"), Call("issueToken", old, "", "api:full"),
     A("revokeToken", old, ""), Call("revokeToken", old, root, ""),
     Call("revokeToken", other, old, ""),
     Call("getBilling", old, "", ""), Call("getBilling", 1, "", ""),
     Call("getBilling", ingest, "", ""), Call("getBilling", op, "", ""),
     A("listTokens", "", "")>>
OperatorCalls ==
    <<Call("listTenants", op, "", ""), Call("tenantSnapshot", op, "t1", ""),
     Call("tenantSnapshot", op, "t9", ""), Call("rollups", op, "", ""),
     Call("rollups", root, "", ""), A("revokeOperatorToken", op, ""),
     A("createOperatorToken", "", ""), Call("rollups", 1, "", ""),
     A("requestErasure", "", ""), A("completeErasure", 1, ""), A("listErasures", "", ""),
     A("createTenant", "", ""), A("setBilling", "", "growth")>>
ExperimentCalls ==
    <<A("createExperiment", "", ""), A("updateExperiment", e, "stopped"),
     A("updateExperiment", e, "concluded"), A("updateExperiment", 9, "stopped"),
     A("writeVerdict", e, "ship"), A("writeVerdict", e, "revert"), A("getExperiment", e, ""),
     A("listExperiments", "", "")>>
WorkCalls ==
    <<A("recordInstrumentRun", "", ""), A("updateRunOutcome", e, "merged"),
     A("updateRunOutcome", e, "rejected"), A("listInstrumentRuns", "", ""),
     A("publishFinding", "", "cited"), A("publishFinding", "", "uncited"),
     A("recordDelivery", e, "delivered"), A("recordDelivery", 1, "failed"),
     A("getFinding", e, ""), A("listFindings", "", ""),
     A("listFindingRejections", "", "")>>
SettingCalls ==
    <<A("setResidency", "", "eu"), A("setRedactionOptout", "", "off"),
     A("setRedactionOptout", "", "on"), A("setRetentionDays", "", "30"),
     A("setRetentionDays", "", "90"), A("setRolloutPolicy", "", "p1"),
     A("setRolloutPolicy", "", "p2"), A("getIngestSettings", "", ""),
     A("getRolloutPolicy", "", ""),
     A("listAudit", "", ""), A("grantAutonomy", "", "level_3"), A("getAutonomy", "", "")>>
PlanCalls ==
    <<A("recordMilestone", "connected", "t0"), A("recordMilestone", "first_event", "t1"),
     A("recordMilestone", "plan_approved", "t2"), A("getOnboarding", "", "")>>
BillingCalls ==
    <<A("setBilling", "", "growth"), A("setBilling", "", "free"), A("getBilling", "", ""),
     A("setBenchmarkOptin", "", "yes"), A("setBenchmarkOptin", "", "no"),
     A("benchmarkResult", "", ""), A("recordInvoice", "", "100"), A("listInvoices", "", "")>>
EvalCalls ==
    <<A("addCase", e, "c"), A("addCase", 9, "c"), A("getDataset", e, ""),
     A("createDataset", "", ""), A("recordScore", "", "judge"),
     A("listScores", "", "judge"),
     A("createAlert", "", "threshold"), A("listAlerts", "", ""), A("recordEvaluation", e, "fired"),
     A("listAlertEvents", e, "")>>

OptedInBefore(t, id) ==
    (Optin(t) :> [opted_in |-> "yes"])
    @@ (<<"audit_log", t, id>> :> [operation |-> "benchmark", event |-> "optin", after |-> "yes"])

Area(rows, calls) ==
    [rows |-> rows @@ Base, calls |-> calls, callers |-> 2, kek |-> {TRUE}]
MCAreas ==
    [keys |-> [Area(NoRows, KeyCalls) EXCEPT !.kek = BOOLEAN, !.callers = 3],
     tokens |-> Area((Token(old) :> T("api:full")) @@ (Token(ingest) :> T("events:write"))
                     @@ (Settings("t9") :> Tenant0)
                     @@ (Token(other) :> [T("api:full") EXCEPT !.t = "t9"]), TokenCalls),
     operator |-> Area(NoRows, OperatorCalls),
     experiments |-> Area(<<"experiments", "t1", e>> :> [status |-> "running"],
                          ExperimentCalls),
     work |-> Area((<<"instrument_runs", "t1", e>> :> [outcome |-> "delivered"])
                   @@ (<<"findings", "t1", e>> :> [finding |-> "cited"]), WorkCalls),
     settings |-> Area(NoRows, SettingCalls),
     onboarding |-> Area(NoRows, PlanCalls),
     billing |-> Area((Settings("t9") :> Tenant0)
                      @@ (Account("t1") :> [tier |-> "growth"])
                      @@ OptedInBefore("t1", 0) @@ OptedInBefore("t9", -1), BillingCalls),
     evals |-> Area((Dataset("t1", e) :> [version |-> 1])
                    @@ (<<"alerts", "t1", e>> :> [kind |-> "threshold"]), EvalCalls)]
=============================================================================
