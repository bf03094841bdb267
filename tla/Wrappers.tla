------------------------------ MODULE Wrappers ------------------------------
(***************************************************************************)
(* The SDK's wrappers around a host's LLM clients (sdk/src/wrappers.ts).    *)
(* Wrapping a client replaces its method in place, so that a client wrapped *)
(* twice passes every call through two layers; wrapping a function returns  *)
(* another function.  The layers of a call resume one microtask after the   *)
(* other, between those of other calls.                                     *)
(*                                                                         *)
(* Emitting goes through the SDK client, which drops an event when it is    *)
(* disabled or dev validation fails, and calls the host's onWarn.           *)
(***************************************************************************)
EXTENDS Integers, Sequences

CONSTANTS
    Contexts,     \* task contexts
    Calls,        \* calls: records [id, via], where via is "client" or a context
    RunIds,       \* LLM runs of a LangChain handler
    MaxWraps,     \* bound: times the client is wrapped
    MaxSteps      \* bound: steps queued before a handler's callback

\* Steps tell whose they are.
DistinctCalls ==
    /\ \A c, d \in Calls : c.id = d.id => c = d
    /\ \A c \in Calls : c.id \notin RunIds

VARIABLES
    disabled,     \* TOQAR_ANALYTICS_DISABLED
    warnThrows,   \* whether the host's onWarn may throw
    layers,       \* contexts around the client's method, the innermost first
    call,         \* per call: the layers it is under and still to resume, what the
                  \* provider answered, and what the next layer sees
    steps,        \* step_executed events that reached the client's queue
    starts        \* runs the LangChain handler has seen start

vars == <<disabled, warnThrows, layers, call, steps, starts>>

\* What becomes of an emit: queued or dropped, and whether onWarn throws through it.
Emits ==
    [queued : IF disabled THEN {FALSE} ELSE BOOLEAN,
     throws : IF warnThrows /\ ~disabled THEN BOOLEAN ELSE {FALSE}]
EmitLlmStep(queue, by, ctx, status, emit) ==
    IF emit.queued THEN Append(queue, [by |-> by, ctx |-> ctx, status |-> status]) ELSE queue
-----------------------------------------------------------------------------
Idle == [at |-> "idle", under |-> <<>>, resume |-> <<>>, answer |-> "none", sees |-> "none"]
Init ==
    /\ disabled \in BOOLEAN /\ warnThrows \in BOOLEAN
    /\ layers = <<>> /\ call = [c \in Calls |-> Idle]
    /\ steps = <<>> /\ starts = {}

\* wrapAnthropic, wrapOpenAI.
WrapClient(ctx) ==
    /\ Len(layers) < MaxWraps
    /\ layers' = Append(layers, ctx)
    /\ UNCHANGED <<disabled, warnThrows, call, steps, starts>>

\* The host calls the client's method, or a function that wrapVercelAI returned.
CallModel(c) ==
    /\ call[c].at = "idle"
    /\ LET under == IF c.via = "client" THEN layers ELSE <<c.via>>
       IN  call' = [call EXCEPT ![c] = [Idle EXCEPT !.at = "waits", !.under = under, !.resume = under]]
    /\ UNCHANGED <<disabled, warnThrows, layers, steps, starts>>
ModelAnswers(c) ==
    /\ call[c].at = "waits"
    /\ \E answer \in {"ok", "error"} :
        call' = [call EXCEPT ![c].at = "resumes", ![c].answer = answer, ![c].sees = answer]
    /\ UNCHANGED <<disabled, warnThrows, layers, steps, starts>>

\* The innermost layer left resumes.  Its emit is inside the try: one that throws after a
\* success is caught as if the call had failed, and emits again.
WrapCall(c) ==
    /\ call[c].at = "resumes" /\ call[c].resume # <<>>
    /\ \E emit, again \in Emits :
        LET ctx == call[c].resume[1]
            sees == call[c].sees
            first == EmitLlmStep(steps, c.id, ctx, sees, emit)
        IN  /\ call' = [call EXCEPT ![c].resume = Tail(@), ![c].sees = IF emit.throws THEN "threw" ELSE @]
            /\ steps' = IF sees = "ok" /\ emit.throws
                        THEN EmitLlmStep(first, c.id, ctx, "threw", again) ELSE first
    /\ UNCHANGED <<disabled, warnThrows, layers, starts>>
-----------------------------------------------------------------------------
(* The LangChain handler: one context, callbacks in any order.              *)

HandleLLMStart(r) ==
    /\ starts' = starts \cup {r}
    /\ UNCHANGED <<disabled, warnThrows, layers, call, steps>>
HandleLLMEnd(r) ==
    /\ Len(steps) < MaxSteps
    /\ starts' = starts \ {r}
    /\ \E emit \in Emits : steps' = EmitLlmStep(steps, r, "handler", "ok", emit)
    /\ UNCHANGED <<disabled, warnThrows, layers, call>>
HandleLLMError(r) ==
    /\ Len(steps) < MaxSteps
    /\ starts' = starts \ {r}
    /\ \E emit \in Emits : steps' = EmitLlmStep(steps, r, "handler", "error", emit)
    /\ UNCHANGED <<disabled, warnThrows, layers, call>>

Next ==
    \/ \E ctx \in Contexts : WrapClient(ctx)
    \/ \E c \in Calls : CallModel(c) \/ ModelAnswers(c) \/ WrapCall(c)
    \/ \E r \in RunIds : HandleLLMStart(r) \/ HandleLLMEnd(r) \/ HandleLLMError(r)
Spec == Init /\ [][Next]_vars
-----------------------------------------------------------------------------
Mine(c) == {i \in DOMAIN steps : steps[i].by = c.id}
Resumed(c) == Len(call[c].under) - Len(call[c].resume)
\* A wrapper never alters a call: the host gets what the provider answered unless its own
\* onWarn threw, and never success for a failure.
CallsUnaltered ==
    \A c \in Calls : call[c].at = "resumes" =>
        /\ call[c].sees = "ok" => call[c].answer = "ok"
        /\ ~warnThrows => call[c].sees = call[c].answer
\* A call's steps are of the layers that resumed, those around the client when it was made,
\* the inner ones first and each at most once, and tell its outcome - unless onWarn threw,
\* when a success may be followed by a step that denies it; a disabled client emits none.
StepsTellCalls ==
    \A c \in Calls :
        /\ disabled => Mine(c) = {}
        /\ \E layer \in [Mine(c) -> 1..Resumed(c)] :
            /\ \A i \in Mine(c) :
                /\ steps[i].ctx = call[c].under[layer[i]]
                /\ steps[i].status = "ok" => call[c].answer = "ok"
                /\ ~warnThrows => steps[i].status = call[c].answer
            /\ \A i, j \in Mine(c) : i < j =>
                /\ layer[i] <= layer[j]
                /\ layer[i] = layer[j] =>
                    warnThrows /\ steps[i].status = "ok" /\ steps[j].status = "threw"
WrappersFaithful == CallsUnaltered /\ StepsTellCalls
=============================================================================
