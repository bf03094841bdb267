------------------------------- MODULE Ingest --------------------------------
(***************************************************************************)
(* What happens to an event between a request and a row: the collector's    *)
(* routes validate, enrich, redact and publish (collector/src/app.ts,       *)
(* redact.ts, registry/src/events.ts), spans become events (otel.ts) and    *)
(* the consumer maps messages to rows (pipeline/src/transform.ts).          *)
(*                                                                         *)
(* A sent event names its properties: valid ones, invalid ones, and the     *)
(* texts among them, by the last key of their path; a text is a sequence of *)
(* tokens, a token the recognizers whose pattern it matches and its digits. *)
(***************************************************************************)
EXTENDS Integers, Sequences, SequencesExt

CONSTANTS
    Bodies,       \* bodies of POST /v1/events: sequences of sent events
    Traces,       \* bodies of POST /v1/traces: [resource, spans], attributes and spans of one
    IngestSettings, \* the tenants' settings: [tenant, retention_days, redact, residency]
    CardNumbers,  \* numbers that are card numbers, as sequences of digits
    MaxPosts      \* bound on the requests

(* The event schemas: properties required, and properties allowed besides. *)
EnvelopeRequired ==
    {"event_id", "schema_version", "timestamp", "task_id", "run_id", "task_type", "agent"}
EnvelopeFields == EnvelopeRequired \cup {"event", "session_id"}
Required ==
    [task_started |-> {"initiator"},
     task_completed |-> {"verification", "duration_ms", "steps_total"},
     task_failed |-> {"error", "retryable", "duration_ms"},
     task_abandoned |-> {"abandoned_by", "duration_ms"},
     step_executed |-> {"step_id", "step_index", "step_type", "latency_ms", "status"},
     handoff_to_human |-> {"handoff_id", "reason", "blocking"},
     human_approved |-> {"handoff_id", "response_latency_ms"},
     human_edited |-> {"artifact_type"},
     human_overrode |-> {},
     feedback_given |-> {"rating", "source"}]
TOQAR_EVENT_NAMES == DOMAIN Required
Optional ==
    [task_started |-> {"parent_task_id", "input_ref"},
     task_completed |-> {"verifier", "tokens_in_total", "tokens_out_total", "cost_usd", "output_ref"},
     task_failed |-> {"failed_step_id"},
     task_abandoned |-> {"reason"},
     step_executed |-> {"tool_name", "model", "tokens_in", "tokens_out", "error", "retry_of_step_id"},
     handoff_to_human |-> {"context_ref"},
     human_approved |-> {},
     human_edited |-> {"handoff_id", "edit_magnitude"},
     human_overrode |-> {"handoff_id", "takeover_step_id", "reason"},
     feedback_given |-> {"comment_ref"}]
Known(e) == EnvelopeFields \cup Required[e] \cup Optional[e]

\* A core event has exactly the properties of its schema, the rest is stripped; a product
\* event must have the envelope and a snake_case name, and keeps what else it has.
Schema(v) ==
    IF v.event \in TOQAR_EVENT_NAMES
    THEN [needs |-> EnvelopeRequired \cup Required[v.event], looksAt |-> Known(v.event),
          keeps |-> Known(v.event) \cap v.valid]
    ELSE [needs |-> EnvelopeRequired, looksAt |-> EnvelopeFields, keeps |-> v.valid \cup v.invalid]
Issues(v) == (Schema(v).needs \ v.valid) \cup (Schema(v).looksAt \cap v.invalid)
Parses(v) == Issues(v) = {}
ReasonClass(v) == IF "event" \in Issues(v) THEN "invalid_event_name" ELSE "schema_validation"
-----------------------------------------------------------------------------
(* Redaction.                                                              *)

SECRET_RECOGNIZERS ==
    <<"aws_access_key", "github_token", "anthropic_key", "openai_key", "slack_token",
      "private_key_block", "bearer_token">>
PII_RECOGNIZERS == <<"email", "ssn", "credit_card", "phone", "ipv4">>
Recognizers == SECRET_RECOGNIZERS \o PII_RECOGNIZERS
STRUCTURAL_KEYS ==
    {"event", "event_id", "schema_version", "timestamp", "task_id", "run_id", "session_id",
     "task_type", "tenant_id", "step_id", "step_index", "step_type", "handoff_id",
     "tool_name", "model", "status", "verification", "initiator", "retry_of_step_id",
     "channel", "source", "kind", "unit", "abandoned_by", "reason", "blocking", "retryable",
     "verifier", "name", "version"}

\* The check digits of a card number, from the right: every second one doubled.
Luhn(digits) ==
    LET n == Len(digits)
        Weight(i) == LET d == digits[i] * (IF (n - i) % 2 = 1 THEN 2 ELSE 1)
                     IN  IF d > 9 THEN d - 9 ELSE d
    IN  /\ n \in 13..19
        /\ FoldLeft(LAMBDA sum, i : sum + Weight(i), 0, [i \in 1..n |-> i]) % 10 = 0

\* The first recognizer of the list that matches, and verifies, replaces the token; no
\* recognizer matches a placeholder.
Matches(t) == {k \in t.matches : k = "credit_card" => Luhn(t.digits)}
RedactToken(t) ==
    IF Matches(t) = {} THEN t
    ELSE [matches |-> {}, digits |-> <<>>,
          shows |-> SelectSeq(Recognizers, LAMBDA k : k \in Matches(t))[1]]
RedactText(text) == [i \in DOMAIN text |-> RedactToken(text[i])]

\* Keys count wherever they are in the event, and an array's items have its key.
RedactEvent(m) ==
    [m EXCEPT !.texts = [k \in DOMAIN @ |->
        IF k \in STRUCTURAL_KEYS THEN @[k] ELSE RedactText(@[k])]]
-----------------------------------------------------------------------------
(* Spans.  A span: [trace, id, root, name, attrs, texts], attrs a function   *)
(* of the attributes that have a string or number value, texts those of the *)
(* rest.                                                                    *)

\* `??` takes an attribute that is there, though it be empty, and any name.
Attr(attrs, k, otherwise) == IF k \in DOMAIN attrs THEN attrs[k] ELSE otherwise
TaskType(t, x) ==
    LET roots == SelectSeq(t.spans, LAMBDA y : y.root)
    IN  Attr(x.attrs, "task_type",
             Attr(t.resource, "task_type",
                  IF roots = <<>> THEN x.name
                  ELSE Attr(roots[1].attrs, "task_type", roots[1].name)))
\* The spans of a request with the envelope of the events they become.
InContext(t) ==
    [i \in DOMAIN t.spans |->
        LET x == t.spans[i]
        IN  [trace |-> x.trace, id |-> x.id, root |-> x.root, attrs |-> x.attrs, texts |-> x.texts,
             envelope |-> [task_id |-> Attr(x.attrs, "task_id", x.trace),
                           run_id |-> Attr(x.attrs, "run_id", x.trace),
                           task_type |-> TaskType(t, x),
                           agent |-> Attr(t.resource, "service_name", "unknown-agent")]]]
Empty(x) == {k \in DOMAIN x.envelope : x.envelope[k] = ""}

Outcomes == [completed |-> "task_completed", failed |-> "task_failed",
             abandoned |-> "task_abandoned"]
Has(s, k) == k \in DOMAIN s.attrs
IsLlm(s) == Has(s, "model") \/ (Has(s, "operation") /\ s.attrs["operation"] = "chat")
IsStep(s) ==
    IsLlm(s) \/ Has(s, "tool_name")
    \/ (Has(s, "operation") /\ s.attrs["operation"] = "execute_tool")
IsOutcome(s) == ~IsStep(s) /\ s.root /\ Has(s, "outcome") /\ s.attrs["outcome"] \in DOMAIN Outcomes

\* Ids are hashes of trace, span and event name, so that a retried export has the same ones.
SpanEvent(s, name, fields) ==
    [event |-> name, id |-> <<s.trace, s.id, name>>,
     empty |-> Empty(s), fields |-> EnvelopeRequired \cup fields,
     texts |-> s.texts]
StepFields(s) ==
    Required["step_executed"]
    \cup ({"tool_name", "model", "tokens_in", "tokens_out"} \cap DOMAIN s.attrs)

MapSpan(s) ==
    IF IsStep(s) THEN <<SpanEvent(s, "step_executed", StepFields(s))>>
    ELSE IF IsOutcome(s)
         THEN LET name == Outcomes[s.attrs["outcome"]]
              IN  <<SpanEvent(s, "task_started", {"initiator"}),
                    SpanEvent(s, name, Required[name])>>
    ELSE <<>>
-----------------------------------------------------------------------------
\* What senders and settings are like: a retry sends what was sent before, and texts come
\* as they are; the settings are those the registry lets through.
SentEvents == UNION {{body[i] : i \in DOMAIN body} : body \in Bodies}
SentSpans == UNION {{InContext(t)[i] : i \in DOMAIN t.spans} : t \in Traces}
Plain(texts) ==
    \A k \in DOMAIN texts : \A i \in DOMAIN texts[k] :
        /\ texts[k][i].shows = "text"
        /\ texts[k][i].digits \in CardNumbers => "credit_card" \in texts[k][i].matches
KnownRequests ==
    /\ \A body \in Bodies : body \in Seq(SentEvents)
    /\ \A t \in Traces : InContext(t) \in Seq(SentSpans)
    /\ \A v \in SentEvents : Len(v.id) = 1 /\ v.id # "" /\ Plain(v.texts)
    /\ \A v, w \in SentEvents : v.id = w.id => v = w
    /\ \A x \in SentSpans : Plain(x.texts)
    /\ \A x, y \in SentSpans : x.trace = y.trace /\ x.id = y.id => x = y
    /\ \A s \in IngestSettings : s.tenant # ""
    /\ \A s \in IngestSettings : s.retention_days \in 1..3650
    /\ \A s, q \in IngestSettings : s.tenant = q.tenant => s = q
    /\ \A digits \in CardNumbers : digits # <<>> /\ Luhn(digits)
-----------------------------------------------------------------------------
VARIABLES
    topic,        \* messages published and not consumed yet
    rows,         \* rows of toqar.events
    letters,      \* messages the consumer could not map
    rejections,   \* rejections counted, per reason class
    answers,      \* [body, accepted, rejected] of every answer 202 so far
    posts         \* number of requests

vars == <<topic, rows, letters, rejections, answers, posts>>

Classes == {"invalid_event_name", "schema_validation", "unmapped_span"}
Init ==
    /\ topic = <<>> /\ rows = {} /\ letters = {} /\ posts = 0 /\ answers = <<>>
    /\ rejections = [c \in Classes |-> 0]

\* What the token says of an event: its tenant, and the tenant's settings.
Stamp(m, tenant, s) ==
    [event |-> m.event, id |-> m.id, empty |-> m.empty, fields |-> m.fields,
     texts |-> m.texts, tenant |-> tenant, retention_days |-> s.retention_days,
     residency |-> s.residency]

\* Mutant: what the sender says goes before what the token says.
Enrich_SenderFirst(m, s) == Stamp(m, IF "tenant_id" \in m.fields THEN "sender's" ELSE s.tenant, s)

\* The token's tenant and its settings win over what the sender put there.
Enrich(m, s) == Stamp(m, s.tenant, s)
Prepare(m, s) == IF s.redact THEN RedactEvent(Enrich(m, s)) ELSE Enrich(m, s)

\* The schemas let no empty text of the envelope through.
Message(v) ==
    [event |-> v.event, id |-> v.id, empty |-> {}, fields |-> Schema(v).keeps,
     texts |-> [k \in {key \in DOMAIN v.texts : v.under[key] \in Schema(v).keeps} |-> v.texts[k]]]

\* What becomes of one thing sent: the events to publish; the class it is counted in if there
\* are none.
TakeEvent(v, s) ==
    [events |-> IF Parses(v) THEN <<Prepare(Message(v), s)>> ELSE <<>>, class |-> ReasonClass(v)]
TakeSpan(x, s) ==
    [events |-> [i \in DOMAIN MapSpan(x) |-> Prepare(MapSpan(x)[i], s)],
     class |-> "unmapped_span"]

\* The loop over a request's body.
Nothing == [accepted |-> <<>>, rejected |-> [c \in Classes |-> 0]]
Take(done, one) ==
    IF one.events = <<>> THEN [done EXCEPT !.rejected[one.class] = @ + 1]
    ELSE [done EXCEPT !.accepted = @ \o one.events]
Intake(taken) ==
    LET After[n \in 0..Len(taken)] == IF n = 0 THEN Nothing ELSE Take(After[n - 1], taken[n])
    IN  After[Len(taken)]
Total(counts) ==
    counts["invalid_event_name"] + counts["schema_validation"] + counts["unmapped_span"]

\* The rejections of a request are counted before the buffer refuses its events; a refused
\* request is answered 503 and publishes nothing.
Answer(taken) ==
    LET done == Intake(taken)
    IN  /\ rejections' = [c \in Classes |-> rejections[c] + done.rejected[c]]
        /\ \/ /\ topic' = topic \o done.accepted
              /\ answers' = Append(answers, [sent |-> Len(taken), accepted |-> Len(done.accepted),
                                             rejected |-> Total(done.rejected)])
           \/ UNCHANGED <<topic, answers>>

PostEvents ==
    /\ posts < MaxPosts
    /\ posts' = posts + 1
    /\ \E body \in Bodies, s \in IngestSettings :
          Answer([i \in DOMAIN body |-> TakeEvent(body[i], s)])
    /\ UNCHANGED <<rows, letters>>

PostTraces ==
    /\ posts < MaxPosts
    /\ posts' = posts + 1
    /\ \E t \in Traces, s \in IngestSettings :
          Answer([i \in DOMAIN t.spans |-> TakeSpan(InContext(t)[i], s)])
    /\ UNCHANGED <<rows, letters>>

\* Columns a metric reads; a value of another type becomes '' or 0.
COLUMNS ==
    {"session_id", "tool_name", "model", "status", "verification", "initiator",
     "retry_of_step_id", "tokens_in", "tokens_out", "latency_ms", "cost_usd", "rating",
     "edit_magnitude", "response_latency_ms"}
RetentionDays(d) == IF d < 1 THEN 1 ELSE IF d > 3650 THEN 3650 ELSE d
Maps(m) ==
    /\ m.tenant # "" /\ m.empty = {}
    /\ EnvelopeRequired \subseteq m.fields \cup {"schema_version"}
ToRow(m) ==
    [id |-> m.id, event |-> m.event, tenant |-> m.tenant, columns |-> m.fields \cap COLUMNS,
     retention_days |-> RetentionDays(m.retention_days), payload |-> m.texts]

Consume ==
    /\ topic # <<>>
    /\ topic' = Tail(topic)
    /\ IF Maps(topic[1])
       THEN rows' = rows \cup {ToRow(topic[1])} /\ UNCHANGED letters
       ELSE letters' = letters \cup {topic[1]} /\ UNCHANGED rows
    /\ UNCHANGED <<rejections, answers, posts>>

Next == PostEvents \/ PostTraces \/ Consume
Spec == Init /\ [][Next]_vars
-----------------------------------------------------------------------------
Settings(tenant) == {s \in IngestSettings : s.tenant = tenant}
Tokens(text) == {text[i] : i \in DOMAIN text}

\* What a tenant sends is stored under that tenant and its retention; all that matches a
\* recognizer is replaced unless the tenant opted out, but in the keys analytics reads.
StoredAsAgreed ==
    \A r \in rows : \E s \in Settings(r.tenant) :
        /\ r.retention_days = s.retention_days
        /\ \A k \in DOMAIN r.payload : \A t \in Tokens(r.payload[k]) :
              IF k \in STRUCTURAL_KEYS \/ ~s.redact THEN t.shows = "text"
              ELSE /\ t.matches \subseteq {"credit_card"} /\ t.digits \notin CardNumbers
                   /\ t.shows \in ToSet(SECRET_RECOGNIZERS) => t.matches = {}

\* The consumer can map every event the collector accepted, except those of a span whose task,
\* run, task type or agent name is an empty text, which no schema has seen.
AcceptedIsMappable ==
    \A m \in letters : \E x \in SentSpans :
        Empty(x) # {} /\ m.id = <<x.trace, x.id, m.event>>

\* A request answered 202 says of each thing it was sent whether it was taken; the counters
\* have at least what the answers say, more after requests answered 503.
SaidRejected(told) ==
    LET Upto[n \in 0..Len(told)] == IF n = 0 THEN 0 ELSE Upto[n - 1] + told[n].rejected
    IN  Upto[Len(told)]
NothingUnaccounted ==
    /\ \A i \in DOMAIN answers :
          answers[i].accepted \in (answers[i].sent - answers[i].rejected)
                                 ..(2 * (answers[i].sent - answers[i].rejected))
    /\ SaidRejected(answers) <= Total(rejections)

\* A request sent again adds no row.
ResentIsSame == \A r, q \in rows : r.id = q.id /\ r.tenant = q.tenant => r = q

\* Ingest keeps what it promises: rows are stored as agreed, what is accepted can be mapped,
\* what is not is accounted for, and a retry adds nothing.
IngestRight == StoredAsAgreed /\ AcceptedIsMappable /\ NothingUnaccounted /\ ResentIsSame
=============================================================================
