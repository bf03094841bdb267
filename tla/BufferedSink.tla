---------------------------- MODULE BufferedSink ----------------------------
(***************************************************************************)
(* The collector's path to the broker: BufferedSink (collector/src/sink.ts) *)
(* around the Redpanda sink (createRedpandaSink, pipeline/src/redpanda.ts). *)
(*                                                                          *)
(* publish() is an async method of one shared object.  Fastify runs every   *)
(* request handler concurrently, so between the line that empties           *)
(* this.buffer and the catch block that refills it other calls run.  A      *)
(* Caller is a request handler: it calls publish, and answers 202 when the  *)
(* call returns or 503 when it throws.  Everything up to the first await is *)
(* one step, as it is in the single-threaded runtime.                       *)
(***************************************************************************)
EXTENDS Integers, Sequences, Functions

CONSTANTS
    Callers,    \* concurrent request handlers
    Messages,   \* the events they publish
    Batches,    \* the message arrays a request may carry
    Capacity    \* opts.capacity

ASSUME SinkAssumption ==
    /\ Capacity \in Nat
    /\ Batches \subseteq Seq(Messages)
    /\ \A b \in Batches : IsInjective(b)

VARIABLES
    buffer,     \* this.buffer
    degraded,   \* this.degraded
    producer,   \* the lazily created Kafka producer of createRedpandaSink
    call,       \* each caller's activation of publish()
    brokerUp,   \* can the broker be reached
    topic,      \* messages the broker holds
    acked,      \* history: messages of requests answered 202
    lostAcks,   \* history: stored messages whose send was reported failed
    duplicated, \* history: messages the broker was made to store again
    overlapped  \* history: some publish() began while another was waiting

vars == <<buffer, degraded, producer, call, brokerUp, topic,
          acked, lostAcks, duplicated, overlapped>>

\* Where an activation waits: for connect(), for send(), or for the rejection
\* that send() on an unconnected producer returns.
Waiting == {"connecting", "sending", "rejected"}
NoCall  == [pc |-> "idle", backlog |-> <<>>, messages |-> <<>>, stored |-> {}]

Pending(c) == call[c].backlog \o call[c].messages
InFlight   == {c \in Callers : call[c].pc \in Waiting}
Held       == Range(buffer) \cup UNION {Range(Pending(c)) : c \in InFlight}

\* A handler publishes events that are new, or that were refused with a 503
\* and are sent again: never ones it was told are accepted.
MayOffer(messages) ==
    Range(messages) \cap (acked \cup Held) = {}
-----------------------------------------------------------------------------
Init ==
    /\ buffer = <<>>
    /\ degraded = FALSE
    /\ producer = "none"
    /\ call = [c \in Callers |-> NoCall]
    /\ brokerUp \in BOOLEAN
    /\ topic = {} /\ acked = {} /\ lostAcks = {} /\ duplicated = {}
    /\ overlapped = FALSE

\* How far inner.publish gets before its first await: the first call creates
\* the producer and connects it, and while that has not succeeded every other
\* send is on a producer that is not connected.
InnerPublishStarts ==
    CASE producer = "none"  -> "connecting"
      [] producer = "ready" -> "sending"
      [] OTHER              -> "rejected"

StartSend(c, backlog, messages) ==
    /\ call' = [call EXCEPT ![c] =
          [pc |-> InnerPublishStarts, backlog |-> backlog,
           messages |-> messages, stored |-> {}]]
    /\ producer' = IF producer = "none" THEN "connecting" ELSE producer

\* Mutants of Publish: the buffer is not emptied before the send; the backlog
\* is not sent along.
Publish_KeepsBuffer(c, messages) ==
    /\ call[c].pc = "idle" /\ MayOffer(messages) /\ buffer \o messages # <<>>
    /\ StartSend(c, buffer, messages)
    /\ overlapped' = (overlapped \/ InFlight # {})
    /\ UNCHANGED <<buffer, degraded, brokerUp, topic, acked, lostAcks, duplicated>>
Publish_OnlyNew(c, messages) ==
    /\ call[c].pc = "idle" /\ MayOffer(messages) /\ messages # <<>>
    /\ StartSend(c, <<>>, messages)
    /\ overlapped' = (overlapped \/ InFlight # {})
    /\ UNCHANGED <<buffer, degraded, brokerUp, topic, acked, lostAcks, duplicated>>

\* publish() up to its await; with nothing to send it returns at once.
Publish(c, messages) ==
    /\ call[c].pc = "idle"
    /\ MayOffer(messages)
    /\ buffer' = <<>>
    /\ overlapped' = (overlapped \/ InFlight # {})
    /\ IF buffer \o messages = <<>>
       THEN degraded' = FALSE /\ UNCHANGED <<producer, call>>
       ELSE StartSend(c, buffer, messages) /\ UNCHANGED degraded
    /\ UNCHANGED <<brokerUp, topic, acked, lostAcks, duplicated>>

Connected(c) ==
    /\ call[c].pc = "connecting"
    /\ brokerUp
    /\ producer' = "ready"
    /\ call' = [call EXCEPT ![c].pc = "sending"]
    /\ UNCHANGED <<buffer, degraded, brokerUp, topic, acked, lostAcks,
                   duplicated, overlapped>>

\* The broker stores one message of a send.  The messages of one send go to
\* the partitions their keys hash to, so some can be stored and others not.
Store(c, m) ==
    /\ call[c].pc = "sending"
    /\ brokerUp
    /\ m \in Range(Pending(c)) \ call[c].stored
    /\ call' = [call EXCEPT ![c].stored = @ \cup {m}]
    /\ duplicated' = IF m \in topic THEN duplicated \cup {m} ELSE duplicated
    /\ topic' = topic \cup {m}
    /\ UNCHANGED <<buffer, degraded, producer, brokerUp, acked, lostAcks,
                   overlapped>>

\* publish() returns: the handler answers 202.
Succeed(c) ==
    /\ call[c].pc = "sending"
    /\ brokerUp
    /\ call[c].stored = Range(Pending(c))
    /\ degraded' = FALSE
    /\ acked' = acked \cup Range(call[c].messages)
    /\ call' = [call EXCEPT ![c] = NoCall]
    /\ UNCHANGED <<buffer, producer, brokerUp, topic, lostAcks, duplicated,
                   overlapped>>

\* Mutants of the two decisions of the catch block.
Fits_CountsOnlyNew(c)    == Len(call[c].messages) <= Capacity
PutBack_Everything(c)    == Pending(c)
PutBack_Nothing(c)       == <<>>

Fits(c)    == Len(Pending(c)) <= Capacity
PutBack(c) == call[c].backlog

\* The catch block: buffer everything and return (202) if it fits, else put
\* the backlog back and throw BackpressureError (503).
Buffer(c) ==
    /\ IF Fits(c)
       THEN /\ buffer' = Pending(c)
            /\ acked' = acked \cup Range(call[c].messages)
       ELSE /\ buffer' = PutBack(c)
            /\ UNCHANGED acked
    /\ lostAcks' = lostAcks \cup call[c].stored
    /\ call' = [call EXCEPT ![c] = NoCall]

\* Mutant: degraded is only set when messages are refused.
CatchBlock_Quiet(c)  == degraded' = ~Fits(c) /\ Buffer(c)

CatchBlock(c) == degraded' = TRUE /\ Buffer(c)

ConnectFails(c) ==
    /\ call[c].pc = "connecting"
    /\ ~brokerUp
    /\ producer' = "broken"
    /\ CatchBlock(c)
    /\ UNCHANGED <<brokerUp, topic, duplicated, overlapped>>

SendFails(c) ==
    /\ \/ call[c].pc = "rejected"
       \/ call[c].pc = "sending" /\ ~brokerUp
    /\ CatchBlock(c)
    /\ UNCHANGED <<producer, brokerUp, topic, duplicated, overlapped>>

BrokerChanges ==
    /\ brokerUp' = ~brokerUp
    /\ UNCHANGED <<buffer, degraded, producer, call, topic, acked, lostAcks,
                   duplicated, overlapped>>

\* What a call that waits does next: the outcome is the broker's.
Resolve(c) ==
    \/ Connected(c)
    \/ \E m \in Messages : Store(c, m)
    \/ Succeed(c)
    \/ ConnectFails(c)
    \/ SendFails(c)

Next ==
    \/ \E c \in Callers :
          \/ \E messages \in Batches : Publish(c, messages)
          \/ Resolve(c)
    \/ BrokerChanges

Spec == Init /\ [][Next]_vars

\* The runtime resumes every await whose promise settles, and requests keep
\* coming: the sink has no timer of its own, only a request drains it.
Fairness ==
    \A c \in Callers :
       /\ WF_vars(Resolve(c))
       /\ WF_vars(\E messages \in Batches : Publish(c, messages))

FairSpec == Spec /\ Fairness
-----------------------------------------------------------------------------
\* The variables hold values of their types.
TypeOK ==
    /\ buffer \in Seq(Messages)
    /\ degraded \in BOOLEAN
    /\ producer \in {"none", "connecting", "ready", "broken"}
    /\ call \in [Callers ->
          [pc : Waiting \cup {"idle"}, backlog : Seq(Messages),
           messages : Seq(Messages), stored : SUBSET Messages]]
    /\ brokerUp \in BOOLEAN
    /\ topic \in SUBSET Messages
    /\ acked \in SUBSET Messages
    /\ lostAcks \in SUBSET Messages
    /\ duplicated \in SUBSET Messages
    /\ overlapped \in BOOLEAN

\* publish() never keeps more than opts.capacity messages, however the calls
\* interleave: the refused branch restores a backlog that once fitted.
BufferBounded == Len(buffer) <= Capacity

\* What the sink keeps for later is exactly promised data: a message a caller
\* was refused with a 503 is never kept and sent behind its back.
BacklogIsAcked ==
    /\ Range(buffer) \subseteq acked
    /\ \A c \in InFlight : Range(call[c].backlog) \subseteq acked

\* Every message the sink holds is in one place, the buffer or one call that
\* waits, and once in it: publish() takes the buffer before it awaits.
SoleOwner ==
    /\ IsInjective(buffer)
    /\ \A c \in InFlight :
          /\ IsInjective(Pending(c))
          /\ Range(Pending(c)) \cap Range(buffer) = {}
          /\ \A d \in InFlight \ {c} :
                Range(Pending(c)) \cap Range(Pending(d)) = {}

\* The broker stores a message twice only after a send that stored it was
\* reported failed: retrying the backlog alone never duplicates.
DuplicatesHadLostAck == duplicated \subseteq lostAcks

\* "Nothing acked is ever silently discarded" (sink.ts): a message answered
\* 202 is at the broker or still held.
AckedNeverLost == acked \subseteq topic \cup Held

\* As long as no two calls of publish() ever overlapped, no acked message is
\* lost, whatever the broker does and however full the buffer is.
AckedSafeWhenSerial == ~overlapped => AckedNeverLost

\* Without overlapping calls /health is truthful between requests: it says
\* "up" only when nothing waits in the buffer.
HealthTruthfulWhenSerial ==
    ~overlapped /\ InFlight = {} /\ ~degraded => buffer = <<>>

\* "accepted events buffer up to capacity and drain on recovery" (sink.ts):
\* once the broker stays reachable every acked message gets to it, if the
\* first connection succeeded at some time and calls never overlapped.
DrainsOnceConnected ==
    <>[]brokerUp /\ <>(producer = "ready") /\ []~overlapped
       => \A m \in Messages : m \in acked ~> m \in topic
=============================================================================
