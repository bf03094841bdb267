----------------------------- MODULE SdkClient -----------------------------
(***************************************************************************)
(* The analytics client of the customer's process (sdk/src/client.ts): a    *)
(* bounded queue of events, a chain of flushes that never overlap, bounded  *)
(* retries of each batch, and shutdown.  The collector is seen through its  *)
(* HTTP surface only: a POST can be lost, refused, answered, or handled     *)
(* after the client has given up waiting for it.                            *)
(*                                                                          *)
(* Events are numbered in the order they are emitted; one that devValidate  *)
(* refuses is dropped before it gets a number.                              *)
(***************************************************************************)
EXTENDS Integers, Sequences, Functions

CONSTANTS
    maxBatch,     \* opts.maxBatch
    maxBuffered,  \* opts.maxBuffered
    maxRetries,   \* opts.maxRetries
    Malformed,    \* events the collector's schema refuses
    MaxEvents,    \* bound: events the host emits
    MaxChain      \* bound: flushes of the timer waiting in the chain

ASSUME SdkAssumption ==
    /\ maxBatch \in Nat \ {0}
    /\ maxBuffered \in Nat
    /\ maxRetries \in Nat
    /\ MaxEvents \in Nat
    /\ MaxChain \in Nat \ {0}

VARIABLES
    queue,     \* events waiting to be sent
    timer,     \* is the flush interval running
    flushing,  \* the flushes chained on the promise; the head is the one that runs
    batch,     \* the batch deliver() works on, <<>> when it is not running
    attempt,   \* deliver()'s loop variable
    fetching,  \* what is known of the POST in progress
    late,      \* batches of POSTs given up that may still reach the collector
    shutdown,  \* "no", "called", "done"
    emitted,   \* number of events emitted
    received,  \* events the collector accepted
    delivered, \* events of batches answered 2xx
    warned,    \* of these, the ones rejected in the answer: onWarn is called
    untold,    \* rejected in an answer whose body the client could not read
    overflowed,\* events dropped because the queue was full
    abandoned, \* events dropped after the last attempt
    posts,     \* history: how many POSTs carried each event
    owed       \* history: events in the client when shutdown() was called

vars == <<queue, timer, flushing, batch, attempt, fetching, late, shutdown,
          emitted, received, delivered, warned, untold, overflowed, abandoned, posts,
          owed>>

Events == 1..MaxEvents
Report == <<warned, untold>>
LeastOf(m, n) == IF m <= n THEN m ELSE n
-----------------------------------------------------------------------------
Init ==
    /\ queue = <<>> /\ timer = FALSE /\ flushing = <<>>
    /\ batch = <<>> /\ attempt = 0 /\ fetching = "no" /\ late = {}
    /\ shutdown = "no" /\ emitted = 0
    /\ received = {} /\ delivered = {} /\ overflowed = {} /\ abandoned = {}
    /\ warned = {} /\ untold = {}
    /\ posts = [e \in Events |-> 0]
    /\ owed = {}

\* Mutants of enqueue(): an event too many is kept; the newest event is
\* dropped; the timer does not run again after a shutdown.
TooLong_OffByOne(q) == Len(q) > maxBuffered + 1
Shift_DropsNewest(q) ==
    /\ queue' = SubSeq(q, 1, Len(q) - 1)
    /\ overflowed' = overflowed \cup {q[Len(q)]}
EnsureTimer_NotAfterShutdown == timer' = (shutdown = "no")

TooLong(q) == Len(q) > maxBuffered
Shift(q) ==
    /\ queue' = Tail(q)
    /\ overflowed' = overflowed \cup {Head(q)}
EnsureTimer == timer' = TRUE

\* enqueue(): never blocks; the oldest event goes when the queue is too long,
\* and the first event starts the timer (again, after a shutdown).
Emit ==
    /\ emitted < MaxEvents
    /\ emitted' = emitted + 1
    /\ LET pushed == Append(queue, emitted + 1) IN
       IF TooLong(pushed) THEN Shift(pushed)
       ELSE queue' = pushed /\ UNCHANGED overflowed
    /\ EnsureTimer
    /\ UNCHANGED <<flushing, batch, attempt, fetching, late, shutdown,
                   received, delivered, abandoned, posts, owed, Report>>

Chained(who) == Append(flushing, who)

\* The interval's callback, void flush().
TimerFires ==
    /\ timer
    /\ Len(flushing) < MaxChain
    /\ flushing' = Chained("timer")
    /\ UNCHANGED <<queue, timer, batch, attempt, fetching, late, shutdown,
                   emitted, received, delivered, overflowed, abandoned, posts,
                   owed, Report>>

Shutdown ==
    /\ shutdown = "no"
    /\ shutdown' = "called"
    /\ timer' = FALSE
    /\ flushing' = Chained("shutdown")
    /\ owed' = Range(queue) \cup Range(batch)
    /\ UNCHANGED <<queue, batch, attempt, fetching, late, emitted, received,
                   delivered, overflowed, abandoned, posts, Report>>

\* Mutant: slice() in place of splice().
Rest_Slice(n) == queue
Rest(n) == SubSeq(queue, n + 1, Len(queue))

\* The loop of the running flush: take the next batch ...
TakeBatch ==
    /\ flushing # <<>> /\ batch = <<>> /\ queue # <<>>
    /\ LET n == LeastOf(maxBatch, Len(queue)) IN
       /\ batch' = SubSeq(queue, 1, n)
       /\ queue' = Rest(n)
    /\ attempt' = 0
    /\ UNCHANGED <<timer, flushing, fetching, late, shutdown, emitted,
                   received, delivered, overflowed, abandoned, posts, owed, Report>>

\* ... until the queue is empty: the next flush of the chain runs, and a
\* caller that awaits this one goes on.
WhileIsOver_OneBatch == emitted > 0   \* mutant: no loop
WhileIsOver == queue = <<>>

FlushEnds ==
    /\ flushing # <<>> /\ batch = <<>> /\ WhileIsOver
    /\ flushing' = Tail(flushing)
    /\ shutdown' = IF Head(flushing) = "shutdown" THEN "done" ELSE shutdown
    /\ UNCHANGED <<queue, timer, batch, attempt, fetching, late, emitted,
                   received, delivered, overflowed, abandoned, posts, owed, Report>>

\* fetchImpl(): one attempt of deliver().
StartAttempt ==
    /\ batch # <<>> /\ fetching = "no"
    /\ fetching' = "sent"
    /\ posts' = [e \in Events |->
                    IF e \in Range(batch) THEN posts[e] + 1 ELSE posts[e]]
    /\ UNCHANGED <<queue, timer, flushing, batch, attempt, late, shutdown,
                   emitted, received, delivered, overflowed, abandoned, owed, Report>>

ResOk == fetching \in {"ok", "unreadable"}

\* The answer lists the events it rejects; a body that is no JSON lists none.
AttemptSucceeds ==
    /\ ResOk
    /\ delivered' = delivered \cup Range(batch)
    /\ LET refused == Range(batch) \cap Malformed IN
       IF fetching = "ok"
       THEN warned' = warned \cup refused /\ UNCHANGED untold
       ELSE untold' = untold \cup refused /\ UNCHANGED warned
    /\ batch' = <<>>
    /\ attempt' = 0
    /\ fetching' = "no"
    /\ UNCHANGED <<queue, timer, flushing, late, shutdown, emitted, received,
                   overflowed, abandoned, posts, owed>>

AnotherAttempt_OffByOne == attempt <= maxRetries   \* mutant
AnotherAttempt == attempt < maxRetries

\* A status that is not 2xx, or an error of fetch, which can come whatever
\* became of the request: another attempt, or the batch is dropped.
AttemptFails ==
    /\ fetching # "no"
    /\ fetching' = "no"
    /\ late' = IF fetching = "sent" THEN late \cup {batch} ELSE late
    /\ IF AnotherAttempt
       THEN attempt' = attempt + 1 /\ UNCHANGED <<batch, abandoned>>
       ELSE /\ attempt' = 0
            /\ batch' = <<>>
            /\ abandoned' = abandoned \cup Range(batch)
    /\ UNCHANGED <<queue, timer, flushing, shutdown, emitted, received,
                   delivered, overflowed, posts, owed, Report>>

\* The collector answers the POST in progress: 202 for the events its schema knows
\* and a list of those it rejects, or another status for all of them.
Accepts(events) == received \cup (Range(events) \ Malformed)
CollectorAnswers ==
    /\ fetching = "sent"
    /\ \E answer \in {"ok", "unreadable", "refused"} :
          /\ fetching' = answer
          /\ received' = IF answer = "refused" THEN received ELSE Accepts(batch)
    /\ UNCHANGED <<queue, timer, flushing, batch, attempt, late, shutdown,
                   emitted, delivered, overflowed, abandoned, posts, owed, Report>>

\* It handles one that the client has given up.
CollectorAcceptsLate(events) ==
    /\ events \in late
    /\ late' = late \ {events}
    /\ received' = Accepts(events)
    /\ UNCHANGED <<queue, timer, flushing, batch, attempt, fetching, shutdown,
                   emitted, delivered, overflowed, abandoned, posts, owed, Report>>

Flush   == TakeBatch \/ FlushEnds
Deliver == StartAttempt \/ AttemptSucceeds \/ AttemptFails

Next ==
    \/ Emit
    \/ TimerFires
    \/ Shutdown
    \/ TakeBatch
    \/ FlushEnds
    \/ StartAttempt
    \/ AttemptSucceeds
    \/ AttemptFails
    \/ CollectorAnswers
    \/ \E events \in late : CollectorAcceptsLate(events)

Spec == Init /\ [][Next]_vars

\* Callbacks whose promise settles run, the interval fires while it is set,
\* and every fetch settles (undici bounds the wait for headers and body).
Fairness ==
    /\ WF_vars(TimerFires)
    /\ WF_vars(Flush)
    /\ WF_vars(Deliver)

FairSpec == Spec /\ Fairness
-----------------------------------------------------------------------------
\* The variables hold values of their types, and memory is bounded ("no unbounded queue",
\* openspec/specs/sdk-node): the queue and one batch.
TypeOK ==
    /\ queue \in Seq(Events) /\ Len(queue) <= maxBuffered
    /\ timer \in BOOLEAN
    /\ flushing \in Seq({"timer", "shutdown"})
    /\ batch \in Seq(Events) /\ Len(batch) <= maxBatch
    /\ attempt \in 0..maxRetries
    /\ fetching \in {"no", "sent", "ok", "unreadable", "refused"}
    /\ late \subseteq Seq(Events)
    /\ shutdown \in {"no", "called", "done"}
    /\ emitted \in 0..MaxEvents
    /\ received \subseteq Events /\ delivered \subseteq Events
    /\ warned \subseteq Events /\ untold \subseteq Events
    /\ overflowed \subseteq Events /\ abandoned \subseteq Events
    /\ posts \in [Events -> Nat]
    /\ owed \subseteq Events

\* Every event the host emitted is in exactly one place: the queue, the batch,
\* or one of the three ways out of the client.  Two of them are reported to
\* the host; the third, a 2xx, is silent for what the collector accepted, reported
\* for what it rejected one by one, and silent for that too only where the list
\* could not be read (res.json().catch).
Places == <<Range(queue), Range(batch), delivered, overflowed, abandoned>>
Accounted ==
    /\ UNION Range(Places) = 1..emitted
    /\ \A i, j \in DOMAIN Places : i # j => Places[i] \cap Places[j] = {}
    /\ delivered \subseteq received \cup warned \cup untold
    /\ warned \cup untold \subseteq Malformed \ received

\* One flush runs at a time and takes from the front: when an event has been
\* posted every older one is in the same batch or has left the client, and
\* what the full queue drops is older than all it keeps.
SentInOrder ==
    /\ \A e, f \in 1..emitted :
          e < f /\ posts[f] > 0 =>
             \/ e \in delivered \cup overflowed \cup abandoned
             \/ e \in Range(batch) /\ f \in Range(batch)
    /\ \A e \in overflowed \cup Range(batch), f \in Range(queue) : e < f

\* "No retry storm" (openspec/specs/sdk-node): no event is ever posted more
\* than maxRetries + 1 times, and one is abandoned after exactly as many, which is
\* what the warning says (client.ts:118).  The option's comment says "Delivery
\* attempts per batch before dropping" (client.ts:27): that is one fewer.
RetriesBounded ==
    \A e \in 1..emitted :
       /\ posts[e] <= maxRetries + 1
       /\ e \in abandoned => posts[e] = maxRetries + 1
       /\ e \in overflowed \cup Range(queue) => posts[e] = 0

\* When the promise of shutdown() resolves, every event the client held when
\* it was called has been delivered or reported dropped.
ShutdownDrains ==
    shutdown = "done" => owed \cap (Range(queue) \cup Range(batch)) = {}

\* shutdown() resolves, whatever the collector and the network do, and every emitted event
\* leaves the client, also one emitted during or after a shutdown.
EverythingSettles ==
    /\ shutdown = "called" ~> shutdown = "done"
    /\ \A e \in Events : e <= emitted ~> e \in delivered \cup overflowed \cup abandoned
=============================================================================
