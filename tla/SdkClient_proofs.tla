-------------------------- MODULE SdkClient_proofs --------------------------
(***************************************************************************)
(* Proofs about SdkClient for every batch size, buffer, number of retries   *)
(* and number of events.  The safety invariants the runs check follow from  *)
(* one inductive invariant, IInv: the queue holds exactly the newest        *)
(* events, everything older is in the batch or has left the client in one   *)
(* way, and the number of POSTs of an event follows from where it is.       *)
(***************************************************************************)
EXTENDS SdkClient, SequenceTheorems, TLAPS

\* The events up to Base are no longer in the queue.
Base == emitted - Len(queue)

QueueIsNewest == Base \in Nat /\ \A i \in 1..Len(queue) : queue[i] = Base + i

OthersAreOlder ==
    /\ Range(batch) \cup delivered \cup overflowed \cup abandoned = 1..Base
    /\ Range(batch) \cap (delivered \cup overflowed \cup abandoned) = {}
    /\ delivered \cap (overflowed \cup abandoned) = {}
    /\ overflowed \cap abandoned = {}

BatchIsNewer == \A e \in Range(batch), f \in delivered \cup abandoned : f < e

\* How often an event of the batch has been posted.
Tried == IF fetching = "no" THEN attempt ELSE attempt + 1
PostsInv ==
    /\ \A e \in Range(batch) : posts[e] = Tried
    /\ \A e \in delivered : posts[e] <= maxRetries + 1
    /\ \A e \in abandoned : posts[e] = maxRetries + 1
    /\ \A e \in Events : e \in overflowed \/ e > Base => posts[e] = 0

FetchInv ==
    /\ batch = <<>> => fetching = "no"
    /\ ResOk => Range(batch) \ Malformed \subseteq received
    /\ delivered \subseteq received \cup warned \cup untold
    /\ warned \cup untold \subseteq Malformed /\ received \cap Malformed = {}

OwedInv == owed \subseteq 1..emitted /\ ShutdownDrains

IInv ==
    /\ TypeOK /\ QueueIsNewest /\ OthersAreOlder /\ BatchIsNewer
    /\ PostsInv /\ FetchInv /\ OwedInv
-----------------------------------------------------------------------------
\* Sequences of consecutive numbers: what they hold, and what enqueue() and
\* splice() make of them.
Consecutive(s, m) == \A i \in 1..Len(s) : s[i] = m + i

\* What such a sequence holds is an interval.
LEMMA ConsecutiveRange ==
    ASSUME NEW S, NEW s \in Seq(S), NEW m \in Nat, Consecutive(s, m)
    PROVE  Range(s) = (m + 1)..(m + Len(s))
<1>1. Len(s) \in Nat /\ DOMAIN s = 1..Len(s)
  BY LenProperties
<1>2. \A i \in 1..Len(s) : s[i] = m + i
  BY DEF Consecutive
<1>3. \A e \in Range(s) : e \in (m + 1)..(m + Len(s))
  BY <1>1, <1>2 DEF Range
<1>4. ASSUME NEW e \in (m + 1)..(m + Len(s))
      PROVE  e \in Range(s)
  <2>1. e - m \in 1..Len(s) /\ s[e - m] = e
    BY <1>1, <1>2
  <2> QED  BY <1>1, <2>1 DEF Range
<1> QED  BY <1>3, <1>4

\* Pushing the next number keeps the sequence consecutive.
LEMMA ConsecutiveAppend ==
    ASSUME NEW S, NEW s \in Seq(S), NEW m \in Nat, Consecutive(s, m),
           m + Len(s) + 1 \in S
    PROVE  LET p == Append(s, m + Len(s) + 1)
           IN  p \in Seq(S) /\ Len(p) = Len(s) + 1 /\ Consecutive(p, m)
<1> DEFINE e == m + Len(s) + 1
           p == Append(s, e)
<1>1. Len(s) \in Nat
  BY LenProperties
<1>2. /\ p \in Seq(S) /\ Len(p) = Len(s) + 1
      /\ \A i \in 1..Len(s) : p[i] = s[i]
      /\ p[Len(s) + 1] = e
  BY AppendProperties
<1>3. \A i \in 1..Len(p) : p[i] = m + i
  <2> SUFFICES ASSUME NEW i \in 1..Len(p) PROVE p[i] = m + i
    OBVIOUS
  <2>1. CASE i \in 1..Len(s)
    BY <1>2, <2>1 DEF Consecutive
  <2>2. CASE i = Len(s) + 1
    BY <1>1, <1>2, <2>2
  <2> QED  BY <1>1, <1>2, <2>1, <2>2
<1> QED  BY <1>2, <1>3 DEF Consecutive

\* Shifting takes the smallest number out.
LEMMA ConsecutiveTail ==
    ASSUME NEW S, NEW s \in Seq(S), NEW m \in Nat, Consecutive(s, m), s # <<>>
    PROVE  /\ Tail(s) \in Seq(S) /\ Len(Tail(s)) = Len(s) - 1
           /\ Consecutive(Tail(s), m + 1) /\ Head(s) = m + 1
<1>1. /\ Len(s) \in Nat \ {0} /\ Head(s) = s[1]
      /\ Tail(s) \in Seq(S) /\ Len(Tail(s)) = Len(s) - 1
      /\ \A i \in 1..(Len(s) - 1) : Tail(s)[i] = s[i + 1]
  BY HeadTailProperties, EmptySeq, LenProperties
<1> QED  BY <1>1 DEF Consecutive

\* A piece of such a sequence is one too.
LEMMA ConsecutiveSubSeq ==
    ASSUME NEW S, NEW s \in Seq(S), NEW m \in Nat, Consecutive(s, m),
           NEW a \in 1..(Len(s) + 1), NEW b \in 0..Len(s), a <= b + 1
    PROVE  LET p == SubSeq(s, a, b)
           IN  p \in Seq(S) /\ Len(p) = b + 1 - a /\ Consecutive(p, m + a - 1)
<1>1. Len(s) \in Nat /\ DOMAIN s = 1..Len(s) /\ \A i \in 1..Len(s) : s[i] \in S
  BY LenProperties, ElementOfSeq
<1> DEFINE p == SubSeq(s, a, b)
<1>2. p = [i \in 1..(b + 1 - a) |-> s[i + a - 1]]
  BY <1>1
<1>3. b + 1 - a \in Nat /\ \A i \in 1..(b + 1 - a) : i + a - 1 \in 1..Len(s)
  BY <1>1
<1>4. p \in Seq(S) /\ Len(p) = b + 1 - a
  BY <1>1, <1>2, <1>3
<1> QED  BY <1>2, <1>3, <1>4 DEF Consecutive
-----------------------------------------------------------------------------
\* What the queue holds, as a set.
LEMMA QueueFacts ==
    ASSUME TypeOK, QueueIsNewest
    PROVE  /\ Len(queue) \in Nat /\ Base \in Nat /\ Base + Len(queue) = emitted
           /\ Consecutive(queue, Base)
           /\ Range(queue) = (Base + 1)..emitted
           /\ Range(batch) \in SUBSET Events
<1>1. queue \in Seq(Events) /\ batch \in Seq(Events) /\ emitted \in Nat
  BY DEF TypeOK
<1>2. Len(queue) \in Nat
  BY <1>1, LenProperties
<1>3. Base \in Nat /\ Base + Len(queue) = emitted /\ Consecutive(queue, Base)
  BY <1>1, <1>2 DEF QueueIsNewest, Base, Consecutive
<1>4. Range(queue) = (Base + 1)..emitted
  BY <1>1, <1>3, ConsecutiveRange
<1>5. Range(batch) \in SUBSET Events
  BY <1>1, RangeOfSeq
<1> QED  BY <1>2, <1>3, <1>4, <1>5

\* enqueue(): the new event joins the queue, and the oldest of a full queue,
\* which is Base + 1, leaves it.
LEMMA EmitMoves ==
    ASSUME TypeOK, QueueIsNewest, Emit
    PROVE  /\ queue' \in Seq(Events) /\ Len(queue') <= maxBuffered
           /\ emitted' = emitted + 1 /\ emitted' \in Events
           /\ QueueIsNewest'
           /\ \/ Base' = Base /\ overflowed' = overflowed
              \/ Base' = Base + 1 /\ overflowed' = overflowed \cup {Base + 1}
<1> DEFINE pushed == Append(queue, emitted + 1)
<1>1. /\ queue \in Seq(Events) /\ Len(queue) <= maxBuffered
      /\ emitted \in Nat /\ maxBuffered \in Nat /\ Len(queue) \in Nat
      /\ emitted' = emitted + 1 /\ emitted + 1 \in Events
  BY QueueFacts, SdkAssumption DEF Emit, TypeOK, Events
<1>2. /\ pushed \in Seq(Events) /\ Len(pushed) = Len(queue) + 1
      /\ Consecutive(pushed, Base)
  <2>1. emitted + 1 = Base + Len(queue) + 1 /\ Base \in Nat /\ Consecutive(queue, Base)
    BY QueueFacts
  <2> HIDE DEF pushed
  <2> QED  BY <1>1, <2>1, ConsecutiveAppend DEF pushed
<1> HIDE DEF pushed
<1>3. CASE TooLong(pushed)
  <2>1. queue' = Tail(pushed) /\ overflowed' = overflowed \cup {Head(pushed)}
    BY <1>3 DEF Emit, Shift, pushed
  <2>2. pushed # <<>> /\ Base \in Nat
    BY <1>1, <1>2, QueueFacts
  <2>3. /\ queue' \in Seq(Events) /\ Len(queue') = Len(queue)
        /\ Consecutive(queue', Base + 1) /\ Head(pushed) = Base + 1
    BY <1>1, <1>2, <2>1, <2>2, ConsecutiveTail
  <2>4. Base' = Base + 1
    BY <1>1, <2>3 DEF Base
  <2> QED  BY <1>1, <2>1, <2>2, <2>3, <2>4 DEF QueueIsNewest, Consecutive
<1>4. CASE ~TooLong(pushed)
  <2>1. queue' = pushed /\ overflowed' = overflowed
    BY <1>4 DEF Emit, pushed
  <2>2. Base' = Base
    BY <1>1, <1>2, <2>1 DEF Base
  <2>3. Base \in Nat /\ Len(pushed) <= maxBuffered
    BY <1>1, <1>2, <1>4, QueueFacts DEF TooLong
  <2> QED  BY <1>1, <1>2, <2>1, <2>2, <2>3 DEF QueueIsNewest, Consecutive
<1> QED  BY <1>3, <1>4

\* splice(): the batch is the oldest events of the queue.
LEMMA TakeMoves ==
    ASSUME TypeOK, QueueIsNewest, TakeBatch
    PROVE  /\ queue' \in Seq(Events) /\ Len(queue') <= maxBuffered
           /\ batch' \in Seq(Events) /\ Len(batch') <= maxBatch
           /\ QueueIsNewest' /\ Base < Base' /\ Base' <= emitted
           /\ Range(batch') = (Base + 1)..Base'
<1> DEFINE n == LeastOf(maxBatch, Len(queue))
<1>1. /\ queue \in Seq(Events) /\ Len(queue) <= maxBuffered /\ maxBuffered \in Nat
      /\ Len(queue) \in Nat \ {0} /\ maxBatch \in Nat \ {0}
      /\ Base \in Nat /\ Base + Len(queue) = emitted /\ Consecutive(queue, Base)
      /\ emitted \in Nat
  BY QueueFacts, SdkAssumption, EmptySeq DEF TakeBatch, TypeOK
<1>2. n \in 1..Len(queue) /\ n <= maxBatch
  BY <1>1 DEF LeastOf
<1>3. batch' = SubSeq(queue, 1, n) /\ queue' = SubSeq(queue, n + 1, Len(queue))
      /\ emitted' = emitted
  BY DEF TakeBatch, Rest
<1> HIDE DEF n
<1>4. batch' \in Seq(Events) /\ Len(batch') = n /\ Consecutive(batch', Base)
  <2>1. /\ 1 \in 1..(Len(queue) + 1) /\ n \in 0..Len(queue) /\ 1 <= n + 1
        /\ n + 1 - 1 = n /\ Base + 1 - 1 = Base
    BY <1>1, <1>2
  <2> QED  BY <1>1, <1>3, <2>1, ConsecutiveSubSeq
<1>5. /\ queue' \in Seq(Events) /\ Len(queue') = Len(queue) - n
      /\ Consecutive(queue', Base + n)
  <2>1. /\ n + 1 \in 1..(Len(queue) + 1) /\ Len(queue) \in 0..Len(queue)
        /\ n + 1 <= Len(queue) + 1
        /\ Len(queue) + 1 - (n + 1) = Len(queue) - n /\ Base + (n + 1) - 1 = Base + n
    BY <1>1, <1>2
  <2> QED  BY <1>1, <1>3, <2>1, ConsecutiveSubSeq
<1>6. Base' = Base + n
  <2>1. Base' = emitted' - Len(queue') /\ emitted' = emitted /\ Len(queue') = Len(queue) - n
    BY <1>3, <1>5 DEF Base
  <2> QED  BY <1>1, <1>2, <2>1
<1>7. Range(batch') = (Base + 1)..(Base + n)
  BY <1>1, <1>4, ConsecutiveRange
<1>8. Base' \in Nat /\ Base < Base' /\ Base' <= emitted
  BY <1>1, <1>2, <1>6
<1>9. QueueIsNewest'
  BY <1>5, <1>6, <1>8 DEF QueueIsNewest, Consecutive
<1>10. Len(queue') <= maxBuffered /\ Len(batch') <= maxBatch
  BY <1>1, <1>2, <1>4, <1>5
<1> QED  BY <1>4, <1>5, <1>6, <1>7, <1>8, <1>9, <1>10
-----------------------------------------------------------------------------
\* An empty client has values of the right types.
LEMMA TypeInit == Init => TypeOK
<1> SUFFICES ASSUME Init PROVE TypeOK
  OBVIOUS
<1>1. <<>> \in Seq(Events) /\ Len(<<>>) = 0 /\ <<>> \in Seq({"timer", "shutdown"})
  BY EmptySeq
<1>2. posts \in [Events -> Nat]
  BY DEF Init
<1>3. /\ queue \in Seq(Events) /\ Len(queue) <= maxBuffered
      /\ batch \in Seq(Events) /\ Len(batch) <= maxBatch
      /\ flushing \in Seq({"timer", "shutdown"})
  <2>1. queue = <<>> /\ batch = <<>> /\ flushing = <<>>
    BY DEF Init
  <2> QED  BY <1>1, <2>1, SdkAssumption
<1>4. attempt \in 0..maxRetries /\ emitted \in 0..MaxEvents
  BY SdkAssumption DEF Init
<1> QED  BY <1>2, <1>3, <1>4 DEF Init, TypeOK

\* Every step keeps the types, given which events the queue holds.
LEMMA TypeNext ==
    ASSUME TypeOK, QueueIsNewest, [Next]_vars
    PROVE  TypeOK'
<1>6a. /\ maxBatch \in Nat /\ maxBuffered \in Nat /\ maxRetries \in Nat
      /\ Range(batch) \subseteq Events /\ Range(queue) \subseteq Events
      /\ <<>> \in Seq(Events) /\ Len(<<>>) = 0
  BY SdkAssumption, QueueFacts, EmptySeq, RangeOfSeq DEF TypeOK
<1>b. \A who \in {"timer", "shutdown"} : Chained(who) \in Seq({"timer", "shutdown"})
  BY AppendProperties DEF Chained, TypeOK
<1>1. CASE Emit
  <2>1. overflowed' \subseteq Events
    <3>1. Base + 1 \in Events
      <4>1. Base \in Nat /\ Base <= emitted /\ emitted + 1 \in 1..MaxEvents
        BY <1>1, EmitMoves, QueueFacts DEF Events
      <4>2. emitted \in Nat
        BY DEF TypeOK
      <4> QED  BY <4>1, <4>2, SdkAssumption DEF Events
    <3>2. overflowed \subseteq Events
      BY DEF TypeOK
    <3>3. overflowed' = overflowed \/ overflowed' = overflowed \cup {Base + 1}
      BY <1>1, EmitMoves
    <3> QED  BY <3>1, <3>2, <3>3
  <2>2. emitted' \in 0..MaxEvents
    BY <1>1, EmitMoves DEF Events
  <2> QED  BY <1>1, <2>1, <2>2, EmitMoves DEF Emit, EnsureTimer, TypeOK, Report
<1>2. CASE TimerFires
  BY <1>2, <1>b DEF TimerFires, TypeOK, Report
<1>3. CASE Shutdown
  <2>1. owed' \subseteq Events
    BY <1>3, <1>6a DEF Shutdown, Report
  <2> QED  BY <1>3, <1>b, <2>1 DEF Shutdown, TypeOK, Report
<1>4. CASE TakeBatch
  BY <1>4, <1>6a, TakeMoves DEF TakeBatch, TypeOK, Report
<1>5. CASE FlushEnds
  <2>1. flushing' \in Seq({"timer", "shutdown"})
    BY <1>5, HeadTailProperties DEF FlushEnds, TypeOK, Report
  <2>2. shutdown' \in {"no", "called", "done"}
    BY <1>5 DEF FlushEnds, TypeOK, Report
  <2> QED  BY <1>5, <2>1, <2>2 DEF FlushEnds, TypeOK, Report
<1>6. CASE StartAttempt
  <2>1. posts' \in [Events -> Nat]
    BY <1>6 DEF StartAttempt, TypeOK, Report
  <2> QED  BY <1>6, <2>1 DEF StartAttempt, TypeOK, Report
<1>7. CASE AttemptSucceeds
  BY <1>7, <1>6a DEF AttemptSucceeds, TypeOK, Report
<1>8. CASE AttemptFails
  <2>1. late' \subseteq Seq(Events)
    BY <1>8 DEF AttemptFails, TypeOK, Report
  <2>2. attempt' \in 0..maxRetries
    BY <1>8, <1>6a DEF AttemptFails, AnotherAttempt, TypeOK, Report
  <2>3. batch' \in Seq(Events) /\ Len(batch') <= maxBatch /\ abandoned' \subseteq Events
    <3>1. \/ UNCHANGED <<batch, abandoned>>
          \/ batch' = <<>> /\ abandoned' = abandoned \cup Range(batch)
      BY <1>8 DEF AttemptFails, Report
    <3>2. batch' = batch \/ batch' = <<>>
      BY <3>1
    <3>3. abandoned' \subseteq Events
      BY <1>6a, <3>1 DEF TypeOK
    <3>4. batch' \in Seq(Events) /\ Len(batch') <= maxBatch
      <4>1. CASE batch' = batch
        BY <4>1 DEF TypeOK
      <4>2. CASE batch' = <<>>
        BY <1>6a, <4>2
      <4> QED  BY <3>2, <4>1, <4>2
    <3> QED  BY <3>3, <3>4
  <2>4. /\ fetching' = "no"
        /\ UNCHANGED <<queue, timer, flushing, shutdown, emitted, received,
                       delivered, overflowed, posts, owed, warned, untold>>
    BY <1>8 DEF AttemptFails, Report
  <2> QED  BY <2>1, <2>2, <2>3, <2>4 DEF TypeOK
<1>9. CASE CollectorAnswers
  BY <1>9, <1>6a DEF CollectorAnswers, Accepts, TypeOK, Report
<1>10. ASSUME NEW events \in late, CollectorAcceptsLate(events)
       PROVE  TypeOK'
  <2>1. Range(events) \subseteq Events
    BY RangeOfSeq DEF TypeOK
  <2> QED  BY <1>10, <2>1 DEF CollectorAcceptsLate, Accepts, TypeOK, Report
<1>11. CASE UNCHANGED vars
  BY <1>11 DEF vars, Report, TypeOK
<1> QED
  BY <1>1, <1>2, <1>3, <1>4, <1>5, <1>6, <1>7, <1>8, <1>9, <1>10, <1>11 DEF Next
-----------------------------------------------------------------------------
\* An empty batch holds no event.
LEMMA RangeEmpty == Range(<<>>) = {}
  BY DEF Range

\* In the next state too, the queue holds what is newer than Base.
LEMMA NextQueue ==
    ASSUME TypeOK', QueueIsNewest'
    PROVE  Range(queue') = (Base' + 1)..emitted'
<1>1. queue' \in Seq(Events) /\ emitted' \in Nat
  BY DEF TypeOK
<1>2. Len(queue') \in Nat
  BY <1>1, LenProperties
<1>3. Base' \in Nat /\ Base' + Len(queue') = emitted' /\ Consecutive(queue', Base')
  BY <1>1, <1>2 DEF QueueIsNewest, Base, Consecutive
<1> QED  BY <1>1, <1>3, ConsecutiveRange

\* The inductive invariant holds of an empty client.
LEMMA InvInit == Init => IInv
<1> SUFFICES ASSUME Init PROVE IInv
  OBVIOUS
<1>1. TypeOK
  BY TypeInit
<1>2. /\ queue = <<>> /\ batch = <<>> /\ emitted = 0 /\ Len(queue) = 0
      /\ Range(batch) = {} /\ Range(queue) = {}
  BY RangeEmpty, EmptySeq DEF Init
<1>3. Base = 0 /\ 1..Base = {}
  <2>1. emitted = 0 /\ Len(queue) = 0
    BY <1>2
  <2>2. Base = 0
    BY <2>1 DEF Base
  <2> QED  BY <2>2
<1>4. QueueIsNewest
  BY <1>2, <1>3 DEF QueueIsNewest
<1>5. OthersAreOlder /\ BatchIsNewer
  BY <1>2, <1>3 DEF Init, OthersAreOlder, BatchIsNewer
<1>6. PostsInv
  BY <1>2 DEF Init, PostsInv
<1>7. FetchInv /\ OwedInv
  BY <1>2 DEF Init, FetchInv, ResOk, OwedInv, ShutdownDrains
<1> QED  BY <1>1, <1>4, <1>5, <1>6, <1>7 DEF IInv

\* A new event changes the queue, and what leaves it was never posted.
LEMMA EmitStep ==
    ASSUME IInv, TypeOK', Emit
    PROVE  IInv'
<1>1. /\ TypeOK /\ QueueIsNewest /\ QueueIsNewest' /\ emitted' = emitted + 1
      /\ emitted \in Nat /\ Base \in Nat /\ Base <= emitted
      /\ UNCHANGED <<batch, attempt, fetching, shutdown, received, delivered,
                     abandoned, posts, owed, warned, untold>>
      /\ Range(batch') = Range(batch)
  <2>1. TypeOK /\ QueueIsNewest
    BY DEF IInv
  <2>2. Len(queue) \in Nat /\ Base \in Nat /\ Base + Len(queue) = emitted
    BY <2>1, QueueFacts
  <2>3. emitted \in Nat /\ Base <= emitted
    BY <2>2
  <2> QED  BY <2>1, <2>2, <2>3, EmitMoves DEF Emit, Report
<1>2. \/ Base' = Base /\ overflowed' = overflowed
      \/ Base' = Base + 1 /\ overflowed' = overflowed \cup {Base + 1}
  BY <1>1, EmitMoves
<1>3. OthersAreOlder'
  <2>1. CASE Base' = Base /\ overflowed' = overflowed
    BY <1>1, <2>1 DEF IInv, OthersAreOlder
  <2>2. CASE Base' = Base + 1 /\ overflowed' = overflowed \cup {Base + 1}
    <3>1. 1..Base' = (1..Base) \cup {Base + 1} /\ Base + 1 \notin 1..Base
      BY <1>1, <2>2
    <3> QED  BY <1>1, <2>2, <3>1 DEF IInv, OthersAreOlder
  <2> QED  BY <1>2, <2>1, <2>2
<1>4. BatchIsNewer'
  BY <1>1 DEF IInv, BatchIsNewer
<1>5. PostsInv'
  <2>1. \A e \in Events : e \in overflowed' \/ e > Base' => posts[e] = 0
    <3> SUFFICES ASSUME NEW e \in Events, e \in overflowed' \/ e > Base'
                 PROVE  e \in overflowed \/ e > Base
      BY DEF IInv, PostsInv
    <3> QED  BY <1>1, <1>2 DEF Events
  <2> QED  BY <1>1, <2>1 DEF IInv, PostsInv, Tried
<1>6. FetchInv'
  BY <1>1 DEF IInv, FetchInv, ResOk
<1>7. OwedInv'
  <2>1. owed' \subseteq 1..emitted'
    BY <1>1 DEF IInv, OwedInv
  <2>2. Range(queue') \subseteq (Base + 1)..(emitted + 1)
    BY <1>1, <1>2, NextQueue
  <2>3. \A e \in Range(queue') : e \in Range(queue) \/ e = emitted + 1
    BY <1>1, <2>2, QueueFacts
  <2>4. emitted + 1 \notin owed
    BY <1>1 DEF IInv, OwedInv
  <2> QED  BY <1>1, <2>1, <2>3, <2>4 DEF IInv, OwedInv, ShutdownDrains
<1> QED  BY <1>1, <1>3, <1>4, <1>5, <1>6, <1>7 DEF IInv

\* The next batch is newer than all that left the client before.
LEMMA TakeStep ==
    ASSUME IInv, TypeOK', TakeBatch
    PROVE  IInv'
<1>1. /\ TypeOK /\ QueueIsNewest /\ QueueIsNewest'
      /\ Base \in Nat /\ Base' \in Nat /\ Base < Base' /\ Base' <= emitted
      /\ Range(batch') = (Base + 1)..Base' /\ Range(batch) = {}
      /\ batch = <<>> /\ fetching = "no" /\ attempt' = 0 /\ emitted \in Nat
      /\ UNCHANGED <<emitted, fetching, shutdown, received, delivered,
                     overflowed, abandoned, posts, owed, warned, untold>>
  <2>1. TypeOK /\ QueueIsNewest /\ FetchInv
    BY DEF IInv
  <2>2. batch = <<>> /\ fetching = "no" /\ Range(batch) = {}
    BY <2>1, RangeEmpty DEF TakeBatch, FetchInv, ResOk, Report
  <2>3. Base' \in Nat /\ emitted \in Nat
    BY <2>1, TakeMoves DEF QueueIsNewest, TypeOK
  <2> QED  BY <2>1, <2>2, <2>3, TakeMoves, QueueFacts DEF TakeBatch, Report
<1>2. 1..Base' = (1..Base) \cup ((Base + 1)..Base')
  BY <1>1
<1>3. \A e \in (Base + 1)..Base' : e \notin 1..Base
  BY <1>1
<1>4. delivered \cup overflowed \cup abandoned = 1..Base
  BY <1>1 DEF IInv, OthersAreOlder
<1>5. OthersAreOlder'
  BY <1>1, <1>2, <1>3, <1>4 DEF IInv, OthersAreOlder
<1>6. BatchIsNewer'
  BY <1>1, <1>4 DEF BatchIsNewer
<1>7. PostsInv'
  <2>1. \A e \in Range(batch') : e \in Events /\ e > Base
    <3>1. emitted \in 0..MaxEvents
      BY <1>1 DEF TypeOK
    <3> QED  BY <1>1, <3>1, SdkAssumption DEF Events
  <2>2. \A e \in Range(batch') : posts'[e] = Tried'
    BY <1>1, <2>1 DEF IInv, PostsInv, Tried
  <2>3. \A e \in Events : e > Base' => e > Base
    BY <1>1 DEF Events
  <2> QED  BY <1>1, <2>2, <2>3 DEF IInv, PostsInv
<1>8. FetchInv'
  BY <1>1 DEF IInv, FetchInv, ResOk
<1>9. OwedInv'
  <2>1. Range(queue') = (Base' + 1)..emitted
    BY <1>1, NextQueue
  <2>2. Range(queue) = (Base + 1)..emitted
    BY <1>1, QueueFacts
  <2>3. Range(queue') \cup Range(batch') \subseteq Range(queue)
    <3> DEFINE b == Base
               c == Base'
    <3>1. b \in Nat /\ c \in Nat /\ b < c /\ c <= emitted /\ emitted \in Nat
      BY <1>1
    <3> HIDE DEF b, c
    <3>2. (c + 1)..emitted \subseteq (b + 1)..emitted /\ (b + 1)..c \subseteq (b + 1)..emitted
      BY <3>1
    <3>3. (Base' + 1)..emitted \subseteq (Base + 1)..emitted
      BY <3>2 DEF b, c
    <3>4. (Base + 1)..Base' \subseteq (Base + 1)..emitted
      BY <3>2 DEF b, c
    <3> QED  BY <1>1, <2>1, <2>2, <3>3, <3>4
  <2> QED  BY <1>1, <2>3 DEF IInv, OwedInv, ShutdownDrains
<1> QED  BY <1>1, <1>5, <1>6, <1>7, <1>8, <1>9 DEF IInv

\* Everything else leaves the queue as it is.
LEMMA SameQueue ==
    ASSUME IInv, UNCHANGED <<queue, emitted>>
    PROVE  /\ TypeOK /\ QueueIsNewest' /\ Base' = Base /\ Range(queue') = Range(queue)
           /\ emitted \in Nat /\ Base \in Nat /\ Base <= emitted
           /\ Range(queue) = (Base + 1)..emitted
           /\ Range(batch) \subseteq Events /\ Range(batch) \subseteq 1..Base
<1>1. TypeOK /\ QueueIsNewest
  BY DEF IInv
<1>2. QueueIsNewest' /\ Base' = Base
  BY <1>1 DEF QueueIsNewest, Base
<1>3. Len(queue) \in Nat /\ Base \in Nat /\ Base + Len(queue) = emitted
  BY <1>1, QueueFacts
<1>4. Base <= emitted /\ emitted \in Nat
  BY <1>3
<1>5. Range(batch) \subseteq 1..Base
  BY DEF IInv, OthersAreOlder
<1> QED  BY <1>1, <1>2, <1>3, <1>4, <1>5, QueueFacts

\* A step that leaves the batch and what left the client alone, and moves at
\* most the chain, the answer of a POST and what the collector received.
LEMMA QuietStep ==
    ASSUME IInv, TypeOK',
           UNCHANGED <<queue, batch, emitted, delivered, overflowed, abandoned,
                       posts, attempt>>,
           FetchInv', OwedInv', (fetching = "no") <=> (fetching' = "no")
    PROVE  IInv'
<1>1. QueueIsNewest' /\ Base' = Base
  BY SameQueue
<1>2. OthersAreOlder' /\ BatchIsNewer'
  BY <1>1 DEF IInv, OthersAreOlder, BatchIsNewer
<1>3. PostsInv'
  BY <1>1 DEF IInv, PostsInv, Tried
<1> QED  BY <1>1, <1>2, <1>3 DEF IInv

\* When the flush of shutdown() ends, the client is empty.
LEMMA ChainStep ==
    ASSUME IInv, TypeOK', TimerFires \/ Shutdown \/ FlushEnds
    PROVE  IInv'
<1>1. UNCHANGED <<queue, batch, emitted, delivered, overflowed, abandoned, posts,
                  attempt, fetching, received, warned, untold>>
  BY DEF TimerFires, Shutdown, FlushEnds, Report
<1>2. FetchInv'
  BY <1>1 DEF IInv, FetchInv, ResOk
<1>3. OwedInv'
  <2>1. CASE TimerFires
    BY <1>1, <2>1 DEF IInv, OwedInv, ShutdownDrains, TimerFires, Report
  <2>2. CASE Shutdown
    <3>1. Range(queue) \subseteq 1..emitted /\ Range(batch) \subseteq 1..emitted
      <4>1. /\ emitted \in Nat /\ Base \in Nat /\ Base <= emitted
            /\ Range(queue) = (Base + 1)..emitted /\ Range(batch) \subseteq 1..Base
        BY <1>1, SameQueue
      <4>2. (Base + 1)..emitted \subseteq 1..emitted /\ 1..Base \subseteq 1..emitted
        BY <4>1
      <4> QED  BY <4>1, <4>2
    <3> QED  BY <1>1, <2>2, <3>1 DEF OwedInv, ShutdownDrains, Shutdown, Report
  <2>3. CASE FlushEnds
    <3>1. Range(queue) = {} /\ Range(batch) = {} /\ owed' = owed
      BY <2>3, RangeEmpty DEF FlushEnds, WhileIsOver, Report
    <3> QED  BY <1>1, <3>1 DEF IInv, OwedInv, ShutdownDrains
  <2> QED  BY <2>1, <2>2, <2>3
<1> QED  BY <1>1, <1>2, <1>3, QuietStep

\* The collector answers, or accepts what the client has given up.
LEMMA CollectorStep ==
    ASSUME IInv, TypeOK',
           CollectorAnswers \/ \E events \in late : CollectorAcceptsLate(events)
    PROVE  IInv'
<1>1. /\ UNCHANGED <<queue, batch, emitted, delivered, overflowed, abandoned, posts,
                     attempt, shutdown, owed>>
      /\ (fetching = "no") <=> (fetching' = "no")
      /\ UNCHANGED <<warned, untold>>
      /\ received \subseteq received' /\ (received' \ received) \cap Malformed = {}
      /\ ResOk' => ResOk \/ Range(batch) \ Malformed \subseteq received'
  BY DEF CollectorAnswers, CollectorAcceptsLate, Accepts, ResOk, Report
<1>2. FetchInv'
  BY <1>1 DEF IInv, FetchInv, ResOk
<1>3. OwedInv'
  BY <1>1 DEF IInv, OwedInv, ShutdownDrains
<1> QED  BY <1>1, <1>2, <1>3, QuietStep

\* Each attempt posts every event of the batch once more.
LEMMA StartStep ==
    ASSUME IInv, TypeOK', StartAttempt
    PROVE  IInv'
<1>1. /\ fetching = "no" /\ fetching' = "sent" /\ batch # <<>>
      /\ UNCHANGED <<queue, batch, attempt, shutdown, emitted, received, delivered,
                     overflowed, abandoned, owed, warned, untold>>
      /\ posts' = [e \in Events |-> IF e \in Range(batch) THEN posts[e] + 1 ELSE posts[e]]
  BY DEF StartAttempt, Report
<1>2. /\ QueueIsNewest' /\ Base' = Base /\ Base \in Nat
      /\ Range(batch) \subseteq Events /\ Range(batch) \subseteq 1..Base /\ TypeOK
  BY <1>1, SameQueue
<1>3. OthersAreOlder' /\ BatchIsNewer'
  BY <1>1, <1>2 DEF IInv, OthersAreOlder, BatchIsNewer
<1>4. PostsInv'
  <2>1. \A e \in Range(batch) : posts'[e] = posts[e] + 1
    BY <1>1, <1>2
  <2>2. \A e \in Events : e \notin Range(batch) => posts'[e] = posts[e]
    BY <1>1
  <2>3. \A e \in Range(batch) : e \notin delivered \cup overflowed \cup abandoned
    BY DEF IInv, OthersAreOlder
  <2>4. delivered \subseteq Events /\ abandoned \subseteq Events
    BY <1>2 DEF TypeOK
  <2>5. \A e \in Range(batch) : posts'[e] = Tried'
    BY <1>1, <2>1 DEF IInv, PostsInv, Tried
  <2>6. \A e \in Range(batch) : ~(e > Base)
    BY <1>2
  <2>7. \A e \in delivered' : posts'[e] <= maxRetries + 1
    BY <1>1, <2>2, <2>3, <2>4 DEF IInv, PostsInv
  <2>8. \A e \in abandoned' : posts'[e] = maxRetries + 1
    BY <1>1, <2>2, <2>3, <2>4 DEF IInv, PostsInv
  <2>9. \A e \in Events : e \in overflowed' \/ e > Base' => posts'[e] = 0
    BY <1>1, <1>2, <2>2, <2>3, <2>6 DEF IInv, PostsInv
  <2> QED  BY <1>1, <2>5, <2>7, <2>8, <2>9 DEF PostsInv
<1>5. FetchInv'
  BY <1>1 DEF IInv, FetchInv, ResOk
<1>6. OwedInv'
  BY <1>1 DEF IInv, OwedInv, ShutdownDrains
<1> QED  BY <1>2, <1>3, <1>4, <1>5, <1>6 DEF IInv

\* An attempt ends: the batch stays for another one, or leaves the client.
LEMMA SettleStep ==
    ASSUME IInv, TypeOK', AttemptSucceeds \/ AttemptFails
    PROVE  IInv'
<1>1. /\ fetching # "no" /\ fetching' = "no"
      /\ UNCHANGED <<queue, shutdown, emitted, received, overflowed, posts, owed>>
  BY DEF AttemptSucceeds, AttemptFails, ResOk
<1>2. /\ QueueIsNewest' /\ Base' = Base /\ Base \in Nat /\ TypeOK
      /\ attempt \in 0..maxRetries /\ maxRetries \in Nat
  BY <1>1, SameQueue, SdkAssumption DEF TypeOK
<1>3. \A e \in Range(batch) : posts[e] = attempt + 1
  BY <1>1 DEF IInv, PostsInv, Tried
<1>4. CASE AttemptSucceeds
  <2>1. /\ batch' = <<>> /\ Range(batch') = {} /\ abandoned' = abandoned
        /\ delivered' = delivered \cup Range(batch)
    BY <1>4, RangeEmpty DEF AttemptSucceeds
  <2>2. OthersAreOlder' /\ BatchIsNewer'
    BY <1>1, <1>2, <2>1 DEF IInv, OthersAreOlder, BatchIsNewer
  <2>3. \A e \in Range(batch) : posts[e] <= maxRetries + 1
    BY <1>2, <1>3
  <2>4. PostsInv'
    BY <1>1, <1>2, <2>1, <2>3 DEF IInv, PostsInv
  <2>5. /\ Range(batch) \ Malformed \subseteq received
        /\ warned' \cup untold' = warned \cup untold \cup (Range(batch) \cap Malformed)
    BY <1>4 DEF IInv, FetchInv, AttemptSucceeds
  <2>6. FetchInv' /\ OwedInv'
    BY <1>1, <2>1, <2>5 DEF IInv, FetchInv, ResOk, OwedInv, ShutdownDrains
  <2> QED  BY <1>2, <2>2, <2>4, <2>6 DEF IInv
<1>5. CASE AttemptFails /\ AnotherAttempt
  <2>1. UNCHANGED <<batch, abandoned, delivered, warned, untold>> /\ attempt' = attempt + 1
    BY <1>5 DEF AttemptFails, Report
  <2>2. OthersAreOlder' /\ BatchIsNewer'
    BY <1>1, <1>2, <2>1 DEF IInv, OthersAreOlder, BatchIsNewer
  <2>3. PostsInv'
    BY <1>1, <1>2, <1>3, <2>1 DEF IInv, PostsInv, Tried
  <2>4. FetchInv' /\ OwedInv'
    BY <1>1, <2>1 DEF IInv, FetchInv, ResOk, OwedInv, ShutdownDrains
  <2> QED  BY <1>2, <2>2, <2>3, <2>4 DEF IInv
<1>6. CASE AttemptFails /\ ~AnotherAttempt
  <2>1. /\ batch' = <<>> /\ Range(batch') = {}
        /\ UNCHANGED <<delivered, warned, untold>> /\ abandoned' = abandoned \cup Range(batch)
    BY <1>6, RangeEmpty DEF AttemptFails, Report
  <2>2. OthersAreOlder' /\ BatchIsNewer'
    BY <1>1, <1>2, <2>1 DEF IInv, OthersAreOlder, BatchIsNewer
  <2>3. \A e \in Range(batch) : posts[e] = maxRetries + 1
    BY <1>2, <1>3, <1>6 DEF AnotherAttempt
  <2>4. PostsInv'
    BY <1>1, <1>2, <2>1, <2>3 DEF IInv, PostsInv
  <2>5. FetchInv' /\ OwedInv'
    BY <1>1, <2>1 DEF IInv, FetchInv, ResOk, OwedInv, ShutdownDrains
  <2> QED  BY <1>2, <2>2, <2>4, <2>5 DEF IInv
<1> QED  BY <1>4, <1>5, <1>6

\* Every step keeps the inductive invariant.
LEMMA InvNext == IInv /\ [Next]_vars => IInv'
<1> SUFFICES ASSUME IInv, [Next]_vars PROVE IInv'
  OBVIOUS
<1>1. TypeOK'
  BY TypeNext DEF IInv
<1>2. CASE Emit
  BY <1>1, <1>2, EmitStep
<1>3. CASE TakeBatch
  BY <1>1, <1>3, TakeStep
<1>4. CASE TimerFires \/ Shutdown \/ FlushEnds
  BY <1>1, <1>4, ChainStep
<1>5. CASE StartAttempt
  BY <1>1, <1>5, StartStep
<1>6. CASE AttemptSucceeds \/ AttemptFails
  BY <1>1, <1>6, SettleStep
<1>7. CASE CollectorAnswers \/ \E events \in late : CollectorAcceptsLate(events)
  BY <1>1, <1>7, CollectorStep
<1>8. CASE UNCHANGED vars
  <2>1. UNCHANGED <<queue, batch, emitted, delivered, overflowed, abandoned, posts,
                    attempt, fetching, received, shutdown, owed, warned, untold>>
    BY <1>8 DEF vars, Report
  <2>2. FetchInv' /\ OwedInv'
    BY <2>1 DEF IInv, FetchInv, ResOk, OwedInv, ShutdownDrains
  <2> QED  BY <1>1, <2>1, <2>2, QuietStep
<1> QED  BY <1>2, <1>3, <1>4, <1>5, <1>6, <1>7, <1>8 DEF Next

\* The inductive invariant holds in every state of the client.
THEOREM SdkInvariant == Spec => []IInv
  BY InvInit, InvNext, PTL DEF Spec

\* The variables hold values of their types, and the client never keeps more than
\* opts.maxBuffered events in the queue and opts.maxBatch in the batch.
THEOREM SdkTypeCorrect == Spec => []TypeOK
<1>1. IInv => TypeOK
  BY DEF IInv
<1> QED  BY <1>1, SdkInvariant, PTL
-----------------------------------------------------------------------------
\* Every emitted event is in exactly one place, and what left the client with a 2xx
\* was received, or rejected as malformed: then onWarn was told, unless the answer
\* could not be read.  However flushes, failures and overflows interleave.
THEOREM EventsAreAccounted == Spec => []Accounted
<1>1. ASSUME IInv PROVE Accounted
  <2>1. /\ TypeOK /\ QueueIsNewest /\ OthersAreOlder /\ FetchInv
    BY <1>1 DEF IInv
  <2>2. /\ emitted \in Nat /\ Base \in Nat /\ Base <= emitted
        /\ Range(queue) = (Base + 1)..emitted
    <3>1. Len(queue) \in Nat /\ Base \in Nat /\ Base + Len(queue) = emitted
      BY <2>1, QueueFacts
    <3> QED  BY <2>1, <3>1, QueueFacts
  <2>3. 1..emitted = (1..Base) \cup ((Base + 1)..emitted)
    BY <2>2
  <2>4. \A e \in (Base + 1)..emitted : e \notin 1..Base
    BY <2>2
  <2>5. /\ DOMAIN Places = 1..5
        /\ Places[1] = Range(queue) /\ Places[2] = Range(batch)
        /\ Places[3] = delivered /\ Places[4] = overflowed /\ Places[5] = abandoned
    BY DEF Places
  <2>6. UNION Range(Places)
           = Range(queue) \cup Range(batch) \cup delivered \cup overflowed \cup abandoned
    <3>1. Range(Places) = {Range(queue), Range(batch), delivered, overflowed, abandoned}
      <4>1. Range(Places) = {Places[i] : i \in 1..5}
        BY <2>5 DEF Range
      <4> HIDE DEF Places
      <4>2. 1..5 = {1, 2, 3, 4, 5}
        OBVIOUS
      <4> QED  BY <2>5, <4>1, <4>2
    <3> QED  BY <3>1
  <2>7. UNION Range(Places) = 1..emitted
    BY <2>1, <2>2, <2>3, <2>6 DEF OthersAreOlder
  <2>8. Range(queue) \cap (Range(batch) \cup delivered \cup overflowed \cup abandoned) = {}
    BY <2>1, <2>2, <2>4 DEF OthersAreOlder
  <2>9. \A i, j \in 1..5 : i # j => Places[i] \cap Places[j] = {}
    <3> SUFFICES ASSUME NEW i \in 1..5, NEW j \in 1..5, i < j
                 PROVE  Places[i] \cap Places[j] = {}
      OBVIOUS
    <3>1. CASE i = 1
      BY <2>5, <2>8, <3>1
    <3>2. CASE i = 2
      BY <2>1, <2>5, <3>2 DEF OthersAreOlder
    <3>3. CASE i = 3
      BY <2>1, <2>5, <3>3 DEF OthersAreOlder
    <3>4. CASE i = 4
      BY <2>1, <2>5, <3>4 DEF OthersAreOlder
    <3> QED  BY <3>1, <3>2, <3>3, <3>4
  <2> QED  BY <2>1, <2>5, <2>7, <2>9 DEF Accounted, FetchInv, ResOk
<1> QED  BY <1>1, SdkInvariant, PTL

\* Events are posted in the order they were emitted, and the full queue drops
\* its oldest.
THEOREM OldestPostedFirst == Spec => []SentInOrder
<1>1. ASSUME IInv PROVE SentInOrder
  <2>1. /\ TypeOK /\ QueueIsNewest /\ OthersAreOlder /\ BatchIsNewer /\ PostsInv
    BY <1>1 DEF IInv
  <2>2. /\ emitted \in 0..MaxEvents /\ Base \in Nat /\ Range(queue) = (Base + 1)..emitted
    BY <2>1, QueueFacts DEF TypeOK
  <2>3. ASSUME NEW e \in 1..emitted, NEW f \in 1..emitted, e < f, posts[f] > 0,
               e \notin delivered \cup overflowed \cup abandoned
        PROVE  e \in Range(batch) /\ f \in Range(batch)
    <3>1. f \in Events
      BY <2>2, SdkAssumption DEF Events
    <3>2. f \notin overflowed /\ f <= Base
      BY <2>1, <2>2, <2>3, <3>1 DEF PostsInv
    <3>3. e \in 1..Base /\ f \in 1..Base
      BY <2>2, <2>3, <3>2
    <3>4. e \in Range(batch)
      BY <2>1, <2>3, <3>3 DEF OthersAreOlder
    <3>5. f \notin delivered \cup abandoned
      <4>1. f < e => FALSE
        BY <2>2, <2>3
      <4> QED  BY <2>1, <3>4, <4>1 DEF BatchIsNewer
    <3> QED  BY <2>1, <3>2, <3>3, <3>4, <3>5 DEF OthersAreOlder
  <2>4. ASSUME NEW e \in overflowed \cup Range(batch), NEW f \in Range(queue)
        PROVE  e < f
    <3>1. e \in 1..Base /\ f \in (Base + 1)..emitted
      BY <2>1, <2>2 DEF OthersAreOlder
    <3> QED  BY <2>2, <3>1
  <2> QED  BY <2>3, <2>4 DEF SentInOrder
<1> QED  BY <1>1, SdkInvariant, PTL

\* No event is posted more than maxRetries + 1 times, nor given up before.
THEOREM NoRetryStorm == Spec => []RetriesBounded
<1>1. ASSUME IInv PROVE RetriesBounded
  <2>1. /\ TypeOK /\ QueueIsNewest /\ OthersAreOlder /\ PostsInv
    BY <1>1 DEF IInv
  <2>2. /\ emitted \in 0..MaxEvents /\ attempt \in 0..maxRetries /\ maxRetries \in Nat
        /\ MaxEvents \in Nat /\ Base \in Nat /\ Range(queue) = (Base + 1)..emitted
    BY <2>1, QueueFacts, SdkAssumption DEF TypeOK
  <2> SUFFICES ASSUME NEW e \in 1..emitted
               PROVE  /\ posts[e] <= maxRetries + 1
                      /\ e \in abandoned => posts[e] = maxRetries + 1
                      /\ e \in overflowed \cup Range(queue) => posts[e] = 0
    BY DEF RetriesBounded
  <2>3. e \in Events
    BY <2>2 DEF Events
  <2>4. e \in overflowed \cup Range(queue) => posts[e] = 0
    <3>1. e \in Range(queue) => e > Base
      BY <2>2
    <3> QED  BY <2>1, <2>3, <3>1 DEF PostsInv
  <2>5. e \in abandoned => posts[e] = maxRetries + 1
    BY <2>1 DEF PostsInv
  <2>6. e \in Range(batch) => posts[e] <= maxRetries + 1
    BY <2>1, <2>2 DEF PostsInv, Tried
  <2>7. e \in delivered => posts[e] <= maxRetries + 1
    BY <2>1 DEF PostsInv
  <2>8. \/ e \in overflowed \cup Range(queue) \/ e \in abandoned
        \/ e \in Range(batch) \/ e \in delivered
    <3>1. e \in 1..Base \/ e \in Range(queue)
      BY <2>2
    <3> QED  BY <2>1, <3>1 DEF OthersAreOlder
  <2>9. 0 <= maxRetries + 1 /\ maxRetries + 1 <= maxRetries + 1
    BY <2>2
  <2> QED  BY <2>4, <2>5, <2>6, <2>7, <2>8, <2>9
<1> QED  BY <1>1, SdkInvariant, PTL

\* When shutdown() resolves, nothing the client held when it was called is left
\* in it.
THEOREM ShutdownLeavesNothing == Spec => []ShutdownDrains
<1>1. IInv => ShutdownDrains
  BY DEF IInv, OwedInv
<1> QED  BY <1>1, SdkInvariant, PTL
=============================================================================
