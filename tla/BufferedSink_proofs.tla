------------------------ MODULE BufferedSink_proofs ------------------------
(***************************************************************************)
(* Proofs about what comes in.  BufferedSink, for every set of callers,    *)
(* messages and batches and every capacity: all the safety invariants the  *)
(* runs check follow from one inductive invariant, IInv, which adds to them*)
(* what a call that waits knows of the broker and of the other calls.  Then*)
(* Wrappers, which report what is sent, and Ingest, which checks it.       *)
(***************************************************************************)
EXTENDS BufferedSink, Collection, SequenceTheorems, WellFoundedInduction, TLAPS

\* The messages a call that waits is answerable for.
Load(c) == Range(Pending(c))
-----------------------------------------------------------------------------
\* The concatenation of two injective sequences without common elements is
\* injective.
LEMMA ConcatInjective ==
    ASSUME NEW S, NEW s \in Seq(S), NEW t \in Seq(S),
           IsInjective(s), IsInjective(t), Range(s) \cap Range(t) = {}
    PROVE  IsInjective(s \o t)
<1> DEFINE u == s \o t
<1>1. /\ DOMAIN u = 1 .. Len(s) + Len(t)
      /\ \A i \in DOMAIN u : u[i] = IF i <= Len(s) THEN s[i] ELSE t[i - Len(s)]
  BY ConcatProperties, LenProperties
<1>2. /\ Len(s) \in Nat /\ DOMAIN s = 1 .. Len(s)
      /\ Len(t) \in Nat /\ DOMAIN t = 1 .. Len(t)
  BY LenProperties
<1>3. \A i \in DOMAIN s, j \in DOMAIN t : s[i] # t[j]
  BY DEF Range
<1>4. ASSUME NEW i \in DOMAIN u, NEW j \in DOMAIN u, u[i] = u[j]
      PROVE  i = j
  <2>1. CASE i <= Len(s) /\ j <= Len(s)
    <3>1. i \in DOMAIN s /\ j \in DOMAIN s /\ s[i] = s[j]
      BY <1>1, <1>2, <1>4, <2>1
    <3> QED  BY <3>1 DEF IsInjective
  <2>2. CASE ~(i <= Len(s)) /\ ~(j <= Len(s))
    <3>1. /\ i - Len(s) \in DOMAIN t /\ j - Len(s) \in DOMAIN t
          /\ t[i - Len(s)] = t[j - Len(s)]
      BY <1>1, <1>2, <1>4, <2>2
    <3>2. i - Len(s) = j - Len(s)
      BY <3>1 DEF IsInjective
    <3> QED  BY <1>1, <1>2, <3>2
  <2>3. CASE i <= Len(s) /\ ~(j <= Len(s))
    <3>1. i \in DOMAIN s /\ j - Len(s) \in DOMAIN t /\ s[i] = t[j - Len(s)]
      BY <1>1, <1>2, <1>4, <2>3
    <3> QED  BY <1>3, <3>1
  <2>4. CASE ~(i <= Len(s)) /\ j <= Len(s)
    <3>1. j \in DOMAIN s /\ i - Len(s) \in DOMAIN t /\ s[j] = t[i - Len(s)]
      BY <1>1, <1>2, <1>4, <2>4
    <3> QED  BY <1>3, <3>1
  <2> QED  BY <2>1, <2>2, <2>3, <2>4
<1> QED  BY <1>4 DEF IsInjective

\* A prefix of an injective sequence is injective.
LEMMA PrefixInjective ==
    ASSUME NEW S, NEW s \in Seq(S), NEW t \in Seq(S), IsInjective(s \o t)
    PROVE  IsInjective(s)
<1> DEFINE u == s \o t
<1>1. /\ DOMAIN u = 1 .. Len(s) + Len(t)
      /\ \A i \in DOMAIN u : u[i] = IF i <= Len(s) THEN s[i] ELSE t[i - Len(s)]
  BY ConcatProperties, LenProperties
<1>2. /\ Len(s) \in Nat /\ DOMAIN s = 1 .. Len(s) /\ Len(t) \in Nat
  BY LenProperties
<1>3. \A i \in DOMAIN s : i \in DOMAIN u /\ u[i] = s[i]
  BY <1>1, <1>2
<1> QED  BY <1>3 DEF IsInjective

\* What a call is answerable for is its backlog and its own messages.
LEMMA PendingFacts ==
    ASSUME TypeOK, NEW c \in Callers
    PROVE  /\ Pending(c) \in Seq(Messages)
           /\ Load(c) = Range(call[c].backlog) \cup Range(call[c].messages)
           /\ Load(c) \in SUBSET Messages
           /\ Range(call[c].messages) \in SUBSET Messages
           /\ Range(call[c].backlog) \in SUBSET Messages
<1>1. call[c].backlog \in Seq(Messages) /\ call[c].messages \in Seq(Messages)
  BY DEF TypeOK
<1> QED
  BY <1>1, ConcatProperties, RangeConcatenation, RangeOfSeq DEF Pending, Load
-----------------------------------------------------------------------------
\* Type correctness.
CallRecord == [pc : Waiting \cup {"idle"}, backlog : Seq(Messages),
               messages : Seq(Messages), stored : SUBSET Messages]

\* An activation that has returned is a record of the right type.
LEMMA NoCallType == NoCall \in CallRecord
  BY EmptySeq DEF NoCall, CallRecord

LEMMA TypeInit == Init => TypeOK
<1> SUFFICES ASSUME Init PROVE TypeOK
  OBVIOUS
<1>1. call \in [Callers -> CallRecord]
  BY NoCallType DEF Init
<1>2. buffer \in Seq(Messages)
  BY EmptySeq DEF Init
<1> QED  BY <1>1, <1>2 DEF Init, TypeOK, CallRecord

\* Every step of publish() and of the broker keeps the types.
LEMMA TypeNext == TypeOK /\ [Next]_vars => TypeOK'
<1> SUFFICES ASSUME TypeOK, [Next]_vars
             PROVE  TypeOK'
  OBVIOUS
<1> USE SinkAssumption
<1>1. ASSUME NEW c \in Callers, NEW messages \in Batches, Publish(c, messages)
      PROVE  TypeOK'
  <2>1. messages \in Seq(Messages)
    OBVIOUS
  <2>2. CASE buffer \o messages = <<>>
    <3>1. buffer' \in Seq(Messages)
      BY <1>1, EmptySeq DEF Publish
    <3>2. overlapped' \in BOOLEAN /\ degraded' \in BOOLEAN
      BY <1>1, <2>2 DEF Publish
    <3> QED  BY <1>1, <2>2, <3>1, <3>2 DEF Publish, TypeOK
  <2>3. CASE buffer \o messages # <<>>
    <3>1. InnerPublishStarts \in Waiting
      BY DEF TypeOK, InnerPublishStarts, Waiting
    <3> DEFINE r == [pc |-> InnerPublishStarts, backlog |-> buffer,
                     messages |-> messages, stored |-> {}]
    <3>2. call' \in [Callers -> CallRecord]
      <4>1. call' = [call EXCEPT ![c] = r]
        BY <1>1, <2>3 DEF Publish, StartSend
      <4>2. r \in CallRecord
        BY <2>1, <3>1 DEF TypeOK, CallRecord
      <4>3. call \in [Callers -> CallRecord]
        BY DEF TypeOK, CallRecord
      <4> HIDE DEF r
      <4> QED  BY <4>1, <4>2, <4>3
    <3>3. producer' \in {"none", "connecting", "ready", "broken"}
      BY <1>1, <2>3 DEF Publish, StartSend, TypeOK
    <3>4. buffer' \in Seq(Messages) /\ overlapped' \in BOOLEAN
      BY <1>1, EmptySeq DEF Publish
    <3> QED  BY <1>1, <2>3, <3>2, <3>3, <3>4 DEF Publish, TypeOK, CallRecord
  <2> QED  BY <2>2, <2>3
<1>2. ASSUME NEW c \in Callers, Connected(c)
      PROVE  TypeOK'
  BY <1>2 DEF Connected, TypeOK, Waiting
<1>3. ASSUME NEW c \in Callers, NEW m \in Messages, Store(c, m)
      PROVE  TypeOK'
  BY <1>3 DEF Store, TypeOK
<1>4. ASSUME NEW c \in Callers, Succeed(c)
      PROVE  TypeOK'
  BY <1>4, NoCallType, PendingFacts DEF Succeed, TypeOK, CallRecord
<1>5. ASSUME NEW c \in Callers, CatchBlock(c)
      PROVE  /\ buffer' \in Seq(Messages) /\ degraded' \in BOOLEAN
             /\ acked' \in SUBSET Messages /\ lostAcks' \in SUBSET Messages
             /\ call' \in [Callers -> CallRecord]
  BY <1>5, NoCallType, PendingFacts
     DEF CatchBlock, Buffer, PutBack, TypeOK, CallRecord
<1>6. ASSUME NEW c \in Callers, ConnectFails(c)
      PROVE  TypeOK'
  BY <1>5, <1>6 DEF ConnectFails, TypeOK, CallRecord
<1>7. ASSUME NEW c \in Callers, SendFails(c)
      PROVE  TypeOK'
  BY <1>5, <1>7 DEF SendFails, TypeOK, CallRecord
<1>8. CASE BrokerChanges
  BY <1>8 DEF BrokerChanges, TypeOK
<1>9. CASE UNCHANGED vars
  BY <1>9 DEF vars, TypeOK
<1> QED
  BY <1>1, <1>2, <1>3, <1>4, <1>6, <1>7, <1>8, <1>9 DEF Next, Resolve

\* The variables of the sink always hold values of their types.
THEOREM SinkTypeCorrect == Spec => []TypeOK
  BY TypeInit, TypeNext, PTL DEF Spec
-----------------------------------------------------------------------------
(* The inductive invariant.                                                 *)

\* A backlog taken from the buffer fits into it again.
BacklogFits == \A c \in InFlight : Len(call[c].backlog) <= Capacity

\* What a send has stored is at the broker, and is part of what it sends.
StoredInv == \A c \in InFlight : /\ call[c].stored \subseteq topic
                                 /\ call[c].stored \subseteq Load(c)

\* A message at the broker had its acknowledgement lost, or is being sent
\* right now by the call that stored it, or is settled for good.
TopicInv == \A m \in topic : \/ m \in lostAcks
                             \/ \E c \in InFlight : m \in call[c].stored
                             \/ m \in acked /\ m \notin Held

\* While no two calls ever overlapped at most one waits, it has the whole
\* buffer, its own messages are promised to nobody yet, and a sink that is
\* not degraded keeps nothing.
Alone ==
    /\ \A c, d \in InFlight : c = d
    /\ InFlight # {} => buffer = <<>>
    /\ \A c \in InFlight : Range(call[c].messages) \cap acked = {}
    /\ InFlight = {} /\ ~degraded => buffer = <<>>

SerialInv == ~overlapped => Alone /\ AckedNeverLost

IInv == /\ TypeOK
        /\ BufferBounded
        /\ BacklogFits
        /\ BacklogIsAcked
        /\ SoleOwner
        /\ StoredInv
        /\ TopicInv
        /\ DuplicatesHadLostAck
        /\ SerialInv

\* Membership in Held, one message at a time.
LEMMA HeldMember ==
    \A m : m \in Held <=> \/ m \in Range(buffer)
                          \/ \E c \in InFlight : m \in Load(c)
  BY DEF Held, Load

\* The same after a step.
LEMMA HeldMemberNext ==
    \A m : m \in Held' <=> \/ m \in Range(buffer')
                           \/ \E c \in InFlight' : m \in Load(c)'
  BY DEF Held, Load

\* An empty buffer holds nothing.
LEMMA RangeEmpty == Range(<<>>) = {}
  BY DEF Range

-----------------------------------------------------------------------------
(* The steps.  A step is a publish() that starts to send, one that ends (by *)
(* success or in the catch block), or one that leaves every call's messages *)
(* where they are.                                                          *)

\* A publish() with nothing to send changes neither buffer nor calls.
LEMMA EmptyStep ==
    ASSUME IInv, TypeOK', NEW c \in Callers, NEW messages \in Batches,
           Publish(c, messages), buffer \o messages = <<>>
    PROVE  IInv'
<1>1. buffer = <<>> /\ buffer' = <<>> /\ call' = call
  <2>1. buffer \in Seq(Messages) /\ messages \in Seq(Messages)
    BY SinkAssumption DEF IInv, TypeOK
  <2>2. Len(buffer) + Len(messages) = 0
    BY <2>1, ConcatProperties, EmptySeq
  <2>3. Len(buffer) \in Nat /\ Len(messages) \in Nat
    BY <2>1, LenProperties
  <2> QED  BY <2>1, <2>2, <2>3, EmptySeq DEF Publish
<1>2. /\ UNCHANGED <<topic, acked, lostAcks, duplicated>>
      /\ overlapped' = (overlapped \/ InFlight # {})
  BY DEF Publish
<1>3. /\ InFlight' = InFlight /\ Held' = Held
      /\ \A d \in Callers : Load(d)' = Load(d) /\ Pending(d)' = Pending(d)
  BY <1>1 DEF InFlight, Held, Load, Pending
<1>4. BufferBounded' /\ BacklogFits' /\ BacklogIsAcked' /\ StoredInv'
  BY <1>1, <1>2, <1>3
     DEF IInv, BufferBounded, BacklogFits, BacklogIsAcked, StoredInv, InFlight
<1>5. SoleOwner' /\ TopicInv' /\ DuplicatesHadLostAck'
  BY <1>1, <1>2, <1>3
     DEF IInv, SoleOwner, TopicInv, DuplicatesHadLostAck, InFlight
<1>6. SerialInv'
  <2>1. SUFFICES ASSUME ~overlapped' PROVE (Alone /\ AckedNeverLost)'
    BY DEF SerialInv
  <2>2. Alone /\ AckedNeverLost /\ InFlight = {}
    BY <1>2, <2>1 DEF IInv, SerialInv
  <2> QED  BY <1>1, <1>2, <1>3, <2>2 DEF Alone, AckedNeverLost
<1> QED  BY <1>4, <1>5, <1>6 DEF IInv

\* A call that starts to send takes the buffer over.
LEMMA StartStep ==
    ASSUME IInv, TypeOK', NEW c \in Callers, NEW messages \in Batches,
           Publish(c, messages), buffer \o messages # <<>>
    PROVE  IInv'
<1>t. /\ TypeOK /\ messages \in Seq(Messages) /\ IsInjective(messages)
      /\ buffer \in Seq(Messages)
  BY SinkAssumption DEF IInv, TypeOK
<1>1. /\ call[c].pc = "idle" /\ buffer' = <<>> /\ MayOffer(messages)
      /\ overlapped' = (overlapped \/ InFlight # {})
      /\ call' = [call EXCEPT ![c] =
             [pc |-> InnerPublishStarts, backlog |-> buffer,
              messages |-> messages, stored |-> {}]]
      /\ UNCHANGED <<topic, acked, lostAcks, duplicated, degraded>>
  BY DEF Publish, StartSend
<1>2. /\ call'[c].pc \in Waiting /\ call'[c].backlog = buffer
      /\ call'[c].messages = messages /\ call'[c].stored = {}
  BY <1>t, <1>1 DEF TypeOK, InnerPublishStarts, Waiting
<1>3. \A d \in Callers \ {c} : call'[d] = call[d]
  BY <1>t, <1>1 DEF TypeOK
<1>4. c \notin InFlight
  BY <1>1 DEF InFlight, Waiting
<1>5. InFlight' = InFlight \cup {c}
  BY <1>2, <1>3 DEF InFlight
<1>6. \A d \in InFlight :
         /\ d \in Callers /\ d # c /\ call'[d] = call[d]
         /\ Pending(d)' = Pending(d) /\ Load(d)' = Load(d)
  BY <1>3, <1>4 DEF InFlight, Pending, Load
<1>7. /\ Pending(c)' = buffer \o messages
      /\ Load(c)' = Range(buffer) \cup Range(messages)
  BY <1>t, <1>2, RangeConcatenation DEF Pending, Load
<1>8. \A m : m \in Held' <=> m \in Held \/ m \in Range(messages)
  BY <1>1, <1>5, <1>6, <1>7, HeldMember, HeldMemberNext, RangeEmpty
<1>9. Range(messages) \cap (acked \cup Held) = {}
  BY <1>1 DEF MayOffer
<1>10. BufferBounded'
  BY <1>1, EmptySeq, SinkAssumption DEF BufferBounded
<1>11. BacklogFits'
  BY <1>2, <1>5, <1>6 DEF IInv, BufferBounded, BacklogFits
<1>12. BacklogIsAcked'
  BY <1>1, <1>2, <1>5, <1>6, RangeEmpty DEF IInv, BacklogIsAcked
<1>13. SoleOwner'
  <2>1. IsInjective(Pending(c)')
    <3>1. Range(buffer) \cap Range(messages) = {}
      BY <1>9, HeldMember
    <3> QED  BY <1>t, <1>7, <3>1, ConcatInjective DEF IInv, SoleOwner
  <2>2. \A d \in InFlight : Load(d) \cap Load(c)' = {}
    BY <1>7, <1>9, HeldMember DEF IInv, SoleOwner, Load
  <2>3. \A d \in InFlight : IsInjective(Pending(d)')
    BY <1>6 DEF IInv, SoleOwner
  <2>4. \A d \in InFlight : \A e \in InFlight \ {d} :
          Load(d)' \cap Load(e)' = {}
    BY <1>6 DEF IInv, SoleOwner, Load
  <2>5. IsInjective(buffer')
    BY <1>1 DEF IsInjective
  <2>6. \A d \in InFlight' : \A e \in InFlight' \ {d} :
          Load(d)' \cap Load(e)' = {}
    BY <1>5, <1>6, <2>2, <2>4
  <2> QED
    BY <1>1, <1>5, <2>1, <2>3, <2>5, <2>6, RangeEmpty DEF SoleOwner, Load
<1>14. StoredInv'
  BY <1>1, <1>2, <1>5, <1>6 DEF IInv, StoredInv
<1>15. TopicInv'
  BY <1>1, <1>5, <1>6, <1>8, <1>9 DEF IInv, TopicInv
<1>16. DuplicatesHadLostAck'
  BY <1>1 DEF IInv, DuplicatesHadLostAck
<1>17. SerialInv'
  <2>1. SUFFICES ASSUME ~overlapped' PROVE (Alone /\ AckedNeverLost)'
    BY DEF SerialInv
  <2>2. Alone /\ AckedNeverLost /\ InFlight = {}
    BY <1>1, <2>1 DEF IInv, SerialInv
  <2>3. InFlight' = {c}
    BY <1>5, <2>2
  <2>4. AckedNeverLost'
    BY <1>1, <1>8, <2>2 DEF AckedNeverLost
  <2> QED  BY <1>1, <1>2, <1>9, <2>3, <2>4 DEF Alone
<1> QED
  BY <1>10, <1>11, <1>12, <1>13, <1>14, <1>15, <1>16, <1>17 DEF IInv

\* When a call ends, the other calls keep what they have.
LEMMA EndFacts ==
    ASSUME TypeOK, NEW c \in InFlight, call' = [call EXCEPT ![c] = NoCall]
    PROVE  /\ InFlight' = InFlight \ {c}
           /\ \A d \in InFlight' :
                 /\ d \in InFlight /\ d # c /\ call'[d] = call[d]
                 /\ Pending(d)' = Pending(d) /\ Load(d)' = Load(d)
<1>1. c \in Callers /\ call'[c] = NoCall
  BY DEF InFlight, TypeOK
<1>2. \A d \in Callers \ {c} : call'[d] = call[d]
  BY DEF TypeOK
<1>3. InFlight' = InFlight \ {c}
  BY <1>1, <1>2 DEF InFlight, NoCall, Waiting
<1> QED  BY <1>2, <1>3 DEF InFlight, Pending, Load

\* A call that succeeds has everything it sent at the broker.
LEMMA SucceedStep ==
    ASSUME IInv, TypeOK', NEW c \in Callers, Succeed(c)
    PROVE  IInv'
<1>t. TypeOK /\ c \in InFlight
  BY DEF IInv, Succeed, InFlight, Waiting
<1>1. /\ call[c].stored = Load(c) /\ degraded' = FALSE
      /\ acked' = acked \cup Range(call[c].messages)
      /\ call' = [call EXCEPT ![c] = NoCall]
      /\ UNCHANGED <<buffer, topic, lostAcks, duplicated, overlapped>>
  BY DEF Succeed, Load
<1>2. /\ InFlight' = InFlight \ {c}
      /\ \A d \in InFlight' :
            /\ d \in InFlight /\ d # c /\ call'[d] = call[d]
            /\ Pending(d)' = Pending(d) /\ Load(d)' = Load(d)
  BY <1>t, <1>1, EndFacts
<1>3. Load(c) = Range(call[c].backlog) \cup Range(call[c].messages)
  BY <1>t, PendingFacts
<1>4. Load(c) \subseteq acked'
  BY <1>t, <1>1, <1>3 DEF IInv, BacklogIsAcked
<1>5. \A m : m \in Held' <=> m \in Held /\ m \notin Load(c)
  <2>1. \A d \in InFlight' : Load(d) \cap Load(c) = {}
    BY <1>t, <1>2 DEF IInv, SoleOwner, Load
  <2>2. Range(buffer) \cap Load(c) = {}
    BY <1>t DEF IInv, SoleOwner, Load
  <2> QED  BY <1>1, <1>2, <2>1, <2>2, HeldMember, HeldMemberNext
<1>6. BufferBounded' /\ BacklogFits'
  BY <1>1, <1>2 DEF IInv, BufferBounded, BacklogFits
<1>7. BacklogIsAcked'
  BY <1>1, <1>2 DEF IInv, BacklogIsAcked
<1>8. SoleOwner'
  BY <1>1, <1>2 DEF IInv, SoleOwner
<1>9. StoredInv'
  BY <1>1, <1>2 DEF IInv, StoredInv
<1>10. TopicInv'
  <2> SUFFICES ASSUME NEW m \in topic
               PROVE  \/ m \in lostAcks
                      \/ \E d \in InFlight' : m \in call'[d].stored
                      \/ m \in acked' /\ m \notin Held'
    BY <1>1 DEF TopicInv
  <2>1. \/ m \in lostAcks
        \/ \E d \in InFlight : m \in call[d].stored
        \/ m \in acked /\ m \notin Held
    BY DEF IInv, TopicInv
  <2>2. CASE m \in Load(c)
    BY <1>4, <1>5, <2>2
  <2>3. CASE m \notin Load(c)
    <3>1. \A d \in InFlight' : call'[d].stored = call[d].stored
      BY <1>2
    <3> QED  BY <1>1, <1>2, <1>5, <2>1, <2>3, <3>1
  <2> QED  BY <2>2, <2>3
<1>11. DuplicatesHadLostAck'
  BY <1>1 DEF IInv, DuplicatesHadLostAck
<1>12. SerialInv'
  <2>1. SUFFICES ASSUME ~overlapped' PROVE (Alone /\ AckedNeverLost)'
    BY DEF SerialInv
  <2>2. Alone /\ AckedNeverLost
    BY <1>1, <2>1 DEF IInv, SerialInv
  <2>3. InFlight' = {} /\ buffer' = <<>>
    BY <1>t, <1>1, <1>2, <2>2 DEF Alone
  <2>4. Alone'
    BY <2>3 DEF Alone
  <2>5. Load(c) \subseteq topic
    BY <1>t, <1>1 DEF IInv, StoredInv
  <2>6. AckedNeverLost'
    BY <1>1, <1>3, <1>5, <2>2, <2>5 DEF AckedNeverLost
  <2> QED  BY <2>4, <2>6
<1> QED
  BY <1>6, <1>7, <1>8, <1>9, <1>10, <1>11, <1>12 DEF IInv

\* The catch block keeps the acked messages of its call and drops only what
\* it refuses.
LEMMA CatchStep ==
    ASSUME IInv, TypeOK', NEW c \in InFlight, CatchBlock(c),
           UNCHANGED <<topic, duplicated, overlapped>>
    PROVE  IInv'
<1>t. TypeOK /\ c \in Callers
  BY DEF IInv, InFlight
<1>1. /\ degraded' = TRUE /\ lostAcks' = lostAcks \cup call[c].stored
      /\ call' = [call EXCEPT ![c] = NoCall]
      /\ IF Fits(c) THEN /\ buffer' = Pending(c)
                         /\ acked' = acked \cup Range(call[c].messages)
                    ELSE buffer' = call[c].backlog /\ acked' = acked
  BY DEF CatchBlock, Buffer, PutBack
<1>2. /\ InFlight' = InFlight \ {c}
      /\ \A d \in InFlight' :
            /\ d \in InFlight /\ d # c /\ call'[d] = call[d]
            /\ Pending(d)' = Pending(d) /\ Load(d)' = Load(d)
  BY <1>t, <1>1, EndFacts
<1>3. Load(c) = Range(call[c].backlog) \cup Range(call[c].messages)
  BY <1>t, PendingFacts
<1>4. Range(buffer') \subseteq Load(c) /\ Range(buffer') \subseteq acked'
  BY <1>1, <1>3 DEF IInv, BacklogIsAcked, Load
<1>5. acked \subseteq acked'
  BY <1>1
<1>6. \A m : m \in Held' => m \in Held
  BY <1>2, <1>4, HeldMember, HeldMemberNext
<1>7. BufferBounded'
  BY <1>1 DEF IInv, BacklogFits, BufferBounded, Fits
<1>8. BacklogFits'
  BY <1>2 DEF IInv, BacklogFits
<1>9. BacklogIsAcked'
  BY <1>2, <1>4, <1>5 DEF IInv, BacklogIsAcked
<1>10. SoleOwner'
  <2>1. IsInjective(buffer')
    <3>1. IsInjective(Pending(c))
      BY DEF IInv, SoleOwner
    <3>2. CASE Fits(c)
      BY <1>1, <3>1, <3>2
    <3>3. CASE ~Fits(c)
      BY <1>t, <1>1, <3>1, <3>3, PrefixInjective DEF Pending, TypeOK
    <3> QED  BY <3>2, <3>3
  <2>2. \A d \in InFlight' : Load(d) \cap Range(buffer') = {}
    BY <1>2, <1>4 DEF IInv, SoleOwner, Load
  <2> QED  BY <1>2, <2>1, <2>2 DEF IInv, SoleOwner, Load
<1>11. StoredInv'
  BY <1>2 DEF IInv, StoredInv
<1>12. TopicInv'
  BY <1>1, <1>2, <1>5, <1>6 DEF IInv, TopicInv
<1>13. DuplicatesHadLostAck'
  BY <1>1 DEF IInv, DuplicatesHadLostAck
<1>14. SerialInv'
  <2>1. SUFFICES ASSUME ~overlapped' PROVE (Alone /\ AckedNeverLost)'
    BY DEF SerialInv
  <2>2. Alone /\ AckedNeverLost
    BY <2>1 DEF IInv, SerialInv
  <2>3. InFlight = {c} /\ InFlight' = {} /\ buffer = <<>>
    BY <1>2, <2>2 DEF Alone
  <2>4. Alone'
    BY <1>1, <2>3 DEF Alone
  <2>5. \A m : m \in Held => m \in Load(c)
    BY <2>3, HeldMember, RangeEmpty
  <2>6. \A m \in acked' : m \in topic \/ m \in Range(buffer')
    <3>1. CASE Fits(c)
      BY <1>1, <1>3, <2>2, <2>5, <3>1 DEF AckedNeverLost, Load
    <3>2. CASE ~Fits(c)
      BY <1>1, <1>3, <2>2, <2>5, <3>2 DEF AckedNeverLost, Alone
    <3> QED  BY <3>1, <3>2
  <2>7. AckedNeverLost'
    BY <2>6, HeldMemberNext DEF AckedNeverLost
  <2> QED  BY <2>4, <2>7
<1> QED
  BY <1>7, <1>8, <1>9, <1>10, <1>11, <1>12, <1>13, <1>14 DEF IInv

\* A step that moves no message leaves everything held where it is.
LEMMA MoveFacts ==
    ASSUME buffer' = buffer,
           \A d \in Callers : /\ call'[d].pc \in Waiting <=> call[d].pc \in Waiting
                              /\ call'[d].backlog = call[d].backlog
                              /\ call'[d].messages = call[d].messages
    PROVE  /\ InFlight' = InFlight
           /\ \A d \in InFlight :
                 /\ Pending(d)' = Pending(d) /\ Load(d)' = Load(d)
                 /\ call'[d].backlog = call[d].backlog
                 /\ call'[d].messages = call[d].messages
           /\ Held' = Held
<1>1. InFlight' = InFlight
  BY DEF InFlight
<1>2. \A d \in InFlight : /\ Pending(d)' = Pending(d) /\ Load(d)' = Load(d)
                          /\ call'[d].backlog = call[d].backlog
                          /\ call'[d].messages = call[d].messages
  BY DEF InFlight, Pending, Load
<1>3. \A m : m \in Held' <=> m \in Held
  BY <1>1, <1>2, HeldMember, HeldMemberNext
<1> QED  BY <1>1, <1>2, <1>3 DEF Held

\* A step that moves no message and stores none keeps the invariant.
LEMMA MoveStep ==
    ASSUME IInv, TypeOK',
           UNCHANGED <<buffer, degraded, topic, acked, lostAcks, duplicated,
                       overlapped>>,
           \A d \in Callers : /\ call'[d].pc \in Waiting <=> call[d].pc \in Waiting
                              /\ call'[d].backlog = call[d].backlog
                              /\ call'[d].messages = call[d].messages
                              /\ call'[d].stored = call[d].stored
    PROVE  IInv'
<1>1. /\ InFlight' = InFlight /\ Held' = Held
      /\ \A d \in InFlight :
            /\ Pending(d)' = Pending(d) /\ Load(d)' = Load(d)
            /\ call'[d].backlog = call[d].backlog
            /\ call'[d].messages = call[d].messages
            /\ call'[d].stored = call[d].stored
  BY MoveFacts DEF InFlight
<1>2. BufferBounded' /\ BacklogFits' /\ BacklogIsAcked' /\ StoredInv'
  BY <1>1 DEF IInv, BufferBounded, BacklogFits, BacklogIsAcked, StoredInv
<1>3. SoleOwner' /\ TopicInv' /\ DuplicatesHadLostAck'
  BY <1>1 DEF IInv, SoleOwner, TopicInv, DuplicatesHadLostAck
<1>4. SerialInv'
  BY <1>1 DEF IInv, SerialInv, Alone, AckedNeverLost
<1> QED  BY <1>2, <1>3, <1>4 DEF IInv

\* A message the broker stores was not there, or its acknowledgement of an
\* earlier send was lost: nothing acked is sent again, and only one call
\* sends it.
LEMMA StoreStep ==
    ASSUME IInv, TypeOK', NEW c \in Callers, NEW m \in Messages, Store(c, m)
    PROVE  IInv'
<1>t. TypeOK /\ c \in InFlight
  BY DEF IInv, Store, InFlight, Waiting
<1>1. /\ m \in Load(c) /\ m \notin call[c].stored
      /\ call' = [call EXCEPT ![c].stored = @ \cup {m}]
      /\ topic' = topic \cup {m}
      /\ duplicated' = IF m \in topic THEN duplicated \cup {m} ELSE duplicated
      /\ UNCHANGED <<buffer, degraded, acked, lostAcks, overlapped>>
  BY DEF Store, Load
<1>2. \A d \in Callers : /\ call'[d].pc = call[d].pc
                         /\ call'[d].backlog = call[d].backlog
                         /\ call'[d].messages = call[d].messages
  BY <1>1 DEF IInv, TypeOK
<1>3. /\ call'[c].stored = call[c].stored \cup {m}
      /\ \A d \in Callers \ {c} : call'[d].stored = call[d].stored
  BY <1>t, <1>1 DEF TypeOK
<1>4. /\ InFlight' = InFlight /\ Held' = Held
      /\ \A d \in InFlight :
            /\ d \in Callers
            /\ Pending(d)' = Pending(d) /\ Load(d)' = Load(d)
            /\ call'[d].backlog = call[d].backlog
            /\ call'[d].messages = call[d].messages
  BY <1>1, <1>2, MoveFacts DEF InFlight
<1>5. BufferBounded' /\ BacklogFits' /\ BacklogIsAcked' /\ SoleOwner'
  BY <1>1, <1>4
     DEF IInv, BufferBounded, BacklogFits, BacklogIsAcked, SoleOwner
<1>6. StoredInv'
  BY <1>1, <1>3, <1>4 DEF IInv, StoredInv
<1>7. TopicInv'
  BY <1>t, <1>1, <1>3, <1>4 DEF IInv, TopicInv
<1>8. m \in topic => m \in lostAcks
  <2> SUFFICES ASSUME m \in topic, m \notin lostAcks
               PROVE  FALSE
    OBVIOUS
  <2>1. m \in Held
    BY <1>t, <1>1, HeldMember
  <2>2. PICK d \in InFlight : m \in call[d].stored
    BY <2>1 DEF IInv, TopicInv
  <2>3. d # c /\ m \in Load(d)
    BY <1>1, <2>2 DEF IInv, StoredInv
  <2> QED  BY <1>t, <1>1, <2>3 DEF IInv, SoleOwner, Load
<1>9. DuplicatesHadLostAck'
  BY <1>1, <1>8 DEF IInv, DuplicatesHadLostAck
<1>10. SerialInv'
  BY <1>1, <1>4 DEF IInv, SerialInv, Alone, AckedNeverLost
<1> QED  BY <1>5, <1>6, <1>7, <1>9, <1>10 DEF IInv
-----------------------------------------------------------------------------
\* A sink just constructed satisfies the invariant.
LEMMA InvInit == Init => IInv
<1> SUFFICES ASSUME Init PROVE IInv
  OBVIOUS
<1>1. InFlight = {}
  BY DEF Init, InFlight, NoCall, Waiting
<1>2. BufferBounded
  BY EmptySeq, SinkAssumption DEF Init, BufferBounded
<1>3. BacklogIsAcked /\ SoleOwner
  BY <1>1, RangeEmpty DEF Init, BacklogIsAcked, SoleOwner, IsInjective
<1>4. BacklogFits /\ StoredInv /\ TopicInv /\ DuplicatesHadLostAck /\ SerialInv
  BY <1>1 DEF Init, BacklogFits, StoredInv, TopicInv, DuplicatesHadLostAck,
              SerialInv, Alone, AckedNeverLost
<1> QED  BY <1>2, <1>3, <1>4, TypeInit DEF IInv

\* Every step preserves the invariant.
LEMMA InvNext == IInv /\ [Next]_vars => IInv'
<1> SUFFICES ASSUME IInv, [Next]_vars
             PROVE  IInv'
  OBVIOUS
<1>t. TypeOK /\ TypeOK'
  BY TypeNext DEF IInv
<1>1. ASSUME NEW c \in Callers, NEW messages \in Batches, Publish(c, messages)
      PROVE  IInv'
  BY <1>1, <1>t, EmptyStep, StartStep
<1>2. ASSUME NEW c \in Callers, Connected(c)
      PROVE  IInv'
  <2>1. /\ UNCHANGED <<buffer, degraded, topic, acked, lostAcks, duplicated,
                       overlapped>>
        /\ call[c].pc = "connecting"
        /\ call' = [call EXCEPT ![c].pc = "sending"]
    BY <1>2 DEF Connected
  <2>2. \A d \in Callers :
           /\ call'[d].pc \in Waiting <=> call[d].pc \in Waiting
           /\ call'[d].backlog = call[d].backlog
           /\ call'[d].messages = call[d].messages
           /\ call'[d].stored = call[d].stored
    BY <2>1, <1>t DEF TypeOK, Waiting
  <2> QED  BY <1>t, <2>1, <2>2, MoveStep
<1>3. ASSUME NEW c \in Callers, NEW m \in Messages, Store(c, m)
      PROVE  IInv'
  BY <1>3, <1>t, StoreStep
<1>4. ASSUME NEW c \in Callers, Succeed(c)
      PROVE  IInv'
  BY <1>4, <1>t, SucceedStep
<1>5. ASSUME NEW c \in Callers, ConnectFails(c)
      PROVE  IInv'
  <2>1. /\ c \in InFlight /\ CatchBlock(c)
        /\ UNCHANGED <<topic, duplicated, overlapped>>
    BY <1>5 DEF ConnectFails, InFlight, Waiting
  <2> QED  BY <1>t, <2>1, CatchStep
<1>6. ASSUME NEW c \in Callers, SendFails(c)
      PROVE  IInv'
  <2>1. /\ c \in InFlight /\ CatchBlock(c)
        /\ UNCHANGED <<topic, duplicated, overlapped>>
    BY <1>6 DEF SendFails, InFlight, Waiting
  <2> QED  BY <1>t, <2>1, CatchStep
<1>7. CASE BrokerChanges
  BY <1>7, <1>t, MoveStep DEF BrokerChanges
<1>8. CASE UNCHANGED vars
  BY <1>8, <1>t, MoveStep DEF vars
<1> QED
  BY <1>1, <1>2, <1>3, <1>4, <1>5, <1>6, <1>7, <1>8 DEF Next, Resolve

\* The inductive invariant holds in every state of the sink.
THEOREM SinkInvariant == Spec => []IInv
  BY InvInit, InvNext, PTL DEF Spec

\* publish() never keeps more than opts.capacity messages, whatever the number
\* of overlapping calls and wherever each of them fails.
THEOREM BufferStaysBounded == Spec => []BufferBounded
<1>1. IInv => BufferBounded
  BY DEF IInv
<1> QED  BY <1>1, SinkInvariant, PTL

\* A message refused with a 503 is never kept to be sent later.
THEOREM KeepsOnlyAcked == Spec => []BacklogIsAcked
<1>1. IInv => BacklogIsAcked
  BY DEF IInv
<1> QED  BY <1>1, SinkInvariant, PTL

\* No message is held twice, by the buffer and a call or by two calls.
THEOREM HeldOnce == Spec => []SoleOwner
<1>1. IInv => SoleOwner
  BY DEF IInv
<1> QED  BY <1>1, SinkInvariant, PTL

\* The broker stores a message again only after an acknowledgement of it was
\* lost: the backlog alone never causes a duplicate.
THEOREM RetriesNeverDuplicate == Spec => []DuplicatesHadLostAck
<1>1. IInv => DuplicatesHadLostAck
  BY DEF IInv
<1> QED  BY <1>1, SinkInvariant, PTL

\* Without overlapping calls of publish() nothing acked is lost.
THEOREM SerialSinkKeepsPromise == Spec => []AckedSafeWhenSerial
<1>1. IInv => AckedSafeWhenSerial
  BY DEF IInv, SerialInv, AckedSafeWhenSerial
<1> QED  BY <1>1, SinkInvariant, PTL

\* Without overlapping calls the sink says it is healthy only with an empty
\* buffer.
THEOREM SerialHealthIsTruthful == Spec => []HealthTruthfulWhenSerial
<1>1. IInv => HealthTruthfulWhenSerial
  BY DEF IInv, SerialInv, Alone, HealthTruthfulWhenSerial
<1> QED  BY <1>1, SinkInvariant, PTL
-----------------------------------------------------------------------------
(***************************************************************************)
(* The wrappers of model calls: Wrappers, for any contexts and calls.      *)
(* CallInv follows a call through its layers: those still to resume are the*)
(* outer ones of those it was made under.                                  *)
(***************************************************************************)
Wrapping == Contexts \cup {c.via : c \in Calls}
Outcomes == {"none", "ok", "error", "threw"}
LlmSteps ==
    [by : RunIds \cup {c.id : c \in Calls}, ctx : Wrapping \cup {"handler"}, status : Outcomes]
CallStates ==
    [at : {"idle", "waits", "resumes"}, under : Seq(Wrapping), resume : Seq(Wrapping),
     answer : {"none", "ok", "error"}, sees : Outcomes]

WrTyped ==
    /\ wr_disabled \in BOOLEAN /\ wr_warnThrows \in BOOLEAN
    /\ wr_layers \in Seq(Contexts)
    /\ wr_call \in [Calls -> CallStates]
    /\ wr_steps \in Seq(LlmSteps)

\* The layers left are the last ones of those the call is under.
LeftToResume(r) ==
    /\ Len(r.resume) <= Len(r.under)
    /\ \A k \in 1..Len(r.resume) : r.resume[k] = r.under[Len(r.under) - Len(r.resume) + k]
    /\ r.at # "resumes" => r.resume = r.under
CallInv == \A c \in Calls : LeftToResume(wr_call[c])

\* StepsTellCalls of one call and one queue, for a record r of what is known of the call.
Whose(q, id) == {i \in DOMAIN q : q[i].by = id}
Tells(q, id, r, n, layer, warns) ==
    /\ layer \in [Whose(q, id) -> 1..n]
    /\ \A i \in Whose(q, id) :
        /\ q[i].ctx = r.under[layer[i]]
        /\ q[i].status = "ok" => r.answer = "ok"
        /\ ~warns => q[i].status = r.answer
    /\ \A i, j \in Whose(q, id) : i < j =>
        /\ layer[i] <= layer[j]
        /\ layer[i] = layer[j] =>
            warns /\ q[i].status = "ok" /\ q[j].status = "threw"
ToldBy(q, c, r, n, off, warns) ==
    (off => Whose(q, c.id) = {}) /\ \E layer : Tells(q, c.id, r, n, layer, warns)

CallsTold ==
    \A c \in Calls : ToldBy(wr_steps, c, wr_call[c], Len(wr_call[c].under) - Len(wr_call[c].resume),
                           wr_disabled, wr_warnThrows)

WrInv == WrTyped /\ CallInv /\ Wr!CallsUnaltered /\ CallsTold

LEMMA StepsAreTold == Wr!StepsTellCalls <=> CallsTold
  BY DEF Wr!StepsTellCalls, Wr!Mine, Wr!Resumed, Whose, Tells, ToldBy, CallsTold
-----------------------------------------------------------------------------
\* What a queue is with a step at its end.
LEMMA AfterAppend ==
    ASSUME NEW q \in Seq(LlmSteps), NEW s \in LlmSteps, NEW id
    PROVE  /\ Append(q, s) \in Seq(LlmSteps)
           /\ \A i \in DOMAIN q : i \in Nat /\ i < Len(q) + 1 /\ Append(q, s)[i] = q[i]
           /\ Append(q, s)[Len(q) + 1] = s
           /\ Whose(Append(q, s), id)
              = Whose(q, id) \cup (IF s.by = id THEN {Len(q) + 1} ELSE {})
<1> DEFINE Q == Append(q, s)
<1>1. /\ Q \in Seq(LlmSteps) /\ Q[Len(q) + 1] = s
      /\ DOMAIN q = 1..Len(q) /\ DOMAIN Q = 1..(Len(q) + 1) /\ Len(q) \in Nat
      /\ \A i \in 1..Len(q) : Q[i] = q[i]
  OBVIOUS
<1>2. \A i \in DOMAIN q : i \in Nat /\ i < Len(q) + 1
  BY <1>1
<1>3. DOMAIN Q = DOMAIN q \cup {Len(q) + 1} /\ Len(q) + 1 \notin DOMAIN q
  BY <1>1
<1>4. Whose(Q, id) = Whose(q, id) \cup (IF s.by = id THEN {Len(q) + 1} ELSE {})
  <2> HIDE DEF Q
  <2> QED  BY <1>1, <1>3, Zenon DEF Whose
<1> QED  BY <1>1, <1>2, <1>4

\* A step of somebody else says nothing of this call.
LEMMA OthersStep ==
    ASSUME NEW q \in Seq(LlmSteps), NEW s \in LlmSteps, NEW c, s.by # c.id,
           NEW r, NEW n, ToldBy(q, c, r, n, wr_disabled, wr_warnThrows)
    PROVE  ToldBy(Append(q, s), c, r, n, wr_disabled, wr_warnThrows)
<1> DEFINE Q == Append(q, s)
           id == c.id
<1>1. Whose(Q, id) = Whose(q, id) \cup (IF s.by = id THEN {Len(q) + 1} ELSE {})
  BY AfterAppend
<1>2. \A i \in Whose(q, id) : Q[i] = q[i]
  BY AfterAppend DEF Whose
<1>3. s.by # id /\ (wr_disabled => Whose(q, id) = {})
  BY DEF ToldBy
<1>4. PICK layer : Tells(q, id, r, n, layer, wr_warnThrows)
  BY DEF ToldBy
<1> HIDE DEF Q, id
<1>5. Whose(Q, id) = Whose(q, id)
  BY <1>1, <1>3
<1>6. Tells(Q, id, r, n, layer, wr_warnThrows)
  BY <1>2, <1>4, <1>5 DEF Tells
<1> QED  BY <1>3, <1>5, <1>6 DEF ToldBy, Q, id

\* A step of layer m may follow, if no layer further out has told and m itself at most a
\* success that this step denies.
MayTell(q, s, id, r, n, m, layer) ==
    /\ s.by = id /\ ~wr_disabled
    /\ n \in Nat /\ m \in 1..n
    /\ Tells(q, id, r, n, layer, wr_warnThrows)
    /\ s.ctx = r.under[m]
    /\ s.status = "ok" => r.answer = "ok"
    /\ ~wr_warnThrows => s.status = r.answer
    /\ \A i \in Whose(q, id) :
          /\ layer[i] <= m
          /\ layer[i] = m => wr_warnThrows /\ q[i].status = "ok" /\ s.status = "threw"
TellsMore(q, s, id, r, n, m, layer, l) ==
    /\ Tells(Append(q, s), id, r, n, l, wr_warnThrows)
    /\ \A i \in Whose(Append(q, s), id) :
          /\ l[i] <= m
          /\ l[i] = m => (i \in Whose(q, id) /\ layer[i] = m) \/ i = Len(q) + 1
LEMMA OneMoreStep ==
    ASSUME NEW q \in Seq(LlmSteps), NEW s \in LlmSteps, NEW id,
           NEW r, NEW n, NEW m, NEW layer, MayTell(q, s, id, r, n, m, layer)
    PROVE  \E l : TellsMore(q, s, id, r, n, m, layer, l)
<1>0. /\ s.by = id /\ ~wr_disabled
      /\ n \in Nat /\ m \in 1..n
      /\ Tells(q, id, r, n, layer, wr_warnThrows)
      /\ s.ctx = r.under[m]
      /\ s.status = "ok" => r.answer = "ok"
      /\ ~wr_warnThrows => s.status = r.answer
      /\ \A i \in Whose(q, id) :
            /\ layer[i] <= m
            /\ layer[i] = m => wr_warnThrows /\ q[i].status = "ok" /\ s.status = "threw"
  BY DEF MayTell
<1> DEFINE Q == Append(q, s)
           W == Whose(q, id)
           e == Len(q) + 1
           l == [i \in W \cup {e} |-> IF i = e THEN m ELSE layer[i]]
<1>1. Whose(Q, id) = W \cup {e} /\ Q[e] = s
  BY <1>0, AfterAppend
<1>2. \A i \in W : i \in Nat /\ i < e /\ Q[i] = q[i]
  BY AfterAppend DEF Whose
<1>3. e \in Nat /\ e \notin W
  <2>1. Len(q) \in Nat
    OBVIOUS
  <2> QED  BY <1>2, <2>1
<1> HIDE DEF Q, W, e
<1>4. /\ layer \in [W -> 1..n]
      /\ \A i \in W :
          /\ q[i].ctx = r.under[layer[i]]
          /\ q[i].status = "ok" => r.answer = "ok"
          /\ ~wr_warnThrows => q[i].status = r.answer
      /\ \A i, j \in W : i < j =>
          /\ layer[i] <= layer[j]
          /\ layer[i] = layer[j] =>
              wr_warnThrows /\ q[i].status = "ok" /\ q[j].status = "threw"
  BY <1>0 DEF Tells, W
<1>5. l[e] = m /\ \A i \in W : l[i] = layer[i]
  BY <1>3
<1>6. l \in [W \cup {e} -> 1..n]
  BY <1>0, <1>4
<1>7. \A i \in W \cup {e} :
          /\ Q[i].ctx = r.under[l[i]]
          /\ Q[i].status = "ok" => r.answer = "ok"
          /\ ~wr_warnThrows => Q[i].status = r.answer
  <2> SUFFICES ASSUME NEW i \in W \cup {e}
               PROVE  /\ Q[i].ctx = r.under[l[i]]
                      /\ Q[i].status = "ok" => r.answer = "ok"
                      /\ ~wr_warnThrows => Q[i].status = r.answer
    OBVIOUS
  <2> HIDE DEF l
  <2>1. CASE i = e
    BY <2>1, <1>0, <1>1, <1>5
  <2>2. CASE i \in W
    BY <2>2, <1>0, <1>2, <1>4, <1>5
  <2> QED  BY <2>1, <2>2
<1>8. ASSUME NEW i \in W \cup {e}, NEW j \in W \cup {e}, i < j
      PROVE  /\ l[i] <= l[j]
             /\ l[i] = l[j] => wr_warnThrows /\ Q[i].status = "ok" /\ Q[j].status = "threw"
  <2> HIDE DEF l
  <2>1. i \in W
    BY <1>2, <1>3, <1>8
  <2>2. CASE j = e
    <3>1. layer[i] <= m /\ (layer[i] = m => wr_warnThrows /\ q[i].status = "ok" /\ s.status = "threw")
      BY <1>0, <2>1 DEF W
    <3> QED  BY <3>1, <2>1, <2>2, <1>0, <1>1, <1>2, <1>5
  <2>3. CASE j \in W
    BY <2>1, <2>3, <1>0, <1>2, <1>4, <1>5, <1>8
  <2> QED  BY <2>2, <2>3
<1>9. Tells(Q, id, r, n, l, wr_warnThrows)
  BY <1>1, <1>6, <1>7, <1>8 DEF Tells
<1>10. \A i \in Whose(Q, id) :
          l[i] <= m /\ (l[i] = m => (i \in W /\ layer[i] = m) \/ i = e)
  <2> SUFFICES ASSUME NEW i \in W \cup {e}
               PROVE  l[i] <= m /\ (l[i] = m => (i \in W /\ layer[i] = m) \/ i = e)
    BY <1>1
  <2> HIDE DEF l
  <2>1. CASE i = e
    BY <1>0, <2>1, <1>5
  <2>2. CASE i \in W
    <3>1. layer[i] <= m
      BY <1>0, <2>2 DEF W
    <3> QED  BY <1>0, <2>2, <3>1, <1>5
  <2> QED  BY <2>1, <2>2
<1> QED  BY <1>9, <1>10 DEF Q, W, e, TellsMore
-----------------------------------------------------------------------------
\* A call of which no layer resumed has no step, whatever else is known of it.
LEMMA NothingTold ==
    ASSUME NEW q, NEW c, NEW r, NEW r2, ToldBy(q, c, r, 0, wr_disabled, wr_warnThrows)
    PROVE  ToldBy(q, c, r2, 0, wr_disabled, wr_warnThrows)
<1>1. PICK layer : Tells(q, c.id, r, 0, layer, wr_warnThrows)
  BY DEF ToldBy
<1>2. Whose(q, c.id) = {}
  <2>1. layer \in [Whose(q, c.id) -> 1..0] /\ 1..0 = {}
    BY <1>1 DEF Tells
  <2> QED  BY <2>1
<1>3. Tells(q, c.id, r2, 0, layer, wr_warnThrows)
  BY <1>1, <1>2 DEF Tells
<1> QED  BY <1>2, <1>3 DEF ToldBy

\* What its steps say depends on the call's layers and answer only.
LEMMA SameTold ==
    ASSUME NEW q, NEW c, NEW r, NEW r2, NEW n, r2.under = r.under, r2.answer = r.answer,
           ToldBy(q, c, r, n, wr_disabled, wr_warnThrows)
    PROVE  ToldBy(q, c, r2, n, wr_disabled, wr_warnThrows)
<1>1. PICK layer : Tells(q, c.id, r, n, layer, wr_warnThrows)
  BY DEF ToldBy
<1>2. Tells(q, c.id, r2, n, layer, wr_warnThrows)
  BY <1>1 DEF Tells
<1>3. wr_disabled => Whose(q, c.id) = {}
  BY DEF ToldBy
<1> QED  BY <1>2, <1>3 DEF ToldBy

\* A call changes and no step is queued.
Before(r) == r.at # "resumes"
LEMMA CallChanges ==
    ASSUME WrInv, NEW c \in Calls, NEW r \in CallStates, wr_call' = [wr_call EXCEPT ![c] = r],
           Before(wr_call[c]), r.resume = r.under,
           r.at = "resumes" => r.sees = r.answer,
           UNCHANGED <<wr_disabled, wr_warnThrows, wr_layers, wr_steps>>
    PROVE  WrInv'
<1>1. wr_call'[c] = r /\ \A d \in Calls \ {c} : wr_call'[d] = wr_call[d]
  BY DEF WrInv, WrTyped
<1>2. WrTyped'
  BY DEF WrInv, WrTyped
<1>3. CallInv'
  <2>1. LeftToResume(r)
    <3>1. r.under \in Seq(Wrapping)
      BY DEF CallStates
    <3> QED  BY <3>1 DEF LeftToResume
  <2>2. \A d \in Calls : LeftToResume(wr_call[d])
    BY DEF WrInv, CallInv
  <2>3. \A d \in Calls : LeftToResume(wr_call'[d])
    BY <1>1, <2>1, <2>2
  <2> QED  BY <2>3 DEF CallInv
<1>4. Wr!CallsUnaltered'
  BY <1>1 DEF WrInv, Wr!CallsUnaltered
<1>5. CallsTold'
  <2>1. \A d \in Calls : ToldBy(wr_steps, d, wr_call[d], Len(wr_call[d].under) - Len(wr_call[d].resume),
                              wr_disabled, wr_warnThrows)
    BY DEF WrInv, CallsTold
  <2>2. ToldBy(wr_steps, c, r, Len(r.under) - Len(r.resume), wr_disabled, wr_warnThrows)
    <3>1. Len(r.under) - Len(r.resume) = 0
      BY DEF CallStates
    <3>2. Len(wr_call[c].under) - Len(wr_call[c].resume) = 0
      <4>1. wr_call[c].resume = wr_call[c].under
        BY DEF WrInv, CallInv, LeftToResume, Before
      <4>2. wr_call[c].under \in Seq(Wrapping)
        BY DEF WrInv, WrTyped, CallStates
      <4> QED  BY <4>1, <4>2
    <3>3. ToldBy(wr_steps, c, wr_call[c], 0, wr_disabled, wr_warnThrows)
      BY <2>1, <3>2
    <3> QED  BY <3>1, <3>3, NothingTold
  <2>3. \A d \in Calls :
           ToldBy(wr_steps, d, wr_call'[d], Len(wr_call'[d].under) - Len(wr_call'[d].resume), wr_disabled, wr_warnThrows)
    BY <1>1, <2>1, <2>2
  <2> QED  BY <2>3 DEF CallsTold
<1> QED  BY <1>2, <1>3, <1>4, <1>5 DEF WrInv
-----------------------------------------------------------------------------
Step(by, ctx, status) == [by |-> by, ctx |-> ctx, status |-> status]

\* A queue and its successor, if e is what becomes of an emit.
Queues(q, e, s, q2) == q2 = IF e.queued THEN Append(q, s) ELSE q
LEMMA QueueTyped ==
    ASSUME NEW q \in Seq(LlmSteps), NEW s \in LlmSteps, NEW e, NEW q2, Queues(q, e, s, q2)
    PROVE  q2 \in Seq(LlmSteps)
  BY DEF Queues
LEMMA OthersQueue ==
    ASSUME NEW q \in Seq(LlmSteps), NEW s \in LlmSteps, NEW e, NEW q2, Queues(q, e, s, q2),
           NEW c, s.by # c.id, NEW r, NEW n, ToldBy(q, c, r, n, wr_disabled, wr_warnThrows)
    PROVE  ToldBy(q2, c, r, n, wr_disabled, wr_warnThrows)
<1>1. CASE q2 = q
  BY <1>1
<1>2. CASE q2 = Append(q, s)
  BY <1>2, OthersStep
<1> QED  BY <1>1, <1>2 DEF Queues

\* The layer that resumes emits once, or twice if its first step said "ok" and onWarn threw.
LEMMA LayerTells ==
    ASSUME NEW q \in Seq(LlmSteps), NEW q1, NEW q2, NEW c, NEW r, NEW n \in Nat,
           NEW one \in Wr!Emits, NEW two \in Wr!Emits,
           ToldBy(q, c, r, n, wr_disabled, wr_warnThrows),
           NEW s1 \in LlmSteps, NEW s2 \in LlmSteps,
           s1.by = c.id, s2.by = c.id, s1.ctx = r.under[n + 1], s2.ctx = r.under[n + 1],
           s1.status = "ok" => r.answer = "ok", ~wr_warnThrows => s1.status = r.answer,
           s2.status = "threw",
           Queues(q, one, s1, q1),
           q2 = q1 \/ (s1.status = "ok" /\ one.throws /\ Queues(q1, two, s2, q2))
    PROVE  ToldBy(q2, c, r, n + 1, wr_disabled, wr_warnThrows)
<1>1. (one.queued \/ two.queued => ~wr_disabled) /\ (one.throws => wr_warnThrows)
  BY DEF Wr!Emits
<1>2. PICK layer : Tells(q, c.id, r, n, layer, wr_warnThrows)
  BY DEF ToldBy
<1>3. layer \in [Whose(q, c.id) -> 1..n]
  BY <1>2 DEF Tells
<1>4. Tells(q, c.id, r, n + 1, layer, wr_warnThrows)
  <2>1. 1..n \subseteq 1..(n + 1)
    OBVIOUS
  <2>2. layer \in [Whose(q, c.id) -> 1..(n + 1)]
    BY <1>3, <2>1
  <2> QED  BY <1>2, <2>2 DEF Tells
<1> DEFINE m == n + 1
<1>5. \A i \in Whose(q, c.id) : layer[i] <= m /\ layer[i] # m
  BY <1>3
<1>6. m \in 1..m /\ m \in Nat /\ s1.ctx = r.under[m] /\ s2.ctx = r.under[m]
  OBVIOUS
<1>6a. Tells(q, c.id, r, m, layer, wr_warnThrows)
  BY <1>4
<1> HIDE DEF m
<1> DEFINE Told(p) == ToldBy(p, c, r, m, wr_disabled, wr_warnThrows)
<1>7. Told(q)
  <2>1. wr_disabled => Whose(q, c.id) = {}
    BY DEF ToldBy
  <2> QED  BY <1>6a, <2>1 DEF ToldBy
<1>8. one.queued => Told(Append(q, s1))
  <2> SUFFICES ASSUME one.queued
               PROVE  Told(Append(q, s1))
    OBVIOUS
  <2>1. MayTell(q, s1, c.id, r, m, m, layer)
    BY <1>1, <1>6a, <1>5, <1>6 DEF MayTell
  <2>2. \E l : TellsMore(q, s1, c.id, r, m, m, layer, l)
    BY <2>1, OneMoreStep
  <2> QED  BY <1>1, <2>2 DEF ToldBy, TellsMore
<1>9. two.queued /\ one.throws => Told(Append(q, s2))
  <2> SUFFICES ASSUME two.queued, one.throws
               PROVE  Told(Append(q, s2))
    OBVIOUS
  <2>1. MayTell(q, s2, c.id, r, m, m, layer)
    BY <1>1, <1>6a, <1>5, <1>6 DEF MayTell
  <2>2. \E l : TellsMore(q, s2, c.id, r, m, m, layer, l)
    BY <2>1, OneMoreStep
  <2> QED  BY <1>1, <2>2 DEF ToldBy, TellsMore
<1>10. one.queued /\ two.queued /\ one.throws /\ s1.status = "ok"
       => Told(Append(Append(q, s1), s2))
  <2> SUFFICES ASSUME one.queued, two.queued, one.throws, s1.status = "ok"
               PROVE  Told(Append(Append(q, s1), s2))
    OBVIOUS
  <2> DEFINE p == Append(q, s1)
  <2>0. MayTell(q, s1, c.id, r, m, m, layer)
    BY <1>1, <1>6a, <1>5, <1>6 DEF MayTell
  <2>0a. PICK l : TellsMore(q, s1, c.id, r, m, m, layer, l)
    BY <2>0, OneMoreStep
  <2>1. /\ Tells(p, c.id, r, m, l, wr_warnThrows)
        /\ \A i \in Whose(p, c.id) :
              /\ l[i] <= m
              /\ l[i] = m => (i \in Whose(q, c.id) /\ layer[i] = m) \/ i = Len(q) + 1
    BY <2>0a DEF TellsMore
  <2>2. p \in Seq(LlmSteps) /\ p[Len(q) + 1] = s1
    BY AfterAppend
  <2> HIDE DEF p
  <2>3. \A i \in Whose(p, c.id) :
          /\ l[i] <= m
          /\ l[i] = m => wr_warnThrows /\ p[i].status = "ok" /\ s2.status = "threw"
    BY <1>1, <1>5, <2>1, <2>2
  <2>4. MayTell(p, s2, c.id, r, m, m, l)
    BY <1>1, <1>6, <2>1, <2>3 DEF MayTell
  <2>5. \E l2 : TellsMore(p, s2, c.id, r, m, m, l, l2)
    BY <2>2, <2>4, OneMoreStep
  <2> QED  BY <1>1, <2>5 DEF ToldBy, p, TellsMore
<1> HIDE DEF Told
<1>11. (q1 = q /\ ~one.queued) \/ (q1 = Append(q, s1) /\ one.queued)
  BY DEF Queues
<1>12. q2 = q1 \/ (q2 = Append(q1, s2) /\ two.queued /\ one.throws /\ s1.status = "ok")
  BY DEF Queues
<1>13. Told(q2)
  BY <1>7, <1>8, <1>9, <1>10, <1>11, <1>12
<1> QED  BY <1>13 DEF Told, m
-----------------------------------------------------------------------------
LEMMA IdleCall ==
    /\ Wr!Idle \in CallStates /\ Wr!Idle.at = "idle"
    /\ Wr!Idle.resume = <<>> /\ Wr!Idle.under = <<>>
    /\ Wr!Idle.answer = "none" /\ Wr!Idle.sees = "none"
  BY DEF Wr!Idle, CallStates, Outcomes

LEMMA WrInit ==
    ASSUME Wr!Init
    PROVE  WrInv
<1>1. wr_call = [c \in Calls |-> Wr!Idle] /\ wr_steps = <<>> /\ wr_layers = <<>>
      /\ wr_disabled \in BOOLEAN /\ wr_warnThrows \in BOOLEAN
  BY DEF Wr!Init
<1>2. Wr!Idle \in CallStates /\ Wr!Idle.at = "idle"
      /\ Wr!Idle.resume = <<>> /\ Wr!Idle.under = <<>>
  BY IdleCall
<1>3. WrTyped
  <2>1. wr_steps \in Seq(LlmSteps) /\ wr_layers \in Seq(Contexts)
    BY <1>1
  <2>2. wr_call \in [Calls -> CallStates]
    BY <1>1, <1>2
  <2> QED  BY <1>1, <2>1, <2>2 DEF WrTyped
<1>0. Len(<<>>) = 0 /\ 0 - 0 = 0
  OBVIOUS
<1>6. \A c \in Calls :
        wr_call[c].at = "idle" /\ wr_call[c].resume = <<>> /\ wr_call[c].under = <<>>
  BY <1>1, <1>2
<1>4. CallInv /\ Wr!CallsUnaltered
  <2>1. ASSUME NEW c \in Calls
        PROVE  LeftToResume(wr_call[c])
    <3> DEFINE t == wr_call[c].resume
               u == wr_call[c].under
    <3>1. t = <<>> /\ u = <<>>
      BY <1>6
    <3> HIDE DEF t, u
    <3>2. Len(t) = 0 /\ Len(u) = 0 /\ t = u /\ 1..0 = {}
      BY <3>1
    <3> QED  BY <3>2 DEF LeftToResume, t, u
  <2>2. \A c \in Calls : wr_call[c].at # "resumes"
    BY <1>6
  <2> QED  BY <2>1, <2>2 DEF CallInv, Wr!CallsUnaltered
<1>5. CallsTold
  <2> SUFFICES ASSUME NEW c \in Calls
               PROVE  ToldBy(wr_steps, c, wr_call[c], 0, wr_disabled, wr_warnThrows)
    BY <1>0, <1>6 DEF CallsTold
  <2>1. Whose(wr_steps, c.id) = {}
    BY <1>1 DEF Whose
  <2>2. [i \in {} |-> 0] \in [{} -> 1..0]
    OBVIOUS
  <2>3. Tells(wr_steps, c.id, wr_call[c], 0, [i \in {} |-> 0], wr_warnThrows)
    BY <2>1, <2>2 DEF Tells
  <2> QED  BY <2>1, <2>3 DEF ToldBy
<1> QED  BY <1>3, <1>4, <1>5 DEF WrInv

\* Wrapping once more concerns later calls only.
LEMMA WrapClientStep ==
    ASSUME WrInv, NEW ctx \in Contexts, Wr!WrapClient(ctx)
    PROVE  WrInv'
<1>1. wr_layers' \in Seq(Contexts)
  BY DEF Wr!WrapClient, WrInv, WrTyped
<1>2. UNCHANGED <<wr_disabled, wr_warnThrows, wr_call, wr_steps>>
  BY DEF Wr!WrapClient
<1>3. WrTyped'
  BY <1>1, <1>2 DEF WrInv, WrTyped
<1> QED  BY <1>2, <1>3 DEF WrInv, CallInv, Wr!CallsUnaltered, CallsTold

LEMMA CallStep ==
    ASSUME WrInv, NEW c \in Calls, Wr!CallModel(c) \/ Wr!ModelAnswers(c)
    PROVE  WrInv'
<1>1. /\ wr_call[c] \in CallStates /\ wr_call \in [Calls -> CallStates]
      /\ wr_layers \in Seq(Wrapping) /\ <<c.via>> \in Seq(Wrapping)
  <2>1. Contexts \subseteq Wrapping /\ c.via \in Wrapping
    BY DEF Wrapping
  <2> QED  BY <2>1 DEF WrInv, WrTyped
<1>2. CASE Wr!CallModel(c)
  <2> DEFINE under == IF c.via = "client" THEN wr_layers ELSE <<c.via>>
             o == Wr!Idle
             r == [o EXCEPT !.at = "waits", !.under = under, !.resume = under]
  <2>1. under \in Seq(Wrapping) /\ o \in CallStates
    BY <1>1, IdleCall
  <2>2. wr_call' = [wr_call EXCEPT ![c] = r]
    BY <1>2 DEF Wr!CallModel
  <2>3. wr_call[c].at = "idle" /\ UNCHANGED <<wr_disabled, wr_warnThrows, wr_layers, wr_steps>>
    BY <1>2 DEF Wr!CallModel
  <2> HIDE DEF under, o
  <2>4. r \in CallStates /\ r.resume = r.under /\ r.at = "waits"
    BY <2>1 DEF CallStates
  <2> HIDE DEF r
  <2>5. Before(wr_call[c])
    BY <2>3 DEF Before
  <2> QED  BY <2>2, <2>3, <2>4, <2>5, CallChanges
<1>3. CASE Wr!ModelAnswers(c)
  <2>1. PICK answer \in {"ok", "error"} :
          wr_call' = [wr_call EXCEPT ![c].at = "resumes", ![c].answer = answer, ![c].sees = answer]
    BY <1>3 DEF Wr!ModelAnswers
  <2> DEFINE o == wr_call[c]
             r == [o EXCEPT !.at = "resumes", !.answer = answer, !.sees = answer]
  <2>2. wr_call' = [wr_call EXCEPT ![c] = r]
    BY <1>1, <2>1
  <2>3. o.at = "waits" /\ UNCHANGED <<wr_disabled, wr_warnThrows, wr_layers, wr_steps>>
    BY <1>3 DEF Wr!ModelAnswers
  <2>4. o \in CallStates /\ o.resume = o.under
    BY <1>1, <2>3 DEF WrInv, CallInv, LeftToResume
  <2>5. Before(wr_call[c])
    BY <2>3 DEF Before
  <2> HIDE DEF o
  <2>6. r \in CallStates /\ r.resume = r.under /\ r.sees = r.answer
    BY <2>4 DEF CallStates, Outcomes
  <2> HIDE DEF r
  <2> QED  BY <2>2, <2>3, <2>5, <2>6, CallChanges
<1> QED  BY <1>2, <1>3

\* The layer that resumes, with what it queues in terms of Queues.
LEMMA WrapStep ==
    ASSUME WrInv, Wr!DistinctCalls, NEW c \in Calls, Wr!WrapCall(c)
    PROVE  WrInv'
<1> DEFINE r == wr_call[c]
           n == Len(r.under) - Len(r.resume)
           ctx == r.resume[1]
           s1 == Step(c.id, ctx, r.sees)
           s2 == Step(c.id, ctx, "threw")
<1>1. /\ r \in CallStates /\ r.at = "resumes" /\ r.resume # <<>>
      /\ wr_call \in [Calls -> CallStates] /\ wr_steps \in Seq(LlmSteps)
      /\ UNCHANGED <<wr_disabled, wr_warnThrows, wr_layers>>
  BY DEF Wr!WrapCall, WrInv, WrTyped
<1>2. PICK one \in Wr!Emits, two \in Wr!Emits, q1 \in {wr_steps, Append(wr_steps, s1)} :
        /\ wr_call' = [wr_call EXCEPT ![c].resume = Tail(@),
                                ![c].sees = IF one.throws THEN "threw" ELSE @]
        /\ Queues(wr_steps, one, s1, q1)
        /\ wr_steps' = q1 \/ (r.sees = "ok" /\ one.throws /\ Queues(q1, two, s2, wr_steps'))
  <2>1. PICK one \in Wr!Emits, two \in Wr!Emits :
          /\ wr_call' = [wr_call EXCEPT ![c].resume = Tail(@),
                                  ![c].sees = IF one.throws THEN "threw" ELSE @]
          /\ wr_steps' = IF r.sees = "ok" /\ one.throws
                      THEN Wr!EmitLlmStep(Wr!EmitLlmStep(wr_steps, c.id, ctx, r.sees, one),
                                          c.id, ctx, "threw", two)
                      ELSE Wr!EmitLlmStep(wr_steps, c.id, ctx, r.sees, one)
    BY DEF Wr!WrapCall
  <2> DEFINE q1 == Wr!EmitLlmStep(wr_steps, c.id, ctx, r.sees, one)
  <2>2. \A q, st, e : Queues(q, e, Step(c.id, ctx, st), Wr!EmitLlmStep(q, c.id, ctx, st, e))
    BY DEF Queues, Step, Wr!EmitLlmStep
  <2>3. Queues(wr_steps, one, s1, q1)
    BY <2>2
  <2>4. q1 \in {wr_steps, Append(wr_steps, s1)}
    BY <2>3 DEF Queues
  <2>5. wr_steps' = q1 \/ (r.sees = "ok" /\ one.throws /\ Queues(q1, two, s2, wr_steps'))
    BY <2>1, <2>2
  <2> QED  BY <2>1, <2>3, <2>4, <2>5
<1> DEFINE r2 == [r EXCEPT !.resume = Tail(@), !.sees = IF one.throws THEN "threw" ELSE @]
<1>3. /\ r.under \in Seq(Wrapping) /\ r.resume \in Seq(Wrapping)
      /\ r.answer \in {"none", "ok", "error"} /\ r.sees \in Outcomes
  BY <1>1 DEF CallStates
<1>4. /\ ctx \in Wrapping /\ Tail(r.resume) \in Seq(Wrapping)
      /\ Len(r.resume) \in Nat \ {0} /\ Len(r.under) \in Nat
      /\ Len(Tail(r.resume)) = Len(r.resume) - 1
      /\ \A k \in 1..(Len(r.resume) - 1) : Tail(r.resume)[k] = r.resume[k + 1]
  BY <1>1, <1>3
<1>5. wr_call' = [wr_call EXCEPT ![c] = r2]
  BY <1>1, <1>2
<1>5a. /\ r2 \in CallStates /\ r2.at = "resumes" /\ r2.under = r.under
       /\ r2.resume = Tail(r.resume) /\ r2.answer = r.answer
       /\ r2.sees = IF one.throws THEN "threw" ELSE r.sees
  <2> HIDE DEF r
  <2> QED  BY <1>1, <1>3, <1>4 DEF CallStates, Outcomes
<1> HIDE DEF r2
<1>6. LeftToResume(r)
  BY DEF WrInv, CallInv
<1>7. n \in Nat /\ ctx = r.under[n + 1]
  <2>1. Len(r.resume) <= Len(r.under)
    BY <1>6 DEF LeftToResume
  <2>2. \A k \in 1..Len(r.resume) : r.resume[k] = r.under[n + k]
    BY <1>6 DEF LeftToResume
  <2>3. 1 \in 1..Len(r.resume)
    BY <1>4
  <2>4. ctx = r.under[n + 1]
    BY <2>2, <2>3
  <2> HIDE DEF r
  <2>5. n \in Nat
    BY <1>4, <2>1
  <2> QED  BY <2>4, <2>5
<1>8. s1 \in LlmSteps /\ s2 \in LlmSteps
  BY <1>3, <1>4 DEF LlmSteps, Step, Outcomes
<1>9. (r.sees = "ok" => r.answer = "ok") /\ (~wr_warnThrows => r.sees = r.answer)
  BY <1>1 DEF WrInv, Wr!CallsUnaltered
<1>10. wr_call'[c] = r2 /\ \A d \in Calls \ {c} : wr_call'[d] = wr_call[d]
  BY <1>1, <1>5
<1>11. q1 \in Seq(LlmSteps) /\ wr_steps' \in Seq(LlmSteps)
  BY <1>1, <1>2, <1>8, QueueTyped
<1>12. WrTyped'
  <2>2. wr_call' \in [Calls -> CallStates]
    BY <1>1, <1>5, <1>5a
  <2> QED  BY <1>1, <1>11, <2>2 DEF WrInv, WrTyped
<1>13. CallInv'
  <2>1. LeftToResume(r2)
    <3> DEFINE t == Tail(r.resume)
               u == r.under
               w == r.resume
    <3>1. Len(w) <= Len(u) /\ \A k \in 1..Len(w) : w[k] = u[Len(u) - Len(w) + k]
      BY <1>6 DEF LeftToResume
    <3>2. Len(t) = Len(w) - 1 /\ \A k \in 1..(Len(w) - 1) : t[k] = w[k + 1]
      BY <1>4
    <3>3. Len(w) \in Nat \ {0} /\ Len(u) \in Nat
      BY <1>4
    <3>4. r2.at = "resumes" /\ r2.under = u /\ r2.resume = t
      BY <1>5a
    <3> HIDE DEF t, u, w
    <3>5. Len(t) <= Len(u)
      BY <3>1, <3>2, <3>3
    <3>6. \A k \in 1..Len(t) : t[k] = u[Len(u) - Len(t) + k]
      <4> SUFFICES ASSUME NEW k \in 1..Len(t)
                   PROVE  t[k] = u[Len(u) - Len(t) + k]
        OBVIOUS
      <4>1. k + 1 \in 1..Len(w) /\ k \in 1..(Len(w) - 1)
        BY <3>2, <3>3
      <4>2. Len(u) - Len(t) + k = Len(u) - Len(w) + (k + 1)
        BY <3>2, <3>3, <4>1
      <4> QED  BY <3>1, <3>2, <4>1, <4>2
    <3> QED  BY <3>4, <3>5, <3>6 DEF LeftToResume
  <2>2. \A d \in Calls : LeftToResume(wr_call'[d])
    BY <1>10, <2>1 DEF WrInv, CallInv
  <2> QED  BY <2>2 DEF CallInv
<1>14. Wr!CallsUnaltered'
  <2>1. one.throws => wr_warnThrows
    BY DEF Wr!Emits
  <2>2. /\ r2.sees = "ok" => r2.answer = "ok"
        /\ ~wr_warnThrows => r2.sees = r2.answer
    BY <1>5a, <1>9, <2>1
  <2>3. \A d \in Calls : wr_call'[d].at = "resumes" =>
          /\ wr_call'[d].sees = "ok" => wr_call'[d].answer = "ok"
          /\ ~wr_warnThrows => wr_call'[d].sees = wr_call'[d].answer
    BY <1>10, <2>2 DEF WrInv, Wr!CallsUnaltered
  <2> QED  BY <1>1, <2>3 DEF Wr!CallsUnaltered
<1>15. ToldBy(wr_steps', c, r2, n + 1, wr_disabled, wr_warnThrows)
  <2>1. ToldBy(wr_steps, c, r, n, wr_disabled, wr_warnThrows)
    BY DEF WrInv, CallsTold
  <2>2. ToldBy(wr_steps, c, r2, n, wr_disabled, wr_warnThrows)
    <3> HIDE DEF r, n
    <3> QED  BY <1>5a, <2>1, SameTold
  <2>3. /\ s1.by = c.id /\ s2.by = c.id /\ s1.ctx = ctx /\ s2.ctx = ctx
        /\ s1.status = r.sees /\ s2.status = "threw"
    BY DEF Step
  <2>4. r2.under = r.under /\ r2.answer = r.answer
    BY <1>5a
  <2> HIDE DEF r, s1, s2, n, ctx
  <2>5. s1.ctx = r2.under[n + 1] /\ s2.ctx = r2.under[n + 1]
    BY <1>7, <2>3, <2>4
  <2>6. /\ s1.status = "ok" => r2.answer = "ok"
        /\ ~wr_warnThrows => s1.status = r2.answer
    BY <1>9, <2>3, <2>4
  <2>7. wr_steps' = q1 \/ (s1.status = "ok" /\ one.throws /\ Queues(q1, two, s2, wr_steps'))
    BY <1>2, <2>3
  <2> QED  BY <1>1, <1>2, <1>7, <1>8, <2>2, <2>3, <2>5, <2>6, <2>7, LayerTells
<1>16. ASSUME NEW d \in Calls \ {c}
       PROVE  ToldBy(wr_steps', d, wr_call[d], Len(wr_call[d].under) - Len(wr_call[d].resume),
                     wr_disabled, wr_warnThrows)
  <2> DEFINE Told(q) == ToldBy(q, d, wr_call[d], Len(wr_call[d].under) - Len(wr_call[d].resume),
                               wr_disabled, wr_warnThrows)
  <2>1. Told(wr_steps)
    BY DEF WrInv, CallsTold
  <2>2. s1.by # d.id /\ s2.by # d.id
    BY DEF Step, Wr!DistinctCalls
  <2> HIDE DEF s1, s2
  <2>3. Told(q1)
    BY <1>1, <1>2, <1>8, <2>1, <2>2, OthersQueue
  <2>4. Queues(q1, two, s2, wr_steps') => Told(wr_steps')
    BY <1>8, <1>11, <2>2, <2>3, OthersQueue
  <2> HIDE DEF Told
  <2>5. Told(wr_steps')
    BY <1>2, <2>3, <2>4
  <2> QED  BY <2>5 DEF Told
<1>17. CallsTold'
  <2>1. Len(r2.under) - Len(r2.resume) = n + 1
    <3> DEFINE t == Tail(r.resume)
               u == r.under
    <3>1. r2.under = u /\ r2.resume = t
      BY <1>5a
    <3>2. Len(t) = Len(r.resume) - 1
      BY <1>4
    <3> HIDE DEF t, r
    <3> QED  BY <1>4, <3>1, <3>2
  <2>2. \A d \in Calls :
          ToldBy(wr_steps', d, wr_call'[d], Len(wr_call'[d].under) - Len(wr_call'[d].resume),
                 wr_disabled, wr_warnThrows)
    BY <1>10, <1>15, <1>16, <2>1
  <2> QED  BY <1>1, <2>2 DEF CallsTold
<1> QED  BY <1>12, <1>13, <1>14, <1>17 DEF WrInv

\* The handler's steps are no call's.
LEMMA HandlerStep ==
    ASSUME WrInv, Wr!DistinctCalls, NEW r \in RunIds,
           Wr!HandleLLMStart(r) \/ Wr!HandleLLMEnd(r) \/ Wr!HandleLLMError(r)
    PROVE  WrInv'
<1>1. UNCHANGED <<wr_disabled, wr_warnThrows, wr_layers, wr_call>>
  BY DEF Wr!HandleLLMStart, Wr!HandleLLMEnd, Wr!HandleLLMError
<1>2. PICK st \in {"ok", "error"}, e \in Wr!Emits \cup {[queued |-> FALSE, throws |-> FALSE]} :
        Queues(wr_steps, e, Step(r, "handler", st), wr_steps')
  <2>1. CASE Wr!HandleLLMStart(r)
    <3>1. Queues(wr_steps, [queued |-> FALSE, throws |-> FALSE], Step(r, "handler", "ok"), wr_steps')
      BY <2>1 DEF Wr!HandleLLMStart, Queues
    <3> QED  BY <3>1
  <2>2. CASE Wr!HandleLLMEnd(r)
    BY <2>2 DEF Wr!HandleLLMEnd, Queues, Wr!EmitLlmStep, Step
  <2>3. CASE Wr!HandleLLMError(r)
    BY <2>3 DEF Wr!HandleLLMError, Queues, Wr!EmitLlmStep, Step
  <2> QED  BY <2>1, <2>2, <2>3
<1> DEFINE s == Step(r, "handler", st)
<1>3. s \in LlmSteps /\ \A d \in Calls : s.by # d.id
  BY DEF Step, LlmSteps, Outcomes, Wr!DistinctCalls
<1> HIDE DEF s
<1>4. wr_steps \in Seq(LlmSteps) /\ Queues(wr_steps, e, s, wr_steps')
  BY <1>2 DEF WrInv, WrTyped, s
<1>5. WrTyped'
  <2>1. wr_steps' \in Seq(LlmSteps)
    BY <1>3, <1>4, QueueTyped
  <2> QED  BY <1>1, <2>1 DEF WrInv, WrTyped
<1>6. CallsTold'
  <2>1. \A d \in Calls :
          ToldBy(wr_steps', d, wr_call[d], Len(wr_call[d].under) - Len(wr_call[d].resume),
                 wr_disabled, wr_warnThrows)
    BY <1>3, <1>4, OthersQueue DEF WrInv, CallsTold
  <2> QED  BY <1>1, <2>1 DEF CallsTold
<1> QED  BY <1>1, <1>5, <1>6 DEF WrInv, CallInv, Wr!CallsUnaltered

LEMMA WrKept ==
    ASSUME WrInv, Wr!DistinctCalls, [Wr!Next]_(Wr!vars)
    PROVE  WrInv'
<1>1. CASE UNCHANGED Wr!vars
  BY <1>1 DEF Wr!vars, WrInv, WrTyped, CallInv, Wr!CallsUnaltered, CallsTold
<1>2. CASE Wr!Next
  BY <1>2, WrapClientStep, CallStep, WrapStep, HandlerStep DEF Wr!Next
<1> QED  BY <1>1, <1>2

\* For any number of layers and calls in flight, however they resume between one another:
\* the host is told what the provider answered, success only if it was one, and each call's
\* steps are of the layers it was made under, from the inside out (wrapCall in wrappers.ts).
THEOREM WrappersAreFaithful ==
    ASSUME Wr!DistinctCalls
    PROVE  Wr!Spec => []Wr!WrappersFaithful
<1>1. Wr!Init => WrInv
  BY WrInit
<1>2. WrInv /\ [Wr!Next]_(Wr!vars) => WrInv'
  BY WrKept
<1>3. WrInv => Wr!WrappersFaithful
  BY StepsAreTold DEF WrInv, Wr!WrappersFaithful
<1> QED  BY <1>1, <1>2, <1>3, PTL DEF Wr!Spec
-----------------------------------------------------------------------------
(***************************************************************************)
(* What the collector publishes through this sink, up to the rows the      *)
(* consumer makes of it: Ingest, for any requests and settings like those  *)
(* KnownRequests describes.  IngInv says that everything published is one  *)
(* of the known events, prepared for one of the known settings; the rest is*)
(* about the operators, and the loops of the code, by induction on the     *)
(* rounds (LoopExists, SetInduction).                                      *)
(***************************************************************************)
Raw ==
    {Ing!Message(v) : v \in {w \in Ing!SentEvents : Ing!Parses(w)}}
    \cup UNION {{Ing!MapSpan(x)[i] : i \in DOMAIN Ing!MapSpan(x)} : x \in Ing!SentSpans}
Published == {Ing!Prepare(p[1], p[2]) : p \in Raw \X IngestSettings}
Results == [events : {q \in Seq(Published) : Len(q) <= 2}, class : Ing!Classes]
Intakes == [accepted : Seq(Published), rejected : [Ing!Classes -> Nat]]
Answers == [sent : Nat, accepted : Nat, rejected : Nat]

\* Induction over the naturals, as a fact about sets.
LEMMA SetInduction ==
    ASSUME NEW T, 0 \in T, \A n \in Nat : n \in T => n + 1 \in T
    PROVE  Nat \subseteq T
<1> SUFFICES ASSUME Nat \ T # {} PROVE FALSE
  OBVIOUS
<1>1. PICK x \in Nat \ T : \A y \in Nat \ T : ~(<<y, x>> \in OpToRel(<, Nat))
  <2>1. (Nat \ T) \subseteq Nat
    OBVIOUS
  <2> QED  BY NatLessThanWellFounded, WFMin, <2>1, Zenon
<1>2. \A y \in Nat \ T : ~(y < x)
  BY <1>1 DEF OpToRel
<1>3. x # 0 /\ x - 1 \in Nat
  OBVIOUS
<1>4. x - 1 \in T
  BY <1>2, <1>3
<1> QED  BY <1>3, <1>4

\* A loop of N rounds over the values of X, from base: it has a value after each.
LoopOf(X, N, base, round) ==
    \E f \in [0..N -> X] : f[0] = base /\ \A n \in 1..N : f[n] = round[n][f[n - 1]]
\* Such a loop always has one.
LEMMA LoopExists ==
    ASSUME NEW X, NEW N \in Nat, NEW base \in X, NEW round \in [1..N -> [X -> X]]
    PROVE  LoopOf(X, N, base, round)
<1> DEFINE Upto(n) == \E f \in [0..n -> X] :
              f[0] = base /\ \A i \in 1..n : f[i] = round[i][f[i - 1]]
           T == {n \in Nat : n <= N => Upto(n)}
<1>1. Upto(0)
  <2> DEFINE f == [i \in 0..0 |-> base]
  <2>1. f \in [0..0 -> X] /\ f[0] = base /\ 1..0 = {}
    OBVIOUS
  <2> QED  BY <2>1
<1>2. ASSUME NEW n \in Nat, n + 1 <= N, Upto(n)
      PROVE  Upto(n + 1)
  <2>1. PICK f \in [0..n -> X] : f[0] = base /\ \A i \in 1..n : f[i] = round[i][f[i - 1]]
    BY <1>2
  <2> DEFINE g == [i \in 0..(n + 1) |-> IF i = n + 1 THEN round[n + 1][f[n]] ELSE f[i]]
  <2>2. n + 1 \in 1..N /\ f[n] \in X /\ round[n + 1][f[n]] \in X
    BY <1>2
  <2>3. g \in [0..(n + 1) -> X] /\ g[0] = base
    BY <2>1, <2>2
  <2>4. \A i \in 1..(n + 1) : g[i] = round[i][g[i - 1]]
    BY <2>1, <2>2
  <2> QED  BY <2>3, <2>4
<1>3. 0 \in T
  BY <1>1
<1>4. \A n \in Nat : n \in T => n + 1 \in T
  <2> HIDE DEF Upto
  <2> QED  BY <1>2
<1>5. Nat \subseteq T
  <2> HIDE DEF T
  <2> QED  BY <1>3, <1>4, SetInduction
<1>6. Upto(N)
  BY <1>5
<1> QED  BY <1>6 DEF LoopOf


\* Taking one more result.
LEMMA TakeOne ==
    ASSUME NEW done \in Intakes, NEW one \in Results
    PROVE  /\ Ing!Take(done, one) \in Intakes
           /\ one.events = <<>> =>
                 /\ Ing!Take(done, one).accepted = done.accepted
                 /\ Ing!Total(Ing!Take(done, one).rejected) = Ing!Total(done.rejected) + 1
           /\ one.events # <<>> =>
                 /\ Ing!Take(done, one).accepted = done.accepted \o one.events
                 /\ Ing!Take(done, one).rejected = done.rejected
<1>1. /\ done = [accepted |-> done.accepted, rejected |-> done.rejected]
      /\ done.accepted \in Seq(Published) /\ done.rejected \in [Ing!Classes -> Nat]
      /\ one.events \in Seq(Published) /\ one.class \in Ing!Classes
  BY DEF Intakes, Results
<1>2. CASE one.events = <<>>
  <2> DEFINE more == [done.rejected EXCEPT ![one.class] = done.rejected[one.class] + 1]
  <2>1. Ing!Take(done, one) = [done EXCEPT !.rejected = more]
    BY <1>1, <1>2 DEF Ing!Take, Intakes
  <2>2. more \in [Ing!Classes -> Nat]
    BY <1>1
  <2>3. Ing!Total(more) = Ing!Total(done.rejected) + 1
    BY <1>1 DEF Ing!Total, Ing!Classes
  <2> HIDE DEF more
  <2>4. /\ Ing!Take(done, one) \in Intakes /\ Ing!Take(done, one).rejected = more
        /\ Ing!Take(done, one).accepted = done.accepted
    BY <1>1, <2>1, <2>2 DEF Intakes
  <2> QED  BY <1>2, <2>3, <2>4
<1>3. CASE one.events # <<>>
  <2> DEFINE more == done.accepted \o one.events
  <2>1. Ing!Take(done, one) = [done EXCEPT !.accepted = more]
    BY <1>3 DEF Ing!Take
  <2>2. more \in Seq(Published)
    BY <1>1, ConcatProperties
  <2> HIDE DEF more
  <2>3. /\ Ing!Take(done, one) \in Intakes /\ Ing!Take(done, one).accepted = more
        /\ Ing!Take(done, one).rejected = done.rejected
    BY <1>1, <2>1, <2>2 DEF Intakes
  <2> QED  BY <1>3, <2>3 DEF more
<1> QED  BY <1>2, <1>3

\* The loop over a request's body is defined.
LEMMA IntakeExists ==
    ASSUME NEW taken \in Seq(Results)
    PROVE  \E f : f = [n \in 0..Len(taken) |-> IF n = 0 THEN Ing!Nothing
                                               ELSE Ing!Take(f[n - 1], taken[n])]
<1> DEFINE N == Len(taken)
           round == [n \in 1..N |-> [d \in Intakes |-> Ing!Take(d, taken[n])]]
<1>1. N \in Nat /\ \A n \in 1..N : taken[n] \in Results
  BY LenProperties, ElementOfSeq
<1>2. Ing!Nothing \in Intakes
  BY EmptySeq DEF Ing!Nothing, Intakes
<1>3. round \in [1..N -> [Intakes -> Intakes]]
  BY <1>1, TakeOne
<1>4. \A n \in 1..N, d \in Intakes : round[n][d] = Ing!Take(d, taken[n])
  OBVIOUS
<1> HIDE DEF round, N
<1>5. PICK f \in [0..N -> Intakes] :
         f[0] = Ing!Nothing /\ \A n \in 1..N : f[n] = round[n][f[n - 1]]
  <2>1. N \in Nat
    BY <1>1
  <2>2. LoopOf(Intakes, N, Ing!Nothing, round)
    BY <2>1, <1>2, <1>3, LoopExists
  <2> QED  BY <2>2 DEF LoopOf
<1>6. \A n \in 0..N : f[n] = IF n = 0 THEN Ing!Nothing ELSE Ing!Take(f[n - 1], taken[n])
  BY <1>1, <1>4, <1>5
<1>7. f = [n \in 0..N |-> IF n = 0 THEN Ing!Nothing ELSE Ing!Take(f[n - 1], taken[n])]
  BY <1>5, <1>6
<1> QED  BY <1>7 DEF N

\* What the loop over a request's body has taken and rejected.
LEMMA IntakeRight ==
    ASSUME NEW taken \in Seq(Results)
    PROVE  LET done == Ing!Intake(taken)
           IN  /\ done \in Intakes
               /\ Ing!Total(done.rejected) \in Nat
               /\ Len(done.accepted) \in (Len(taken) - Ing!Total(done.rejected))
                                         ..(2 * (Len(taken) - Ing!Total(done.rejected)))
<1> DEFINE N == Len(taken)
           Def(f) == f = [n \in 0..N |-> IF n = 0 THEN Ing!Nothing
                                         ELSE Ing!Take(f[n - 1], taken[n])]
           After == CHOOSE f : Def(f)
           Kept(n) == /\ After[n] \in Intakes
                      /\ Ing!Total(After[n].rejected) \in Nat
                      /\ Len(After[n].accepted) \in (n - Ing!Total(After[n].rejected))
                                                 ..(2 * (n - Ing!Total(After[n].rejected)))
           T == {n \in Nat : n <= N => Kept(n)}
<1>1. N \in Nat /\ \A n \in 1..N : taken[n] \in Results
  BY LenProperties, ElementOfSeq
<1>2. /\ Ing!Nothing \in Intakes /\ Ing!Total(Ing!Nothing.rejected) = 0
      /\ Len(Ing!Nothing.accepted) = 0
  BY EmptySeq DEF Ing!Nothing, Intakes, Ing!Total, Ing!Classes
<1>3. \E f : Def(f)
  BY IntakeExists
<1>4. Def(After)
  <2> HIDE DEF Def
  <2> QED  BY <1>3
<1>5. Ing!Intake(taken) = After[N]
  BY DEF Ing!Intake
<1> HIDE DEF After
<1>6. /\ After[0] = Ing!Nothing
      /\ \A n \in Nat : n + 1 <= N => After[n + 1] = Ing!Take(After[n], taken[n + 1])
  <2> HIDE DEF N
  <2>1. After[0] = Ing!Nothing
    BY <1>1, <1>4
  <2>2. ASSUME NEW n \in Nat, n + 1 <= N
        PROVE  After[n + 1] = Ing!Take(After[n], taken[n + 1])
    <3>1. n + 1 \in 0..N /\ n + 1 # 0 /\ (n + 1) - 1 = n
      BY <1>1, <2>2
    <3> QED  BY <1>4, <3>1
  <2> QED  BY <2>1, <2>2
<1> HIDE DEF Def, N
<1>7. Kept(0)
  BY <1>2, <1>6
<1>8. ASSUME NEW n \in Nat, n + 1 <= N, Kept(n)
      PROVE  Kept(n + 1)
  <2> DEFINE one == taken[n + 1]
             done == After[n]
             more == Ing!Take(done, one)
  <2>1. one \in Results /\ done \in Intakes /\ more = After[n + 1]
    BY <1>1, <1>6, <1>8
  <2>2. /\ Ing!Total(done.rejected) \in Nat
        /\ Len(done.accepted) \in (n - Ing!Total(done.rejected))
                                  ..(2 * (n - Ing!Total(done.rejected)))
    BY <1>8
  <2>3. /\ one.events \in Seq(Published) /\ Len(one.events) \in Nat
        /\ Len(one.events) <= 2 /\ done.accepted \in Seq(Published)
        /\ Len(done.accepted) \in Nat
    BY <2>1, LenProperties DEF Results, Intakes
  <2>4. one.events # <<>> => Len(one.events) # 0 /\
           Len(done.accepted \o one.events) = Len(done.accepted) + Len(one.events)
    BY <2>3, EmptySeq, ConcatProperties
  <2> HIDE DEF one, done, more
  <2>5. /\ more \in Intakes
        /\ one.events = <<>> =>
              /\ more.accepted = done.accepted
              /\ Ing!Total(more.rejected) = Ing!Total(done.rejected) + 1
        /\ one.events # <<>> =>
              /\ more.accepted = done.accepted \o one.events
              /\ more.rejected = done.rejected
    BY <2>1, TakeOne DEF more
  <2>6. /\ Ing!Total(more.rejected) \in Nat
        /\ Len(more.accepted) \in (n + 1 - Ing!Total(more.rejected))
                                  ..(2 * (n + 1 - Ing!Total(more.rejected)))
    <3>1. CASE one.events = <<>>
      BY <2>2, <2>3, <2>5, <3>1
    <3>2. CASE one.events # <<>>
      <4>1. \A t, l, e \in Nat :
               l \in (n - t)..(2 * (n - t)) /\ e # 0 /\ e <= 2
               => l + e \in (n + 1 - t)..(2 * (n + 1 - t))
        OBVIOUS
      <4>2. Len(one.events) # 0 /\ Len(more.accepted) = Len(done.accepted) + Len(one.events)
        BY <2>4, <2>5, <3>2
      <4>3. more.rejected = done.rejected
        BY <2>5, <3>2
      <4> QED  BY <2>2, <2>3, <4>1, <4>2, <4>3
    <3> QED  BY <3>1, <3>2
  <2> QED  BY <2>1, <2>5, <2>6
<1> HIDE DEF Kept
<1>9. 0 \in T /\ \A n \in Nat : n \in T => n + 1 \in T
  <2>1. 0 \in T
    BY <1>7
  <2>2. \A n \in Nat : n \in T => n + 1 \in T
    BY <1>1, <1>8
  <2> QED  BY <2>1, <2>2
<1>10. Kept(N)
  <2>1. Nat \subseteq T
    <3> HIDE DEF T
    <3> QED  BY <1>9, SetInduction
  <2> QED  BY <1>1, <2>1
<1> QED  BY <1>5, <1>10 DEF Kept, N
-----------------------------------------------------------------------------
\* The rejections of answers add up.
LEMMA SaidUnfolds ==
    ASSUME NEW told \in Seq(Answers)
    PROVE  \E f \in [0..Len(told) -> Nat] :
              /\ f[0] = 0
              /\ \A n \in 1..Len(told) : f[n] = f[n - 1] + told[n].rejected
              /\ Ing!SaidRejected(told) = f[Len(told)]
<1> DEFINE N == Len(told)
           Def(f) == f = [n \in 0..N |-> IF n = 0 THEN 0 ELSE f[n - 1] + told[n].rejected]
           Upto == CHOOSE f : Def(f)
           round == [n \in 1..N |-> [d \in Nat |-> d + told[n].rejected]]
<1>1. N \in Nat /\ \A n \in 1..N : told[n].rejected \in Nat
  <2>1. N \in Nat /\ \A n \in 1..N : told[n] \in Answers
    BY LenProperties, ElementOfSeq
  <2> HIDE DEF N
  <2> QED  BY <2>1 DEF Answers
<1>2. round \in [1..N -> [Nat -> Nat]]
  BY <1>1
<1>3. \A n \in 1..N, d \in Nat : round[n][d] = d + told[n].rejected
  OBVIOUS
<1>4. Ing!SaidRejected(told) = Upto[N]
  BY DEF Ing!SaidRejected
<1> HIDE DEF round, N, Upto
<1>5. LoopOf(Nat, N, 0, round)
  BY <1>1, <1>2, LoopExists
<1>6. PICK f \in [0..N -> Nat] : f[0] = 0 /\ \A n \in 1..N : f[n] = round[n][f[n - 1]]
  BY <1>5 DEF LoopOf
<1>7. \A n \in 0..N : f[n] = IF n = 0 THEN 0 ELSE f[n - 1] + told[n].rejected
  <2>1. ASSUME NEW n \in 1..N
        PROVE  f[n] = f[n - 1] + told[n].rejected
    <3>1. n - 1 \in 0..N
      BY <1>1
    <3> QED  BY <1>3, <1>6, <3>1
  <2> QED  BY <1>6, <2>1
<1>8. Def(f)
  BY <1>6, <1>7
<1>9. Def(Upto)
  <2> HIDE DEF Def
  <2> QED  BY <1>8 DEF Upto
<1>10. /\ Upto = [n \in 0..N |-> Upto[n]] /\ Upto[0] = 0
       /\ \A n \in 1..N : Upto[n] = Upto[n - 1] + told[n].rejected
  <2>1. \A n \in 0..N : Upto[n] = IF n = 0 THEN 0 ELSE Upto[n - 1] + told[n].rejected
    BY <1>9
  <2>2. Upto = [n \in 0..N |-> Upto[n]]
    BY <1>9
  <2> QED  BY <1>1, <2>1, <2>2
<1> HIDE DEF Def
<1>11. \A n \in Nat : n <= N => Upto[n] \in Nat
  <2> DEFINE T == {n \in Nat : n <= N => Upto[n] \in Nat}
  <2>1. 0 \in T
    BY <1>10
  <2>2. \A n \in Nat : n \in T => n + 1 \in T
    <3>1. ASSUME NEW n \in Nat, n + 1 <= N, Upto[n] \in Nat
          PROVE  Upto[n + 1] \in Nat
      <4>1. n + 1 \in 1..N /\ (n + 1) - 1 = n
        BY <1>1, <3>1
      <4>2. Upto[n + 1] = Upto[n] + told[n + 1].rejected
        BY <1>10, <4>1
      <4>3. told[n + 1].rejected \in Nat
        BY <1>1, <4>1
      <4> QED  BY <3>1, <4>2, <4>3
    <3> QED  BY <1>1, <3>1
  <2>3. Nat \subseteq T
    <3> HIDE DEF T
    <3> QED  BY <2>1, <2>2, SetInduction
  <2> QED  BY <2>3
<1>12. Upto \in [0..N -> Nat]
  BY <1>1, <1>10, <1>11
<1> QED  BY <1>4, <1>10, <1>12 DEF N

\* One more answer adds its rejections.
LEMMA SaidMore ==
    ASSUME NEW told \in Seq(Answers), NEW a \in Answers
    PROVE  /\ Ing!SaidRejected(told) \in Nat
           /\ Ing!SaidRejected(Append(told, a)) = Ing!SaidRejected(told) + a.rejected
<1> DEFINE more == Append(told, a)
           N == Len(told)
<1>1. /\ more \in Seq(Answers) /\ N \in Nat /\ Len(more) = N + 1
      /\ more[N + 1] = a /\ \A n \in 1..N : more[n] = told[n]
  BY AppendProperties, LenProperties
<1> HIDE DEF more
<1>2. PICK f \in [0..N -> Nat] :
         /\ f[0] = 0
         /\ \A n \in 1..N : f[n] = f[n - 1] + told[n].rejected
         /\ Ing!SaidRejected(told) = f[N]
  BY SaidUnfolds
<1>3. PICK g \in [0..(N + 1) -> Nat] :
         /\ g[0] = 0
         /\ \A n \in 1..(N + 1) : g[n] = g[n - 1] + more[n].rejected
         /\ Ing!SaidRejected(more) = g[N + 1]
  BY <1>1, SaidUnfolds
<1> HIDE DEF N
<1>4. \A n \in Nat : n <= N => f[n] = g[n]
  <2> DEFINE T == {n \in Nat : n <= N => f[n] = g[n]}
  <2>1. 0 \in T
    BY <1>2, <1>3
  <2>2. \A n \in Nat : n \in T => n + 1 \in T
    <3>1. ASSUME NEW n \in Nat, n + 1 <= N, f[n] = g[n]
          PROVE  f[n + 1] = g[n + 1]
      <4>1. n + 1 \in 1..N /\ n + 1 \in 1..(N + 1) /\ (n + 1) - 1 = n
        BY <1>1, <3>1
      <4>2. f[n + 1] = f[n] + told[n + 1].rejected
        BY <1>2, <4>1
      <4>3. g[n + 1] = g[n] + more[n + 1].rejected
        BY <1>3, <4>1
      <4> QED  BY <1>1, <3>1, <4>1, <4>2, <4>3
    <3> QED  BY <1>1, <3>1
  <2>3. Nat \subseteq T
    <3> HIDE DEF T
    <3> QED  BY <2>1, <2>2, SetInduction
  <2> QED  BY <2>3
<1>5. g[N + 1] = g[N] + a.rejected
  <2>1. N + 1 \in 1..(N + 1) /\ (N + 1) - 1 = N
    BY <1>1
  <2> QED  BY <1>1, <1>3, <2>1
<1>6. f[N] \in Nat /\ f[N] = g[N]
  BY <1>1, <1>2, <1>4
<1> QED  BY <1>2, <1>3, <1>5, <1>6 DEF more
-----------------------------------------------------------------------------
\* What is known of the requests, said of each.
LEMMA RequestsAre ==
    ASSUME Ing!KnownRequests
    PROVE  /\ \A body \in Bodies : body \in Seq(Ing!SentEvents)
           /\ \A t \in Traces : Ing!InContext(t) \in Seq(Ing!SentSpans)
           /\ \A v \in Ing!SentEvents : Len(v.id) = 1 /\ v.id # "" /\ Ing!Plain(v.texts)
           /\ \A v, w \in Ing!SentEvents : v.id = w.id => v = w
           /\ \A x \in Ing!SentSpans : Ing!Plain(x.texts)
           /\ \A x, y \in Ing!SentSpans : x.trace = y.trace /\ x.id = y.id => x = y
           /\ \A s \in IngestSettings : s.tenant # ""
           /\ \A s \in IngestSettings : s.retention_days \in 1..3650
           /\ \A s, q \in IngestSettings : s.tenant = q.tenant => s = q
           /\ \A digits \in CardNumbers : digits # <<>> /\ Ing!Luhn(digits)
BY DEF Ing!KnownRequests

\* What a recognizer leaves of a token.
LEMMA TokenRedacted ==
    ASSUME Ing!KnownRequests, NEW t, t.shows = "text",
           t.digits \in CardNumbers => "credit_card" \in t.matches
    PROVE  LET u == Ing!RedactToken(t)
           IN  /\ u.matches \subseteq {"credit_card"} /\ u.digits \notin CardNumbers
               /\ u.shows \in Ing!ToSet(Ing!SECRET_RECOGNIZERS) => u.matches = {}
<1>1. \A d \in CardNumbers : d # <<>> /\ Ing!Luhn(d)
  BY RequestsAre
<1>2. "text" \notin Ing!ToSet(Ing!SECRET_RECOGNIZERS)
  BY DEF Ing!ToSet, Ing!SECRET_RECOGNIZERS
<1>3. CASE Ing!Matches(t) = {}
  <2>1. Ing!RedactToken(t) = t
    BY <1>3 DEF Ing!RedactToken
  <2>2. t.matches \subseteq {"credit_card"} /\ t.digits \notin CardNumbers
    BY <1>1, <1>3 DEF Ing!Matches
  <2> QED  BY <1>2, <2>1, <2>2
<1>4. CASE Ing!Matches(t) # {}
  <2>1. Ing!RedactToken(t).matches = {} /\ Ing!RedactToken(t).digits = <<>>
    BY <1>4 DEF Ing!RedactToken
  <2> QED  BY <1>1, <2>1
<1> QED  BY <1>3, <1>4

\* What enriching and redacting leave of an event.
LEMMA PreparedIs ==
    ASSUME NEW m, NEW s
    PROVE  LET p == Ing!Prepare(m, s)
           IN  /\ p.event = m.event /\ p.id = m.id /\ p.empty = m.empty
               /\ p.fields = m.fields /\ p.tenant = s.tenant
               /\ p.retention_days = s.retention_days
               /\ ~s.redact => p.texts = m.texts
               /\ s.redact =>
                     p.texts = [k \in DOMAIN m.texts |->
                                   IF k \in Ing!STRUCTURAL_KEYS THEN m.texts[k]
                                   ELSE Ing!RedactText(m.texts[k])]
<1>1. CASE s.redact
  BY <1>1 DEF Ing!Prepare, Ing!Enrich, Ing!Stamp, Ing!RedactEvent
<1>2. CASE ~s.redact
  BY <1>2 DEF Ing!Prepare, Ing!Enrich, Ing!Stamp
<1> QED  BY <1>1, <1>2

\* What spans become.
LEMMA SpanEventsAre ==
    ASSUME NEW x, NEW i \in DOMAIN Ing!MapSpan(x)
    PROVE  \E name, fields :
              /\ Ing!MapSpan(x)[i] = Ing!SpanEvent(x, name, fields)
              /\ \A j \in DOMAIN Ing!MapSpan(x) :
                    Ing!MapSpan(x)[j].id[3] = name => i = j
<1>1. CASE Ing!IsStep(x)
  <2>1. Ing!MapSpan(x) = <<Ing!SpanEvent(x, "step_executed", Ing!StepFields(x))>>
    BY <1>1 DEF Ing!MapSpan
  <2>2. i = 1 /\ DOMAIN Ing!MapSpan(x) = {1}
    BY <2>1
  <2> QED  BY <2>1, <2>2
<1>2. CASE ~Ing!IsStep(x) /\ Ing!IsOutcome(x)
  <2> DEFINE name == Ing!Outcomes[x.attrs["outcome"]]
             one == Ing!SpanEvent(x, "task_started", {"initiator"})
             two == Ing!SpanEvent(x, name, Ing!Required[name])
  <2>1. Ing!MapSpan(x) = <<one, two>>
    BY <1>2 DEF Ing!MapSpan
  <2>2. name # "task_started"
    BY <1>2 DEF Ing!IsOutcome, Ing!Outcomes
  <2>3. one.id[3] = "task_started" /\ two.id[3] = name
    BY DEF Ing!SpanEvent
  <2>4. DOMAIN Ing!MapSpan(x) = {1, 2} /\ Ing!MapSpan(x)[1] = one /\ Ing!MapSpan(x)[2] = two
    BY <2>1
  <2>5. CASE i = 1
    BY <2>2, <2>3, <2>4, <2>5
  <2>6. CASE i = 2
    BY <2>2, <2>3, <2>4, <2>6
  <2> QED  BY <2>4, <2>5, <2>6
<1>3. CASE ~Ing!IsStep(x) /\ ~Ing!IsOutcome(x)
  BY <1>3 DEF Ing!MapSpan
<1> QED  BY <1>1, <1>2, <1>3

\* What can be published of what senders send.
LEMMA RawIs ==
    ASSUME Ing!KnownRequests, NEW m \in Raw
    PROVE  /\ Ing!Plain(m.texts) /\ Ing!EnvelopeRequired \subseteq m.fields
           /\ m.empty # {} => \E x \in Ing!SentSpans :
                 Ing!Empty(x) # {} /\ m.id = <<x.trace, x.id, m.event>>
           /\ \/ \E v \in Ing!SentEvents : m = Ing!Message(v) /\ m.id = v.id /\ Len(m.id) = 1
              \/ \E x \in Ing!SentSpans : \E i \in DOMAIN Ing!MapSpan(x) :
                    m = Ing!MapSpan(x)[i] /\ Len(m.id) = 3
<1>events. \A v \in Ing!SentEvents : Len(v.id) = 1 /\ v.id # "" /\ Ing!Plain(v.texts)
  BY RequestsAre
<1>spans. \A x \in Ing!SentSpans : Ing!Plain(x.texts)
  BY RequestsAre
<1>1. ASSUME NEW v \in Ing!SentEvents, Ing!Parses(v), m = Ing!Message(v)
      PROVE  /\ Ing!Plain(m.texts) /\ Ing!EnvelopeRequired \subseteq m.fields
             /\ m.empty = {} /\ m.id = v.id /\ Len(m.id) = 1
  <2>1. Len(v.id) = 1 /\ v.id # "" /\ Ing!Plain(v.texts)
    BY <1>events
  <2>2. m.id = v.id /\ m.empty = {} /\ m.fields = Ing!Schema(v).keeps
    BY <1>1 DEF Ing!Message
  <2>3. Ing!Plain(m.texts)
    <3>1. /\ DOMAIN m.texts \subseteq DOMAIN v.texts
          /\ \A k \in DOMAIN m.texts : m.texts[k] = v.texts[k]
      BY <1>1 DEF Ing!Message
    <3> QED  BY <2>1, <3>1 DEF Ing!Plain
  <2>4. Ing!EnvelopeRequired \subseteq Ing!Schema(v).keeps
    <3>1. Ing!Schema(v).needs \subseteq v.valid
      BY <1>1 DEF Ing!Parses, Ing!Issues
    <3>2. Ing!EnvelopeRequired \subseteq Ing!EnvelopeFields
      BY DEF Ing!EnvelopeFields
    <3>3. CASE v.event \in Ing!TOQAR_EVENT_NAMES
      <4>1. /\ Ing!Schema(v).needs = Ing!EnvelopeRequired \cup Ing!Required[v.event]
            /\ Ing!Schema(v).keeps = Ing!Known(v.event) \cap v.valid
        BY <3>3 DEF Ing!Schema
      <4> QED  BY <3>1, <3>2, <4>1 DEF Ing!Known
    <3>4. CASE v.event \notin Ing!TOQAR_EVENT_NAMES
      <4>1. /\ Ing!Schema(v).needs = Ing!EnvelopeRequired
            /\ Ing!Schema(v).keeps = v.valid \cup v.invalid
        BY <3>4 DEF Ing!Schema
      <4> QED  BY <3>1, <4>1
    <3> QED  BY <3>3, <3>4
  <2> QED  BY <2>1, <2>2, <2>3, <2>4
<1>2. ASSUME NEW x \in Ing!SentSpans, NEW i \in DOMAIN Ing!MapSpan(x), m = Ing!MapSpan(x)[i]
      PROVE  /\ Ing!Plain(m.texts) /\ Ing!EnvelopeRequired \subseteq m.fields /\ Len(m.id) = 3
             /\ m.empty = Ing!Empty(x) /\ m.id = <<x.trace, x.id, m.event>>
  <2>1. PICK name, fields : m = Ing!SpanEvent(x, name, fields)
    BY <1>2, SpanEventsAre
  <2>2. Ing!Plain(x.texts)
    BY <1>spans
  <2>3. /\ m.id = <<x.trace, x.id, name>> /\ m.texts = x.texts
        /\ m.fields = Ing!EnvelopeRequired \cup fields /\ m.event = name
        /\ m.empty = Ing!Empty(x)
    BY <2>1 DEF Ing!SpanEvent
  <2> QED  BY <2>2, <2>3
<1>3. \/ \E v \in Ing!SentEvents : Ing!Parses(v) /\ m = Ing!Message(v)
      \/ \E x \in Ing!SentSpans : \E i \in DOMAIN Ing!MapSpan(x) : m = Ing!MapSpan(x)[i]
  BY DEF Raw
<1>4. CASE \E v \in Ing!SentEvents : Ing!Parses(v) /\ m = Ing!Message(v)
  BY <1>1, <1>4
<1>5. CASE \E x \in Ing!SentSpans : \E i \in DOMAIN Ing!MapSpan(x) : m = Ing!MapSpan(x)[i]
  BY <1>2, <1>5
<1> QED  BY <1>3, <1>4, <1>5

\* No two of them have an id in common.
LEMMA RawDistinct ==
    ASSUME Ing!KnownRequests, NEW m \in Raw, NEW n \in Raw, m.id = n.id
    PROVE  m = n
<1> DEFINE Event(q) == \E v \in Ing!SentEvents : q = Ing!Message(v) /\ q.id = v.id
           SpanOf(q) == \E x \in Ing!SentSpans : \E i \in DOMAIN Ing!MapSpan(x) :
                           q = Ing!MapSpan(x)[i]
<1>events. \A v, w \in Ing!SentEvents : v.id = w.id => v = w
  BY RequestsAre
<1>spans. \A x, y \in Ing!SentSpans : x.trace = y.trace /\ x.id = y.id => x = y
  BY RequestsAre
<1>1. ASSUME NEW q \in Raw
      PROVE  (Event(q) /\ Len(q.id) = 1) \/ (SpanOf(q) /\ Len(q.id) = 3)
  <2>1. \/ \E v \in Ing!SentEvents : q = Ing!Message(v) /\ q.id = v.id /\ Len(q.id) = 1
        \/ \E x \in Ing!SentSpans : \E i \in DOMAIN Ing!MapSpan(x) :
              q = Ing!MapSpan(x)[i] /\ Len(q.id) = 3
    BY RawIs
  <2> QED  BY <2>1
<1>2. CASE Event(m) /\ Event(n)
  <2>1. PICK v \in Ing!SentEvents : m = Ing!Message(v) /\ m.id = v.id
    BY <1>2
  <2>2. PICK w \in Ing!SentEvents : n = Ing!Message(w) /\ n.id = w.id
    BY <1>2
  <2>3. v = w
    <3>1. v.id = w.id
      BY <2>1, <2>2
    <3> QED  BY <3>1, <1>events
  <2> QED  BY <2>1, <2>2, <2>3
<1>3. CASE SpanOf(m) /\ SpanOf(n)
  <2>1. PICK x \in Ing!SentSpans : \E i \in DOMAIN Ing!MapSpan(x) : m = Ing!MapSpan(x)[i]
    BY <1>3
  <2>2. PICK i \in DOMAIN Ing!MapSpan(x) : m = Ing!MapSpan(x)[i]
    BY <2>1
  <2>3. PICK y \in Ing!SentSpans : \E j \in DOMAIN Ing!MapSpan(y) : n = Ing!MapSpan(y)[j]
    BY <1>3
  <2>4. PICK j \in DOMAIN Ing!MapSpan(y) : n = Ing!MapSpan(y)[j]
    BY <2>3
  <2>5. PICK name, fields : /\ m = Ing!SpanEvent(x, name, fields)
                            /\ \A k \in DOMAIN Ing!MapSpan(x) :
                                  Ing!MapSpan(x)[k].id[3] = name => i = k
    BY <2>2, SpanEventsAre
  <2>6. PICK other, more : n = Ing!SpanEvent(y, other, more)
    BY <2>4, SpanEventsAre
  <2>7. m.id = <<x.trace, x.id, name>> /\ n.id = <<y.trace, y.id, other>>
    BY <2>5, <2>6 DEF Ing!SpanEvent
  <2>8. x.trace = y.trace /\ x.id = y.id /\ name = other
    <3>1. <<x.trace, x.id, name>> = <<y.trace, y.id, other>>
      BY <2>7
    <3>2. \A a, b, c, d, e, f : <<a, b, c>> = <<d, e, f>> => a = d /\ b = e /\ c = f
      OBVIOUS
    <3> QED  BY <3>1, <3>2, Zenon
  <2>9. x = y
    BY <2>8, <1>spans
  <2>10. n.id[3] = name
    BY <2>7, <2>8
  <2> QED  BY <2>2, <2>4, <2>5, <2>9, <2>10
<1> QED  BY <1>1, <1>2, <1>3
-----------------------------------------------------------------------------
\* Rows come from prepared events of known settings.
RowsOf == {Ing!ToRow(m) : m \in Published}

\* What is published was something known, prepared for known settings.
LEMMA PublishedFrom ==
    ASSUME NEW p \in Published
    PROVE  \E m \in Raw, s \in IngestSettings : p = Ing!Prepare(m, s)
BY DEF Published

\* All that is so prepared may be published.
LEMMA PublishedOf ==
    ASSUME NEW m \in Raw, NEW s \in IngestSettings
    PROVE  Ing!Prepare(m, s) \in Published
<1>1. <<m, s>> \in Raw \X IngestSettings /\ <<m, s>>[1] = m /\ <<m, s>>[2] = s
  OBVIOUS
<1> QED  BY <1>1, Zenon DEF Published

\* What is known of the settings.
LEMMA SettingsAre ==
    ASSUME Ing!KnownRequests
    PROVE  /\ \A s \in IngestSettings : s.tenant # ""
           /\ \A s, q \in IngestSettings : s.tenant = q.tenant => s = q
BY DEF Ing!KnownRequests

\* A retention that the registry lets through is kept as it is.
LEMMA RetentionKept ==
    ASSUME Ing!KnownRequests, NEW s \in IngestSettings
    PROVE  Ing!RetentionDays(s.retention_days) = s.retention_days
<1>1. \A q \in IngestSettings : q.retention_days \in 1..3650
  BY DEF Ing!KnownRequests
<1>2. s.retention_days \in 1..3650
  BY <1>1
<1> DEFINE days == s.retention_days
<1>3. days \in 1..3650
  BY <1>2
<1> HIDE DEF days
<1>4. ~(days < 1) /\ ~(days > 3650)
  BY <1>3
<1> QED  BY <1>4 DEF Ing!RetentionDays, days

\* What a row keeps of the event it is made of.
LEMMA RowIs ==
    ASSUME Ing!KnownRequests, NEW m \in Raw, NEW s \in IngestSettings
    PROVE  LET r == Ing!ToRow(Ing!Prepare(m, s))
           IN  /\ r.id = m.id /\ r.tenant = s.tenant /\ r.retention_days = s.retention_days
               /\ r.payload = Ing!Prepare(m, s).texts
<1> DEFINE p == Ing!Prepare(m, s)
<1>1. p.id = m.id /\ p.tenant = s.tenant /\ p.retention_days = s.retention_days
  BY PreparedIs
<1>3. Ing!RetentionDays(s.retention_days) = s.retention_days
  BY RetentionKept
<1> HIDE DEF p
<1>4. LET r == Ing!ToRow(p)
      IN  /\ r.id = p.id /\ r.tenant = p.tenant /\ r.payload = p.texts
          /\ r.retention_days = Ing!RetentionDays(p.retention_days)
  BY DEF Ing!ToRow
<1> QED  BY <1>1, <1>3, <1>4 DEF p

\* A request sent again adds no row.
LEMMA RowsDistinct ==
    ASSUME Ing!KnownRequests, NEW r \in RowsOf, NEW q \in RowsOf,
           r.id = q.id, r.tenant = q.tenant
    PROVE  r = q
<1>1. PICK m \in Raw, s \in IngestSettings : r = Ing!ToRow(Ing!Prepare(m, s))
  BY PublishedFrom DEF RowsOf
<1>2. PICK n \in Raw, u \in IngestSettings : q = Ing!ToRow(Ing!Prepare(n, u))
  BY PublishedFrom DEF RowsOf
<1>3. \A a, b \in IngestSettings : a.tenant = b.tenant => a = b
  BY SettingsAre
<1>4. m.id = n.id /\ s.tenant = u.tenant
  BY <1>1, <1>2, RowIs
<1>5. m = n
  BY <1>4, RawDistinct
<1>6. s = u
  BY <1>3, <1>4
<1> QED  BY <1>1, <1>2, <1>5, <1>6

\* A row has its tenant's retention, and only what the tenant agreed to store.
LEMMA RowAgreed ==
    ASSUME Ing!KnownRequests, NEW r \in RowsOf
    PROVE  \E s \in Ing!Settings(r.tenant) :
              /\ r.retention_days = s.retention_days
              /\ \A k \in DOMAIN r.payload : \A t \in Ing!Tokens(r.payload[k]) :
                    IF k \in Ing!STRUCTURAL_KEYS \/ ~s.redact THEN t.shows = "text"
                    ELSE /\ t.matches \subseteq {"credit_card"} /\ t.digits \notin CardNumbers
                         /\ t.shows \in Ing!ToSet(Ing!SECRET_RECOGNIZERS) => t.matches = {}
<1>1. PICK m \in Raw, s \in IngestSettings : r = Ing!ToRow(Ing!Prepare(m, s))
  BY PublishedFrom DEF RowsOf
<1>2. /\ r.tenant = s.tenant /\ r.retention_days = s.retention_days
      /\ r.payload = Ing!Prepare(m, s).texts
  BY <1>1, RowIs
<1>3. s \in Ing!Settings(r.tenant)
  BY <1>2 DEF Ing!Settings
<1>4. Ing!Plain(m.texts)
  BY RawIs
<1>5. \A k \in DOMAIN m.texts : \A i \in DOMAIN m.texts[k] :
         /\ m.texts[k][i].shows = "text"
         /\ m.texts[k][i].digits \in CardNumbers => "credit_card" \in m.texts[k][i].matches
  BY <1>4 DEF Ing!Plain
<1>7. /\ ~s.redact => r.payload = m.texts
      /\ s.redact => /\ DOMAIN r.payload = DOMAIN m.texts
                     /\ \A k \in DOMAIN m.texts :
                           r.payload[k] = IF k \in Ing!STRUCTURAL_KEYS THEN m.texts[k]
                                          ELSE Ing!RedactText(m.texts[k])
  <2> DEFINE redacted == [k \in DOMAIN m.texts |->
                             IF k \in Ing!STRUCTURAL_KEYS THEN m.texts[k]
                             ELSE Ing!RedactText(m.texts[k])]
  <2>1. (~s.redact => r.payload = m.texts) /\ (s.redact => r.payload = redacted)
    BY <1>2, PreparedIs
  <2>2. /\ DOMAIN redacted = DOMAIN m.texts
        /\ \A k \in DOMAIN m.texts :
              redacted[k] = IF k \in Ing!STRUCTURAL_KEYS THEN m.texts[k]
                            ELSE Ing!RedactText(m.texts[k])
    OBVIOUS
  <2> HIDE DEF redacted
  <2> QED  BY <2>1, <2>2
<1>8. ASSUME NEW k \in DOMAIN r.payload, NEW t \in Ing!Tokens(r.payload[k])
      PROVE  IF k \in Ing!STRUCTURAL_KEYS \/ ~s.redact THEN t.shows = "text"
             ELSE /\ t.matches \subseteq {"credit_card"} /\ t.digits \notin CardNumbers
                  /\ t.shows \in Ing!ToSet(Ing!SECRET_RECOGNIZERS) => t.matches = {}
  <2>1. PICK i \in DOMAIN r.payload[k] : t = r.payload[k][i]
    BY DEF Ing!Tokens
  <2>2. CASE k \in Ing!STRUCTURAL_KEYS \/ ~s.redact
    <3>1. k \in DOMAIN m.texts /\ r.payload[k] = m.texts[k]
      <4>1. CASE s.redact
        BY <1>7, <2>2, <4>1
      <4>2. CASE ~s.redact
        BY <1>7, <4>2
      <4> QED  BY <4>1, <4>2
    <3> QED  BY <1>5, <2>1, <2>2, <3>1
  <2>3. CASE k \notin Ing!STRUCTURAL_KEYS /\ s.redact
    <3>1. k \in DOMAIN m.texts /\ r.payload[k] = Ing!RedactText(m.texts[k])
      BY <1>7, <2>3
    <3>2. i \in DOMAIN m.texts[k] /\ t = Ing!RedactToken(m.texts[k][i])
      BY <2>1, <3>1 DEF Ing!RedactText
    <3>3. /\ m.texts[k][i].shows = "text"
          /\ m.texts[k][i].digits \in CardNumbers => "credit_card" \in m.texts[k][i].matches
      BY <1>5, <3>1, <3>2
    <3>4. /\ t.matches \subseteq {"credit_card"} /\ t.digits \notin CardNumbers
          /\ t.shows \in Ing!ToSet(Ing!SECRET_RECOGNIZERS) => t.matches = {}
      BY <3>2, <3>3, TokenRedacted
    <3> QED  BY <2>3, <3>4
  <2> QED  BY <2>2, <2>3
<1> QED  BY <1>2, <1>3, <1>8

\* The consumer cannot map only events of spans that left a text empty.
LEMMA LetterIs ==
    ASSUME Ing!KnownRequests, NEW p \in Published, ~Ing!Maps(p)
    PROVE  \E x \in Ing!SentSpans : Ing!Empty(x) # {} /\ p.id = <<x.trace, x.id, p.event>>
<1>1. PICK m \in Raw, s \in IngestSettings : p = Ing!Prepare(m, s)
  BY PublishedFrom
<1>2. /\ p.id = m.id /\ p.empty = m.empty /\ p.fields = m.fields
      /\ p.tenant = s.tenant /\ p.event = m.event
  BY <1>1, PreparedIs
<1>3. \A q \in IngestSettings : q.tenant # ""
  BY SettingsAre
<1>4. s.tenant # ""
  BY <1>3
<1>5. /\ Ing!EnvelopeRequired \subseteq m.fields
      /\ m.empty # {} => \E x \in Ing!SentSpans :
            Ing!Empty(x) # {} /\ m.id = <<x.trace, x.id, m.event>>
  BY RawIs
<1>6. p.empty # {}
  BY <1>2, <1>4, <1>5 DEF Ing!Maps
<1> QED  BY <1>2, <1>5, <1>6

\* What a request's results are.
LEMMA EventsTaken ==
    ASSUME Ing!KnownRequests, NEW body \in Bodies, NEW s \in IngestSettings
    PROVE  [i \in DOMAIN body |-> Ing!TakeEvent(body[i], s)] \in Seq(Results)
<1>1. \A b \in Bodies : b \in Seq(Ing!SentEvents)
  BY RequestsAre
<1>2. body \in Seq(Ing!SentEvents)
  BY <1>1
<1>3. Len(body) \in Nat /\ DOMAIN body = 1..Len(body)
  BY <1>2, LenProperties
<1>4. ASSUME NEW v \in Ing!SentEvents
      PROVE  Ing!TakeEvent(v, s) \in Results
  <2> DEFINE events == IF Ing!Parses(v) THEN <<Ing!Prepare(Ing!Message(v), s)>> ELSE <<>>
  <2>1. events \in Seq(Published) /\ Len(events) <= 2
    <3>1. CASE Ing!Parses(v)
      <4>1. Ing!Prepare(Ing!Message(v), s) \in Published
        <5>1. Ing!Message(v) \in {Ing!Message(w) : w \in {u \in Ing!SentEvents : Ing!Parses(u)}}
          BY <1>4, <3>1
        <5>2. Ing!Message(v) \in Raw
          BY <5>1, Zenon DEF Raw
        <5> QED  BY <5>2, PublishedOf
      <4> HIDE DEF Published
      <4> QED  BY <3>1, <4>1
    <3>2. CASE ~Ing!Parses(v)
      BY <3>2, EmptySeq
    <3> QED  BY <3>1, <3>2
  <2>2. Ing!ReasonClass(v) \in Ing!Classes
    BY DEF Ing!ReasonClass, Ing!Classes
  <2>3. Ing!TakeEvent(v, s) = [events |-> events, class |-> Ing!ReasonClass(v)]
    BY DEF Ing!TakeEvent
  <2> HIDE DEF events
  <2> QED  BY <2>1, <2>2, <2>3 DEF Results
<1>5. \A i \in 1..Len(body) : body[i] \in Ing!SentEvents
  BY <1>2, ElementOfSeq
<1> DEFINE n == Len(body)
           taken == [i \in 1..n |-> Ing!TakeEvent(body[i], s)]
<1>6. taken \in [1..n -> Results]
  BY <1>4, <1>5
<1> HIDE DEF n
<1>7. taken \in Seq(Results)
  <2> HIDE DEF taken
  <2> QED  BY <1>3, <1>6 DEF n
<1> QED  BY <1>3, <1>7 DEF n

\* The same of a request with spans.
LEMMA SpansTaken ==
    ASSUME Ing!KnownRequests, NEW t \in Traces, NEW s \in IngestSettings
    PROVE  [i \in DOMAIN t.spans |-> Ing!TakeSpan(Ing!InContext(t)[i], s)] \in Seq(Results)
<1> DEFINE spans == Ing!InContext(t)
<1>1. \A b \in Traces : Ing!InContext(b) \in Seq(Ing!SentSpans)
  BY RequestsAre
<1>2. spans \in Seq(Ing!SentSpans)
  BY <1>1
<1>0. DOMAIN spans = DOMAIN t.spans
  BY DEF Ing!InContext
<1> HIDE DEF spans
<1>3. Len(spans) \in Nat /\ DOMAIN spans = 1..Len(spans)
  BY <1>2, LenProperties
<1>4. ASSUME NEW x \in Ing!SentSpans
      PROVE  Ing!TakeSpan(x, s) \in Results
  <2> DEFINE events == [i \in DOMAIN Ing!MapSpan(x) |-> Ing!Prepare(Ing!MapSpan(x)[i], s)]
  <2>1. \E n \in 0..2 : DOMAIN Ing!MapSpan(x) = 1..n
    <3>1. CASE Ing!IsStep(x)
      <4>1. DOMAIN Ing!MapSpan(x) = 1..1
        BY <3>1 DEF Ing!MapSpan
      <4> QED  BY <4>1
    <3>2. CASE ~Ing!IsStep(x) /\ Ing!IsOutcome(x)
      <4>1. DOMAIN Ing!MapSpan(x) = 1..2
        BY <3>2 DEF Ing!MapSpan
      <4> QED  BY <4>1
    <3>3. CASE ~Ing!IsStep(x) /\ ~Ing!IsOutcome(x)
      <4>1. DOMAIN Ing!MapSpan(x) = 1..0
        BY <3>3 DEF Ing!MapSpan
      <4> QED  BY <4>1
    <3> QED  BY <3>1, <3>2, <3>3
  <2>2. PICK n \in 0..2 : DOMAIN Ing!MapSpan(x) = 1..n
    BY <2>1
  <2>3. \A i \in 1..n : Ing!Prepare(Ing!MapSpan(x)[i], s) \in Published
    <3> SUFFICES ASSUME NEW i \in 1..n
                 PROVE  Ing!Prepare(Ing!MapSpan(x)[i], s) \in Published
      OBVIOUS
    <3>1. Ing!MapSpan(x)[i] \in {Ing!MapSpan(x)[j] : j \in DOMAIN Ing!MapSpan(x)}
      BY <2>2
    <3>2. Ing!MapSpan(x)[i] \in Raw
      BY <1>4, <3>1, Zenon DEF Raw
    <3> QED  BY <3>2, PublishedOf
  <2>4. events \in [1..n -> Published]
    BY <2>2, <2>3
  <2>5. Ing!TakeSpan(x, s) = [events |-> events, class |-> "unmapped_span"]
    BY DEF Ing!TakeSpan
  <2> HIDE DEF events
  <2>6. events \in Seq(Published) /\ Len(events) <= 2
    <3>1. n \in Nat /\ n <= 2
      BY <2>2
    <3>2. events \in Seq(Published)
      BY <2>4, <3>1
    <3>3. Len(events) = n
      BY <2>4, <3>1, <3>2, LenProperties
    <3> QED  BY <3>1, <3>2, <3>3
  <2>7. "unmapped_span" \in Ing!Classes
    BY DEF Ing!Classes
  <2> QED  BY <2>5, <2>6, <2>7 DEF Results
<1>5. \A i \in 1..Len(spans) : spans[i] \in Ing!SentSpans
  BY <1>2, ElementOfSeq
<1> DEFINE n == Len(spans)
           taken == [i \in 1..n |-> Ing!TakeSpan(spans[i], s)]
<1>6. taken \in [1..n -> Results]
  BY <1>4, <1>5
<1> HIDE DEF n
<1>7. taken \in Seq(Results)
  <2> HIDE DEF taken
  <2> QED  BY <1>3, <1>6 DEF n
<1> QED  BY <1>0, <1>3, <1>7 DEF n, spans
-----------------------------------------------------------------------------
\* The inductive invariant.
Unmappable == {m \in Published : ~Ing!Maps(m)}
Balanced(a) ==
    a.accepted \in (a.sent - a.rejected)..(2 * (a.sent - a.rejected))
IngInv ==
    /\ ing_topic \in Seq(Published) /\ ing_rows \subseteq RowsOf /\ ing_letters \subseteq Unmappable
    /\ ing_rejections \in [Ing!Classes -> Nat]
    /\ ing_answers \in Seq(Answers) /\ \A i \in DOMAIN ing_answers : Balanced(ing_answers[i])
    /\ Ing!SaidRejected(ing_answers) <= Ing!Total(ing_rejections)

\* The counters of two requests add up.
LEMMA TotalAdds ==
    ASSUME NEW a \in [Ing!Classes -> Nat], NEW b \in [Ing!Classes -> Nat]
    PROVE  LET both == [c \in Ing!Classes |-> a[c] + b[c]]
           IN  /\ both \in [Ing!Classes -> Nat] /\ Ing!Total(a) \in Nat /\ Ing!Total(b) \in Nat
               /\ Ing!Total(both) = Ing!Total(a) + Ing!Total(b)
BY DEF Ing!Classes, Ing!Total

\* The initial state satisfies the invariant.
LEMMA IngestStarts == Ing!Init => IngInv
<1> SUFFICES ASSUME Ing!Init PROVE IngInv
  OBVIOUS
<1>1. ing_topic = <<>> /\ ing_rows = {} /\ ing_letters = {} /\ ing_answers = <<>>
  BY DEF Ing!Init
<1>2. ing_rejections \in [Ing!Classes -> Nat] /\ Ing!Total(ing_rejections) = 0
  <2>1. ing_rejections = [c \in Ing!Classes |-> 0]
    BY DEF Ing!Init
  <2> QED  BY <2>1 DEF Ing!Classes, Ing!Total
<1>3. <<>> \in Seq(Answers) /\ Len(<<>>) = 0 /\ <<>> \in Seq(Published)
  BY EmptySeq
<1>4. Ing!SaidRejected(ing_answers) = 0
  <2>1. PICK f \in [0..Len(<<>>) -> Nat] :
           f[0] = 0 /\ Ing!SaidRejected(<<>>) = f[Len(<<>>)]
    BY <1>3, SaidUnfolds
  <2> QED  BY <1>1, <1>3, <2>1
<1>5. DOMAIN ing_answers = {}
  BY <1>1
<1> QED  BY <1>1, <1>2, <1>3, <1>4, <1>5 DEF IngInv

\* An answer, or a refusal, to a request.
LEMMA AnswerStep ==
    ASSUME IngInv, NEW taken \in Seq(Results), Ing!Answer(taken), UNCHANGED <<ing_rows,
                                                                              ing_letters>>
    PROVE  IngInv'
<1> DEFINE done == Ing!Intake(taken)
           a == [sent |-> Len(taken), accepted |-> Len(done.accepted),
                 rejected |-> Ing!Total(done.rejected)]
<1>1. /\ done \in Intakes /\ Ing!Total(done.rejected) \in Nat
      /\ Len(done.accepted) \in (Len(taken) - Ing!Total(done.rejected))
                                ..(2 * (Len(taken) - Ing!Total(done.rejected)))
  BY IntakeRight
<1>2. /\ done.accepted \in Seq(Published) /\ done.rejected \in [Ing!Classes -> Nat]
  BY <1>1 DEF Intakes
<1>3. Len(taken) \in Nat /\ Len(done.accepted) \in Nat
  BY <1>2, LenProperties
<1>4. a \in Answers /\ Balanced(a) /\ a.rejected = Ing!Total(done.rejected)
  <2>1. a.sent = Len(taken) /\ a.accepted = Len(done.accepted)
        /\ a.rejected = Ing!Total(done.rejected)
    OBVIOUS
  <2>2. a \in Answers
    BY <1>1, <1>3 DEF Answers
  <2> HIDE DEF a
  <2> QED  BY <1>1, <2>1, <2>2 DEF Balanced
<1> HIDE DEF a
<1>5. /\ ing_rejections' = [c \in Ing!Classes |-> ing_rejections[c] + done.rejected[c]]
      /\ \/ ing_topic' = ing_topic \o done.accepted /\ ing_answers' = Append(ing_answers, a)
         \/ ing_topic' = ing_topic /\ ing_answers' = ing_answers
  BY DEF Ing!Answer, a
<1> HIDE DEF done
<1>6. /\ ing_rejections \in [Ing!Classes -> Nat] /\ ing_topic \in Seq(Published)
      /\ ing_answers \in Seq(Answers) /\ \A i \in DOMAIN ing_answers : Balanced(ing_answers[i])
      /\ Ing!SaidRejected(ing_answers) <= Ing!Total(ing_rejections)
  BY DEF IngInv
<1>7. /\ ing_rejections' \in [Ing!Classes -> Nat] /\ Ing!Total(ing_rejections) \in Nat
      /\ Ing!Total(ing_rejections') = Ing!Total(ing_rejections) + Ing!Total(done.rejected)
  BY <1>2, <1>5, <1>6, TotalAdds
<1>8. ing_rows' \subseteq RowsOf /\ ing_letters' \subseteq Unmappable
  BY DEF IngInv
<1>9. ing_topic' \in Seq(Published)
  BY <1>2, <1>5, <1>6, ConcatProperties
<1>10. /\ ing_answers' \in Seq(Answers) /\ \A i \in DOMAIN ing_answers' : Balanced(ing_answers'[i])
       /\ Ing!SaidRejected(ing_answers') <= Ing!Total(ing_rejections')
  <2>1. Ing!SaidRejected(ing_answers) \in Nat
    BY <1>4, <1>6, SaidMore
  <2>2. CASE ing_answers' = ing_answers
    BY <1>1, <1>6, <1>7, <2>1, <2>2
  <2>3. CASE ing_answers' = Append(ing_answers, a)
    <3>1. Ing!SaidRejected(ing_answers') = Ing!SaidRejected(ing_answers) + a.rejected
      BY <1>4, <1>6, <2>3, SaidMore
    <3>2. /\ ing_answers' \in Seq(Answers) /\ Len(ing_answers') = Len(ing_answers) + 1
          /\ ing_answers'[Len(ing_answers) + 1] = a
          /\ \A i \in 1..Len(ing_answers) : ing_answers'[i] = ing_answers[i]
      BY <1>4, <1>6, <2>3, AppendProperties
    <3>3. /\ Len(ing_answers) \in Nat /\ DOMAIN ing_answers = 1..Len(ing_answers)
          /\ DOMAIN ing_answers' = 1..Len(ing_answers')
      BY <1>6, <3>2, LenProperties
    <3>4. \A i \in DOMAIN ing_answers' : Balanced(ing_answers'[i])
      <4> SUFFICES ASSUME NEW i \in DOMAIN ing_answers'
                   PROVE  Balanced(ing_answers'[i])
        OBVIOUS
      <4>1. CASE i = Len(ing_answers) + 1
        BY <1>4, <3>2, <4>1
      <4>2. CASE i # Len(ing_answers) + 1
        <5>1. i \in 1..Len(ing_answers)
          BY <3>2, <3>3, <4>2
        <5> QED  BY <1>6, <3>2, <3>3, <5>1
      <4> QED  BY <4>1, <4>2
    <3> QED  BY <1>1, <1>4, <1>6, <1>7, <2>1, <3>1, <3>2, <3>4
  <2> QED  BY <1>5, <2>2, <2>3
<1> QED  BY <1>7, <1>8, <1>9, <1>10 DEF IngInv

\* A message mapped, or dead-lettered, by the consumer.
LEMMA ConsumeStep ==
    ASSUME IngInv, Ing!Consume
    PROVE  IngInv'
<1>1. /\ ing_topic # <<>> /\ ing_topic' = Tail(ing_topic) /\ ing_topic \in Seq(Published)
      /\ ing_rejections' = ing_rejections /\ ing_answers' = ing_answers
  BY DEF Ing!Consume, IngInv
<1>2. ing_topic[1] \in Published /\ ing_topic' \in Seq(Published)
  <2>1. Len(ing_topic) \in Nat \ {0}
    BY <1>1, EmptySeq
  <2>2. 1 \in 1..Len(ing_topic)
    BY <2>1
  <2> QED  BY <1>1, <2>2, ElementOfSeq, HeadTailProperties
<1>3. ing_rows \subseteq RowsOf /\ ing_letters \subseteq Unmappable
  BY DEF IngInv
<1>4. ing_rows' \subseteq RowsOf /\ ing_letters' \subseteq Unmappable
  <2>1. CASE Ing!Maps(ing_topic[1])
    <3>1. ing_rows' = ing_rows \cup {Ing!ToRow(ing_topic[1])} /\ ing_letters' = ing_letters
      BY <2>1 DEF Ing!Consume
    <3>2. Ing!ToRow(ing_topic[1]) \in RowsOf
      BY <1>2 DEF RowsOf
    <3> QED  BY <1>3, <3>1, <3>2
  <2>2. CASE ~Ing!Maps(ing_topic[1])
    <3>1. ing_rows' = ing_rows /\ ing_letters' = ing_letters \cup {ing_topic[1]}
      BY <2>2 DEF Ing!Consume
    <3>2. ing_topic[1] \in Unmappable
      BY <1>2, <2>2 DEF Unmappable
    <3> QED  BY <1>3, <3>1, <3>2
  <2> QED  BY <2>1, <2>2
<1>5. /\ ing_rejections \in [Ing!Classes -> Nat]
      /\ ing_answers \in Seq(Answers) /\ \A i \in DOMAIN ing_answers : Balanced(ing_answers[i])
      /\ Ing!SaidRejected(ing_answers) <= Ing!Total(ing_rejections)
  BY DEF IngInv
<1>6. /\ ing_rejections' \in [Ing!Classes -> Nat]
      /\ ing_answers' \in Seq(Answers) /\ \A i \in DOMAIN ing_answers' : Balanced(ing_answers'[i])
      /\ Ing!SaidRejected(ing_answers') <= Ing!Total(ing_rejections')
  BY <1>1, <1>5
<1> QED  BY <1>2, <1>4, <1>6 DEF IngInv

\* Every step keeps the invariant.
LEMMA IngestStep ==
    ASSUME Ing!KnownRequests, IngInv, [Ing!Next]_(Ing!vars)
    PROVE  IngInv'
<1>1. CASE Ing!PostEvents
  <2>1. PICK body \in Bodies, s \in IngestSettings :
           Ing!Answer([i \in DOMAIN body |-> Ing!TakeEvent(body[i], s)])
    BY <1>1 DEF Ing!PostEvents
  <2>2. UNCHANGED <<ing_rows, ing_letters>>
    BY <1>1 DEF Ing!PostEvents
  <2> QED  BY <2>1, <2>2, EventsTaken, AnswerStep
<1>2. CASE Ing!PostTraces
  <2>1. PICK t \in Traces, s \in IngestSettings :
           Ing!Answer([i \in DOMAIN t.spans |-> Ing!TakeSpan(Ing!InContext(t)[i], s)])
    BY <1>2 DEF Ing!PostTraces
  <2>2. UNCHANGED <<ing_rows, ing_letters>>
    BY <1>2 DEF Ing!PostTraces
  <2> QED  BY <2>1, <2>2, SpansTaken, AnswerStep
<1>3. CASE Ing!Consume
  BY <1>3, ConsumeStep
<1>4. CASE UNCHANGED Ing!vars
  <2>1. /\ ing_topic' = ing_topic /\ ing_rows' = ing_rows /\ ing_letters' = ing_letters
        /\ ing_rejections' = ing_rejections /\ ing_answers' = ing_answers
    BY <1>4 DEF Ing!vars
  <2> QED  BY <2>1 DEF IngInv
<1> QED  BY <1>1, <1>2, <1>3, <1>4 DEF Ing!Next

\* The invariant implies what ingest promises.
LEMMA IngestKept ==
    ASSUME Ing!KnownRequests
    PROVE  IngInv => Ing!IngestRight
<1> SUFFICES ASSUME IngInv PROVE Ing!IngestRight
  OBVIOUS
<1>1. ing_rows \subseteq RowsOf /\ ing_letters \subseteq Unmappable
  BY DEF IngInv
<1>2. Ing!StoredAsAgreed
  BY <1>1, RowAgreed DEF Ing!StoredAsAgreed
<1>3. Ing!AcceptedIsMappable
  BY <1>1, LetterIs DEF Ing!AcceptedIsMappable, Unmappable
<1>4. Ing!NothingUnaccounted
  BY DEF IngInv, Balanced, Ing!NothingUnaccounted
<1>5. Ing!ResentIsSame
  BY <1>1, RowsDistinct DEF Ing!ResentIsSame
<1> QED  BY <1>2, <1>3, <1>4, <1>5 DEF Ing!IngestRight

\* Ingest keeps what it promises, whatever the requests, the settings and the number of
\* requests: rows are stored under the token's tenant and retention and redacted as agreed,
\* what is accepted can be mapped, unless it is of a span that leaves a text of the envelope
\* empty, what is not accepted is accounted for, and a retry adds nothing.
THEOREM IngestIsRight ==
    ASSUME Ing!KnownRequests
    PROVE  Ing!Spec => []Ing!IngestRight
<1>1. Ing!Init => IngInv
  BY IngestStarts
<1>2. IngInv /\ [Ing!Next]_(Ing!vars) => IngInv'
  BY IngestStep
<1>3. IngInv => Ing!IngestRight
  BY IngestKept
<1> QED  BY <1>1, <1>2, <1>3, PTL DEF Ing!Spec
-----------------------------------------------------------------------------
\* What comes in, for any requests, wrappers and calls: rows are what the tenant's token and
\* settings allow, nothing acknowledged is unaccounted for, and a wrapped call is told as it
\* was (app.ts, otel.ts, redact.ts, transform.ts, wrappers.ts).
THEOREM CollectionIsRight == Ing!Spec /\ Wr!Spec => []IngestRight
<1>1. Ing!Spec => []Ing!IngestRight
  BY IngestIsRight, IngestAssumption
<1>2. Wr!Spec => []Wr!WrappersFaithful
  BY WrappersAreFaithful, WrappersAssumption
<1>3. Ing!IngestRight /\ Wr!WrappersFaithful => IngestRight
  BY DEF IngestRight
<1> QED  BY <1>1, <1>2, <1>3, PTL
=============================================================================
