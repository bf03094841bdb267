----------------------- MODULE EventsConsumer_proofs -----------------------
(***************************************************************************)
(* Proofs about EventsConsumer for every topic, every number of regions and *)
(* every number of restarts: it never skips a message, and it implements    *)
(* the committed log.  The invariant follows a message of the batch in hand *)
(* through the regions, the replies and the dead letters to where it is     *)
(* settled.                                                                 *)
(***************************************************************************)
EXTENDS EventsConsumer, SequenceTheorems, FiniteSetTheorems, TLAPS

\* The consumer is never ahead of the topic, nor behind its own commit.
Positions == committed <= from /\ from <= upto /\ upto <= Len(log)

\* What is consumed is settled.
PrefixSettled == \A o \in 1..from : Settled(o)

\* A message of the batch is settled, or a dead letter, or its region is yet
\* to be inserted; before the commit every one is settled.
BatchDealt ==
    /\ pc = "insert" =>
          \A o \in Batch : Settled(o) \/ o \in dead \/ log[o].kind \in todo
    /\ pc = "commit" => \A o \in Batch : Settled(o)

\* A confirmed insert is queryable, and so is all a remembered token stands for.
RepliesTrue ==
    /\ reply # "no" => pc = "insert" /\ region \in todo
    /\ reply = "ok" => RowEvents(Rows(region)) \subseteq table[region]
    /\ \A r \in Regions : \A rows \in tokens[r] : RowEvents(rows) \subseteq table[r]

IInv == TypeOK /\ Positions /\ PrefixSettled /\ BatchDealt /\ RepliesTrue
-----------------------------------------------------------------------------
\* The rows of a region are the messages of the batch that map to it.
LEMMA RowsFacts ==
    ASSUME TypeOK, Positions, NEW r \in Regions
    PROVE  /\ IsRows(Rows(r))
           /\ \A o \in Offsets(r) : log[o].event \in RowEvents(Rows(r))
<1>1. Len(log) \in Nat /\ \A o \in 1..Len(log) : log[o] \in Row
  BY LenProperties DEF TypeOK
<1>2. Offsets(r) \subseteq 1..Len(log) /\ Offsets(r) \subseteq from + 1 .. upto
  BY <1>1 DEF Offsets, Batch, TypeOK, Positions
<1>3. IsFiniteSet(Offsets(r))
  <2>1. IsFiniteSet(1..Len(log))
    BY <1>1, FS_Interval
  <2> QED  BY <1>2, <2>1, FS_Subset
<1>4. /\ DOMAIN Rows(r) = Offsets(r)
      /\ \A o \in Offsets(r) : Rows(r)[o] = log[o]
      /\ Rows(r) = [o \in Offsets(r) |-> Rows(r)[o]]
  BY DEF Rows
<1>5. Rows(r) \in [Offsets(r) -> Row]
  <2>1. \A o \in Offsets(r) : Rows(r)[o] \in Row
    BY <1>1, <1>2, <1>4
  <2> QED  BY <2>1, <1>4
<1>6. Offsets(r) \subseteq Nat
  BY <1>2
<1>7. IsRows(Rows(r))
  BY <1>3, <1>4, <1>5, <1>6 DEF IsRows
<1>8. ASSUME NEW o \in Offsets(r) PROVE log[o].event \in RowEvents(Rows(r))
  BY <1>4 DEF RowEvents
<1> QED  BY <1>7, <1>8

\* Batches that share a token carry the same events.
LEMMA SameRowsSameEvents ==
    ASSUME NEW rows, NEW others, SameRows(rows, others)
    PROVE  RowEvents(rows) = RowEvents(others)
  BY DEF SameRows, RowEvents

\* How often an event is among the rows is a number.
LEMMA CountIsNat ==
    ASSUME NEW rows, IsRows(rows), NEW e \in Events
    PROVE  CountOf(e, rows) \in Nat
<1>1. IsFiniteSet({o \in DOMAIN rows : rows[o].event = e})
  BY FS_Subset DEF IsRows
<1> QED  BY <1>1, FS_CardinalityType DEF CountOf

\* The invariant holds at the start.
LEMMA InvInit == Init => IInv
<1> SUFFICES ASSUME Init PROVE IInv
  OBVIOUS
<1>1. log \in Seq(Row) /\ Len(log) = 0
  BY EmptySeq DEF Init
<1>2. TypeOK
  BY <1>1 DEF Init, TypeOK
<1>3. Positions /\ PrefixSettled /\ BatchDealt /\ RepliesTrue
  BY <1>1 DEF Init, Positions, PrefixSettled, BatchDealt, RepliesTrue
<1> QED  BY <1>2, <1>3 DEF IInv
-----------------------------------------------------------------------------
(* Types.                                                                   *)

\* Every step keeps the types.
LEMMA TypeNext ==
    ASSUME TypeOK, Positions, RepliesTrue, [Next]_vars
    PROVE  TypeOK'
<1> USE ConsumerAssumption DEF TypeOK
<1> USE DEF batchVars, storeVars, history
<1>1. ASSUME NEW m \in Entries, Produce(m) PROVE TypeOK'
  <2>1. m \in Row
    BY DEF Row
  <2>2. Append(log, m) \in Seq(Row)
    BY <2>1, AppendProperties
  <2> QED  BY <1>1, <2>2 DEF Produce
<1>2. ASSUME NEW n \in 1..MaxLog, FetchBatch(n) PROVE TypeOK'
  <2>1. dead' \subseteq Nat /\ todo' \subseteq Regions /\ upto' \in Nat
    BY <1>2 DEF FetchBatch
  <2>2. replayed' \in BOOLEAN /\ fetched' \in Nat
    BY <1>2 DEF FetchBatch
  <2> QED  BY <1>2, <2>1, <2>2 DEF FetchBatch
<1>3. ASSUME NEW r \in Regions, SendInsert(r) PROVE TypeOK'
  <2>1. IsInsert([region |-> r, rows |-> Rows(r)])
    BY RowsFacts DEF IsInsert
  <2>2. \A i \in inserts' : IsInsert(i)
    BY <1>3, <2>1 DEF SendInsert
  <2> QED  BY <1>3, <2>2 DEF SendInsert
<1>4. ASSUME NEW i \in inserts, ApplyInsert(i) PROVE TypeOK'
  <2>1. i.region \in Regions /\ IsRows(i.rows)
    BY DEF IsInsert
  <2>2. RowEvents(i.rows) \subseteq Events
    BY <2>1 DEF IsRows, RowEvents, Row
  <2>3. table' \in [Regions -> SUBSET Events]
    <3> DEFINE t == table[i.region] \cup RowEvents(i.rows)
    <3>1. table' = table \/ table' = [table EXCEPT ![i.region] = t]
      BY <1>4 DEF ApplyInsert
    <3>2. t \in SUBSET Events
      BY <2>1, <2>2
    <3>3. table \in [Regions -> SUBSET Events] /\ i.region \in Regions
      BY <2>1
    <3> HIDE DEF t, TypeOK
    <3> QED  BY <3>1, <3>2, <3>3
  <2>4. /\ DOMAIN tokens' = Regions
        /\ \A r \in Regions : \A rows \in tokens'[r] : IsRows(rows)
    <3>1. \/ tokens' = tokens
          \/ tokens' = [tokens EXCEPT ![i.region] = @ \cup {i.rows}]
      BY <1>4 DEF ApplyInsert
    <3>2. \A r \in Regions : tokens'[r] \subseteq tokens[r] \cup {i.rows}
      BY <3>1
    <3>3. DOMAIN tokens' = Regions
      BY <3>1
    <3> QED  BY <2>1, <3>2, <3>3
  <2>5. rollup' \in [Regions -> [Events -> Nat]]
    <3> DEFINE f == [e \in Events |-> rollup[i.region][e] + CountOf(e, i.rows)]
    <3>1. f \in [Events -> Nat]
      BY <2>1, CountIsNat
    <3>2. rollup' = rollup \/ rollup' = [rollup EXCEPT ![i.region] = f]
      BY <1>4 DEF ApplyInsert
    <3> QED  BY <2>1, <3>1, <3>2
  <2>6. reply' \in {"no", "sent", "ok"}
    BY <1>4 DEF ApplyInsert
  <2> QED  BY <1>4, <2>3, <2>4, <2>5, <2>6 DEF ApplyInsert
<1>5. ASSUME NEW i \in inserts, LoseInsert(i) PROVE TypeOK'
  BY <1>5 DEF LoseInsert
<1>6. CASE InsertSucceeds
  BY <1>6 DEF InsertSucceeds, RegionDone
<1>7. CASE InsertFails
  <2>1. Offsets(region) \subseteq Nat
    BY DEF Offsets, Batch
  <2>2. CASE FirstTry
    <3>1. tries' = 1 /\ UNCHANGED <<todo, region, dead>>
      BY <1>7, <2>2 DEF InsertFails, FirstTry
    <3> QED  BY <1>7, <3>1 DEF InsertFails
  <2>3. CASE ~FirstTry
    <3>1. /\ todo' \subseteq Regions /\ region' = "none" /\ tries' = 0
          /\ dead' \subseteq Nat
      BY <1>7, <2>1, <2>3 DEF InsertFails, RegionDone, GiveUp
    <3> QED  BY <1>7, <3>1 DEF InsertFails
  <2> QED  BY <2>2, <2>3
<1>8. CASE NothingForDlq \/ DlqSucceeds
  BY <1>8 DEF NothingForDlq, DlqSucceeds
<1>9. CASE DlqFails
  BY <1>9 DEF DlqFails, Reset
<1>10. CASE Commit \/ Crash
  <2>1. CASE Commit
    BY <2>1 DEF Commit, Reset
  <2>2. CASE Crash
    <3>1. /\ from' = committed /\ upto' = committed /\ crashes' \in Nat
          /\ pc' = "fetch" /\ todo' = {} /\ dead' = {}
          /\ region' = "none" /\ tries' = 0 /\ reply' = "no"
      BY <2>2 DEF Crash, Reset, RestartsAt
    <3> QED  BY <2>2, <3>1 DEF Crash
  <2> QED  BY <1>10, <2>1, <2>2
<1>11. CASE UNCHANGED vars
  BY <1>11 DEF vars
<1> QED
  BY <1>1, <1>2, <1>3, <1>4, <1>5, <1>6, <1>7, <1>8, <1>9, <1>10, <1>11
     DEF Next, Consume
-----------------------------------------------------------------------------
(* What every step leaves standing.                                         *)

\* The topic only grows at its end, and what is queryable or on the
\* dead-letter topic stays there.
Grows == /\ Len(log') \in Nat /\ Len(log) <= Len(log')
         /\ \A o \in 1..Len(log) : log'[o] = log[o]
         /\ dlq \subseteq dlq'
         /\ \A r \in Regions : table[r] \subseteq table'[r]

LEMMA StepGrows == ASSUME TypeOK, [Next]_vars PROVE Grows
<1> USE DEF TypeOK, batchVars, storeVars, history
<1>0. Len(log) \in Nat
  BY LenProperties
<1>1. ASSUME NEW m \in Entries, Produce(m) PROVE Grows
  <2>1. m \in Row
    BY ConsumerAssumption DEF Row
  <2>2. /\ Len(Append(log, m)) = Len(log) + 1
        /\ \A o \in 1..Len(log) : Append(log, m)[o] = log[o]
    BY <2>1, AppendProperties
  <2> QED  BY <1>0, <1>1, <2>2 DEF Produce, Grows
<1>2. ASSUME NEW i \in inserts, ApplyInsert(i) PROVE Grows
  <2>1. \/ table' = table
        \/ table' = [table EXCEPT ![i.region] = @ \cup RowEvents(i.rows)]
    BY <1>2 DEF ApplyInsert
  <2>2. \A r \in Regions : table[r] \subseteq table'[r]
    BY <2>1
  <2> QED  BY <1>0, <1>2, <2>2 DEF ApplyInsert, Grows
<1>3. ASSUME UNCHANGED <<log, table>>, dlq \subseteq dlq' PROVE Grows
  BY <1>0, <1>3 DEF Grows
<1>4. ASSUME \/ \E n \in 1..MaxLog : FetchBatch(n)
             \/ \E r \in Regions : SendInsert(r)
             \/ \E i \in inserts : LoseInsert(i)
             \/ InsertSucceeds \/ InsertFails \/ NothingForDlq
      PROVE  Grows
  <2>1. UNCHANGED <<log, table, dlq>>
    BY <1>4 DEF FetchBatch, SendInsert, LoseInsert, InsertSucceeds,
                InsertFails, NothingForDlq
  <2> QED  BY <1>3, <2>1
<1>5. ASSUME DlqSucceeds \/ DlqFails \/ Commit \/ Crash \/ UNCHANGED vars
      PROVE  Grows
  <2>1. UNCHANGED <<log, table>> /\ dlq \subseteq dlq'
    BY <1>5 DEF DlqSucceeds, DlqFails, Commit, Crash, vars
  <2> QED  BY <1>3, <2>1
<1> QED  BY <1>1, <1>2, <1>4, <1>5 DEF Next, Consume

\* A settled message stays settled.
LEMMA SettledStays ==
    ASSUME TypeOK, Grows, NEW o \in 1..Len(log), Settled(o)
    PROVE  Settled(o)'
  BY DEF Grows, Settled

\* What is consumed and still at most the old position stays settled.
LEMMA PrefixStays ==
    ASSUME TypeOK, Positions, PrefixSettled, Grows, from' \in Nat, from' <= from
    PROVE  PrefixSettled'
<1>1. Len(log) \in Nat
  BY LenProperties DEF TypeOK
<1>2. \A o \in 1..from' : o \in 1..from /\ o \in 1..Len(log)
  BY <1>1 DEF TypeOK, Positions
<1> QED  BY <1>2, SettledStays DEF PrefixSettled

\* A step that touches neither the batch nor its replies keeps what is known
\* of them, however the topic and the tables grow.
LEMMA BatchStays ==
    ASSUME TypeOK, Positions, BatchDealt, Grows,
           UNCHANGED <<from, upto, pc, todo, dead>>
    PROVE  BatchDealt'
<1>1. Len(log) \in Nat
  BY LenProperties DEF TypeOK
<1>2. Batch' = Batch /\ Batch \subseteq 1..Len(log)
  BY <1>1 DEF TypeOK, Positions, Batch
<1>3. \A o \in Batch : /\ log'[o] = log[o]
                       /\ Settled(o) => Settled(o)'
  BY <1>2, SettledStays DEF Grows
<1> QED  BY <1>2, <1>3 DEF BatchDealt

\* The rows of a region do not change while the batch is in hand.
LEMMA RowsStay ==
    ASSUME TypeOK, Positions, Grows, UNCHANGED <<from, upto>>, NEW r
    PROVE  Rows(r)' = Rows(r)
<1>1. Len(log) \in Nat
  BY LenProperties DEF TypeOK
<1>2. Batch' = Batch /\ Batch \subseteq 1..Len(log)
  BY <1>1 DEF TypeOK, Positions, Batch
<1>3. \A o \in Batch : log'[o] = log[o]
  BY <1>2 DEF Grows
<1>4. Offsets(r)' = Offsets(r) /\ Offsets(r) \subseteq Batch
  BY <1>2, <1>3 DEF Offsets
<1> QED  BY <1>3, <1>4 DEF Rows
-----------------------------------------------------------------------------
(* The steps.                                                               *)

Inner == Positions /\ PrefixSettled /\ BatchDealt /\ RepliesTrue

\* A step that does not move the consumer keeps its position good.
LEMMA PositionsStay ==
    ASSUME TypeOK, Positions, Grows, UNCHANGED <<committed, from, upto>>
    PROVE  Positions'
<1>1. Len(log) \in Nat
  BY LenProperties DEF TypeOK
<1> QED  BY <1>1 DEF TypeOK, Positions, Grows

\* A step that leaves the insert in hand and the tables alone keeps what is
\* known of them.
LEMMA RepliesStay ==
    ASSUME TypeOK, Positions, RepliesTrue, Grows,
           UNCHANGED <<from, upto, pc, todo, region, reply, table, tokens>>
    PROVE  RepliesTrue'
<1>1. Rows(region)' = Rows(region)
  BY RowsStay DEF Rows, Offsets, Batch
<1> QED  BY <1>1 DEF RepliesTrue

\* Going back to an offset that was consumed before, or staying there.
LEMMA ResetStep ==
    ASSUME IInv, Grows, NEW o \in Nat, committed <= o, o <= from, Reset(o),
           UNCHANGED <<committed, table, tokens>>
    PROVE  Inner'
<1>1. TypeOK /\ Len(log) \in Nat
  BY LenProperties DEF IInv, TypeOK
<1>2. from' = o /\ upto' = o /\ pc' = "fetch" /\ reply' = "no"
  BY DEF Reset
<1>3. Positions'
  BY <1>1, <1>2 DEF IInv, TypeOK, Positions, Grows
<1>4. PrefixSettled'
  BY <1>1, <1>2, PrefixStays DEF IInv
<1>5. BatchDealt' /\ RepliesTrue'
  BY <1>2 DEF IInv, BatchDealt, RepliesTrue
<1> QED  BY <1>3, <1>4, <1>5 DEF Inner

\* A message that arrives, or an insert that is lost, changes nothing known.
LEMMA OutsideStep ==
    ASSUME IInv, Grows,
           UNCHANGED <<committed, batchVars, table, tokens>>
    PROVE  Inner'
<1>1. /\ TypeOK /\ from' \in Nat /\ from' <= from
      /\ UNCHANGED <<committed, from, upto, pc, todo, region, reply, dead>>
  BY DEF IInv, TypeOK, batchVars
<1> QED
  BY <1>1, PositionsStay, PrefixStays, BatchStays, RepliesStay DEF IInv, Inner

\* Every message of a batch just fetched has its place.
LEMMA FetchStep ==
    ASSUME IInv, Grows, NEW n \in 1..MaxLog, FetchBatch(n)
    PROVE  Inner'
<1>1. /\ TypeOK /\ Len(log) \in Nat
      /\ n \in from + 1 .. Len(log)
      /\ upto' = n /\ pc' = "insert"
      /\ todo' = {r \in Regions : \E o \in from + 1 .. n : log[o].kind = r}
      /\ dead' = {o \in from + 1 .. n : log[o].kind = "unmappable"}
      /\ UNCHANGED <<log, committed, from, region, reply, table, tokens, dlq>>
  BY LenProperties DEF IInv, TypeOK, FetchBatch, storeVars
<1>2. Positions'
  BY <1>1 DEF IInv, TypeOK, Positions
<1>3. PrefixSettled'
  BY <1>1, PrefixStays DEF IInv, TypeOK
<1>4. \A o \in from + 1 .. n : log[o].kind \in Regions \cup {"unmappable", "empty"}
  <2>1. \A o \in 1..Len(log) : log[o] \in Row
    BY <1>1 DEF TypeOK
  <2>2. \A o \in from + 1 .. n : o \in 1..Len(log)
    BY <1>1 DEF TypeOK
  <2> QED  BY <2>1, <2>2 DEF Row, Kinds
<1>5. BatchDealt'
  BY <1>1, <1>4 DEF BatchDealt, Batch, Settled
<1>6. RepliesTrue'
  <2>1. pc = "fetch"
    BY DEF FetchBatch
  <2>2. reply = "no"
    BY <2>1 DEF IInv, RepliesTrue
  <2> QED  BY <1>1, <2>2 DEF IInv, RepliesTrue
<1> QED  BY <1>2, <1>3, <1>5, <1>6 DEF Inner

\* While the batch is being inserted a step keeps what the consumer knows.
LEMMA SendStep ==
    ASSUME IInv, Grows, NEW r \in Regions, SendInsert(r)
    PROVE  Inner'
<1>1. /\ TypeOK /\ from' \in Nat /\ from' <= from /\ pc = "insert" /\ r \in todo
      /\ region' = r /\ reply' = "sent"
      /\ UNCHANGED <<committed, from, upto, pc, todo, dead, table, tokens>>
  BY DEF IInv, TypeOK, SendInsert
<1>2. RepliesTrue'
  BY <1>1 DEF IInv, RepliesTrue
<1> QED
  BY <1>1, <1>2, PositionsStay, PrefixStays, BatchStays DEF IInv, Inner

\* An insert that is carried out makes its rows queryable; a skipped one had
\* the rows of its token there.
LEMMA ApplyStep ==
    ASSUME IInv, Grows, NEW i \in inserts, ApplyInsert(i)
    PROVE  Inner'
<1>1. /\ TypeOK /\ from' \in Nat /\ from' <= from
      /\ UNCHANGED <<log, committed, from, upto, pc, todo, region, dead>>
      /\ reply' = IF reply = "sent" /\ i = [region |-> region, rows |-> Rows(region)]
                  THEN "ok" ELSE reply
  BY DEF IInv, TypeOK, ApplyInsert
<1>2. i.region \in Regions
  BY <1>1 DEF TypeOK, IsInsert
<1>3. RowEvents(i.rows) \subseteq table'[i.region]
  <2>1. CASE Remembered(i)
    <3>1. PICK rows \in tokens[i.region] : SameRows(i.rows, rows)
      BY <2>1 DEF Remembered
    <3>2. RowEvents(i.rows) = RowEvents(rows)
      BY <3>1, SameRowsSameEvents
    <3>3. RowEvents(rows) \subseteq table[i.region]
      BY <1>2, <3>1 DEF IInv, RepliesTrue
    <3> QED  BY <1>2, <3>2, <3>3 DEF Grows
  <2>2. CASE ~Remembered(i)
    <3>1. table' = [table EXCEPT ![i.region] = @ \cup RowEvents(i.rows)]
      BY <2>2 DEF ApplyInsert
    <3> QED  BY <1>1, <1>2, <3>1 DEF TypeOK
  <2> QED  BY <2>1, <2>2
<1>4. \A r \in Regions : \A rows \in tokens'[r] : RowEvents(rows) \subseteq table'[r]
  <2> SUFFICES ASSUME NEW r \in Regions, NEW rows \in tokens'[r]
               PROVE  RowEvents(rows) \subseteq table'[r]
    OBVIOUS
  <2>1. \/ tokens' = tokens
        \/ tokens' = [tokens EXCEPT ![i.region] = @ \cup {i.rows}]
    BY DEF ApplyInsert
  <2>2. rows \in tokens[r] \/ (r = i.region /\ rows = i.rows)
    BY <1>1, <2>1 DEF TypeOK
  <2>3. rows \in tokens[r] => RowEvents(rows) \subseteq table'[r]
    BY DEF IInv, RepliesTrue, Grows
  <2> QED  BY <1>3, <2>2, <2>3
<1>5. reply' # "no" => pc' = "insert" /\ region' \in todo'
  BY <1>1 DEF IInv, RepliesTrue
<1>6. reply' = "ok" => RowEvents(Rows(region)) \subseteq table'[region]
  <2>1. CASE reply = "ok"
    <3>1. region \in Regions
      BY <1>1, <2>1 DEF IInv, RepliesTrue, TypeOK
    <3> QED  BY <2>1, <3>1 DEF IInv, RepliesTrue, Grows
  <2>2. CASE i = [region |-> region, rows |-> Rows(region)]
    BY <1>3, <2>2
  <2>3. CASE reply # "ok" /\ i # [region |-> region, rows |-> Rows(region)]
    BY <1>1, <2>3
  <2> QED  BY <2>1, <2>2, <2>3
<1>7. Rows(region)' = Rows(region)
  BY <1>1 DEF Rows, Offsets, Batch
<1>8. RepliesTrue'
  BY <1>1, <1>4, <1>5, <1>6, <1>7 DEF RepliesTrue
<1> QED
  BY <1>1, <1>8, PositionsStay, PrefixStays, BatchStays DEF IInv, Inner

\* A region done with a confirmed insert has its messages settled.
LEMMA SuccessStep ==
    ASSUME IInv, Grows, InsertSucceeds
    PROVE  Inner'
<1>1. /\ TypeOK /\ from' \in Nat /\ from' <= from
      /\ pc = "insert" /\ reply = "ok" /\ reply' = "no"
      /\ todo' = todo \ {region}
      /\ UNCHANGED <<log, committed, from, upto, pc, dead, table, tokens, dlq>>
  BY DEF IInv, TypeOK, InsertSucceeds, RegionDone, storeVars
<1>2. region \in Regions /\ RowEvents(Rows(region)) \subseteq table[region]
  BY <1>1 DEF IInv, RepliesTrue, TypeOK
<1>3. \A o \in Batch : log[o].kind = region => Settled(o)
  <2>1. \A o \in Offsets(region) : log[o].event \in RowEvents(Rows(region))
    BY <1>1, <1>2, RowsFacts DEF IInv
  <2> QED  BY <1>2, <2>1 DEF Offsets, Settled
<1>4. Batch' = Batch /\ \A o : Settled(o)' <=> Settled(o)
  BY <1>1 DEF Batch, Settled
<1>5. BatchDealt'
  BY <1>1, <1>3, <1>4 DEF IInv, BatchDealt
<1>6. RepliesTrue'
  BY <1>1 DEF IInv, RepliesTrue
<1> QED  BY <1>1, <1>5, <1>6, PositionsStay, PrefixStays DEF IInv, Inner

\* A region given up has its messages among the dead letters.
LEMMA FailureStep ==
    ASSUME IInv, Grows, InsertFails
    PROVE  Inner'
<1>1. /\ TypeOK /\ from' \in Nat /\ from' <= from /\ pc = "insert"
      /\ reply' = "no"
      /\ \/ UNCHANGED <<todo, dead>>
         \/ todo' = todo \ {region} /\ dead' = dead \cup Offsets(region)
      /\ UNCHANGED <<log, committed, from, upto, pc, table, tokens, dlq>>
  BY DEF IInv, TypeOK, InsertFails, RegionDone, GiveUp, storeVars
<1>2. Batch' = Batch /\ \A o : Settled(o)' <=> Settled(o)
  BY <1>1 DEF Batch, Settled
<1>3. \A o \in Batch : log[o].kind = region => o \in Offsets(region)
  BY DEF Offsets
<1>4. BatchDealt'
  BY <1>1, <1>2, <1>3 DEF IInv, BatchDealt
<1>5. RepliesTrue'
  BY <1>1 DEF IInv, RepliesTrue
<1> QED  BY <1>1, <1>4, <1>5, PositionsStay, PrefixStays DEF IInv, Inner

\* Before the commit nothing of the batch is left to do.
LEMMA DlqStep ==
    ASSUME IInv, Grows, NothingForDlq \/ DlqSucceeds
    PROVE  Inner'
<1>1. /\ TypeOK /\ from' \in Nat /\ from' <= from
      /\ pc = "insert" /\ todo = {} /\ pc' = "commit"
      /\ dlq' = dlq \cup dead
      /\ UNCHANGED <<log, committed, from, upto, todo, region, reply, table, tokens>>
  <2>1. CASE NothingForDlq
    <3>1. dead = {} /\ dlq' = dlq
      BY <2>1 DEF NothingForDlq
    <3>2. dlq' = dlq \cup dead
      BY <3>1
    <3> QED  BY <2>1, <3>2 DEF IInv, TypeOK, NothingForDlq, storeVars
  <2>2. CASE DlqSucceeds
    BY <2>2 DEF IInv, TypeOK, DlqSucceeds, storeVars
  <2> QED  BY <2>1, <2>2
<1>2. Batch' = Batch /\ \A o : Settled(o)' <=> Settled(o) \/ o \in dead
                       \/ log[o].kind = "empty"
  BY <1>1 DEF Batch, Settled
<1>3. BatchDealt'
  BY <1>1, <1>2 DEF IInv, BatchDealt
<1>4. RepliesTrue'
  BY <1>1 DEF IInv, RepliesTrue
<1> QED  BY <1>1, <1>3, <1>4, PositionsStay, PrefixStays DEF IInv, Inner

\* What is committed is settled.
LEMMA CommitStep ==
    ASSUME IInv, Commit
    PROVE  Inner'
<1>1. /\ TypeOK /\ pc = "commit" /\ Len(log) \in Nat
      /\ committed' = committed \/ committed' = upto
      /\ from' = upto /\ upto' = upto /\ pc' = "fetch" /\ reply' = "no"
      /\ UNCHANGED <<log, table, tokens, dlq>>
  BY LenProperties DEF IInv, TypeOK, Commit, Reset, storeVars
<1>2. Positions'
  BY <1>1 DEF IInv, TypeOK, Positions
<1>3. \A o \in 1..upto : Settled(o)
  BY <1>1 DEF IInv, TypeOK, PrefixSettled, BatchDealt, Batch
<1>4. PrefixSettled'
  BY <1>1, <1>3 DEF PrefixSettled, Settled
<1>5. BatchDealt' /\ RepliesTrue'
  BY <1>1 DEF IInv, BatchDealt, RepliesTrue
<1> QED  BY <1>2, <1>4, <1>5 DEF Inner
-----------------------------------------------------------------------------
\* Every step preserves the invariant.
LEMMA InvNext == IInv /\ [Next]_vars => IInv'
<1> SUFFICES ASSUME IInv, [Next]_vars
             PROVE  IInv'
  OBVIOUS
<1>t. TypeOK' /\ Grows /\ TypeOK
  BY TypeNext, StepGrows DEF IInv
<1> SUFFICES Inner'
  BY <1>t DEF IInv, Inner
<1>1. ASSUME NEW m \in Entries, Produce(m) PROVE Inner'
  BY <1>1, <1>t, OutsideStep DEF Produce, storeVars
<1>2. ASSUME NEW n \in 1..MaxLog, FetchBatch(n) PROVE Inner'
  BY <1>2, <1>t, FetchStep
<1>3. ASSUME NEW r \in Regions, SendInsert(r) PROVE Inner'
  BY <1>3, <1>t, SendStep
<1>4. ASSUME NEW i \in inserts, ApplyInsert(i) PROVE Inner'
  BY <1>4, <1>t, ApplyStep
<1>5. ASSUME NEW i \in inserts, LoseInsert(i) PROVE Inner'
  BY <1>5, <1>t, OutsideStep DEF LoseInsert
<1>6. CASE InsertSucceeds
  BY <1>6, <1>t, SuccessStep
<1>7. CASE InsertFails
  BY <1>7, <1>t, FailureStep
<1>8. CASE NothingForDlq \/ DlqSucceeds
  BY <1>8, <1>t, DlqStep
<1>9. CASE DlqFails
  <2>1. PICK o \in {from, committed} : Reset(o)
    BY <1>9 DEF DlqFails
  <2>2. o \in Nat /\ committed <= o /\ o <= from
    BY <1>t DEF IInv, TypeOK, Positions
  <2>3. UNCHANGED <<committed, table, tokens>>
    BY <1>9 DEF DlqFails, storeVars
  <2> QED  BY <1>t, <2>1, <2>2, <2>3, ResetStep
<1>10. CASE Commit
  BY <1>10, <1>t, CommitStep
<1>11. CASE Crash
  <2>1. Reset(committed) /\ UNCHANGED <<committed, table, tokens>>
    BY <1>11 DEF Crash, RestartsAt, storeVars
  <2>2. committed \in Nat /\ committed <= committed /\ committed <= from
    BY <1>t DEF IInv, TypeOK, Positions
  <2> QED  BY <1>t, <2>1, <2>2, ResetStep
<1>12. CASE UNCHANGED vars
  BY <1>12, <1>t, OutsideStep DEF vars, storeVars
<1> QED
  BY <1>1, <1>2, <1>3, <1>4, <1>5, <1>6, <1>7, <1>8, <1>9, <1>10, <1>11,
     <1>12 DEF Next, Consume

\* The inductive invariant holds in every state.
THEOREM ConsumerInvariant == Spec => []IInv
  BY InvInit, InvNext, PTL DEF Spec

\* The variables always hold values of their types.
THEOREM ConsumerTypeCorrect == Spec => []TypeOK
<1>1. IInv => TypeOK
  BY DEF IInv
<1> QED  BY <1>1, ConsumerInvariant, PTL

\* What is consumed is settled, so what is committed is.
LEMMA InvNeverSkips == IInv => NeverSkips
  BY DEF IInv, TypeOK, Positions, PrefixSettled, NeverSkips

\* Whatever fails and whenever the consumer restarts, every message up to the
\* committed offset is queryable or on the dead-letter topic.
THEOREM NothingSkipped == Spec => []NeverSkips
  BY InvNeverSkips, ConsumerInvariant, PTL
-----------------------------------------------------------------------------
(* The committed log.                                                       *)

SettledOffsets == {o \in DOMAIN log : Settled(o)}

\* An empty topic is an empty committed log.
LEMMA RefinesInit == Init => Abs!Init
  BY EmptySeq DEF Init, Abs!Init

\* Every step of the consumer is a step of the committed log or changes
\* nothing of it.
LEMMA RefinesNext ==
    ASSUME IInv, IInv', [Next]_vars
    PROVE  [Abs!Next]_Abs!vars
<1>t. /\ TypeOK /\ TypeOK' /\ Grows
      /\ Len(log) \in Nat /\ DOMAIN log = 1..Len(log)
      /\ Len(log') \in Nat /\ DOMAIN log' = 1..Len(log')
  BY StepGrows, LenProperties DEF IInv, TypeOK
<1>1. \A o \in SettledOffsets : o \in SettledOffsets'
  BY <1>t, SettledStays DEF SettledOffsets, Grows
<1>2. ASSUME NEW m \in Entries, Produce(m) PROVE Abs!Produce
  <2>1. m \in Row
    BY ConsumerAssumption DEF Row
  <2>2. Len(log') = Len(log) + 1 /\ \A o \in 1..Len(log) : log'[o] = log[o]
    BY <1>2, <1>t, <2>1, AppendProperties DEF Produce, Grows, TypeOK
  <2>3. \A o \in 1..Len(log) : Settled(o)' <=> Settled(o)
    BY <1>2, <2>2 DEF Produce, Settled, storeVars
  <2>4. \/ SettledOffsets' = SettledOffsets
        \/ SettledOffsets' = SettledOffsets \cup {Len(log) + 1}
    BY <1>t, <2>2, <2>3 DEF SettledOffsets
  <2> QED  BY <1>2, <2>2, <2>4 DEF Abs!Produce, Produce, SettledOffsets
<1>3. ASSUME UNCHANGED <<log, committed>> PROVE Abs!Settle
  BY <1>t, <1>1, <1>3 DEF Abs!Settle, SettledOffsets
<1>4. ASSUME Commit PROVE Abs!Commit
  <2>1. UNCHANGED <<log, table, dlq>>
    BY <1>4 DEF Commit, storeVars
  <2>2. SettledOffsets' = SettledOffsets
    BY <2>1 DEF SettledOffsets, Settled
  <2>3. committed' \in 0..Len(log)
    BY <1>t, <2>1 DEF IInv, TypeOK, Positions
  <2>4. 1..committed' \subseteq SettledOffsets
    <3>1. NeverSkips'
      BY InvNeverSkips DEF IInv, TypeOK, Positions, PrefixSettled, NeverSkips
    <3>2. 1..committed' \subseteq SettledOffsets'
      BY <1>t, <2>1, <2>3, <3>1 DEF NeverSkips, SettledOffsets
    <3> QED  BY <2>2, <3>2
  <2> QED  BY <2>1, <2>2, <2>3, <2>4 DEF Abs!Commit, SettledOffsets
<1>5. ASSUME \/ \E n \in 1..MaxLog : FetchBatch(n)
             \/ \E r \in Regions : SendInsert(r)
             \/ \E i \in inserts : ApplyInsert(i) \/ LoseInsert(i)
             \/ InsertSucceeds \/ InsertFails
             \/ NothingForDlq \/ DlqSucceeds \/ DlqFails \/ Crash
             \/ UNCHANGED vars
      PROVE  UNCHANGED <<log, committed>>
  BY <1>5 DEF FetchBatch, SendInsert, ApplyInsert, LoseInsert, InsertSucceeds,
              InsertFails, NothingForDlq, DlqSucceeds, DlqFails, Crash, vars
<1> QED
  BY <1>2, <1>3, <1>4, <1>5 DEF Next, Consume, Abs!Next

\* The consumer implements the committed log: an offset is committed only
\* when every message up to it is settled, and settled messages stay settled.
THEOREM ConsumerImplementsCommittedLog == Spec => ImplementsCommittedLog
<1>1. IInv /\ IInv' /\ [Next]_vars => [Abs!Next]_Abs!vars
  BY RefinesNext
<1> QED
  BY <1>1, RefinesInit, ConsumerInvariant, PTL
     DEF Spec, ImplementsCommittedLog, Abs!Spec
-----------------------------------------------------------------------------
(* The rollup.                                                              *)

\* The rows that were sent to a region and can still count, or did.
Issued(r) == {i.rows : i \in {j \in inserts : j.region = r}} \cup tokens[r]

\* What was sent are messages of the topic that were fetched, and what a query
\* returns was counted with its token.
SentFromLog ==
    /\ \A r \in Regions : \A rows \in Issued(r) : \A o \in DOMAIN rows :
          o \in 1..Len(log) /\ o <= fetched /\ rows[o] = log[o]
    /\ \A r \in Regions : \A e \in table[r] :
          \E rows \in tokens[r] : e \in RowEvents(rows)
    /\ pc # "fetch" => upto <= fetched

\* Without a replay every message was sent in one insert, repeated as it was.
SentInOneBatch ==
    /\ \A r \in Regions : \A rows, others \in Issued(r) :
          rows = others \/ DOMAIN rows \cap DOMAIN others = {}
    /\ pc # "fetch" =>
          \A r \in Regions : \A rows \in Issued(r) :
             rows = Rows(r) \/ DOMAIN rows \cap Batch = {}

RollupInv ==
    /\ SentFromLog
    /\ ~replayed => SentInOneBatch
    /\ RollupExactWithoutReplay

\* A token is remembered for the rows it was made of.
LEMMA SameAsItself ==
    ASSUME NEW rows
    PROVE  SameRows(rows, rows)
<1> DEFINE place == [o \in DOMAIN rows |-> o]
<1>1. place \in [DOMAIN rows -> DOMAIN rows] /\ \A o \in DOMAIN rows : place[o] = o
  OBVIOUS
<1> HIDE DEF place
<1> QED  BY <1>1 DEF SameRows

\* Rows of different messages count each of their events once.
LEMMA CountOnce ==
    ASSUME NEW rows, NEW e,
           \A o, p \in DOMAIN rows : rows[o].event = rows[p].event => o = p
    PROVE  CountOf(e, rows) = IF e \in RowEvents(rows) THEN 1 ELSE 0
<1>1. CASE e \in RowEvents(rows)
  <2>1. PICK o \in DOMAIN rows : rows[o].event = e
    BY <1>1 DEF RowEvents
  <2>2. {p \in DOMAIN rows : rows[p].event = e} = {o}
    BY <2>1
  <2> QED  BY <1>1, <2>2, FS_Singleton DEF CountOf
<1>2. CASE e \notin RowEvents(rows)
  <2>1. {p \in DOMAIN rows : rows[p].event = e} = {}
    BY <1>2 DEF RowEvents
  <2> QED  BY <1>2, <2>1, FS_EmptySet DEF CountOf
<1> QED  BY <1>1, <1>2

\* A topic without repeats never had one.
LEMMA NoRepeatsBefore ==
    ASSUME TypeOK, TypeOK', Grows, NoRepeats'
    PROVE  NoRepeats
<1>1. DOMAIN log = 1..Len(log) /\ DOMAIN log' = 1..Len(log') /\ Len(log) \in Nat
  BY LenProperties DEF TypeOK
<1> QED  BY <1>1 DEF NoRepeats, Grows

\* A step that sends and carries out no insert keeps what is known of them.
LEMMA RollupStays ==
    ASSUME TypeOK, TypeOK', Positions, RollupInv, Grows,
           UNCHANGED <<table, tokens, rollup>>, inserts' \subseteq inserts,
           fetched <= fetched', replayed => replayed',
           \/ pc' = "fetch"
           \/ pc # "fetch" /\ UNCHANGED <<from, upto>>
    PROVE  RollupInv'
<1>1. Len(log) \in Nat /\ fetched \in Nat /\ fetched' \in Nat /\ upto \in Nat
  BY LenProperties DEF TypeOK
<1>2. \A r : Issued(r)' \subseteq Issued(r)
  BY DEF Issued
<1>3. SentFromLog'
  <2>1. ASSUME NEW r \in Regions, NEW rows \in Issued(r)', NEW o \in DOMAIN rows
        PROVE  o \in 1..Len(log') /\ o <= fetched' /\ rows[o] = log'[o]
    <3>1. o \in 1..Len(log) /\ o <= fetched /\ rows[o] = log[o]
      BY <1>2, <2>1 DEF RollupInv, SentFromLog
    <3> QED  BY <1>1, <3>1 DEF Grows
  <2>2. pc' # "fetch" => upto' <= fetched'
    BY <1>1 DEF RollupInv, SentFromLog
  <2>3. \A r \in Regions : \A e \in table'[r] :
           \E rows \in tokens'[r] : e \in RowEvents(rows)
    BY DEF RollupInv, SentFromLog
  <2> QED  BY <2>1, <2>2, <2>3 DEF SentFromLog
<1>4. ASSUME ~replayed' PROVE SentInOneBatch'
  <2>1. SentInOneBatch
    BY <1>4 DEF RollupInv
  <2>2. pc' # "fetch" => pc # "fetch" /\ Batch' = Batch /\ \A r : Rows(r)' = Rows(r)
    BY RowsStay DEF Batch
  <2> QED  BY <1>2, <2>1, <2>2 DEF SentInOneBatch
<1>5. RollupExactWithoutReplay'
  <2>1. RollupMatches => RollupMatches'
    BY DEF RollupMatches
  <2> QED  BY <2>1, NoRepeatsBefore DEF RollupInv, RollupExactWithoutReplay
<1> QED  BY <1>3, <1>4, <1>5 DEF RollupInv

\* A batch that was not fetched before shares no message with what was sent.
LEMMA RollupFetch ==
    ASSUME TypeOK, TypeOK', RollupInv, NEW n \in 1..MaxLog, FetchBatch(n)
    PROVE  RollupInv'
<1>1. /\ UNCHANGED <<log, from, inserts, table, tokens, rollup>>
      /\ upto' = n /\ fetched' = (IF n > fetched THEN n ELSE fetched)
      /\ replayed' = (replayed \/ from < fetched)
      /\ fetched \in Nat /\ from \in Nat /\ n \in Nat
  BY ConsumerAssumption DEF FetchBatch, storeVars, TypeOK
<1>2. \A r : Issued(r)' = Issued(r)
  BY <1>1 DEF Issued
<1>3. \A r \in Regions : \A rows \in Issued(r) : \A o \in DOMAIN rows :
         o \in 1..Len(log) /\ o <= fetched /\ rows[o] = log[o]
  BY DEF RollupInv, SentFromLog
<1>4. SentFromLog'
  <2>1. ASSUME NEW r \in Regions, NEW rows \in Issued(r)', NEW o \in DOMAIN rows
        PROVE  o \in 1..Len(log') /\ o <= fetched' /\ rows[o] = log'[o]
    BY <1>1, <1>2, <1>3, <2>1
  <2>2. upto' <= fetched'
    BY <1>1
  <2>3. \A r \in Regions : \A e \in table'[r] :
           \E rows \in tokens'[r] : e \in RowEvents(rows)
    BY <1>1 DEF RollupInv, SentFromLog
  <2> QED  BY <2>1, <2>2, <2>3 DEF SentFromLog
<1>5. ASSUME ~replayed' PROVE SentInOneBatch'
  <2>1. SentInOneBatch /\ fetched <= from
    <3>1. replayed' # TRUE /\ replayed \in BOOLEAN /\ replayed' \in BOOLEAN
      BY <1>5 DEF TypeOK
    <3>2. ~replayed /\ ~(from < fetched)
      BY <1>1, <1>5
    <3> QED  BY <1>1, <3>2 DEF RollupInv
  <2>2. Batch' = from + 1 .. n
    BY <1>1 DEF Batch
  <2>3. ASSUME NEW r \in Regions, NEW rows \in Issued(r)
        PROVE  DOMAIN rows \cap Batch' = {}
    BY <1>1, <1>3, <2>1, <2>2
  <2> QED  BY <1>2, <2>1, <2>3 DEF SentInOneBatch
<1>6. RollupExactWithoutReplay'
  <2>1. RollupMatches => RollupMatches'
    BY <1>1 DEF RollupMatches
  <2>2. NoRepeats' <=> NoRepeats
    BY <1>1 DEF NoRepeats
  <2>3. ~replayed' => ~replayed
    BY <1>1
  <2> QED  BY <2>1, <2>2, <2>3 DEF RollupInv, RollupExactWithoutReplay
<1> QED  BY <1>4, <1>5, <1>6 DEF RollupInv

\* An insert is sent with the rows that every other insert of the batch has.
LEMMA RollupSend ==
    ASSUME TypeOK, TypeOK', Positions, RollupInv, NEW r \in Regions, SendInsert(r)
    PROVE  RollupInv'
<1>1. /\ pc = "insert" /\ UNCHANGED <<log, from, upto, pc, table, tokens, rollup, fetched, replayed>>
      /\ inserts' = inserts \cup {[region |-> r, rows |-> Rows(r)]}
  BY DEF SendInsert, history
<1>2. \A k : Issued(k)' \subseteq Issued(k) \cup (IF k = r THEN {Rows(r)} ELSE {})
  BY <1>1 DEF Issued
<1>3. Batch' = Batch /\ \A k : Rows(k)' = Rows(k)
  BY <1>1 DEF Batch, Rows, Offsets
<1>4. /\ DOMAIN Rows(r) = Offsets(r) /\ Offsets(r) \subseteq Batch
      /\ \A o \in Offsets(r) : Rows(r)[o] = log[o]
  BY DEF Rows, Offsets
<1>5. Batch \subseteq 1..Len(log) /\ \A o \in Batch : o <= fetched
  <2>1. Len(log) \in Nat /\ upto <= fetched
    BY <1>1, LenProperties DEF TypeOK, RollupInv, SentFromLog
  <2> QED  BY <2>1 DEF Batch, TypeOK, Positions
<1>6. SentFromLog'
  <2>1. ASSUME NEW k \in Regions, NEW rows \in Issued(k)', NEW o \in DOMAIN rows
        PROVE  o \in 1..Len(log') /\ o <= fetched' /\ rows[o] = log'[o]
    <3>1. CASE rows \in Issued(k)
      BY <1>1, <3>1 DEF RollupInv, SentFromLog
    <3>2. CASE rows = Rows(r)
      BY <1>1, <1>4, <1>5, <3>2
    <3> QED  BY <1>2, <3>1, <3>2
  <2>2. upto' <= fetched' /\ \A k \in Regions : \A e \in table'[k] :
           \E rows \in tokens'[k] : e \in RowEvents(rows)
    BY <1>1 DEF RollupInv, SentFromLog
  <2> QED  BY <2>1, <2>2 DEF SentFromLog
<1>7. ASSUME ~replayed' PROVE SentInOneBatch'
  <2>1. /\ \A k \in Regions : \A rows, others \in Issued(k) :
              rows = others \/ DOMAIN rows \cap DOMAIN others = {}
        /\ \A k \in Regions : \A rows \in Issued(k) :
              rows = Rows(k) \/ DOMAIN rows \cap Batch = {}
    BY <1>1, <1>7 DEF RollupInv, SentInOneBatch
  <2>2. ASSUME NEW k \in Regions, NEW rows \in Issued(k)'
        PROVE  rows = Rows(k) \/ DOMAIN rows \cap Batch = {}
    BY <1>2, <2>1
  <2>3. ASSUME NEW k \in Regions, NEW rows \in Issued(k)', NEW others \in Issued(k)'
        PROVE  rows = others \/ DOMAIN rows \cap DOMAIN others = {}
    <3>1. CASE rows \in Issued(k) /\ others \in Issued(k)
      BY <2>1, <3>1
    <3>2. CASE k = r /\ rows = Rows(r)
      BY <1>4, <2>2, <3>2
    <3>3. CASE k = r /\ others = Rows(r)
      BY <1>4, <2>2, <3>3
    <3> QED  BY <1>2, <3>1, <3>2, <3>3
  <2> QED  BY <1>3, <2>2, <2>3 DEF SentInOneBatch
<1>8. RollupExactWithoutReplay'
  BY <1>1 DEF RollupInv, RollupExactWithoutReplay, RollupMatches, NoRepeats
<1> QED  BY <1>6, <1>7, <1>8 DEF RollupInv

\* An insert whose token is new carries messages that were never counted.
LEMMA RollupApply ==
    ASSUME TypeOK, TypeOK', Positions, RollupInv, Grows, NEW i \in inserts, ApplyInsert(i)
    PROVE  RollupInv'
<1>1. /\ UNCHANGED <<log, from, upto, pc, fetched, replayed>>
      /\ inserts' = inserts \ {i}
      /\ IF Remembered(i)
         THEN UNCHANGED <<table, tokens, rollup>>
         ELSE /\ table' = [table EXCEPT ![i.region] = @ \cup RowEvents(i.rows)]
              /\ tokens' = [tokens EXCEPT ![i.region] = @ \cup {i.rows}]
              /\ rollup' = [rollup EXCEPT ![i.region] =
                               [e \in Events |-> @[e] + CountOf(e, i.rows)]]
  BY DEF ApplyInsert, history
<1>2. i.region \in Regions /\ IsRows(i.rows)
  BY DEF TypeOK, IsInsert
<1>3. CASE Remembered(i)
  <2>1. UNCHANGED <<table, tokens, rollup>> /\ inserts' \subseteq inserts
    BY <1>1, <1>3
  <2>2. fetched <= fetched' /\ Batch' = Batch /\ \A r : Rows(r)' = Rows(r)
    BY <1>1 DEF TypeOK, Batch, Rows, Offsets
  <2>3. \A r : Issued(r)' \subseteq Issued(r)
    BY <2>1 DEF Issued
  <2>4. SentFromLog'
    BY <1>1, <2>1, <2>3 DEF RollupInv, SentFromLog
  <2>5. ~replayed' => SentInOneBatch'
    BY <1>1, <2>2, <2>3 DEF RollupInv, SentInOneBatch
  <2>6. RollupExactWithoutReplay'
    BY <1>1, <2>1 DEF RollupInv, RollupExactWithoutReplay, RollupMatches, NoRepeats
  <2> QED  BY <2>4, <2>5, <2>6 DEF RollupInv
<1>4. CASE ~Remembered(i)
  <2> DEFINE k == i.region
             rows == i.rows
  <2>1. /\ table' = [table EXCEPT ![k] = @ \cup RowEvents(rows)]
        /\ tokens' = [tokens EXCEPT ![k] = @ \cup {rows}]
        /\ rollup' = [rollup EXCEPT ![k] = [e \in Events |-> @[e] + CountOf(e, rows)]]
    BY <1>1, <1>4
  <2>2. /\ table'[k] = table[k] \cup RowEvents(rows)
        /\ tokens'[k] = tokens[k] \cup {rows}
        /\ \A e \in Events : rollup'[k][e] = rollup[k][e] + CountOf(e, rows)
        /\ \A r \in Regions \ {k} :
              table'[r] = table[r] /\ tokens'[r] = tokens[r] /\ rollup'[r] = rollup[r]
    BY <1>2, <2>1 DEF TypeOK
  <2>3. rows \in Issued(k) /\ rows \notin tokens[k]
    <3>1. rows \notin tokens[k]
      BY <1>4, SameAsItself DEF Remembered
    <3> QED  BY <3>1 DEF Issued
  <2>4. \A r \in Regions : Issued(r)' \subseteq Issued(r)
    BY <1>1, <2>2, <2>3 DEF Issued
  <2>5. \A o \in DOMAIN rows : o \in 1..Len(log) /\ rows[o] = log[o]
    BY <1>2, <2>3 DEF RollupInv, SentFromLog
  <2> HIDE DEF k, rows
  <2>6. SentFromLog'
    <3>1. ASSUME NEW r \in Regions, NEW e \in table'[r]
          PROVE  \E others \in tokens'[r] : e \in RowEvents(others)
      <4>1. CASE e \in table[r]
        <5>1. PICK others \in tokens[r] : e \in RowEvents(others)
          BY <4>1 DEF RollupInv, SentFromLog
        <5>2. others \in tokens'[r]
          BY <2>2, <5>1
        <5> QED  BY <5>1, <5>2
      <4>2. CASE e \notin table[r]
        <5>1. r = k /\ e \in RowEvents(rows) /\ rows \in tokens'[r]
          BY <2>2, <3>1, <4>2
        <5> QED  BY <5>1
      <4> QED  BY <4>1, <4>2
    <3>2. pc' # "fetch" => upto' <= fetched'
      BY <1>1 DEF RollupInv, SentFromLog
    <3>3. ASSUME NEW r \in Regions, NEW others \in Issued(r)', NEW o \in DOMAIN others
          PROVE  o \in 1..Len(log') /\ o <= fetched' /\ others[o] = log'[o]
      BY <1>1, <2>4, <3>3 DEF RollupInv, SentFromLog
    <3> QED  BY <3>1, <3>2, <3>3 DEF SentFromLog
  <2>7. ~replayed' => SentInOneBatch'
    <3>1. Batch' = Batch /\ \A r : Rows(r)' = Rows(r)
      BY <1>1 DEF Batch, Rows, Offsets
    <3> QED  BY <1>1, <2>4, <3>1 DEF RollupInv, SentInOneBatch
  <2>8. ASSUME ~replayed', NoRepeats' PROVE RollupMatches'
    <3>1. RollupMatches /\ SentInOneBatch /\ NoRepeats /\ SentFromLog
      BY <1>1, <2>8 DEF RollupInv, RollupExactWithoutReplay, NoRepeats
    <3>2. DOMAIN log = 1..Len(log)
      BY LenProperties DEF TypeOK
    <3>3. \A o, p \in DOMAIN rows : rows[o].event = rows[p].event => o = p
      BY <2>5, <3>1, <3>2 DEF NoRepeats
    <3>4. \A e : CountOf(e, rows) = IF e \in RowEvents(rows) THEN 1 ELSE 0
      BY <3>3, CountOnce
    <3>5. \A e \in RowEvents(rows) : e \notin table[k]
      <4> SUFFICES ASSUME NEW o \in DOMAIN rows, rows[o].event \in table[k] PROVE FALSE
        BY DEF RowEvents
      <4>1. PICK others \in tokens[k] : rows[o].event \in RowEvents(others)
        BY <1>2, <3>1 DEF SentFromLog, k
      <4>2. PICK p \in DOMAIN others : others[p].event = rows[o].event
        BY <4>1 DEF RowEvents
      <4>3. others \in Issued(k)
        BY <4>1 DEF Issued
      <4>4. p \in 1..Len(log) /\ others[p] = log[p]
        BY <1>2, <3>1, <4>2, <4>3 DEF SentFromLog, k
      <4>5. p = o
        BY <2>5, <3>1, <3>2, <4>2, <4>4 DEF NoRepeats
      <4>6. rows = others
        BY <1>2, <2>3, <3>1, <4>2, <4>3, <4>5 DEF SentInOneBatch, k
      <4> QED  BY <2>3, <4>1, <4>6
    <3>6. ASSUME NEW r \in Regions, NEW e \in Events
          PROVE  rollup'[r][e] = IF e \in table'[r] THEN 1 ELSE 0
      <4>1. rollup[r][e] = IF e \in table[r] THEN 1 ELSE 0
        BY <3>1 DEF RollupMatches
      <4>2. CASE r = k
        <5>1. rollup'[r][e] = rollup[r][e] + (IF e \in RowEvents(rows) THEN 1 ELSE 0)
          BY <2>2, <3>4, <4>2
        <5> QED  BY <2>2, <3>5, <4>1, <4>2, <5>1
      <4>3. CASE r # k
        BY <2>2, <4>1, <4>3
      <4> QED  BY <4>2, <4>3
    <3> QED  BY <3>6 DEF RollupMatches
  <2> QED  BY <2>6, <2>7, <2>8 DEF RollupInv, RollupExactWithoutReplay
<1> QED  BY <1>3, <1>4

LEMMA RollupNext ==
    ASSUME IInv, IInv', RollupInv, [Next]_vars
    PROVE  RollupInv'
<1>t. TypeOK /\ TypeOK' /\ Positions /\ Grows /\ fetched \in Nat
  BY StepGrows DEF IInv, TypeOK
<1>1. ASSUME NEW n \in 1..MaxLog, FetchBatch(n) PROVE RollupInv'
  BY <1>1, <1>t, RollupFetch
<1>2. ASSUME NEW r \in Regions, SendInsert(r) PROVE RollupInv'
  BY <1>2, <1>t, RollupSend
<1>3. ASSUME NEW i \in inserts, ApplyInsert(i) PROVE RollupInv'
  BY <1>3, <1>t, RollupApply
<1>4. ASSUME \/ \E m \in Entries : Produce(m)
             \/ \E i \in inserts : LoseInsert(i)
             \/ InsertSucceeds \/ InsertFails \/ NothingForDlq \/ DlqSucceeds
             \/ DlqFails \/ Commit \/ Crash \/ UNCHANGED vars
      PROVE  RollupInv'
  <2>1. /\ UNCHANGED <<table, tokens, rollup, fetched, replayed>>
        /\ inserts' \subseteq inserts
    BY <1>4 DEF Produce, LoseInsert, InsertSucceeds, InsertFails, NothingForDlq,
                DlqSucceeds, DlqFails, Commit, Crash, vars, storeVars, history
  <2>2. \/ pc' = "fetch"
        \/ UNCHANGED <<from, upto, pc>>
        \/ pc = "insert" /\ UNCHANGED <<from, upto>>
    BY <1>4 DEF Produce, LoseInsert, InsertSucceeds, InsertFails, NothingForDlq,
                DlqSucceeds, DlqFails, Commit, Crash, vars, batchVars, Reset
  <2>3. \/ pc' = "fetch"
        \/ pc # "fetch" /\ UNCHANGED <<from, upto>>
    BY <2>2
  <2> QED  BY <1>t, <2>1, <2>3, RollupStays
<1> QED  BY <1>1, <1>2, <1>3, <1>4 DEF Next, Consume

LEMMA RollupInit == Init => RollupInv
<1> SUFFICES ASSUME Init PROVE RollupInv
  OBVIOUS
<1>1. \A r \in Regions : Issued(r) = {} /\ table[r] = {}
  BY DEF Init, Issued
<1>2. \A r \in Regions, e \in Events : rollup[r][e] = 0
  BY DEF Init
<1>3. SentFromLog /\ SentInOneBatch
  BY <1>1 DEF Init, SentFromLog, SentInOneBatch
<1> QED  BY <1>1, <1>2, <1>3 DEF RollupInv, RollupExactWithoutReplay, RollupMatches

\* While no batch was fetched twice and the topic holds no event twice, the
\* rollup counts exactly what a query returns, although inserts are retried,
\* answered late and carried out after the client gave up.
THEOREM RollupIsExact == Spec => []RollupExactWithoutReplay
<1>1. Init => IInv /\ RollupInv
  BY InvInit, RollupInit
<1>2. IInv /\ RollupInv /\ [Next]_vars => (IInv /\ RollupInv)'
  BY InvNext, RollupNext
<1>3. RollupInv => RollupExactWithoutReplay
  BY DEF RollupInv
<1> QED  BY <1>1, <1>2, <1>3, PTL DEF Spec
=============================================================================
