--------------------------- MODULE EventsConsumer ---------------------------
(***************************************************************************)
(* Topic to ClickHouse: startEventsConsumer (pipeline/src/redpanda.ts) with *)
(* insertRows (pipeline/src/clickhouse.ts) and the tables that              *)
(* ch-migrate.ts creates, for one partition of the events topic.            *)
(*                                                                          *)
(* The client can stop waiting for an insert that ClickHouse still carries  *)
(* out, before or after the retry, the next batch or a restart.             *)
(***************************************************************************)
EXTENDS Integers, Sequences, FiniteSets

CONSTANTS
    Events,     \* event ids
    Regions,    \* ClickHouse clusters the residency router knows
    Entries,    \* messages that can be produced to the topic
    MaxLog,     \* bound: messages produced
    MaxCrashes  \* bound: restarts of the consumer

\* A message maps to a row of one region, or is unmappable, or has no value.
Kinds == Regions \cup {"unmappable", "empty"}

ASSUME ConsumerAssumption ==
    /\ Entries \subseteq [event : Events, kind : Kinds]
    /\ Regions \cap {"unmappable", "empty", "none"} = {}
    /\ MaxLog \in Nat
    /\ MaxCrashes \in Nat

VARIABLES
    log,        \* the partition
    committed,  \* committed offset of the consumer group
    from,       \* offset the consumer has consumed up to
    upto,       \* the batch in hand is from+1 .. upto
    pc,         \* "fetch", "insert", "commit"
    todo,       \* regions of the batch not yet dealt with
    region,     \* the region being inserted, or "none"
    tries,      \* failed insertRows calls for that region
    reply,      \* what the consumer knows of its insert: "no", "sent", "ok"
    inserts,    \* inserts ClickHouse may still carry out
    dead,       \* offsets of the batch that go to the dead-letter topic
    dlq,        \* offsets preserved on the dead-letter topic
    table,      \* per region, the events a FINAL query of toqar.events returns
    tokens,     \* per region, the insert_deduplication_tokens remembered
    rollup,     \* per region and event, its count in toqar.daily_rollups
    crashes,
    fetched,    \* history: highest offset ever fetched
    replayed    \* history: some offset was fetched twice

batchVars == <<from, upto, pc, todo, region, tries, reply, dead>>
storeVars == <<inserts, table, tokens, rollup>>
history == <<fetched, replayed>>
vars == <<log, committed, batchVars, storeVars, dlq, crashes, history>>

Batch      == from + 1 .. upto
Offsets(k) == {o \in Batch : log[o].kind = k}

\* The rows of one region, by their offsets in the batch.
Rows(r) == [o \in Offsets(r) |-> log[o]]
RowEvents(rows) == {rows[o].event : o \in DOMAIN rows}
CountOf(e, rows) == Cardinality({o \in DOMAIN rows : rows[o].event = e})

\* The deduplication token is a hash of the content of all rows in their
\* order: equal for batches that differ in the offsets alone.
SameRows(rows, others) ==
    \E place \in [DOMAIN rows -> DOMAIN others] :
       /\ \A o, p \in DOMAIN rows : o < p => place[o] < place[p]
       /\ \A q \in DOMAIN others : \E o \in DOMAIN rows : place[o] = q
       /\ \A o \in DOMAIN rows : rows[o] = others[place[o]]
-----------------------------------------------------------------------------
Init ==
    /\ log = <<>> /\ committed = 0 /\ from = 0 /\ upto = 0
    /\ pc = "fetch" /\ todo = {} /\ region = "none" /\ tries = 0 /\ reply = "no"
    /\ inserts = {} /\ dead = {} /\ dlq = {}
    /\ table = [r \in Regions |-> {}]
    /\ tokens = [r \in Regions |-> {}]
    /\ rollup = [r \in Regions |-> [e \in Events |-> 0]]
    /\ crashes = 0 /\ fetched = 0 /\ replayed = FALSE

\* The collector's side: an event sent twice upstream is produced twice.
Produce(m) ==
    /\ Len(log) < MaxLog
    /\ log' = Append(log, m)
    /\ UNCHANGED <<committed, batchVars, storeVars, dlq, crashes, history>>

\* eachBatch is called with messages from the position on; where a batch ends
\* depends on what had arrived.  Rows are bucketed by region; what does not
\* map is dead already, and a message without a value is passed over.
FetchBatch(n) ==
    /\ pc = "fetch" /\ n \in from + 1 .. Len(log)
    /\ upto' = n
    /\ pc' = "insert"
    /\ todo' = {r \in Regions : \E o \in from + 1 .. n : log[o].kind = r}
    /\ dead' = {o \in from + 1 .. n : log[o].kind = "unmappable"}
    /\ replayed' = (replayed \/ from < fetched)
    /\ fetched' = IF n > fetched THEN n ELSE fetched
    /\ UNCHANGED <<log, committed, from, region, tries, reply, storeVars, dlq,
                   crashes>>

\* insertRows(): the first call for a region, or the retry after the pause.
SendInsert(r) ==
    /\ pc = "insert" /\ reply = "no" /\ r \in todo
    /\ region \in {"none", r}
    /\ region' = r
    /\ reply' = "sent"
    /\ inserts' = inserts \cup {[region |-> r, rows |-> Rows(r)]}
    /\ UNCHANGED <<log, committed, from, upto, pc, todo, tries, dead, table,
                   tokens, rollup, dlq, crashes, history>>

Remembered_Never(i) == FALSE   \* mutant: no deduplication token
Remembered(i) == \E rows \in tokens[i.region] : SameRows(i.rows, rows)

\* ClickHouse carries out an insert.  A token it remembers is skipped in the
\* table and in the materialized view; otherwise the rows replace rows of the
\* same key, and the view adds up every row inserted.
ApplyInsert(i) ==
    /\ i \in inserts
    /\ inserts' = inserts \ {i}
    /\ IF Remembered(i)
       THEN UNCHANGED <<table, tokens, rollup>>
       ELSE /\ table' = [table EXCEPT ![i.region] = @ \cup RowEvents(i.rows)]
            /\ tokens' = [tokens EXCEPT ![i.region] = @ \cup {i.rows}]
            /\ rollup' = [rollup EXCEPT ![i.region] =
                             [e \in Events |-> @[e] + CountOf(e, i.rows)]]
    /\ reply' = IF reply = "sent" /\ i = [region |-> region, rows |-> Rows(region)]
                THEN "ok" ELSE reply
    /\ UNCHANGED <<log, committed, from, upto, pc, todo, region, tries, dead,
                   dlq, crashes, history>>

\* ClickHouse refuses an insert or never gets it.
LoseInsert(i) ==
    /\ i \in inserts
    /\ inserts' = inserts \ {i}
    /\ UNCHANGED <<log, committed, batchVars, table, tokens, rollup, dlq,
                   crashes, history>>

RegionDone ==
    /\ todo' = todo \ {region}
    /\ region' = "none"
    /\ tries' = 0

InsertSucceeds ==
    /\ pc = "insert" /\ reply = "ok"
    /\ RegionDone
    /\ reply' = "no"
    /\ UNCHANGED <<log, committed, from, upto, pc, dead, storeVars, dlq,
                   crashes, history>>

\* Mutants: a second retry; the rows that failed twice are dropped.
FirstTry_OrSecond == tries <= 1
GiveUp_Drops == UNCHANGED dead

FirstTry == tries = 0
GiveUp == dead' = dead \cup Offsets(region)

\* insertRows throws, whether or not the rows are or will be stored.  The
\* second time the rows of the region go to the dead letters.
InsertFails ==
    /\ pc = "insert" /\ reply \in {"sent", "ok"}
    /\ reply' = "no"
    /\ IF FirstTry
       THEN tries' = tries + 1 /\ UNCHANGED <<todo, region, dead>>
       ELSE RegionDone /\ GiveUp
    /\ UNCHANGED <<log, committed, from, upto, pc, storeVars, dlq, crashes,
                   history>>

\* toDlq(dead): without entries it returns at once.
NothingForDlq ==
    /\ pc = "insert" /\ todo = {} /\ dead = {}
    /\ pc' = "commit"
    /\ UNCHANGED <<log, committed, from, upto, todo, region, tries, reply, dead,
                   dlq, storeVars, crashes, history>>

DlqSucceeds ==
    /\ pc = "insert" /\ todo = {} /\ dead # {}
    /\ dlq' = dlq \cup dead
    /\ pc' = "commit"
    /\ UNCHANGED <<log, committed, from, upto, todo, region, tries, reply, dead,
                   storeVars, crashes, history>>

\* Back to fetching from offset o with nothing in hand.
Reset(o) ==
    /\ from' = o /\ upto' = o
    /\ pc' = "fetch" /\ todo' = {} /\ dead' = {}
    /\ region' = "none" /\ tries' = 0 /\ reply' = "no"

\* Mutant: the failure is swallowed and the batch committed.
DlqFails_Swallowed ==
    /\ pc = "insert" /\ todo = {} /\ dead # {}
    /\ pc' = "commit"
    /\ UNCHANGED <<log, committed, from, upto, todo, region, tries, reply, dead,
                   dlq, storeVars, crashes, history>>

\* The dead-letter write throws, though the messages may be stored: the batch
\* is not committed and is fetched again, by this consumer or after a rejoin.
DlqFails ==
    /\ pc = "insert" /\ todo = {} /\ dead # {}
    /\ dlq' \in {dlq, dlq \cup dead}
    /\ \E o \in {from, committed} : Reset(o)
    /\ UNCHANGED <<log, committed, storeVars, crashes, history>>

\* resolveOffset for every message, then commitOffsetsIfNecessary(): without
\* autoCommit thresholds the library may leave the commit for later.
Commit ==
    /\ pc = "commit"
    /\ committed' \in {committed, upto}
    /\ Reset(upto)
    /\ UNCHANGED <<log, storeVars, dlq, crashes, history>>

RestartsAt_Position == upto   \* mutant: the position, not the commit
RestartsAt == committed

\* The process dies, or the group gives the partition to another consumer,
\* which starts at the committed offset.
Crash ==
    /\ crashes < MaxCrashes
    /\ crashes' = crashes + 1
    /\ Reset(RestartsAt)
    /\ UNCHANGED <<log, committed, storeVars, dlq, history>>

Consume ==
    \/ \E n \in 1..MaxLog : FetchBatch(n)
    \/ \E r \in Regions : SendInsert(r)
    \/ InsertSucceeds
    \/ InsertFails
    \/ NothingForDlq
    \/ DlqFails
    \/ Commit

Next ==
    \/ \E m \in Entries : Produce(m)
    \/ Consume
    \/ DlqSucceeds
    \/ \E i \in inserts : ApplyInsert(i) \/ LoseInsert(i)
    \/ Crash

Spec == Init /\ [][Next]_vars

\* The consumer goes on as long as it has work, a call of the ClickHouse
\* client ends, and a message offered to the dead-letter topic again and again
\* gets there.
Fairness ==
    /\ WF_vars(Consume)
    /\ \A o \in 1..MaxLog : SF_vars(o \in dead /\ DlqSucceeds)

FairSpec == Spec /\ Fairness
-----------------------------------------------------------------------------
\* A message is accounted for when a query returns its row, when it is on the
\* dead-letter topic, or when there is nothing in it.
Settled(o) ==
    \/ log[o].kind = "empty"
    \/ o \in dlq
    \/ log[o].kind \in Regions /\ log[o].event \in table[log[o].kind]

\* The variables hold values of their types.
Row == [event : Events, kind : Kinds]
IsRows(rows) == /\ DOMAIN rows \subseteq Nat /\ IsFiniteSet(DOMAIN rows)
                /\ rows \in [DOMAIN rows -> Row]
IsInsert(i) == /\ i = [region |-> i.region, rows |-> i.rows]
               /\ i.region \in Regions /\ IsRows(i.rows)
TypeOK ==
    /\ log \in Seq(Row)
    /\ committed \in Nat /\ from \in Nat /\ upto \in Nat
    /\ pc \in {"fetch", "insert", "commit"}
    /\ todo \subseteq Regions
    /\ region \in Regions \cup {"none"}
    /\ tries \in {0, 1}
    /\ reply \in {"no", "sent", "ok"}
    /\ \A i \in inserts : IsInsert(i)
    /\ dead \subseteq Nat /\ dlq \subseteq Nat
    /\ table \in [Regions -> SUBSET Events]
    /\ DOMAIN tokens = Regions
    /\ \A r \in Regions : \A rows \in tokens[r] : IsRows(rows)
    /\ rollup \in [Regions -> [Events -> Nat]]
    /\ crashes \in Nat
    /\ fetched \in Nat /\ replayed \in BOOLEAN

\* "a crash between write and commit re-processes, never skips": whatever
\* fails and whenever the consumer restarts, every message up to the committed
\* offset is queryable or on the dead-letter topic.
NeverSkips == \A o \in 1..committed : Settled(o)

\* The rollup counts an event exactly once as long as the topic carries it
\* once and no batch was fetched again, although every insert can be retried,
\* answered late or carried out after the client gave up.
NoRepeats == \A o, p \in DOMAIN log : log[o].event = log[p].event => o = p
RollupMatches ==
    \A r \in Regions, e \in Events :
       rollup[r][e] = IF e \in table[r] THEN 1 ELSE 0
RollupExactWithoutReplay == ~replayed /\ NoRepeats => RollupMatches

\* "the rollup is a cache": its sums equal the aggregate of the raw events.
RollupReconciles == RollupMatches

\* Every message is settled in the end: a poison batch never blocks the
\* partition, and a restart always makes up for what was in hand.
EveryMessageSettles ==
    \A o \in 1..MaxLog : o <= Len(log) ~> o <= Len(log) /\ Settled(o)

\* The consumer implements the committed log.
Abs == INSTANCE CommittedLog WITH
          produced  <- Len(log),
          settled   <- {o \in DOMAIN log : Settled(o)},
          committed <- committed
ImplementsCommittedLog == Abs!Spec
=============================================================================
