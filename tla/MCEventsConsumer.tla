-------------------------- MODULE MCEventsConsumer --------------------------
(* A small instance of EventsConsumer: rows of two regions, one message     *)
(* that does not map and one without a value.                               *)
EXTENDS EventsConsumer

Entry(e, k) == [event |-> e, kind |-> k]
MCEntries == {Entry("e1", "us"), Entry("e2", "us"), Entry("e3", "eu"),
              Entry("e4", "unmappable"), Entry("e5", "empty")}
=============================================================================
