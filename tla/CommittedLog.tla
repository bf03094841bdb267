---------------------------- MODULE CommittedLog ----------------------------
(***************************************************************************)
(* What the events consumer promises about the topic, whatever happens      *)
(* inside it: an offset is committed only when every message up to it is     *)
(* settled (queryable, or kept on the dead-letter topic with a reason), and  *)
(* a settled message stays settled.                                          *)
(***************************************************************************)
EXTENDS Integers

VARIABLES
    produced,   \* number of messages in the topic
    settled,    \* offsets of the messages that are accounted for
    committed   \* the consumer group's committed offset

vars == <<produced, settled, committed>>

Init == produced = 0 /\ settled = {} /\ committed = 0

\* A message arrives; one without a value is settled as it comes.
Produce ==
    /\ produced' = produced + 1
    /\ settled' \in {settled, settled \cup {produced + 1}}
    /\ UNCHANGED committed

Settle ==
    /\ settled \subseteq settled'
    /\ settled' \subseteq 1..produced
    /\ UNCHANGED <<produced, committed>>

Commit ==
    /\ committed' \in 0..produced
    /\ 1..committed' \subseteq settled
    /\ UNCHANGED <<produced, settled>>

Next == Produce \/ Settle \/ Commit

Spec == Init /\ [][Next]_vars
=============================================================================
