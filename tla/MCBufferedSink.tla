--------------------------- MODULE MCBufferedSink ---------------------------
(* A small instance of BufferedSink: every batch of at most MaxBatch of the *)
(* messages, in the order of their numbers.                                 *)
EXTENDS BufferedSink, FiniteSets

CONSTANT MaxBatch

Increasing(s) == \A i, j \in DOMAIN s : i < j => s[i] < s[j]
MCBatches ==
    {s \in UNION {[1..n -> Messages] : n \in 0..MaxBatch} : Increasing(s)}
=============================================================================
