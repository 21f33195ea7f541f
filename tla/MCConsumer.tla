----------------------------- MODULE MCConsumer -----------------------------
(***************************************************************************)
(* Instances of Consumer for TLC: a partition of spans and one of logs.    *)
(***************************************************************************)
EXTENDS Consumer

CONSTANTS spans, logs, t1, t2

OneEach == [tp \in TopicPartition |-> tp]

\* The records of an epoch belong to one trace.
TraceOfEpoch == [r \in Records |-> IF r[3] = 0 THEN t1 ELSE t2]

Upto(f, l, c, m) == [failures |-> f, losses |-> l, crashes |-> c, moves |-> m]

\* A failure and a restart together, a truncation, or a rebalance.
Mixed == {Upto(1, 0, 1, 0), Upto(0, 1, 0, 0), Upto(0, 0, 0, 1)}

OneFailure == {Upto(1, 0, 0, 0)}
=============================================================================
