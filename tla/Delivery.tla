------------------------------ MODULE Delivery ------------------------------
(***************************************************************************)
(* What a consumer group promises (internal/pipeline/consumer.go, NewConsumer: *)
(* "Offsets advance only after the handler reports the batch durably       *)
(* stored"): the offset of a partition moves past a record only when the   *)
(* record was dealt with before.  How that is achieved is the business of  *)
(* Consumer, which implements this specification.                          *)
(***************************************************************************)
EXTENDS Integers, Sequences

CONSTANT TopicPartition

VARIABLES
  log,     \* log[tp][o + 1]: leader epoch of the record at offset o
  dealt,   \* records that need not be delivered again
  offset   \* the group's offset: the first one not committed

RecordAt(tp, o) == <<tp, o, log[tp][o + 1]>>

Init ==
  /\ dealt = {}
  /\ offset = [tp \in TopicPartition |-> 0]

\* Records are dealt with; the broker appends some or loses the end of a log.
Deal == dealt \subseteq dealt' /\ UNCHANGED offset

\* The offset moves to the position given, over records that were dealt with.
Commit ==
  /\ \A tp \in TopicPartition : \A o \in offset[tp] .. offset'[tp] - 1 :
       o < Len(log[tp]) => RecordAt(tp, o) \in dealt
  /\ UNCHANGED <<log, dealt>>

Next == Deal \/ Commit

Spec == Init /\ [][Next]_<<log, dealt, offset>>
=============================================================================
