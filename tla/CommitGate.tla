----------------------------- MODULE CommitGate -----------------------------
(***************************************************************************)
(* internal/pipeline/consumer.go, RunWithCommitGate: what one cycle of the *)
(* poll loop commits for one partition.  Assembler composes it with the    *)
(* trace assembler, whose watermark provides the ceiling.                  *)
(***************************************************************************)
EXTENDS Integers

\* pending[tp] when the map has no entry for the partition.
NoPending == -1

\* The highest offset fetched, lowered to the ceiling when one applies.
CommitOffset(highest, hasCeiling, capped) ==
  IF hasCeiling /\ capped < highest THEN capped ELSE highest

\* Whether the cycle commits offset: not when nothing is safe to commit, and
\* not when last (the offset after the last one committed) covers it already.
CommitDue(offset, last) == ~(offset < 0 \/ offset <= last - 1)
=============================================================================
