---------------------------- MODULE MCAssembler ----------------------------
(***************************************************************************)
(* Instances of Assembler for TLC.                                         *)
(***************************************************************************)
EXTENDS Assembler, TLC

CONSTANTS t1, t2, p1

OnePartition == [t \in Trace |-> p1]

\* Spans of two sizes, by offset.
Sizes == [r \in Record |-> 1 + (r[2] % 2)]

TraceSymmetry == Permutations(Trace)
=============================================================================
