---------------------------- MODULE MCCollector ----------------------------
(***************************************************************************)
(* Instances of Collector for TLC.                                         *)
(***************************************************************************)
EXTENDS Collector, TLC

CONSTANTS c1, c2

\* Two requests of two envelopes that race for the queue.
TwoEach == [c \in Client |-> 2]

\* Envelopes of two sizes.
Sizes == [e \in Envelope |-> e[2]]
=============================================================================
