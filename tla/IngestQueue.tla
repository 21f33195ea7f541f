---------------------------- MODULE IngestQueue ----------------------------
(***************************************************************************)
(* The bounded queue of one signal (internal/ingest/queue.go): a Go        *)
(* channel and, beside it, an atomic depth counter that admission reads.   *)
(* The two are updated by separate steps, so the counter lags the channel. *)
(*                                                                         *)
(* Queue.Close and Queue.Enqueue have no caller outside the tests: the     *)
(* channel is never closed and every request comes through EnqueueBatch.   *)
(***************************************************************************)
EXTENDS Integers, Sequences, FiniteSets

CONSTANTS
  Client,     \* concurrent export requests of one signal
  BatchLen,   \* envelopes a client's request splits into
  Capacity,   \* queue capacity, the channel's buffer
  High        \* QueueConfig.HighWater, where the reject policy engages

ASSUME QueueAssumption ==
  /\ IsFiniteSet(Client)
  /\ BatchLen \in [Client -> Nat]
  /\ Capacity \in Nat \ {0}
  /\ High \in 1 .. Capacity

\* The envelopes of one client's request, in the order Split* emits them.
Request(c) == {<<c, i>> : i \in 1 .. BatchLen[c]}
Envelope == UNION {Request(c) : c \in Client}

VARIABLES
  ch,      \* Queue.ch
  depth    \* Queue.depth

queueVars == <<ch, depth>>

QueueTypeOK ==
  /\ ch \in Seq(Envelope)
  /\ depth \in Int

QueueInit ==
  /\ ch = <<>>
  /\ depth = 0

HasRoom == Len(ch) < Capacity

\* EnqueueBatch: one admission decision for a request of n envelopes.
Admits(n) == depth + n <= High

\* Mutant: the receiving side forgets to update the counter.
CountOutForgotten == depth' = depth

\* The two halves of a successful send, and of a receive.
Put(e) == ch' = Append(ch, e)
Take == ch' = Tail(ch)
CountIn == depth' = depth + 1
CountOut == depth' = depth - 1
=============================================================================
