------------------------------- MODULE Buffer -------------------------------
(***************************************************************************)
(* internal/sampling/buffer.go: the traces being assembled, bounded by     *)
(* count and by bytes, and the bounded cache of decisions that classifies  *)
(* late spans.  Every operation is an action fragment standing for one     *)
(* critical section of b.mu; Assembler composes them with the rest of the  *)
(* process.                                                                *)
(*                                                                         *)
(* A span is the Kafka record that carried it.  Only the order of the      *)
(* firstSeen times matters, so they are drawn from a counter.              *)
(***************************************************************************)
EXTENDS SpanLog, Sequences, FiniteSets

CONSTANTS
  SpanSize,          \* spanSize: estimated bytes of each span
  MaxTraces,         \* BufferConfig.MaxTraces
  MaxBytes,          \* BufferConfig.MaxBytes
  DecidedCacheSize   \* BufferConfig.DecidedCacheSize, 0 for no bound

ASSUME BufferAssumption ==
  /\ IsFiniteSet(Trace)   \* a trace id is 16 bytes long
  /\ SpanSize \in [Record -> Nat]
  /\ MaxTraces \in Nat
  /\ MaxBytes \in Nat
  /\ DecidedCacheSize \in Nat

VARIABLES
  inflight,      \* inflight[t]: bufferedTrace of t, NoEntry when absent
  totalBytes,    \* bytes accounted to the traces in flight
  clock,         \* source of firstSeen
  decided,       \* decided[t]: decidedEntry of t, "none" when absent
  decidedOrder   \* decidedOrder: FIFO of the decisions remembered

bufferVars == <<inflight, totalBytes, clock, decided, decidedOrder>>

Verdict == {"sample", "drop"}
NoEntry == [recs |-> {}, seen |-> 0, bytes |-> 0]
Entry == [recs : SUBSET Record, seen : Nat, bytes : Nat]

BufferTypeOK ==
  /\ inflight \in [Trace -> Entry]
  /\ clock \in Nat
  /\ decided \in [Trace -> Verdict \cup {"none"}]
  /\ decidedOrder \in Seq(Trace)

\* NewBuffer.
BufferInit ==
  /\ inflight = [t \in Trace |-> NoEntry]
  /\ totalBytes = 0
  /\ clock = 0
  /\ decided = [t \in Trace |-> "none"]
  /\ decidedOrder = <<>>

Inflight == {t \in Trace : inflight[t].recs # {}}

\* The root of the age heap: no trace in S was first seen earlier.
OldestIn(entries, S, t) ==
  t \in S /\ \A u \in S : entries[t].seen <= entries[u].seen

\* Ingest, admission of a span of a trace that is not decided.
Admit(t, r) ==
  /\ inflight' = [inflight EXCEPT ![t] =
        [recs  |-> @.recs \cup {r},
         seen  |-> IF @.recs = {} THEN clock ELSE @.seen,
         bytes |-> @.bytes + SpanSize[r]]]
  /\ clock' = IF inflight[t].recs = {} THEN clock + 1 ELSE clock
  /\ totalBytes' = totalBytes + SpanSize[r]
  /\ UNCHANGED <<decided, decidedOrder>>

\* Ingest's capacity check, on the state after the span was admitted.
NeedsEviction ==
  \/ Cardinality(Inflight') > MaxTraces
  \/ totalBytes' > MaxBytes

\* Mutant: the bytes are not given back.
RemoveLeakingBytes(S, freed) ==
  /\ inflight' = [t \in Trace |-> IF t \in S THEN NoEntry ELSE inflight[t]]
  /\ UNCHANGED <<totalBytes, clock, decided, decidedOrder>>

\* The first half of resolve, TryEarlyExit and PopReady: the traces of S
\* leave the map and the heap, and their bytes are given back.
Remove(S, freed) ==
  /\ inflight' = [t \in Trace |-> IF t \in S THEN NoEntry ELSE inflight[t]]
  /\ totalBytes' = totalBytes - freed
  /\ UNCHANGED <<clock, decided, decidedOrder>>

\* PopReady takes a prefix of the age order: everything first seen at least
\* DecisionWait ago.
ReadySet(S) ==
  /\ S \in SUBSET Inflight
  /\ S # {}
  /\ \A t \in S, u \in Inflight :
       inflight[u].seen <= inflight[t].seen => u \in S

\* recordDecision with evictDecidedLocked: the decision is remembered, and
\* from the front of the FIFO go the entries over the size bound and any
\* further ones whose TTL has passed.
RecordDecision(t, verdict) ==
  LET order == Append(decidedOrder, t)
      over  == IF DecidedCacheSize > 0 /\ Len(order) > DecidedCacheSize
               THEN Len(order) - DecidedCacheSize ELSE 0
  IN \E k \in over .. Len(decidedOrder) :
       LET gone == {order[i] : i \in 1 .. k}
       IN /\ decided' = [u \in Trace |->
                           IF u \in gone THEN "none"
                           ELSE IF u = t THEN verdict ELSE decided[u]]
          /\ decidedOrder' = SubSeq(order, k + 1, Len(order))
          /\ UNCHANGED <<inflight, totalBytes, clock>>

\* Tracks: in flight, or still in the decided cache.
Tracks(t) == t \in Inflight \/ decided[t] # "none"
=============================================================================
