--------------------------- MODULE OffsetWatermark ---------------------------
(***************************************************************************)
(* internal/sampling/watermark.go: per Kafka partition, the offset at      *)
(* which every not yet durably decided trace was first seen.  The smallest *)
(* of them is the commit floor of the partition.                           *)
(*                                                                         *)
(* The map byTrace and the heap h of partitionWatermark always hold the    *)
(* same entries; one function stands for both, and the root of the heap is *)
(* an entry that no other entry undercuts (IsFloor).  Wall-clock age is    *)
(* abstracted to the set of entries held longer than WATERMARK_MAX_AGE.    *)
(* The operations are action fragments: each is one critical section of    *)
(* w.mu, composed by Assembler.                                            *)
(***************************************************************************)
EXTENDS SpanLog

VARIABLES
  wm,          \* wm[p][t]: offset of t's entry on p, NotTracked when absent
  aged         \* the entries <<p, t>> older than the watchdog's maxAge

NotTracked == -1

wmVars == <<wm, aged>>

WmTypeOK ==
  /\ wm \in [Partition -> [Trace -> Nat \cup {NotTracked}]]
  /\ aged \in SUBSET (Partition \X Trace)

\* NewOffsetWatermark: nothing is tracked.
WmInit ==
  /\ wm = [p \in Partition |-> [t \in Trace |-> NotTracked]]
  /\ aged = {}

Tracked(p, t) == wm[p][t] # NotTracked

\* Track: the first offset wins, and with it the original trackedAt.
Track(p, o, t) ==
  /\ wm' = IF Tracked(p, t) THEN wm ELSE [wm EXCEPT ![p][t] = o]
  /\ UNCHANGED aged

\* Resolve: the entry leaves the map and the heap; a no-op when untracked.
Resolve(p, t) ==
  /\ wm' = [wm EXCEPT ![p][t] = NotTracked]
  /\ aged' = aged \ {<<p, t>>}

\* SafeOffset's h[0].offset: the least offset still tracked on p.
IsFloor(p, o) ==
  /\ \E t \in Trace : Tracked(p, t) /\ wm[p][t] = o
  /\ \A t \in Trace : Tracked(p, t) => o <= wm[p][t]

\* SafeOffset's hasFloor.
HasFloor(p) == \E t \in Trace : Tracked(p, t)

\* Mutant: the age comparison is turned around.
YoungCandidates ==
  {e \in Partition \X Trace : Tracked(e[1], e[2]) /\ e \notin aged}

\* StaleCandidates: the entries whose age has reached maxAge.
StaleCandidates == {e \in aged : Tracked(e[1], e[2])}

\* The passage of time, seen by one entry: it becomes older than maxAge.
GrowOld(p, t) ==
  /\ Tracked(p, t)
  /\ <<p, t>> \notin aged
  /\ aged' = aged \cup {<<p, t>>}
  /\ UNCHANGED wm
=============================================================================
