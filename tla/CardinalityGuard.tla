-------------------------- MODULE CardinalityGuard --------------------------
(***************************************************************************)
(* internal/sampling/cardinality.go and hyperloglog.go: the budget on the  *)
(* distinct values of an attribute key, backed by a sketch per key.        *)
(*                                                                         *)
(* A tracker is [sketches, gen].  Of a sketch only the registers it filled *)
(* are kept: while few are, its estimate is the linear counting            *)
(* m * ln(m / empty), a little more than the number of filled registers.   *)
(***************************************************************************)
EXTENDS Integers, Sequences, FiniteSets

CONSTANTS
  Key, Value,      \* attribute keys and values
  Register,        \* the register that a value is hashed to
  Budget,          \* KeyBudget.Budget by key, 0 for no budget
  Action,          \* KeyBudget.Action by key
  Bucketed,        \* bucketValue of each value, by key
  MaxTrackedKeys

ASSUME GuardAssumption ==
  /\ Budget \in [Key -> Nat]
  /\ Action \in [Key -> {"drop", "bucket", "keep_and_alert"}]
  /\ IsFiniteSet(Key)
  /\ MaxTrackedKeys \in Nat \ {0}

Put(f, x, y) == [z \in DOMAIN f \cup {x} |-> IF z = x THEN y ELSE f[z]]

NewTracker == [sketches |-> <<>>, gen |-> 0]
NewSketch == [filled |-> {}, estimate |-> 0, gen |-> 0]

\* The key with the smallest generation goes.
EvictOldest(entries) ==
  [k \in {j \in DOMAIN entries : \E i \in DOMAIN entries : entries[i].gen < entries[j].gen}
     |-> entries[k]]

\* Room for k in a bounded map.
WithRoom(entries, k, cap) ==
  IF k \in DOMAIN entries \/ Cardinality(DOMAIN entries) < cap THEN entries
                                                                ELSE EvictOldest(entries)

\* HyperLogLog.Add and Estimate.
AddTo(filled, v) == filled \cup {Register[v]}
EstimateOf(filled) == Cardinality(filled)

SketchOf(entries, k) == IF k \in DOMAIN entries THEN entries[k] ELSE NewSketch

\* Mutant: only the first observation of a key computes its estimate.
TrackOnce(tracker, k, v) ==
  LET room == WithRoom(tracker.sketches, k, MaxTrackedKeys)
      old == SketchOf(room, k)
      filled == AddTo(old.filled, v)
      estimate == IF old.filled = {} THEN EstimateOf(filled) ELSE old.estimate
      gen == tracker.gen + 1
  IN  [sketches |-> Put(room, k, [filled |-> filled, estimate |-> estimate, gen |-> gen]),
       gen |-> gen]
\* CardinalityTracker.Observe.  The estimate is cached, and computed anew only
\* when the value changed a register.
Track(tracker, k, v) ==
  LET room == WithRoom(tracker.sketches, k, MaxTrackedKeys)
      old == SketchOf(room, k)
      filled == AddTo(old.filled, v)
      estimate == IF filled # old.filled THEN EstimateOf(filled) ELSE old.estimate
      gen == tracker.gen + 1
  IN  [sketches |-> Put(room, k, [filled |-> filled, estimate |-> estimate, gen |-> gen]),
       gen |-> gen]

\* est <= Budget fails at Budget filled registers already: the estimate is
\* larger than their number.
Breached(tracker, k) == Budget[k] # 0 /\ tracker.sketches[k].estimate >= Budget[k]

\* Enforce, after the tracker has seen the value v of k: the attributes stored
\* so far and what is stored of this one.
WithEnforced(attrs, tracker, k, v) ==
  IF ~Breached(tracker, k) \/ Action[k] = "keep_and_alert" THEN Put(attrs, k, v)
  ELSE IF Action[k] = "bucket" THEN Put(attrs, k, Bucketed[k][v])
  ELSE attrs
=============================================================================
