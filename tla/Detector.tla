------------------------------ MODULE Detector ------------------------------
(***************************************************************************)
(* The anomaly detector (internal/anomaly/detector.go): a ring of recent   *)
(* values per series and seasonal bucket, the robust z-score of a value    *)
(* against it, and the hysteresis that turns levels into an alert state.   *)
(* Values are integers; medians are kept doubled so that they are too.     *)
(***************************************************************************)
EXTENDS Integers, Sequences, TLC

CONSTANTS
  Series,
  Bucket,          \* seasonal buckets: hour of the day and day of the week
  Observable,      \* values of an observation
  WindowSize, MinSamples, MinConsecutive,
  Trigger, Clear   \* TriggerZ and ClearZ times madToStdDev, times 10000

ASSUME DetectorAssumption ==
  /\ Observable \subseteq Int
  /\ {WindowSize, MinConsecutive} \subseteq Nat \ {0}
  /\ MinSamples \in 1 .. WindowSize
  /\ Clear \in Nat /\ Trigger \in Nat /\ Clear <= Trigger

VARIABLES
  ring,   \* ring[s][b]: ringWindow, with the slots written so far
  alert   \* alert[s]: alertState

detectorVars == <<ring, alert>>

DetectorInit ==
  /\ ring = [s \in Series |-> [b \in Bucket |-> [buf |-> <<>>, pos |-> 0, full |-> FALSE]]]
  /\ alert = [s \in Series |-> [firing |-> FALSE, above |-> 0, below |-> 0]]

\* Mutant: the position moves on before the value is written.
AddAfterAdvance(r, v) ==
  LET next == (r.pos + 1) % WindowSize IN
  [buf |-> IF r.pos < Len(r.buf) THEN [r.buf EXCEPT ![next + 1] = v] ELSE Append(r.buf, v),
   pos |-> next, full |-> r.full \/ next = 0]
Add(r, v) ==
  LET next == (r.pos + 1) % WindowSize IN
  [buf |-> IF r.pos < Len(r.buf) THEN [r.buf EXCEPT ![r.pos + 1] = v] ELSE Append(r.buf, v),
   pos |-> next, full |-> r.full \/ next = 0]

Sample(r) == SubSeq(r.buf, 1, IF r.full THEN WindowSize ELSE r.pos)

\* Twice the median of a sequence.
Median2(values) ==
  LET sorted == SortSeq(values, <)
      n == Len(values)
  IN  IF n % 2 = 1 THEN 2 * sorted[n \div 2 + 1] ELSE sorted[n \div 2] + sorted[n \div 2 + 1]

Abs(x) == IF x < 0 THEN -x ELSE x

\* Where v lies against the sample: z >= TriggerZ, z <= ClearZ or between.  A
\* flat sample has its deviation floored, so that any larger value is above.
Level(sample, v) ==
  LET m2 == Median2(sample)
      mad4 == Median2([i \in DOMAIN sample |-> Abs(2 * sample[i] - m2)])
      z == 2 * (2 * v - m2) * 10000
  IN  CASE mad4 = 0 -> IF z > 0 THEN "above" ELSE "below"
        [] mad4 > 0 /\ z >= Trigger * mad4 -> "above"
        [] mad4 > 0 /\ z <= Clear * mad4 -> "below"
        [] OTHER -> "between"

LevelIn(s, b, v) ==
  LET sample == Sample(ring[s][b]) IN
  IF Len(sample) < MinSamples THEN "no_baseline" ELSE Level(sample, v)

\* Mutant: the dead band leaves the run counters alone.
AdvanceKeepingRuns(a, level) ==
  CASE level = "above" -> [firing |-> a.firing \/ a.above + 1 >= MinConsecutive,
                           above |-> a.above + 1, below |-> 0]
    [] level = "below" -> [firing |-> a.firing /\ a.below + 1 < MinConsecutive,
                           above |-> 0, below |-> a.below + 1]
    [] OTHER -> a
\* The hysteresis: only a run of MinConsecutive levels on one side flips the
\* state.  Without a baseline nothing changes.
Advance(a, level) ==
  CASE level = "above" -> [firing |-> a.firing \/ a.above + 1 >= MinConsecutive,
                           above |-> a.above + 1, below |-> 0]
    [] level = "below" -> [firing |-> a.firing /\ a.below + 1 < MinConsecutive,
                           above |-> 0, below |-> a.below + 1]
    [] level = "between" -> [firing |-> a.firing, above |-> 0, below |-> 0]
    [] OTHER -> a

\* The value is judged against what came before it, then added.
Observe(s, b, v) ==
  /\ alert' = [alert EXCEPT ![s] = Advance(@, LevelIn(s, b, v))]
  /\ ring' = [ring EXCEPT ![s][b] = Add(@, v)]
=============================================================================
