--------------------------- MODULE AlertingProofs ---------------------------
(***************************************************************************)
(* Proofs about Alerting and Detector: what the rings hold, when alerts    *)
(* flip, how far apart notifications are, and what the sinks believe.      *)
(***************************************************************************)
EXTENDS Alerting, TLAPS

-----------------------------------------------------------------------------
(* The inductive invariants.                                               *)

\* One ring, against the values that were observed.
RingInv(r, seen) ==
  /\ r.buf \in Seq(Observable) /\ seen \in Seq(Observable)
  /\ r.pos \in 0 .. WindowSize - 1 /\ r.full \in BOOLEAN
  /\ ~r.full => r.pos = Len(seen) /\ r.buf = seen
  /\ r.full =>
       /\ Len(r.buf) = WindowSize /\ Len(seen) >= WindowSize
       /\ \A j \in 1 .. r.pos : r.buf[j] = seen[Len(seen) - r.pos + j]
       /\ \A j \in r.pos + 1 .. WindowSize : r.buf[j] = seen[Len(seen) - r.pos + j - WindowSize]

ClockInv ==
  /\ tick \in 0 .. MaxTicks /\ now \in 0 .. tick /\ rule \in Rule

RingsInv ==
  /\ DOMAIN ring = Series /\ DOMAIN values = Series
  /\ \A s \in Series : DOMAIN ring[s] = Bucket /\ DOMAIN values[s] = Bucket
  /\ \A s \in Series, b \in Bucket : RingInv(ring[s][b], values[s][b])

\* The run counters count what they say: the latest levels on one side.
Side == {"above", "below", "between"}
AlertState == [firing : BOOLEAN, above : Nat, below : Nat]

RunInv(a, seq) ==
  /\ a \in AlertState /\ seq \in Seq(Side)
  /\ a.above <= Len(seq) /\ a.below <= Len(seq)
  /\ \A i \in Len(seq) - a.above + 1 .. Len(seq) : seq[i] = "above"
  /\ \A i \in Len(seq) - a.below + 1 .. Len(seq) : seq[i] = "below"

RunsInv ==
  /\ DOMAIN alert = Series /\ DOMAIN levels = Series
  /\ \A s \in Series : RunInv(alert[s], levels[s])

\* lastNotified is the latest time that the rule was notified about.
NotifiedInv ==
  /\ lastNotified \in [Rule -> {Never} \cup 0 .. now]
  /\ notified \in [Rule -> SUBSET (0 .. now)]
  /\ \A r \in Rule :
       IF notified[r] = {} THEN lastNotified[r] = Never
       ELSE lastNotified[r] \in notified[r] /\ \A t \in notified[r] : t <= lastNotified[r]
  /\ CooldownKept

\* The state of a rule is what it was last found to be, and that of an anomaly
\* rule is the state of its series.
RuleInv ==
  /\ firing \in [Rule -> BOOLEAN] /\ condition \in [Rule -> BOOLEAN]
  /\ DOMAIN missed = Rule
  /\ DOMAIN believes = Rule /\ \A r \in Rule : DOMAIN believes[r] = AllSinks
  /\ FiringIsTrue /\ SinksInformed

SeriesInv ==
  \A r \in Rule : SeriesOf[r] # NoSeries => firing[r] = alert[SeriesOf[r]].firing

AlertingInv == ClockInv /\ RingsInv /\ RunsInv /\ NotifiedInv

-----------------------------------------------------------------------------
(* The rings.                                                              *)

LEMMA NextPosition ==
  ASSUME NEW pos \in 0 .. WindowSize - 1
  PROVE  /\ pos + 1 < WindowSize => (pos + 1) % WindowSize = pos + 1
         /\ pos + 1 = WindowSize => (pos + 1) % WindowSize = 0
BY DetectorAssumption

LEMMA PartRing ==
  ASSUME NEW buf \in Seq(Observable), NEW pos \in 0 .. WindowSize - 1, pos = Len(buf)
  PROVE  RingInv([buf |-> buf, pos |-> pos, full |-> FALSE], buf)
<1> DEFINE r == [buf |-> buf, pos |-> pos, full |-> FALSE]
<1>1. r.buf = buf /\ r.pos = pos /\ r.full = FALSE
  OBVIOUS
<1> HIDE DEF r
<1>2. RingInv(r, buf)
  BY <1>1 DEF RingInv
<1> QED
  BY <1>2 DEF r

LEMMA FullRing ==
  ASSUME NEW buf \in Seq(Observable), NEW seen \in Seq(Observable),
         NEW pos \in 0 .. WindowSize - 1, NEW n, n = Len(seen),
         Len(buf) = WindowSize, n >= WindowSize,
         \A j \in 1 .. pos : buf[j] = seen[n - pos + j],
         \A j \in pos + 1 .. WindowSize : buf[j] = seen[n - pos + j - WindowSize]
  PROVE  RingInv([buf |-> buf, pos |-> pos, full |-> TRUE], seen)
<1> DEFINE r == [buf |-> buf, pos |-> pos, full |-> TRUE]
<1>1. r.buf = buf /\ r.pos = pos /\ r.full = TRUE
  OBVIOUS
<1> HIDE DEF r
<1>2. RingInv(r, seen)
  BY <1>1 DEF RingInv
<1> QED
  BY <1>2 DEF r

LEMMA AddKeepsRing ==
  ASSUME NEW r, NEW seen, RingInv(r, seen), NEW v \in Observable
  PROVE  RingInv(Add(r, v), Append(seen, v))
<1>0. PICK w, buf, pos, full, n :
        /\ w = WindowSize /\ buf = r.buf /\ pos = r.pos /\ full = r.full /\ n = Len(seen)
  OBVIOUS
<1>1. /\ w \in Nat /\ w >= 1 /\ n \in Nat /\ pos \in 0 .. w - 1 /\ full \in BOOLEAN
      /\ buf \in Seq(Observable) /\ seen \in Seq(Observable) /\ Len(buf) \in Nat
  BY <1>0, DetectorAssumption DEF RingInv
<1>2. PICK next, nbuf, nseen, nfull :
        /\ next = (pos + 1) % w
        /\ nbuf = (IF pos < Len(buf) THEN [buf EXCEPT ![pos + 1] = v] ELSE Append(buf, v))
        /\ nseen = Append(seen, v)
        /\ nfull = (full \/ next = 0)
  OBVIOUS
<1>3. Add(r, v) = [buf |-> nbuf, pos |-> next, full |-> nfull]
  BY <1>0, <1>2 DEF Add
<1>4. /\ pos + 1 < w => next = pos + 1
      /\ pos + 1 = w => next = 0
  BY <1>0, <1>1, <1>2, NextPosition
<1>5. pos + 1 < w \/ pos + 1 = w
  BY <1>1
<1>6. /\ nseen \in Seq(Observable) /\ Len(nseen) = n + 1 /\ nseen[n + 1] = v
      /\ \A i \in 1 .. n : nseen[i] = seen[i]
  BY <1>0, <1>1, <1>2
<1>7. CASE ~full
  <2>1. pos = n /\ buf = seen
    BY <1>0, <1>7 DEF RingInv
  <2>2. nbuf = nseen
    BY <1>0, <1>1, <1>2, <2>1
  <2>3. CASE pos + 1 < w
    <3>1. next = n + 1 /\ next \in 0 .. w - 1 /\ nfull = FALSE
      BY <1>1, <1>2, <1>4, <1>7, <2>1, <2>3
    <3>2. RingInv([buf |-> nbuf, pos |-> next, full |-> FALSE], nbuf)
      BY <1>0, <1>6, <2>1, <2>2, <3>1, PartRing
    <3> QED
      BY <1>2, <1>3, <2>2, <3>1, <3>2
  <2>4. CASE pos + 1 = w
    <3>1. next = 0 /\ n + 1 = w /\ 0 \in 0 .. w - 1
      BY <1>1, <1>4, <2>1, <2>4
    <3>2. /\ \A j \in 1 .. 0 : nbuf[j] = nseen[n + 1 - 0 + j]
          /\ \A j \in 0 + 1 .. w : nbuf[j] = nseen[n + 1 - 0 + j - w]
      BY <1>1, <2>2, <3>1
    <3>3. Len(nbuf) = w /\ Len(nseen) >= w /\ nbuf \in Seq(Observable)
      BY <1>6, <2>2, <3>1
    <3>4. nfull = TRUE
      BY <1>2, <3>1
    <3>5. RingInv([buf |-> nbuf, pos |-> next, full |-> TRUE], nseen)
      <4>1. PICK p, k : p = 0 /\ k = n + 1
        OBVIOUS
      <4>2. /\ \A j \in 1 .. p : nbuf[j] = nseen[k - p + j]
            /\ \A j \in p + 1 .. w : nbuf[j] = nseen[k - p + j - w]
        BY <3>2, <4>1
      <4>3. p \in 0 .. w - 1 /\ k = Len(nseen) /\ k >= w /\ p = next
        BY <1>6, <3>1, <3>3, <4>1
      <4>4. w = WindowSize /\ nbuf \in Seq(Observable) /\ nseen \in Seq(Observable) /\ Len(nbuf) = w
        BY <1>0, <1>6, <3>3
      <4>6. /\ \A j \in 1 .. p : nbuf[j] = nseen[k - p + j]
            /\ \A j \in p + 1 .. WindowSize : nbuf[j] = nseen[k - p + j - WindowSize]
        BY <4>2, <4>4
      <4>7. p \in 0 .. WindowSize - 1 /\ k = Len(nseen) /\ k >= WindowSize /\ Len(nbuf) = WindowSize
            /\ nbuf \in Seq(Observable) /\ nseen \in Seq(Observable)
        BY <4>3, <4>4
      <4>5. RingInv([buf |-> nbuf, pos |-> p, full |-> TRUE], nseen)
        BY <4>6, <4>7, FullRing
      <4> QED
        BY <4>3, <4>5
    <3> QED
      BY <1>2, <1>3, <3>4, <3>5
  <2> QED
    BY <1>5, <2>3, <2>4
<1>8. CASE full
  <2>1. /\ Len(buf) = w /\ n >= w
        /\ \A j \in 1 .. pos : buf[j] = seen[n - pos + j]
        /\ \A j \in pos + 1 .. w : buf[j] = seen[n - pos + j - w]
    BY <1>0, <1>8 DEF RingInv
  <2>2. nbuf = [buf EXCEPT ![pos + 1] = v]
    BY <1>1, <1>2, <2>1
  <2>3. /\ nbuf \in Seq(Observable) /\ Len(nbuf) = w /\ nbuf[pos + 1] = v
        /\ \A j \in 1 .. w : j # pos + 1 => nbuf[j] = buf[j]
    BY <1>1, <2>1, <2>2
  <2>4. \A j \in 1 .. pos : nbuf[j] = nseen[n - pos + j]
    BY <1>1, <1>6, <2>1, <2>3
  <2>5. \A j \in pos + 2 .. w : nbuf[j] = nseen[n - pos + j - w]
    BY <1>1, <1>6, <2>1, <2>3
  <2>6. next \in 0 .. w - 1
    BY <1>1, <1>4, <1>5
  <2>7. /\ \A j \in 1 .. next : nbuf[j] = nseen[n + 1 - next + j]
        /\ \A j \in next + 1 .. w : nbuf[j] = nseen[n + 1 - next + j - w]
    <3>1. CASE pos + 1 < w
      <4>1. next = pos + 1
        BY <1>4, <3>1
      <4> QED
        BY <1>1, <1>6, <2>3, <2>4, <2>5, <4>1
    <3>2. CASE pos + 1 = w
      <4>1. next = 0
        BY <1>4, <3>2
      <4>2. \A j \in 1 .. w : j # pos + 1 => nbuf[j] = nseen[n + 1 - w + j] /\ n + 1 - w + j \in 1 .. n
        <5>1. \A j \in 1 .. w : j # pos + 1 => j \in 1 .. pos /\ n - pos + j = n + 1 - w + j
          BY <1>1, <3>2
        <5>2. \A j \in 1 .. pos : n + 1 - w + j \in 1 .. n
          BY <1>1, <2>1, <3>2
        <5> QED
          BY <2>4, <5>1, <5>2
      <4>3. nbuf[w] = nseen[n + 1]
        <5>1. nbuf[w] = v /\ nseen[n + 1] = v
          BY <1>6, <2>3, <3>2
        <5> QED
          BY <5>1
      <4>4. \A j \in 1 .. w : nbuf[j] = nseen[n + 1 - w + j]
        <5>1. n + 1 - w + w = n + 1
          BY <1>1
        <5> QED
          BY <1>1, <3>2, <4>2, <4>3, <5>1
      <4>5. \A j \in 1 .. next : FALSE
        BY <4>1
      <4>6. \A j \in next + 1 .. w : j \in 1 .. w /\ n + 1 - next + j - w = n + 1 - w + j
        BY <1>1, <4>1
      <4> QED
        BY <4>4, <4>5, <4>6
    <3> QED
      BY <1>5, <3>1, <3>2
  <2>8. nfull = TRUE /\ n + 1 >= w
    <3>1. nfull = TRUE
      BY <1>1, <1>2, <1>8
    <3> QED
      BY <1>1, <2>1, <3>1
  <2>9. RingInv([buf |-> nbuf, pos |-> next, full |-> TRUE], nseen)
    <3>1. PICK m : m = n + 1 /\ m = Len(nseen) /\ m >= w
      BY <1>6, <2>8
    <3>2. /\ \A j \in 1 .. next : nbuf[j] = nseen[m - next + j]
          /\ \A j \in next + 1 .. w : nbuf[j] = nseen[m - next + j - w]
      BY <1>1, <2>6, <2>7, <3>1
    <3>3. /\ nbuf \in Seq(Observable) /\ nseen \in Seq(Observable) /\ next \in 0 .. WindowSize - 1
          /\ m = Len(nseen) /\ Len(nbuf) = WindowSize /\ m >= WindowSize
          /\ \A j \in 1 .. next : nbuf[j] = nseen[m - next + j]
          /\ \A j \in next + 1 .. WindowSize : nbuf[j] = nseen[m - next + j - WindowSize]
      BY <1>0, <1>6, <2>3, <2>6, <3>1, <3>2
    <3> QED
      BY <3>3, FullRing
  <2> QED
    BY <1>2, <1>3, <2>8, <2>9
<1> QED
  BY <1>1, <1>7, <1>8
LEMMA RingsAreLatest == RingsInv => RingHoldsLatest
<1> SUFFICES ASSUME RingsInv, NEW s \in Series, NEW b \in Bucket
             PROVE  LET seen == values[s][b]
                        pos == ring[s][b].pos
                        n == IF Len(seen) < WindowSize THEN Len(seen) ELSE WindowSize
                    IN  /\ Len(Sample(ring[s][b])) = n
                        /\ \A j \in 1 .. n :
                             Sample(ring[s][b])[j] =
                               seen[Len(seen) - pos + (IF j <= pos THEN j ELSE j - n)]
  BY DEF RingHoldsLatest
<1>0. PICK r, seen, pos, buf, k, w :
        /\ r = ring[s][b] /\ seen = values[s][b] /\ pos = r.pos /\ buf = r.buf
        /\ k = Len(seen) /\ w = WindowSize
  OBVIOUS
<1>1. RingInv(r, seen)
  BY <1>0 DEF RingsInv
<1>2. /\ buf \in Seq(Observable) /\ k \in Nat /\ w \in Nat /\ w >= 1 /\ pos \in 0 .. w - 1
      /\ r.full \in BOOLEAN
  BY <1>0, <1>1, DetectorAssumption DEF RingInv
<1>3. CASE ~r.full
  <2>1. pos = k /\ buf = seen /\ k < w
    BY <1>0, <1>1, <1>2, <1>3 DEF RingInv
  <2>2. Sample(r) = SubSeq(buf, 1, pos)
    BY <1>0, <1>3 DEF Sample
  <2>3. Len(Sample(r)) = k /\ \A j \in 1 .. k : Sample(r)[j] = seen[j]
    BY <1>0, <1>2, <2>1, <2>2
  <2>4. \A j \in 1 .. k : k - pos + j = j /\ j <= pos
    BY <1>2, <2>1
  <2> QED
    BY <1>0, <2>1, <2>3, <2>4
<1>4. CASE r.full
  <2>1. /\ Len(buf) = w /\ k >= w
        /\ \A j \in 1 .. pos : buf[j] = seen[k - pos + j]
        /\ \A j \in pos + 1 .. w : buf[j] = seen[k - pos + j - w]
    <3>1. /\ Len(r.buf) = WindowSize /\ Len(seen) >= WindowSize
          /\ \A j \in 1 .. r.pos : r.buf[j] = seen[Len(seen) - r.pos + j]
          /\ \A j \in r.pos + 1 .. WindowSize :
               r.buf[j] = seen[Len(seen) - r.pos + j - WindowSize]
      BY <1>1, <1>4 DEF RingInv
    <3> QED
      BY <1>0, <3>1
  <2>2. Sample(r) = SubSeq(buf, 1, w)
    BY <1>0, <1>4 DEF Sample
  <2>3. Len(Sample(r)) = w /\ \A j \in 1 .. w : Sample(r)[j] = buf[j]
    BY <1>2, <2>1, <2>2
  <2>4. \A j \in 1 .. w : Sample(r)[j] = seen[k - pos + (IF j <= pos THEN j ELSE j - w)]
    <3>1. \A j \in 1 .. w : ~(j <= pos) =>
            j \in pos + 1 .. w /\ k - pos + (j - w) = k - pos + j - w
      BY <1>2
    <3>2. \A j \in 1 .. w : ~(j <= pos) => Sample(r)[j] = seen[k - pos + (j - w)]
      <4>1. \A j \in pos + 1 .. w : buf[j] = seen[k - pos + j - w]
        BY <2>1, Zenon
      <4>2. \A j \in 1 .. w : Sample(r)[j] = buf[j]
        BY <2>3, Zenon
      <4>3. \A j \in 1 .. w : ~(j <= pos) => Sample(r)[j] = seen[k - pos + j - w]
        BY <3>1, <4>1, <4>2, Zenon
      <4> QED
        BY <3>1, <4>3, Zenon
    <3>3. \A j \in 1 .. w : j <= pos => Sample(r)[j] = seen[k - pos + j]
      <4>1. \A j \in 1 .. w : j <= pos => j \in 1 .. pos
        BY <1>2
      <4>2. \A j \in 1 .. w : j <= pos => Sample(r)[j] = buf[j] /\ buf[j] = seen[k - pos + j]
        BY <2>1, <2>3, <4>1, Zenon
      <4> QED
        BY <4>2, Zenon
    <3> QED
      BY <3>2, <3>3
  <2>5. ~(k < w)
    BY <1>2, <2>1
  <2> QED
    BY <1>0, <2>3, <2>4, <2>5
<1> QED
  BY <1>2, <1>3, <1>4

-----------------------------------------------------------------------------
(* The hysteresis.                                                         *)

LEMMA LevelValues ==
  ASSUME NEW s, NEW b, NEW v
  PROVE  LevelIn(s, b, v) \in Side \cup {"no_baseline"}
<1>1. \A sample : Level(sample, v) \in Side
  BY DEF Level, Side
<1> QED
  BY <1>1 DEF LevelIn

\* The state after a level, and what a flip takes.
LEMMA AdvanceCounts ==
  ASSUME NEW a, NEW seq, RunInv(a, seq), NEW level \in Side
  PROVE  /\ RunInv(Advance(a, level), Append(seq, level))
         /\ Advance(a, level).firing # a.firing =>
              /\ Len(seq) + 1 >= MinConsecutive
              /\ \A i \in Len(seq) + 2 - MinConsecutive .. Len(seq) + 1 :
                   Append(seq, level)[i] =
                     IF Advance(a, level).firing THEN "above" ELSE "below"
<1>0. PICK n, up, down, new, m :
        n = Len(seq) /\ up = a.above /\ down = a.below /\ new = Append(seq, level)
        /\ m = MinConsecutive
  OBVIOUS
<1>1. /\ n \in Nat /\ up \in 0 .. n /\ down \in 0 .. n /\ m \in Nat /\ m >= 1
      /\ a.firing \in BOOLEAN
      /\ \A i \in n - up + 1 .. n : seq[i] = "above"
      /\ \A i \in n - down + 1 .. n : seq[i] = "below"
  BY <1>0, DetectorAssumption DEF RunInv, AlertState
<1>2. /\ new \in Seq(Side) /\ Len(new) = n + 1 /\ new[n + 1] = level
      /\ \A i \in 1 .. n : new[i] = seq[i]
  BY <1>0 DEF RunInv
<1>3. CASE level = "above"
  <2>0. PICK f : f = (a.firing \/ up + 1 >= m)
    OBVIOUS
  <2>1. Advance(a, level) = [firing |-> f, above |-> up + 1, below |-> 0]
    BY <1>0, <1>3, <2>0 DEF Advance
  <2>2. f \in BOOLEAN /\ [firing |-> f, above |-> up + 1, below |-> 0] \in AlertState
    BY <1>1, <2>0 DEF AlertState
  <2>3. \A i \in n + 1 - (up + 1) + 1 .. n + 1 : new[i] = "above"
    BY <1>1, <1>2, <1>3
  <2>4. \A i \in n + 1 - 0 + 1 .. n + 1 : new[i] = "below"
    BY <1>1
  <2>5. RunInv([firing |-> f, above |-> up + 1, below |-> 0], new)
    BY <1>1, <1>2, <2>2, <2>3, <2>4 DEF RunInv
  <2>6. f # a.firing => f = TRUE /\ up + 1 >= m
    BY <1>1, <2>0
  <2>7. up + 1 >= m => n + 1 >= m /\ \A i \in n + 2 - m .. n + 1 : new[i] = "above"
    BY <1>1, <2>3
  <2>8. RunInv(Advance(a, level), new) /\ Advance(a, level).firing = f
    BY <2>1, <2>5
  <2> QED
    BY <1>0, <2>6, <2>7, <2>8
<1>4. CASE level = "below"
  <2>0. PICK f : f = (a.firing /\ down + 1 < m)
    OBVIOUS
  <2>1. Advance(a, level) = [firing |-> f, above |-> 0, below |-> down + 1]
    BY <1>0, <1>4, <2>0 DEF Advance
  <2>2. f \in BOOLEAN /\ [firing |-> f, above |-> 0, below |-> down + 1] \in AlertState
    BY <1>1, <2>0 DEF AlertState
  <2>3. \A i \in n + 1 - (down + 1) + 1 .. n + 1 : new[i] = "below"
    BY <1>1, <1>2, <1>4
  <2>4. \A i \in n + 1 - 0 + 1 .. n + 1 : new[i] = "above"
    BY <1>1
  <2>5. RunInv([firing |-> f, above |-> 0, below |-> down + 1], new)
    BY <1>1, <1>2, <2>2, <2>3, <2>4 DEF RunInv
  <2>6. f # a.firing => f = FALSE /\ down + 1 >= m
    <3>1. CASE down + 1 < m
      <4>1. CASE a.firing = TRUE
        <5>1. f = TRUE
          BY <2>0, <3>1, <4>1
        <5> QED
          BY <4>1, <5>1
      <4>2. CASE a.firing = FALSE
        <5>1. f = FALSE
          BY <2>0, <3>1, <4>2
        <5> QED
          BY <4>2, <5>1
      <4> QED
        BY <1>1, <4>1, <4>2
    <3>2. CASE ~(down + 1 < m)
      <4>1. f = FALSE
        BY <2>0, <3>2
      <4>2. down + 1 >= m
        BY <1>1, <3>2
      <4> QED
        BY <4>1, <4>2
    <3> QED
      BY <3>1, <3>2
  <2>7. down + 1 >= m => n + 1 >= m /\ \A i \in n + 2 - m .. n + 1 : new[i] = "below"
    BY <1>1, <2>3
  <2>8. RunInv(Advance(a, level), new) /\ Advance(a, level).firing = f
    BY <2>1, <2>5
  <2> QED
    BY <1>0, <2>6, <2>7, <2>8
<1>5. CASE level = "between"
  <2>1. Advance(a, level) = [firing |-> a.firing, above |-> 0, below |-> 0]
    BY <1>5 DEF Advance
  <2>2. [firing |-> a.firing, above |-> 0, below |-> 0] \in AlertState
    BY <1>1 DEF AlertState
  <2>3. \A i \in n + 1 - 0 + 1 .. n + 1 : FALSE
    BY <1>1
  <2>4. RunInv([firing |-> a.firing, above |-> 0, below |-> 0], new)
    BY <1>1, <1>2, <2>2, <2>3 DEF RunInv
  <2> QED
    BY <1>0, <2>1, <2>4
<1> QED
  BY <1>3, <1>4, <1>5 DEF Side
-----------------------------------------------------------------------------
(* Steps.                                                                  *)

LEMMA Ticks ==
  ASSUME ClockInv, [Next]_vars
  PROVE  /\ ClockInv' /\ now \in Nat /\ now' \in Nat /\ now <= now'
         /\ rule \in Rule
<1>0. PICK c, max : /\ c = Cardinality(Rule) /\ c \in Nat /\ c >= 1 /\ Rule = 1 .. c
                    /\ max = MaxTicks /\ max \in Nat
                    /\ tick \in 0 .. max /\ now \in 0 .. tick /\ rule \in 1 .. c
  BY AlertingAssumption DEF ClockInv
<1>1. CASE NextRule
  <2>1. rule' \in 1 .. c
    BY <1>0, <1>1 DEF NextRule
  <2>2. tick' \in 0 .. max /\ now' \in 0 .. tick' /\ now <= now'
    BY <1>0, <1>1 DEF NextRule
  <2>3. ClockInv'
    BY <1>0, <2>1, <2>2 DEF ClockInv
  <2>4. tick' \in Nat /\ now' \in Nat /\ now \in Nat
    BY <1>0, <2>2
  <2> QED
    BY <1>0, <2>2, <2>3, <2>4
<1>2. CASE UNCHANGED vars
  BY <1>0, <1>2 DEF ClockInv, vars
<1>3. Next => NextRule
  BY DEF Next, EvalThreshold, EvalAnomaly, FetchError
<1> QED
  BY <1>0, <1>1, <1>2, <1>3

\* What the evaluation of an anomaly rule does to the detector.
LEMMA Observed ==
  ASSUME RunsInv, RingsInv, ClockInv, NEW v \in Observable, EvalAnomaly(v),
         NEW s, s = SeriesOf[rule]
  PROVE  /\ s \in Series /\ RunsInv' /\ RingsInv'
         /\ \A q \in Series : q # s => alert'[q] = alert[q] /\ levels'[q] = levels[q]
         /\ alert'[s].firing # alert[s].firing =>
              /\ Len(levels'[s]) >= MinConsecutive
              /\ \A i \in Len(levels'[s]) + 1 - MinConsecutive .. Len(levels'[s]) :
                   levels'[s][i] = IF alert'[s].firing THEN "above" ELSE "below"
<1>0. PICK b, level : b = BucketAt[now] /\ level = LevelIn(s, b, v)
  OBVIOUS
<1>1. s \in Series /\ b \in Bucket
  <2>1. s # NoSeries
    BY DEF EvalAnomaly
  <2>2. rule \in Rule /\ now \in 0 .. MaxTicks
    BY AlertingAssumption DEF ClockInv
  <2> QED
    BY <1>0, <2>1, <2>2, AlertingAssumption
<1>2. /\ alert' = [alert EXCEPT ![s] = Advance(alert[s], level)]
      /\ ring' = [ring EXCEPT ![s][b] = Add(ring[s][b], v)]
      /\ levels' = [levels EXCEPT ![s] =
           IF level = "no_baseline" THEN levels[s] ELSE Append(levels[s], level)]
      /\ values' = [values EXCEPT ![s][b] = Append(values[s][b], v)]
  BY <1>0 DEF EvalAnomaly, Observe
<1>3. level \in Side \cup {"no_baseline"}
  BY <1>0, LevelValues
<1>4. /\ alert'[s] = Advance(alert[s], level)
      /\ levels'[s] = IF level = "no_baseline" THEN levels[s] ELSE Append(levels[s], level)
      /\ \A q \in Series : q # s => alert'[q] = alert[q] /\ levels'[q] = levels[q]
      /\ DOMAIN alert' = Series /\ DOMAIN levels' = Series
  BY <1>1, <1>2 DEF RunsInv
<1>5. RunInv(alert[s], levels[s])
  BY <1>1 DEF RunsInv
<1>6. RingsInv'
  <2>1. /\ DOMAIN ring' = Series /\ DOMAIN values' = Series
        /\ \A q \in Series : DOMAIN ring'[q] = Bucket /\ DOMAIN values'[q] = Bucket
    BY <1>1, <1>2 DEF RingsInv
  <2>2. /\ ring'[s][b] = Add(ring[s][b], v) /\ values'[s][b] = Append(values[s][b], v)
        /\ \A q \in Series, c \in Bucket : q # s \/ c # b =>
             ring'[q][c] = ring[q][c] /\ values'[q][c] = values[q][c]
    BY <1>1, <1>2 DEF RingsInv
  <2>3. RingInv(Add(ring[s][b], v), Append(values[s][b], v))
    BY <1>1, AddKeepsRing DEF RingsInv
  <2>4. ASSUME NEW q \in Series, NEW c \in Bucket PROVE RingInv(ring'[q][c], values'[q][c])
    <3>1. RingInv(ring[q][c], values[q][c])
      BY DEF RingsInv
    <3> QED
      BY <2>2, <2>3, <3>1
  <2> QED
    BY <2>1, <2>4 DEF RingsInv
<1>7. CASE level = "no_baseline"
  <2>1. alert'[s] = alert[s] /\ levels'[s] = levels[s]
    BY <1>4, <1>7 DEF Advance
  <2>2. RunsInv'
    BY <1>4, <2>1 DEF RunsInv
  <2> QED
    BY <1>1, <1>4, <1>6, <2>1, <2>2
<1>8. CASE level \in Side
  <2>1. alert'[s] = Advance(alert[s], level) /\ levels'[s] = Append(levels[s], level)
    BY <1>4, <1>8 DEF Side
  <2>2. RunInv(alert'[s], levels'[s])
    BY <1>5, <1>8, <2>1, AdvanceCounts
  <2>3. \A q \in Series : RunInv(alert'[q], levels'[q])
    BY <1>4, <2>2 DEF RunsInv
  <2>4. RunsInv'
    BY <1>4, <2>3 DEF RunsInv
  <2>5. ASSUME alert'[s].firing # alert[s].firing
        PROVE  /\ Len(levels'[s]) >= MinConsecutive
               /\ \A i \in Len(levels'[s]) + 1 - MinConsecutive .. Len(levels'[s]) :
                    levels'[s][i] = IF alert'[s].firing THEN "above" ELSE "below"
    <3>1. PICK n, m, a, seq :
            /\ n = Len(seq) /\ n \in Nat /\ Len(levels'[s]) = n + 1
            /\ m = MinConsecutive /\ m \in Nat /\ a = alert[s] /\ seq = levels[s]
      BY <1>5, <1>8, <2>1, DetectorAssumption DEF RunInv
    <3>2. /\ n + 1 >= m
          /\ \A i \in n + 2 - m .. n + 1 :
               Append(seq, level)[i] = IF Advance(a, level).firing THEN "above" ELSE "below"
      <4>1. RunInv(a, seq) /\ Advance(a, level).firing # a.firing
        BY <1>5, <2>1, <2>5, <3>1
      <4>2. /\ Len(seq) + 1 >= MinConsecutive
            /\ \A i \in Len(seq) + 2 - MinConsecutive .. Len(seq) + 1 :
                 Append(seq, level)[i] = IF Advance(a, level).firing THEN "above" ELSE "below"
        BY <1>8, <4>1, AdvanceCounts
      <4> QED
        BY <3>1, <4>2
    <3>3. n + 1 + 1 - m = n + 2 - m
      BY <3>1
    <3> QED
      BY <2>1, <3>1, <3>2, <3>3
  <2> QED
    BY <1>1, <1>4, <1>6, <2>4, <2>5
<1> QED
  BY <1>3, <1>7, <1>8

LEMMA DetectorSteps ==
  ASSUME ClockInv, RingsInv, RunsInv, [Next]_vars
  PROVE  /\ RingsInv' /\ RunsInv'
         /\ \A s \in Series : alert'[s].firing # alert[s].firing =>
              /\ Len(levels'[s]) >= MinConsecutive
              /\ \A i \in Len(levels'[s]) + 1 - MinConsecutive .. Len(levels'[s]) :
                   levels'[s][i] = IF alert'[s].firing THEN "above" ELSE "below"
<1>1. ASSUME NEW v \in Observable, EvalAnomaly(v)
      PROVE  /\ RingsInv' /\ RunsInv'
             /\ \A s \in Series : alert'[s].firing # alert[s].firing =>
                  /\ Len(levels'[s]) >= MinConsecutive
                  /\ \A i \in Len(levels'[s]) + 1 - MinConsecutive .. Len(levels'[s]) :
                       levels'[s][i] = IF alert'[s].firing THEN "above" ELSE "below"
  <2>1. PICK s : s = SeriesOf[rule]
    OBVIOUS
  <2> QED
    BY <1>1, <2>1, Observed
<1>2. CASE ~\E v \in Observable : EvalAnomaly(v)
  <2>1. UNCHANGED <<ring, alert, levels, values>>
    BY <1>2 DEF Next, EvalThreshold, FetchError, vars, detectorVars
  <2> QED
    BY <2>1 DEF RingsInv, RunsInv
<1> QED
  BY <1>1, <1>2

-----------------------------------------------------------------------------
(* Notifications.                                                          *)

\* Every evaluation leaves the other rules alone, and goes on to the next.
LEMMA OneNotified ==
  ASSUME NotifiedInv, now \in Nat, now' \in Nat, now <= now',
         NEW r \in Rule, NEW found, Transition(r, found)
  PROVE  NotifiedInv'
<1>0. PICK t : t = now
  OBVIOUS
<1>1. CASE UNCHANGED <<lastNotified, notified>>
  <2>1. 0 .. now \subseteq 0 .. now'
    OBVIOUS
  <2>2. /\ lastNotified' \in [Rule -> {Never} \cup 0 .. now']
        /\ notified' \in [Rule -> SUBSET (0 .. now')]
    BY <1>1, <2>1 DEF NotifiedInv
  <2> QED
    BY <1>1, <2>2 DEF NotifiedInv, CooldownKept
<1>2. ASSUME NEW failing, Notify(r, found, failing) PROVE NotifiedInv'
  <2>1. /\ lastNotified' = [lastNotified EXCEPT ![r] = now]
        /\ notified' = [notified EXCEPT ![r] = @ \cup {now}]
        /\ lastNotified[r] = Never \/ ~(now - lastNotified[r] < Cooldown)
    BY <1>2 DEF Notify, WithinCooldown
  <2>2. 0 .. now \subseteq 0 .. now' /\ now \in 0 .. now /\ Cooldown \in Nat
    BY AlertingAssumption
  <2>3. /\ lastNotified' \in [Rule -> {Never} \cup 0 .. now']
        /\ notified' \in [Rule -> SUBSET (0 .. now')]
        /\ lastNotified'[r] = now /\ notified'[r] = notified[r] \cup {now}
        /\ \A q \in Rule : q # r =>
             lastNotified'[q] = lastNotified[q] /\ notified'[q] = notified[q]
    BY <2>1, <2>2 DEF NotifiedInv
  <2>4. \A u \in notified[r] : u \in 0 .. now /\ now - u >= Cooldown
    <3> SUFFICES ASSUME NEW u \in notified[r] PROVE u \in 0 .. now /\ now - u >= Cooldown
      OBVIOUS
    <3>1. PICK l : l = lastNotified[r]
      OBVIOUS
    <3>2. notified[r] # {} /\ notified[r] \in SUBSET (0 .. now)
      BY DEF NotifiedInv
    <3>3. l \in 0 .. now /\ u <= l /\ u \in 0 .. now
      BY <3>1, <3>2 DEF NotifiedInv
    <3>4. l # Never
      BY <3>3 DEF Never
    <3> QED
      BY <2>1, <2>2, <3>1, <3>3, <3>4
  <2>5. \A q \in Rule : IF notified'[q] = {} THEN lastNotified'[q] = Never
                        ELSE lastNotified'[q] \in notified'[q]
                             /\ \A u \in notified'[q] : u <= lastNotified'[q]
    <3>1. ASSUME NEW q \in Rule, q # r
          PROVE  IF notified'[q] = {} THEN lastNotified'[q] = Never
                 ELSE lastNotified'[q] \in notified'[q]
                      /\ \A u \in notified'[q] : u <= lastNotified'[q]
      BY <2>3, <3>1 DEF NotifiedInv
    <3>2. /\ notified'[r] # {} /\ lastNotified'[r] \in notified'[r]
          /\ \A u \in notified'[r] : u <= lastNotified'[r]
      BY <2>3, <2>4
    <3> QED
      BY <3>1, <3>2
  <2>6. CooldownKept'
    <3>1. ASSUME NEW u \in notified'[r], NEW w \in notified'[r], u < w
          PROVE  w - u >= Cooldown
      <4>1. u = now \/ u \in notified[r]
        BY <2>3
      <4>2. w = now \/ w \in notified[r]
        BY <2>3
      <4>3. u # now
        BY <2>4, <3>1, <4>2
      <4>4. CASE w = now
        BY <2>4, <4>1, <4>3, <4>4
      <4>5. CASE w \in notified[r]
        BY <3>1, <4>1, <4>3, <4>5 DEF NotifiedInv, CooldownKept
      <4> QED
        BY <4>2, <4>4, <4>5
    <3>2. ASSUME NEW q \in Rule, q # r, NEW u \in notified'[q], NEW w \in notified'[q], u < w
          PROVE  w - u >= Cooldown
      BY <2>3, <3>2 DEF NotifiedInv, CooldownKept
    <3> QED
      BY <3>1, <3>2 DEF CooldownKept
  <2> QED
    BY <2>3, <2>5, <2>6 DEF NotifiedInv
<1> QED
  BY <1>1, <1>2 DEF Transition, Mute, stateVars

LEMMA NotifiedSteps ==
  ASSUME ClockInv, NotifiedInv, [Next]_vars
  PROVE  NotifiedInv'
<1>1. /\ now \in Nat /\ now' \in Nat /\ now <= now'
      /\ rule \in Rule
  BY Ticks
<1>2. CASE UNCHANGED <<lastNotified, notified>>
  <2>1. 0 .. now \subseteq 0 .. now'
    BY <1>1
  <2>2. /\ lastNotified' \in [Rule -> {Never} \cup 0 .. now']
        /\ notified' \in [Rule -> SUBSET (0 .. now')]
    BY <1>2, <2>1 DEF NotifiedInv
  <2> QED
    BY <1>2, <2>2 DEF NotifiedInv, CooldownKept
<1>3. ASSUME Next, NEW found, Transition(rule, found) PROVE NotifiedInv'
  BY <1>1, <1>3, OneNotified
<1> QED
  BY <1>2, <1>3 DEF Next, EvalThreshold, EvalAnomaly, FetchError, vars, stateVars
-----------------------------------------------------------------------------
(* What the sinks believe.                                                 *)

LEMMA OneTransition ==
  ASSUME RuleInv, NEW r \in Rule, NEW found \in BOOLEAN, Transition(r, found),
         condition' = [condition EXCEPT ![r] = found]
  PROVE  RuleInv' /\ firing' = [firing EXCEPT ![r] = found]
<1>0. /\ condition' \in [Rule -> BOOLEAN] /\ condition'[r] = found
      /\ \A q \in Rule : q # r => condition'[q] = condition[q]
      /\ SinksOf(r) \subseteq AllSinks
  BY DEF RuleInv, SinksOf, AllSinks
<1>1. CASE found = firing[r] /\ UNCHANGED <<stateVars, sinkVars>>
  <2>1. condition' = condition /\ UNCHANGED <<firing, muted, believes, missed>>
    BY <1>1 DEF RuleInv, FiringIsTrue, stateVars, sinkVars
  <2>2. firing' = [firing EXCEPT ![r] = found]
    BY <1>1, <2>1 DEF RuleInv
  <2>3. FiringIsTrue' /\ SinksInformed'
    BY <2>1 DEF RuleInv, FiringIsTrue, SinksInformed
  <2> QED
    BY <2>1, <2>2, <2>3 DEF RuleInv
<1>2. CASE Mute(r, found)
  <2>1. /\ firing' = [firing EXCEPT ![r] = found] /\ muted' = muted \cup {r}
        /\ UNCHANGED <<believes, missed>>
    BY <1>2 DEF Mute, sinkVars
  <2>2. FiringIsTrue'
    BY <1>0, <2>1 DEF RuleInv, FiringIsTrue
  <2>3. SinksInformed'
    BY <1>0, <2>1 DEF RuleInv, SinksInformed
  <2>4. firing' \in [Rule -> BOOLEAN]
    BY <2>1 DEF RuleInv
  <2> QED
    BY <1>0, <2>1, <2>2, <2>3, <2>4 DEF RuleInv
<1>3. ASSUME NEW failing, Notify(r, found, failing)
      PROVE  RuleInv' /\ firing' = [firing EXCEPT ![r] = found]
  <2>1. /\ firing' = [firing EXCEPT ![r] = found] /\ muted' = muted \ {r}
        /\ believes' = [believes EXCEPT ![r] =
             [k \in AllSinks |-> IF k \in Received(r, failing) THEN found ELSE believes[r][k]]]
        /\ missed' = [missed EXCEPT ![r] = failing]
    BY <1>3 DEF Notify
  <2>2. /\ DOMAIN believes' = Rule /\ \A q \in Rule : DOMAIN believes'[q] = AllSinks
        /\ DOMAIN missed' = Rule /\ missed'[r] = failing
        /\ \A k \in SinksOf(r) : k \notin failing => believes'[r][k] = found
        /\ \A q \in Rule : q # r => believes'[q] = believes[q] /\ missed'[q] = missed[q]
    BY <1>0, <2>1 DEF RuleInv, Received
  <2>3. FiringIsTrue'
    BY <1>0, <2>1 DEF RuleInv, FiringIsTrue
  <2>4. SinksInformed'
    <3>1. ASSUME NEW q \in Rule, NEW k \in SinksOf(q)
          PROVE  believes'[q][k] = condition'[q] \/ q \in muted' \/ k \in missed'[q]
      <4>1. CASE q = r
        BY <1>0, <2>2, <4>1
      <4>2. CASE q # r
        BY <1>0, <2>1, <2>2, <4>2 DEF RuleInv, SinksInformed
      <4> QED
        BY <4>1, <4>2
    <3> QED
      BY <3>1 DEF SinksInformed, SinksOf
  <2>5. firing' \in [Rule -> BOOLEAN]
    BY <2>1 DEF RuleInv
  <2> QED
    BY <1>0, <2>1, <2>2, <2>3, <2>4, <2>5 DEF RuleInv
<1> QED
  BY <1>1, <1>2, <1>3 DEF Transition

LEMMA CompareDecides ==
  ASSUME NEW x, NEW t, NEW op \in {">", ">=", "<", "<="}
  PROVE  Compare(x, op, t) \in BOOLEAN
<1>1. CASE op = ">"
  <2>1. Compare(x, ">", t) = TRUE \/ Compare(x, ">", t) = FALSE
    BY DEF Compare
  <2> QED
    BY <1>1, <2>1
<1>2. CASE op = ">="
  <2>1. Compare(x, ">=", t) = TRUE \/ Compare(x, ">=", t) = FALSE
    BY DEF Compare
  <2> QED
    BY <1>2, <2>1
<1>3. CASE op = "<"
  <2>1. Compare(x, "<", t) = TRUE \/ Compare(x, "<", t) = FALSE
    BY DEF Compare
  <2> QED
    BY <1>3, <2>1
<1>4. CASE op = "<="
  <2>1. Compare(x, "<=", t) = TRUE \/ Compare(x, "<=", t) = FALSE
    BY DEF Compare
  <2> QED
    BY <1>4, <2>1
<1> QED
  BY <1>1, <1>2, <1>3, <1>4

LEMMA RuleSteps ==
  ASSUME OneRulePerSeries, ClockInv, RingsInv, RunsInv, RuleInv, SeriesInv, [Next]_vars
  PROVE  RuleInv' /\ SeriesInv'
<1>0. rule \in Rule
  BY Ticks
<1>1. ASSUME NEW v \in Observable, EvalThreshold(v) PROVE RuleInv' /\ SeriesInv'
  <2>1. PICK found : found = Compare(v, Op[rule], Threshold[rule])
    OBVIOUS
  <2>2. /\ SeriesOf[rule] = NoSeries /\ UNCHANGED alert
        /\ condition' = [condition EXCEPT ![rule] = found] /\ Transition(rule, found)
    BY <1>1, <2>1 DEF EvalThreshold, detectorVars
  <2>3. found \in BOOLEAN
    <3>1. Op[rule] \in {">", ">=", "<", "<="}
      BY <1>0, <2>2, AlertingAssumption DEF ValidRule
    <3> QED
      BY <2>1, <3>1, CompareDecides
  <2>4. RuleInv' /\ firing' = [firing EXCEPT ![rule] = found]
    BY <1>0, <2>2, <2>3, OneTransition
  <2>5. \A q \in Rule : q # rule => firing'[q] = firing[q]
    BY <2>4 DEF RuleInv
  <2> QED
    BY <2>2, <2>4, <2>5 DEF SeriesInv
<1>2. ASSUME NEW v \in Observable, EvalAnomaly(v) PROVE RuleInv' /\ SeriesInv'
  <2>1. PICK s, found : s = SeriesOf[rule] /\ found = alert'[s].firing
    OBVIOUS
  <2>2. /\ s \in Series /\ RunsInv'
        /\ \A q \in Series : q # s => alert'[q] = alert[q]
    BY <1>2, <2>1, Observed
  <2>3. /\ s # NoSeries
        /\ condition' = [condition EXCEPT ![rule] = found]
        /\ IF found = alert[s].firing THEN UNCHANGED <<stateVars, sinkVars, failures, notified>>
           ELSE Transition(rule, found)
    BY <1>2, <2>1 DEF EvalAnomaly
  <2>4. firing[rule] = alert[s].firing
    BY <1>0, <2>1, <2>3 DEF SeriesInv
  <2>5. Transition(rule, found)
    BY <2>3, <2>4 DEF Transition
  <2>6. found \in BOOLEAN
    BY <2>1, <2>2 DEF RunsInv, RunInv, AlertState
  <2>7. RuleInv' /\ firing' = [firing EXCEPT ![rule] = found]
    BY <1>0, <2>3, <2>5, <2>6, OneTransition
  <2>8. /\ firing'[rule] = found
        /\ \A q \in Rule : q # rule => firing'[q] = firing[q]
    BY <1>0, <2>7 DEF RuleInv
  <2>9. ASSUME NEW q \in Rule, q # rule, SeriesOf[q] # NoSeries
        PROVE  firing'[q] = alert'[SeriesOf[q]].firing
    <3>1. SeriesOf[q] # s /\ SeriesOf[q] \in Series
      BY <1>0, <2>1, <2>9, AlertingAssumption DEF OneRulePerSeries
    <3> QED
      BY <2>2, <2>8, <2>9, <3>1 DEF SeriesInv
  <2> QED
    BY <2>1, <2>7, <2>8, <2>9 DEF SeriesInv
<1>3. CASE FetchError \/ UNCHANGED vars
  <2>1. UNCHANGED <<firing, condition, muted, believes, missed, alert>>
    BY <1>3 DEF FetchError, vars, stateVars, sinkVars, detectorVars
  <2>2. FiringIsTrue' /\ SinksInformed'
    BY <2>1 DEF RuleInv, FiringIsTrue, SinksInformed
  <2> QED
    BY <2>1, <2>2 DEF RuleInv, SeriesInv
<1> QED
  BY <1>1, <1>2, <1>3 DEF Next

-----------------------------------------------------------------------------
(* The theorems.                                                           *)

LEMMA AlertingInit == Init => AlertingInv /\ RuleInv /\ SeriesInv
<1> SUFFICES ASSUME Init PROVE AlertingInv /\ RuleInv /\ SeriesInv
  OBVIOUS
<1>1. ClockInv
  BY AlertingAssumption DEF Init, ClockInv
<1>2. RingsInv
  <2>1. RingInv([buf |-> <<>>, pos |-> 0, full |-> FALSE], <<>>)
    <3>1. <<>> \in Seq(Observable) /\ Len(<<>>) = 0 /\ 0 \in 0 .. WindowSize - 1
      BY DetectorAssumption
    <3> QED
      BY <3>1, PartRing
  <2> QED
    BY <2>1 DEF Init, DetectorInit, RingsInv
<1>3. RunsInv
  <2>1. RunInv([firing |-> FALSE, above |-> 0, below |-> 0], <<>>)
    BY DEF RunInv, AlertState
  <2> QED
    BY <2>1 DEF Init, DetectorInit, RunsInv
<1>4. NotifiedInv
  <2>1. lastNotified \in [Rule -> {Never} \cup 0 .. now] /\ notified \in [Rule -> SUBSET (0 .. now)]
    BY DEF Init
  <2> QED
    BY <2>1 DEF Init, NotifiedInv, CooldownKept
<1>5. RuleInv
  <2>1. \A r \in Rule : SinksOf(r) \subseteq AllSinks
    BY DEF SinksOf, AllSinks
  <2> QED
    BY <2>1 DEF Init, RuleInv, FiringIsTrue, SinksInformed
<1>6. SeriesInv
  BY AlertingAssumption DEF Init, DetectorInit, SeriesInv
<1> QED
  BY <1>1, <1>2, <1>3, <1>4, <1>5, <1>6 DEF AlertingInv

\* Everything that does not depend on which rules watch which series.
THEOREM AlertingInvariant == Spec => []AlertingInv
<1>1. Init => AlertingInv
  BY AlertingInit
<1>2. AlertingInv /\ [Next]_vars => AlertingInv'
  BY Ticks, DetectorSteps, NotifiedSteps DEF AlertingInv
<1> QED
  BY <1>1, <1>2, PTL DEF Spec

\* The baseline ring (ringWindow.add, internal/anomaly/detector.go) holds the
\* latest values of its series and bucket, each in its place, however often it
\* has wrapped around and whatever the size of the window.
THEOREM RingsHoldTheLatest == Spec => []RingHoldsLatest
<1>1. AlertingInv => RingHoldsLatest
  BY RingsAreLatest DEF AlertingInv
<1> QED
  BY <1>1, AlertingInvariant, PTL

\* Observe (internal/anomaly/detector.go) flips the state of a series only at the
\* end of MinConsecutive observations in a row on the new side, for any number of
\* series, any thresholds and any baselines.
THEOREM FlipsTakeARun == Spec => FlipsNeedARun
<1>1. AlertingInv /\ [Next]_vars =>
        [\A s \in Series : alert'[s].firing # alert[s].firing =>
           /\ Len(levels'[s]) >= MinConsecutive
           /\ \A i \in 1 .. MinConsecutive :
                Last(levels'[s], MinConsecutive)[i] =
                  IF alert'[s].firing THEN "above" ELSE "below"]_vars
  <2> SUFFICES ASSUME AlertingInv, [Next]_vars, NEW s \in Series,
                      alert'[s].firing # alert[s].firing
               PROVE  /\ Len(levels'[s]) >= MinConsecutive
                      /\ \A i \in 1 .. MinConsecutive :
                           Last(levels'[s], MinConsecutive)[i] =
                             IF alert'[s].firing THEN "above" ELSE "below"
    OBVIOUS
  <2>1. RunsInv' /\ Len(levels'[s]) >= MinConsecutive
        /\ \A i \in Len(levels'[s]) + 1 - MinConsecutive .. Len(levels'[s]) :
             levels'[s][i] = IF alert'[s].firing THEN "above" ELSE "below"
    BY DetectorSteps DEF AlertingInv
  <2>2. PICK seq, n, m : /\ seq = levels'[s] /\ n = Len(seq) /\ n \in Nat
                         /\ m = MinConsecutive /\ m \in Nat /\ seq \in Seq(Side)
    BY <2>1, DetectorAssumption DEF RunsInv, RunInv
  <2>3. \A i \in 1 .. m : Last(seq, m)[i] = seq[n - m + i]
    BY <2>1, <2>2 DEF Last
  <2>4. \A i \in 1 .. m : n - m + i \in n + 1 - m .. n
    BY <2>1, <2>2
  <2> QED
    BY <2>1, <2>2, <2>3, <2>4
<1> QED
  BY <1>1, AlertingInvariant, PTL DEF Spec, FlipsNeedARun

\* Two notifications about a rule are its cooldown apart (transition,
\* internal/alerting/evaluator.go), for any number of rules and sinks that fail,
\* also when a cooldown mutes transitions in between and when a tick finds a
\* rollup bucket that an earlier one has seen.
THEOREM NotificationsKeepDistance == Spec => []CooldownKept
<1>1. AlertingInv => CooldownKept
  BY DEF AlertingInv, NotifiedInv
<1> QED
  BY <1>1, AlertingInvariant, PTL

\* A sink knows the condition of a rule, unless the cooldown or this sink's own
\* failure kept the last transition from it (transition and MultiSink.Notify,
\* internal/alerting).  Two anomaly rules must not watch one series: the detector
\* reports a flip of it to whichever rule is evaluated first, and to it alone.
THEOREM SinksAreInformed == OneRulePerSeries => (Spec => []SinksInformed)
<1> SUFFICES ASSUME OneRulePerSeries PROVE Spec => []SinksInformed
  OBVIOUS
<1> DEFINE Inv == AlertingInv /\ RuleInv /\ SeriesInv
<1>1. Init => Inv
  BY AlertingInit
<1>2. Inv /\ [Next]_vars => Inv'
  BY Ticks, DetectorSteps, NotifiedSteps, RuleSteps DEF AlertingInv
<1>3. Inv => SinksInformed
  BY DEF RuleInv
<1> QED
  BY <1>1, <1>2, <1>3, PTL DEF Spec
=============================================================================
