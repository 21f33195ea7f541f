--------------------------- MODULE SamplingProofs ---------------------------
(***************************************************************************)
(* Proofs about Sampling: a limiter admits within its rate, the guard      *)
(* stores within its budget, and what a chain keeps for sure is kept.      *)
(***************************************************************************)
EXTENDS Sampling, FiniteSetTheorems, SequenceTheorems, WellFoundedInduction, TLAPS

-----------------------------------------------------------------------------
(* Maps that grow, and maps that are bounded.                              *)

Partial(S, T) == UNION {[D -> T] : D \in SUBSET S}

LEMMA PartialMaps ==
  ASSUME NEW S, NEW T, NEW f
  PROVE  f \in Partial(S, T) <=> DOMAIN f \subseteq S /\ f \in [DOMAIN f -> T]
BY DEF Partial

LEMMA PrefixProperties ==
  ASSUME NEW S, NEW s \in Seq(S), NEW n \in 1 .. Len(s)
  PROVE  /\ SubSeq(s, 1, n) \in Seq(S) /\ Len(SubSeq(s, 1, n)) = n
         /\ \A j \in 1 .. n : SubSeq(s, 1, n)[j] = s[j]
<1>1. n \in Int /\ 1 \in Int /\ 1 <= n /\ n - 1 + 1 = n
  OBVIOUS
<1>2. ASSUME NEW j \in 1 .. n PROVE s[j] \in S
  <2>1. j \in 1 .. Len(s)
    OBVIOUS
  <2> QED
    BY <2>1, ElementOfSeq
<1>3. PICK t : t = SubSeq(s, 1, n)
  OBVIOUS
<1>4. /\ t \in Seq(S) /\ Len(t) = IF 1 <= n THEN n - 1 + 1 ELSE 0
      /\ \A j \in 1 .. n - 1 + 1 : t[j] = s[1 + j - 1]
  BY <1>1, <1>2, <1>3, SubSeqProperties
<1>5. \A j \in 1 .. n : t[j] = s[j]
  <2>1. \A j \in 1 .. n : j \in 1 .. n - 1 + 1 /\ 1 + j - 1 = j
    BY <1>1
  <2> QED
    BY <1>4, <2>1
<1> QED
  BY <1>1, <1>3, <1>4, <1>5

LEMMA PutInMap ==
  ASSUME NEW S, NEW T, NEW f \in Partial(S, T), NEW x \in S, NEW y \in T
  PROVE  /\ Put(f, x, y) \in Partial(S, T)
         /\ DOMAIN Put(f, x, y) = DOMAIN f \cup {x}
         /\ Put(f, x, y)[x] = y
         /\ \A z \in DOMAIN f : z # x => Put(f, x, y)[z] = f[z]
BY PartialMaps DEF Put

LEMMA EmptyMap ==
  ASSUME NEW S, NEW T
  PROVE  <<>> \in Partial(S, T) /\ DOMAIN <<>> = {}
<1>1. DOMAIN <<>> = {}
  OBVIOUS
<1>2. <<>> \in [{} -> T]
  OBVIOUS
<1> QED
  BY <1>1, <1>2, PartialMaps

\* Making room takes entries away and changes none; it leaves the map alone as
\* long as it is below its cap.
LEMMA RoomInMap ==
  ASSUME NEW S, NEW T, NEW f \in Partial(S, T), NEW k, NEW cap
  PROVE  /\ WithRoom(f, k, cap) \in Partial(S, T)
         /\ DOMAIN WithRoom(f, k, cap) \subseteq DOMAIN f
         /\ \A z \in DOMAIN WithRoom(f, k, cap) : WithRoom(f, k, cap)[z] = f[z]
         /\ k \in DOMAIN f \/ Cardinality(DOMAIN f) < cap => WithRoom(f, k, cap) = f
<1> DEFINE Left == {j \in DOMAIN f : \E i \in DOMAIN f : f[i].gen < f[j].gen}
<1>1. f \in [DOMAIN f -> T] /\ DOMAIN f \subseteq S
  BY PartialMaps
<1>2. /\ EvictOldest(f) \in [Left -> T]
      /\ \A z \in Left : EvictOldest(f)[z] = f[z]
  BY <1>1 DEF EvictOldest
<1>3. EvictOldest(f) \in Partial(S, T)
  BY <1>1, <1>2, PartialMaps
<1> QED
  BY <1>1, <1>2, <1>3 DEF WithRoom

-----------------------------------------------------------------------------
(* The rate limiter.                                                       *)

Bucket == [tokens : Nat, filled : Nat, gen : Nat, passed : Seq(Nat)]

\* The tokens left and the traces let through since any of them are no more
\* than one bucket and what the rate gave since.
Balanced(b, perSec) ==
  /\ b.tokens <= perSec
  /\ \A m \in DOMAIN b.passed :
       /\ b.passed[m] <= b.filled
       /\ b.tokens + (Len(b.passed) - m + 1) <= perSec * (1 + b.filled - b.passed[m])
  /\ PassedWithinRate(b.passed, perSec)

LEMMA Distributes ==
  ASSUME NEW a \in Int, NEW b \in Int, NEW c \in Int
  PROVE  a * (b + c) = a * b + a * c
OBVIOUS

\* Filling up a bucket takes nothing from what it may still let pass.
LEMMA RefillBalanced ==
  ASSUME NEW perSec \in Nat, NEW t \in Nat, NEW b \in Bucket, b.filled <= t, Balanced(b, perSec)
  PROVE  /\ Refill(b, t, perSec) \in Bucket
         /\ Refill(b, t, perSec).filled = t
         /\ Balanced(Refill(b, t, perSec), perSec)
<1> DEFINE r == Refill(b, t, perSec)
<1>1. PICK idle, gained : idle \in Nat /\ idle = t - b.filled /\ gained = idle * perSec
  BY DEF Bucket
<1>2. gained \in Nat
  BY <1>1
<1>3. PICK tokens \in Nat : tokens = IF b.tokens + gained > perSec THEN perSec ELSE b.tokens + gained
  BY <1>2 DEF Bucket
<1>a. tokens <= perSec /\ tokens <= b.tokens + gained
  BY <1>2, <1>3 DEF Bucket
<1>b. r = [b EXCEPT !.tokens = tokens, !.filled = t]
  BY <1>1, <1>3 DEF Refill
<1>4. /\ r.tokens = tokens /\ r.filled = t /\ r.passed = b.passed
      /\ r \in Bucket
  BY <1>b DEF Bucket
<1>5. ASSUME NEW m \in DOMAIN b.passed
      PROVE  /\ b.passed[m] <= t
             /\ tokens + (Len(b.passed) - m + 1) <= perSec * (1 + t - b.passed[m])
  <2>1. m \in Nat /\ b.passed[m] \in Nat /\ Len(b.passed) \in Nat /\ b.filled \in Nat
    BY DEF Bucket
  <2>2. PICK p \in Nat, n \in Nat, f \in Nat : p = b.passed[m] /\ n = Len(b.passed) /\ f = b.filled
    BY <2>1
  <2>3. b.tokens \in Nat /\ p <= f /\ b.tokens + (n - m + 1) <= perSec * (1 + f - p)
    BY <2>2 DEF Balanced, Bucket
  <2>4. idle = t - f /\ f <= t
    BY <1>1, <2>2
  <2>5. PICK x \in Int, y \in Int : x = perSec * (1 + t - p) /\ y = perSec * (1 + f - p)
    OBVIOUS
  <2>6. x = y + gained
    <3>1. perSec * ((1 + f - p) + idle) = perSec * (1 + f - p) + perSec * idle
      BY <1>1, Distributes
    <3>2. (1 + f - p) + idle = 1 + t - p
      BY <2>4
    <3> QED
      BY <1>1, <2>5, <3>1, <3>2
  <2>7. tokens + (n - m + 1) <= y + gained
    BY <1>2, <1>a, <2>1, <2>3, <2>5
  <2>8. p <= t
    BY <2>3, <2>4
  <2>9. tokens + (n - m + 1) <= perSec * (1 + t - p)
    BY <2>5, <2>6, <2>7
  <2> QED
    BY <2>2, <2>8, <2>9
<1> QED
  BY <1>a, <1>4, <1>5 DEF Balanced

\* Nor does a token that is drawn: it is paid for with one of those left.
LEMMA DrawBalanced ==
  ASSUME NEW perSec \in Nat, NEW t \in Nat, NEW b \in Bucket, b.filled = t, Balanced(b, perSec)
  PROVE  /\ Draw(b, t) \in Bucket
         /\ Draw(b, t).filled = t
         /\ Balanced(Draw(b, t), perSec)
<1>1. CASE ~HasToken(b)
  BY <1>1 DEF Draw
<1>2. CASE HasToken(b)
  <2> DEFINE e == Draw(b, t)
  <2>a. b.tokens - 1 \in Nat /\ b.passed \in Seq(Nat)
    BY <1>2 DEF HasToken, Bucket
  <2>b. Append(b.passed, t) \in Seq(Nat)
    BY <2>a
  <2>1. PICK tokens \in Nat, p \in Seq(Nat) : tokens = b.tokens - 1 /\ p = Append(b.passed, t)
    BY <2>a, <2>b
  <2>2. e = [b EXCEPT !.tokens = tokens, !.passed = p]
    BY <1>2, <2>1 DEF Draw
  <2>3. e \in Bucket /\ e.tokens = tokens /\ e.filled = t /\ e.passed = p
    BY <2>2 DEF Bucket
  <2>4. PICK n \in Nat : n = Len(b.passed)
    BY DEF Bucket
  <2>5. /\ Len(p) = n + 1 /\ DOMAIN p = 1 .. n + 1 /\ DOMAIN b.passed = 1 .. n
        /\ p[n + 1] = t /\ \A m \in 1 .. n : p[m] = b.passed[m]
    BY <2>1, <2>4 DEF Bucket
  <2>6. tokens < perSec /\ b.tokens = tokens + 1
    BY <2>1 DEF Balanced, Bucket
  <2>7. \A m \in 1 .. n : /\ p[m] \in Nat /\ p[m] <= t
                          /\ b.tokens + (n - m + 1) <= perSec * (1 + t - p[m])
    <3> TAKE m \in 1 .. n
    <3>1. m \in DOMAIN b.passed /\ p[m] = b.passed[m] /\ b.passed[m] \in Nat
      <4>1. b.passed \in Seq(Nat)
        BY DEF Bucket
      <4>2. m \in DOMAIN b.passed /\ p[m] = b.passed[m]
        BY <2>5
      <4> QED
        BY <4>1, <4>2
    <3> QED
      BY <2>4, <3>1 DEF Balanced
  <2>8. \A m \in 1 .. n + 1 : /\ p[m] \in Nat /\ p[m] <= t
                              /\ tokens + (n + 1 - m + 1) <= perSec * (1 + t - p[m])
    <3> TAKE m \in 1 .. n + 1
    <3>1. CASE m = n + 1
      <4>1. perSec * (1 + t - p[m]) = perSec
        BY <2>5, <3>1
      <4>2. p[m] = t /\ tokens + (n + 1 - m + 1) = tokens + 1
        BY <2>5, <3>1
      <4> QED
        BY <2>6, <4>1, <4>2
    <3>2. CASE m \in 1 .. n
      <4>1. PICK x : x = perSec * (1 + t - p[m])
        OBVIOUS
      <4>2. x \in Int
        BY <2>7, <3>2, <4>1
      <4>3. tokens + (n + 1 - m + 1) = b.tokens + (n - m + 1)
        BY <2>6
      <4> QED
        BY <2>7, <3>2, <4>1, <4>3
    <3> QED
      BY <3>1, <3>2
  <2>9. PassedWithinRate(p, perSec)
    <3> SUFFICES ASSUME NEW m \in 1 .. n + 1, NEW k \in 1 .. n + 1, m <= k
                 PROVE  k - m + 1 <= perSec * (1 + p[k] - p[m])
      BY <2>5 DEF PassedWithinRate
    <3>1. CASE k = n + 1
      <4>1. PICK x : x = perSec * (1 + t - p[m])
        OBVIOUS
      <4>2. x \in Int /\ tokens + (n + 1 - m + 1) <= x
        BY <2>8, <4>1
      <4>3. perSec * (1 + p[k] - p[m]) = x
        BY <2>5, <3>1, <4>1
      <4>4. tokens \in Nat /\ n \in Nat /\ m \in Nat /\ k = n + 1
        BY <2>6, <3>1
      <4>5. k - m + 1 <= x
        BY <4>2, <4>4
      <4> QED
        BY <4>3, <4>5
    <3>2. CASE k \in 1 .. n
      <4>1. m \in 1 .. n /\ p[m] = b.passed[m] /\ p[k] = b.passed[k]
        <5>1. m \in 1 .. n
          BY <3>2
        <5> QED
          BY <2>5, <3>2, <5>1
      <4> QED
        BY <2>5, <3>2, <4>1 DEF Balanced, PassedWithinRate
    <3> QED
      BY <3>1, <3>2
  <2>10. Balanced(e, perSec)
    <3> SUFFICES ASSUME NEW m \in DOMAIN p
                 PROVE  p[m] <= t /\ tokens + (Len(p) - m + 1) <= perSec * (1 + t - p[m])
      BY <2>3, <2>6, <2>9 DEF Balanced
    <3>1. m \in 1 .. n + 1 /\ Len(p) = n + 1
      BY <2>5
    <3>2. p[m] <= t /\ tokens + (n + 1 - m + 1) <= perSec * (1 + t - p[m])
      BY <2>8, <3>1
    <3> QED
      BY <3>1, <3>2
  <2> QED
    BY <2>3, <2>10
<1> QED
  BY <1>1, <1>2
-----------------------------------------------------------------------------
(* The state of a policy, and of a chain of them.                          *)

Names == {Service[x] : x \in Trace}
PolicyState == [buckets : Partial(Names, Bucket), gen : Nat, window : Seq(Nat)]

InBalance(state, t, perSec) ==
  \A s \in DOMAIN state.buckets :
    state.buckets[s].filled <= t /\ Balanced(state.buckets[s], perSec)

\* A limiter that was asked for a token is in balance, if it was before.
LEMMA LimitBalanced ==
  ASSUME NEW perSec \in Nat, NEW t \in Nat, NEW state \in PolicyState, NEW s \in Names,
         InBalance(state, t, perSec)
  PROVE  /\ Limit(state, s, t, perSec) \in PolicyState
         /\ Limit(state, s, t, perSec).window = state.window
         /\ InBalance(Limit(state, s, t, perSec), t, perSec)
<1> DEFINE room == WithRoom(state.buckets, s, MaxTrackedServices)
           old == IF s \in DOMAIN room THEN room[s]
                  ELSE [tokens |-> perSec, filled |-> t, gen |-> 0, passed |-> <<>>]
<1>1. state.buckets \in Partial(Names, Bucket) /\ state.gen \in Nat /\ state.window \in Seq(Nat)
  BY DEF PolicyState
<1>2. /\ room \in Partial(Names, Bucket) /\ DOMAIN room \subseteq DOMAIN state.buckets
      /\ \A z \in DOMAIN room : room[z] = state.buckets[z]
  BY <1>1, RoomInMap
<1>3. room \in [DOMAIN room -> Bucket]
  BY <1>2, PartialMaps
<1>4. old \in Bucket /\ old.filled <= t /\ Balanced(old, perSec)
  <2>1. CASE s \in DOMAIN room
    BY <1>2, <1>3, <2>1 DEF InBalance
  <2>2. CASE s \notin DOMAIN room
    <3>1. /\ old.tokens = perSec /\ old.filled = t /\ old.gen = 0 /\ old.passed = <<>>
          /\ old = [tokens |-> perSec, filled |-> t, gen |-> 0, passed |-> <<>>]
      BY <2>2
    <3>a. <<>> \in Seq(Nat)
      OBVIOUS
    <3>b. PICK fresh : fresh = [tokens |-> perSec, filled |-> t, gen |-> 0, passed |-> <<>>]
      OBVIOUS
    <3>c. fresh \in Bucket
      BY <3>a, <3>b DEF Bucket
    <3>2. old \in Bucket
      BY <3>1, <3>b, <3>c
    <3>3. DOMAIN old.passed = {}
      BY <3>1
    <3> QED
      BY <3>1, <3>2, <3>3 DEF Balanced, PassedWithinRate
  <2> QED
    BY <2>1, <2>2
<1>5. PICK drawn \in Bucket : /\ drawn = Draw(BucketFor(state, s, t, perSec), t)
                              /\ drawn.filled = t /\ Balanced(drawn, perSec)
  <2>1. BucketFor(state, s, t, perSec) = Refill(old, t, perSec)
    BY DEF BucketFor
  <2> HIDE DEF old, room
  <2>2. PICK full : full = Refill(old, t, perSec)
    OBVIOUS
  <2>3. full \in Bucket /\ full.filled = t /\ Balanced(full, perSec)
    BY <1>4, <2>2, RefillBalanced
  <2>4. Draw(full, t) \in Bucket /\ Draw(full, t).filled = t /\ Balanced(Draw(full, t), perSec)
    BY <2>3, DrawBalanced
  <2> QED
    BY <2>1, <2>2, <2>4
<1>6. PICK b \in Bucket : /\ b = [drawn EXCEPT !.gen = state.gen + 1]
                          /\ b.filled = t /\ Balanced(b, perSec)
  <2> DEFINE e == [drawn EXCEPT !.gen = state.gen + 1]
  <2>1. /\ e \in Bucket
        /\ e.tokens = drawn.tokens /\ e.filled = drawn.filled /\ e.passed = drawn.passed
    <3>1. PICK n \in Nat : n = state.gen + 1
      BY <1>1
    <3>2. e = [drawn EXCEPT !.gen = n]
      BY <3>1
    <3> HIDE DEF e, old, room
    <3> QED
      BY <3>2 DEF Bucket
  <2>2. Balanced(e, perSec)
    BY <1>5, <2>1 DEF Balanced
  <2> QED
    BY <1>5, <2>1, <2>2
<1>7. PICK buckets \in Partial(Names, Bucket) :
        /\ buckets = Put(room, s, b)
        /\ DOMAIN buckets = DOMAIN room \cup {s} /\ buckets[s] = b
        /\ \A z \in DOMAIN room : z # s => buckets[z] = room[z]
  <2>1. /\ Put(room, s, b) \in Partial(Names, Bucket)
        /\ DOMAIN Put(room, s, b) = DOMAIN room \cup {s} /\ Put(room, s, b)[s] = b
        /\ \A z \in DOMAIN room : z # s => Put(room, s, b)[z] = room[z]
    <3>1. room \in Partial(Names, Bucket) /\ b \in Bucket
      BY <1>2, <1>6
    <3> HIDE DEF room, old
    <3>2. PICK f : f = Put(room, s, b)
      OBVIOUS
    <3>3. /\ f \in Partial(Names, Bucket)
          /\ DOMAIN f = DOMAIN room \cup {s} /\ f[s] = b
          /\ \A z \in DOMAIN room : z # s => f[z] = room[z]
      BY <3>1, <3>2, PutInMap
    <3> QED
      BY <3>2, <3>3
  <2> QED
    BY <2>1
<1>8. Limit(state, s, t, perSec) = [state EXCEPT !.gen = state.gen + 1, !.buckets = buckets]
  BY <1>1, <1>5, <1>6, <1>7 DEF Limit, PolicyState
<1>a. PICK gen \in Nat : gen = state.gen + 1
  BY <1>1
<1>9. /\ Limit(state, s, t, perSec) \in PolicyState
      /\ Limit(state, s, t, perSec).window = state.window
      /\ Limit(state, s, t, perSec).buckets = buckets
  BY <1>1, <1>7, <1>8, <1>a DEF PolicyState
<1>10. \A z \in DOMAIN buckets : buckets[z].filled <= t /\ Balanced(buckets[z], perSec)
  <2> SUFFICES ASSUME NEW z \in DOMAIN buckets
               PROVE  buckets[z].filled <= t /\ Balanced(buckets[z], perSec)
    OBVIOUS
  <2>1. CASE z = s
    <3>1. buckets[z] = b
      BY <1>7, <2>1
    <3>2. b.filled <= t
      BY <1>6
    <3> QED
      BY <1>6, <3>1, <3>2
  <2>2. CASE z # s
    <3>1. z \in DOMAIN state.buckets /\ buckets[z] = state.buckets[z]
      BY <1>2, <1>7, <2>2
    <3> QED
      BY <3>1 DEF InBalance
  <2> QED
    BY <2>1, <2>2
<1> QED
  BY <1>9, <1>10 DEF InBalance

\* A window that took a duration has it first, and then what it had.
LEMMA WindowSlides ==
  ASSUME NEW state \in PolicyState, NEW d \in Nat
  PROVE  /\ Observe(state, d) \in PolicyState
         /\ Observe(state, d).buckets = state.buckets
         /\ Observe(state, d).window # <<>>
         /\ \A j \in DOMAIN Observe(state, d).window :
              \/ Observe(state, d).window[j] = d
              \/ j - 1 \in DOMAIN state.window
                 /\ Observe(state, d).window[j] = state.window[j - 1]
<1> DEFINE all == <<d>> \o state.window
<1>1. PICK w \in Seq(Nat), n \in Nat : w = state.window /\ n = Len(w) /\ DOMAIN w = 1 .. n
  BY DEF PolicyState
<1>2. all \in Seq(Nat) /\ Len(all) = n + 1
  BY <1>1
<1>3. \A j \in 1 .. n + 1 : all[j] = d \/ (j - 1 \in 1 .. n /\ all[j] = w[j - 1])
  BY <1>1
<1>4. WindowSize \in Nat \ {0}
  BY PolicyAssumption
<1>5. PICK slid \in Seq(Nat), m \in 1 .. n + 1 :
        /\ slid = Slide(state.window, d) /\ DOMAIN slid = 1 .. m /\ slid # <<>>
        /\ \A j \in 1 .. m : slid[j] = all[j]
  <2>1. CASE n < WindowSize
    <3>1. Slide(state.window, d) = all
      BY <1>1, <2>1 DEF Slide
    <3>2. DOMAIN all = 1 .. n + 1 /\ all # <<>> /\ n + 1 \in 1 .. n + 1
      BY <1>1, <1>2
    <3> QED
      BY <1>2, <3>1, <3>2
  <2>2. CASE ~(n < WindowSize)
    <3>1. Slide(state.window, d) = SubSeq(all, 1, WindowSize)
      BY <1>1, <2>2 DEF Slide
    <3>2. WindowSize \in 1 .. n + 1
      BY <1>4, <2>2
    <3>3. /\ SubSeq(all, 1, WindowSize) \in Seq(Nat)
          /\ Len(SubSeq(all, 1, WindowSize)) = WindowSize
          /\ \A j \in 1 .. WindowSize : SubSeq(all, 1, WindowSize)[j] = all[j]
      BY <1>2, <3>2, PrefixProperties
    <3>4. /\ DOMAIN SubSeq(all, 1, WindowSize) = 1 .. WindowSize
          /\ SubSeq(all, 1, WindowSize) # <<>>
      BY <3>2, <3>3
    <3> QED
      BY <3>1, <3>2, <3>3, <3>4
  <2> QED
    BY <2>1, <2>2
<1>6. Observe(state, d) = [state EXCEPT !.window = slid]
  BY <1>5 DEF Observe, PolicyState
<1>7. /\ Observe(state, d) \in PolicyState
      /\ Observe(state, d).buckets = state.buckets /\ Observe(state, d).window = slid
  BY <1>6 DEF PolicyState
<1>8. \A j \in DOMAIN slid :
        slid[j] = d \/ (j - 1 \in DOMAIN w /\ slid[j] = w[j - 1])
  <2> HIDE DEF all
  <2> TAKE j \in DOMAIN slid
  <2>1. j \in 1 .. n + 1 /\ slid[j] = all[j]
    BY <1>1, <1>5
  <2>2. \/ all[j] = d
        \/ j - 1 \in 1 .. n /\ all[j] = w[j - 1]
    BY <1>3, <2>1
  <2>3. DOMAIN w = 1 .. n
    BY <1>1
  <2> QED
    BY <2>1, <2>2, <2>3, Zenon
<1> QED
  BY <1>1, <1>5, <1>7, <1>8

\* A set of naturals that has an element has a smallest one.
LEMMA HasSmallest ==
  ASSUME NEW S \in SUBSET Nat, S # {}
  PROVE  \E x \in S : \A y \in S : x <= y
<1>1. IsWellFoundedOn(OpToRel(<, Nat), Nat)
  BY NatLessThanWellFounded, Zenon
<1>2. PICK x \in S : \A y \in S : <<y, x>> \notin OpToRel(<, Nat)
  BY <1>1, WFMin, Zenon
<1>3. \A y \in S : ~(y < x)
  BY <1>2 DEF OpToRel
<1> QED
  BY <1>3

\* A window with an entry has a longest duration.
LEMMA HasLongest ==
  ASSUME NEW w \in Seq(Nat), NEW n \in Nat \ {0}, n = Len(w)
  PROVE  \E j \in 1 .. n : \A i \in 1 .. n : w[i] <= w[j]
<1> DEFINE Longest(k) == \E j \in 1 .. k : \A i \in 1 .. k : w[i] <= w[j]
           Bad == {k \in 1 .. n : ~Longest(k)}
<1>0. \A i \in 1 .. n : w[i] \in Nat
  BY ElementOfSeq
<1>1. SUFFICES ASSUME Bad # {} PROVE FALSE
  <2>1. n \in 1 .. n
    OBVIOUS
  <2>2. Bad = {} => Longest(n)
    BY <2>1
  <2> QED
    BY <2>2
<1>2. PICK k \in Bad : \A y \in Bad : k <= y
  <2>1. Bad \in SUBSET Nat
    OBVIOUS
  <2> QED
    BY <1>1, <2>1, HasSmallest
<1>3. k # 1
  <2>1. Longest(1)
    BY <1>0
  <2> QED
    BY <1>2, <2>1
<1>4. k \in 1 .. n /\ k - 1 \in 1 .. n
  BY <1>2, <1>3
<1>5. Longest(k - 1)
  <2>1. k - 1 \notin Bad
    <3>1. ~(k <= k - 1)
      BY <1>4
    <3> QED
      BY <1>2, <3>1
  <2> QED
    BY <1>4, <2>1
<1>6. PICK j \in 1 .. k - 1 : \A i \in 1 .. k - 1 : w[i] <= w[j]
  BY <1>5
<1>7. Longest(k)
  <2>1. CASE w[k] <= w[j]
    <3>1. j \in 1 .. k /\ \A i \in 1 .. k : i = k \/ i \in 1 .. k - 1
      BY <1>4
    <3>2. \A i \in 1 .. k : w[i] <= w[j]
      BY <1>6, <2>1, <3>1
    <3> QED
      BY <3>1, <3>2
  <2>2. CASE w[j] <= w[k]
    <3>1. \A i \in 1 .. k : w[i] <= w[k]
      BY <1>0, <1>4, <1>6, <2>2
    <3> QED
      BY <1>4, <3>1
  <2>3. w[k] <= w[j] \/ w[j] <= w[k]
    <3>1. w[k] \in Nat /\ w[j] \in Nat
      BY <1>0, <1>4, <1>6
    <3> QED
      BY <3>1
  <2> QED
    BY <2>1, <2>2, <2>3
<1> QED
  BY <1>2, <1>7

\* The estimate is one of the durations in the window.
LEMMA EstimateIsEntry ==
  ASSUME NEW w \in Seq(Nat)
  PROVE  /\ Estimate(w) \in Nat
         /\ w # <<>> => \E j \in DOMAIN w : Estimate(w) = w[j]
<1>1. CASE w = <<>>
  BY <1>1 DEF Estimate
<1>2. CASE w # <<>>
  <2>1. PICK n \in Nat \ {0} : n = Len(w) /\ DOMAIN w = 1 .. n
    BY <1>2
  <2>2. PICK j \in 1 .. n : \A i \in 1 .. n : w[i] <= w[j]
    BY <2>1, HasLongest
  <2>3. AtMost(w, w[j]) = 1 .. n
    BY <2>1, <2>2 DEF AtMost
  <2>4. Cardinality(1 .. n) = n
    BY FS_Interval
  <2>5. Rank(w) < n
    <3>1. PICK r \in Int : r = (n * 99) \div 100
      OBVIOUS
    <3> QED
      BY <2>1, <3>1 DEF Rank
  <2>6. w[j] \in HighEnough(w)
    BY <2>1, <2>3, <2>4, <2>5 DEF HighEnough
  <2>7. HighEnough(w) \in SUBSET Nat
    BY DEF HighEnough
  <2>8. \E v \in HighEnough(w) : \A u \in HighEnough(w) : v <= u
    BY <2>6, <2>7, HasSmallest
  <2>9. Estimate(w) \in HighEnough(w)
    BY <1>2, <2>8 DEF Estimate
  <2> QED
    BY <2>7, <2>9 DEF HighEnough
<1> QED
  BY <1>1, <1>2

Valid == {content \in Content : Loads(content)}
Chain == [policies : Valid, state : Partial(Nat, PolicyState)]
IsChain(chain) == chain \in Chain /\ DOMAIN chain.state = DOMAIN chain.policies

\* A chain that was just built is one, with every policy's state empty.
LEMMA NewIsChain ==
  ASSUME NEW content \in Valid
  PROVE  /\ IsChain(NewChain(content))
         /\ NewChain(content).policies = content
         /\ \A i \in DOMAIN content : NewChain(content).state[i] = Fresh
<1>1. Fresh \in PolicyState
  BY EmptyMap DEF Fresh, PolicyState
<1>2. DOMAIN content \subseteq Nat
  <2>1. content \in Seq({content[i] : i \in DOMAIN content})
    BY SamplingAssumption DEF Valid
  <2>2. DOMAIN content = 1 .. Len(content) /\ Len(content) \in Nat
    BY <2>1
  <2> QED
    BY <2>2
<1>3. [i \in DOMAIN content |-> Fresh] \in Partial(Nat, PolicyState)
  BY <1>1, <1>2, PartialMaps
<1> QED
  BY <1>3 DEF NewChain, IsChain, Chain

-----------------------------------------------------------------------------
(* The invariant that the limiters' balance rests on.                      *)

ChainsOK ==
  /\ chains \in Seq(Chain) /\ chains # <<>>
  /\ \A c \in DOMAIN chains : IsChain(chains[c])

Decision == [trace : Trace \cup {NoTrace}, chain : Nat, at : Nat \ {0}, estimate : Int, warm : SUBSET Nat]
DecidingOK ==
  \A d \in Decider : deciding[d] # Idle =>
    deciding[d] \in Decision /\ deciding[d].trace \in Trace /\ deciding[d].chain \in DOMAIN chains

VerdictOK ==
  /\ DOMAIN verdict \subseteq Trace
  /\ \A x \in DOMAIN verdict : verdict[x].chain \in DOMAIN chains

GuardOK ==
  /\ DOMAIN attrs \subseteq Trace
  /\ decoding.left # {} => decoding.trace \in DOMAIN attrs

InputsOK ==
  /\ now \in Nat
  /\ file \in [content : Content, mtime : Nat]
  /\ DOMAIN deciding = Decider

\* Every limiter is in balance.
RateInv ==
  \A c \in DOMAIN chains : \A i \in DOMAIN chains[c].policies :
    chains[c].policies[i].type = "rate_limiting" =>
      InBalance(chains[c].state[i], now, chains[c].policies[i].perSec)

Typed == InputsOK /\ ChainsOK /\ DecidingOK /\ VerdictOK /\ GuardOK /\ RateInv

LEMMA PutAnywhere ==
  ASSUME NEW f, NEW x, NEW y
  PROVE  /\ DOMAIN Put(f, x, y) = DOMAIN f \cup {x}
         /\ Put(f, x, y)[x] = y
         /\ \A z \in DOMAIN f : z # x => Put(f, x, y)[z] = f[z]
BY DEF Put

LEMMA TypedInitially == Init => Typed
<1> SUFFICES ASSUME Init PROVE Typed
  OBVIOUS
<1>1. FirstContent \in Valid
  BY SamplingAssumption DEF Valid
<1>2. PICK first \in Chain : first = NewChain(FirstContent) /\ IsChain(first)
  BY <1>1, NewIsChain DEF IsChain
<1>3. chains = <<first>>
  BY <1>2 DEF Init
<1>4. /\ chains \in Seq(Chain) /\ chains # <<>> /\ DOMAIN chains = {1} /\ chains[1] = first
  BY <1>3
<1>5. ChainsOK
  BY <1>2, <1>4 DEF ChainsOK
<1>6. RateInv
  <2> SUFFICES ASSUME NEW i \in DOMAIN FirstContent
               PROVE  DOMAIN first.state[i].buckets = {}
    BY <1>1, <1>2, <1>4, NewIsChain DEF RateInv, InBalance
  <2>1. first.state[i] = Fresh
    BY <1>1, <1>2, NewIsChain
  <2> QED
    BY <2>1 DEF Fresh
<1>7. InputsOK /\ DecidingOK /\ VerdictOK /\ GuardOK
  BY SamplingAssumption DEF Init, InputsOK, DecidingOK, VerdictOK, GuardOK
<1> QED
  BY <1>5, <1>6, <1>7 DEF Typed

-----------------------------------------------------------------------------
(* What a step does to the chains.                                         *)

\* Policy i of chain c got a new state and nothing else did.
Updated(c, i, state) ==
  /\ c \in DOMAIN chains /\ i \in DOMAIN chains[c].policies
  /\ ChainsOK' /\ DOMAIN chains' = DOMAIN chains
  /\ \A b \in DOMAIN chains : chains'[b].policies = chains[b].policies
  /\ chains'[c].state[i] = state
  /\ \A b \in DOMAIN chains : \A j \in DOMAIN chains[b].policies :
       b # c \/ j # i => chains'[b].state[j] = chains[b].state[j]

\* Where a decision stands when a policy of some type is next.
LEMMA PolicyAt ==
  ASSUME Typed, NEW d \in Decider, NEW type, PolicyIs(d, type)
  PROVE  /\ deciding[d] \in Decision /\ deciding[d].trace \in Trace
         /\ ChainOf(d) \in DOMAIN chains /\ At(d) \in DOMAIN chains[ChainOf(d)].policies
         /\ chains[ChainOf(d)].policies[At(d)] = PolicyOf(d) /\ PolicyOf(d).type = type
         /\ StateOf(d) = chains[ChainOf(d)].state[At(d)] /\ StateOf(d) \in PolicyState
<1>1. /\ deciding[d] \in Decision /\ deciding[d].trace \in Trace
      /\ ChainOf(d) \in DOMAIN chains /\ At(d) \in DOMAIN chains[ChainOf(d)].policies
      /\ chains[ChainOf(d)].policies[At(d)] = PolicyOf(d) /\ PolicyOf(d).type = type
  BY DEF Typed, DecidingOK, PolicyIs, PolicyOf, Policies, ChainOf, At
<1>2. /\ chains[ChainOf(d)].state \in Partial(Nat, PolicyState)
      /\ At(d) \in DOMAIN chains[ChainOf(d)].state
  BY <1>1 DEF Typed, ChainsOK, IsChain, Chain
<1>3. StateOf(d) \in PolicyState
  BY <1>2, PartialMaps DEF StateOf
<1> QED
  BY <1>1, <1>3 DEF StateOf

\* An update of one policy's state leaves everything else of the chains alone.
LEMMA StateUpdated ==
  ASSUME ChainsOK, NEW b \in DOMAIN chains, NEW i \in DOMAIN chains[b].policies,
         NEW state \in PolicyState, chains' = [chains EXCEPT ![b].state[i] = state]
  PROVE  Updated(b, i, state)
<1>a. PICK all : all = chains
  OBVIOUS
<1>b. PICK new : new = chains'
  OBVIOUS
<1>0. /\ all \in Seq(Chain) /\ all # <<>> /\ \A c \in DOMAIN all : IsChain(all[c])
      /\ b \in DOMAIN all /\ i \in DOMAIN all[b].policies
      /\ new = [all EXCEPT ![b].state[i] = state]
      /\ chains = all /\ chains' = new
  BY <1>a, <1>b DEF ChainsOK
<1>1. all[b] \in Chain /\ DOMAIN all[b].state = DOMAIN all[b].policies
  BY <1>0 DEF IsChain
<1>2. all[b].state \in Partial(Nat, PolicyState)
  BY <1>1 DEF Chain
<1>3. PICK states : states = [all[b].state EXCEPT ![i] = state]
  OBVIOUS
<1>4. all[b].state \in [DOMAIN all[b].state -> PolicyState] /\ DOMAIN all[b].state \subseteq Nat
  BY <1>2, PartialMaps
<1>5. /\ states \in [DOMAIN all[b].state -> PolicyState]
      /\ DOMAIN states = DOMAIN all[b].state /\ states[i] = state
      /\ \A j \in DOMAIN states : j # i => states[j] = all[b].state[j]
  BY <1>0, <1>1, <1>3, <1>4
<1>6. states \in Partial(Nat, PolicyState)
  BY <1>4, <1>5, PartialMaps
<1>7. PICK chain : chain = [all[b] EXCEPT !.state = states]
  OBVIOUS
<1>8. /\ chain \in Chain /\ chain.state = states /\ chain.policies = all[b].policies
      /\ IsChain(chain)
  BY <1>1, <1>5, <1>6, <1>7 DEF Chain, IsChain
<1>9. new = [all EXCEPT ![b] = chain]
  BY <1>0, <1>3, <1>7
<1>10. /\ new \in Seq(Chain) /\ Len(new) = Len(all) /\ DOMAIN new = DOMAIN all
       /\ new[b] = chain /\ \A c \in DOMAIN all : c # b => new[c] = all[c]
  <2>1. DOMAIN all = 1 .. Len(all) /\ Len(all) \in Nat /\ all \in [1 .. Len(all) -> Chain]
    BY <1>0
  <2>2. /\ new \in [1 .. Len(all) -> Chain] /\ new[b] = chain
        /\ \A c \in DOMAIN all : c # b => new[c] = all[c]
    BY <1>0, <1>8, <1>9, <2>1
  <2> QED
    BY <2>1, <2>2
<1>11. new # <<>>
  BY <1>0, <1>10
<1>12. \A c \in DOMAIN all : IsChain(new[c]) /\ new[c].policies = all[c].policies
  BY <1>0, <1>8, <1>10
<1>13. \A c \in DOMAIN all : \A j \in DOMAIN all[c].policies :
         c # b \/ j # i => new[c].state[j] = all[c].state[j]
  BY <1>1, <1>5, <1>8, <1>10
<1>14. ChainsOK'
  BY <1>0, <1>10, <1>11, <1>12 DEF ChainsOK
<1>15. new[b].state[i] = state
  BY <1>5, <1>8, <1>10
<1> QED
  BY <1>0, <1>10, <1>12, <1>13, <1>14, <1>15 DEF Updated

LEMMA ObserveUpdates ==
  ASSUME Typed, NEW d \in Decider, ObserveP99(d)
  PROVE  Updated(ChainOf(d), At(d), Observe(StateOf(d), Duration[deciding[d].trace]))
<1>1. /\ ChainOf(d) \in DOMAIN chains /\ At(d) \in DOMAIN chains[ChainOf(d)].policies
      /\ StateOf(d) = chains[ChainOf(d)].state[At(d)] /\ StateOf(d) \in PolicyState
      /\ deciding[d].trace \in Trace
  BY PolicyAt DEF ObserveP99
<1>2. PICK state \in PolicyState : state = Observe(StateOf(d), Duration[deciding[d].trace])
  <2>1. Duration[deciding[d].trace] \in Nat
    BY <1>1, PolicyAssumption
  <2> QED
    BY <1>1, <2>1, WindowSlides
<1>3. chains' = [chains EXCEPT ![ChainOf(d)].state[At(d)] = state]
  BY <1>1, <1>2 DEF ObserveP99
<1> QED
  BY <1>1, <1>2, <1>3, StateUpdated DEF Typed

LEMMA RateIsNatural ==
  ASSUME NEW policies \in Valid, NEW i \in DOMAIN policies, policies[i].type = "rate_limiting"
  PROVE  policies[i].perSec \in Nat
<1>1. policies[i].perSec > 0
  BY DEF Valid, Loads, Buildable
<1> QED
  BY <1>1, SamplingAssumption DEF Valid

LEMMA ThrottleUpdates ==
  ASSUME Typed, NEW d \in Decider, Throttle(d)
  PROVE  \E state \in PolicyState :
           /\ Updated(ChainOf(d), At(d), state)
           /\ state.window = StateOf(d).window
           /\ InBalance(state, now, PolicyOf(d).perSec)
<1> DEFINE s == Service[deciding[d].trace]
<1>1. /\ ChainOf(d) \in DOMAIN chains /\ At(d) \in DOMAIN chains[ChainOf(d)].policies
      /\ StateOf(d) = chains[ChainOf(d)].state[At(d)] /\ StateOf(d) \in PolicyState
      /\ deciding[d].trace \in Trace
      /\ chains[ChainOf(d)].policies[At(d)] = PolicyOf(d) /\ PolicyOf(d).type = "rate_limiting"
  BY PolicyAt DEF Throttle
<1>2. s \in Names
  BY <1>1 DEF Names
<1>3. PolicyOf(d).perSec \in Nat
  BY <1>1, RateIsNatural DEF Typed, ChainsOK, IsChain, Chain
<1>4. InBalance(StateOf(d), now, PolicyOf(d).perSec)
  BY <1>1 DEF Typed, RateInv
<1>5. PICK state \in PolicyState :
        /\ state = Limit(StateOf(d), s, now, PolicyOf(d).perSec)
        /\ state.window = StateOf(d).window
        /\ InBalance(state, now, PolicyOf(d).perSec)
  BY <1>1, <1>2, <1>3, <1>4, LimitBalanced DEF Typed, InputsOK
<1>6. chains' = [chains EXCEPT ![ChainOf(d)].state[At(d)] = state]
  BY <1>1, <1>5 DEF Throttle
<1> QED
  BY <1>1, <1>5, <1>6, StateUpdated DEF Typed

\* A reload adds a chain and leaves those that decisions may still hold.
LEMMA ReloadAdds ==
  ASSUME Typed, Reload
  PROVE  /\ ChainsOK' /\ DOMAIN chains' = DOMAIN chains \cup {Len(chains) + 1}
         /\ Len(chains) + 1 \notin DOMAIN chains
         /\ chains'[Len(chains) + 1] = NewChain(file.content) /\ file.content \in Valid
         /\ \A c \in DOMAIN chains : chains'[c] = chains[c]
<1>1. file.content \in Valid
  BY DEF Reload, Typed, InputsOK, Valid
<1>2. PICK new \in Chain : new = NewChain(file.content) /\ IsChain(new)
  BY <1>1, NewIsChain DEF IsChain
<1>3. chains' = Append(chains, new) /\ chains \in Seq(Chain)
  BY <1>2 DEF Reload, Typed, ChainsOK
<1>4. PICK n \in Nat : n = Len(chains) /\ DOMAIN chains = 1 .. n
  BY <1>3
<1>5. /\ chains' \in Seq(Chain) /\ DOMAIN chains' = 1 .. n + 1 /\ Len(chains') = n + 1
      /\ chains'[n + 1] = new /\ \A c \in 1 .. n : chains'[c] = chains[c]
  BY <1>2, <1>3, <1>4
<1>6. chains' # <<>>
  BY <1>5
<1>7. ChainsOK'
  BY <1>2, <1>4, <1>5, <1>6 DEF Typed, ChainsOK
<1> QED
  BY <1>1, <1>2, <1>4, <1>5, <1>7
-----------------------------------------------------------------------------
(* The base invariant is preserved.                                        *)

\* Chains are only added, and their policies stay.
LEMMA ChainsStay ==
  ASSUME Typed, [Next]_vars
  PROVE  /\ ChainsOK' /\ RateInv' /\ DOMAIN chains \subseteq DOMAIN chains'
         /\ \A c \in DOMAIN chains : chains'[c].policies = chains[c].policies
<1>1. CASE UNCHANGED <<chains, now>>
  <2>1. chains' = chains /\ now' = now
    BY <1>1
  <2> QED
    BY <2>1 DEF Typed, ChainsOK, RateInv
<1>2. CASE Tick
  <2>1. chains' = chains /\ now' = now + 1 /\ now \in Nat
    BY <1>2 DEF Tick, decisionVars, Typed, InputsOK
  <2>2. ChainsOK'
    BY <2>1 DEF Typed, ChainsOK
  <2>3. RateInv'
    <3> SUFFICES ASSUME NEW c \in DOMAIN chains, NEW i \in DOMAIN chains[c].policies,
                        chains[c].policies[i].type = "rate_limiting",
                        NEW s \in DOMAIN chains[c].state[i].buckets
                 PROVE  /\ chains[c].state[i].buckets[s].filled <= now + 1
                        /\ Balanced(chains[c].state[i].buckets[s], chains[c].policies[i].perSec)
      BY <2>1 DEF RateInv, InBalance
    <3>1. /\ chains[c].state[i].buckets[s].filled <= now
          /\ Balanced(chains[c].state[i].buckets[s], chains[c].policies[i].perSec)
      BY DEF Typed, RateInv, InBalance
    <3>2. chains[c].state \in Partial(Nat, PolicyState) /\ i \in DOMAIN chains[c].state
      BY DEF Typed, ChainsOK, IsChain, Chain
    <3>a. chains[c].state[i] \in PolicyState
      BY <3>2, PartialMaps
    <3>3. chains[c].state[i].buckets \in Partial(Names, Bucket)
      BY <3>a DEF PolicyState
    <3>b. chains[c].state[i].buckets[s] \in Bucket
      BY <3>3, PartialMaps
    <3>4. chains[c].state[i].buckets[s].filled \in Nat
      BY <3>b DEF Bucket
    <3> QED
      BY <2>1, <3>1, <3>4
  <2> QED
    BY <2>1, <2>2, <2>3
<1>3. ASSUME NEW d \in Decider, ObserveP99(d)
      PROVE  ChainsOK' /\ RateInv' /\ DOMAIN chains \subseteq DOMAIN chains'
             /\ \A c \in DOMAIN chains : chains'[c].policies = chains[c].policies
  <2>1. PICK state : /\ state = Observe(StateOf(d), Duration[deciding[d].trace])
                     /\ Updated(ChainOf(d), At(d), state)
    BY <1>3, ObserveUpdates
  <2>2. chains[ChainOf(d)].policies[At(d)].type = "rolling_p99"
    BY <1>3, PolicyAt DEF ObserveP99
  <2>3. now' = now
    BY <1>3 DEF ObserveP99
  <2>4. RateInv'
    BY <2>1, <2>2, <2>3 DEF Typed, RateInv, Updated
  <2> QED
    BY <2>1, <2>4 DEF Updated
<1>4. ASSUME NEW d \in Decider, Throttle(d)
      PROVE  ChainsOK' /\ RateInv' /\ DOMAIN chains \subseteq DOMAIN chains'
             /\ \A c \in DOMAIN chains : chains'[c].policies = chains[c].policies
  <2>1. PICK state : /\ Updated(ChainOf(d), At(d), state)
                     /\ InBalance(state, now, PolicyOf(d).perSec)
    BY <1>4, ThrottleUpdates
  <2>2. chains[ChainOf(d)].policies[At(d)] = PolicyOf(d)
    BY <1>4, PolicyAt DEF Throttle
  <2>3. now' = now
    BY <1>4 DEF Throttle
  <2>4. RateInv'
    BY <2>1, <2>2, <2>3 DEF Typed, RateInv, Updated
  <2> QED
    BY <2>1, <2>4 DEF Updated
<1>5. CASE Reload
  <2> DEFINE n == Len(chains) + 1
  <2>1. /\ ChainsOK' /\ DOMAIN chains' = DOMAIN chains \cup {n} /\ n \notin DOMAIN chains
        /\ chains'[n] = NewChain(file.content) /\ file.content \in Valid
        /\ \A c \in DOMAIN chains : chains'[c] = chains[c]
    BY <1>5, ReloadAdds
  <2>2. now' = now
    BY <1>5 DEF Reload
  <2>3. \A i \in DOMAIN chains'[n].policies : DOMAIN chains'[n].state[i].buckets = {}
    <3>1. \A i \in DOMAIN file.content : chains'[n].state[i] = Fresh
      BY <2>1, NewIsChain
    <3> QED
      BY <2>1, <3>1, NewIsChain DEF Fresh
  <2>4. RateInv'
    <3> SUFFICES ASSUME NEW c \in DOMAIN chains', NEW i \in DOMAIN chains'[c].policies,
                        chains'[c].policies[i].type = "rate_limiting"
                 PROVE  InBalance(chains'[c].state[i], now', chains'[c].policies[i].perSec)
      BY DEF RateInv
    <3>1. CASE c = n
      BY <2>3, <3>1 DEF InBalance
    <3>2. CASE c \in DOMAIN chains
      <4>1. chains'[c] = chains[c]
        BY <2>1, <3>2
      <4> QED
        BY <2>2, <3>2, <4>1 DEF Typed, RateInv
    <3> QED
      BY <2>1, <3>1, <3>2
  <2> QED
    BY <2>1, <2>4
<1>6. CASE Next /\ ~Tick /\ ~Reload /\ \A d \in Decider : ~ObserveP99(d) /\ ~Throttle(d)
  BY <1>1, <1>6 DEF Next, Decode, Enforce, Begin, Decide, Ask, EstimateP99, FallThrough, Settle, Edit,
                    Watch, Stat, KeepChain, ReadError, decisionVars
<1> QED
  BY <1>1, <1>2, <1>3, <1>4, <1>5, <1>6 DEF vars, decisionVars

\* A decision goes on with the next policy, or ends.
LEMMA Proceeds ==
  ASSUME Typed, NEW d \in Decider, deciding[d] # Idle, NEW opinion, Proceed(d, opinion)
  PROVE  /\ opinion = "abstain" =>
              /\ verdict' = verdict
              /\ deciding' = [deciding EXCEPT ![d].at = deciding[d].at + 1, ![d].estimate = -1]
         /\ opinion # "abstain" => Settle(d, opinion)
<1>1. CASE opinion = "abstain"
  BY <1>1 DEF Proceed
<1>2. CASE opinion # "abstain"
  BY <1>2 DEF Proceed, Settle
<1> QED
  BY <1>1, <1>2

LEMMA DecidingStays ==
  ASSUME Typed, [Next]_vars
  PROVE  DecidingOK' /\ VerdictOK' /\ DOMAIN deciding' = Decider
<1> USE DEF Typed
<1>1. DOMAIN chains \subseteq DOMAIN chains'
  BY ChainsStay
<1>2. CASE UNCHANGED <<deciding, verdict>>
  <2>1. deciding' = deciding /\ verdict' = verdict
    BY <1>2
  <2> QED
    BY <1>1, <2>1 DEF DecidingOK, VerdictOK, InputsOK
<1>3. ASSUME NEW d \in Decider, NEW x \in Trace, Begin(d, x)
      PROVE  DecidingOK' /\ VerdictOK' /\ DOMAIN deciding' = Decider
  <2>1. PICK n \in Nat : n = Len(chains) /\ n \in DOMAIN chains
    BY DEF ChainsOK
  <2>2. Warm(chains[n]) \in SUBSET Nat
    BY <2>1, PartialMaps DEF Warm, ChainsOK, IsChain, Chain
  <2>3. PICK new : new = [trace |-> x, chain |-> n, at |-> 1, estimate |-> -1, warm |-> Warm(chains[n])]
    OBVIOUS
  <2>4. new \in Decision /\ new.trace \in Trace /\ new.chain = n
    BY <2>2, <2>3 DEF Decision
  <2>5. deciding' = [deciding EXCEPT ![d] = new] /\ chains' = chains /\ verdict' = verdict
    BY <1>3, <2>1, <2>3 DEF Begin, Active
  <2>6. DecidingOK'
    BY <2>1, <2>4, <2>5 DEF DecidingOK, InputsOK
  <2> QED
    BY <2>5, <2>6 DEF VerdictOK, InputsOK
<1>4. ASSUME NEW d \in Decider, deciding[d] # Idle, NEW opinion, Proceed(d, opinion)
      PROVE  DecidingOK' /\ VerdictOK' /\ DOMAIN deciding' = Decider
  <2>1. /\ deciding[d] \in Decision /\ deciding[d].trace \in Trace
        /\ deciding[d].chain \in DOMAIN chains
    BY <1>4 DEF DecidingOK
  <2>2. CASE opinion = "abstain"
    <3>2. PICK at \in Nat \ {0} : at = deciding[d].at + 1
      BY <2>1 DEF Decision
    <3>a. PICK moved : moved = [deciding[d] EXCEPT !.at = at]
      OBVIOUS
    <3>b. moved \in Decision /\ moved.trace = deciding[d].trace /\ moved.chain = deciding[d].chain
      BY <2>1, <3>2, <3>a DEF Decision
    <3>c. PICK new : new = [moved EXCEPT !.estimate = -1]
      OBVIOUS
    <3>3. new \in Decision /\ new.trace = moved.trace /\ new.chain = moved.chain
      BY <3>b, <3>c DEF Decision
    <3>4. deciding' = [deciding EXCEPT ![d] = new] /\ verdict' = verdict
      BY <1>4, <2>2, <3>2, <3>a, <3>c, Proceeds DEF InputsOK
    <3> QED
      BY <1>1, <2>1, <3>b, <3>3, <3>4 DEF DecidingOK, VerdictOK, InputsOK
  <2>3. CASE opinion # "abstain"
    <3>1. PICK v : v = [outcome |-> opinion, chain |-> deciding[d].chain, warm |-> deciding[d].warm]
      OBVIOUS
    <3>a. Settle(d, opinion)
      BY <1>4, <2>3, Proceeds
    <3>2. deciding' = [deciding EXCEPT ![d] = Idle] /\ verdict' = Put(verdict, deciding[d].trace, v)
      BY <3>1, <3>a DEF Settle
    <3>3. /\ DOMAIN verdict' = DOMAIN verdict \cup {deciding[d].trace}
          /\ verdict'[deciding[d].trace] = v
          /\ \A x \in DOMAIN verdict : x # deciding[d].trace => verdict'[x] = verdict[x]
      BY <3>2 DEF Put
    <3>b. v.chain \in DOMAIN chains
      BY <2>1, <3>1
    <3> QED
      BY <1>1, <2>1, <3>2, <3>3, <3>b DEF DecidingOK, VerdictOK, InputsOK
  <2> QED
    BY <2>2, <2>3
<1>5. ASSUME NEW d \in Decider, EstimateP99(d)
      PROVE  DecidingOK' /\ VerdictOK' /\ DOMAIN deciding' = Decider
  <2>1. /\ deciding[d] \in Decision /\ deciding[d].trace \in Trace /\ StateOf(d) \in PolicyState
        /\ deciding[d].chain \in DOMAIN chains
    BY <1>5, PolicyAt DEF EstimateP99, ChainOf
  <2>2. PICK estimate \in Nat : estimate = Estimate(StateOf(d).window)
    BY <2>1, EstimateIsEntry DEF PolicyState
  <2>3. PICK new : new = [deciding[d] EXCEPT !.estimate = estimate]
    OBVIOUS
  <2>4. new \in Decision /\ new.trace = deciding[d].trace /\ new.chain = deciding[d].chain
    BY <2>1, <2>3 DEF Decision
  <2>5. deciding' = [deciding EXCEPT ![d] = new] /\ verdict' = verdict /\ chains' = chains
    BY <1>5, <2>2, <2>3 DEF EstimateP99
  <2> QED
    BY <2>1, <2>4, <2>5 DEF DecidingOK, VerdictOK, InputsOK
<1>6. ASSUME NEW d \in Decider, FallThrough(d)
      PROVE  Proceed(d, "drop")
  BY <1>6 DEF FallThrough, Proceed
<1>7. ASSUME NEW d \in Decider, Ask(d) \/ ObserveP99(d) \/ Throttle(d) \/ FallThrough(d)
      PROVE  deciding[d] # Idle /\ \E opinion : Proceed(d, opinion)
  BY <1>6, <1>7 DEF Ask, ObserveP99, Throttle, FallThrough, PolicyIs
<1>8. CASE Tick \/ (\E x \in Trace : Decode(x)) \/ (\E k \in Key : Enforce(k))
           \/ (\E content \in Content : Edit(content)) \/ Watch \/ ReadError \/ UNCHANGED vars
  BY <1>2, <1>8 DEF Tick, Decode, Enforce, Edit, Watch, Stat, Reload, KeepChain, ReadError, vars, decisionVars
<1> QED
  BY <1>3, <1>4, <1>5, <1>7, <1>8 DEF Next, Decide
LEMMA GuardStays ==
  ASSUME Typed, [Next]_vars
  PROVE  InputsOK' /\ GuardOK'
<1> USE DEF Typed
<1>0. DOMAIN deciding' = Decider
  BY DecidingStays
<1>1. CASE UNCHANGED <<now, file, guardVars>>
  <2>1. now' = now /\ file' = file /\ attrs' = attrs /\ decoding' = decoding
    BY <1>1 DEF guardVars
  <2> QED
    BY <1>0, <2>1 DEF InputsOK, GuardOK
<1>2. ASSUME NEW x \in Trace, Decode(x)
      PROVE  InputsOK' /\ GuardOK'
  <2>1. now' = now /\ file' = file /\ DOMAIN attrs' = DOMAIN attrs \cup {x} /\ decoding'.trace = x
    BY <1>2, PutAnywhere DEF Decode
  <2> QED
    BY <1>0, <2>1 DEF InputsOK, GuardOK
<1>3. ASSUME NEW k \in Key, Enforce(k)
      PROVE  InputsOK' /\ GuardOK'
  <2>1. /\ now' = now /\ file' = file
        /\ attrs' = Put(attrs, decoding.trace,
                        WithEnforced(attrs[decoding.trace], tracker', k, Attributes[decoding.trace][k]))
        /\ decoding' = [decoding EXCEPT !.left = @ \ {k}]
    BY <1>3 DEF Enforce
  <2>2. decoding.trace \in DOMAIN attrs
    BY <1>3 DEF Enforce, GuardOK
  <2>3. DOMAIN attrs' = DOMAIN attrs
    BY <2>1, <2>2 DEF Put
  <2>4. decoding'.trace = decoding.trace
    BY <2>1
  <2> QED
    BY <1>0, <2>1, <2>2, <2>3, <2>4 DEF InputsOK, GuardOK
<1>4. CASE Tick
  <2>1. now' = now + 1 /\ file' = file /\ attrs' = attrs /\ decoding' = decoding
    BY <1>4 DEF Tick, guardVars
  <2> QED
    BY <1>0, <2>1 DEF InputsOK, GuardOK
<1>5. ASSUME NEW content \in Content, Edit(content)
      PROVE  InputsOK' /\ GuardOK'
  <2>1. /\ file' = [content |-> content, mtime |-> file.mtime + 1]
        /\ now' = now /\ attrs' = attrs /\ decoding' = decoding
    BY <1>5 DEF Edit, guardVars
  <2>2. file.mtime + 1 \in Nat
    BY DEF InputsOK
  <2> QED
    BY <1>0, <2>1, <2>2 DEF InputsOK, GuardOK
<1>6. CASE \/ \E d \in Decider : Decide(d) \/ \E x \in Trace : Begin(d, x)
           \/ Watch \/ ReadError \/ UNCHANGED vars
  BY <1>1, <1>6 DEF Decide, Ask, EstimateP99, ObserveP99, Throttle, FallThrough, Begin,
                    Watch, Stat, Reload, KeepChain, ReadError, vars
<1> QED
  BY <1>2, <1>3, <1>4, <1>5, <1>6 DEF Next

\* The base invariant: types, and the limiters' balance.
LEMMA TypedAlways == Spec => []Typed
<1>1. Typed /\ [Next]_vars => Typed'
  <2> SUFFICES ASSUME Typed, [Next]_vars PROVE Typed'
    OBVIOUS
  <2>1. ChainsOK' /\ RateInv'
    BY ChainsStay
  <2>2. DecidingOK' /\ VerdictOK'
    BY DecidingStays
  <2>3. InputsOK' /\ GuardOK'
    BY GuardStays
  <2> QED
    BY <2>1, <2>2, <2>3 DEF Typed
<1> QED
  BY TypedInitially, <1>1, PTL DEF Spec

\* Between any two times a limiter lets a service pass no more often than its
\* rate allows for that time and one full bucket (rateLimiter.Evaluate), for any
\* chains, services, rates and reloads: what a bucket holds and what it let pass
\* since any time add up.
THEOREM AdmitsWithinRate == Spec => []AdmittedWithinRate
<1>1. Typed => AdmittedWithinRate
  BY DEF Typed, RateInv, InBalance, Balanced, AdmittedWithinRate
<1> QED
  BY TypedAlways, <1>1, PTL
-----------------------------------------------------------------------------
(* The guard.                                                              *)

\* What the tracker knows of a key is what it saw of it: the cached estimate is
\* the number of registers filled, and only values seen fill a register.
SketchInv ==
  /\ DOMAIN tracker.sketches \subseteq Key
  /\ \A k \in DOMAIN tracker.sketches :
       LET sketch == tracker.sketches[k]
       IN  /\ IsFiniteSet(sketch.filled) /\ sketch.estimate = Cardinality(sketch.filled)
           /\ sketch.filled \subseteq {Register[v] : v \in Seen(k)}

\* The guard is done with key k of trace x.
Done(x, k) == x # decoding.trace \/ k \notin decoding.left

\* A value of a key within its budget is stored as it came.
KeptInv ==
  /\ IsFiniteSet(DOMAIN attrs)
  /\ decoding.left # {} => decoding.left \subseteq DOMAIN Attributes[decoding.trace]
  /\ \A x \in DOMAIN attrs : \A k \in DOMAIN Attributes[x] :
       IF Done(x, k) THEN WithinBudget(k) => k \in DOMAIN attrs[x] /\ attrs[x][k] = Attributes[x][k]
                     ELSE k \notin DOMAIN attrs[x]

\* The values stored as they came are among those the sketch has, and few.
RawInv ==
  Cardinality(Key) <= MaxTrackedKeys =>
    \A k \in Key : Budget[k] # 0 /\ Action[k] # "keep_and_alert" =>
      /\ StoredRaw(k) # {} => k \in DOMAIN tracker.sketches
      /\ RawRegisters(k) # {} => RawRegisters(k) \subseteq tracker.sketches[k].filled
      /\ Cardinality(RawRegisters(k)) <= Budget[k]

GuardInv == SketchInv /\ KeptInv /\ RawInv

LEMMA RoomAnywhere ==
  ASSUME NEW f, NEW k, NEW cap
  PROVE  /\ DOMAIN WithRoom(f, k, cap) \subseteq DOMAIN f
         /\ \A z \in DOMAIN WithRoom(f, k, cap) : WithRoom(f, k, cap)[z] = f[z]
         /\ k \in DOMAIN f \/ Cardinality(DOMAIN f) < cap => WithRoom(f, k, cap) = f
BY DEF WithRoom, EvictOldest

\* After the tracker saw v of k.
LEMMA Tracked ==
  ASSUME SketchInv, NEW k \in Key, NEW v
  PROVE  LET t == Track(tracker, k, v) IN
         /\ DOMAIN t.sketches \subseteq DOMAIN tracker.sketches \cup {k}
         /\ k \in DOMAIN t.sketches
         /\ \A z \in DOMAIN t.sketches : z # k => /\ z \in DOMAIN tracker.sketches
                                                  /\ t.sketches[z] = tracker.sketches[z]
         /\ IsFiniteSet(t.sketches[k].filled)
         /\ t.sketches[k].estimate = Cardinality(t.sketches[k].filled)
         /\ \A r \in t.sketches[k].filled :
              r = Register[v] \/ (k \in DOMAIN tracker.sketches /\ r \in tracker.sketches[k].filled)
         /\ Register[v] \in t.sketches[k].filled
         /\ Cardinality(Key) <= MaxTrackedKeys =>
              /\ DOMAIN t.sketches = DOMAIN tracker.sketches \cup {k}
              /\ k \in DOMAIN tracker.sketches =>
                   tracker.sketches[k].filled \subseteq t.sketches[k].filled
<1> DEFINE t == Track(tracker, k, v)
<1>1. PICK room : room = WithRoom(tracker.sketches, k, MaxTrackedKeys)
  OBVIOUS
<1>2. /\ DOMAIN room \subseteq DOMAIN tracker.sketches
      /\ \A z \in DOMAIN room : room[z] = tracker.sketches[z]
      /\ k \in DOMAIN tracker.sketches \/ Cardinality(DOMAIN tracker.sketches) < MaxTrackedKeys
           => room = tracker.sketches
  BY <1>1, RoomAnywhere
<1>3. PICK old : old = SketchOf(room, k)
  OBVIOUS
<1>4. /\ IsFiniteSet(old.filled) /\ old.estimate = Cardinality(old.filled)
      /\ k \in DOMAIN room => old = tracker.sketches[k]
      /\ k \notin DOMAIN room => old.filled = {}
  <2>1. CASE k \in DOMAIN room
    BY <1>2, <1>3, <2>1 DEF SketchOf, SketchInv
  <2>2. CASE k \notin DOMAIN room
    <3>1. old.filled = {} /\ old.estimate = 0
      BY <1>3, <2>2 DEF SketchOf, NewSketch
    <3> QED
      BY <2>2, <3>1, FS_EmptySet, Zenon
  <2> QED
    BY <2>1, <2>2
<1>5. PICK filled : filled = AddTo(old.filled, v)
  OBVIOUS
<1>6. IsFiniteSet(filled)
  BY <1>4, <1>5, FS_AddElement DEF AddTo
<1>7. PICK estimate : estimate = IF filled # old.filled THEN EstimateOf(filled) ELSE old.estimate
  OBVIOUS
<1>8. estimate = Cardinality(filled)
  BY <1>4, <1>7 DEF EstimateOf
<1>9. PICK sketch : sketch = [filled |-> filled, estimate |-> estimate, gen |-> tracker.gen + 1]
  OBVIOUS
<1>10. t.sketches = Put(room, k, sketch)
  BY <1>1, <1>3, <1>5, <1>7, <1>9 DEF Track
<1>11. /\ DOMAIN t.sketches = DOMAIN room \cup {k} /\ t.sketches[k] = sketch
       /\ \A z \in DOMAIN room : z # k => t.sketches[z] = room[z]
  BY <1>10 DEF Put
<1>12. Cardinality(Key) <= MaxTrackedKeys => room = tracker.sketches
  <2> SUFFICES ASSUME Cardinality(Key) <= MaxTrackedKeys, k \notin DOMAIN tracker.sketches
               PROVE  Cardinality(DOMAIN tracker.sketches) < MaxTrackedKeys
    BY <1>2
  <2>1. /\ IsFiniteSet(Key \ {k}) /\ Cardinality(Key \ {k}) = Cardinality(Key) - 1
        /\ Cardinality(Key) \in Nat
    BY GuardAssumption, FS_RemoveElement, FS_CardinalityType
  <2>2. DOMAIN tracker.sketches \subseteq Key \ {k}
    BY DEF SketchInv
  <2>3. /\ Cardinality(DOMAIN tracker.sketches) <= Cardinality(Key \ {k})
        /\ Cardinality(DOMAIN tracker.sketches) \in Nat
    BY <2>1, <2>2, FS_Subset, FS_CardinalityType
  <2> QED
    BY <2>1, <2>3, GuardAssumption
<1>13. sketch.filled = filled /\ sketch.estimate = estimate
  BY <1>9
<1>14. /\ Register[v] \in filled /\ old.filled \subseteq filled
       /\ \A r \in filled : r = Register[v] \/ r \in old.filled
  BY <1>5 DEF AddTo
<1> QED
  BY <1>2, <1>4, <1>6, <1>8, <1>11, <1>12, <1>13, <1>14

\* A finite set has a finite image, with no more elements.
LEMMA ImageIsFinite ==
  ASSUME NEW S, IsFiniteSet(S), NEW f
  PROVE  IsFiniteSet({f[x] : x \in S}) /\ Cardinality({f[x] : x \in S}) <= Cardinality(S)
<1> DEFINE T == {f[x] : x \in S}
           g == [x \in S |-> f[x]]
<1>1. g \in Surjection(S, T)
  BY DEF Surjection
<1> QED
  BY <1>1, FS_Surjection

\* No more registers are filled than values were seen.
LEMMA FilledBySeen ==
  ASSUME NEW S, IsFiniteSet(S), NEW filled, filled \subseteq {Register[v] : v \in S}
  PROVE  Cardinality(filled) <= Cardinality(S) /\ Cardinality(filled) \in Nat
<1> DEFINE image == {Register[v] : v \in S}
<1>1. IsFiniteSet(image) /\ Cardinality(image) <= Cardinality(S)
  BY ImageIsFinite
<1>2. Cardinality(filled) <= Cardinality(image) /\ IsFiniteSet(filled)
  BY <1>1, FS_Subset
<1>3. Cardinality(filled) \in Nat /\ Cardinality(image) \in Nat /\ Cardinality(S) \in Nat
  BY <1>1, <1>2, FS_CardinalityType
<1> HIDE DEF image
<1> QED
  BY <1>1, <1>2, <1>3

LEMMA SeenIsFinite ==
  ASSUME IsFiniteSet(DOMAIN attrs), NEW k
  PROVE  IsFiniteSet(Seen(k)) /\ Cardinality(Seen(k)) \in Nat
<1> DEFINE S == {y \in DOMAIN attrs : k \in DOMAIN Attributes[y]}
           f == [x \in S |-> Attributes[x][k]]
<1>1. IsFiniteSet(S)
  BY FS_Subset
<1>2. Seen(k) = {f[x] : x \in S}
  BY DEF Seen
<1> HIDE DEF S, f
<1>3. IsFiniteSet({f[x] : x \in S})
  BY <1>1, ImageIsFinite
<1> QED
  BY <1>2, <1>3, FS_CardinalityType

LEMMA GuardInitially == Init => GuardInv
<1> SUFFICES ASSUME Init PROVE GuardInv
  OBVIOUS
<1>1. DOMAIN tracker.sketches = {} /\ DOMAIN attrs = {} /\ decoding.left = {}
  BY DEF Init, NewTracker
<1>2. IsFiniteSet({}) /\ Cardinality({}) = 0
  BY FS_EmptySet, Zenon
<1>3. \A k : StoredRaw(k) = {} /\ RawRegisters(k) = {}
  BY <1>1 DEF StoredRaw, RawRegisters
<1>4. SketchInv
  BY <1>1 DEF SketchInv
<1>5. KeptInv
  BY <1>1, <1>2 DEF KeptInv
<1>6. RawInv
  <2>1. \A k \in Key : Budget[k] \in Nat
    BY GuardAssumption
  <2> QED
    BY <1>2, <1>3, <2>1 DEF RawInv
<1> QED
  BY <1>4, <1>5, <1>6 DEF GuardInv
\* With more values seen, a key can only leave its budget.
LEMMA BudgetShrinks ==
  ASSUME GuardInv, NEW x \in Trace, Decode(x)
  PROVE  \A k \in Key : WithinBudget(k)' => WithinBudget(k)
<1>1. DOMAIN attrs' = DOMAIN attrs \cup {x}
  BY DEF Decode, Put
<1>2. IsFiniteSet(DOMAIN attrs) /\ IsFiniteSet(DOMAIN attrs')
  BY <1>1, FS_AddElement DEF GuardInv, KeptInv
<1>3. \A k : Seen(k) \subseteq Seen(k)'
  BY <1>1 DEF Seen
<1>4. ASSUME NEW k \in Key, WithinBudget(k)'
      PROVE  WithinBudget(k)
  <2>1. IsFiniteSet(Seen(k)') /\ Cardinality(Seen(k)') \in Nat
    <3> DEFINE S == {y \in DOMAIN attrs' : k \in DOMAIN Attributes[y]}
               f == [y \in S |-> Attributes[y][k]]
    <3>1. IsFiniteSet(S)
      BY <1>2, FS_Subset
    <3>2. Seen(k)' = {f[y] : y \in S}
      BY DEF Seen
    <3> HIDE DEF S, f
    <3>3. IsFiniteSet({f[y] : y \in S})
      BY <3>1, ImageIsFinite
    <3> QED
      BY <3>2, <3>3, FS_CardinalityType
  <2>2. Cardinality(Seen(k)) <= Cardinality(Seen(k)') /\ Cardinality(Seen(k)) \in Nat
    BY <1>2, <1>3, <2>1, FS_Subset, SeenIsFinite
  <2>3. Budget[k] \in Nat
    BY GuardAssumption
  <2> QED
    BY <1>4, <2>1, <2>2, <2>3 DEF WithinBudget
<1> QED
  BY <1>4

\* A trace that the guard is given has nothing stored yet.
LEMMA DecodeKeeps ==
  ASSUME Typed, GuardInv, NEW x \in Trace, Decode(x)
  PROVE  GuardInv'
<1>1. /\ x \notin DOMAIN attrs /\ decoding.left = {} /\ tracker' = tracker
      /\ DOMAIN attrs' = DOMAIN attrs \cup {x} /\ attrs'[x] = <<>>
      /\ \A y \in DOMAIN attrs : attrs'[y] = attrs[y]
      /\ decoding'.trace = x /\ decoding'.left = DOMAIN Attributes[x]
  <2>1. attrs' = Put(attrs, x, <<>>) /\ x \notin DOMAIN attrs
    BY DEF Decode
  <2>2. \A y \in DOMAIN attrs : attrs'[y] = attrs[y]
    <3>1. \A y \in DOMAIN attrs : y # x => Put(attrs, x, <<>>)[y] = attrs[y]
      BY DEF Put
    <3> QED
      BY <2>1, <3>1
  <2>3. DOMAIN attrs' = DOMAIN attrs \cup {x} /\ attrs'[x] = <<>>
    BY <2>1 DEF Put
  <2> QED
    BY <2>1, <2>2, <2>3 DEF Decode
<1>2. IsFiniteSet(DOMAIN attrs) /\ IsFiniteSet(DOMAIN attrs')
  BY <1>1, FS_AddElement DEF GuardInv, KeptInv
<1>3. \A k : Seen(k) \subseteq Seen(k)'
  BY <1>1 DEF Seen
<1>4. \A k : StoredRaw(k)' = StoredRaw(k) /\ RawRegisters(k)' = RawRegisters(k)
  <2> SUFFICES ASSUME NEW k PROVE StoredRaw(k)' = StoredRaw(k) /\ RawRegisters(k)' = RawRegisters(k)
    OBVIOUS
  <2>1. DOMAIN attrs'[x] = {}
    BY <1>1
  <2>2. StoredRaw(k)' = StoredRaw(k)
    BY <1>1, <2>1 DEF StoredRaw
  <2> QED
    BY <2>2 DEF RawRegisters
<1>5. \A k \in Key : WithinBudget(k)' => WithinBudget(k)
  BY BudgetShrinks
<1>6. SketchInv'
  BY <1>1, <1>3 DEF GuardInv, SketchInv
<1>7. KeptInv'
  <2>1. ASSUME NEW y \in DOMAIN attrs', NEW k \in DOMAIN Attributes[y]
        PROVE  IF Done(y, k)' THEN WithinBudget(k)' => k \in DOMAIN attrs'[y] /\ attrs'[y][k] = Attributes[y][k]
                              ELSE k \notin DOMAIN attrs'[y]
    <3>1. CASE y = x
      BY <1>1, <3>1 DEF Done
    <3>2. CASE y # x
      <4>1. y \in DOMAIN attrs /\ attrs'[y] = attrs[y] /\ Done(y, k) /\ Done(y, k)'
        BY <1>1, <3>2 DEF Done
      <4>2. k \in Key
        BY <4>1, SamplingAssumption DEF Typed, GuardOK
      <4>3. WithinBudget(k) => k \in DOMAIN attrs[y] /\ attrs[y][k] = Attributes[y][k]
        BY <4>1 DEF GuardInv, KeptInv
      <4> QED
        BY <1>5, <4>1, <4>2, <4>3
    <3> QED
      BY <3>1, <3>2
  <2> QED
    BY <1>1, <1>2, <2>1 DEF KeptInv
<1>8. RawInv'
  BY <1>1, <1>4 DEF GuardInv, RawInv
<1> QED
  BY <1>6, <1>7, <1>8 DEF GuardInv

\* The tracker sees a value first and then the guard stores it, or not: what it
\* stores as it came is in the sketch, whose estimate was below the budget.
LEMMA EnforceKeeps ==
  ASSUME Typed, GuardInv, NEW k \in Key, Enforce(k)
  PROVE  GuardInv'
<1> DEFINE x == decoding.trace
           v == Attributes[x][k]
           kept == WithEnforced(attrs[x], tracker', k, v)
<1>1. /\ k \in decoding.left /\ tracker' = Track(tracker, k, v)
      /\ attrs' = Put(attrs, x, kept)
      /\ decoding'.trace = x /\ decoding'.left = decoding.left \ {k}
  BY DEF Enforce
<1>2. x \in DOMAIN attrs /\ decoding.left \subseteq DOMAIN Attributes[x] /\ k \in DOMAIN Attributes[x]
  BY <1>1 DEF Typed, GuardOK, GuardInv, KeptInv
<1>3. /\ DOMAIN attrs' = DOMAIN attrs /\ attrs'[x] = kept
      /\ \A y \in DOMAIN attrs : y # x => attrs'[y] = attrs[y]
  BY <1>1, <1>2 DEF Put
<1>4. k \notin DOMAIN attrs[x]
  BY <1>1, <1>2 DEF GuardInv, KeptInv, Done
<1>5. \A j : Seen(j)' = Seen(j) /\ (WithinBudget(j)' <=> WithinBudget(j))
  BY <1>3 DEF Seen, WithinBudget
<1>6. v \in Seen(k)
  BY <1>2 DEF Seen
<1>7. /\ DOMAIN tracker'.sketches \subseteq DOMAIN tracker.sketches \cup {k}
      /\ k \in DOMAIN tracker'.sketches
      /\ \A z \in DOMAIN tracker'.sketches : z # k => /\ z \in DOMAIN tracker.sketches
                                                      /\ tracker'.sketches[z] = tracker.sketches[z]
      /\ IsFiniteSet(tracker'.sketches[k].filled)
      /\ tracker'.sketches[k].estimate = Cardinality(tracker'.sketches[k].filled)
      /\ \A r \in tracker'.sketches[k].filled :
           r = Register[v] \/ (k \in DOMAIN tracker.sketches /\ r \in tracker.sketches[k].filled)
      /\ Register[v] \in tracker'.sketches[k].filled
      /\ Cardinality(Key) <= MaxTrackedKeys =>
           /\ DOMAIN tracker'.sketches = DOMAIN tracker.sketches \cup {k}
           /\ k \in DOMAIN tracker.sketches =>
                tracker.sketches[k].filled \subseteq tracker'.sketches[k].filled
  <2>1. SketchInv
    BY DEF GuardInv
  <2>2. PICK t : t = Track(tracker, k, v)
    OBVIOUS
  <2> HIDE DEF v, x, kept
  <2>3. /\ DOMAIN t.sketches \subseteq DOMAIN tracker.sketches \cup {k}
        /\ k \in DOMAIN t.sketches
        /\ \A z \in DOMAIN t.sketches : z # k => /\ z \in DOMAIN tracker.sketches
                                                 /\ t.sketches[z] = tracker.sketches[z]
        /\ IsFiniteSet(t.sketches[k].filled)
        /\ t.sketches[k].estimate = Cardinality(t.sketches[k].filled)
        /\ \A r \in t.sketches[k].filled :
             r = Register[v] \/ (k \in DOMAIN tracker.sketches /\ r \in tracker.sketches[k].filled)
        /\ Register[v] \in t.sketches[k].filled
        /\ Cardinality(Key) <= MaxTrackedKeys =>
             /\ DOMAIN t.sketches = DOMAIN tracker.sketches \cup {k}
             /\ k \in DOMAIN tracker.sketches =>
                  tracker.sketches[k].filled \subseteq t.sketches[k].filled
    BY <2>1, <2>2, Tracked
  <2> QED
    BY <1>1, <2>2, <2>3
<1> HIDE DEF v, x, kept
<1>8. SketchInv'
  <2>1. DOMAIN tracker'.sketches \subseteq Key
    BY <1>7 DEF GuardInv, SketchInv
  <2>2. tracker'.sketches[k].filled \subseteq {Register[u] : u \in Seen(k)}
    BY <1>6, <1>7 DEF GuardInv, SketchInv
  <2> QED
    BY <1>5, <1>7, <2>1, <2>2 DEF GuardInv, SketchInv
<1>9. /\ \A j : j # k => (j \in DOMAIN kept <=> j \in DOMAIN attrs[x])
      /\ \A j \in DOMAIN kept : j # k => kept[j] = attrs[x][j]
      /\ ~Breached(tracker', k) \/ Action[k] = "keep_and_alert" => k \in DOMAIN kept /\ kept[k] = v
      /\ Breached(tracker', k) /\ Action[k] # "keep_and_alert" =>
           k \notin DOMAIN kept \/ kept[k] = Bucketed[k][v]
  <2>1. CASE ~Breached(tracker', k) \/ Action[k] = "keep_and_alert"
    <3>1. kept = Put(attrs[x], k, v)
      BY <2>1 DEF kept, WithEnforced
    <3> QED
      BY <2>1, <3>1 DEF Put
  <2>2. CASE Breached(tracker', k) /\ Action[k] = "bucket"
    <3>1. kept = Put(attrs[x], k, Bucketed[k][v])
      BY <2>2 DEF kept, WithEnforced
    <3> QED
      BY <2>2, <3>1 DEF Put
  <2>3. CASE Breached(tracker', k) /\ Action[k] \notin {"bucket", "keep_and_alert"}
    <3>1. kept = attrs[x]
      BY <2>3 DEF kept, WithEnforced
    <3> QED
      BY <1>4, <2>3, <3>1
  <2> QED
    BY <2>1, <2>2, <2>3
<1>10. WithinBudget(k) => ~Breached(tracker', k) \/ Action[k] = "keep_and_alert"
  <2> SUFFICES ASSUME Cardinality(Seen(k)) < Budget[k]
               PROVE  tracker'.sketches[k].estimate < Budget[k]
    <3>1. tracker'.sketches[k].estimate \in Nat /\ Budget[k] \in Nat
      BY <1>7, FS_CardinalityType, GuardAssumption
    <3> QED
      BY <3>1 DEF WithinBudget, Breached
  <2>1. tracker'.sketches[k].filled \subseteq {Register[u] : u \in Seen(k)}
    BY <1>5, <1>7, <1>8 DEF SketchInv
  <2>2. IsFiniteSet(Seen(k)) /\ Cardinality(Seen(k)) \in Nat
    BY SeenIsFinite DEF GuardInv, KeptInv
  <2>3. /\ Cardinality(tracker'.sketches[k].filled) <= Cardinality(Seen(k))
        /\ Cardinality(tracker'.sketches[k].filled) \in Nat
    BY <2>1, <2>2, FilledBySeen
  <2>4. Budget[k] \in Nat
    BY GuardAssumption
  <2> QED
    BY <1>7, <2>2, <2>3, <2>4
<1>11. KeptInv'
  <2>1. ASSUME NEW y \in DOMAIN attrs', NEW j \in DOMAIN Attributes[y]
        PROVE  IF Done(y, j)' THEN WithinBudget(j)' => j \in DOMAIN attrs'[y] /\ attrs'[y][j] = Attributes[y][j]
                              ELSE j \notin DOMAIN attrs'[y]
    <3>0. IF Done(y, j) THEN WithinBudget(j) => j \in DOMAIN attrs[y] /\ attrs[y][j] = Attributes[y][j]
                        ELSE j \notin DOMAIN attrs[y]
      BY <1>3 DEF GuardInv, KeptInv
    <3>1. CASE y # x
      <4>1. attrs'[y] = attrs[y] /\ Done(y, j) /\ Done(y, j)'
        BY <1>1, <1>3, <3>1 DEF Done, x
      <4> QED
        BY <1>5, <3>0, <4>1
    <3>2. CASE y = x /\ j = k
      <4>1. Done(y, j)'
        BY <1>1, <3>2 DEF Done
      <4>2. WithinBudget(k) => k \in DOMAIN kept /\ kept[k] = Attributes[x][k]
        BY <1>9, <1>10 DEF v
      <4> QED
        BY <1>3, <1>5, <3>2, <4>1, <4>2
    <3>3. CASE y = x /\ j # k
      <4>1. Done(y, j)' <=> Done(y, j)
        BY <1>1, <3>3 DEF Done, x
      <4>2. /\ j \in DOMAIN attrs'[y] <=> j \in DOMAIN attrs[y]
            /\ j \in DOMAIN attrs'[y] => attrs'[y][j] = attrs[y][j]
        BY <1>3, <1>9, <3>3
      <4> QED
        BY <1>5, <3>0, <4>1, <4>2
    <3> QED
      BY <3>1, <3>2, <3>3
  <2>2. decoding'.left # {} => decoding'.left \subseteq DOMAIN Attributes[decoding'.trace]
    BY <1>1, <1>2
  <2>3. IsFiniteSet(DOMAIN attrs')
    BY <1>3 DEF GuardInv, KeptInv
  <2> QED
    BY <2>1, <2>2, <2>3 DEF KeptInv
<1>12. RawInv'
  <2> SUFFICES ASSUME Cardinality(Key) <= MaxTrackedKeys,
                      NEW j \in Key, Budget[j] # 0, Action[j] # "keep_and_alert"
               PROVE  /\ StoredRaw(j)' # {} => j \in DOMAIN tracker'.sketches
                      /\ RawRegisters(j)' # {} => RawRegisters(j)' \subseteq tracker'.sketches[j].filled
                      /\ Cardinality(RawRegisters(j)') <= Budget[j]
    BY DEF RawInv
  <2>0. /\ StoredRaw(j) # {} => j \in DOMAIN tracker.sketches
        /\ RawRegisters(j) # {} => RawRegisters(j) \subseteq tracker.sketches[j].filled
        /\ Cardinality(RawRegisters(j)) <= Budget[j]
    BY DEF GuardInv, RawInv
  <2>1. CASE j # k
    <3>1. StoredRaw(j)' = StoredRaw(j)
      <4>1. \A y \in DOMAIN attrs : /\ j \in DOMAIN attrs'[y] <=> j \in DOMAIN attrs[y]
                                    /\ j \in DOMAIN attrs[y] => attrs'[y][j] = attrs[y][j]
        BY <1>3, <1>9, <2>1
      <4> QED
        BY <1>3, <4>1 DEF StoredRaw
    <3>2. RawRegisters(j)' = RawRegisters(j)
      BY <3>1 DEF RawRegisters
    <3>3. StoredRaw(j) # {} => j \in DOMAIN tracker'.sketches
      BY <1>7, <2>0
    <3>4. RawRegisters(j) # {} => StoredRaw(j) # {}
      BY DEF RawRegisters
    <3>5. RawRegisters(j) # {} => RawRegisters(j) \subseteq tracker'.sketches[j].filled
      BY <1>7, <2>0, <2>1, <3>3, <3>4
    <3> QED
      BY <2>0, <3>1, <3>2, <3>3, <3>5
  <2>2. CASE j = k
    <3>1. StoredRaw(k) \subseteq StoredRaw(k)' /\ StoredRaw(k)' \subseteq StoredRaw(k) \cup {x}
      <4>1. x \notin StoredRaw(k)
        BY <1>4 DEF StoredRaw
      <4> QED
        BY <1>3, <4>1 DEF StoredRaw
    <3>2. RawRegisters(k)' \subseteq RawRegisters(k) \cup {Register[v]}
      BY <3>1 DEF RawRegisters, v
    <3>3. k \in DOMAIN tracker'.sketches
      BY <1>7
    <3>4. RawRegisters(k) # {} => StoredRaw(k) # {}
      BY DEF RawRegisters
    <3>5. RawRegisters(k) \subseteq tracker'.sketches[k].filled
      BY <1>7, <2>0, <2>2, <3>4
    <3>6. RawRegisters(k)' \subseteq tracker'.sketches[k].filled
      BY <1>7, <3>2, <3>5
    <3>7. CASE Breached(tracker', k)
      <4>1. x \notin StoredRaw(k)'
        BY <1>3, <1>9, <2>2, <3>7 DEF StoredRaw, v
      <4>2. StoredRaw(k)' = StoredRaw(k)
        BY <3>1, <4>1
      <4>3. RawRegisters(k)' = RawRegisters(k)
        BY <4>2 DEF RawRegisters
      <4> QED
        BY <2>0, <2>2, <3>3, <3>6, <4>3
    <3>8. CASE ~Breached(tracker', k)
      <4>1. tracker'.sketches[k].estimate \in Nat /\ Budget[k] \in Nat
        BY <1>7, FS_CardinalityType, GuardAssumption
      <4>2. tracker'.sketches[k].estimate <= Budget[k]
        BY <2>2, <3>8, <4>1 DEF Breached
      <4>3. /\ Cardinality(RawRegisters(k)') <= Cardinality(tracker'.sketches[k].filled)
            /\ Cardinality(RawRegisters(k)') \in Nat
        BY <1>7, <3>6, FS_Subset, FS_CardinalityType
      <4> QED
        BY <1>7, <2>2, <3>3, <3>6, <4>1, <4>2, <4>3
    <3> QED
      BY <3>7, <3>8
  <2> QED
    BY <2>1, <2>2
<1> QED
  BY <1>8, <1>11, <1>12 DEF GuardInv

\* No other step touches what the guard works on.
LEMMA GuardKeeps ==
  ASSUME Typed, GuardInv, [Next]_vars
  PROVE  GuardInv'
<1>1. CASE UNCHANGED guardVars
  <2>1. tracker' = tracker /\ attrs' = attrs /\ decoding' = decoding
    BY <1>1 DEF guardVars
  <2>2. \A k : Seen(k)' = Seen(k) /\ StoredRaw(k)' = StoredRaw(k)
    BY <2>1 DEF Seen, StoredRaw
  <2>3. \A k : RawRegisters(k)' = RawRegisters(k) /\ (WithinBudget(k)' <=> WithinBudget(k))
    BY <2>2 DEF RawRegisters, WithinBudget
  <2>4. SketchInv'
    BY <2>1, <2>2 DEF GuardInv, SketchInv
  <2>5. KeptInv'
    BY <2>1, <2>3 DEF GuardInv, KeptInv, Done
  <2>6. RawInv'
    BY <2>1, <2>2, <2>3 DEF GuardInv, RawInv
  <2> QED
    BY <2>4, <2>5, <2>6 DEF GuardInv
<1>2. CASE UNCHANGED vars
  BY <1>1, <1>2 DEF vars
<1>3. CASE \/ Tick \/ Watch \/ ReadError \/ \E content \in Content : Edit(content)
           \/ \E d \in Decider : Decide(d) \/ \E x \in Trace : Begin(d, x)
  BY <1>1, <1>3 DEF Tick, Edit, Watch, Stat, Reload, KeepChain, ReadError, Begin, Decide, Ask,
                    EstimateP99, ObserveP99, Throttle, FallThrough
<1> QED
  BY <1>2, <1>3, DecodeKeeps, EnforceKeeps DEF Next

LEMMA GuardAlways == Spec => []GuardInv
<1>1. Typed /\ GuardInv /\ [Next]_vars => GuardInv'
  BY GuardKeeps
<1> QED
  BY GuardInitially, TypedAlways, <1>1, PTL DEF Spec

\* However many values of a key arrive, in whatever order, no more of them are
\* stored as they came than its budget (CardinalityTracker.Observe, Enforce):
\* what is stored raw is in the key's sketch, and the cached estimate is the
\* sketch's own.
THEOREM StoresWithinBudget == Spec => []StoredWithinBudget
<1>1. GuardInv => StoredWithinBudget
  BY DEF GuardInv, RawInv, StoredWithinBudget
<1> QED
  BY GuardAlways, <1>1, PTL
-----------------------------------------------------------------------------
(* The decisions.                                                          *)

SlowestOfAll(x) == \A y \in Trace \ {x} : Duration[y] \in 1 .. Duration[x] - 1

\* The trace of a decision is fully read, undecided, and its own.
Owns(d) ==
  /\ deciding[d].trace \in Checked /\ deciding[d].trace \notin DOMAIN verdict
  /\ \A e \in Decider \ {d} : deciding[e].trace # deciding[d].trace

\* The windows that had an entry when the decision began still have one.
StaysWarm(d) ==
  \A i \in deciding[d].warm :
    i \in DOMAIN Policies(d) /\ chains[ChainOf(d)].state[i].window # <<>>

\* No policy behind it keeps the trace for sure.
Walked(d) ==
  \A j \in DOMAIN Policies(d) :
    j < At(d) => ~KeepsForSure(Policies(d)[j], deciding[d].trace, j \in deciding[d].warm)

\* An estimate taken from a warm window is one of another trace.
Measured(d) ==
  deciding[d].estimate # -1 /\ At(d) \in deciding[d].warm /\ SlowestOfAll(deciding[d].trace)
    => deciding[d].estimate \in 1 .. Duration[deciding[d].trace] - 1

\* A duration in a window is of a trace that is decided, or of a decision with
\* the same chain that is past the window's policy.
EntryOf(c, i, v) ==
  \E y \in Trace :
    /\ Duration[y] = v
    /\ \/ y \in DOMAIN verdict
       \/ \E d \in Decider : deciding[d].trace = y /\ ChainOf(d) = c /\ i < At(d)
EntriesInv ==
  \A c \in DOMAIN chains : \A i \in DOMAIN chains[c].policies :
    \A j \in DOMAIN chains[c].state[i].window : EntryOf(c, i, chains[c].state[i].window[j])

DecisionInv ==
  \A d \in Decider : deciding[d] # Idle => Owns(d) /\ StaysWarm(d) /\ Walked(d) /\ Measured(d)

\* Chain policies are indexed from 1.
LEMMA PolicyIndex ==
  ASSUME ChainsOK, NEW c \in DOMAIN chains
  PROVE  \E n \in Nat : DOMAIN chains[c].policies = 1 .. n
<1>1. PICK content \in Content : content = chains[c].policies
  BY DEF ChainsOK, IsChain, Chain, Valid
<1>2. content \in Seq({content[i] : i \in DOMAIN content})
  BY SamplingAssumption
<1>3. DOMAIN content = 1 .. Len(content) /\ Len(content) \in Nat
  BY <1>2
<1> QED
  BY <1>1, <1>3

\* A trace that is read stays read, and a key out of its budget stays out.
LEMMA InputsAge ==
  ASSUME Typed, GuardInv, [Next]_vars
  PROVE  /\ Checked \subseteq Checked'
         /\ \A k \in Key : WithinBudget(k)' => WithinBudget(k)
<1>1. CASE attrs' = attrs /\ decoding' = decoding
  BY <1>1 DEF Checked, WithinBudget, Seen
<1>2. ASSUME NEW x \in Trace, Decode(x)
      PROVE  Checked \subseteq Checked' /\ \A k \in Key : WithinBudget(k)' => WithinBudget(k)
  <2>1. Checked \subseteq Checked'
    <3>1. /\ attrs' = Put(attrs, x, <<>>) /\ x \notin DOMAIN attrs
          /\ decoding' = [trace |-> x, left |-> DOMAIN Attributes[x]]
      BY <1>2 DEF Decode
    <3>2. DOMAIN attrs' = DOMAIN attrs \cup {x} /\ decoding'.trace = x
      BY <3>1 DEF Put
    <3> QED
      BY <3>1, <3>2 DEF Checked
  <2> QED
    BY <1>2, <2>1, BudgetShrinks
<1>3. ASSUME NEW k \in Key, Enforce(k)
      PROVE  Checked \subseteq Checked' /\ \A j \in Key : WithinBudget(j)' => WithinBudget(j)
  <2>1. /\ k \in decoding.left /\ decoding.trace \in DOMAIN attrs
        /\ decoding' = [decoding EXCEPT !.left = @ \ {k}]
    BY <1>3 DEF Enforce, Typed, GuardOK
  <2>2. DOMAIN attrs' = DOMAIN attrs
    BY <1>3, <2>1 DEF Enforce, Put
  <2>3. decoding'.trace = decoding.trace
    BY <2>1
  <2> QED
    BY <2>1, <2>2, <2>3 DEF Checked, WithinBudget, Seen
<1> QED
  BY <1>1, <1>2, <1>3 DEF Next, Tick, Begin, Decide, Ask, EstimateP99, ObserveP99, Throttle, FallThrough,
                          Edit, Watch, Stat, Reload, KeepChain, ReadError, guardVars, vars

\* What a policy keeps for sure after the step, it kept for sure before.
LEMMA SureBefore ==
  ASSUME Typed, GuardInv, [Next]_vars, NEW p, NEW x \in Trace, NEW warm \in BOOLEAN,
         KeepsForSure(p, x, warm)'
  PROVE  KeepsForSure(p, x, warm)
<1>1. p.key \in DOMAIN Attributes[x] => p.key \in Key
  BY SamplingAssumption
<1> QED
  BY <1>1, InputsAge DEF KeepsForSure

LEMMA SureWhenBefore ==
  ASSUME Typed, GuardInv, [Next]_vars, NEW p, NEW x \in Trace, NEW i, NEW warms,
         KeepsForSure(p, x, i \in warms)'
  PROVE  KeepsForSure(p, x, i \in warms)
<1>1. CASE i \in warms
  <2>1. KeepsForSure(p, x, TRUE)'
    BY <1>1 DEF KeepsForSure
  <2>2. KeepsForSure(p, x, TRUE)
    BY <2>1, SureBefore
  <2> QED
    BY <1>1, <2>2 DEF KeepsForSure
<1>2. CASE i \notin warms
  <2>1. KeepsForSure(p, x, FALSE)'
    BY <1>2 DEF KeepsForSure
  <2>2. KeepsForSure(p, x, FALSE)
    BY <2>1, SureBefore
  <2> QED
    BY <1>2, <2>2 DEF KeepsForSure
<1> QED
  BY <1>1, <1>2

\* What a step does to a window: it takes the duration of a decision that looks
\* at it, or stays as it is.
LEMMA WindowsMove ==
  ASSUME Typed, [Next]_vars, NEW c \in DOMAIN chains', NEW i \in DOMAIN chains'[c].policies
  PROVE  /\ c \in DOMAIN chains /\ chains[c].state[i].window # <<>> => chains'[c].state[i].window # <<>>
         /\ \A j \in DOMAIN chains'[c].state[i].window :
              \/ /\ c \in DOMAIN chains /\ i \in DOMAIN chains[c].policies
                 /\ \E l \in DOMAIN chains[c].state[i].window :
                      chains'[c].state[i].window[j] = chains[c].state[i].window[l]
              \/ \E d \in Decider : /\ ObserveP99(d) /\ ChainOf(d) = c /\ At(d) = i
                                    /\ chains'[c].state[i].window[j] = Duration[deciding[d].trace]
<1>1. CASE chains' = chains
  BY <1>1
<1>2. CASE Reload
  <2>1. CASE c \in DOMAIN chains
    BY <1>2, <2>1, ReloadAdds
  <2>2. CASE c \notin DOMAIN chains
    <3>1. chains'[c] = NewChain(file.content) /\ file.content \in Valid
      BY <1>2, <2>2, ReloadAdds
    <3>2. chains'[c].state[i] = Fresh
      BY <3>1, NewIsChain
    <3>3. DOMAIN chains'[c].state[i].window = {}
      BY <3>2 DEF Fresh
    <3> QED
      BY <2>2, <3>3
  <2> QED
    BY <2>1, <2>2
<1>3. ASSUME NEW d \in Decider, Throttle(d)
      PROVE  /\ c \in DOMAIN chains /\ i \in DOMAIN chains[c].policies
             /\ chains'[c].state[i].window = chains[c].state[i].window
  <2>1. PICK state \in PolicyState : /\ Updated(ChainOf(d), At(d), state)
                                     /\ state.window = StateOf(d).window
    BY <1>3, ThrottleUpdates
  <2>2. StateOf(d) = chains[ChainOf(d)].state[At(d)]
    BY DEF StateOf
  <2>3. c \in DOMAIN chains /\ i \in DOMAIN chains[c].policies
    BY <2>1 DEF Updated
  <2> QED
    BY <2>1, <2>2, <2>3 DEF Updated
<1>4. ASSUME NEW d \in Decider, ObserveP99(d)
      PROVE  /\ c \in DOMAIN chains /\ i \in DOMAIN chains[c].policies
             /\ \/ chains'[c].state[i] = chains[c].state[i]
                \/ /\ ChainOf(d) = c /\ At(d) = i
                   /\ chains'[c].state[i].window # <<>>
                   /\ \A j \in DOMAIN chains'[c].state[i].window :
                        \/ chains'[c].state[i].window[j] = Duration[deciding[d].trace]
                        \/ j - 1 \in DOMAIN chains[c].state[i].window
                           /\ chains'[c].state[i].window[j] = chains[c].state[i].window[j - 1]
  <2>1. PICK state : /\ state = Observe(StateOf(d), Duration[deciding[d].trace])
                     /\ Updated(ChainOf(d), At(d), state)
    BY <1>4, ObserveUpdates
  <2>2. c \in DOMAIN chains /\ i \in DOMAIN chains[c].policies
    BY <2>1 DEF Updated
  <2>3. CASE ChainOf(d) = c /\ At(d) = i
    <3>1. StateOf(d) \in PolicyState /\ deciding[d].trace \in Trace /\ StateOf(d) = chains[c].state[i]
      BY <1>4, <2>3, PolicyAt DEF ObserveP99
    <3>2. PICK duration \in Nat : duration = Duration[deciding[d].trace]
      BY <3>1, PolicyAssumption
    <3>3. /\ state.window # <<>>
          /\ \A j \in DOMAIN state.window :
               \/ state.window[j] = duration
               \/ j - 1 \in DOMAIN StateOf(d).window /\ state.window[j] = StateOf(d).window[j - 1]
      BY <2>1, <3>1, <3>2, WindowSlides
    <3>4. chains'[c].state[i] = state
      BY <2>1, <2>3 DEF Updated
    <3> QED
      BY <2>2, <2>3, <3>1, <3>2, <3>3, <3>4
  <2>4. CASE ~(ChainOf(d) = c /\ At(d) = i)
    BY <2>1, <2>2, <2>4 DEF Updated
  <2> QED
    BY <2>3, <2>4
<1>5. ASSUME NEW d \in Decider, ObserveP99(d)
      PROVE  /\ chains[c].state[i].window # <<>> => chains'[c].state[i].window # <<>>
             /\ \A j \in DOMAIN chains'[c].state[i].window :
                  \/ /\ c \in DOMAIN chains /\ i \in DOMAIN chains[c].policies
                     /\ \E l \in DOMAIN chains[c].state[i].window :
                          chains'[c].state[i].window[j] = chains[c].state[i].window[l]
                  \/ \E e \in Decider : /\ ObserveP99(e) /\ ChainOf(e) = c /\ At(e) = i
                                        /\ chains'[c].state[i].window[j] = Duration[deciding[e].trace]
  <2>1. CASE chains'[c].state[i] = chains[c].state[i]
    BY <1>4, <1>5, <2>1
  <2>2. CASE chains'[c].state[i] # chains[c].state[i]
    BY <1>4, <1>5, <2>2
  <2> QED
    BY <2>1, <2>2
<1>6. CASE chains' # chains /\ ~Reload /\ \A d \in Decider : ~Throttle(d) /\ ~ObserveP99(d)
  BY <1>6 DEF Next, Tick, Decode, Enforce, Begin, Decide, Ask, EstimateP99, FallThrough,
              Edit, Watch, Stat, KeepChain, ReadError, decisionVars, vars
<1>7. CASE \E d \in Decider : Throttle(d)
  BY <1>3, <1>7
<1> QED
  BY <1>1, <1>2, <1>5, <1>6, <1>7
\* A policy is asked: what it says is in accordance with what it keeps for sure
\* and what it may drop.
Justified(d, opinion) ==
  /\ opinion \in {"sample", "drop", "abstain"}
  /\ opinion = "abstain" =>
       At(d) \in DOMAIN Policies(d)
       /\ ~KeepsForSure(PolicyOf(d), deciding[d].trace, At(d) \in deciding[d].warm)
  /\ opinion = "drop" /\ At(d) \in DOMAIN Policies(d) => MayDrop(PolicyOf(d))

\* A policy sees the attribute it looks for as it came, if its key is within budget.
LEMMA KeptAsIs ==
  ASSUME Typed, GuardInv, NEW d \in Decider, Owns(d), deciding[d] # Idle,
         NEW k \in DOMAIN Attributes[deciding[d].trace], WithinBudget(k)
  PROVE  /\ k \in DOMAIN attrs[deciding[d].trace]
         /\ attrs[deciding[d].trace][k] = Attributes[deciding[d].trace][k]
<1>1. deciding[d].trace \in DOMAIN attrs /\ Done(deciding[d].trace, k)
  BY DEF Owns, Checked, Done
<1> QED
  BY <1>1 DEF GuardInv, KeptInv

\* What the policies without a state say is justified.
LEMMA AskIsJustified ==
  ASSUME Typed, GuardInv, NEW d \in Decider, Owns(d), Ask(d)
  PROVE  \E opinion : Proceed(d, opinion) /\ Justified(d, opinion)
<1> DEFINE x == deciding[d].trace
           p == PolicyOf(d)
           opinion == Opinion(p, x, attrs[x])
<1>1. PICK type \in Stateless : PolicyIs(d, type)
  BY DEF Ask
<1>2. /\ x \in Trace /\ p.type = type /\ deciding[d] # Idle /\ At(d) \in DOMAIN Policies(d)
  BY <1>1, PolicyAt DEF PolicyIs
<1>3. Proceed(d, opinion)
  BY DEF Ask
<1>a. opinion = "sample" => Justified(d, opinion)
  BY DEF Justified
<1>b. opinion = "abstain" /\ ~KeepsForSure(p, x, At(d) \in deciding[d].warm) => Justified(d, opinion)
  BY <1>2 DEF Justified
<1> HIDE DEF opinion, x, p
<1>4. CASE type = "always_sample_errors"
  <2>1. opinion = SampleIf(HasError[x])
    BY <1>2, <1>4 DEF opinion, Opinion, OfErrors
  <2>2. CASE HasError[x]
    BY <1>3, <1>a, <2>1, <2>2 DEF SampleIf
  <2>3. CASE ~HasError[x]
    <3>1. opinion = "abstain"
      BY <2>1, <2>3 DEF SampleIf
    <3>2. ~KeepsForSure(p, x, At(d) \in deciding[d].warm)
      BY <1>2, <1>4, <2>3 DEF KeepsForSure
    <3> QED
      BY <1>3, <1>b, <3>1, <3>2
  <2> QED
    BY <2>2, <2>3
<1>5. CASE type = "always_sample_slow"
  <2>1. opinion = SampleIf(Duration[x] > p.threshold)
    BY <1>2, <1>5 DEF opinion, Opinion, OfSlow
  <2>2. CASE Duration[x] > p.threshold
    BY <1>3, <1>a, <2>1, <2>2 DEF SampleIf
  <2>3. CASE ~(Duration[x] > p.threshold)
    <3>1. opinion = "abstain"
      BY <2>1, <2>3 DEF SampleIf
    <3>2. ~KeepsForSure(p, x, At(d) \in deciding[d].warm)
      BY <1>2, <1>5, <2>3 DEF KeepsForSure
    <3> QED
      BY <1>3, <1>b, <3>1, <3>2
  <2> QED
    BY <2>2, <2>3
<1>6. CASE type = "attribute_match"
  <2>1. opinion = SampleIf(p.key \in DOMAIN attrs[x] /\ attrs[x][p.key] = p.value)
    BY <1>2, <1>6 DEF opinion, Opinion, OfAttributes
  <2>2. CASE p.key \in DOMAIN attrs[x] /\ attrs[x][p.key] = p.value
    BY <1>3, <1>a, <2>1, <2>2 DEF SampleIf
  <2>3. CASE ~(p.key \in DOMAIN attrs[x] /\ attrs[x][p.key] = p.value)
    <3>1. ~(/\ p.key \in DOMAIN Attributes[x] /\ Attributes[x][p.key] = p.value
            /\ WithinBudget(p.key))
      BY <1>2, <2>3, KeptAsIs DEF x
    <3>2. opinion = "abstain"
      BY <2>1, <2>3 DEF SampleIf
    <3>3. ~KeepsForSure(p, x, At(d) \in deciding[d].warm)
      BY <1>2, <1>6, <3>1 DEF KeepsForSure
    <3> QED
      BY <1>3, <1>b, <3>2, <3>3
  <2> QED
    BY <2>2, <2>3
<1>7. CASE type = "probabilistic"
  <2>1. opinion \in {"sample", "drop"}
    BY <1>2, <1>7 DEF opinion, Opinion, OfProbability
  <2> QED
    BY <1>2, <1>3, <1>7, <2>1 DEF Justified, MayDrop, p
<1> QED
  BY <1>4, <1>5, <1>6, <1>7 DEF Stateless

\* And what any policy says, and the end of the chain.
LEMMA DecideIsJustified ==
  ASSUME Typed, GuardInv, DecisionInv, NEW d \in Decider,
         Ask(d) \/ ObserveP99(d) \/ Throttle(d) \/ FallThrough(d)
  PROVE  deciding[d] # Idle /\ \E opinion : Proceed(d, opinion) /\ Justified(d, opinion)
<1>1. CASE Ask(d)
  <2>1. deciding[d] # Idle
    BY <1>1 DEF Ask, PolicyIs
  <2> QED
    BY <1>1, <2>1, AskIsJustified DEF DecisionInv
<1>2. CASE ObserveP99(d)
  <2> DEFINE x == deciding[d].trace
             threshold == deciding[d].estimate
             opinion == IF threshold > 0 /\ Duration[x] > threshold THEN "sample" ELSE "abstain"
  <2>1. /\ deciding[d] # Idle /\ deciding[d] \in Decision /\ x \in Trace
        /\ PolicyOf(d).type = "rolling_p99" /\ threshold # -1
        /\ At(d) \in DOMAIN Policies(d)
    BY <1>2, PolicyAt DEF ObserveP99, PolicyIs
  <2>2. Proceed(d, opinion)
    BY <1>2 DEF ObserveP99
  <2>3. Duration[x] \in Nat /\ threshold \in Int
    BY <2>1, PolicyAssumption DEF Decision
  <2>4. ASSUME At(d) \in deciding[d].warm, SlowestOfAll(x)
        PROVE  opinion = "sample"
    <3>1. threshold \in 1 .. Duration[x] - 1
      BY <2>1, <2>4 DEF DecisionInv, Measured
    <3> QED
      BY <2>3, <3>1
  <2>5. Justified(d, opinion)
    <3>1. CASE opinion = "sample"
      BY <3>1 DEF Justified
    <3>2. CASE opinion = "abstain"
      <4>1. ~KeepsForSure(PolicyOf(d), x, At(d) \in deciding[d].warm)
        BY <2>1, <2>4, <3>2 DEF KeepsForSure, SlowestOfAll
      <4> QED
        BY <2>1, <3>2, <4>1 DEF Justified
    <3> QED
      BY <3>1, <3>2
  <2> QED
    BY <2>1, <2>2, <2>5
<1>3. CASE Throttle(d)
  <2> DEFINE opinion == IF Admits(StateOf(d), Service[deciding[d].trace], now, PolicyOf(d).perSec)
                        THEN "abstain" ELSE "drop"
  <2>1. /\ deciding[d] # Idle /\ PolicyOf(d).type = "rate_limiting" /\ At(d) \in DOMAIN Policies(d)
    BY <1>3, PolicyAt DEF Throttle, PolicyIs
  <2>2. Proceed(d, opinion)
    BY <1>3 DEF Throttle
  <2>3. opinion \in {"abstain", "drop"}
    OBVIOUS
  <2>4. Justified(d, opinion)
    BY <2>1, <2>3 DEF Justified, KeepsForSure, MayDrop
  <2> QED
    BY <2>1, <2>2, <2>4
<1>4. CASE FallThrough(d)
  <2>1. Proceed(d, "drop") /\ deciding[d] # Idle /\ At(d) \notin DOMAIN Policies(d)
    BY <1>4 DEF FallThrough, Proceed
  <2> QED
    BY <2>1 DEF Justified
<1> QED
  BY <1>1, <1>2, <1>3, <1>4

\* A decision goes on with its chain until its trace is decided.
LEMMA DecisionsGoOn ==
  ASSUME Typed, [Next]_vars, NEW d \in Decider, deciding[d] # Idle
  PROVE  /\ DOMAIN verdict \subseteq DOMAIN verdict'
         /\ \/ deciding[d].trace \in DOMAIN verdict'
            \/ /\ deciding'[d].trace = deciding[d].trace /\ deciding'[d].chain = deciding[d].chain
               /\ deciding[d].at <= deciding'[d].at
<1>0. deciding[d] \in Decision /\ DOMAIN deciding = Decider
  BY DEF Typed, DecidingOK, InputsOK
<1>a. deciding[d].at \in Nat
  BY <1>0 DEF Decision
<1>1. CASE deciding' = deciding /\ verdict' = verdict
  BY <1>1, <1>a
<1>2. ASSUME NEW e \in Decider, NEW x \in Trace, Begin(e, x)
      PROVE  deciding'[d] = deciding[d] /\ verdict' = verdict
  BY <1>2, <1>0 DEF Begin
<1>3. ASSUME NEW e \in Decider, EstimateP99(e)
      PROVE  /\ deciding'[d].trace = deciding[d].trace /\ deciding'[d].chain = deciding[d].chain
             /\ deciding'[d].at = deciding[d].at /\ verdict' = verdict
  <2>1. PICK estimate : deciding' = [deciding EXCEPT ![e].estimate = estimate]
    BY <1>3 DEF EstimateP99
  <2>2. CASE d = e
    <3>1. deciding'[d] = [deciding[d] EXCEPT !.estimate = estimate]
      BY <1>0, <2>1, <2>2
    <3> QED
      BY <1>0, <1>3, <3>1 DEF Decision, EstimateP99
  <2>3. CASE d # e
    BY <1>0, <1>3, <2>1, <2>3 DEF EstimateP99
  <2> QED
    BY <2>2, <2>3
<1>4. ASSUME NEW e \in Decider, deciding[e] # Idle, NEW opinion, Proceed(e, opinion)
      PROVE  /\ DOMAIN verdict \subseteq DOMAIN verdict'
             /\ d # e => deciding'[d] = deciding[d]
             /\ d = e => \/ deciding[d].trace \in DOMAIN verdict'
                         \/ /\ deciding'[d].trace = deciding[d].trace
                            /\ deciding'[d].chain = deciding[d].chain
                            /\ deciding'[d].at = deciding[d].at + 1
  <2>1. CASE opinion = "abstain"
    <3>1. /\ verdict' = verdict
          /\ deciding' = [deciding EXCEPT ![e].at = deciding[e].at + 1, ![e].estimate = -1]
      BY <1>4, <2>1, Proceeds
    <3>2. CASE d = e
      <4>1. PICK at : at = deciding[d].at + 1
        OBVIOUS
      <4>2. deciding'[d] = [[deciding[d] EXCEPT !.at = at] EXCEPT !.estimate = -1]
        BY <1>0, <3>1, <3>2, <4>1
      <4> QED
        BY <1>0, <3>1, <3>2, <4>1, <4>2 DEF Decision
    <3>3. CASE d # e
      BY <1>0, <3>1, <3>3
    <3> QED
      BY <3>2, <3>3
  <2>2. CASE opinion # "abstain"
    <3>1. Settle(e, opinion)
      BY <1>4, <2>2, Proceeds
    <3> QED
      BY <1>0, <3>1 DEF Settle, Put
  <2> QED
    BY <2>1, <2>2
<1>5. ASSUME NEW e \in Decider, Ask(e) \/ ObserveP99(e) \/ Throttle(e) \/ FallThrough(e)
      PROVE  deciding[e] # Idle /\ \E opinion : Proceed(e, opinion)
  <2>1. ASSUME FallThrough(e) PROVE Proceed(e, "drop")
    BY <2>1 DEF FallThrough, Proceed
  <2> QED
    BY <1>5, <2>1 DEF Ask, ObserveP99, Throttle, FallThrough, PolicyIs
<1>6. CASE \E e \in Decider : Ask(e) \/ ObserveP99(e) \/ Throttle(e) \/ FallThrough(e)
  BY <1>4, <1>5, <1>6, <1>a
<1>7. CASE \E e \in Decider : EstimateP99(e) \/ \E x \in Trace : Begin(e, x)
  BY <1>2, <1>3, <1>7, <1>a
<1>8. CASE \/ Tick \/ (\E x \in Trace : Decode(x)) \/ (\E k \in Key : Enforce(k))
           \/ (\E content \in Content : Edit(content)) \/ Watch \/ ReadError \/ UNCHANGED vars
  BY <1>1, <1>8 DEF Tick, Decode, Enforce, Edit, Watch, Stat, Reload, KeepChain, ReadError, vars, decisionVars
<1> QED
  BY <1>6, <1>7, <1>8 DEF Next, Decide
\* A decision that goes on with the same trace and chain stays in order when the
\* policies it has passed do not keep the trace for sure.
LEMMA GoesOn ==
  ASSUME Typed, GuardInv, DecisionInv, [Next]_vars, NEW d \in Decider, deciding[d] # Idle,
         deciding'[d].trace = deciding[d].trace, deciding'[d].chain = deciding[d].chain,
         deciding'[d].warm = deciding[d].warm,
         \A j \in DOMAIN Policies(d) :
           j < deciding'[d].at => ~KeepsForSure(Policies(d)[j], deciding[d].trace, j \in deciding[d].warm),
         deciding[d].trace \notin DOMAIN verdict',
         \A e \in Decider \ {d} : deciding'[e].trace # deciding[d].trace
  PROVE  Owns(d)' /\ StaysWarm(d)' /\ Walked(d)'
<1>1. /\ Owns(d) /\ StaysWarm(d)
      /\ deciding[d].trace \in Trace /\ deciding[d].chain \in DOMAIN chains
  BY DEF DecisionInv, Typed, DecidingOK
<1>2. PICK c \in DOMAIN chains : c = deciding[d].chain
  BY <1>1
<1>3. PICK policies : policies = chains[c].policies /\ policies = chains'[c].policies
  BY ChainsStay
<1>4. Policies(d) = policies /\ Policies(d)' = policies
  BY <1>2, <1>3 DEF Policies, ChainOf
<1>5. Owns(d)'
  BY <1>1, InputsAge DEF Owns
<1>6. StaysWarm(d)'
  <2> SUFFICES ASSUME NEW i \in deciding[d].warm
               PROVE  i \in DOMAIN policies /\ chains'[c].state[i].window # <<>>
    BY <1>2, <1>4 DEF StaysWarm, ChainOf
  <2>1. i \in DOMAIN policies /\ chains[c].state[i].window # <<>>
    BY <1>1, <1>2, <1>4 DEF StaysWarm, ChainOf
  <2>2. c \in DOMAIN chains' /\ i \in DOMAIN chains'[c].policies
    BY <1>3, <2>1, ChainsStay
  <2> QED
    BY <2>1, <2>2, WindowsMove
<1>7. Walked(d)'
  <2> SUFFICES ASSUME NEW j \in DOMAIN policies, j < deciding'[d].at
               PROVE  ~KeepsForSure(policies[j], deciding[d].trace, j \in deciding[d].warm)'
    BY <1>4 DEF Walked, At, KeepsForSure
  <2>1. PICK x, p, warms : /\ x \in Trace /\ x = deciding[d].trace /\ p = policies[j]
                          /\ warms = deciding[d].warm
    BY <1>1
  <2>2. ~KeepsForSure(p, x, j \in warms)
    BY <1>4, <2>1
  <2>3. ~KeepsForSure(p, x, j \in warms)'
    BY <2>1, <2>2, SureWhenBefore
  <2> QED
    BY <2>1, <2>3 DEF KeepsForSure
<1> QED
  BY <1>5, <1>6, <1>7

\* A decision that a step does not touch.
LEMMA StaysInOrder ==
  ASSUME Typed, GuardInv, DecisionInv, [Next]_vars, NEW d \in Decider, deciding[d] # Idle,
         deciding'[d] = deciding[d],
         deciding[d].trace \notin DOMAIN verdict',
         \A e \in Decider \ {d} : deciding'[e].trace # deciding[d].trace
  PROVE  Owns(d)' /\ StaysWarm(d)' /\ Walked(d)' /\ Measured(d)'
<1>1. Walked(d) /\ Measured(d)
  BY DEF DecisionInv
<1>2. \A j \in DOMAIN Policies(d) :
        j < deciding'[d].at => ~KeepsForSure(Policies(d)[j], deciding[d].trace, j \in deciding[d].warm)
  BY <1>1 DEF Walked, At
<1>3. Owns(d)' /\ StaysWarm(d)' /\ Walked(d)'
  BY <1>2, GoesOn
<1>4. Measured(d)'
  BY <1>1 DEF Measured, At, SlowestOfAll
<1> QED
  BY <1>3, <1>4

\* A new decision is in order: it has passed no policy.
LEMMA BeginInOrder ==
  ASSUME Typed, GuardInv, DecisionInv, [Next]_vars, NEW e \in Decider, NEW x \in Trace, Begin(e, x)
  PROVE  DecisionInv'
<1>1. PICK n \in DOMAIN chains : n = Len(chains)
  BY DEF Typed, ChainsOK
<1>2. PICK new : new = [trace |-> x, chain |-> n, at |-> 1, estimate |-> -1, warm |-> Warm(chains[n])]
  OBVIOUS
<1>3. /\ deciding[e] = Idle /\ x \in Checked /\ x \notin DOMAIN verdict
      /\ \A d \in Decider : deciding[d].trace # x
      /\ deciding' = [deciding EXCEPT ![e] = new]
      /\ chains' = chains /\ verdict' = verdict /\ attrs' = attrs /\ decoding' = decoding
  BY <1>1, <1>2 DEF Begin, Active, InProgress, guardVars
<1>4. deciding'[e] = new /\ \A d \in Decider : d # e => deciding'[d] = deciding[d]
  BY <1>3 DEF Typed, InputsOK
<1>5. /\ new.trace = x /\ new.chain = n /\ new.at = 1 /\ new.estimate = -1 /\ new.warm = Warm(chains[n])
  BY <1>2
<1>6. Owns(e)' /\ StaysWarm(e)' /\ Walked(e)' /\ Measured(e)'
  <2>1. Owns(e)'
    BY <1>3, <1>4, <1>5, InputsAge DEF Owns
  <2>2. StaysWarm(e)'
    BY <1>3, <1>4, <1>5 DEF StaysWarm, Policies, ChainOf, Warm
  <2>3. Walked(e)'
    <3>1. PICK m \in Nat : DOMAIN chains[n].policies = 1 .. m
      BY PolicyIndex DEF Typed
    <3>2. \A j \in DOMAIN chains[n].policies : ~(j < 1)
      BY <3>1
    <3> QED
      BY <1>3, <1>4, <1>5, <3>2 DEF Walked, At, Policies, ChainOf
  <2>4. Measured(e)'
    BY <1>4, <1>5 DEF Measured
  <2> QED
    BY <2>1, <2>2, <2>3, <2>4
<1>7. ASSUME NEW d \in Decider, d # e, deciding'[d] # Idle
      PROVE  Owns(d)' /\ StaysWarm(d)' /\ Walked(d)' /\ Measured(d)'
  <2>1. deciding'[d] = deciding[d] /\ deciding[d] # Idle
    BY <1>4, <1>7
  <2>2. Owns(d)
    BY <2>1 DEF DecisionInv
  <2>3. \A f \in Decider \ {d} : deciding'[f].trace # deciding[d].trace
    BY <1>3, <1>4, <1>5, <2>2 DEF Owns
  <2>4. deciding[d].trace \notin DOMAIN verdict'
    BY <1>3, <2>2 DEF Owns
  <2> QED
    BY <2>1, <2>3, <2>4, StaysInOrder
<1> QED
  BY <1>6, <1>7 DEF DecisionInv

\* The estimate that a decision takes from a warm window is of another trace.
LEMMA EstimateInOrder ==
  ASSUME Typed, GuardInv, DecisionInv, EntriesInv, [Next]_vars, NEW e \in Decider, EstimateP99(e)
  PROVE  DecisionInv'
<1>1. /\ deciding[e] # Idle /\ deciding[e] \in Decision /\ deciding[e].trace \in Trace
      /\ ChainOf(e) \in DOMAIN chains /\ At(e) \in DOMAIN chains[ChainOf(e)].policies
      /\ StateOf(e) = chains[ChainOf(e)].state[At(e)] /\ StateOf(e) \in PolicyState
  BY PolicyAt DEF EstimateP99, PolicyIs
<1>2. PICK w \in Seq(Nat) : w = chains[ChainOf(e)].state[At(e)].window
  BY <1>1 DEF PolicyState
<1>3. PICK estimate : estimate = Estimate(w)
  OBVIOUS
<1>4. deciding' = [deciding EXCEPT ![e].estimate = estimate] /\ verdict' = verdict
  BY <1>1, <1>2, <1>3 DEF EstimateP99
<1>5. /\ deciding'[e] = [deciding[e] EXCEPT !.estimate = estimate]
      /\ \A d \in Decider : d # e => deciding'[d] = deciding[d]
  BY <1>4 DEF Typed, InputsOK
<1>6. /\ deciding'[e].trace = deciding[e].trace /\ deciding'[e].chain = deciding[e].chain
      /\ deciding'[e].warm = deciding[e].warm /\ deciding'[e].at = deciding[e].at
      /\ deciding'[e].estimate = estimate
  BY <1>1, <1>5 DEF Decision
<1>7. Owns(e) /\ StaysWarm(e) /\ Walked(e)
  BY <1>1 DEF DecisionInv
<1>8. \A d \in Decider : deciding'[d].trace = deciding[d].trace
  BY <1>5, <1>6
<1>9. Owns(e)' /\ StaysWarm(e)' /\ Walked(e)'
  <2>1. \A j \in DOMAIN Policies(e) :
          j < deciding'[e].at => ~KeepsForSure(Policies(e)[j], deciding[e].trace, j \in deciding[e].warm)
    BY <1>6, <1>7 DEF Walked, At
  <2>2. /\ deciding[e].trace \notin DOMAIN verdict'
        /\ \A d \in Decider \ {e} : deciding'[d].trace # deciding[e].trace
    BY <1>4, <1>7, <1>8 DEF Owns
  <2> QED
    BY <1>1, <1>6, <2>1, <2>2, GoesOn
<1>10. Measured(e)'
  <2> SUFFICES ASSUME At(e) \in deciding[e].warm, SlowestOfAll(deciding[e].trace)
               PROVE  estimate \in 1 .. Duration[deciding[e].trace] - 1
    BY <1>6 DEF Measured, At, SlowestOfAll
  <2>1. w # <<>>
    BY <1>2, <1>7 DEF StaysWarm
  <2>2. PICK j \in DOMAIN w : estimate = w[j]
    BY <1>3, <2>1, EstimateIsEntry
  <2>3. EntryOf(ChainOf(e), At(e), estimate)
    BY <1>1, <1>2, <2>2 DEF EntriesInv
  <2>4. PICK y \in Trace : /\ Duration[y] = estimate
                           /\ \/ y \in DOMAIN verdict
                              \/ \E d \in Decider : deciding[d].trace = y /\ At(e) < At(d)
    BY <2>3 DEF EntryOf
  <2>5. ~(At(e) < At(e))
    BY <1>1 DEF At, Decision
  <2>6. y # deciding[e].trace
    BY <1>7, <2>4, <2>5 DEF Owns
  <2> QED
    BY <2>4, <2>6 DEF SlowestOfAll
<1>11. ASSUME NEW d \in Decider, d # e, deciding'[d] # Idle
       PROVE  Owns(d)' /\ StaysWarm(d)' /\ Walked(d)' /\ Measured(d)'
  <2>1. deciding'[d] = deciding[d] /\ deciding[d] # Idle /\ Owns(d)
    BY <1>5, <1>11 DEF DecisionInv
  <2>2. \A f \in Decider \ {d} : deciding'[f].trace # deciding[d].trace
    BY <1>8, <2>1 DEF Owns
  <2>3. deciding[d].trace \notin DOMAIN verdict'
    BY <1>4, <2>1 DEF Owns
  <2> QED
    BY <2>1, <2>2, <2>3, StaysInOrder
<1> QED
  BY <1>9, <1>10, <1>11 DEF DecisionInv
\* What a decision does when a policy was asked.
LEMMA Moves ==
  ASSUME Typed, NEW e \in Decider, deciding[e] # Idle, NEW opinion, Proceed(e, opinion)
  PROVE  /\ \A d \in Decider : d # e => deciding'[d] = deciding[d]
         /\ opinion = "abstain" =>
              /\ verdict' = verdict
              /\ deciding'[e].trace = deciding[e].trace /\ deciding'[e].chain = deciding[e].chain
              /\ deciding'[e].warm = deciding[e].warm
              /\ deciding'[e].at = deciding[e].at + 1 /\ deciding'[e].estimate = -1
         /\ opinion # "abstain" =>
              /\ deciding'[e] = Idle
              /\ DOMAIN verdict' = DOMAIN verdict \cup {deciding[e].trace}
              /\ \A x \in DOMAIN verdict : x # deciding[e].trace => verdict'[x] = verdict[x]
              /\ verdict'[deciding[e].trace].outcome = opinion
              /\ verdict'[deciding[e].trace].chain = deciding[e].chain
              /\ verdict'[deciding[e].trace].warm = deciding[e].warm
<1>0. deciding[e] \in Decision /\ DOMAIN deciding = Decider
  BY DEF Typed, DecidingOK, InputsOK
<1>1. CASE opinion = "abstain"
  <2>1. /\ verdict' = verdict
        /\ deciding' = [deciding EXCEPT ![e].at = deciding[e].at + 1, ![e].estimate = -1]
    BY <1>1, Proceeds
  <2>2. \A d \in Decider : d # e => deciding'[d] = deciding[d]
    BY <1>0, <2>1
  <2>3. PICK at : at = deciding[e].at + 1
    OBVIOUS
  <2>4. PICK moved : moved = [deciding[e] EXCEPT !.at = at]
    OBVIOUS
  <2>5. deciding'[e] = [moved EXCEPT !.estimate = -1]
    BY <1>0, <2>1, <2>3, <2>4
  <2>6. /\ moved.trace = deciding[e].trace /\ moved.chain = deciding[e].chain
        /\ moved.warm = deciding[e].warm /\ moved.at = at
        /\ moved \in [trace : Trace \cup {NoTrace}, chain : Nat, at : {at}, estimate : Int, warm : SUBSET Nat]
    BY <1>0, <2>4 DEF Decision
  <2>7. /\ deciding'[e].trace = moved.trace /\ deciding'[e].chain = moved.chain
        /\ deciding'[e].warm = moved.warm /\ deciding'[e].at = at /\ deciding'[e].estimate = -1
    BY <2>5, <2>6
  <2> QED
    BY <1>1, <2>1, <2>2, <2>3, <2>6, <2>7
<1>2. CASE opinion # "abstain"
  <2>1. Settle(e, opinion)
    BY <1>2, Proceeds
  <2>2. PICK v : v = [outcome |-> opinion, chain |-> deciding[e].chain, warm |-> deciding[e].warm]
    OBVIOUS
  <2>3. deciding' = [deciding EXCEPT ![e] = Idle] /\ verdict' = Put(verdict, deciding[e].trace, v)
    BY <2>1, <2>2 DEF Settle
  <2>4. /\ DOMAIN verdict' = DOMAIN verdict \cup {deciding[e].trace}
        /\ verdict'[deciding[e].trace] = v
        /\ \A x \in DOMAIN verdict : x # deciding[e].trace => verdict'[x] = verdict[x]
    BY <2>3 DEF Put
  <2>5. v.outcome = opinion /\ v.chain = deciding[e].chain /\ v.warm = deciding[e].warm
    BY <2>2
  <2>6. deciding'[e] = Idle /\ \A d \in Decider : d # e => deciding'[d] = deciding[d]
    BY <1>0, <2>3
  <2> QED
    BY <1>2, <2>4, <2>5, <2>6
<1> QED
  BY <1>1, <1>2

\* A decision goes past a policy only when that does not keep the trace for sure.
LEMMA ProceedInOrder ==
  ASSUME Typed, GuardInv, DecisionInv, [Next]_vars, NEW e \in Decider, deciding[e] # Idle,
         NEW opinion, Proceed(e, opinion), Justified(e, opinion)
  PROVE  DecisionInv'
<1>0. /\ deciding[e] \in Decision /\ deciding[e].trace \in Trace
      /\ NoTrace \notin Trace /\ Owns(e) /\ Walked(e)
  BY SamplingAssumption DEF DecisionInv, Typed, DecidingOK
<1>1. /\ \A d \in Decider : d # e => deciding'[d] = deciding[d]
      /\ DOMAIN verdict' \subseteq DOMAIN verdict \cup {deciding[e].trace}
      /\ deciding'[e].trace \in {deciding[e].trace, NoTrace}
  <2>1. CASE opinion = "abstain"
    BY <2>1, Moves
  <2>2. CASE opinion # "abstain"
    <3>1. /\ \A d \in Decider : d # e => deciding'[d] = deciding[d]
          /\ DOMAIN verdict' = DOMAIN verdict \cup {deciding[e].trace} /\ deciding'[e] = Idle
      BY <2>2, Moves
    <3>2. Idle.trace = NoTrace
      BY DEF Idle
    <3> QED
      BY <3>1, <3>2
  <2> QED
    BY <2>1, <2>2
<1>2. ASSUME NEW d \in Decider, d # e, deciding'[d] # Idle
      PROVE  Owns(d)' /\ StaysWarm(d)' /\ Walked(d)' /\ Measured(d)'
  <2>1. /\ deciding'[d] = deciding[d] /\ deciding[d] # Idle /\ Owns(d) /\ deciding[d].trace \in Trace
    BY <1>1, <1>2 DEF DecisionInv, Typed, DecidingOK
  <2>2. deciding[e].trace # deciding[d].trace
    BY <1>2, <2>1 DEF Owns
  <2>3. \A f \in Decider \ {d} : deciding'[f].trace # deciding[d].trace
    BY <1>0, <1>1, <2>1, <2>2 DEF Owns
  <2>4. deciding[d].trace \notin DOMAIN verdict'
    BY <1>1, <2>1, <2>2 DEF Owns
  <2> QED
    BY <2>1, <2>3, <2>4, StaysInOrder
<1>3. ASSUME deciding'[e] # Idle
      PROVE  Owns(e)' /\ StaysWarm(e)' /\ Walked(e)' /\ Measured(e)'
  <2>1. /\ opinion = "abstain" /\ verdict' = verdict
        /\ deciding'[e].trace = deciding[e].trace /\ deciding'[e].chain = deciding[e].chain
        /\ deciding'[e].warm = deciding[e].warm
        /\ deciding'[e].at = deciding[e].at + 1 /\ deciding'[e].estimate = -1
    BY <1>3, Moves
  <2>2. ASSUME NEW j \in DOMAIN Policies(e), j < deciding'[e].at
        PROVE  ~KeepsForSure(Policies(e)[j], deciding[e].trace, j \in deciding[e].warm)
    <3>1. j \in Int /\ deciding[e].at \in Int
      <4>1. ChainOf(e) \in DOMAIN chains
        BY DEF Typed, DecidingOK, ChainOf
      <4>2. \E n \in Nat : DOMAIN Policies(e) = 1 .. n
        BY <4>1, PolicyIndex DEF Typed, Policies
      <4> QED
        BY <1>0, <4>2 DEF Decision
    <3>2. CASE j = At(e)
      BY <2>1, <3>2 DEF Justified, PolicyOf
    <3>3. CASE j < At(e)
      BY <1>0, <3>3 DEF Walked
    <3> QED
      BY <2>1, <2>2, <3>1, <3>2, <3>3 DEF At
  <2>3. /\ deciding[e].trace \notin DOMAIN verdict'
        /\ \A d \in Decider \ {e} : deciding'[d].trace # deciding[e].trace
    BY <1>0, <1>1, <2>1 DEF Owns
  <2>4. Owns(e)' /\ StaysWarm(e)' /\ Walked(e)'
    BY <2>1, <2>2, <2>3, GoesOn
  <2>5. Measured(e)'
    BY <2>1 DEF Measured
  <2> QED
    BY <2>4, <2>5
<1> QED
  BY <1>2, <1>3 DEF DecisionInv

\* The steps that are not a decision's.
Aside ==
  \/ Tick \/ (\E x \in Trace : Decode(x)) \/ (\E k \in Key : Enforce(k))
  \/ (\E content \in Content : Edit(content)) \/ Watch \/ ReadError \/ UNCHANGED vars

LEMMA NextIs ==
  ASSUME [Next]_vars
  PROVE  \/ Aside
         \/ \E d \in Decider, x \in Trace : Begin(d, x)
         \/ \E d \in Decider : EstimateP99(d)
         \/ \E d \in Decider : Ask(d) \/ ObserveP99(d) \/ Throttle(d) \/ FallThrough(d)
BY DEF Next, Decide, Aside

LEMMA AsideLeaves ==
  ASSUME Aside
  PROVE  deciding' = deciding /\ verdict' = verdict
BY DEF Aside, Tick, Decode, Enforce, Edit, Watch, Stat, Reload, KeepChain, ReadError, vars, decisionVars

LEMMA DecisionsInOrder ==
  ASSUME Typed, GuardInv, DecisionInv, EntriesInv, [Next]_vars
  PROVE  DecisionInv'
<1>1. CASE Aside
  <2> SUFFICES ASSUME NEW d \in Decider, deciding'[d] # Idle
               PROVE  Owns(d)' /\ StaysWarm(d)' /\ Walked(d)' /\ Measured(d)'
    BY DEF DecisionInv
  <2>1. deciding' = deciding /\ verdict' = verdict
    BY <1>1, AsideLeaves
  <2>2. deciding[d] # Idle /\ Owns(d)
    BY <2>1 DEF DecisionInv
  <2>3. /\ deciding[d].trace \notin DOMAIN verdict'
        /\ \A e \in Decider \ {d} : deciding'[e].trace # deciding[d].trace
    BY <2>1, <2>2 DEF Owns
  <2> QED
    BY <2>1, <2>2, <2>3, StaysInOrder
<1>2. CASE \E d \in Decider, x \in Trace : Begin(d, x)
  BY <1>2, BeginInOrder
<1>3. CASE \E d \in Decider : EstimateP99(d)
  BY <1>3, EstimateInOrder
<1>4. CASE \E d \in Decider : Ask(d) \/ ObserveP99(d) \/ Throttle(d) \/ FallThrough(d)
  BY <1>4, DecideIsJustified, ProceedInOrder
<1> QED
  BY <1>1, <1>2, <1>3, <1>4, NextIs

LEMMA VerdictsStay ==
  ASSUME Typed, [Next]_vars
  PROVE  DOMAIN verdict \subseteq DOMAIN verdict'
<1>1. ASSUME NEW d \in Decider, deciding[d] # Idle
      PROVE  DOMAIN verdict \subseteq DOMAIN verdict'
  BY <1>1, DecisionsGoOn
<1>2. ASSUME NEW d \in Decider, NEW x \in Trace, Begin(d, x)
      PROVE  verdict' = verdict
  BY <1>2 DEF Begin
<1>3. ASSUME NEW d \in Decider, Decide(d)
      PROVE  deciding[d] # Idle
  BY <1>3 DEF Decide, Ask, EstimateP99, ObserveP99, Throttle, FallThrough, PolicyIs
<1> QED
  BY <1>1, <1>2, <1>3, NextIs, AsideLeaves DEF Decide

\* A duration is observed by the decision whose trace it is, which then goes on.
LEMMA EntriesStay ==
  ASSUME Typed, EntriesInv, [Next]_vars
  PROVE  EntriesInv'
<1>0. \A d \in Decider : deciding[d] # Idle => deciding[d].trace \in Trace /\ deciding[d] \in Decision
  BY DEF Typed, DecidingOK
<1>a. NoTrace \notin Trace /\ Idle.trace = NoTrace
  BY SamplingAssumption DEF Idle
<1> SUFFICES ASSUME NEW c \in DOMAIN chains', NEW i \in DOMAIN chains'[c].policies,
                    NEW j \in DOMAIN chains'[c].state[i].window,
                    NEW v, v = chains'[c].state[i].window[j]
             PROVE  EntryOf(c, i, v)'
  BY DEF EntriesInv, EntryOf
<1>b. i \in Int
  <2>1. chains'[c].state \in Partial(Nat, PolicyState) /\ i \in DOMAIN chains'[c].state
    BY ChainsStay DEF ChainsOK, IsChain, Chain
  <2> QED
    BY <2>1, PartialMaps
<1>2. CASE /\ c \in DOMAIN chains /\ i \in DOMAIN chains[c].policies
           /\ \E l \in DOMAIN chains[c].state[i].window : v = chains[c].state[i].window[l]
  <2>1. EntryOf(c, i, v)
    BY <1>2 DEF EntriesInv
  <2>2. PICK y \in Trace : /\ Duration[y] = v
                           /\ \/ y \in DOMAIN verdict
                              \/ \E d \in Decider : deciding[d].trace = y /\ ChainOf(d) = c /\ i < At(d)
    BY <2>1 DEF EntryOf
  <2>3. CASE y \in DOMAIN verdict
    BY <2>2, <2>3, VerdictsStay DEF EntryOf
  <2>4. ASSUME NEW d \in Decider, deciding[d].trace = y, ChainOf(d) = c, i < At(d)
        PROVE  EntryOf(c, i, v)'
    <3>1. deciding[d] # Idle
      BY <1>a, <2>4
    <3>2. \/ y \in DOMAIN verdict'
          \/ deciding'[d].trace = y /\ deciding'[d].chain = c /\ deciding[d].at <= deciding'[d].at
      BY <2>4, <3>1, DecisionsGoOn DEF ChainOf
    <3>3. CASE y \in DOMAIN verdict'
      BY <2>2, <3>3 DEF EntryOf
    <3>4. CASE deciding'[d].trace = y /\ deciding'[d].chain = c /\ deciding[d].at <= deciding'[d].at
      <4>1. deciding'[d] # Idle /\ deciding'[d] \in Decision
        BY <1>a, <3>4, DecidingStays DEF DecidingOK
      <4>2. i < deciding'[d].at
        BY <1>0, <1>b, <2>4, <3>1, <3>4, <4>1 DEF At, Decision
      <4> QED
        BY <2>2, <3>4, <4>2 DEF EntryOf, ChainOf, At
    <3> QED
      BY <3>2, <3>3, <3>4
  <2> QED
    BY <2>2, <2>3, <2>4
<1>3. ASSUME NEW d \in Decider, ObserveP99(d), ChainOf(d) = c, At(d) = i, v = Duration[deciding[d].trace]
      PROVE  EntryOf(c, i, v)'
  <2>1. PICK opinion : Proceed(d, opinion)
    BY <1>3 DEF ObserveP99
  <2>2. deciding[d] # Idle
    BY <1>3 DEF ObserveP99, PolicyIs
  <2>3. CASE opinion = "abstain"
    <3>1. /\ deciding'[d].trace = deciding[d].trace /\ deciding'[d].chain = c
          /\ deciding'[d].at = i + 1
      BY <1>3, <2>1, <2>2, <2>3, Moves DEF ChainOf, At
    <3> QED
      BY <1>0, <1>b, <1>3, <2>2, <3>1 DEF EntryOf, ChainOf, At
  <2>4. CASE opinion # "abstain"
    <3>1. deciding[d].trace \in DOMAIN verdict'
      BY <2>1, <2>2, <2>4, Moves
    <3> QED
      BY <1>0, <1>3, <2>2, <3>1 DEF EntryOf
  <2> QED
    BY <2>3, <2>4
<1>4. \/ /\ c \in DOMAIN chains /\ i \in DOMAIN chains[c].policies
         /\ \E l \in DOMAIN chains[c].state[i].window : v = chains[c].state[i].window[l]
      \/ \E d \in Decider : ObserveP99(d) /\ ChainOf(d) = c /\ At(d) = i /\ v = Duration[deciding[d].trace]
  BY WindowsMove
<1> QED
  BY <1>2, <1>3, <1>4

\* CertainlyKept, of one trace.
KeptFor(policies, warm, outcome, x) ==
  \A i \in DOMAIN policies :
    KeepsForSure(policies[i], x, i \in warm) /\ (\A j \in 1 .. i - 1 : ~MayDrop(policies[j]))
      => outcome = "sample"
Kept(x) == KeptFor(chains[verdict[x].chain].policies, verdict[x].warm, verdict[x].outcome, x)

\* A trace is dropped only where no policy that keeps it for sure comes first.
LEMMA CertainlyStays ==
  ASSUME Typed, GuardInv, DecisionInv, CertainlyKept, [Next]_vars
  PROVE  CertainlyKept'
<1>0. /\ CertainlyKept <=> \A x \in DOMAIN verdict : Kept(x)
      /\ CertainlyKept' <=> \A x \in DOMAIN verdict' : Kept(x)'
  BY DEF CertainlyKept, Kept, KeptFor, KeepsForSure
<1>1. ASSUME NEW x \in DOMAIN verdict, verdict'[x] = verdict[x]
      PROVE  Kept(x)'
  <2>1. PICK v : v = verdict[x]
    OBVIOUS
  <2>2. x \in Trace /\ v.chain \in DOMAIN chains /\ verdict'[x] = v
    BY <1>1, <2>1 DEF Typed, VerdictOK
  <2>3. PICK policies : policies = chains[v.chain].policies /\ policies = chains'[v.chain].policies
    BY <2>2, ChainsStay
  <2>4. KeptFor(policies, v.warm, v.outcome, x)
    BY <1>0, <2>1, <2>3 DEF Kept
  <2>5. PICK warm, outcome : warm = v.warm /\ outcome = v.outcome
    OBVIOUS
  <2>6. \A i \in DOMAIN policies : KeepsForSure(policies[i], x, i \in warm)'
                                    => KeepsForSure(policies[i], x, i \in warm)
    BY <2>1, <2>2, SureWhenBefore
  <2>7. KeptFor(policies, warm, outcome, x)'
    BY <2>4, <2>5, <2>6 DEF KeptFor
  <2> QED
    BY <2>2, <2>3, <2>5, <2>7 DEF Kept, KeptFor, KeepsForSure
<1>2. CASE verdict' = verdict
  BY <1>0, <1>1, <1>2
<1>3. ASSUME NEW e \in Decider, deciding[e] # Idle, NEW opinion,
             Proceed(e, opinion), Justified(e, opinion), opinion # "abstain"
      PROVE  CertainlyKept'
  <2> DEFINE x == deciding[e].trace
  <2>1. /\ x \in Trace /\ deciding[e] \in Decision /\ deciding[e].chain \in DOMAIN chains
        /\ Owns(e) /\ Walked(e)
    BY <1>3 DEF Typed, DecidingOK, DecisionInv
  <2>2. /\ DOMAIN verdict' = DOMAIN verdict \cup {x}
        /\ \A y \in DOMAIN verdict : y # x => verdict'[y] = verdict[y]
        /\ verdict'[x].outcome = opinion /\ verdict'[x].chain = deciding[e].chain
        /\ verdict'[x].warm = deciding[e].warm
    BY <1>3, Moves
  <2>3. PICK c \in DOMAIN chains, at \in Nat \ {0} : c = deciding[e].chain /\ at = deciding[e].at
    BY <2>1 DEF Decision
  <2>4. PICK policies : /\ policies = chains[c].policies /\ policies = chains'[c].policies
    BY ChainsStay
  <2>5. PICK n \in Nat : DOMAIN policies = 1 .. n
    BY <2>4, PolicyIndex DEF Typed
  <2>6. PICK warm : warm = deciding[e].warm
    OBVIOUS
  <2>7. ASSUME NEW i \in DOMAIN policies, KeepsForSure(policies[i], x, i \in warm),
               \A j \in 1 .. i - 1 : ~MayDrop(policies[j]), opinion = "drop"
        PROVE  FALSE
    <3>1. at \in DOMAIN policies => MayDrop(policies[at])
      BY <1>3, <2>3, <2>4, <2>7 DEF Justified, Policies, PolicyOf, ChainOf, At
    <3>2. ~(i < at)
      BY <2>1, <2>3, <2>4, <2>6, <2>7 DEF Walked, Policies, ChainOf, At
    <3>3. i # at
      BY <2>7, <3>1 DEF KeepsForSure, MayDrop
    <3>4. at \in DOMAIN policies /\ at \in 1 .. i - 1
      BY <2>5, <3>2, <3>3
    <3> QED
      BY <2>7, <3>1, <3>4
  <2>8. opinion \in {"sample", "drop"}
    BY <1>3 DEF Justified
  <2>9. PICK y \in Trace : y = x
    BY <2>1
  <2>10. KeptFor(policies, warm, opinion, y)'
    <3>1. \A i \in DOMAIN policies : KeepsForSure(policies[i], y, i \in warm)'
                                      => KeepsForSure(policies[i], y, i \in warm)
      BY SureWhenBefore
    <3> QED
      BY <2>7, <2>8, <2>9, <3>1 DEF KeptFor
  <2>11. Kept(y)'
    BY <2>2, <2>3, <2>4, <2>6, <2>9, <2>10 DEF Kept, KeptFor, KeepsForSure
  <2>12. \A z \in DOMAIN verdict : Kept(z)'
    BY <1>1, <2>1, <2>2 DEF Owns
  <2> QED
    BY <1>0, <2>2, <2>9, <2>11, <2>12
<1>4. CASE Aside
  BY <1>2, <1>4, AsideLeaves
<1>5. CASE (\E d \in Decider, x \in Trace : Begin(d, x)) \/ (\E d \in Decider : EstimateP99(d))
  BY <1>2, <1>5 DEF Begin, EstimateP99
<1>6. CASE \E d \in Decider : Ask(d) \/ ObserveP99(d) \/ Throttle(d) \/ FallThrough(d)
  <2>1. PICK d \in Decider : deciding[d] # Idle /\ \E opinion : Proceed(d, opinion) /\ Justified(d, opinion)
    BY <1>6, DecideIsJustified
  <2>a. PICK opinion : Proceed(d, opinion) /\ Justified(d, opinion)
    BY <2>1
  <2>2. CASE opinion = "abstain"
    BY <1>2, <2>1, <2>a, <2>2, Moves
  <2>3. CASE opinion # "abstain"
    BY <1>3, <2>1, <2>a, <2>3
  <2> QED
    BY <2>2, <2>3
<1> QED
  BY <1>4, <1>5, <1>6, NextIs

LEMMA DecisionsAlways == Spec => [](DecisionInv /\ EntriesInv /\ CertainlyKept)
<1>1. Init => DecisionInv /\ EntriesInv /\ CertainlyKept
  <2> SUFFICES ASSUME Init PROVE DecisionInv /\ EntriesInv /\ CertainlyKept
    OBVIOUS
  <2>1. DecisionInv
    BY DEF Init, DecisionInv
  <2>2. DOMAIN verdict = {}
    BY DEF Init
  <2>3. CertainlyKept
    BY <2>2 DEF CertainlyKept
  <2>4. EntriesInv
    <3>1. DOMAIN chains = {1} /\ chains[1] = NewChain(FirstContent) /\ FirstContent \in Valid
      BY SamplingAssumption DEF Init, Valid
    <3>2. \A i \in DOMAIN chains[1].policies : chains[1].state[i] = Fresh
      BY <3>1, NewIsChain
    <3>3. DOMAIN Fresh.window = {}
      BY DEF Fresh
    <3> QED
      BY <3>1, <3>2, <3>3 DEF EntriesInv
  <2> QED
    BY <2>1, <2>3, <2>4
<1>2. Typed /\ GuardInv /\ DecisionInv /\ EntriesInv /\ CertainlyKept /\ [Next]_vars
      => (DecisionInv /\ EntriesInv /\ CertainlyKept)'
  BY DecisionsInOrder, EntriesStay, CertainlyStays
<1> QED
  BY TypedAlways, GuardAlways, <1>1, <1>2, PTL DEF Spec

\* Whatever the chains, the traces and the reloads: a trace is not dropped when
\* the chain its decision began with keeps it for sure ahead of any policy that
\* may drop it (PolicyChain.Decide).  A decision walks one chain, the guard left
\* its attributes alone as long as their keys are within budget, and the p99 it
\* is measured by is the duration of another trace.
THEOREM CertainKeepsAreKept == Spec => []CertainlyKept
BY DecisionsAlways, PTL
=============================================================================
