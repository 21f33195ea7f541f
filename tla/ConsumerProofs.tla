--------------------------- MODULE ConsumerProofs ---------------------------
(***************************************************************************)
(* Proofs about Consumer: the poll loop keeps the promise of Delivery, the *)
(* watermark never holds the floor on a record the broker has lost, and no *)
(* record is flushed twice unless a restart or a rebalance had Kafka       *)
(* deliver it again.                                                       *)
(***************************************************************************)
EXTENDS Consumer, SequenceTheorems, WellFoundedInduction, TLAPS

-----------------------------------------------------------------------------
(* Least and greatest elements of bounded sets of integers.                *)

LessThan == OpToRel(<, Nat)

LEMMA LeastExists ==
  ASSUME NEW S \in SUBSET Int, S # {}, NEW b \in Int, \A x \in S : b <= x
  PROVE  \E x \in S : \A y \in S : x <= y
<1> DEFINE T == {x - b : x \in S}
<1>1. T \subseteq Nat
  OBVIOUS
<1>2. T # {}
  OBVIOUS
<1>3. IsWellFoundedOn(LessThan, Nat)
  BY NatLessThanWellFounded, Zenon DEF LessThan
<1>4. \A x, y \in Nat : <<x, y>> \in LessThan <=> x < y
  BY DEF LessThan, OpToRel
<1> HIDE DEF T
<1>5. PICK m \in T : \A y \in T : <<y, m>> \notin LessThan
  BY <1>1, <1>2, <1>3, WFMin
<1>6. \A y \in T : ~(y < m)
  BY <1>1, <1>4, <1>5
<1>7. PICK x \in S : m = x - b
  BY DEF T
<1>8. ASSUME NEW y \in S PROVE x <= y
  <2>1. y - b \in T
    BY DEF T
  <2>2. ~(y - b < x - b)
    BY <1>6, <1>7, <2>1
  <2> QED
    BY <2>2
<1> QED
  BY <1>8

LEMMA MinIsLeast ==
  ASSUME NEW S \in SUBSET Int, S # {}, NEW b \in Int, \A x \in S : b <= x
  PROVE  Min(S) \in S /\ \A y \in S : Min(S) <= y
BY LeastExists DEF Min

LEMMA MaxIsGreatest ==
  ASSUME NEW S \in SUBSET Int, S # {}, NEW b \in Int, \A x \in S : x <= b
  PROVE  Max(S) \in S /\ \A y \in S : Max(S) >= y
<1> DEFINE T == {-x : x \in S}
<1>1. T \in SUBSET Int /\ \A x \in T : -b <= x
  OBVIOUS
<1>1a. T # {}
  OBVIOUS
<1> HIDE DEF T
<1>2. PICK m \in T : \A y \in T : m <= y
  <2>1. -b \in Int
    OBVIOUS
  <2> QED
    BY <1>1, <1>1a, <2>1, LeastExists
<1>3. PICK x \in S : m = -x
  BY DEF T
<1>4. ASSUME NEW y \in S PROVE x >= y
  <2>1. -x <= -y
    BY <1>2, <1>3 DEF T
  <2> QED
    BY <2>1
<1> QED
  BY <1>4 DEF Max

-----------------------------------------------------------------------------
(* Records, the log and the offsets of a cycle.                            *)

USE ConsumerAssumption DEF NoCut, NoCommit, NoPending, PartitionOf, OffsetOf

LEMMA RecordParts ==
  ASSUME NEW r \in Records
  PROVE  /\ r = <<r[1], r[2], r[3]>>
         /\ r[1] \in TopicPartition /\ r[2] \in 0 .. LogLen - 1 /\ r[3] \in 0 .. MaxLosses
BY DEF Records

\* What the type invariant says of one partition.
LEMMA TypesAt ==
  ASSUME TypeOK, NEW tp \in TopicPartition
  PROVE  /\ log[tp] \in Seq(0 .. MaxLosses) /\ Len(log[tp]) \in Nat /\ Len(log[tp]) <= LogLen
         /\ pos[tp] \in Nat /\ group[tp] \in Nat /\ committed[tp] \in Nat
         /\ cut[tp] \in Nat \cup {NoCut} /\ cut[tp] \in Int
         /\ pending[tp] \in Int /\ commits[tp] \in Nat \cup {NoCommit} /\ commits[tp] \in Int
<1>1. log[tp] \in Seq(0 .. MaxLosses) /\ Len(log[tp]) <= LogLen
  BY DEF TypeOK
<1>2. pos[tp] \in Nat /\ group[tp] \in Nat /\ committed[tp] \in Nat
  BY DEF TypeOK, Positions
<1>3. cut[tp] \in Nat \cup {NoCut}
  BY DEF TypeOK
<1>4. pending[tp] \in 0 .. LogLen - 1 \cup {NoPending}
  BY DEF TypeOK
<1>5. commits[tp] \in 0 .. LogLen - 1 \cup {NoCommit}
  BY DEF TypeOK
<1>6. Len(log[tp]) \in Nat
  BY <1>1
<1>7. cut[tp] \in Int
  BY <1>3
<1>8. pending[tp] \in Int
  BY <1>4
<1>9. commits[tp] \in Nat \cup {NoCommit} /\ commits[tp] \in Int
  BY <1>5
<1> HIDE DEF NoCut, NoPending, NoCommit
<1> QED
  BY <1>1, <1>2, <1>3, <1>6, <1>7, <1>8, <1>9

LEMMA RecordOfLog ==
  ASSUME TypeOK, NEW tp \in TopicPartition, NEW o \in 0 .. Len(log[tp]) - 1
  PROVE  /\ RecordAt(tp, o) \in Records /\ InLog(RecordAt(tp, o))
         /\ RecordAt(tp, o)[1] = tp /\ RecordAt(tp, o)[2] = o
         /\ RecordAt(tp, o)[3] = log[tp][o + 1]
<1>1. log[tp] \in Seq(0 .. MaxLosses) /\ Len(log[tp]) <= LogLen /\ Len(log[tp]) \in Nat
  BY DEF TypeOK
<1>2. PICK e \in 0 .. MaxLosses : log[tp][o + 1] = e
  <2>1. o + 1 \in 1 .. Len(log[tp])
    BY <1>1
  <2> QED
    BY <1>1, <2>1, ElementOfSeq
<1>3. RecordAt(tp, o) = <<tp, o, e>>
  BY <1>2 DEF RecordAt
<1>4. o \in 0 .. LogLen - 1
  BY <1>1
<1>5. <<tp, o, e>> \in Records
  BY <1>4 DEF Records
<1>6. PICK r : r = RecordAt(tp, o)
  OBVIOUS
<1>7. r[1] = tp /\ r[2] = o /\ r[3] = e
  BY <1>3, <1>6
<1>8. OffsetOf(r) < Len(log[PartitionOf(r)])
  BY <1>1, <1>7
<1>9. InLog(r)
  BY <1>6, <1>7, <1>8 DEF InLog
<1> QED
  BY <1>2, <1>3, <1>5, <1>6, <1>7, <1>9

LEMMA GreaterOfTwo ==
  ASSUME NEW a \in Nat, NEW b \in Nat
  PROVE  Max({a, b}) \in {a, b}
<1>1. \A x \in {a, b} : x <= a + b
  OBVIOUS
<1>2. {a, b} \in SUBSET Int /\ {a, b} # {} /\ a + b \in Int
  OBVIOUS
<1> QED
  BY <1>1, <1>2, MaxIsGreatest

\* What a poll returns is in the log, from the position on.
LEMMA FetchedRecords ==
  ASSUME TypeOK, NEW upto \in Positions, Fetchable(upto), NEW r \in Fetched(upto)
  PROVE  /\ r \in Records /\ InLog(r)
         /\ pos[r[1]] <= r[2] /\ r[2] < upto[r[1]] /\ cut[r[1]] = NoCut
<1>0. PICK tp \in TopicPartition : \E o \in pos[tp] .. upto[tp] - 1 : r = RecordAt(tp, o)
  BY DEF Fetched
<1>1. PICK o \in pos[tp] .. upto[tp] - 1 : r = RecordAt(tp, o)
  BY <1>0
<1>2. pos[tp] \in Nat /\ upto[tp] \in Nat /\ Len(log[tp]) \in Nat
  BY DEF TypeOK, Positions
<1>3. cut[tp] = NoCut /\ upto[tp] <= Max({pos[tp], Len(log[tp])})
  <2>1. upto[tp] # pos[tp]
    BY <1>1, <1>2
  <2> QED
    BY <2>1 DEF Fetchable
<1>4. PICK m \in {pos[tp], Len(log[tp])} : upto[tp] <= m
  BY <1>2, <1>3, GreaterOfTwo
<1>5. o \in 0 .. Len(log[tp]) - 1
  <2>1. o \in Int /\ pos[tp] <= o /\ o < upto[tp]
    BY <1>1, <1>2
  <2>2. m # pos[tp]
    <3>1. SUFFICES ASSUME m = pos[tp] PROVE FALSE
      OBVIOUS
    <3> QED
      BY <1>2, <1>4, <2>1, <3>1
  <2>3. o < Len(log[tp])
    <3>1. m = Len(log[tp])
      BY <2>2
    <3> QED
      BY <1>2, <1>4, <2>1, <3>1
  <2> QED
    BY <1>2, <2>1, <2>3
<1>6. r \in Records /\ InLog(r) /\ r[1] = tp /\ r[2] = o
  BY <1>1, <1>5, RecordOfLog
<1> QED
  BY <1>2, <1>3, <1>6

LEMMA FetchedCovers ==
  ASSUME NEW upto, NEW tp \in TopicPartition, NEW o \in pos[tp] .. upto[tp] - 1
  PROVE  RecordAt(tp, o) \in Fetched(upto)
BY DEF Fetched

LEMMA PendingAfterPoll ==
  ASSUME TypeOK, NEW b \in SUBSET Records, NEW tp \in TopicPartition
  PROVE  \/ HighestSeen(b, tp) = pending[tp]
         \/ \E r \in b : PartitionOf(r) = tp /\ HighestSeen(b, tp) = OffsetOf(r)
<1> DEFINE S == {pending[tp]} \cup {OffsetOf(r) : r \in {q \in b : PartitionOf(q) = tp}}
<1>1. S \in SUBSET Int /\ S # {} /\ \A x \in S : x <= LogLen
  <2>1. pending[tp] \in Int /\ pending[tp] <= LogLen
    BY DEF TypeOK
  <2>2. \A r \in b : OffsetOf(r) \in Int /\ OffsetOf(r) <= LogLen
    BY RecordParts
  <2> QED
    BY <2>1, <2>2
<1> HIDE DEF S
<1>2. Max(S) \in S
  <2>1. LogLen \in Int
    OBVIOUS
  <2> QED
    BY <1>1, <2>1, MaxIsGreatest
<1> USE DEF S
<1> QED
  BY <1>2 DEF HighestSeen

LEMMA PendingCovers ==
  ASSUME TypeOK, NEW b \in SUBSET Records, NEW tp \in TopicPartition
  PROVE  /\ pending[tp] <= HighestSeen(b, tp)
         /\ \A r \in b : PartitionOf(r) = tp => OffsetOf(r) <= HighestSeen(b, tp)
<1> DEFINE S == {pending[tp]} \cup {OffsetOf(r) : r \in {q \in b : PartitionOf(q) = tp}}
<1>1. S \in SUBSET Int /\ S # {} /\ \A x \in S : x <= LogLen
  <2>1. pending[tp] \in Int /\ pending[tp] <= LogLen
    BY DEF TypeOK
  <2>2. \A r \in b : OffsetOf(r) \in Int /\ OffsetOf(r) <= LogLen
    BY RecordParts
  <2> QED
    BY <2>1, <2>2
<1>2. pending[tp] \in S /\ \A r \in b : PartitionOf(r) = tp => OffsetOf(r) \in S
  OBVIOUS
<1> HIDE DEF S
<1>3. \A y \in S : Max(S) >= y
  <2>1. LogLen \in Int
    OBVIOUS
  <2> QED
    BY <1>1, <2>1, MaxIsGreatest
<1>4. HighestSeen(b, tp) = Max(S)
  BY DEF HighestSeen, S
<1>5. Max(S) \in Int
  <2>1. LogLen \in Int
    OBVIOUS
  <2> QED
    BY <1>1, <2>1, MaxIsGreatest
<1>6. ASSUME NEW y \in S PROVE y <= Max(S)
  BY <1>1, <1>3, <1>5
<1> QED
  BY <1>2, <1>4, <1>6

\* The offset a cycle commits on a partition: not past the pending one, and
\* below every record that the watermark tracks there.
LEMMA CommitBelow ==
  ASSUME TypeOK, NEW tp \in TopicPartition
  PROVE  /\ ToCommit(tp) \in 0 .. LogLen - 1 \cup {NoCommit}
         /\ ToCommit(tp) <= pending[tp]
         /\ IsGated(tp) => \A r \in held : PartitionOf(r) = tp => ToCommit(tp) < OffsetOf(r)
<1>1. pending[tp] \in 0 .. LogLen - 1 \cup {NoPending} /\ committed[tp] \in Nat
      /\ held \subseteq Records
  BY DEF TypeOK, Positions
<1>2. HeldOffsets(tp) \in SUBSET (0 .. LogLen - 1)
  BY <1>1, RecordParts DEF HeldOffsets
<1>3. \A r \in held : PartitionOf(r) = tp => OffsetOf(r) \in HeldOffsets(tp)
  BY DEF HeldOffsets
<1>4. CASE HasCeiling(tp)
  <2>1. Min(HeldOffsets(tp)) \in HeldOffsets(tp)
        /\ \A y \in HeldOffsets(tp) : Min(HeldOffsets(tp)) <= y
    BY <1>2, <1>4, MinIsLeast DEF HasCeiling
  <2>2. Ceiling(tp) = Min(HeldOffsets(tp)) - 1 /\ Ceiling(tp) \in -1 .. LogLen - 2
    BY <1>2, <2>1 DEF Ceiling
  <2>3. \A r \in held : PartitionOf(r) = tp => Ceiling(tp) < OffsetOf(r)
    BY <1>2, <1>3, <2>1, <2>2
  <2> QED
    BY <1>1, <1>2, <1>3, <1>4, <2>2, <2>3 DEF ToCommit, CommitOffset, CommitDue
<1>5. CASE ~HasCeiling(tp)
  <2>1. IsGated(tp) => \A r \in held : PartitionOf(r) # tp
    BY <1>3, <1>5 DEF HasCeiling
  <2>2. ToCommit(tp) \in {pending[tp], NoCommit}
    BY <1>5 DEF ToCommit, CommitOffset
  <2> QED
    BY <1>1, <2>1, <2>2
<1> QED
  BY <1>4, <1>5

LEMMA ProducedLog ==
  ASSUME TypeOK, NEW tp \in TopicPartition, Produce(tp)
  PROVE  /\ log' \in [TopicPartition -> Seq(0 .. MaxLosses)]
         /\ \A q \in TopicPartition : q # tp => log'[q] = log[q]
         /\ Len(log'[tp]) = Len(log[tp]) + 1
         /\ \A i \in 1 .. Len(log[tp]) : log'[tp][i] = log[tp][i]
         /\ log'[tp][Len(log[tp]) + 1] = losses
         /\ Len(log[tp]) \in 0 .. LogLen - 1
<1>1. log[tp] \in Seq(0 .. MaxLosses) /\ losses \in 0 .. MaxLosses /\ Len(log[tp]) \in Nat
  BY DEF TypeOK
<1> DEFINE s == Append(log[tp], losses)
<1>2. /\ s \in Seq(0 .. MaxLosses) /\ Len(s) = Len(log[tp]) + 1
      /\ \A i \in 1 .. Len(log[tp]) : s[i] = log[tp][i]
      /\ s[Len(log[tp]) + 1] = losses
  BY <1>1
<1> HIDE DEF s
<1>3. log' = [log EXCEPT ![tp] = s]
  BY DEF Produce, s
<1> QED
  BY <1>1, <1>2, <1>3 DEF TypeOK, Produce

LEMMA TruncatedLog ==
  ASSUME TypeOK, NEW tp \in TopicPartition, NEW len \in 0 .. LogLen, Truncate(tp, len)
  PROVE  /\ log' \in [TopicPartition -> Seq(0 .. MaxLosses)]
         /\ \A q \in TopicPartition : q # tp => log'[q] = log[q]
         /\ Len(log'[tp]) = len
         /\ \A i \in 1 .. len : log'[tp][i] = log[tp][i]
         /\ len < Len(log[tp]) /\ len < pos[tp]
         /\ cut'[tp] = IF cut[tp] # NoCut /\ cut[tp] <= len THEN cut[tp] ELSE len
         /\ \A q \in TopicPartition : q # tp => cut'[q] = cut[q]
<1>1. log[tp] \in Seq(0 .. MaxLosses) /\ Len(log[tp]) \in Nat /\ len < Len(log[tp])
      /\ len < pos[tp] /\ len \in Nat
  BY DEF TypeOK, Truncate
<1> DEFINE s == SubSeq(log[tp], 1, len)
<1>2. /\ s \in Seq(0 .. MaxLosses) /\ Len(s) = len
      /\ \A i \in 1 .. len : s[i] = log[tp][i]
  <2>1. ASSUME NEW i \in 1 .. len PROVE log[tp][i] \in 0 .. MaxLosses
    <3>1. i \in 1 .. Len(log[tp])
      BY <1>1
    <3> QED
      BY <1>1, <3>1, ElementOfSeq
  <2>2. /\ s \in Seq(0 .. MaxLosses)
        /\ Len(s) = IF 1 <= len THEN len - 1 + 1 ELSE 0
        /\ \A i \in 1 .. len - 1 + 1 : s[i] = log[tp][1 + i - 1]
    BY <1>1, <2>1, SubSeqProperties
  <2> HIDE DEF s
  <2>3. len - 1 + 1 = len /\ \A i \in 1 .. len : 1 + i - 1 = i
    BY <1>1
  <2> QED
    BY <1>1, <2>2, <2>3
<1> HIDE DEF s
<1>3. log' = [log EXCEPT ![tp] = s]
  BY DEF Truncate, s
<1>4. cut[tp] # NoCut => Min({cut[tp], len}) = IF cut[tp] <= len THEN cut[tp] ELSE len
  <2>1. HAVE cut[tp] # NoCut
  <2>2. cut[tp] \in Nat /\ len \in Nat
    BY <2>1 DEF TypeOK
  <2>3. Min({cut[tp], len}) \in {cut[tp], len} /\ \A y \in {cut[tp], len} : Min({cut[tp], len}) <= y
    <3>1. {cut[tp], len} \in SUBSET Int /\ {cut[tp], len} # {}
      BY <2>2
    <3>2. 0 \in Int /\ \A x \in {cut[tp], len} : 0 <= x
      BY <2>2
    <3> QED
      BY <3>1, <3>2, MinIsLeast
  <2> QED
    BY <2>2, <2>3
<1>5. cut' = [cut EXCEPT ![tp] = IF @ = NoCut THEN len ELSE Min({@, len})]
  BY DEF Truncate
<1> QED
  BY <1>1, <1>2, <1>3, <1>4, <1>5 DEF TypeOK

-----------------------------------------------------------------------------
(* Types.                                                                  *)

LEMMA InitType == Init => TypeOK
<1> SUFFICES ASSUME Init PROVE TypeOK
  OBVIOUS
<1>1. [i \in 1 .. LogLen |-> 0] \in Seq(0 .. MaxLosses) /\ Len([i \in 1 .. LogLen |-> 0]) = LogLen
  OBVIOUS
<1>2. log \in [TopicPartition -> Seq(0 .. MaxLosses)]
      /\ \A tp \in TopicPartition : Len(log[tp]) <= LogLen
  BY <1>1 DEF Init
<1>3. group \in Positions /\ pos \in Positions /\ committed \in Positions
  BY DEF Init, Positions
<1>4. /\ cut \in [TopicPartition -> 0 .. LogLen \cup {NoCut}]
      /\ pending \in [TopicPartition -> 0 .. LogLen - 1 \cup {NoPending}]
      /\ commits \in [TopicPartition -> 0 .. LogLen - 1 \cup {NoCommit}]
  BY DEF Init
<1>5. /\ mine = TopicPartition /\ shared = {}
      /\ todo = {} /\ failed \in BOOLEAN /\ cpc = "poll"
      /\ held = {} /\ open = {} /\ taken = {} /\ limbo = {} /\ durable = {} /\ flushes = {}
      /\ failures = 0 /\ losses = 0 /\ crashes = 0 /\ moves = 0
      /\ withheld = {} /\ forfeited = {} /\ again = {}
  BY DEF Init
<1>6. 0 \in Nat /\ 0 \in 0 .. MaxLosses
  OBVIOUS
<1> QED
  BY <1>2, <1>3, <1>4, <1>5, <1>6 DEF TypeOK

LEMMA MatesUnsettled ==
  ASSUME TypeOK, NEW S
  PROVE  Mates(S) \subseteq Unsettled /\ Unsettled \subseteq Records
BY DEF Mates, Unsettled, TypeOK

\* A member starts on a partition at an offset.
LEMMA StartIsPosition ==
  ASSUME TypeOK, NEW tp \in TopicPartition
  PROVE  Start(tp) \in 0 .. LogLen
<1>1. group[tp] \in 0 .. LogLen
  BY DEF TypeOK, Positions
<1> QED
  BY <1>1 DEF Start

LEMMA OtherRecords ==
  ASSUME TypeOK, NEW tp \in TopicPartition, NEW upto \in 0 .. LogLen
  PROVE  {RecordAt(tp, o) : o \in 0 .. Min({upto, Len(log[tp])}) - 1} \subseteq Records
<1>1. Len(log[tp]) \in Nat
  BY TypesAt
<1>2. Min({upto, Len(log[tp])}) \in Int /\ Min({upto, Len(log[tp])}) <= Len(log[tp])
  <2> DEFINE S == {upto, Len(log[tp])}
  <2>1. S \in SUBSET Int /\ S # {} /\ 0 \in Int /\ (\A x \in S : 0 <= x) /\ Len(log[tp]) \in S
    BY <1>1
  <2> HIDE DEF S
  <2>2. Min(S) \in S /\ Min(S) <= Len(log[tp])
    BY <2>1, MinIsLeast
  <2> QED
    BY <2>1, <2>2 DEF S
<1>3. ASSUME NEW o \in 0 .. Min({upto, Len(log[tp])}) - 1 PROVE o \in 0 .. Len(log[tp]) - 1
  BY <1>1, <1>2
<1> QED
  BY <1>3, RecordOfLog

LEMMA NextType == TypeOK /\ [Next]_vars => TypeOK'
<1> SUFFICES ASSUME TypeOK, [Next]_vars PROVE TypeOK'
  OBVIOUS
<1>1. ASSUME NEW upto \in Positions, Poll(upto) PROVE TypeOK'
  <2>1. todo' \in SUBSET Records
    BY <1>1, FetchedRecords DEF Poll
  <2>2. pending' \in [TopicPartition -> 0 .. LogLen - 1 \cup {NoPending}]
    <3>1. ASSUME NEW tp \in TopicPartition
          PROVE  HighestSeen(todo', tp) \in 0 .. LogLen - 1 \cup {NoPending}
      <4>1. CASE HighestSeen(todo', tp) = pending[tp]
        BY <4>1 DEF TypeOK
      <4>2. ASSUME NEW r \in todo', HighestSeen(todo', tp) = OffsetOf(r)
            PROVE  HighestSeen(todo', tp) \in 0 .. LogLen - 1
        BY <2>1, <4>2, RecordParts
      <4> QED
        BY <2>1, <4>1, <4>2, PendingAfterPoll
    <3> QED
      BY <1>1, <3>1 DEF Poll
  <2>3. pos' \in Positions
    BY <1>1 DEF Poll
  <2> QED
    BY <1>1, <2>1, <2>2, <2>3 DEF Poll, TypeOK, groupVars, traceVars, storeVars, budgetVars
<1>2. ASSUME NEW upto \in Positions, NEW errs \in SUBSET TopicPartition, FetchError(upto, errs)
      PROVE  TypeOK'
  <2>1. Torn(errs) \subseteq TopicPartition
        /\ \A tp \in Torn(errs) : cut[tp] \in 0 .. LogLen
    BY DEF Torn, TypeOK
  <2>2. pos' \in Positions /\ cut' \in [TopicPartition -> 0 .. LogLen \cup {NoCut}]
    BY <1>2, <2>1 DEF FetchError, TypeOK, Positions
  <2>3. Mates(DataLoss(Torn(errs))) \subseteq Records
    BY MatesUnsettled
  <2>4. Fetched(upto) \subseteq Records
    BY <1>2, FetchedRecords DEF FetchError
  <2>5. failures' \in Nat /\ held' \subseteq held /\ limbo' \subseteq limbo
    BY <1>2 DEF FetchError, TypeOK
  <2>6. (withheld' \cup forfeited') \subseteq Records
    BY <1>2, <2>3, <2>4 DEF FetchError, TypeOK
  <2> QED
    BY <1>2, <2>2, <2>5, <2>6 DEF FetchError, TypeOK, groupVars, pollVars, storeVars
<1>3. ASSUME NEW r \in todo, Ingest(r) PROVE TypeOK'
  <2>1. held' \subseteq Records /\ open' \subseteq Records /\ todo' \subseteq Records
    BY <1>3 DEF Ingest, TypeOK
  <2> QED
    BY <1>3, <2>1 DEF Ingest, TypeOK, groupVars, clientVars, storeVars, budgetVars
<1>4. ASSUME NEW topic \in Topic, WriteOk(topic) \/ WriteError(topic) PROVE TypeOK'
  <2>1. RecordsOf(topic) \subseteq Records
    BY DEF RecordsOf, TypeOK
  <2>2. durable' \subseteq Records /\ flushes' \subseteq SUBSET Records
    <3>1. \/ durable' = durable /\ flushes' = flushes
          \/ durable' = durable \cup RecordsOf(topic) /\ flushes' = flushes \cup {RecordsOf(topic)}
      BY <1>4 DEF WriteOk, WriteError, storeVars
    <3>2. durable \subseteq Records /\ flushes \subseteq SUBSET Records
      BY DEF TypeOK
    <3> QED
      BY <2>1, <3>1, <3>2
  <2>3. /\ withheld' \subseteq Records /\ todo' \subseteq Records /\ failures' \in Nat
        /\ failed' \in BOOLEAN
    <3>1. CASE WriteOk(topic)
      BY <3>1 DEF WriteOk, TypeOK, budgetVars
    <3>2. CASE WriteError(topic)
      BY <2>1, <3>2 DEF WriteError, TypeOK
    <3> QED
      BY <1>4, <3>1, <3>2
  <2>4. UNCHANGED <<log, cut, group, groupVars, clientVars, commits, cpc, traceVars, losses,
                    crashes, moves, forfeited, again>>
    BY <1>4 DEF WriteOk, WriteError, budgetVars
  <2> QED
    BY <2>2, <2>3, <2>4 DEF TypeOK, groupVars, clientVars, traceVars
<1>5. ASSUME NEW d \in SUBSET open, Take(d) PROVE TypeOK'
  BY <1>5 DEF Take, TypeOK, groupVars, clientVars, pollVars, storeVars, budgetVars
<1>6. ASSUME NEW d \in SUBSET taken, Decide(d) \/ DecideError(d) PROVE TypeOK'
  <2>1. d \subseteq Records /\ Mates(d) \subseteq Records
    BY MatesUnsettled DEF TypeOK
  <2>2. CASE Decide(d)
    <3>1. /\ taken' \subseteq taken /\ held' \subseteq held /\ limbo' \subseteq limbo
          /\ durable' \subseteq Records /\ forfeited' \subseteq Records
      BY <2>1, <2>2 DEF Decide, TypeOK
    <3> QED
      BY <2>2, <3>1 DEF Decide, TypeOK, groupVars, clientVars, pollVars, budgetVars
  <2>3. CASE DecideError(d)
    <3>1. /\ taken' \subseteq taken /\ limbo' \subseteq Records /\ durable' \subseteq Records
          /\ failures' \in Nat
      BY <2>1, <2>3 DEF DecideError, TypeOK
    <3> QED
      BY <2>3, <3>1 DEF DecideError, TypeOK, groupVars, clientVars, pollVars
  <2> QED
    BY <1>6, <2>2, <2>3
<1>7. ASSUME NEW e \in held, Expire(e) PROVE TypeOK'
  <2>1. Mates({e}) \subseteq Records
    BY MatesUnsettled
  <2>2. held' \subseteq held /\ limbo' \subseteq limbo /\ forfeited' \subseteq Records
    BY <1>7, <2>1 DEF Expire, TypeOK
  <2> QED
    BY <1>7, <2>2 DEF Expire, TypeOK, groupVars, clientVars, pollVars, storeVars, budgetVars
<1>8. ASSUME NEW tp \in TopicPartition, Produce(tp) PROVE TypeOK'
  <2>1. log' \in [TopicPartition -> Seq(0 .. MaxLosses)]
        /\ \A q \in TopicPartition : Len(log'[q]) <= LogLen
    <3>1. log' \in [TopicPartition -> Seq(0 .. MaxLosses)] /\ Len(log[tp]) \in 0 .. LogLen - 1
      BY <1>8, ProducedLog
    <3>2. Len(log'[tp]) = Len(log[tp]) + 1 /\ \A q \in TopicPartition : q # tp => log'[q] = log[q]
      BY <1>8, ProducedLog
    <3>3. \A q \in TopicPartition : Len(log[q]) <= LogLen
      BY DEF TypeOK
    <3>4. Len(log[tp]) + 1 <= LogLen
      BY <3>1
    <3>5. ASSUME NEW q \in TopicPartition PROVE Len(log'[q]) <= LogLen
      <4>1. CASE q = tp
        BY <3>2, <3>4, <4>1
      <4>2. CASE q # tp
        BY <3>2, <3>3, <4>2
      <4> QED
        BY <4>1, <4>2
    <3> QED
      BY <3>1, <3>5
  <2>2. <<tp, Len(log[tp]), losses>> \in Records
    BY <1>8, ProducedLog DEF Records, TypeOK
  <2> QED
    BY <1>8, <2>1, <2>2
    DEF Produce, TypeOK, groupVars, clientVars, pollVars, traceVars, storeVars, budgetVars
<1>9. ASSUME NEW tp \in TopicPartition, NEW len \in 0 .. LogLen, Truncate(tp, len) PROVE TypeOK'
  <2>1. log' \in [TopicPartition -> Seq(0 .. MaxLosses)]
        /\ \A q \in TopicPartition : Len(log'[q]) <= LogLen
    <3>1. log' \in [TopicPartition -> Seq(0 .. MaxLosses)]
      BY <1>9, TruncatedLog
    <3>2. Len(log'[tp]) = len /\ \A q \in TopicPartition : q # tp => log'[q] = log[q]
      BY <1>9, TruncatedLog
    <3>3. \A q \in TopicPartition : Len(log[q]) <= LogLen
      BY DEF TypeOK
    <3>4. ASSUME NEW q \in TopicPartition PROVE Len(log'[q]) <= LogLen
      <4>1. CASE q = tp
        BY <3>2, <4>1
      <4>2. CASE q # tp
        BY <3>2, <3>3, <4>2
      <4> QED
        BY <4>1, <4>2
    <3> QED
      BY <3>1, <3>4
  <2>2. cut' \in [TopicPartition -> 0 .. LogLen \cup {NoCut}]
    <3>1. cut' = [cut EXCEPT ![tp] = cut'[tp]]
      BY <1>9 DEF Truncate, TypeOK
    <3>2. cut'[tp] \in 0 .. LogLen
      <4>1. cut'[tp] = IF cut[tp] # NoCut /\ cut[tp] <= len THEN cut[tp] ELSE len
        BY <1>9, TruncatedLog
      <4>2. cut[tp] \in 0 .. LogLen \cup {NoCut}
        BY DEF TypeOK
      <4> QED
        BY <4>1, <4>2
    <3> QED
      BY <3>1, <3>2 DEF TypeOK
  <2>3. losses' \in 0 .. MaxLosses
    BY <1>9 DEF Truncate, TypeOK
  <2> QED
    BY <1>9, <2>1, <2>2, <2>3 
    DEF Truncate, TypeOK, groupVars, clientVars, pollVars, traceVars, storeVars
<1>10. ASSUME NEW tp \in TopicPartition, Revoke(tp) PROVE TypeOK'
  <2>1. mine' \cup shared' \subseteq TopicPartition /\ moves' \in Nat
    BY <1>10 DEF Revoke, TypeOK
  <2> QED
    BY <1>10, <2>1 DEF Revoke, TypeOK, clientVars, pollVars, traceVars, storeVars
<1>11. ASSUME NEW tp \in TopicPartition, Assign(tp) PROVE TypeOK'
  <2>1. pos' \in Positions /\ cut' \in [TopicPartition -> 0 .. LogLen \cup {NoCut}]
    BY <1>11, StartIsPosition DEF Assign, TypeOK, Positions
  <2>2. mine' \subseteq TopicPartition /\ again' \subseteq Records
    BY <1>11 DEF Assign, TypeOK
  <2> QED
    BY <1>11, <2>1, <2>2 DEF Assign, TypeOK, pollVars, traceVars, storeVars, budgetVars
<1>12. ASSUME NEW tp \in TopicPartition, NEW upto \in 0 .. LogLen,
              OtherDeals(tp, upto) \/ OtherCommits(tp, upto)
       PROVE  TypeOK'
  <2>1. durable' \subseteq Records
    BY <1>12, OtherRecords DEF OtherDeals, OtherCommits, storeVars, TypeOK
  <2>2. group' \in Positions
    BY <1>12 DEF OtherDeals, OtherCommits, TypeOK, Positions
  <2>3. UNCHANGED <<log, cut, groupVars, clientVars, commits, pollVars, cpc, traceVars, flushes,
                    budgetVars, withheld, forfeited, again>>
    BY <1>12 DEF OtherDeals, OtherCommits, storeVars
  <2> QED
    BY <2>1, <2>2, <2>3 DEF TypeOK, groupVars, clientVars, pollVars, traceVars, budgetVars
<1>13. CASE Withhold
  BY <1>13 DEF Withhold, TypeOK, groupVars, clientVars, traceVars, storeVars, budgetVars
<1>14. CASE Gather
  <2>1. commits' \in [TopicPartition -> 0 .. LogLen - 1 \cup {NoCommit}]
    BY <1>14, CommitBelow DEF Gather
  <2> QED
    BY <1>14, <2>1 DEF Gather, TypeOK, groupVars, clientVars, traceVars, storeVars, budgetVars
<1>15. CASE Commit
  <2>1. ASSUME NEW f \in Positions PROVE After(f) \in Positions
    <3>1. ASSUME NEW tp \in TopicPartition, commits[tp] # NoCommit
          PROVE  commits[tp] + 1 \in 0 .. LogLen
      <4>1. commits[tp] \in 0 .. LogLen - 1
        BY <3>1 DEF TypeOK
      <4> QED
        BY <4>1
    <3> QED
      BY <3>1 DEF After, Positions
  <2>2. group' \in Positions /\ committed' \in Positions
    BY <1>15, <2>1 DEF Commit, TypeOK
  <2>3. failures' \in Nat
    BY <1>15 DEF Commit, TypeOK
  <2> QED
    BY <1>15, <2>2, <2>3 DEF Commit, TypeOK, groupVars, pollVars, traceVars, storeVars
<1>16. CASE Crash
  <2>1. pos' \in Positions
    BY <1>16, StartIsPosition DEF Crash, Positions
  <2>2. committed' \in Positions
    BY <1>16 DEF Crash, Positions
  <2>3. /\ cut' \in [TopicPartition -> 0 .. LogLen \cup {NoCut}]
        /\ pending' \in [TopicPartition -> 0 .. LogLen - 1 \cup {NoPending}]
        /\ commits' \in [TopicPartition -> 0 .. LogLen - 1 \cup {NoCommit}]
    BY <1>16 DEF Crash
  <2>4. /\ todo' = {} /\ failed' = FALSE /\ cpc' = "poll"
        /\ held' = {} /\ open' = {} /\ taken' = {} /\ limbo' = {} /\ withheld' = {}
        /\ crashes' \in Nat /\ again' \subseteq Records
        /\ UNCHANGED <<log, group, groupVars, storeVars, failures, losses, moves, forfeited>>
    BY <1>16 DEF Crash, TypeOK
  <2> QED
    BY <2>1, <2>2, <2>3, <2>4 DEF TypeOK, groupVars, storeVars
<1>17. CASE UNCHANGED vars
  BY <1>17 DEF vars, TypeOK, groupVars, clientVars, pollVars, traceVars, storeVars, budgetVars
<1> QED
  BY <1>1, <1>2, <1>3, <1>4, <1>5, <1>6, <1>7, <1>8, <1>9, <1>10, <1>11, <1>12, <1>13, <1>14,
     <1>15, <1>16, <1>17
  DEF Next, LoopStep, Decision

\* Type correctness of the poll loop.
THEOREM TypeCorrect == Spec => []TypeOK
  BY InitType, NextType, PTL DEF Spec

-----------------------------------------------------------------------------
(* The inductive invariant.                                                *)

\* The position up to which this process has read the log that the broker has
\* now: where the log was cut, until the client learns of the cut.
Reach(tp) == IF cut[tp] = NoCut THEN pos[tp] ELSE cut[tp]

\* Gone for ever: offsets are used again, but in a later leader epoch.
Lost(r) == ~InLog(r) /\ r[3] < losses

\* Where the poll loop is, and what the client knows of the log.
LoopInv ==
  /\ cpc # "handle" => todo = {}
  /\ TopicPartition \ mine \subseteq shared
  /\ \A tp \in TopicPartition :
       IF cut[tp] = NoCut THEN pos[tp] <= Len(log[tp])
                          ELSE cut[tp] <= Len(log[tp]) /\ cut[tp] <= pos[tp]

\* What a handler of this process has seen, or that was dealt with anyhow.
Seen == Dealt \cup withheld \cup Unsettled

CoverInv ==
  /\ \A tp \in TopicPartition : \A o \in 0 .. Len(log[tp]) - 1 :
       /\ (o <= pending[tp] \/ o < Reach(tp)) => RecordAt(tp, o) \in Seen \cup todo
       /\ o < group[tp] => RecordAt(tp, o) \in Dealt
  /\ cpc = "commit" => \A tp \in TopicPartition :
       /\ commits[tp] <= pending[tp]
       /\ \A o \in 0 .. Len(log[tp]) - 1 :
            o <= commits[tp] => RecordAt(tp, o) \in Dealt

\* An entry is one of a gated topic, for an offset that was fetched.  While the
\* partition has not moved and the client has noticed no loss, it is a record
\* of the log.
HeldInv ==
  /\ \A e \in held : IsGated(PartitionOf(e))
  /\ \A r \in held \cup todo :
       /\ OffsetOf(r) <= pending[PartitionOf(r)]
       /\ PartitionOf(r) \notin shared =>
            OffsetOf(r) < pos[PartitionOf(r)] /\ (cut[PartitionOf(r)] = NoCut => InLog(r))

\* The watermark has the trace of a record, from the record's offset or below.
Covered(r) == \E e \in held : SameTrace(e, r) /\ OffsetOf(e) <= OffsetOf(r)

\* A span that is not settled keeps the floor at or below it, or was given up.
KeptInv == \A r \in Unsettled : r \in Dealt \cup withheld \/ Covered(r)

\* A record that comes when a later one has the entry of its trace comes again.
TodoInv ==
  \A r \in todo, e \in held :
    SameTrace(e, r) /\ OffsetOf(r) < OffsetOf(e) => r \in Seen

\* Below the position, or gone: what was read is not read again.
ReadOnce(r) == Lost(r) \/ (InLog(r) /\ OffsetOf(r) < Reach(PartitionOf(r)))

FlushInv ==
  /\ \A tp \in TopicPartition : \A i \in 1 .. Len(log[tp]) : log[tp][i] <= losses
  /\ \A r \in todo : r[3] <= losses /\ (r \in again \/ ReadOnce(r))
  /\ \A f \in flushes : \A r \in f :
       r[3] <= losses /\ (r \in again \/ (ReadOnce(r) /\ r \notin todo))
  /\ StoredTwiceOnlyIfRedelivered

-----------------------------------------------------------------------------
(* How the log and the position move.                                      *)

LEMMA InLogMeans ==
  ASSUME TypeOK, NEW r \in Records
  PROVE  InLog(r) <=> r[2] < Len(log[r[1]]) /\ log[r[1]][r[2] + 1] = r[3]
<1>1. r = <<r[1], r[2], r[3]>>
  BY RecordParts
<1>2. RecordAt(r[1], r[2]) = <<r[1], r[2], log[r[1]][r[2] + 1]>>
  BY DEF RecordAt
<1>3. RecordAt(r[1], r[2]) = r <=> log[r[1]][r[2] + 1] = r[3]
  BY <1>1, <1>2
<1> QED
  BY <1>3 DEF InLog

LEMMA InLogMeansNext ==
  ASSUME TypeOK', NEW r \in Records
  PROVE  InLog(r)' <=> r[2] < Len(log'[r[1]]) /\ log'[r[1]][r[2] + 1] = r[3]
<1>1. r = <<r[1], r[2], r[3]>>
  BY RecordParts
<1>2. RecordAt(r[1], r[2])' = <<r[1], r[2], log'[r[1]][r[2] + 1]>>
  BY DEF RecordAt
<1>3. RecordAt(r[1], r[2])' = r <=> log'[r[1]][r[2] + 1] = r[3]
  BY <1>1, <1>2
<1> QED
  BY <1>3 DEF InLog

LEMMA FetchBound ==
  ASSUME TypeOK, LoopInv, NEW upto \in Positions, Fetchable(upto), NEW tp \in TopicPartition
  PROVE  /\ pos[tp] <= upto[tp]
         /\ cut[tp] = NoCut => upto[tp] <= Len(log[tp])
         /\ cut[tp] # NoCut \/ tp \notin mine => upto[tp] = pos[tp]
<1>1. pos[tp] \in Nat /\ upto[tp] \in Nat /\ Len(log[tp]) \in Nat
  BY DEF TypeOK, Positions
<1>2. pos[tp] <= upto[tp] /\ (cut[tp] # NoCut \/ tp \notin mine => upto[tp] = pos[tp])
  BY DEF Fetchable
<1>3. CASE cut[tp] = NoCut
  <2>1. pos[tp] <= Len(log[tp])
    BY <1>3 DEF LoopInv
  <2>2. CASE upto[tp] = pos[tp]
    BY <1>2, <1>3, <2>1, <2>2
  <2>3. CASE upto[tp] # pos[tp]
    <3>1. upto[tp] <= Max({pos[tp], Len(log[tp])})
      BY <1>2, <1>3, <2>3 DEF Fetchable
    <3>2. Max({pos[tp], Len(log[tp])}) \in {pos[tp], Len(log[tp])}
      <4> DEFINE S == {pos[tp], Len(log[tp])}
                 b == pos[tp] + Len(log[tp])
      <4>1. S \in SUBSET Int /\ S # {} /\ b \in Int /\ \A x \in S : x <= b
        BY <1>1
      <4> HIDE DEF S, b
      <4>2. Max(S) \in S
        BY <4>1, MaxIsGreatest
      <4> QED
        BY <4>2 DEF S
    <3> QED
      BY <1>1, <1>2, <1>3, <2>1, <3>1, <3>2
  <2> QED
    BY <2>2, <2>3
<1> QED
  BY <1>2, <1>3

\* A record read, and one that is gone, stay so when a record is produced or
\* the end of a log is lost.
LEMMA ProduceKeeps ==
  ASSUME TypeOK, TypeOK', NEW tp \in TopicPartition, Produce(tp), NEW r \in Records
  PROVE  /\ InLog(r) => InLog(r)'
         /\ Lost(r) => Lost(r)'
<1>1. r[1] \in TopicPartition /\ r[2] \in Nat /\ r[3] \in Nat /\ losses \in Nat
      /\ losses' = losses
  BY RecordParts DEF TypeOK, Produce, budgetVars
<1>2. CASE r[1] # tp
  <2>1. log'[r[1]] = log[r[1]]
    BY <1>1, <1>2, ProducedLog
  <2> QED
    BY <1>1, <2>1 DEF Lost, InLog, RecordAt
<1>3. CASE r[1] = tp
  <2> DEFINE n == Len(log[tp])
  <2>1. /\ n \in Nat /\ Len(log'[tp]) = n + 1 /\ log'[tp][n + 1] = losses
        /\ \A i \in 1 .. n : log'[tp][i] = log[tp][i]
    BY ProducedLog
  <2> HIDE DEF n
  <2>2. InLog(r) <=> r[2] < n /\ log[tp][r[2] + 1] = r[3]
    BY <1>3, InLogMeans DEF n
  <2>3. InLog(r)' <=> r[2] < n + 1 /\ log'[tp][r[2] + 1] = r[3]
    BY <1>3, <2>1, InLogMeansNext
  <2>4. r[2] < n => r[2] + 1 \in 1 .. n
    <3>1. n \in Nat /\ r[2] \in Nat
      BY <1>1, <2>1
    <3> QED
      BY <3>1
  <2>5. r[2] < n => log'[tp][r[2] + 1] = log[tp][r[2] + 1]
    BY <2>1, <2>4
  <2>6. r[2] < n + 1 /\ ~(r[2] < n) => r[2] + 1 = n + 1
    <3>1. n \in Nat /\ r[2] \in Nat
      BY <1>1, <2>1
    <3> QED
      BY <3>1
  <2>7. InLog(r) => InLog(r)'
    BY <1>1, <2>1, <2>2, <2>3, <2>5
  <2>8. ASSUME r[3] < losses, InLog(r)' PROVE InLog(r)
    <3>1. r[2] < n + 1 /\ log'[tp][r[2] + 1] = r[3]
      BY <2>3, <2>8
    <3>2. r[2] < n
      <4>1. SUFFICES ASSUME ~(r[2] < n) PROVE FALSE
        OBVIOUS
      <4>2. r[3] = losses
        BY <2>1, <2>6, <3>1, <4>1
      <4> QED
        BY <1>1, <2>8, <4>2
    <3> QED
      BY <2>2, <2>5, <3>1, <3>2
  <2> QED
    BY <1>1, <2>7, <2>8 DEF Lost
<1> QED
  BY <1>2, <1>3

LEMMA TruncateKeeps ==
  ASSUME TypeOK, TypeOK', NEW tp \in TopicPartition, NEW len \in 0 .. LogLen,
         Truncate(tp, len), NEW r \in Records
  PROVE  /\ InLog(r) /\ (r[1] = tp => r[2] < len) => InLog(r)'
         /\ r[1] = tp /\ len <= r[2] => ~InLog(r)'
         /\ InLog(r)' => InLog(r)
         /\ losses' = losses + 1 /\ losses \in Nat
<1>1. r[1] \in TopicPartition /\ r[2] \in Nat /\ len \in Nat
      /\ losses' = losses + 1 /\ losses \in Nat
  BY RecordParts DEF Truncate, TypeOK
<1>2. CASE r[1] # tp
  <2>1. log'[r[1]] = log[r[1]]
    BY <1>1, <1>2, TruncatedLog
  <2> QED
    BY <1>1, <1>2, <2>1 DEF InLog, RecordAt
<1>3. CASE r[1] = tp
  <2> DEFINE n == Len(log[tp])
  <2>1. n \in Nat
    BY DEF TypeOK
  <2>2. Len(log'[tp]) = len /\ len < n /\ \A i \in 1 .. len : log'[tp][i] = log[tp][i]
    BY TruncatedLog
  <2> HIDE DEF n
  <2>3. InLog(r) <=> r[2] < n /\ log[tp][r[2] + 1] = r[3]
    BY <1>3, InLogMeans DEF n
  <2>4. InLog(r)' <=> r[2] < len /\ log'[tp][r[2] + 1] = r[3]
    BY <1>3, <2>2, InLogMeansNext
  <2>5. r[2] < len => r[2] + 1 \in 1 .. len /\ r[2] < n
    BY <1>1, <2>1, <2>2
  <2>6. r[2] < len => log'[tp][r[2] + 1] = log[tp][r[2] + 1]
    BY <2>2, <2>5
  <2> QED
    BY <1>1, <1>3, <2>3, <2>4, <2>5, <2>6
<1> QED
  BY <1>2, <1>3

\* The steps that take neither the log nor a position nor the loop's place.
LEMMA LoopSteady ==
  ASSUME LoopInv, UNCHANGED <<log, cut, pos>>,
         todo' \subseteq todo, cpc' = cpc \/ todo = {},
         TopicPartition \ mine' \subseteq shared'
  PROVE  LoopInv'
BY DEF LoopInv

LEMMA NextLoop == TypeOK /\ TypeOK' /\ LoopInv /\ [Next]_vars => LoopInv'
<1> SUFFICES ASSUME TypeOK, TypeOK', LoopInv, [Next]_vars PROVE LoopInv'
  OBVIOUS
<1>0. \A tp \in TopicPartition :
        /\ Len(log[tp]) \in Nat /\ Len(log'[tp]) \in Nat /\ pos[tp] \in Nat /\ pos'[tp] \in Nat
        /\ cut[tp] \in Nat \cup {NoCut}
  <2>1. ASSUME NEW tp \in TopicPartition PROVE Len(log'[tp]) \in Nat /\ pos'[tp] \in Nat
    BY DEF TypeOK, Positions
  <2> QED
    BY <2>1, TypesAt
<1>00. TopicPartition \ mine \subseteq shared
  BY DEF LoopInv
<1>1. ASSUME NEW upto \in Positions, Poll(upto) PROVE LoopInv'
  BY <1>1, FetchBound DEF Poll, LoopInv, groupVars
<1>2. ASSUME NEW upto \in Positions, NEW errs \in SUBSET TopicPartition, FetchError(upto, errs)
      PROVE  LoopInv'
  <2>1. /\ pos' = [tp \in TopicPartition |-> IF tp \in Torn(errs) THEN cut[tp] ELSE upto[tp]]
        /\ cut' = [tp \in TopicPartition |-> IF tp \in Torn(errs) THEN NoCut ELSE cut[tp]]
        /\ UNCHANGED <<log, mine, shared, todo, cpc>>
    BY <1>2 DEF FetchError, groupVars, pollVars
  <2>2. \A tp \in Torn(errs) : cut[tp] # NoCut
    BY DEF Torn
  <2>3. ASSUME NEW tp \in TopicPartition
        PROVE  IF cut'[tp] = NoCut THEN pos'[tp] <= Len(log[tp])
               ELSE cut'[tp] <= Len(log[tp]) /\ cut'[tp] <= pos'[tp]
    <3>1. CASE tp \in Torn(errs)
      BY <2>1, <2>2, <3>1 DEF LoopInv
    <3>2. CASE tp \notin Torn(errs)
      BY <1>2, <2>1, <3>2, FetchBound DEF LoopInv, FetchError
    <3> QED
      BY <3>1, <3>2
  <2> QED
    BY <2>1, <2>3 DEF LoopInv
<1>3. ASSUME \/ \E r \in todo : Ingest(r)
             \/ \E topic \in Topic : WriteOk(topic) \/ WriteError(topic)
      PROVE  LoopInv'
  <2>1. UNCHANGED <<log, cut, pos, mine, shared, cpc>> /\ todo' \subseteq todo
    BY <1>3 DEF Ingest, WriteOk, WriteError, groupVars, clientVars
  <2> QED
    BY <1>00, <2>1, LoopSteady
<1>4. ASSUME \/ \E d \in SUBSET open : Take(d)
             \/ \E d \in SUBSET taken : Decide(d) \/ DecideError(d)
             \/ \E e \in held : Expire(e)
             \/ \E tp \in TopicPartition : \E o \in 0 .. LogLen :
                  OtherDeals(tp, o) \/ OtherCommits(tp, o)
             \/ UNCHANGED vars
      PROVE  LoopInv'
  <2>1. UNCHANGED <<log, cut, pos, mine, shared, cpc, todo>>
    BY <1>4 DEF Take, Decide, DecideError, Expire, OtherDeals, OtherCommits, vars, groupVars,
                clientVars, pollVars
  <2> QED
    BY <1>00, <2>1, LoopSteady
<1>5. ASSUME NEW tp \in TopicPartition, Produce(tp) PROVE LoopInv'
  <2>1. UNCHANGED <<cpc, todo, mine, shared, cut, pos>>
    BY <1>5 DEF Produce, groupVars, clientVars, pollVars
  <2>2. \A q \in TopicPartition : Len(log[q]) <= Len(log'[q])
    <3>1. Len(log'[tp]) = Len(log[tp]) + 1 /\ \A q \in TopicPartition : q # tp => log'[q] = log[q]
      BY <1>5, ProducedLog
    <3>2. Len(log[tp]) <= Len(log'[tp])
      BY <1>0, <3>1
    <3> QED
      BY <1>0, <3>1, <3>2
  <2>3. cpc # "handle" => todo = {}
    BY DEF LoopInv
  <2>4. ASSUME NEW q \in TopicPartition
        PROVE  IF cut[q] = NoCut THEN pos[q] <= Len(log'[q])
                                 ELSE cut[q] <= Len(log'[q]) /\ cut[q] <= pos[q]
    <3>1. Len(log[q]) <= Len(log'[q]) /\ Len(log[q]) \in Nat /\ Len(log'[q]) \in Nat
          /\ pos[q] \in Nat /\ cut[q] \in Nat \cup {NoCut}
      BY <1>0, <2>2
    <3>2. IF cut[q] = NoCut THEN pos[q] <= Len(log[q])
                            ELSE cut[q] <= Len(log[q]) /\ cut[q] <= pos[q]
      BY DEF LoopInv
    <3>3. CASE cut[q] = NoCut
      BY <3>1, <3>2, <3>3
    <3>4. CASE cut[q] # NoCut
      BY <3>1, <3>2, <3>4
    <3> QED
      BY <3>3, <3>4
  <2> QED
    BY <2>1, <2>3, <2>4 DEF LoopInv
<1>6. ASSUME NEW tp \in TopicPartition, NEW len \in 0 .. LogLen, Truncate(tp, len) PROVE LoopInv'
  <2>1. UNCHANGED <<cpc, todo, mine, shared, pos>>
    BY <1>6 DEF Truncate, groupVars, clientVars, pollVars
  <2>2. /\ Len(log'[tp]) = len /\ len < pos[tp]
        /\ cut'[tp] = IF cut[tp] # NoCut /\ cut[tp] <= len THEN cut[tp] ELSE len
        /\ \A q \in TopicPartition : q # tp => cut'[q] = cut[q] /\ log'[q] = log[q]
    BY <1>6, TruncatedLog
  <2>3. cut'[tp] # NoCut /\ cut'[tp] <= len /\ len \in Nat /\ cut'[tp] <= pos[tp]
    BY <1>0, <2>2
  <2> QED
    BY <2>1, <2>2, <2>3 DEF LoopInv
<1>7. ASSUME NEW tp \in TopicPartition, Revoke(tp) PROVE LoopInv'
  <2>1. UNCHANGED <<log, cut, pos, cpc, todo>>
        /\ mine' = mine \ {tp} /\ shared' = shared \cup {tp}
    BY <1>7 DEF Revoke, clientVars, pollVars
  <2> QED
    BY <1>00, <2>1, LoopSteady
<1>8. ASSUME NEW tp \in TopicPartition, Assign(tp) PROVE LoopInv'
  <2>1. UNCHANGED <<log, cpc, todo, shared>> /\ mine' = mine \cup {tp}
        /\ pos' = [pos EXCEPT ![tp] = Start(tp)] /\ cut' = [cut EXCEPT ![tp] = NoCut]
    BY <1>8 DEF Assign, pollVars
  <2>2. Start(tp) <= Len(log[tp])
    BY <1>0 DEF Start
  <2>3. cut' \in [TopicPartition -> Int] /\ cut'[tp] = NoCut /\ pos'[tp] = Start(tp)
        /\ \A q \in TopicPartition : q # tp => cut'[q] = cut[q] /\ pos'[q] = pos[q]
    BY <2>1 DEF TypeOK, Positions
  <2> QED
    BY <1>00, <2>1, <2>2, <2>3 DEF LoopInv
<1>9. CASE Withhold \/ Gather \/ Commit
  <2>1. UNCHANGED <<log, cut, pos, mine, shared, todo>> /\ todo = {}
    BY <1>9 DEF Withhold, Gather, Commit, Handled, LoopInv, groupVars, clientVars, pollVars
  <2> QED
    BY <1>00, <2>1, LoopSteady
<1>10. CASE Crash
  BY <1>0, <1>00, <1>10 DEF Crash, LoopInv, Start, groupVars
<1> QED
  BY <1>1, <1>2, <1>3, <1>4, <1>5, <1>6, <1>7, <1>8, <1>9, <1>10 DEF Next, LoopStep, Decision

-----------------------------------------------------------------------------
(* Spans and entries.                                                      *)

\* Entries go away only together with the claims of their traces' spans.
Released == \A e \in held \ held', r \in Unsettled' : SameTrace(r, e) => r \in Dealt'

LEMMA FetchErrorReleases ==
  ASSUME NEW upto, NEW errs, FetchError(upto, errs)
  PROVE  /\ Dealt \subseteq Dealt' /\ withheld \subseteq withheld' /\ held' \subseteq held
         /\ Unsettled' \subseteq Unsettled /\ Unsettled \subseteq Unsettled' \cup Dealt'
         /\ Fetched(upto) \subseteq withheld'
         /\ Released
<1> DEFINE cleared == DataLoss(Torn(errs))
<1>1. /\ held' = held \ cleared /\ limbo' = limbo \ Mates(cleared) /\ UNCHANGED <<open, taken>>
      /\ forfeited' = forfeited \cup (Mates(cleared) \ durable) /\ durable' = durable
      /\ withheld' = withheld \cup Fetched(upto)
  BY DEF FetchError, storeVars
<1> HIDE DEF cleared
<1>2. Mates(cleared) \subseteq Dealt'
  BY <1>1 DEF Dealt
<1>3. Unsettled' \subseteq Unsettled /\ Unsettled \subseteq Unsettled' \cup Mates(cleared)
  BY <1>1 DEF Unsettled
<1>4. ASSUME NEW e \in held \ held', NEW r \in Unsettled', SameTrace(r, e) PROVE r \in Dealt'
  <2>1. r \in Mates(cleared)
    BY <1>1, <1>3, <1>4 DEF Mates
  <2> QED
    BY <1>2, <2>1
<1> QED
  BY <1>1, <1>2, <1>3, <1>4 DEF Dealt, Released

\* The steps of the assembler's goroutines.
AssemblerStep ==
  \/ \E d \in SUBSET open : Take(d)
  \/ Decision
  \/ \E d \in SUBSET taken : DecideError(d)
  \/ \E e \in held : Expire(e)

LEMMA AssemblerKeeps ==
  ASSUME AssemblerStep
  PROVE  /\ UNCHANGED <<log, cut, group, mine, shared, pos, pending, commits, todo, cpc>>
         /\ UNCHANGED <<losses, flushes, again, withheld>>
BY DEF AssemblerStep, Decision, Take, Decide, DecideError, Expire, groupVars, clientVars,
       pollVars, storeVars, budgetVars

LEMMA AssemblerReleases ==
  ASSUME AssemblerStep
  PROVE  /\ Dealt \subseteq Dealt' /\ held' \subseteq held
         /\ Unsettled' \subseteq Unsettled /\ Unsettled \subseteq Unsettled' \cup Dealt'
         /\ Released
<1>1. ASSUME NEW d \in SUBSET open, Take(d)
      PROVE  Dealt' = Dealt /\ held' = held /\ Unsettled' = Unsettled
  BY <1>1 DEF Take, Dealt, Unsettled, storeVars
<1>2. ASSUME NEW d \in SUBSET taken, DecideError(d)
      PROVE  Dealt \subseteq Dealt' /\ held' = held /\ Unsettled' = Unsettled
  BY <1>2 DEF DecideError, Dealt, Unsettled
<1>3. ASSUME NEW d \in SUBSET taken, Decide(d)
      PROVE  /\ Dealt \subseteq Dealt' /\ held' \subseteq held
             /\ Unsettled' \subseteq Unsettled /\ Unsettled \subseteq Unsettled' \cup Dealt'
             /\ Released
  <2>1. /\ taken' = taken \ d /\ limbo' = limbo \ Mates(d) /\ open' = open
        /\ durable' = durable \cup d /\ forfeited' = forfeited \cup (Mates(d) \ durable')
        /\ held' = {e \in held : \A r \in d : ~SameTrace(e, r)}
    BY <1>3 DEF Decide
  <2>2. Mates(d) \subseteq Dealt' /\ d \subseteq Dealt' /\ Dealt \subseteq Dealt'
    BY <2>1 DEF Dealt
  <2>3. Unsettled' \subseteq Unsettled /\ Unsettled \subseteq Unsettled' \cup Mates(d) \cup d
    BY <2>1 DEF Unsettled
  <2>4. ASSUME NEW e \in held \ held', NEW r \in Unsettled', SameTrace(r, e) PROVE r \in Dealt'
    <3>1. PICK q \in d : SameTrace(e, q)
      BY <2>1
    <3>2. SameTrace(r, q)
      BY <2>4, <3>1 DEF SameTrace
    <3>3. r \in Mates(d)
      BY <2>3, <3>2 DEF Mates
    <3> QED
      BY <2>2, <3>3
  <2> QED
    BY <2>1, <2>2, <2>3, <2>4 DEF Released
<1>4. ASSUME NEW x \in held, Expire(x)
      PROVE  /\ Dealt \subseteq Dealt' /\ held' \subseteq held
             /\ Unsettled' \subseteq Unsettled /\ Unsettled \subseteq Unsettled' \cup Dealt'
             /\ Released
  <2>1. /\ limbo' = limbo \ Mates({x}) /\ UNCHANGED <<open, taken, durable>>
        /\ forfeited' = forfeited \cup (Mates({x}) \ durable) /\ held' = held \ {x}
    BY <1>4 DEF Expire, storeVars
  <2>2. Mates({x}) \subseteq Dealt' /\ Dealt \subseteq Dealt'
    BY <2>1 DEF Dealt
  <2>3. Unsettled' \subseteq Unsettled /\ Unsettled \subseteq Unsettled' \cup Mates({x})
    BY <2>1 DEF Unsettled
  <2>4. ASSUME NEW e \in held \ held', NEW r \in Unsettled', SameTrace(r, e) PROVE r \in Dealt'
    <3>1. r \in Mates({x})
      BY <2>1, <2>3, <2>4 DEF Mates
    <3> QED
      BY <2>2, <3>1
  <2> QED
    BY <2>1, <2>2, <2>3, <2>4 DEF Released
<1> QED
  BY <1>1, <1>2, <1>3, <1>4 DEF AssemblerStep, Decision, Released

\* The steps that leave spans and entries alone.
LEMMA OthersKeep ==
  ASSUME \/ \E upto \in Positions : Poll(upto)
         \/ \E topic \in Topic : WriteOk(topic) \/ WriteError(topic)
         \/ \E tp \in TopicPartition : Produce(tp) \/ Revoke(tp) \/ Assign(tp)
         \/ \E tp \in TopicPartition : \E o \in 0 .. LogLen :
               Truncate(tp, o) \/ OtherDeals(tp, o) \/ OtherCommits(tp, o)
         \/ Withhold \/ Gather \/ Commit \/ UNCHANGED vars
  PROVE  /\ UNCHANGED <<held, open, taken, limbo>>
         /\ durable \subseteq durable' /\ forfeited \subseteq forfeited'
         /\ withheld \subseteq withheld' \cup forfeited'
<1>1. CASE \E upto \in Positions : Poll(upto)
  BY <1>1 DEF Poll, traceVars, storeVars
<1>2. CASE \E topic \in Topic : WriteOk(topic) \/ WriteError(topic)
  BY <1>2 DEF WriteOk, WriteError, traceVars, storeVars
<1>3. CASE \E tp \in TopicPartition : Produce(tp) \/ Revoke(tp) \/ Assign(tp)
  BY <1>3 DEF Produce, Revoke, Assign, traceVars, storeVars
<1>4. CASE \E tp \in TopicPartition : \E o \in 0 .. LogLen :
             Truncate(tp, o) \/ OtherDeals(tp, o) \/ OtherCommits(tp, o)
  BY <1>4 DEF Truncate, OtherDeals, OtherCommits, traceVars, storeVars
<1>5. CASE Withhold \/ Gather \/ Commit \/ UNCHANGED vars
  BY <1>5 DEF Withhold, Gather, Commit, vars, traceVars, storeVars
<1> QED
  BY <1>1, <1>2, <1>3, <1>4, <1>5

\* What was seen stays seen, until a restart forgets it.
LEMMA NextSeen ==
  ASSUME [Next]_vars
  PROVE  /\ Dealt \subseteq Dealt'
         /\ \/ Crash
            \/ Dealt \cup withheld \subseteq Dealt' \cup withheld' /\ Seen \subseteq Seen'
         /\ \/ Crash \/ \E r \in todo : Ingest(r)
            \/ held' \subseteq held /\ Unsettled' \subseteq Unsettled /\ Released
<1>1. CASE Crash
  BY <1>1 DEF Crash, Dealt, storeVars
<1>2. ASSUME NEW upto \in Positions, NEW errs \in SUBSET TopicPartition, FetchError(upto, errs)
      PROVE  /\ Dealt \subseteq Dealt' /\ Dealt \cup withheld \subseteq Dealt' \cup withheld'
             /\ Seen \subseteq Seen'
             /\ held' \subseteq held /\ Unsettled' \subseteq Unsettled /\ Released
  BY <1>2, FetchErrorReleases DEF Seen
<1>3. CASE AssemblerStep
  BY <1>3, AssemblerKeeps, AssemblerReleases DEF Seen
<1>4. ASSUME NEW r \in todo, Ingest(r)
      PROVE  /\ Dealt \subseteq Dealt' /\ Dealt \cup withheld \subseteq Dealt' \cup withheld'
             /\ Seen \subseteq Seen'
  BY <1>4 DEF Ingest, Dealt, Seen, Unsettled, storeVars
<1>5. CASE ~(Crash \/ AssemblerStep) /\ ~(\E r \in todo : Ingest(r))
           /\ ~\E upto \in Positions, errs \in SUBSET TopicPartition : FetchError(upto, errs)
  <2>1. /\ UNCHANGED <<held, open, taken, limbo>>
        /\ durable \subseteq durable' /\ forfeited \subseteq forfeited'
        /\ withheld \subseteq withheld' \cup forfeited'
    BY <1>5, OthersKeep DEF Next, LoopStep, AssemblerStep
  <2>2. Unsettled' = Unsettled /\ Dealt \subseteq Dealt' /\ withheld \subseteq withheld' \cup Dealt'
    BY <2>1 DEF Unsettled, Dealt
  <2> QED
    BY <2>1, <2>2 DEF Seen, Released
<1> QED
  BY <1>1, <1>2, <1>3, <1>4, <1>5

LEMMA NextKept == TypeOK /\ KeptInv /\ TodoInv /\ [Next]_vars => KeptInv'
<1> SUFFICES ASSUME TypeOK, KeptInv, TodoInv, [Next]_vars PROVE KeptInv'
  OBVIOUS
<1>0. \A r \in held \cup todo : OffsetOf(r) \in Nat
  BY RecordParts DEF TypeOK
<1>1. CASE Crash
  BY <1>1 DEF Crash, KeptInv, Unsettled
<1>2. ASSUME NEW x \in todo, Ingest(x), ~Crash PROVE KeptInv'
  <2>1. /\ Unsettled' = Unsettled \cup {x} /\ held \subseteq held'
        /\ (\A e \in held : ~SameTrace(e, x)) => x \in held'
    BY <1>2 DEF Ingest, Unsettled
  <2>2. \A r : Covered(r) => Covered(r)'
    BY <2>1 DEF Covered
  <2>3. Dealt \cup withheld \subseteq Dealt' \cup withheld'
    BY <1>2, NextSeen
  <2>4. \A r \in Unsettled : r \in Dealt' \cup withheld' \/ Covered(r)'
    BY <2>2, <2>3 DEF KeptInv
  <2>5. x \in Dealt' \cup withheld' \/ Covered(x)'
    <3>1. CASE \A e \in held : ~SameTrace(e, x)
      <4>1. OffsetOf(x) <= OffsetOf(x)
        BY <1>0
      <4> QED
        BY <2>1, <3>1, <4>1 DEF Covered, SameTrace
    <3>2. ASSUME NEW e \in held, SameTrace(e, x)
          PROVE  x \in Dealt' \cup withheld' \/ Covered(x)'
      <4>1. CASE OffsetOf(e) <= OffsetOf(x)
        BY <2>2, <3>2, <4>1 DEF Covered
      <4>2. CASE OffsetOf(x) < OffsetOf(e)
        BY <2>3, <2>4, <3>2, <4>2 DEF TodoInv, Seen
      <4> QED
        BY <1>0, <3>2, <4>1, <4>2
    <3> QED
      BY <3>1, <3>2
  <2> QED
    BY <2>1, <2>4, <2>5 DEF KeptInv
<1>3. CASE ~Crash /\ ~\E r \in todo : Ingest(r)
  <2>1. /\ held' \subseteq held /\ Unsettled' \subseteq Unsettled /\ Released
        /\ Dealt \cup withheld \subseteq Dealt' \cup withheld'
    BY <1>3, NextSeen
  <2>2. ASSUME NEW r \in Unsettled' PROVE r \in Dealt' \cup withheld' \/ Covered(r)'
    <3>1. CASE r \in Dealt \cup withheld
      BY <2>1, <3>1
    <3>2. ASSUME NEW e \in held, SameTrace(e, r), OffsetOf(e) <= OffsetOf(r)
          PROVE  r \in Dealt' \/ Covered(r)'
      <4>1. CASE e \in held'
        BY <3>2, <4>1 DEF Covered
      <4>2. CASE e \notin held'
        BY <2>1, <3>2, <4>2 DEF Released, SameTrace
      <4> QED
        BY <4>1, <4>2
    <3> QED
      BY <2>1, <3>1, <3>2 DEF KeptInv, Covered
  <2> QED
    BY <2>2 DEF KeptInv
<1> QED
  BY <1>1, <1>2, <1>3

LEMMA InLogRecord ==
  ASSUME TypeOK, NEW r \in Records, InLog(r)
  PROVE  r[2] \in 0 .. Len(log[r[1]]) - 1 /\ RecordAt(r[1], r[2]) = r
<1>1. r[1] \in TopicPartition /\ r[2] \in Nat
  BY RecordParts
<1>2. Len(log[r[1]]) \in Nat
  BY <1>1, TypesAt
<1> QED
  BY <1>1, <1>2 DEF InLog

LEMMA NextTodo ==
  TypeOK /\ LoopInv /\ CoverInv /\ HeldInv /\ TodoInv /\ [Next]_vars => TodoInv'
<1> SUFFICES ASSUME TypeOK, LoopInv, CoverInv, HeldInv, TodoInv, [Next]_vars PROVE TodoInv'
  OBVIOUS
<1>0. /\ \A r \in held \cup todo : r \in Records /\ OffsetOf(r) \in Nat
      /\ \A tp \in TopicPartition : pending[tp] \in Int
  BY RecordParts DEF TypeOK
<1>1. CASE Crash
  BY <1>1 DEF Crash, TodoInv
<1>2. ASSUME NEW upto \in Positions, Poll(upto) PROVE TodoInv'
  <2>1. /\ todo' = Fetched(upto) /\ Fetchable(upto) /\ todo = {}
        /\ UNCHANGED <<held, open, taken, limbo, durable, forfeited, withheld>>
    BY <1>2 DEF Poll, LoopInv, traceVars, storeVars
  <2>2. ASSUME NEW r \in todo', NEW e \in held', SameTrace(e, r), OffsetOf(r) < OffsetOf(e)
        PROVE  r \in Seen
    <3>1. r \in Records /\ InLog(r)
      BY <2>1, FetchedRecords
    <3>2. r[1] \in TopicPartition /\ r[2] \in Nat
      BY <3>1, RecordParts
    <3>3. OffsetOf(e) <= pending[r[1]]
      BY <2>1, <2>2 DEF HeldInv, SameTrace
    <3>4. r[2] <= pending[r[1]]
      BY <1>0, <2>1, <2>2, <3>2, <3>3
    <3> QED
      BY <2>1, <3>1, <3>2, <3>4, InLogRecord DEF CoverInv
  <2>3. Seen' = Seen
    BY <2>1 DEF Seen, Dealt, Unsettled
  <2> QED
    BY <2>2, <2>3 DEF TodoInv
<1>3. ASSUME NEW x \in todo, Ingest(x), ~Crash PROVE TodoInv'
  <2>1. /\ todo' \subseteq todo /\ held' \subseteq held \cup {x}
        /\ \A r \in todo : PartitionOf(r) = PartitionOf(x) => OffsetOf(x) <= OffsetOf(r)
    BY <1>3 DEF Ingest
  <2>2. Seen \subseteq Seen'
    BY <1>3, NextSeen
  <2>3. ASSUME NEW r \in todo', SameTrace(x, r) PROVE ~(OffsetOf(r) < OffsetOf(x))
    BY <1>0, <2>1, <2>3 DEF SameTrace
  <2> QED
    BY <2>1, <2>2, <2>3 DEF TodoInv
<1>4. CASE /\ ~Crash /\ ~(\E r \in todo : Ingest(r)) /\ ~\E upto \in Positions : Poll(upto)
  <2>1. todo' \subseteq todo
    <3>1. CASE AssemblerStep
      BY <3>1, AssemblerKeeps
    <3>2. CASE \/ \E upto \in Positions, errs \in SUBSET TopicPartition : FetchError(upto, errs)
               \/ \E topic \in Topic : WriteOk(topic) \/ WriteError(topic)
               \/ Withhold \/ Gather \/ Commit \/ UNCHANGED vars
      BY <3>2 DEF FetchError, WriteOk, WriteError, Withhold, Gather, Commit, vars, pollVars
    <3>3. CASE \/ \E tp \in TopicPartition : Produce(tp) \/ Revoke(tp) \/ Assign(tp)
               \/ \E tp \in TopicPartition : \E o \in 0 .. LogLen :
                    Truncate(tp, o) \/ OtherDeals(tp, o) \/ OtherCommits(tp, o)
      BY <3>3 DEF Produce, Revoke, Assign, Truncate, OtherDeals, OtherCommits, pollVars
    <3> QED
      BY <1>4, <3>1, <3>2, <3>3 DEF Next, LoopStep, AssemblerStep
  <2>2. held' \subseteq held /\ Seen \subseteq Seen'
    BY <1>4, NextSeen
  <2> QED
    BY <2>1, <2>2 DEF TodoInv
<1> QED
  BY <1>2, <1>3, <1>4, <1>1

-----------------------------------------------------------------------------
(* What is held.                                                           *)

LEMMA UptoBound ==
  ASSUME NEW upto \in Positions, Fetchable(upto), NEW tp \in TopicPartition
  PROVE  pos[tp] <= upto[tp] /\ upto[tp] \in Nat
<1>1. upto[tp] \in Nat
  BY DEF Positions
<1> QED
  BY <1>1 DEF Fetchable

\* What HeldInv says of one record.
Fresh(r) ==
  /\ OffsetOf(r) <= pending[PartitionOf(r)]
  /\ PartitionOf(r) \notin shared =>
       OffsetOf(r) < pos[PartitionOf(r)] /\ (cut[PartitionOf(r)] = NoCut => InLog(r))

LEMMA HeldSteady ==
  ASSUME HeldInv, UNCHANGED <<log, cut, pos, pending>>, shared \subseteq shared',
         todo' \subseteq todo, held' \subseteq held \cup todo,
         \A r \in held' : r \in held \/ IsGated(PartitionOf(r))
  PROVE  HeldInv'
<1>1. \A r : Fresh(r) => Fresh(r)'
  BY DEF Fresh, InLog, RecordAt
<1>2. \A r \in held \cup todo : Fresh(r)
  BY DEF HeldInv, Fresh
<1>3. \A r \in held' \cup todo' : Fresh(r)'
  BY <1>1, <1>2
<1>4. \A r \in held' : IsGated(PartitionOf(r))'
  BY DEF HeldInv, IsGated
<1> QED
  BY <1>3, <1>4 DEF HeldInv, Fresh

LEMMA NextHeld == TypeOK /\ TypeOK' /\ LoopInv /\ HeldInv /\ [Next]_vars => HeldInv'
<1> SUFFICES ASSUME TypeOK, TypeOK', LoopInv, HeldInv, [Next]_vars PROVE HeldInv'
  OBVIOUS
<1>a. /\ \A r \in held : IsGated(PartitionOf(r))
      /\ \A r \in held \cup todo : Fresh(r)
      /\ held \cup todo \subseteq Records
      /\ \A r \in Records : r[1] \in TopicPartition /\ r[2] \in Nat
      /\ \A tp \in TopicPartition : pos[tp] \in Nat /\ pending[tp] \in Int
  <2>1. \A tp \in TopicPartition : pos[tp] \in Nat /\ pending[tp] \in Int
    BY TypesAt
  <2>2. held \cup todo \subseteq Records
    BY DEF TypeOK
  <2> QED
    BY <2>1, <2>2, RecordParts DEF HeldInv, Fresh
<1>b. ASSUME \A r \in held' : IsGated(PartitionOf(r)), \A r \in held' \cup todo' : Fresh(r)'
      PROVE  HeldInv'
  BY <1>b DEF HeldInv, Fresh, IsGated
<1>1. ASSUME NEW upto \in Positions, Poll(upto) PROVE HeldInv'
  <2>1. /\ UNCHANGED <<log, cut, held, shared>> /\ pos' = upto /\ todo' = Fetched(upto)
        /\ Fetchable(upto) /\ pending' = [tp \in TopicPartition |-> HighestSeen(todo', tp)]
    BY <1>1 DEF Poll, groupVars, traceVars
  <2>2. \A tp \in TopicPartition : pos[tp] <= upto[tp] /\ upto[tp] \in Nat
    BY <2>1, UptoBound
  <2>3. todo' \in SUBSET Records /\ \A r : InLog(r)' <=> InLog(r)
    BY <2>1, FetchedRecords DEF InLog, RecordAt
  <2>4. \A tp \in TopicPartition :
          /\ pending[tp] <= pending'[tp] /\ pending'[tp] \in Int
          /\ \A r \in todo' : PartitionOf(r) = tp => OffsetOf(r) <= pending'[tp]
    <3>1. \A tp \in TopicPartition : pending'[tp] \in Int
      BY DEF TypeOK
    <3> QED
      BY <2>1, <2>3, <3>1, PendingCovers
  <2>5. ASSUME NEW r \in held PROVE Fresh(r)'
    <3>1. r[1] \in TopicPartition /\ r[2] \in Nat /\ Fresh(r)
      BY <1>a
    <3>2. r[2] <= pending'[r[1]]
      BY <1>a, <2>4, <3>1 DEF Fresh
    <3>3. ASSUME r[1] \notin shared PROVE r[2] < pos'[r[1]]
      <4>1. pos[r[1]] \in Nat /\ pos[r[1]] <= pos'[r[1]] /\ pos'[r[1]] \in Nat
        BY <1>a, <2>1, <2>2, <3>1
      <4> QED
        BY <3>1, <3>3, <4>1 DEF Fresh
    <3> QED
      BY <2>1, <2>3, <3>1, <3>2, <3>3 DEF Fresh
  <2>6. ASSUME NEW r \in todo' PROVE Fresh(r)'
    <3>1. r \in Records /\ InLog(r) /\ r[2] < upto[r[1]] /\ r[1] \in TopicPartition
      BY <2>1, FetchedRecords, RecordParts
    <3> QED
      BY <2>1, <2>3, <2>4, <3>1 DEF Fresh
  <2> QED
    BY <1>a, <1>b, <2>1, <2>5, <2>6
<1>2. ASSUME NEW upto \in Positions, NEW errs \in SUBSET TopicPartition, FetchError(upto, errs)
      PROVE  HeldInv'
  <2>1. /\ pos' = [tp \in TopicPartition |-> IF tp \in Torn(errs) THEN cut[tp] ELSE upto[tp]]
        /\ cut' = [tp \in TopicPartition |-> IF tp \in Torn(errs) THEN NoCut ELSE cut[tp]]
        /\ held' = held \ DataLoss(Torn(errs))
        /\ UNCHANGED <<log, pending, shared>>
        /\ todo' = {}
        /\ \A tp \in TopicPartition : pos[tp] <= upto[tp] /\ upto[tp] \in Nat
    BY <1>2, UptoBound DEF FetchError, pollVars, groupVars, LoopInv
  <2>2. ASSUME NEW r \in held' PROVE Fresh(r)'
    <3>1. r \in held /\ r[1] \in TopicPartition /\ r[2] \in Nat /\ Fresh(r) /\ IsGated(r[1])
      BY <1>a, <2>1
    <3>2. ASSUME r[1] \notin shared
          PROVE  r[2] < pos'[r[1]] /\ (cut'[r[1]] = NoCut => InLog(r)')
      <4>1. r[2] < pos[r[1]] /\ (cut[r[1]] = NoCut => InLog(r))
        BY <3>1, <3>2 DEF Fresh
      <4>2. r[1] \notin Torn(errs)
        BY <2>1, <3>1, <4>1 DEF DataLoss, Cleared
      <4>3. pos'[r[1]] = upto[r[1]] /\ cut'[r[1]] = cut[r[1]]
        BY <2>1, <3>1, <4>2
      <4>4. r[2] < upto[r[1]]
        BY <1>a, <2>1, <3>1, <4>1
      <4> QED
        BY <2>1, <4>1, <4>3, <4>4 DEF InLog, RecordAt
    <3> QED
      BY <2>1, <3>1, <3>2 DEF Fresh
  <2> QED
    BY <1>a, <1>b, <2>1, <2>2
<1>3. ASSUME NEW r \in todo, Ingest(r) PROVE HeldInv'
  <2>1. /\ UNCHANGED <<log, cut, pos, pending, shared>> /\ held' \subseteq held \cup {r}
        /\ todo' \subseteq todo /\ IsGated(PartitionOf(r))
    BY <1>3 DEF Ingest, clientVars, groupVars
  <2> QED
    BY <2>1, HeldSteady
<1>4. ASSUME \/ \E topic \in Topic : WriteOk(topic) \/ WriteError(topic)
             \/ \E tp \in TopicPartition : Revoke(tp)
             \/ \E tp \in TopicPartition : \E o \in 0 .. LogLen :
                  OtherDeals(tp, o) \/ OtherCommits(tp, o)
             \/ Withhold \/ Gather \/ Commit \/ UNCHANGED vars
      PROVE  HeldInv'
  <2>1. UNCHANGED <<log, cut, pos, pending, held>> /\ todo' \subseteq todo
        /\ shared \subseteq shared'
    BY <1>4 DEF WriteOk, WriteError, Revoke, OtherDeals, OtherCommits, Withhold, Gather, Commit,
                vars, clientVars, groupVars, pollVars, traceVars
  <2> QED
    BY <2>1, HeldSteady
<1>5. CASE AssemblerStep
  BY <1>5, AssemblerKeeps, AssemblerReleases, HeldSteady
<1>6. ASSUME NEW tp \in TopicPartition, Assign(tp) PROVE HeldInv'
  <2>1. /\ UNCHANGED <<log, pending, shared, held, todo>> /\ tp \in shared
        /\ pos' = [pos EXCEPT ![tp] = Start(tp)] /\ cut' = [cut EXCEPT ![tp] = NoCut]
    BY <1>6 DEF Assign, LoopInv, pollVars, traceVars
  <2>2. \A q \in TopicPartition : q # tp => pos'[q] = pos[q] /\ cut'[q] = cut[q]
    BY <2>1 DEF TypeOK, Positions
  <2>3. ASSUME NEW r \in held \cup todo PROVE Fresh(r)'
    <3>1. Fresh(r) /\ r[1] \in TopicPartition
      BY <1>a
    <3> QED
      BY <2>1, <2>2, <3>1 DEF Fresh, InLog, RecordAt
  <2> QED
    BY <1>a, <1>b, <2>1, <2>3
<1>7. ASSUME NEW tp \in TopicPartition, Produce(tp) PROVE HeldInv'
  <2>1. UNCHANGED <<cut, pos, pending, held, todo, shared>>
    BY <1>7 DEF Produce, clientVars, pollVars, traceVars, groupVars
  <2>2. \A r \in held \cup todo : Fresh(r)'
    BY <1>a, <1>7, <2>1, ProduceKeeps DEF Fresh
  <2> QED
    BY <1>a, <1>b, <2>1, <2>2
<1>8. ASSUME NEW tp \in TopicPartition, NEW len \in 0 .. LogLen, Truncate(tp, len) PROVE HeldInv'
  <2>1. UNCHANGED <<pos, pending, held, todo, shared>>
    BY <1>8 DEF Truncate, clientVars, pollVars, traceVars, groupVars
  <2>2. /\ cut'[tp] \in 0 .. LogLen
        /\ \A q \in TopicPartition : q # tp => cut'[q] = cut[q]
    <3>1. cut'[tp] = IF cut[tp] # NoCut /\ cut[tp] <= len THEN cut[tp] ELSE len
      BY <1>8, TruncatedLog
    <3>2. cut[tp] \in 0 .. LogLen \cup {NoCut}
      BY DEF TypeOK
    <3> QED
      BY <1>8, <3>1, <3>2, TruncatedLog
  <2>3. ASSUME NEW r \in held \cup todo PROVE Fresh(r)'
    <3>1. r \in Records /\ r[1] \in TopicPartition /\ Fresh(r)
      BY <1>a
    <3>2. CASE r[1] = tp
      BY <2>1, <2>2, <3>1, <3>2 DEF Fresh
    <3>3. CASE r[1] # tp
      BY <1>8, <2>1, <2>2, <3>1, <3>3, TruncateKeeps DEF Fresh
    <3> QED
      BY <3>2, <3>3
  <2> QED
    BY <1>a, <1>b, <2>1, <2>3
<1>9. CASE Crash
  BY <1>b, <1>9 DEF Crash
<1> QED
  BY <1>1, <1>2, <1>3, <1>4, <1>5, <1>6, <1>7, <1>8, <1>9 DEF Next, LoopStep, AssemblerStep

-----------------------------------------------------------------------------
(* What a commit may pass.                                                 *)

Safe == Seen \cup todo

LEMMA HandlerCovers ==
  ASSUME CoverInv,
         UNCHANGED <<log, cut, pos, pending, group>>,
         Dealt \subseteq Dealt', Safe \subseteq Safe',
         cpc' = "commit" => cpc = "commit" /\ commits' = commits
  PROVE  CoverInv'
<1>1. \A tp \in TopicPartition : \A o \in 0 .. Len(log'[tp]) - 1 :
        /\ o \in 0 .. Len(log[tp]) - 1
        /\ RecordAt(tp, o)' = RecordAt(tp, o)
        /\ Reach(tp)' = Reach(tp)
  BY DEF RecordAt, Reach
<1>2. /\ \A tp \in TopicPartition : \A o \in 0 .. Len(log[tp]) - 1 :
            /\ (o <= pending[tp] \/ o < Reach(tp)) => RecordAt(tp, o) \in Safe
            /\ o < group[tp] => RecordAt(tp, o) \in Dealt
      /\ cpc = "commit" => \A tp \in TopicPartition :
           /\ commits[tp] <= pending[tp]
           /\ \A o \in 0 .. Len(log[tp]) - 1 :
                o <= commits[tp] => RecordAt(tp, o) \in Dealt
  BY DEF CoverInv, Safe
<1> DEFINE D == Dealt
           S == Safe
<1>3. /\ \A tp \in TopicPartition : \A o \in 0 .. Len(log'[tp]) - 1 :
            /\ (o <= pending'[tp] \/ o < Reach(tp)') => RecordAt(tp, o)' \in S'
            /\ o < group'[tp] => RecordAt(tp, o)' \in D'
      /\ cpc' = "commit" => \A tp \in TopicPartition :
           /\ commits'[tp] <= pending'[tp]
           /\ \A o \in 0 .. Len(log'[tp]) - 1 :
                o <= commits'[tp] => RecordAt(tp, o)' \in D'
  <2> HIDE DEF Dealt, Safe, Reach, RecordAt
  <2> QED
    BY <1>1, <1>2
<1> QED
  BY <1>3 DEF CoverInv, Safe

LEMMA FetchCovers ==
  ASSUME TypeOK, LoopInv, CoverInv, NEW upto \in Positions, Fetchable(upto), cpc = "poll",
         UNCHANGED log, NEW tp \in TopicPartition, NEW o \in 0 .. Len(log[tp]) - 1,
         \/ o <= pending[tp]
         \/ o < Reach(tp)
         \/ cut[tp] = NoCut /\ o < upto[tp]
  PROVE  RecordAt(tp, o) \in Seen \cup Fetched(upto)
<1>1. pos[tp] \in Nat /\ upto[tp] \in Nat
  BY DEF TypeOK, Positions
<1>2. CASE o <= pending[tp] \/ o < Reach(tp)
  BY <1>2 DEF CoverInv, LoopInv
<1>3. CASE ~(o < Reach(tp)) /\ cut[tp] = NoCut /\ o < upto[tp]
  <2>1. o \in pos[tp] .. upto[tp] - 1
    BY <1>1, <1>3 DEF Reach
  <2> QED
    BY <2>1, FetchedCovers
<1> QED
  BY <1>2, <1>3

LEMMA NextCover ==
  TypeOK /\ TypeOK' /\ LoopInv /\ HeldInv /\ KeptInv /\ CoverInv /\ [Next]_vars => CoverInv'
<1> SUFFICES ASSUME TypeOK, TypeOK', LoopInv, HeldInv, KeptInv, CoverInv, [Next]_vars
             PROVE  CoverInv'
  OBVIOUS
<1> DEFINE ReadSafe(tp, o) ==
             (o <= pending[tp] \/ o < Reach(tp)) => RecordAt(tp, o) \in Safe
           CommittedSafe(tp, o) == o < group[tp] => RecordAt(tp, o) \in Dealt
           CommitsSafe(tp, o) == o <= commits[tp] => RecordAt(tp, o) \in Dealt
<1>a. /\ \A tp \in TopicPartition : \A o \in 0 .. Len(log[tp]) - 1 :
            ReadSafe(tp, o) /\ CommittedSafe(tp, o)
      /\ cpc = "commit" => \A tp \in TopicPartition :
           /\ commits[tp] <= pending[tp]
           /\ \A o \in 0 .. Len(log[tp]) - 1 : CommitsSafe(tp, o)
  BY DEF CoverInv, Safe
<1>b. ASSUME \A tp \in TopicPartition : \A o \in 0 .. Len(log'[tp]) - 1 :
               ReadSafe(tp, o)' /\ CommittedSafe(tp, o)',
             cpc' = "commit" => \A tp \in TopicPartition :
               /\ commits'[tp] <= pending'[tp]
               /\ \A o \in 0 .. Len(log'[tp]) - 1 : CommitsSafe(tp, o)'
      PROVE  CoverInv'
  BY <1>b DEF CoverInv, Safe
<1>c. UNCHANGED log =>
        \A tp \in TopicPartition : \A o \in 0 .. Len(log'[tp]) - 1 :
          o \in 0 .. Len(log[tp]) - 1 /\ RecordAt(tp, o)' = RecordAt(tp, o)
  BY DEF RecordAt
<1>d. \A tp \in TopicPartition :
        /\ Len(log[tp]) \in Nat /\ pos[tp] \in Nat /\ group[tp] \in Nat
        /\ cut[tp] \in Nat \cup {NoCut} /\ pending[tp] \in Nat \cup {NoPending}
  <2>1. \A tp \in TopicPartition : pending[tp] \in Nat \cup {NoPending}
    BY DEF TypeOK
  <2> QED
    BY <2>1, TypesAt
<1>e. Dealt \subseteq Dealt' /\ Dealt' \subseteq Safe'
  BY NextSeen DEF Safe, Seen
<1>1. ASSUME NEW upto \in Positions, Poll(upto) PROVE CoverInv'
  <2>1. /\ UNCHANGED <<log, cut, group>>
        /\ pos' = upto /\ todo' = Fetched(upto) /\ Fetchable(upto) /\ cpc = "poll"
        /\ cpc' = "handle"
    BY <1>1 DEF Poll
  <2>2. Seen \cup todo' \subseteq Safe'
    <3>1. UNCHANGED <<held, open, taken, limbo, durable, forfeited, withheld>>
      BY <1>1 DEF Poll, traceVars, storeVars
    <3> QED
      BY <3>1 DEF Safe, Seen, Unsettled, Dealt
  <2>3. ASSUME NEW tp \in TopicPartition, NEW o \in 0 .. Len(log'[tp]) - 1,
               o <= pending'[tp] \/ o < Reach(tp)'
        PROVE  RecordAt(tp, o)' \in Safe'
    <3>1. o \in 0 .. Len(log[tp]) - 1 /\ RecordAt(tp, o)' = RecordAt(tp, o)
      BY <1>c, <2>1
    <3>2. \/ o <= pending[tp]
          \/ cut[tp] = NoCut /\ o < upto[tp]
          \/ o < Reach(tp)
      <4>1. CASE o < Reach(tp)'
        BY <2>1, <4>1 DEF Reach
      <4>2. CASE o <= pending'[tp]
        <5>1. pending'[tp] = HighestSeen(todo', tp) /\ todo' \in SUBSET Records
          BY <1>1, FetchedRecords DEF Poll
        <5>2. CASE HighestSeen(todo', tp) = pending[tp]
          BY <4>2, <5>1, <5>2
        <5>3. ASSUME NEW r \in todo', PartitionOf(r) = tp, HighestSeen(todo', tp) = OffsetOf(r)
              PROVE  cut[tp] = NoCut /\ o < upto[tp]
          <6>1. cut[tp] = NoCut /\ r[2] < upto[tp] /\ r[2] \in Nat /\ upto[tp] \in Nat
            <7>1. r \in Records /\ r[2] < upto[r[1]] /\ cut[r[1]] = NoCut
              BY <2>1, <5>3, FetchedRecords
            <7>2. r[1] = tp
              BY <5>3
            <7>3. r[2] \in Nat
              BY <7>1, RecordParts
            <7>4. upto[tp] \in Nat
              BY DEF Positions
            <7> QED
              BY <7>1, <7>2, <7>3, <7>4
          <6> QED
            BY <4>2, <5>1, <5>3, <6>1
        <5> QED
          BY <5>1, <5>2, <5>3, PendingAfterPoll
      <4> QED
        BY <2>3, <4>1, <4>2
    <3>3. RecordAt(tp, o) \in Seen \cup todo'
      BY <2>1, <3>1, <3>2, FetchCovers
    <3> QED
      BY <2>2, <3>1, <3>3
  <2>4. ASSUME NEW tp \in TopicPartition, NEW o \in 0 .. Len(log'[tp]) - 1, o < group'[tp]
        PROVE  RecordAt(tp, o)' \in Dealt'
    BY <1>a, <1>c, <1>e, <2>1, <2>4
  <2> QED
    BY <1>b, <2>1, <2>3, <2>4
<1>2. ASSUME NEW upto \in Positions, NEW errs \in SUBSET TopicPartition, FetchError(upto, errs)
      PROVE  CoverInv'
  <2>1. /\ pos' = [tp \in TopicPartition |-> IF tp \in Torn(errs) THEN cut[tp] ELSE upto[tp]]
        /\ cut' = [tp \in TopicPartition |-> IF tp \in Torn(errs) THEN NoCut ELSE cut[tp]]
        /\ UNCHANGED <<log, group, pending, cpc>>
        /\ cpc = "poll" /\ Fetchable(upto)
    BY <1>2 DEF FetchError
  <2>2. Seen \cup Fetched(upto) \subseteq Safe'
    BY <1>2, FetchErrorReleases DEF Seen, Safe
  <2>3. ASSUME NEW tp \in TopicPartition, NEW o \in 0 .. Len(log'[tp]) - 1,
               o <= pending'[tp] \/ o < Reach(tp)'
        PROVE  RecordAt(tp, o)' \in Safe'
    <3>1. o \in 0 .. Len(log[tp]) - 1 /\ RecordAt(tp, o)' = RecordAt(tp, o)
      BY <1>c, <2>1
    <3>2. CASE tp \in Torn(errs)
      <4>1. Reach(tp)' = Reach(tp)
        BY <2>1, <3>2 DEF Reach, Torn
      <4> QED
        BY <2>1, <2>2, <2>3, <3>1, <4>1, FetchCovers
    <3>3. CASE tp \notin Torn(errs)
      <4>1. o < Reach(tp)' => o < Reach(tp) \/ (cut[tp] = NoCut /\ o < upto[tp])
        BY <2>1, <3>3 DEF Reach
      <4> QED
        BY <2>1, <2>2, <2>3, <3>1, <4>1, FetchCovers
    <3> QED
      BY <3>2, <3>3
  <2>4. ASSUME NEW tp \in TopicPartition, NEW o \in 0 .. Len(log'[tp]) - 1, o < group'[tp]
        PROVE  RecordAt(tp, o)' \in Dealt'
    BY <1>a, <1>c, <1>e, <2>1, <2>4
  <2> QED
    BY <1>b, <2>1, <2>3, <2>4
<1>3. ASSUME NEW r \in todo, Ingest(r) PROVE CoverInv'
  <2>1. /\ UNCHANGED <<log, cut, pos, pending, group, durable, forfeited, withheld, cpc, commits,
                      taken, limbo>>
        /\ open' = open \cup {r} /\ todo' = todo \ {r}
    BY <1>3 DEF Ingest, clientVars, storeVars
  <2> QED
    BY <2>1, HandlerCovers DEF Dealt, Safe, Seen, Unsettled
<1>4. ASSUME NEW topic \in Topic, WriteOk(topic) \/ WriteError(topic) PROVE CoverInv'
  <2>1. /\ UNCHANGED <<log, cut, pos, pending, group, forfeited, cpc, commits, open, taken, limbo>>
        /\ durable \subseteq durable' /\ withheld \subseteq withheld'
        /\ RecordsOf(topic) \subseteq durable' \cup withheld'
        /\ todo' = todo \ RecordsOf(topic)
    BY <1>4 DEF WriteOk, WriteError, clientVars, storeVars, traceVars
  <2> QED
    BY <2>1, HandlerCovers DEF Dealt, Safe, Seen, Unsettled
<1>5. CASE AssemblerStep
  <2>1. UNCHANGED <<log, cut, pos, pending, group, todo, withheld, cpc, commits>>
    BY <1>5, AssemblerKeeps
  <2>2. Dealt \subseteq Dealt' /\ Unsettled \subseteq Unsettled' \cup Dealt'
    BY <1>5, AssemblerReleases
  <2>3. Safe \subseteq Safe'
    BY <2>1, <2>2 DEF Safe, Seen
  <2> QED
    BY <2>1, <2>2, <2>3, HandlerCovers
<1>6. ASSUME NEW tp \in TopicPartition, Produce(tp) PROVE CoverInv'
  <2>0. PICK n \in Nat : n = Len(log[tp])
    BY <1>d
  <2>1. /\ UNCHANGED <<cut, pos, pending, group, todo, durable, withheld, open, taken, limbo, cpc,
                      commits, losses>>
        /\ forfeited' = IF n <= pending[tp] \/ n < group[tp]
                        THEN forfeited \cup {<<tp, n, losses>>} ELSE forfeited
    BY <1>6, <2>0 DEF Produce, clientVars, pollVars, storeVars, budgetVars, traceVars
  <2>2. /\ \A q \in TopicPartition : q # tp => log'[q] = log[q]
        /\ Len(log'[tp]) = n + 1
        /\ \A i \in 1 .. n : log'[tp][i] = log[tp][i]
        /\ log'[tp][n + 1] = losses
    BY <1>6, <2>0, ProducedLog
  <2>3. Reach(tp) <= n /\ Reach(tp) \in Nat
    BY <1>d, <2>0 DEF LoopInv, Reach
  <2>4. cpc' = "commit" => \A q \in TopicPartition : commits'[q] <= pending'[q]
    BY <1>a, <2>1
  <2>5. \A q \in TopicPartition : Reach(q)' = Reach(q)
    BY <2>1 DEF Reach
  <2>6. Dealt \subseteq Dealt' /\ Safe \subseteq Safe' /\ Dealt' \subseteq Safe'
    BY <2>1 DEF Dealt, Safe, Seen, Unsettled
  <2>7. ASSUME NEW q \in TopicPartition, NEW o \in 0 .. Len(log'[q]) - 1, ~(q = tp /\ o = n)
        PROVE  o \in 0 .. Len(log[q]) - 1 /\ RecordAt(q, o)' = RecordAt(q, o)
    <3>1. CASE q # tp
      BY <2>2, <3>1 DEF RecordAt
    <3>2. CASE q = tp
      <4>1. o + 1 \in 1 .. n /\ o \in 0 .. n - 1
        BY <2>2, <2>7, <3>2
      <4> QED
        BY <2>0, <2>2, <3>2, <4>1 DEF RecordAt
    <3> QED
      BY <3>1, <3>2
  <2>8. RecordAt(tp, n)' = <<tp, n, losses>>
    BY <2>2 DEF RecordAt
  <2>9. n <= pending[tp] \/ n < group[tp] => RecordAt(tp, n)' \in Dealt'
    BY <2>1, <2>8 DEF Dealt
  <2>10. ASSUME NEW q \in TopicPartition, NEW o \in 0 .. Len(log'[q]) - 1
         PROVE  ReadSafe(q, o)' /\ CommittedSafe(q, o)'
    <3>1. CASE q = tp /\ o = n
      <4>1. ~(n < Reach(tp))
        BY <2>2, <2>3
      <4> QED
        BY <2>1, <2>5, <2>6, <2>9, <3>1, <4>1
    <3>2. CASE ~(q = tp /\ o = n)
      BY <1>a, <2>1, <2>5, <2>6, <2>7, <3>2
    <3> QED
      BY <3>1, <3>2
  <2>11. ASSUME cpc' = "commit", NEW q \in TopicPartition, NEW o \in 0 .. Len(log'[q]) - 1
         PROVE  CommitsSafe(q, o)'
    <3>1. CASE q = tp /\ o = n
      <4>1. o <= commits[tp] => o <= pending[tp]
        <5>1. commits[tp] <= pending[tp] /\ commits[tp] \in Int /\ pending[tp] \in Int
          BY <1>a, <2>1, <2>11, TypesAt
        <5> QED
          BY <2>2, <3>1, <5>1
      <4> QED
        BY <2>1, <2>9, <3>1, <4>1
    <3>2. CASE ~(q = tp /\ o = n)
      BY <1>a, <2>1, <2>6, <2>7, <2>11, <3>2
    <3> QED
      BY <3>1, <3>2
  <2> QED
    BY <1>b, <2>4, <2>10, <2>11
<1>7. ASSUME NEW tp \in TopicPartition, NEW len \in 0 .. LogLen, Truncate(tp, len)
      PROVE  CoverInv'
  <2>1. UNCHANGED <<pos, pending, group, todo, durable, forfeited, withheld, open, taken, limbo,
                    cpc, commits>>
    BY <1>7 DEF Truncate, clientVars, pollVars, storeVars, traceVars
  <2>2. Dealt' = Dealt /\ Safe' = Safe
    BY <2>1 DEF Dealt, Safe, Seen, Unsettled
  <2>3. /\ \A q \in TopicPartition : q # tp => log'[q] = log[q]
        /\ Len(log'[tp]) = len
        /\ \A i \in 1 .. len : log'[tp][i] = log[tp][i]
        /\ len < Len(log[tp]) /\ len < pos[tp] /\ len \in Nat
        /\ cut'[tp] = IF cut[tp] # NoCut /\ cut[tp] <= len THEN cut[tp] ELSE len
        /\ \A q \in TopicPartition : q # tp => cut'[q] = cut[q]
    BY <1>7, TruncatedLog
  <2>4. ASSUME NEW q \in TopicPartition
        PROVE  Reach(q)' <= Reach(q) /\ Reach(q)' \in Nat /\ Reach(q) \in Nat
    <3>1. CASE q # tp
      BY <1>d, <2>1, <2>3, <3>1 DEF Reach
    <3>2. CASE q = tp
      BY <1>d, <2>1, <2>3, <3>2 DEF Reach
    <3> QED
      BY <3>1, <3>2
  <2>5. ASSUME NEW q \in TopicPartition, NEW o \in 0 .. Len(log'[q]) - 1
        PROVE  o \in 0 .. Len(log[q]) - 1 /\ RecordAt(q, o)' = RecordAt(q, o)
    <3>1. CASE q # tp
      BY <2>3, <3>1 DEF RecordAt
    <3>2. CASE q = tp
      <4>1. o + 1 \in 1 .. len /\ o \in 0 .. Len(log[tp]) - 1
        BY <1>d, <2>3, <3>2
      <4> QED
        BY <2>3, <3>2, <4>1 DEF RecordAt
    <3> QED
      BY <3>1, <3>2
  <2>6. ASSUME NEW q \in TopicPartition, NEW o \in 0 .. Len(log'[q]) - 1
        PROVE  ReadSafe(q, o)' /\ CommittedSafe(q, o)' /\ (cpc' = "commit" => CommitsSafe(q, o)')
    <3>1. o < Reach(q)' => o < Reach(q)
      BY <2>4, <2>5
    <3> QED
      BY <1>a, <2>1, <2>2, <2>5, <3>1
  <2> QED
    BY <1>a, <1>b, <2>1, <2>6
<1>8. ASSUME NEW tp \in TopicPartition,
             \/ Revoke(tp)
             \/ \E o \in 0 .. LogLen : OtherDeals(tp, o)
      PROVE  CoverInv'
  <2>1. /\ UNCHANGED <<log, cut, pos, pending, group, todo, cpc, commits, open, taken, limbo,
                       forfeited, withheld>>
        /\ durable \subseteq durable'
    BY <1>8 DEF Revoke, OtherDeals, clientVars, pollVars, traceVars, storeVars
  <2> QED
    BY <2>1, HandlerCovers DEF Dealt, Safe, Seen, Unsettled
<1>9. ASSUME NEW tp \in TopicPartition, Assign(tp) PROVE CoverInv'
  <2>1. /\ UNCHANGED <<log, group, pending, commits, todo, cpc, open, taken, limbo, durable,
                       forfeited, withheld>>
        /\ pos' = [pos EXCEPT ![tp] = Start(tp)] /\ cut' = [cut EXCEPT ![tp] = NoCut]
    BY <1>9 DEF Assign, pollVars, traceVars, storeVars
  <2>2. Dealt' = Dealt /\ Safe' = Safe
    BY <2>1 DEF Dealt, Safe, Seen, Unsettled
  <2>3. /\ Reach(tp)' = Start(tp)
        /\ \A q \in TopicPartition : q # tp => Reach(q)' = Reach(q)
    BY <2>1 DEF Reach, TypeOK, Positions
  <2>4. ASSUME NEW q \in TopicPartition, NEW o \in 0 .. Len(log'[q]) - 1
        PROVE  ReadSafe(q, o)' /\ CommittedSafe(q, o)' /\ (cpc' = "commit" => CommitsSafe(q, o)')
    <3>1. o \in 0 .. Len(log[q]) - 1 /\ RecordAt(q, o)' = RecordAt(q, o)
      BY <1>c, <2>1
    <3>2. q = tp /\ o < Reach(q)' => o < group[q]
      BY <1>d, <2>3, <3>1 DEF Start
    <3> QED
      BY <1>a, <1>e, <2>1, <2>2, <2>3, <3>1, <3>2
  <2> QED
    BY <1>a, <1>b, <2>1, <2>4
<1>10. ASSUME NEW tp \in TopicPartition, NEW upto \in 0 .. LogLen, OtherCommits(tp, upto)
       PROVE  CoverInv'
  <2>1. /\ UNCHANGED <<log, cut, pos, pending, commits, todo, cpc, open, taken, limbo, durable,
                       forfeited, withheld>>
        /\ group' = [group EXCEPT ![tp] = upto]
        /\ \A o \in group[tp] .. upto - 1 : RecordAt(tp, o) \in Dealt
    BY <1>10 DEF OtherCommits, Dealt, clientVars, pollVars, traceVars, storeVars
  <2>2. Dealt' = Dealt /\ Safe' = Safe /\ \A q \in TopicPartition : Reach(q)' = Reach(q)
    BY <2>1 DEF Dealt, Safe, Seen, Unsettled, Reach
  <2>3. group'[tp] = upto /\ \A q \in TopicPartition : q # tp => group'[q] = group[q]
    BY <2>1 DEF TypeOK, Positions
  <2>4. ASSUME NEW q \in TopicPartition, NEW o \in 0 .. Len(log'[q]) - 1
        PROVE  ReadSafe(q, o)' /\ CommittedSafe(q, o)' /\ (cpc' = "commit" => CommitsSafe(q, o)')
    <3>1. o \in 0 .. Len(log[q]) - 1 /\ RecordAt(q, o)' = RecordAt(q, o)
      BY <1>c, <2>1
    <3>2. q = tp /\ o < upto /\ ~(o < group[tp]) => RecordAt(q, o) \in Dealt
      BY <1>d, <2>1, <3>1
    <3> QED
      BY <1>a, <2>1, <2>2, <2>3, <3>1, <3>2
  <2> QED
    BY <1>a, <1>b, <2>1, <2>4
<1>11. CASE Withhold
  <2>1. /\ UNCHANGED <<log, cut, pos, pending, group, todo, durable, forfeited, withheld, open,
                       taken, limbo>>
        /\ cpc' = "poll"
    BY <1>11 DEF Withhold, Handled, clientVars, storeVars, traceVars
  <2> QED
    BY <2>1, HandlerCovers DEF Dealt, Safe, Seen, Unsettled
<1>12. CASE Gather
  <2>1. /\ UNCHANGED <<log, cut, pos, pending, group, todo, durable, open, taken, limbo>>
        /\ forfeited' = forfeited \cup withheld /\ withheld' = {} /\ todo = {}
        /\ commits' = [tp \in TopicPartition |-> ToCommit(tp)]
    BY <1>12 DEF Gather, Handled, clientVars, storeVars, traceVars
  <2>2. Dealt' = Dealt \cup withheld
    BY <2>1 DEF Dealt
  <2>3. Safe' = Safe /\ Safe = Dealt' \cup Unsettled
    BY <2>1, <2>2 DEF Safe, Seen, Unsettled
  <2>4. \A tp \in TopicPartition : Reach(tp)' = Reach(tp)
    BY <2>1 DEF Reach
  <2>5. ASSUME NEW tp \in TopicPartition, NEW o \in 0 .. Len(log'[tp]) - 1
        PROVE  ReadSafe(tp, o)' /\ CommittedSafe(tp, o)'
    <3> HIDE DEF Safe, Dealt
    <3> QED
      BY <1>a, <1>c, <1>e, <2>1, <2>3, <2>4
  <2>6. ASSUME NEW tp \in TopicPartition, NEW o \in 0 .. Len(log'[tp]) - 1, o <= commits'[tp]
        PROVE  RecordAt(tp, o)' \in Dealt'
    <3>1. o \in 0 .. Len(log[tp]) - 1 /\ RecordAt(tp, o)' = RecordAt(tp, o)
      BY <1>c, <2>1
    <3>2. /\ o <= ToCommit(tp) /\ ToCommit(tp) <= pending[tp]
          /\ ToCommit(tp) \in Int /\ pending[tp] \in Int
      BY <1>d, <2>1, <2>6, CommitBelow
    <3>3. RecordAt(tp, o) \in Dealt' \cup Unsettled
      <4>1. o <= pending[tp]
        BY <3>1, <3>2
      <4>2. RecordAt(tp, o) \in Safe
        BY <1>a, <3>1, <4>1
      <4> HIDE DEF Safe, Dealt, Unsettled
      <4> QED
        BY <2>3, <4>2
    <3>4. ~Covered(RecordAt(tp, o))
      <4>1. SUFFICES ASSUME NEW e \in held, SameTrace(e, RecordAt(tp, o)),
                            OffsetOf(e) <= OffsetOf(RecordAt(tp, o))
                     PROVE  FALSE
        BY DEF Covered
      <4>2. RecordAt(tp, o)[1] = tp /\ RecordAt(tp, o)[2] = o
        BY DEF RecordAt
      <4>3. PartitionOf(e) = tp /\ OffsetOf(e) <= o
        BY <4>1, <4>2 DEF SameTrace
      <4>4. IsGated(tp) /\ OffsetOf(e) \in Nat
        <5>1. e \in Records
          BY <4>1 DEF TypeOK
        <5>2. IsGated(tp)
          BY <4>1, <4>3 DEF HeldInv
        <5> QED
          BY <5>1, <5>2, RecordParts
      <4>5. ToCommit(tp) < OffsetOf(e)
        BY <4>3, <4>4, CommitBelow
      <4> QED
        BY <3>1, <3>2, <4>3, <4>4, <4>5
    <3> QED
      BY <2>2, <3>1, <3>3, <3>4 DEF KeptInv
  <2>7. \A tp \in TopicPartition : commits'[tp] <= pending'[tp]
    BY <2>1, CommitBelow
  <2> QED
    BY <1>b, <2>5, <2>6, <2>7
<1>13. CASE Commit
  <2>1. /\ UNCHANGED <<log, cut, pos, pending, todo, durable, forfeited, withheld, open, taken,
                       limbo>>
        /\ cpc = "commit" /\ cpc' = "poll"
        /\ group' \in {group, After(group)}
    BY <1>13 DEF Commit, pollVars, storeVars, traceVars
  <2>2. Dealt' = Dealt /\ Safe' = Safe /\ \A tp \in TopicPartition : Reach(tp)' = Reach(tp)
    BY <2>1 DEF Dealt, Safe, Seen, Unsettled, Reach
  <2>3. ASSUME NEW tp \in TopicPartition, NEW o \in 0 .. Len(log'[tp]) - 1
        PROVE  ReadSafe(tp, o)' /\ CommittedSafe(tp, o)'
    <3>1. o < group'[tp] => o < group[tp] \/ o <= commits[tp]
      <4>1. group'[tp] = group[tp] \/ (commits[tp] \in Nat /\ group'[tp] = commits[tp] + 1)
        <5>1. commits[tp] \in Nat \cup {NoCommit}
          BY TypesAt
        <5>2. After(group)[tp] = IF commits[tp] = NoCommit THEN group[tp] ELSE commits[tp] + 1
          BY DEF After
        <5> QED
          BY <2>1, <5>1, <5>2
      <4> QED
        BY <1>c, <2>1, <4>1
    <3> QED
      BY <1>a, <1>c, <2>1, <2>2, <3>1
  <2> QED
    BY <1>b, <2>1, <2>3
<1>14. CASE Crash
  <2>1. /\ pos' = [tp \in TopicPartition |-> Start(tp)]
        /\ cut' = [tp \in TopicPartition |-> NoCut]
        /\ pending' = [tp \in TopicPartition |-> NoPending]
        /\ cpc' = "poll"
        /\ UNCHANGED <<log, group, durable, forfeited>>
    BY <1>14 DEF Crash, storeVars
  <2>2. ASSUME NEW tp \in TopicPartition, NEW o \in 0 .. Len(log'[tp]) - 1
        PROVE  ReadSafe(tp, o)' /\ CommittedSafe(tp, o)'
    <3>1. ~(o <= pending'[tp]) /\ (o < Reach(tp)' => o < group[tp])
      BY <1>d, <2>1 DEF Reach, Start
    <3> QED
      BY <1>a, <1>c, <1>e, <2>1, <3>1
  <2> QED
    BY <1>b, <2>1, <2>2
<1>15. CASE UNCHANGED vars
  BY <1>15, HandlerCovers
  DEF vars, clientVars, pollVars, storeVars, traceVars, Dealt, Safe, Seen, Unsettled
<1> QED
  BY <1>1, <1>2, <1>3, <1>4, <1>5, <1>6, <1>7, <1>8, <1>9, <1>10, <1>11, <1>12, <1>13, <1>14, <1>15
  DEF Next, LoopStep, AssemblerStep

-----------------------------------------------------------------------------
(* What is flushed.                                                        *)

EpochsPast ==
  \A tp \in TopicPartition : \A i \in 1 .. Len(log[tp]) : log[tp][i] <= losses

\* A record read stays read while the log is as it is and the client goes on.
LEMMA ReadOnceSteady ==
  ASSUME UNCHANGED <<log, losses>>,
         \A tp \in TopicPartition :
           Reach(tp) \in Nat /\ Reach(tp)' \in Nat /\ Reach(tp) <= Reach(tp)',
         NEW r \in Records, ReadOnce(r)
  PROVE  ReadOnce(r)'
<1>1. r[1] \in TopicPartition /\ r[2] \in Nat
  BY RecordParts
<1>2. InLog(r)' = InLog(r)
  BY DEF InLog, RecordAt
<1>3. r[2] < Reach(r[1]) => r[2] < Reach(r[1])'
  BY <1>1
<1> QED
  BY <1>1, <1>2, <1>3 DEF ReadOnce, Lost

LEMMA ReadOnceTruncate ==
  ASSUME TypeOK, TypeOK', NEW tp \in TopicPartition, NEW len \in 0 .. LogLen,
         Truncate(tp, len), NEW r \in Records, ReadOnce(r), r[3] <= losses
  PROVE  ReadOnce(r)'
<1>1. r[1] \in TopicPartition /\ r[2] \in Nat /\ r[3] \in Nat /\ losses \in Nat
      /\ losses' = losses + 1 /\ r[3] < losses'
  BY RecordParts, TruncateKeeps
<1>2. CASE Lost(r)
  BY <1>1, <1>2, TruncateKeeps DEF Lost, ReadOnce
<1>3. CASE InLog(r) /\ OffsetOf(r) < Reach(PartitionOf(r))
  <2>1. CASE r[1] # tp
    <3>1. InLog(r)' /\ Reach(r[1])' = Reach(r[1])
      <4>1. InLog(r)'
        BY <1>3, <2>1, TruncateKeeps
      <4>2. cut'[r[1]] = cut[r[1]] /\ pos' = pos
        BY <1>1, <2>1, TruncatedLog DEF Truncate, clientVars
      <4> QED
        BY <4>1, <4>2 DEF Reach
    <3> QED
      BY <1>3, <3>1 DEF ReadOnce
  <2>2. CASE r[1] = tp /\ len <= r[2]
    BY <1>1, <2>2, TruncateKeeps DEF Lost, ReadOnce
  <2>3. CASE r[1] = tp /\ r[2] < len
    <3>1. InLog(r)'
      BY <1>3, <2>3, TruncateKeeps
    <3>2. cut'[tp] = IF cut[tp] # NoCut /\ cut[tp] <= len THEN cut[tp] ELSE len
      BY TruncatedLog
    <3>3. r[2] < Reach(tp)'
      <4>1. cut[tp] \in Nat \cup {NoCut} /\ len \in Nat
        BY DEF TypeOK
      <4>2. r[2] < cut'[tp] /\ cut'[tp] # NoCut
        BY <1>1, <1>3, <2>3, <3>2, <4>1 DEF Reach
      <4> QED
        BY <4>2 DEF Reach
    <3> QED
      BY <2>3, <3>1, <3>3 DEF ReadOnce
  <2>4. len <= r[2] \/ r[2] < len
    BY <1>1
  <2> QED
    BY <2>1, <2>2, <2>3, <2>4
<1> QED
  BY <1>2, <1>3 DEF ReadOnce

\* A step that flushes nothing and hands out nothing.
LEMMA FlushKept ==
  ASSUME TypeOK, FlushInv, EpochsPast', losses \in Nat, losses' \in Nat, losses <= losses',
         UNCHANGED flushes, again \subseteq again', todo' \subseteq todo,
         \A r \in Records : r[3] <= losses /\ ReadOnce(r) => ReadOnce(r)' \/ r \in again'
  PROVE  FlushInv'
<1>1. todo \subseteq Records /\ \A f \in flushes : f \subseteq Records
  BY DEF TypeOK
<1>2. \A r \in todo : r[3] <= losses /\ (r \in again \/ ReadOnce(r))
  BY DEF FlushInv
<1>3. \A f \in flushes : \A r \in f :
        r[3] <= losses /\ (r \in again \/ (ReadOnce(r) /\ r \notin todo))
  BY DEF FlushInv
<1>4. \A r \in Records : r[3] <= losses => r[3] <= losses'
  BY RecordParts
<1>5. \A r \in todo' : r[3] <= losses' /\ (r \in again' \/ ReadOnce(r)')
  BY <1>1, <1>2, <1>4
<1>6. \A f \in flushes' : \A r \in f :
        r[3] <= losses' /\ (r \in again' \/ (ReadOnce(r)' /\ r \notin todo'))
  BY <1>1, <1>3, <1>4
<1>7. StoredTwiceOnlyIfRedelivered'
  BY DEF FlushInv, StoredTwiceOnlyIfRedelivered
<1> QED
  BY <1>5, <1>6, <1>7 DEF FlushInv, EpochsPast

\* A handler writes the records of its topic, or does not.
LEMMA HandlerFlushes ==
  ASSUME TypeOK, TypeOK', FlushInv, NEW topic, todo' = todo \ RecordsOf(topic),
         UNCHANGED <<log, cut, pos, losses, again>>,
         flushes' \in {flushes, flushes \cup {RecordsOf(topic)}}
  PROVE  FlushInv'
<1>1. todo \subseteq Records /\ (\A f \in flushes : f \subseteq Records)
  BY DEF TypeOK
<1>2. \A r \in todo : r[3] <= losses /\ (r \in again \/ ReadOnce(r))
  BY DEF FlushInv
<1>3. \A f \in flushes : \A r \in f :
        r[3] <= losses /\ (r \in again \/ (ReadOnce(r) /\ r \notin todo))
  BY DEF FlushInv
<1>4. \A r : ReadOnce(r)' = ReadOnce(r)
  BY DEF ReadOnce, Lost, InLog, RecordAt, Reach
<1>5. \A r \in RecordsOf(topic) : r \in todo /\ r \notin todo'
  BY DEF RecordsOf
<1>6. EpochsPast'
  BY DEF FlushInv, EpochsPast
<1>7. \A r \in todo' : r[3] <= losses' /\ (r \in again' \/ ReadOnce(r)')
  BY <1>2, <1>4
<1>8. \A f \in flushes' : \A r \in f :
        r[3] <= losses' /\ (r \in again' \/ (ReadOnce(r)' /\ r \notin todo'))
  BY <1>2, <1>3, <1>4, <1>5
<1>9. StoredTwiceOnlyIfRedelivered'
  <2>1. \A f, g \in flushes : f # g => f \cap g \subseteq again
    BY DEF FlushInv, StoredTwiceOnlyIfRedelivered
  <2>2. \A g \in flushes : RecordsOf(topic) \cap g \subseteq again
    BY <1>3, <1>5
  <2> QED
    BY <2>1, <2>2 DEF StoredTwiceOnlyIfRedelivered
<1> QED
  BY <1>6, <1>7, <1>8, <1>9 DEF FlushInv, EpochsPast

\* A new position: what lies between it and the old one comes again.
LEMMA FlushRewound ==
  ASSUME TypeOK, FlushInv, EpochsPast', losses \in Nat, UNCHANGED <<log, losses, flushes>>,
         todo' \subseteq todo, again \subseteq again',
         \A r \in Records : InLog(r) /\ r[2] < Reach(r[1]) =>
           r[2] < Reach(r[1])' \/ r \in again'
  PROVE  FlushInv'
<1>1. ASSUME NEW r \in Records, ReadOnce(r) PROVE r \in again' \/ ReadOnce(r)'
  <2>1. InLog(r)' = InLog(r) /\ Lost(r)' = Lost(r)
    BY DEF Lost, InLog, RecordAt
  <2> QED
    BY <1>1, <2>1 DEF ReadOnce
<1> QED
  BY <1>1, FlushKept

LEMMA NextFlush ==
  TypeOK /\ TypeOK' /\ LoopInv /\ FlushInv /\ [Next]_vars => FlushInv'
<1> SUFFICES ASSUME TypeOK, TypeOK', LoopInv, FlushInv, [Next]_vars PROVE FlushInv'
  OBVIOUS
<1>a. /\ EpochsPast
      /\ losses \in Nat /\ losses' \in Nat
      /\ \A f \in flushes : \A r \in f :
           r[3] <= losses /\ (r \in again \/ (ReadOnce(r) /\ r \notin todo))
      /\ StoredTwiceOnlyIfRedelivered
  BY DEF FlushInv, EpochsPast, TypeOK
<1>aa. \A f \in flushes : f \subseteq Records
  BY DEF TypeOK
<1>b. \A tp \in TopicPartition :
        /\ pos[tp] \in Nat /\ pos'[tp] \in Nat
        /\ cut[tp] \in Nat \cup {NoCut} /\ cut'[tp] \in Nat \cup {NoCut}
        /\ Reach(tp) \in Nat /\ Reach(tp)' \in Nat /\ Reach(tp) <= pos[tp]
  <2>1. \A tp \in TopicPartition : pos[tp] \in Nat /\ pos'[tp] \in Nat
    BY DEF TypeOK, Positions
  <2>2. \A tp \in TopicPartition : cut[tp] \in Nat \cup {NoCut} /\ cut'[tp] \in Nat \cup {NoCut}
    BY DEF TypeOK
  <2>3. \A tp \in TopicPartition : cut[tp] # NoCut => cut[tp] <= pos[tp]
    BY DEF LoopInv
  <2> QED
    BY <2>1, <2>2, <2>3 DEF Reach
<1>c. UNCHANGED <<log, losses>> => EpochsPast'
  BY <1>a DEF EpochsPast
<1>1. ASSUME NEW upto \in Positions, Poll(upto) PROVE FlushInv'
  <2>1. /\ UNCHANGED <<log, cut, losses, flushes, again>>
        /\ pos' = upto /\ todo' = Fetched(upto) /\ Fetchable(upto)
    BY <1>1 DEF Poll, storeVars, budgetVars
  <2>2. \A tp \in TopicPartition : Reach(tp) <= Reach(tp)'
    BY <1>b, <2>1, UptoBound DEF Reach
  <2>3. \A r \in Records : ReadOnce(r) => ReadOnce(r)'
    BY <1>b, <2>1, <2>2, ReadOnceSteady
  <2>4. ASSUME NEW r \in todo'
        PROVE  r \in Records /\ ReadOnce(r)' /\ r[3] <= losses' /\ ~ReadOnce(r)
    <3>1. /\ r \in Records /\ InLog(r) /\ pos[r[1]] <= r[2] /\ r[2] < upto[r[1]]
          /\ cut[r[1]] = NoCut
      BY <2>1, FetchedRecords
    <3>2. r[1] \in TopicPartition /\ r[2] \in Nat
      BY <3>1, RecordParts
    <3>3. ~ReadOnce(r)
      BY <1>b, <3>1, <3>2 DEF ReadOnce, Lost, Reach
    <3>4. InLog(r)' /\ Reach(r[1])' = upto[r[1]]
      BY <2>1, <3>1 DEF InLog, RecordAt, Reach
    <3>5. r[3] <= losses
      <4>1. r[2] < Len(log[r[1]]) /\ log[r[1]][r[2] + 1] = r[3]
        BY <3>1, InLogMeans
      <4>2. Len(log[r[1]]) \in Nat
        BY <3>2, TypesAt
      <4>3. r[2] + 1 \in 1 .. Len(log[r[1]])
        BY <3>2, <4>1, <4>2
      <4> QED
        BY <1>a, <3>2, <4>1, <4>3 DEF EpochsPast
    <3> QED
      BY <2>1, <3>1, <3>3, <3>4, <3>5 DEF ReadOnce
  <2>5. \A f \in flushes' : \A r \in f :
          r[3] <= losses' /\ (r \in again' \/ (ReadOnce(r)' /\ r \notin todo'))
    <3>1. ASSUME NEW f \in flushes, NEW r \in f
          PROVE  r[3] <= losses /\ (r \in again \/ (ReadOnce(r)' /\ r \notin todo'))
      BY <1>a, <1>aa, <2>3, <2>4
    <3> QED
      BY <2>1, <3>1
  <2>6. EpochsPast' /\ StoredTwiceOnlyIfRedelivered'
    BY <1>a, <1>c, <2>1 DEF StoredTwiceOnlyIfRedelivered
  <2> QED
    BY <2>4, <2>5, <2>6 DEF FlushInv, EpochsPast
<1>2. ASSUME NEW upto \in Positions, NEW errs \in SUBSET TopicPartition, FetchError(upto, errs)
      PROVE  FlushInv'
  <2>1. /\ pos' = [tp \in TopicPartition |-> IF tp \in Torn(errs) THEN cut[tp] ELSE upto[tp]]
        /\ cut' = [tp \in TopicPartition |-> IF tp \in Torn(errs) THEN NoCut ELSE cut[tp]]
        /\ UNCHANGED <<log, losses, flushes, again, todo>>
        /\ Fetchable(upto)
    BY <1>2 DEF FetchError, pollVars, storeVars
  <2>2. ASSUME NEW tp \in TopicPartition PROVE Reach(tp) <= Reach(tp)'
    <3>1. CASE tp \in Torn(errs)
      BY <1>b, <2>1, <3>1 DEF Reach, Torn
    <3>2. CASE tp \notin Torn(errs)
      BY <1>b, <2>1, <3>2, UptoBound DEF Reach
    <3> QED
      BY <3>1, <3>2
  <2>3. \A r \in Records : ReadOnce(r) => ReadOnce(r)'
    BY <1>b, <2>1, <2>2, ReadOnceSteady
  <2> QED
    BY <1>a, <1>c, <2>1, <2>3, FlushKept
<1>3. ASSUME NEW topic \in Topic, WriteOk(topic) \/ WriteError(topic) PROVE FlushInv'
  <2>1. /\ todo' = todo \ RecordsOf(topic)
        /\ UNCHANGED <<log, cut, pos, losses, again>>
        /\ flushes' \in {flushes, flushes \cup {RecordsOf(topic)}}
    BY <1>3 DEF WriteOk, WriteError, clientVars, storeVars, budgetVars
  <2> QED
    BY <2>1, HandlerFlushes
<1>4. ASSUME \/ \E r \in todo : Ingest(r)
             \/ AssemblerStep
             \/ \E tp \in TopicPartition : Revoke(tp)
             \/ \E tp \in TopicPartition : \E o \in 0 .. LogLen :
                  OtherDeals(tp, o) \/ OtherCommits(tp, o)
             \/ Withhold \/ Gather \/ Commit \/ UNCHANGED vars
      PROVE  FlushInv'
  <2>1. UNCHANGED <<log, cut, pos, losses, flushes, again>> /\ todo' \subseteq todo
    <3>1. CASE AssemblerStep
      BY <3>1, AssemblerKeeps
    <3>2. CASE ~AssemblerStep
      BY <1>4, <3>2
      DEF Ingest, Revoke, OtherDeals, OtherCommits, Withhold, Gather, Commit, vars, clientVars,
          pollVars, storeVars, budgetVars
    <3> QED
      BY <3>1, <3>2
  <2>2. \A tp \in TopicPartition : Reach(tp)' = Reach(tp)
    BY <2>1 DEF Reach
  <2>3. \A r \in Records : ReadOnce(r) => ReadOnce(r)'
    BY <1>b, <2>1, <2>2, ReadOnceSteady
  <2> QED
    BY <1>a, <1>c, <2>1, <2>3, FlushKept
<1>5. ASSUME NEW tp \in TopicPartition, Produce(tp) PROVE FlushInv'
  <2>1. UNCHANGED <<cut, pos, losses, flushes, again, todo>>
    BY <1>5 DEF Produce, clientVars, pollVars, storeVars, budgetVars
  <2>2. \A r \in Records : ReadOnce(r) => ReadOnce(r)'
    <3>1. \A q \in TopicPartition : Reach(q)' = Reach(q)
      BY <2>1 DEF Reach
    <3> QED
      BY <1>5, <3>1, ProduceKeeps, RecordParts DEF ReadOnce
  <2>3. EpochsPast'
    <3>1. /\ \A q \in TopicPartition : q # tp => log'[q] = log[q]
          /\ Len(log'[tp]) = Len(log[tp]) + 1 /\ Len(log[tp]) \in Nat
          /\ \A i \in 1 .. Len(log[tp]) : log'[tp][i] = log[tp][i]
          /\ log'[tp][Len(log[tp]) + 1] = losses
      BY <1>5, ProducedLog
    <3>2. PICK n \in Nat : n = Len(log[tp])
      BY <3>1
    <3>3. ASSUME NEW i \in 1 .. n + 1 PROVE log'[tp][i] <= losses
      <4>1. CASE i = n + 1
        BY <1>a, <3>1, <3>2, <4>1
      <4>2. CASE i \in 1 .. n
        BY <1>a, <3>1, <3>2, <4>2 DEF EpochsPast
      <4> QED
        BY <3>2, <4>1, <4>2
    <3>4. \A q \in TopicPartition : q # tp =>
            \A i \in 1 .. Len(log'[q]) : log'[q][i] <= losses
      BY <1>a, <3>1 DEF EpochsPast
    <3> QED
      BY <2>1, <3>1, <3>2, <3>3, <3>4 DEF EpochsPast
  <2> QED
    BY <1>a, <2>1, <2>2, <2>3, FlushKept
<1>6. ASSUME NEW tp \in TopicPartition, NEW len \in 0 .. LogLen, Truncate(tp, len)
      PROVE  FlushInv'
  <2>1. UNCHANGED <<flushes, again, todo>> /\ losses' = losses + 1
    BY <1>6 DEF Truncate, pollVars, storeVars
  <2>2. \A r \in Records : r[3] <= losses /\ ReadOnce(r) => ReadOnce(r)'
    BY <1>6, ReadOnceTruncate
  <2>3. EpochsPast'
    <3>1. /\ \A q \in TopicPartition : q # tp => log'[q] = log[q]
          /\ Len(log'[tp]) = len /\ len < Len(log[tp])
          /\ \A i \in 1 .. len : log'[tp][i] = log[tp][i]
      BY <1>6, TruncatedLog
    <3>2. Len(log[tp]) \in Nat /\ len \in Nat
      BY TypesAt
    <3>3. \A i \in 1 .. len : i \in 1 .. Len(log[tp])
      BY <3>1, <3>2
    <3>4. \A q \in TopicPartition : \A i \in 1 .. Len(log'[q]) :
            log'[q][i] = log[q][i] /\ i \in 1 .. Len(log[q])
      BY <3>1, <3>3
    <3>5. \A q \in TopicPartition : \A i \in 1 .. Len(log[q]) : log[q][i] \in Nat
      <4>1. \A q \in TopicPartition : log[q] \in Seq(0 .. MaxLosses)
        BY TypesAt
      <4> QED
        BY <4>1
    <3>6. ASSUME NEW q \in TopicPartition, NEW i \in 1 .. Len(log'[q])
          PROVE  log'[q][i] <= losses'
      <4>1. log'[q][i] = log[q][i] /\ log[q][i] \in Nat /\ log[q][i] <= losses
        BY <1>a, <3>4, <3>5 DEF EpochsPast
      <4> QED
        BY <1>a, <2>1, <4>1
    <3> QED
      BY <3>6 DEF EpochsPast
  <2> QED
    BY <1>a, <2>1, <2>2, <2>3, FlushKept
<1>7. ASSUME NEW tp \in TopicPartition, Assign(tp) PROVE FlushInv'
  <2>1. /\ UNCHANGED <<log, losses, flushes, todo>>
        /\ pos' = [pos EXCEPT ![tp] = Start(tp)] /\ cut' = [cut EXCEPT ![tp] = NoCut]
        /\ again' = again \cup {r \in Records :
                        InLog(r) /\ r[1] = tp /\ Start(tp) <= r[2] /\ r[2] < pos[tp]}
    BY <1>7 DEF Assign, pollVars, storeVars, budgetVars
  <2>2. /\ Reach(tp)' = Start(tp) /\ Start(tp) \in Nat
        /\ \A q \in TopicPartition : q # tp => Reach(q)' = Reach(q)
    BY <2>1, StartIsPosition DEF Reach, TypeOK, Positions
  <2>3. ASSUME NEW r \in Records, InLog(r), r[2] < Reach(r[1])
        PROVE  r[2] < Reach(r[1])' \/ r \in again'
    <3>1. r[1] \in TopicPartition /\ r[2] \in Nat /\ r[2] < pos[r[1]]
      BY <1>b, <2>3, RecordParts
    <3> QED
      BY <2>1, <2>2, <2>3, <3>1
  <2> QED
    BY <1>a, <1>c, <2>1, <2>3, FlushRewound
<1>8. CASE Crash
  <2>1. /\ pos' = [tp \in TopicPartition |-> Start(tp)]
        /\ cut' = [tp \in TopicPartition |-> NoCut]
        /\ again' = again \cup {r \in Records :
                                  InLog(r) /\ r[2] >= pos'[r[1]] /\ r[2] < pos[r[1]]}
        /\ todo' = {}
        /\ UNCHANGED <<log, losses, flushes>>
    BY <1>8 DEF Crash, storeVars
  <2>2. ASSUME NEW r \in Records, InLog(r), r[2] < Reach(r[1])
        PROVE  r[2] < Reach(r[1])' \/ r \in again'
    <3>1. r[1] \in TopicPartition /\ r[2] \in Nat /\ r[2] < pos[r[1]]
      BY <1>b, <2>2, RecordParts
    <3>2. Reach(r[1])' = pos'[r[1]] /\ pos'[r[1]] \in Nat
      BY <1>b, <2>1, <3>1 DEF Reach
    <3> QED
      BY <2>1, <2>2, <3>1, <3>2
  <2> QED
    BY <1>a, <1>c, <2>1, <2>2, FlushRewound
<1> QED
  BY <1>1, <1>2, <1>3, <1>4, <1>5, <1>6, <1>7, <1>8 DEF Next, LoopStep, AssemblerStep

-----------------------------------------------------------------------------
(* The results.                                                            *)

ConsumerInv ==
  TypeOK /\ LoopInv /\ HeldInv /\ KeptInv /\ TodoInv /\ CoverInv /\ FlushInv

LEMMA InitInv == Init => ConsumerInv
<1> SUFFICES ASSUME Init PROVE ConsumerInv
  OBVIOUS
<1>1. TypeOK
  BY InitType
<1>2. \A tp \in TopicPartition :
        /\ log[tp] = [i \in 1 .. LogLen |-> 0] /\ Len(log[tp]) = LogLen
        /\ cut[tp] = NoCut /\ pos[tp] = 0 /\ group[tp] = 0 /\ pending[tp] = NoPending
  BY DEF Init
<1>3. /\ todo = {} /\ held = {} /\ open = {} /\ taken = {} /\ limbo = {} /\ flushes = {}
      /\ cpc = "poll" /\ losses = 0 /\ mine = TopicPartition
  BY DEF Init
<1>4. LoopInv
  BY <1>2, <1>3 DEF LoopInv
<1>5. HeldInv /\ KeptInv /\ TodoInv
  BY <1>3 DEF HeldInv, KeptInv, TodoInv, Unsettled
<1>6. CoverInv
  <2>1. ASSUME NEW tp \in TopicPartition, NEW o \in 0 .. Len(log[tp]) - 1
        PROVE  ~(o <= pending[tp]) /\ ~(o < Reach(tp)) /\ ~(o < group[tp])
    BY <1>2 DEF Reach
  <2> QED
    BY <1>3, <2>1 DEF CoverInv
<1>7. FlushInv
  BY <1>2, <1>3 DEF FlushInv, StoredTwiceOnlyIfRedelivered
<1> QED
  BY <1>1, <1>4, <1>5, <1>6, <1>7 DEF ConsumerInv

LEMMA NextInv == ConsumerInv /\ [Next]_vars => ConsumerInv'
BY NextType, NextLoop, NextHeld, NextKept, NextTodo, NextCover, NextFlush DEF ConsumerInv

THEOREM ConsumerInvariant == Spec => []ConsumerInv
BY InitInv, NextInv, PTL DEF Spec

\* On a partition that has stayed with this worker, once the client has noticed
\* a truncation, every entry of the watermark is for a record that the broker
\* still has: ClearBelow (watermark.go) releases the others, so that none keeps
\* the floor of commitCeiling for ever.
THEOREM NoFloorLost == Spec => []NoFloorOnLostRecord
<1>1. ConsumerInv => NoFloorOnLostRecord
  BY DEF ConsumerInv, HeldInv, NoFloorOnLostRecord
<1> QED
  BY <1>1, ConsumerInvariant, PTL

\* Two stored batches share a record only if a restart or a rebalance had Kafka
\* deliver it again: the poll loop (consumer.go, RunWithCommitGate) hands no
\* record to a handler twice, whatever fails, is lost or truncated meanwhile.
THEOREM StoredOnceOrRedelivered == Spec => []StoredTwiceOnlyIfRedelivered
<1>1. ConsumerInv => StoredTwiceOnlyIfRedelivered
  BY DEF ConsumerInv, FlushInv
<1> QED
  BY <1>1, ConsumerInvariant, PTL

\* A step that moves no offset forgets nothing that was dealt with; one that
\* moves an offset moves it over records dealt with.
LEMMA NextPromise == ConsumerInv /\ [Next]_vars => [Promise!Next]_<<log, Dealt, group>>
<1> SUFFICES ASSUME ConsumerInv, [Next]_vars PROVE [Promise!Next]_<<log, Dealt, group>>
  OBVIOUS
<1>0. Dealt \subseteq Dealt'
  BY NextSeen
<1>1. CASE UNCHANGED group
  BY <1>0, <1>1 DEF Promise!Next, Promise!Deal
<1>2. CASE Commit
  <2>1. /\ cpc = "commit" /\ group' \in {group, After(group)}
        /\ UNCHANGED <<log, durable, forfeited>>
    BY <1>2 DEF Commit, storeVars
  <2>2. ASSUME NEW tp \in TopicPartition, NEW o \in group[tp] .. group'[tp] - 1,
               o < Len(log[tp])
        PROVE  Promise!RecordAt(tp, o) \in Dealt
    <3>1. /\ group[tp] \in Nat /\ commits[tp] \in Nat \cup {NoCommit}
          /\ Len(log[tp]) \in Nat
      BY TypesAt DEF ConsumerInv
    <3>2. group'[tp] = group[tp] \/ (commits[tp] \in Nat /\ group'[tp] = commits[tp] + 1)
      BY <2>1, <3>1 DEF After
    <3>3. o \in Nat /\ o <= commits[tp]
      BY <2>2, <3>1, <3>2
    <3>4. o \in 0 .. Len(log[tp]) - 1
      BY <2>2, <3>1, <3>3
    <3>5. RecordAt(tp, o) \in Dealt
      BY <2>1, <3>3, <3>4 DEF ConsumerInv, CoverInv
    <3> QED
      BY <3>5 DEF Promise!RecordAt, RecordAt
  <2>3. Promise!Commit
    BY <2>1, <2>2 DEF Promise!Commit, Dealt
  <2> QED
    BY <2>3 DEF Promise!Next
<1>3. ASSUME NEW tp \in TopicPartition, NEW upto \in 0 .. LogLen, OtherCommits(tp, upto)
      PROVE  Promise!Next
  <2>1. /\ UNCHANGED <<log, durable, forfeited>> /\ group' = [group EXCEPT ![tp] = upto]
        /\ \A o \in group[tp] .. upto - 1 : RecordAt(tp, o) \in Dealt
    BY <1>3 DEF OtherCommits, storeVars, Dealt
  <2>2. ASSUME NEW q \in TopicPartition, NEW o \in group[q] .. group'[q] - 1
        PROVE  Promise!RecordAt(q, o) \in Dealt
    <3>1. group \in Positions /\ group[q] \in Nat
      BY DEF ConsumerInv, TypeOK, Positions
    <3>2. CASE q # tp
      BY <2>1, <3>1, <3>2 DEF Positions
    <3>3. CASE q = tp
      <4>1. group'[tp] = upto
        BY <2>1, <3>1 DEF Positions
      <4> QED
        BY <2>1, <3>3, <4>1 DEF Promise!RecordAt, RecordAt
    <3> QED
      BY <3>2, <3>3
  <2>3. Promise!Commit
    BY <2>1, <2>2 DEF Promise!Commit, Dealt
  <2> QED
    BY <2>3 DEF Promise!Next
<1>4. \/ UNCHANGED group \/ Commit
      \/ \E tp \in TopicPartition : \E upto \in 0 .. LogLen : OtherCommits(tp, upto)
  <2>1. CASE AssemblerStep
    BY <2>1, AssemblerKeeps
  <2>2. CASE LoopStep
    BY <2>2 DEF LoopStep, Poll, Ingest, WriteOk, WriteError, Withhold, Gather
  <2>3. CASE \/ \E upto \in Positions, errs \in SUBSET TopicPartition : FetchError(upto, errs)
             \/ \E tp \in TopicPartition : Produce(tp) \/ Revoke(tp) \/ Assign(tp)
             \/ \E tp \in TopicPartition : \E o \in 0 .. LogLen :
                  Truncate(tp, o) \/ OtherDeals(tp, o)
             \/ Crash \/ UNCHANGED vars
    BY <2>3 DEF FetchError, Produce, Revoke, Assign, Truncate, OtherDeals, Crash, vars
  <2> QED
    BY <2>1, <2>2, <2>3 DEF Next, AssemblerStep
<1> QED
  BY <1>1, <1>2, <1>3, <1>4

\* The loop implements Delivery: the offset that the group commits passes a
\* record only after it was dealt with, for every number of partitions, topics,
\* traces, failures, truncations, rebalances and restarts (consumer.go,
\* RunWithCommitGate; watermark.go, Track and Resolve).
THEOREM OffsetsKeepThePromise == Spec => ImplementsDelivery
<1>1. Init => Promise!Init
  BY DEF Init, Promise!Init, Dealt
<1> QED
  BY <1>1, NextPromise, ConsumerInvariant, PTL DEF Spec, ImplementsDelivery, Promise!Spec
=============================================================================
