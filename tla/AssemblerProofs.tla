-------------------------- MODULE AssemblerProofs --------------------------
(***************************************************************************)
(* Theorems about Assembler, for every log, every buffer bound and any     *)
(* number of crashes and failures.                                         *)
(***************************************************************************)
EXTENDS Assembler, FiniteSetTheorems, WellFoundedInduction, TLAPS

-----------------------------------------------------------------------------
(* Type correctness, one part of the state at a time.                      *)

LEMMA InitType == Init => TypeOK
  BY LogAssumption, BufferAssumption, AssemblerAssumption
  DEF Init, TypeOK, WmInit, WmTypeOK, BufferInit, BufferTypeOK, LoopTypeOK,
      JobTypeOK, HistoryTypeOK, Entry, NoEntry, Verdict, Job, NoJob, Dog, NoDog,
      NoPending, NoCommit, NotTracked, Record, Offset

\* A rebalance and what the other worker commits leave alone all of the
\* process but what the group assigns to it.
LEMMA GroupKeeps ==
  ASSUME GroupStep
  PROVE  UNCHANGED <<wmVars, bufferVars, ghostVars, loopVars, pos, pending, committed,
                     commits, log, partitionOf, job, ready, dog, failures, crashes, expiries>>
  BY DEF GroupStep, Revoke, OtherCommits

LEMMA GroupMoves ==
  ASSUME LoopTypeOK, GroupStep
  PROVE  /\ moved \subseteq moved'
         /\ stored \subseteq stored'
         /\ \A p \in Partition : p \notin moved => brokerOffset'[p] = brokerOffset[p]
  BY DEF GroupStep, Revoke, OtherCommits, groupVars, LoopTypeOK

LEMMA NextWmType == TypeOK /\ [Next]_vars => WmTypeOK'
<1> SUFFICES ASSUME TypeOK, [Next]_vars PROVE WmTypeOK'
  OBVIOUS
<1> USE DEF TypeOK, WmTypeOK
<1>1. CASE TrackRecord
  <2>1. cur \in Record /\ log[cur] \in Trace
    BY <1>1 DEF TrackRecord, LoopTypeOK
  <2>2. cur[1] \in Partition /\ cur[2] \in Nat
    BY <2>1, LogAssumption DEF Record, Offset
  <2> QED
    BY <1>1, <2>1, <2>2 DEF TrackRecord, Track
<1>2. ASSUME NEW w \in Worker, FinishResolve(w) PROVE WmTypeOK'
  BY <1>2 DEF FinishResolve, Resolve, NotTracked
<1>3. CASE WatchdogResolve
  BY <1>3 DEF WatchdogResolve, Resolve, NotTracked
<1>4. ASSUME NEW p \in Partition, NEW t \in Trace, Age(p, t) PROVE WmTypeOK'
  BY <1>4 DEF Age, GrowOld
<1>5. CASE Crash
  BY <1>5 DEF Crash, Restart, NotTracked
<1>6. CASE UNCHANGED wmVars
  BY <1>6 DEF wmVars
<1> QED
  BY <1>1, <1>2, <1>3, <1>4, <1>5, <1>6, GroupKeeps
  DEF Next, vars, ConsumerStep, JobStep, SweeperStep, WatchdogStep, Poll, NextRecord,
      AdmitRecord, Evict, EarlyExit, SkipCommit, GatherCommits, Commit, EmitOk,
      EmitError, RecordVerdict, FinishLookup, PopReady, SweepNext,
      WatchdogScan, WatchdogCheck, WatchdogForget

LEMMA NextBufferType == TypeOK /\ [Next]_vars => BufferTypeOK'
<1> SUFFICES ASSUME TypeOK, [Next]_vars PROVE BufferTypeOK'
  OBVIOUS
<1>1. BufferTypeOK /\ LoopTypeOK /\ JobTypeOK
  BY DEF TypeOK
<1>2. NoEntry \in Entry
  BY DEF Entry, NoEntry
<1>3. CASE AdmitRecord
  <2>1. CASE UNCHANGED bufferVars
    BY <1>1, <2>1 DEF bufferVars, BufferTypeOK
  <2>2. CASE Admit(log[cur], cur)
    <3> DEFINE t == log[cur]
    <3>1. cur \in Record /\ t \in Trace
      BY <1>1, <1>3 DEF AdmitRecord, LoopTypeOK
    <3>2. SpanSize[cur] \in Nat
      BY <3>1, BufferAssumption
    <3>3. inflight[t] \in Entry /\ clock \in Nat
      BY <1>1, <3>1 DEF BufferTypeOK
    <3>4. [recs  |-> inflight[t].recs \cup {cur},
           seen  |-> IF inflight[t].recs = {} THEN clock ELSE inflight[t].seen,
           bytes |-> inflight[t].bytes + SpanSize[cur]] \in Entry
      BY <3>1, <3>2, <3>3 DEF Entry
    <3>5. inflight' \in [Trace -> Entry]
      BY <1>1, <2>2, <3>1, <3>4 DEF Admit, BufferTypeOK
    <3> QED
      BY <1>1, <2>2, <3>3, <3>5 DEF Admit, BufferTypeOK
  <2> QED
    BY <1>3, <2>1, <2>2 DEF AdmitRecord
<1>4. ASSUME NEW S, NEW freed, Remove(S, freed) PROVE BufferTypeOK'
  BY <1>1, <1>2, <1>4 DEF Remove, BufferTypeOK
<1>5. ASSUME NEW w \in Worker, RecordVerdict(w) PROVE BufferTypeOK'
  <2> DEFINE t == job[w].trace
             order == Append(decidedOrder, t)
  <2>1. t \in Trace /\ job[w].verdict \in Verdict
    BY <1>1, <1>5 DEF RecordVerdict, JobTypeOK, Job
  <2>2. order \in Seq(Trace) /\ Len(order) = Len(decidedOrder) + 1
        /\ Len(decidedOrder) \in Nat
    BY <1>1, <2>1 DEF BufferTypeOK
  <2> DEFINE over == IF DecidedCacheSize > 0 /\ Len(order) > DecidedCacheSize
                     THEN Len(order) - DecidedCacheSize ELSE 0
  <2>3. PICK k \in over .. Len(decidedOrder) :
          decidedOrder' = SubSeq(order, k + 1, Len(order))
    BY <1>5, Zenon DEF RecordVerdict, RecordDecision
  <2>3a. k \in Nat
    BY <2>2, <2>3, BufferAssumption
  <2>4. decidedOrder' \in Seq(Trace)
    BY <2>2, <2>3, <2>3a
  <2>5. decided' \in [Trace -> Verdict \cup {"none"}]
    BY <1>1, <1>5, <2>1 DEF RecordVerdict, RecordDecision, BufferTypeOK
  <2>6. UNCHANGED <<inflight, totalBytes, clock>>
    BY <1>5 DEF RecordVerdict, RecordDecision
  <2> QED
    BY <1>1, <2>4, <2>5, <2>6 DEF BufferTypeOK
<1>6. CASE Crash
  BY <1>2, <1>6 DEF Crash, Restart, BufferTypeOK
<1>7. CASE UNCHANGED bufferVars
  BY <1>1, <1>7 DEF bufferVars, BufferTypeOK
<1> QED
  BY <1>3, <1>4, <1>5, <1>6, <1>7, GroupKeeps
  DEF Next, vars, ConsumerStep, JobStep, SweeperStep, WatchdogStep, Poll, NextRecord,
      TrackRecord, Evict, EarlyExit, SkipCommit, GatherCommits, Commit, EmitOk,
      EmitError, FinishLookup, FinishResolve, PopReady, SweepNext, WatchdogScan,
      WatchdogCheck, WatchdogResolve, WatchdogForget, Age

LEMMA NextLoopType == TypeOK /\ [Next]_vars => LoopTypeOK'
<1> SUFFICES ASSUME TypeOK, [Next]_vars PROVE LoopTypeOK'
  OBVIOUS
<1>1. LoopTypeOK
  BY DEF TypeOK
<1> USE LogAssumption
<1>2. ASSUME NEW upto \in [Partition -> 0 .. LogLen], Poll(upto) PROVE LoopTypeOK'
  <2>1. pending' \in [Partition -> Offset \cup {NoPending}]
    BY <1>1, <1>2 DEF Poll, LoopTypeOK, Offset, NoPending
  <2>2. todo' \in SUBSET Record
    BY <1>2 DEF Poll
  <2> QED
    BY <1>1, <1>2, <2>1, <2>2 DEF Poll, LoopTypeOK, groupVars
<1>3. ASSUME NEW r \in Record, NextRecord(r) PROVE LoopTypeOK'
  <2>1. log[r] # Malformed => log[r] \in Trace
    BY <1>1 DEF LoopTypeOK, Logs
  <2> QED
    BY <1>1, <1>3, <2>1 DEF NextRecord, LoopTypeOK, consumerVars, groupVars
<1>4. CASE TrackRecord
  BY <1>1, <1>4 DEF TrackRecord, LoopTypeOK, consumerVars, groupVars
<1>5. CASE AdmitRecord
  BY <1>1, <1>5 DEF AdmitRecord, LoopTypeOK, consumerVars, groupVars
<1>6. CASE Evict
  BY <1>1, <1>6 DEF Evict, LoopTypeOK, consumerVars, groupVars
<1>7. CASE EarlyExit
  BY <1>1, <1>7 DEF EarlyExit, LoopTypeOK, consumerVars, groupVars
<1>8. CASE SkipCommit
  BY <1>1, <1>8 DEF SkipCommit, LoopTypeOK, consumerVars, groupVars
<1>9. CASE GatherCommits
  BY <1>1, <1>9 DEF GatherCommits, LoopTypeOK, groupVars
<1>10. CASE Commit
  <2>1. ASSUME NEW f \in [Partition -> 0 .. LogLen]
        PROVE  After(f) \in [Partition -> 0 .. LogLen]
    BY <1>1, <2>1 DEF After, LoopTypeOK, Offset, NoCommit
  <2>2. After(brokerOffset) \in [Partition -> 0 .. LogLen]
        /\ After(committed) \in [Partition -> 0 .. LogLen]
    BY <1>1, <2>1 DEF LoopTypeOK
  <2>3. brokerOffset' \in [Partition -> 0 .. LogLen]
        /\ committed' \in [Partition -> 0 .. LogLen]
    BY <1>1, <1>10, <2>2 DEF Commit, LoopTypeOK
  <2> QED
    BY <1>1, <1>10, <2>3 DEF Commit, LoopTypeOK, groupVars
<1>11. CASE Crash
  BY <1>1, <1>11 DEF Crash, Restart, LoopTypeOK, NoPending, NoCommit
<1>12. CASE UNCHANGED <<log, consumerVars, loopVars>>
  BY <1>1, <1>12 DEF LoopTypeOK, consumerVars, groupVars, loopVars
<1>13. CASE GroupStep
  <2>1. /\ brokerOffset' \in [Partition -> 0 .. LogLen]
        /\ mine' \in SUBSET Partition /\ moved' \in SUBSET Partition
    BY <1>1, <1>13 DEF GroupStep, Revoke, OtherCommits, groupVars, LoopTypeOK
  <2> QED
    BY <1>1, <1>13, <2>1, GroupKeeps DEF LoopTypeOK, loopVars
<1> QED
  BY <1>2, <1>3, <1>4, <1>5, <1>6, <1>7, <1>8, <1>9, <1>10, <1>11, <1>12, <1>13
  DEF Next, vars, ConsumerStep, JobStep, SweeperStep, WatchdogStep, EmitOk, EmitError,
      RecordVerdict, FinishLookup, FinishResolve, PopReady, SweepNext, WatchdogScan,
      WatchdogCheck, WatchdogResolve, WatchdogForget, Age

LEMMA NextHistoryType == TypeOK /\ [Next]_vars => HistoryTypeOK'
<1> SUFFICES ASSUME TypeOK, [Next]_vars PROVE HistoryTypeOK'
  OBVIOUS
<1>1. HistoryTypeOK /\ LoopTypeOK /\ JobTypeOK /\ BufferTypeOK
  BY DEF TypeOK
<1>2. ASSUME NEW w \in Worker PROVE job[w].recs \in SUBSET Record
  BY <1>1 DEF JobTypeOK, Job
<1> USE AssemblerAssumption DEF HistoryTypeOK
<1>3. CASE AdmitRecord
  BY <1>1, <1>3 DEF AdmitRecord, LoopTypeOK
<1>4. CASE Evict
  <2>1. victim \in Inflight => inflight[victim].recs \in SUBSET Record
    BY <1>1 DEF Inflight, BufferTypeOK, Entry
  <2> QED
    BY <1>1, <1>4, <2>1 DEF Evict
<1>5. ASSUME NEW w \in Worker, EmitOk(w) PROVE HistoryTypeOK'
  BY <1>1, <1>2, <1>5 DEF EmitOk
<1>6. ASSUME NEW w \in Worker, EmitError(w) PROVE HistoryTypeOK'
  BY <1>1, <1>2, <1>6 DEF EmitError
<1>7. CASE SkipCommit
  BY <1>1, <1>7 DEF SkipCommit, ghostVars
<1>8. CASE Commit
  BY <1>1, <1>8 DEF Commit, ghostVars
<1>9. CASE WatchdogResolve
  BY <1>1, <1>9 DEF WatchdogResolve, Limbo
<1>10. ASSUME NEW p \in Partition, NEW t \in Trace, Age(p, t) PROVE HistoryTypeOK'
  BY <1>1, <1>10 DEF Age, ghostVars
<1>11. CASE Crash
  BY <1>1, <1>11 DEF Crash, Restart, ghostVars
<1>12. CASE UNCHANGED <<stored, ghostVars, failures, crashes, expiries>>
  BY <1>1, <1>12 DEF ghostVars
<1>13. CASE GroupStep
  <2>1. stored' \in SUBSET Record
    BY <1>1, <1>13 DEF GroupStep, Revoke, OtherCommits
  <2> QED
    BY <1>1, <1>13, <2>1, GroupKeeps DEF ghostVars
<1> QED
  BY <1>3, <1>4, <1>5, <1>6, <1>7, <1>8, <1>9, <1>10, <1>11, <1>12, <1>13
  DEF Next, vars, ConsumerStep, JobStep, SweeperStep, WatchdogStep, Poll, NextRecord,
      TrackRecord, EarlyExit, GatherCommits, RecordVerdict, FinishLookup,
      FinishResolve, PopReady, SweepNext, WatchdogScan, WatchdogCheck, WatchdogForget

LEMMA NextJobType == TypeOK /\ [Next]_vars => JobTypeOK'
<1> SUFFICES ASSUME TypeOK, [Next]_vars PROVE JobTypeOK'
  OBVIOUS
<1>1. JobTypeOK /\ LoopTypeOK /\ BufferTypeOK
  BY DEF TypeOK
<1>2. NoEntry \in Entry /\ NoJob \in Job /\ NoJob.step = "idle"
      /\ NoDog \in Dog /\ NoDog.step = "idle"
  BY DEF Entry, NoEntry, Job, NoJob, Verdict, Dog, NoDog
<1>3. ASSUME NEW w \in Worker, NEW j \in Job, j.step # "idle" => j.trace \in Trace,
             job' = [job EXCEPT ![w] = j], UNCHANGED <<ready, dog>>,
             partitionOf' \in [Trace -> Partition \cup {NoPartition}]
      PROVE  JobTypeOK'
  BY <1>1, <1>3 DEF JobTypeOK
<1>4. ASSUME NEW w \in Worker, NEW kind \in {"normal", "forced", "late"},
             NEW t \in Trace, NEW recs \in SUBSET Record,
             NEW step \in {"emit", "lookup"}, Start(w, kind, t, recs, step)
      PROVE  \E j \in Job : j.trace \in Trace /\ job' = [job EXCEPT ![w] = j]
  <2> DEFINE j == [NoJob EXCEPT !.step = step, !.kind = kind, !.trace = t, !.recs = recs]
  <2>1. j \in Job /\ j.trace \in Trace
    BY DEF Job, NoJob, Verdict
  <2> QED
    BY <1>4, <2>1 DEF Start
<1>5. ASSUME NEW r \in Record, NextRecord(r) PROVE JobTypeOK'
  <2>1. r[1] \in Partition
    BY DEF Record
  <2>2. partitionOf' \in [Trace -> Partition \cup {NoPartition}]
    BY <1>1, <1>5, <2>1 DEF NextRecord, JobTypeOK
  <2> QED
    BY <1>1, <1>5, <2>2 DEF NextRecord, JobTypeOK
<1>6. CASE AdmitRecord
  <2>1. cur \in Record /\ log[cur] \in Trace
    BY <1>1, <1>6 DEF AdmitRecord, LoopTypeOK
  <2>2. UNCHANGED <<partitionOf, ready, dog>>
    BY <1>6 DEF AdmitRecord
  <2>3. CASE UNCHANGED job
    BY <1>1, <2>2, <2>3 DEF JobTypeOK
  <2>4. ASSUME NEW step \in {"emit", "lookup"},
               Start("consumer", "late", log[cur], {cur}, step)
        PROVE  JobTypeOK'
    <3>1. PICK j \in Job : j.trace \in Trace /\ job' = [job EXCEPT !["consumer"] = j]
      BY <1>4, <2>1, <2>4 DEF Worker
    <3> QED
      BY <1>1, <1>3, <2>2, <3>1 DEF Worker, JobTypeOK
  <2> QED
    BY <1>6, <2>3, <2>4 DEF AdmitRecord
<1>7. CASE Evict
  <2>1. UNCHANGED <<partitionOf, ready, dog>>
    BY <1>7 DEF Evict
  <2>2. CASE UNCHANGED job
    BY <1>1, <2>1, <2>2 DEF JobTypeOK
  <2>3. CASE /\ victim \in Inflight
             /\ Start("consumer", "forced", victim, inflight[victim].recs, "emit")
    <3>1. victim \in Trace /\ inflight[victim].recs \in SUBSET Record
      BY <1>1, <2>3 DEF Inflight, BufferTypeOK, Entry
    <3>2. PICK j \in Job : j.trace \in Trace /\ job' = [job EXCEPT !["consumer"] = j]
      BY <1>4, <2>3, <3>1 DEF Worker
    <3> QED
      BY <1>1, <1>3, <2>1, <3>2 DEF Worker, JobTypeOK
  <2> QED
    BY <1>7, <2>2, <2>3 DEF Evict
<1>8. CASE EarlyExit
  <2>1. UNCHANGED <<partitionOf, ready, dog>>
    BY <1>8 DEF EarlyExit
  <2>2. CASE UNCHANGED job
    BY <1>1, <2>1, <2>2 DEF JobTypeOK
  <2>3. CASE /\ log[cur] \in Inflight
             /\ Start("consumer", "normal", log[cur], inflight[log[cur]].recs, "emit")
    <3>1. log[cur] \in Trace /\ inflight[log[cur]].recs \in SUBSET Record
      BY <1>1, <2>3 DEF Inflight, BufferTypeOK, Entry
    <3>2. PICK j \in Job : j.trace \in Trace /\ job' = [job EXCEPT !["consumer"] = j]
      BY <1>4, <2>3, <3>1 DEF Worker
    <3> QED
      BY <1>1, <1>3, <2>1, <3>2 DEF Worker, JobTypeOK
  <2> QED
    BY <1>8, <2>2, <2>3 DEF EarlyExit
<1>9. ASSUME NEW w \in Worker, JobStep(w) PROVE JobTypeOK'
  <2>1. job[w] \in Job /\ UNCHANGED <<ready, dog>>
        /\ (job[w].step # "idle" => job[w].trace \in Trace)
    BY <1>1, <1>9 DEF JobTypeOK, JobStep, EmitOk, EmitError, RecordVerdict, FinishLookup,
                      FinishResolve
  <2>2. job[w].step # "idle"
    BY <1>9 DEF JobStep, EmitOk, EmitError, RecordVerdict, FinishLookup, FinishResolve
  <2>3. partitionOf' \in [Trace -> Partition \cup {NoPartition}]
    BY <1>1, <1>9 DEF JobTypeOK, JobStep, EmitOk, EmitError, RecordVerdict, FinishLookup,
                      FinishResolve
  <2>4. ASSUME NEW j \in Job, j.trace \in Trace,
               NEW step \in {"idle", "record", "lookup", "resolve"},
               job' = [job EXCEPT ![w] = Goto(j, step)]
        PROVE  JobTypeOK'
    <3>1. Goto(j, step) \in Job
          /\ (Goto(j, step).step # "idle" => Goto(j, step).trace \in Trace)
      BY <1>2, <2>4 DEF Goto, Job
    <3> QED
      BY <1>3, <2>1, <2>3, <2>4, <3>1
  <2>5. ASSUME NEW v \in Verdict
        PROVE  [job[w] EXCEPT !.verdict = v] \in Job
               /\ [job[w] EXCEPT !.verdict = v].trace \in Trace
    BY <2>1, <2>2 DEF Job
  <2>6. [job[w] EXCEPT !.part = partitionOf[job[w].trace]] \in Job
        /\ [job[w] EXCEPT !.part = partitionOf[job[w].trace]].trace \in Trace
    BY <1>1, <2>1, <2>2 DEF Job, JobTypeOK
  <2>7. CASE EmitOk(w)
    BY <2>4, <2>5, <2>7 DEF EmitOk, AfterEmit
  <2>8. CASE EmitError(w)
    BY <2>4, <2>5, <2>8 DEF EmitError, AfterError, Verdict
  <2>9. CASE RecordVerdict(w)
    BY <2>1, <2>2, <2>4, <2>9 DEF RecordVerdict, AfterRecord
  <2>10. CASE FinishLookup(w)
    BY <2>4, <2>6, <2>10 DEF FinishLookup, AfterResolve
  <2>11. CASE FinishResolve(w)
    BY <2>1, <2>2, <2>4, <2>11 DEF FinishResolve, AfterResolve
  <2> QED
    BY <1>9, <2>7, <2>8, <2>9, <2>10, <2>11 DEF JobStep
<1>10. CASE PopReady
  <2>1. ready' \in [Trace -> Entry]
    BY <1>1, <1>2, <1>10 DEF PopReady, BufferTypeOK
  <2> QED
    BY <1>1, <1>10, <2>1 DEF PopReady, JobTypeOK
<1>11. ASSUME NEW t \in Trace, SweepNext(t) PROVE JobTypeOK'
  <2>1. ready[t].recs \in SUBSET Record
    BY <1>1 DEF JobTypeOK, Entry
  <2>2. PICK j \in Job : j.trace \in Trace /\ job' = [job EXCEPT !["sweeper"] = j]
    BY <1>4, <1>11, <2>1 DEF Worker, SweepNext
  <2>3. ready' \in [Trace -> Entry]
    BY <1>1, <1>2, <1>11 DEF SweepNext, JobTypeOK
  <2> QED
    BY <1>1, <1>11, <2>2, <2>3 DEF SweepNext, JobTypeOK, Worker
<1>12. CASE WatchdogStep
  <2>1. UNCHANGED <<job, ready>> /\ partitionOf' \in [Trace -> Partition \cup {NoPartition}]
    BY <1>1, <1>12 DEF WatchdogStep, WatchdogScan, WatchdogCheck, WatchdogResolve,
                       WatchdogForget, JobTypeOK
  <2>2. dog \in Dog /\ (dog.step \in {"resolve", "forget"} => dog.trace \in Trace)
    BY <1>1 DEF JobTypeOK
  <2>3. dog' \in Dog /\ (dog'.step \in {"resolve", "forget"} => dog'.trace \in Trace)
    <3>1. CASE WatchdogScan
      <4>1. StaleCandidates \in SUBSET (Partition \X Trace)
        BY DEF StaleCandidates, TypeOK, WmTypeOK
      <4> QED
        BY <2>2, <3>1, <4>1 DEF WatchdogScan, Dog
    <3>2. ASSUME NEW e \in Partition \X Trace, WatchdogCheck(e)
          PROVE  dog' \in Dog /\ (dog'.step \in {"resolve", "forget"} => dog'.trace \in Trace)
      BY <1>2, <2>2, <3>2 DEF WatchdogCheck, Dog
    <3>3. CASE WatchdogResolve
      BY <2>2, <3>3 DEF WatchdogResolve, Dog
    <3>4. CASE WatchdogForget
      BY <1>2, <2>2, <3>4 DEF WatchdogForget, Dog, NoDog
    <3> QED
      BY <1>12, <3>1, <3>2, <3>3, <3>4 DEF WatchdogStep
  <2> QED
    BY <1>1, <2>1, <2>3 DEF JobTypeOK
<1>13. CASE Crash
  BY <1>2, <1>13 DEF Crash, Restart, JobTypeOK
<1>14. CASE UNCHANGED <<partitionOf, job, ready, dog>>
  BY <1>1, <1>14 DEF JobTypeOK
<1> QED
  BY <1>5, <1>6, <1>7, <1>8, <1>9, <1>10, <1>11, <1>12, <1>13, <1>14, GroupKeeps
  DEF Next, vars, ConsumerStep, SweeperStep, Poll, TrackRecord, SkipCommit,
      GatherCommits, Commit, Age

\* Type correctness of the assembler process.
THEOREM TypeCorrect == Spec => []TypeOK
<1>1. TypeOK /\ [Next]_vars => TypeOK'
  BY NextWmType, NextBufferType, NextLoopType, NextJobType, NextHistoryType DEF TypeOK
<1> QED
  BY InitType, <1>1, PTL DEF Spec
-----------------------------------------------------------------------------
(* The commit floor.                                                       *)

\* What FloorRespected needs to be inductive: where no other worker commits,
\* nothing this process still has to ingest, tracks or is about to commit lies
\* below the offset the broker holds; and everywhere a commit that was gathered
\* stays at or below every entry while the sweeper and the watchdog resolve
\* entries under it.
FloorInv ==
  /\ \A p \in Partition :
       /\ p \notin moved => brokerOffset[p] <= pos[p]
       /\ pending[p] # NoPending => pending[p] = pos[p] - 1
  /\ \A r \in todo : r[2] < pos[r[1]] /\ (r[1] \notin moved => brokerOffset[r[1]] <= r[2])
  /\ cpc \in {"poll", "commit"} => todo = {}
  /\ cpc = "track" =>
       cur[2] < pos[cur[1]] /\ (cur[1] \notin moved => brokerOffset[cur[1]] <= cur[2])
  /\ \A p \in Partition, t \in Trace : Tracked(p, t) =>
       wm[p][t] < pos[p] /\ (p \notin moved => brokerOffset[p] <= wm[p][t])
  /\ \A p \in Partition : commits[p] # NoCommit =>
       /\ cpc = "commit"
       /\ p \notin moved => brokerOffset[p] <= commits[p] + 1
       /\ commits[p] + 1 <= pos[p]
       /\ \A t \in Trace : Tracked(p, t) => commits[p] + 1 <= wm[p][t]

LEMMA InitFloor == Init => FloorInv
  BY LogAssumption DEF Init, FloorInv, WmInit, Tracked, NotTracked, NoPending, NoCommit

LEMMA NextFloor == TypeOK /\ FloorInv /\ [Next]_vars => FloorInv'
<1> SUFFICES ASSUME TypeOK, FloorInv, [Next]_vars PROVE FloorInv'
  OBVIOUS
<1>1. WmTypeOK /\ LoopTypeOK
  BY DEF TypeOK
<1>2. \A r \in Record : r[1] \in Partition /\ r[2] \in Offset
  BY DEF Record
<1> USE LogAssumption DEF Offset
<1>3. ASSUME NEW upto \in [Partition -> 0 .. LogLen], Poll(upto) PROVE FloorInv'
  BY <1>1, <1>2, <1>3
  DEF Poll, FloorInv, LoopTypeOK, WmTypeOK, wmVars, groupVars, Tracked, NoPending, NotTracked
<1>4. ASSUME NEW r \in Record, NextRecord(r) PROVE FloorInv'
  BY <1>1, <1>2, <1>4
  DEF NextRecord, FloorInv, LoopTypeOK, wmVars, consumerVars, groupVars, Tracked
<1>5. CASE TrackRecord
  <2>1. cur \in Record /\ log[cur] \in Trace
    BY <1>1, <1>5 DEF TrackRecord, LoopTypeOK
  <2> QED
    BY <1>1, <1>2, <1>5, <2>1
    DEF TrackRecord, Track, FloorInv, LoopTypeOK, WmTypeOK, consumerVars, groupVars,
        Tracked, NotTracked
<1>6. ASSUME UNCHANGED <<wm, consumerVars, todo>>, cpc # "commit",
             cpc' \notin {"track", "commit"}, cpc' = "poll" => todo = {}
      PROVE  FloorInv'
  BY <1>6 DEF FloorInv, consumerVars, groupVars, Tracked
<1>7. CASE GatherCommits
  <2>1. UNCHANGED <<wm, brokerOffset, pos, pending, moved, todo>> /\ todo = {}
        /\ cpc' \in {"poll", "commit"}
        /\ \A p \in Partition : commits'[p] # NoCommit => cpc' = "commit"
    BY <1>7 DEF GatherCommits, PollDone, wmVars, groupVars
  <2>2. ASSUME NEW p \in Partition, commits'[p] # NoCommit
        PROVE  /\ p \notin moved => brokerOffset[p] <= commits'[p] + 1
               /\ commits'[p] + 1 <= pos[p]
               /\ \A t \in Trace : Tracked(p, t) => commits'[p] + 1 <= wm[p][t]
    <3>1. ToCommit(p, commits'[p])
      BY <1>7, Zenon DEF GatherCommits
    <3>2. pending[p] # NoPending /\ pending[p] \in Offset /\ pending[p] = pos[p] - 1
      BY <1>1, <2>2, <3>1 DEF ToCommit, LoopTypeOK, FloorInv
    <3>3. CASE ~HasFloor(p)
      BY <1>1, <2>2, <3>1, <3>2, <3>3
      DEF ToCommit, HasFloor, IsFloor, Due, CommitOffset, FloorInv, LoopTypeOK
    <3>4. CASE HasFloor(p)
      <4>1. PICK floor \in Offset :
              /\ IsFloor(p, floor)
              /\ commits'[p] = Due(p, CommitOffset(pending[p], TRUE, floor - 1))
        BY <3>1, <3>2, <3>4 DEF ToCommit
      <4>2. commits'[p] = CommitOffset(pending[p], TRUE, floor - 1)
        BY <2>2, <4>1 DEF Due
      <4>3. floor < pos[p] /\ (p \notin moved => brokerOffset[p] <= floor)
        BY <4>1 DEF IsFloor, FloorInv
      <4>4. commits'[p] = floor - 1
        BY <1>1, <3>2, <4>2, <4>3 DEF CommitOffset, LoopTypeOK
      <4>5. commits'[p] + 1 = floor
        BY <4>4
      <4>6. floor <= pos[p]
        BY <1>1, <4>3 DEF LoopTypeOK
      <4> QED
        BY <4>1, <4>3, <4>5, <4>6 DEF IsFloor
    <3> QED
      BY <3>3, <3>4
  <2> QED
    BY <2>1, <2>2 DEF FloorInv, Tracked
<1>8. CASE Commit
  <2>1. \A p \in Partition : brokerOffset'[p] \in {brokerOffset[p], After(brokerOffset)[p]}
    BY <1>8 DEF Commit
  <2>2. \A p \in Partition : p \notin moved =>
          /\ brokerOffset'[p] <= pos[p]
          /\ \A t \in Trace : Tracked(p, t) => brokerOffset'[p] <= wm[p][t]
    BY <1>1, <1>8, <2>1 DEF Commit, After, FloorInv
  <2> QED
    BY <1>8, <2>2 DEF Commit, FloorInv, wmVars, groupVars, Tracked, NoCommit
<1>9. ASSUME NEW p, NEW t, Resolve(p, t), UNCHANGED <<consumerVars, loopVars>>
      PROVE  FloorInv'
  <2>1. \A q \in Partition, u \in Trace :
          wm'[q][u] # NotTracked => wm'[q][u] = wm[q][u]
    BY <1>1, <1>9 DEF Resolve, WmTypeOK
  <2> QED
    BY <1>9, <2>1 DEF FloorInv, consumerVars, groupVars, loopVars, Tracked
<1>10. CASE Crash
  BY <1>1, <1>10 DEF Crash, Restart, FloorInv, LoopTypeOK, Tracked, NoPending
<1>11. CASE UNCHANGED <<wm, consumerVars, loopVars>>
  BY <1>11 DEF FloorInv, consumerVars, groupVars, loopVars, Tracked
<1>12. ASSUME NEW w \in Worker, JobStep(w) PROVE FloorInv'
  BY <1>9, <1>11, <1>12
  DEF JobStep, EmitOk, EmitError, RecordVerdict, FinishLookup, FinishResolve, wmVars
<1>13. CASE ConsumerStep
  BY <1>3, <1>4, <1>5, <1>6, <1>7, <1>8, <1>13
  DEF ConsumerStep, AdmitRecord, Evict, EarlyExit, SkipCommit, PollDone, wmVars
<1>14. CASE GroupStep
  <2>1. UNCHANGED <<wm, pos, pending, commits, loopVars>>
    BY <1>14, GroupKeeps DEF wmVars
  <2>2. \A p \in Partition : p \notin moved' => p \notin moved /\ brokerOffset'[p] = brokerOffset[p]
    BY <1>1, <1>14, GroupMoves
  <2>3. (\A r \in todo : r[1] \in Partition) /\ (cpc = "track" => cur[1] \in Partition)
    BY <1>1, <1>2 DEF LoopTypeOK
  <2> QED
    BY <2>1, <2>2, <2>3 DEF FloorInv, loopVars, Tracked
<1> QED
  BY <1>9, <1>10, <1>11, <1>12, <1>13, <1>14
  DEF Next, vars, SweeperStep, WatchdogStep, PopReady, SweepNext, WatchdogScan,
      WatchdogCheck, WatchdogResolve, WatchdogForget, Age, GrowOld, wmVars

LEMMA FloorInvariant == Spec => [](TypeOK /\ FloorInv)
  BY TypeCorrect, InitFloor, NextFloor, PTL DEF Spec

\* No commit passes the first offset of a trace the watermark still tracks,
\* for any log, any interleaving, any number of failures, crashes and
\* rebalances.
THEOREM FloorIsRespected == Spec => []FloorRespected
<1>1. TypeOK /\ FloorInv => FloorRespected
  <2> SUFFICES ASSUME TypeOK, FloorInv, NEW p \in Partition, NEW t \in Trace, Tracked(p, t)
               PROVE  commits[p] < wm[p][t] /\ (p \notin moved => brokerOffset[p] <= wm[p][t])
    BY DEF FloorRespected
  <2>1. wm[p][t] \in Nat /\ commits[p] \in Int
    BY LogAssumption DEF TypeOK, WmTypeOK, LoopTypeOK, Tracked, Offset, NoCommit
  <2> QED
    BY <2>1 DEF FloorInv, NoCommit
<1> QED
  BY FloorInvariant, <1>1, PTL

\* The group's committed offsets never move back on a partition on which no
\* rebalance has let another worker commit.
THEOREM CommitsAdvance == Spec => OffsetsAdvance
<1>1. TypeOK /\ FloorInv /\ [Next]_vars =>
        [\A p \in Partition \ moved : brokerOffset[p] <= brokerOffset'[p]]_vars
  <2> SUFFICES ASSUME TypeOK, FloorInv, Next, NEW p \in Partition \ moved
               PROVE  brokerOffset[p] <= brokerOffset'[p]
    OBVIOUS
  <2>1. brokerOffset[p] \in Int
    BY LogAssumption DEF TypeOK, LoopTypeOK
  <2>2. CASE Commit
    BY <2>1, <2>2 DEF Commit, After, FloorInv
  <2>3. CASE UNCHANGED brokerOffset
    BY <2>1, <2>3
  <2>4. CASE GroupStep
    BY <2>1, <2>4, GroupMoves DEF TypeOK
  <2> QED
    BY <2>2, <2>3, <2>4
    DEF Next, ConsumerStep, JobStep, SweeperStep, WatchdogStep, Poll, NextRecord,
        TrackRecord, AdmitRecord, Evict, EarlyExit, SkipCommit, GatherCommits,
        EmitOk, EmitError, RecordVerdict, FinishLookup, FinishResolve, PopReady,
        SweepNext, WatchdogScan, WatchdogCheck, WatchdogResolve, WatchdogForget,
        Age, Crash, Restart, consumerVars
<1> QED
  BY FloorInvariant, <1>1, PTL DEF Spec, OffsetsAdvance
-----------------------------------------------------------------------------
(* One holder for each record.                                             *)

\* The records of a partition are ingested in the order of their offsets, so
\* an entry of the watermark lies before everything still to come.
OffsetsInOrder ==
  /\ cpc \in {"track", "admit"} =>
       /\ cur[2] < pos[cur[1]]
       /\ \A q \in todo : q[1] = cur[1] => cur[2] < q[2]
  /\ \A p \in Partition, t \in Trace : Tracked(p, t) =>
       /\ \A q \in todo : q[1] = p => wm[p][t] < q[2]
       /\ cpc \in {"track", "admit"} /\ cur[1] = p => wm[p][t] <= cur[2]

\* The consumer admits a record with no decision of its own in progress, and an
\* idle worker holds nothing.
WorkersIdle ==
  /\ cpc \in {"track", "admit", "evict"} => Free("consumer")
  /\ \A w \in Worker : Free(w) => job[w] = NoJob

\* Whoever holds a record got it from this process's Ingest.
HeldAreIngested ==
  /\ \A t \in Trace : \A r \in inflight[t].recs \cup ready[t].recs : log[r] = t /\ Ingested(r)
  /\ \A w \in Worker : \A r \in job[w].recs : Ingested(r)

HolderInv == OffsetsInOrder /\ WorkersIdle /\ HeldAreIngested /\ SingleHolder

LEMMA SettledStays ==
  ASSUME HistoryTypeOK, [Next]_vars
  PROVE  /\ log' = log
         /\ reopened \subseteq reopened'
         /\ \A r \in Record : Settled(r) => Settled(r)'
<1> SUFFICES /\ log' = log
             /\ reopened \subseteq reopened'
             /\ stored \subseteq stored' /\ dropped \subseteq dropped' /\ gaveUp \subseteq gaveUp'
  BY DEF Settled
<1>1. CASE AdmitRecord
  BY <1>1 DEF AdmitRecord
<1>2. CASE Evict
  BY <1>2 DEF Evict
<1>3. ASSUME NEW w \in Worker, EmitOk(w) \/ EmitError(w)
      PROVE  /\ log' = log /\ reopened' = reopened /\ gaveUp' = gaveUp
             /\ stored \subseteq stored' /\ dropped \subseteq dropped'
  BY <1>3 DEF EmitOk, EmitError
<1>4. CASE WatchdogResolve
  BY <1>4 DEF WatchdogResolve
<1>5. CASE UNCHANGED <<log, stored, ghostVars>>
  BY <1>5 DEF ghostVars
<1>6. CASE GroupStep
  BY <1>6, GroupKeeps DEF GroupStep, Revoke, OtherCommits, ghostVars
<1> QED
  BY <1>1, <1>2, <1>3, <1>4, <1>5, <1>6
  DEF Next, vars, ConsumerStep, JobStep, SweeperStep, WatchdogStep, Poll, NextRecord,
      TrackRecord, EarlyExit, SkipCommit, GatherCommits, Commit, RecordVerdict,
      FinishLookup, FinishResolve, PopReady, SweepNext, WatchdogScan, WatchdogCheck,
      WatchdogForget, Age, Crash, Restart

LEMMA InitOrder == Init => OffsetsInOrder
  BY DEF Init, OffsetsInOrder, WmInit, Tracked

LEMMA NextOrder == TypeOK /\ FloorInv /\ OffsetsInOrder /\ [Next]_vars => OffsetsInOrder'
<1> SUFFICES ASSUME TypeOK, FloorInv, OffsetsInOrder, [Next]_vars PROVE OffsetsInOrder'
  OBVIOUS
<1>1. WmTypeOK /\ LoopTypeOK
  BY DEF TypeOK
<1>2. \A r \in Record : r[1] \in Partition /\ r[2] \in Offset /\ r = <<r[1], r[2]>>
  BY DEF Record
<1> USE LogAssumption DEF Offset
<1>3. ASSUME NEW upto \in [Partition -> 0 .. LogLen], Poll(upto) PROVE OffsetsInOrder'
  BY <1>1, <1>2, <1>3
  DEF Poll, FloorInv, OffsetsInOrder, LoopTypeOK, WmTypeOK, wmVars, Tracked, NotTracked
<1>4. ASSUME NEW r \in Record, NextRecord(r) PROVE OffsetsInOrder'
  <2>1. CASE log[r] = Malformed
    BY <1>1, <1>4, <2>1 DEF NextRecord, OffsetsInOrder, wmVars, consumerVars, Tracked
  <2>2. CASE log[r] # Malformed
    <3>1. cur' = r /\ cpc' = "track" /\ todo' = todo \ {r} /\ r \in todo
          /\ UNCHANGED <<wm, pos>>
      BY <1>4, <2>2 DEF NextRecord, wmVars, consumerVars
    <3>2. r[2] < pos[r[1]]
      BY <3>1 DEF FloorInv
    <3>3. ASSUME NEW q \in todo', q[1] = r[1] PROVE r[2] < q[2]
      <4>1. q \in Record /\ r[2] <= q[2] /\ q # r
        BY <1>1, <1>4, <3>1, <3>3 DEF NextRecord, LoopTypeOK
      <4> QED
        BY <1>2, <3>3, <4>1
    <3>4. \A p \in Partition, t \in Trace : Tracked(p, t) /\ r[1] = p => wm[p][t] < r[2]
      BY <3>1 DEF OffsetsInOrder
    <3> QED
      BY <1>1, <1>2, <3>1, <3>2, <3>3, <3>4
      DEF OffsetsInOrder, Tracked, WmTypeOK, NotTracked
  <2> QED
    BY <2>1, <2>2
<1>5. CASE TrackRecord
  <2>1. cur \in Record /\ log[cur] \in Trace
    BY <1>1, <1>5 DEF TrackRecord, LoopTypeOK
  <2>2. cur[1] \in Partition /\ cur[2] \in Offset
    BY <1>2, <2>1
  <2>3. \A p \in Partition, t \in Trace :
          wm'[p][t] = IF p = cur[1] /\ t = log[cur] /\ ~Tracked(p, t) THEN cur[2] ELSE wm[p][t]
    BY <1>1, <1>5, <2>1, <2>2 DEF TrackRecord, Track, WmTypeOK, Tracked
  <2>4. UNCHANGED <<todo, cur, pos>> /\ cpc = "track" /\ cpc' = "admit"
    BY <1>5 DEF TrackRecord, consumerVars
  <2> QED
    BY <1>1, <1>2, <2>1, <2>2, <2>3, <2>4 DEF OffsetsInOrder, Tracked, NotTracked, WmTypeOK
<1>6. ASSUME UNCHANGED <<wm, todo>>, cpc' \notin {"track", "admit"} PROVE OffsetsInOrder'
  BY <1>6 DEF OffsetsInOrder, Tracked
<1>7. ASSUME NEW p, NEW t, Resolve(p, t), UNCHANGED <<consumerVars, loopVars>>
      PROVE  OffsetsInOrder'
  <2>1. \A q \in Partition, u \in Trace :
          wm'[q][u] # NotTracked => wm'[q][u] = wm[q][u]
    BY <1>1, <1>7 DEF Resolve, WmTypeOK
  <2> QED
    BY <1>7, <2>1 DEF OffsetsInOrder, consumerVars, loopVars, Tracked
<1>8. CASE Crash
  BY <1>1, <1>8 DEF Crash, Restart, OffsetsInOrder, Tracked
<1>9. CASE UNCHANGED <<wm, pos, loopVars>>
  BY <1>9 DEF OffsetsInOrder, loopVars, Tracked
<1>10. ASSUME NEW w \in Worker, JobStep(w) PROVE OffsetsInOrder'
  BY <1>7, <1>9, <1>10
  DEF JobStep, EmitOk, EmitError, RecordVerdict, FinishLookup, FinishResolve, wmVars,
      consumerVars
<1>11. CASE AdmitRecord \/ Evict \/ EarlyExit
  BY <1>6, <1>11 DEF AdmitRecord, Evict, EarlyExit, wmVars
<1>12. CASE SkipCommit \/ GatherCommits \/ Commit
  BY <1>6, <1>12 DEF SkipCommit, GatherCommits, Commit, wmVars
<1> QED
  BY <1>3, <1>4, <1>5, <1>7, <1>8, <1>9, <1>10, <1>11, <1>12, GroupKeeps
  DEF Next, vars, ConsumerStep, SweeperStep, WatchdogStep, PopReady, SweepNext, WatchdogScan,
      WatchdogCheck, WatchdogResolve, WatchdogForget, Age, GrowOld, wmVars, consumerVars

\* While the process lives a record once ingested stays ingested, and only
\* Buffer.Ingest adds one.
LEMMA IngestedStep ==
  ASSUME TypeOK, FloorInv, OffsetsInOrder, [Next]_vars, ~Crash, NEW r \in Record
  PROVE  /\ Ingested(r) => Ingested(r)'
         /\ Ingested(r)' => Ingested(r) \/ log[r] = Malformed \/ (AdmitRecord /\ r = cur)
         /\ AdmitRecord /\ r = cur => Ingested(r)' /\ ~Ingested(r)
<1>1. LoopTypeOK /\ r[1] \in Partition /\ r[2] \in Nat
  BY LogAssumption DEF TypeOK, Record, Offset
<1> USE DEF Ingested
<1>2. ASSUME NEW upto \in [Partition -> 0 .. LogLen], Poll(upto)
      PROVE  Ingested(r)' <=> Ingested(r)
  BY <1>1, <1>2 DEF Poll, FloorInv, LoopTypeOK
<1>3. ASSUME NEW q \in Record, NextRecord(q)
      PROVE  /\ Ingested(r) => Ingested(r)'
             /\ Ingested(r)' => Ingested(r) \/ log[r] = Malformed
  BY <1>1, <1>3 DEF NextRecord, consumerVars
<1>4. CASE TrackRecord
  BY <1>4 DEF TrackRecord, AdmitRecord, consumerVars
<1>5. CASE AdmitRecord
  <2>1. cur \in Record /\ cur[2] < pos[cur[1]] /\ cpc = "admit" /\ cur[2] \in Nat
    BY <1>1, <1>5, LogAssumption DEF AdmitRecord, OffsetsInOrder, LoopTypeOK, Record, Offset
  <2>3. cur \notin todo
    BY <2>1 DEF OffsetsInOrder
  <2>2. UNCHANGED <<pos, todo>> /\ cpc' \in {"next", "evict", "early"}
    BY <1>5 DEF AdmitRecord, consumerVars
  <2> QED
    BY <1>5, <2>1, <2>2, <2>3
<1>6. ASSUME UNCHANGED <<pos, todo>>, cpc \notin {"track", "admit"}, cpc' \notin {"track", "admit"}
      PROVE  Ingested(r)' <=> Ingested(r)
  BY <1>6
<1>7. ASSUME UNCHANGED <<pos, loopVars>> PROVE Ingested(r)' <=> Ingested(r)
  BY <1>7 DEF loopVars
<1>8. ASSUME Evict \/ EarlyExit \/ SkipCommit \/ GatherCommits \/ Commit
      PROVE  Ingested(r)' <=> Ingested(r)
  BY <1>6, <1>8 DEF Evict, EarlyExit, SkipCommit, GatherCommits, Commit, PollDone, consumerVars
<1>9. CASE ~AdmitRecord
  BY <1>2, <1>3, <1>4, <1>7, <1>8, <1>9, GroupKeeps
  DEF Next, vars, ConsumerStep, JobStep, SweeperStep, WatchdogStep, EmitOk, EmitError,
      RecordVerdict, FinishLookup, FinishResolve, PopReady, SweepNext, WatchdogScan,
      WatchdogCheck, WatchdogResolve, WatchdogForget, Age, consumerVars
<1> QED
  BY <1>5, <1>9

LEMMA InitHolder == Init => HolderInv
  BY InitOrder
  DEF HolderInv, Init, BufferInit, NoEntry, NoJob, WorkersIdle, HeldAreIngested, SingleHolder, Worker, Free

\* A worker that takes up a job.
LEMMA JobStarts ==
  ASSUME job \in [Worker -> Job], NEW w \in Worker,
         NEW kind, NEW t, NEW recs, NEW step, Start(w, kind, t, recs, step)
  PROVE  /\ job'[w].recs = recs /\ job'[w].trace = t
         /\ job'[w].step = step /\ job'[w].kind = kind
         /\ \A u \in Worker : u # w => job'[u] = job[u]
  BY DEF Start, NoJob

\* A worker that goes on with its job: the next step, unless the job is done.
GoesTo(w, step) ==
  \/ EmitOk(w) /\ step = AfterEmit(job[w].kind)
  \/ EmitError(w) /\ step = AfterError(job[w].kind)
  \/ RecordVerdict(w) /\ step = AfterRecord(job[w].kind)
  \/ FinishLookup(w) /\ step \in {"resolve", AfterResolve(job[w].kind)}
  \/ FinishResolve(w) /\ step = AfterResolve(job[w].kind)

SameJob(w, step) ==
  /\ job'[w].step = step
  /\ job'[w].recs = job[w].recs
  /\ job'[w].trace = job[w].trace
  /\ job'[w].kind = job[w].kind

\* A job record that keeps the records, the trace and the kind of old.
Continues(j, old) ==
  /\ j.recs = old.recs /\ j.trace = old.trace /\ j.kind = old.kind
  /\ j = [step |-> j.step, kind |-> j.kind, trace |-> j.trace, recs |-> j.recs,
          verdict |-> j.verdict, part |-> j.part]

LEMMA GotoStep ==
  ASSUME job \in [Worker -> Job], NEW w \in Worker, NEW step, NEW j,
         Continues(j, job[w]),
         job' = [job EXCEPT ![w] = Goto(j, step)]
  PROVE  /\ IF step = "idle" THEN job'[w] = NoJob ELSE SameJob(w, step)
         /\ \A u \in Worker : u # w => job'[u] = job[u]
<1> USE DEF Continues
<1>1. job'[w] = Goto(j, step) /\ \A u \in Worker : u # w => job'[u] = job[u]
  OBVIOUS
<1>2. CASE step = "idle"
  BY <1>1, <1>2 DEF Goto
<1>3. CASE step # "idle"
  <2>1. job'[w] = [j EXCEPT !.step = step]
    BY <1>1, <1>3 DEF Goto
  <2>2. job'[w].step = step /\ job'[w].recs = j.recs /\ job'[w].trace = j.trace
        /\ job'[w].kind = j.kind
    BY <2>1
  <2> QED
    BY <1>1, <1>3, <2>2 DEF SameJob
<1> QED
  BY <1>2, <1>3

LEMMA JobGoes ==
  ASSUME job \in [Worker -> Job], NEW w \in Worker, JobStep(w)
  PROVE  /\ job[w].step # "idle"
         /\ \E step :
              /\ GoesTo(w, step)
              /\ IF step = "idle" THEN job'[w] = NoJob ELSE SameJob(w, step)
         /\ \A u \in Worker : u # w => job'[u] = job[u]
<1>1. job[w] \in Job
  OBVIOUS
<1>2. ASSUME NEW v PROVE Continues([job[w] EXCEPT !.verdict = v], job[w])
  BY <1>1 DEF Job, Continues
<1>3. ASSUME NEW q PROVE Continues([job[w] EXCEPT !.part = q], job[w])
  BY <1>1 DEF Job, Continues
<1>4. Continues(job[w], job[w])
  BY <1>1 DEF Job, Continues
<1>5. job[w].step # "idle"
  BY DEF JobStep, EmitOk, EmitError, RecordVerdict, FinishLookup, FinishResolve
<1>6. CASE EmitOk(w)
  <2>1. PICK v : job' = [job EXCEPT ![w] = Goto([job[w] EXCEPT !.verdict = v],
                                                AfterEmit(job[w].kind))]
    BY <1>6 DEF EmitOk
  <2> QED
    BY <1>2, <1>5, <1>6, <2>1, GotoStep DEF GoesTo
<1>7. CASE EmitError(w)
  <2>1. job' = [job EXCEPT ![w] = Goto([job[w] EXCEPT !.verdict = "sample"],
                                       AfterError(job[w].kind))]
    BY <1>7 DEF EmitError
  <2> QED
    BY <1>2, <1>5, <1>7, <2>1, GotoStep DEF GoesTo
<1>8. CASE RecordVerdict(w)
  <2>1. job' = [job EXCEPT ![w] = Goto(job[w], AfterRecord(job[w].kind))]
    BY <1>8 DEF RecordVerdict
  <2> QED
    BY <1>4, <1>5, <1>8, <2>1, GotoStep DEF GoesTo
<1>9. CASE FinishLookup(w)
  <2>1. PICK q, step : /\ step \in {"resolve", AfterResolve(job[w].kind)}
                       /\ job' = [job EXCEPT ![w] = Goto([job[w] EXCEPT !.part = q], step)]
    BY <1>9 DEF FinishLookup
  <2> QED
    BY <1>3, <1>5, <1>9, <2>1, GotoStep DEF GoesTo
<1>10. CASE FinishResolve(w)
  <2>1. job' = [job EXCEPT ![w] = Goto(job[w], AfterResolve(job[w].kind))]
    BY <1>10 DEF FinishResolve
  <2> QED
    BY <1>4, <1>5, <1>10, <2>1, GotoStep DEF GoesTo
<1> QED
  BY <1>6, <1>7, <1>8, <1>9, <1>10 DEF JobStep

LEMMA NextIdle == TypeOK /\ WorkersIdle /\ [Next]_vars => WorkersIdle'
<1> SUFFICES ASSUME TypeOK, WorkersIdle, [Next]_vars PROVE WorkersIdle'
  OBVIOUS
<1>1. job \in [Worker -> Job]
  BY DEF TypeOK, JobTypeOK
<1>2. "consumer" \in Worker /\ "sweeper" \in Worker /\ "consumer" # "sweeper"
  BY DEF Worker
<1> USE DEF WorkersIdle, Free
<1>3. ASSUME NEW w \in Worker, NEW kind, NEW t, NEW recs, NEW step \in {"emit", "lookup"},
             Start(w, kind, t, recs, step)
      PROVE  job'[w].step # "idle" /\ \A u \in Worker : u # w => job'[u] = job[u]
  BY <1>1, <1>3, JobStarts
<1>4. CASE AdmitRecord
  <2>1. CASE UNCHANGED job
    BY <1>1, <1>4, <2>1 DEF AdmitRecord
  <2>2. ASSUME NEW step \in {"emit", "lookup"}, cpc' = "next",
               Start("consumer", "late", log[cur], {cur}, step)
        PROVE  WorkersIdle'
    BY <1>2, <1>3, <2>2
  <2> QED
    BY <1>4, <2>1, <2>2 DEF AdmitRecord
<1>5. CASE Evict
  BY <1>1, <1>2, <1>3, <1>5 DEF Evict
<1>6. CASE EarlyExit
  BY <1>1, <1>2, <1>3, <1>6 DEF EarlyExit
<1>7. ASSUME NEW t \in Trace, SweepNext(t) PROVE WorkersIdle'
  <2>1. job'["sweeper"].step # "idle" /\ job'["consumer"] = job["consumer"]
    BY <1>2, <1>3, <1>7 DEF SweepNext
  <2> QED
    BY <1>7, <2>1 DEF SweepNext, loopVars, Worker
<1>8. ASSUME NEW w \in Worker, JobStep(w) PROVE WorkersIdle'
  <2>1. job[w].step # "idle" /\ UNCHANGED cpc
    BY <1>8 DEF JobStep, EmitOk, EmitError, RecordVerdict, FinishLookup, FinishResolve, loopVars
  <2>2. job'[w] = NoJob \/ job'[w].step # "idle"
    BY <1>1, <1>8, JobGoes DEF SameJob
  <2>3. \A u \in Worker : u # w => job'[u] = job[u]
    BY <1>1, <1>8, JobGoes
  <2> QED
    BY <1>2, <2>1, <2>2, <2>3
<1>9. ASSUME NEW r \in Record, NextRecord(r) PROVE WorkersIdle'
  BY <1>9 DEF NextRecord
<1>10. ASSUME UNCHANGED job, cpc' \in {"track", "admit", "evict"} => cpc \in {"track", "admit", "evict"}
       PROVE  WorkersIdle'
  BY <1>10
<1>11. CASE Crash
  BY <1>11 DEF Crash, Restart, NoJob
<1> QED
  BY <1>4, <1>5, <1>6, <1>7, <1>8, <1>9, <1>10, <1>11, GroupKeeps
  DEF Next, vars, ConsumerStep, SweeperStep, WatchdogStep, Poll, TrackRecord, SkipCommit,
      GatherCommits, Commit, PopReady, WatchdogScan, WatchdogCheck, WatchdogResolve,
      WatchdogForget, Age, loopVars

LEMMA RemoveLeaves ==
  ASSUME BufferTypeOK, NEW S, NEW freed, Remove(S, freed)
  PROVE  /\ \A t \in Trace : inflight'[t].recs = IF t \in S THEN {} ELSE inflight[t].recs
         /\ UNCHANGED <<decided, decidedOrder, clock>>
  BY DEF Remove, NoEntry, BufferTypeOK

LEMMA AdmitAdds ==
  ASSUME BufferTypeOK, NEW t \in Trace, NEW r \in Record, Admit(t, r)
  PROVE  /\ \A u \in Trace :
              inflight'[u].recs = IF u = t THEN inflight[t].recs \cup {r} ELSE inflight[u].recs
         /\ UNCHANGED <<decided, decidedOrder>>
  BY DEF Admit, BufferTypeOK

LEMMA NextHeld ==
  ASSUME TypeOK, FloorInv, HolderInv, [Next]_vars
  PROVE  HeldAreIngested' /\ SingleHolder'
<1>1. BufferTypeOK /\ LoopTypeOK /\ HistoryTypeOK /\ job \in [Worker -> Job]
      /\ ready \in [Trace -> Entry]
  BY DEF TypeOK, JobTypeOK
<1>2. OffsetsInOrder /\ WorkersIdle /\ HeldAreIngested /\ SingleHolder
  BY DEF HolderInv
<1>3. "consumer" \in Worker /\ "sweeper" \in Worker /\ "consumer" # "sweeper"
      /\ \A w \in Worker : w = "consumer" \/ w = "sweeper"
  BY DEF Worker
<1>4. log' = log
  BY <1>1, SettledStays
<1>5. \A w \in Worker : Free(w) => job[w].recs = {} /\ job[w].trace = NoTrace
  BY <1>2 DEF WorkersIdle, NoJob
<1>6. /\ \A t \in Trace : inflight[t].recs \subseteq Record /\ ready[t].recs \subseteq Record
      /\ \A w \in Worker : job[w].recs \subseteq Record
  BY <1>1 DEF BufferTypeOK, Entry, Job
<1>7. CASE Crash
  BY <1>7 DEF Crash, Restart, HeldAreIngested, SingleHolder, NoEntry, NoJob, Worker
<1>8. CASE AdmitRecord
  <2> DEFINE t == log[cur]
  <2>1. cur \in Record /\ t \in Trace
    BY <1>1, <1>8 DEF AdmitRecord, LoopTypeOK
  <2>2. ~Crash
    BY <1>8 DEF AdmitRecord, Crash, Restart
  <2>3. (\A r \in Record : Ingested(r) => Ingested(r)') /\ ~Ingested(cur)
    BY <1>2, <1>8, <2>1, <2>2, IngestedStep
  <2>4. \A r \in Record : r = cur => Ingested(r)'
    BY <1>2, <1>8, <2>2, IngestedStep
  <2>5. PICK c \in Record : c = cur
    BY <2>1
  <2>6. /\ \A u \in Trace : c \notin inflight[u].recs /\ c \notin ready[u].recs
        /\ \A w \in Worker : c \notin job[w].recs
    BY <1>2, <2>3, <2>5 DEF HeldAreIngested
  <2>7. job["consumer"].recs = {}
    BY <1>2, <1>3, <1>5, <1>8 DEF AdmitRecord, WorkersIdle
  <2>8. ready' = ready
    BY <1>8 DEF AdmitRecord
  <2>9. CASE Admit(t, cur) /\ UNCHANGED job
    <3>1. \A u \in Trace : inflight'[u].recs =
            IF u = t THEN inflight[t].recs \cup {c} ELSE inflight[u].recs
      BY <1>1, <2>1, <2>5, <2>9, AdmitAdds
    <3>2. HeldAreIngested'
      BY <1>2, <1>4, <1>6, <2>3, <2>4, <2>5, <2>8, <2>9, <3>1 DEF HeldAreIngested
    <3>3. SingleHolder'
      BY <1>2, <1>3, <2>6, <2>8, <2>9, <3>1 DEF SingleHolder
    <3> QED
      BY <3>2, <3>3
  <2>10. ASSUME NEW step, Start("consumer", "late", t, {cur}, step), UNCHANGED bufferVars
         PROVE  HeldAreIngested' /\ SingleHolder'
    <3>1. job'["consumer"].recs = {c} /\ job'["sweeper"] = job["sweeper"]
      BY <1>1, <1>3, <2>5, <2>10, JobStarts
    <3>2. HeldAreIngested'
      BY <1>2, <1>3, <1>4, <1>6, <2>3, <2>4, <2>5, <2>8, <2>10, <3>1
      DEF HeldAreIngested, bufferVars
    <3>3. SingleHolder'
      BY <1>2, <1>3, <2>6, <2>8, <2>10, <3>1 DEF SingleHolder, bufferVars
    <3> QED
      BY <3>2, <3>3
  <2> QED
    BY <1>8, <2>9, <2>10 DEF AdmitRecord
<1>9. CASE ~Crash /\ ~AdmitRecord
  <2>1. \A r \in Record : Ingested(r) => Ingested(r)'
    BY <1>2, <1>9, IngestedStep
  <2>2. ASSUME NEW v \in Trace, NEW freed, NEW kind, Free("consumer"), Remove({v}, freed),
               Start("consumer", kind, v, inflight[v].recs, "emit"), UNCHANGED ready
        PROVE  HeldAreIngested' /\ SingleHolder'
    <3>1. job'["consumer"].recs = inflight[v].recs /\ job'["sweeper"] = job["sweeper"]
      BY <1>1, <1>3, <2>2, JobStarts
    <3>2. \A u \in Trace : inflight'[u].recs = IF u = v THEN {} ELSE inflight[u].recs
      BY <1>1, <2>2, RemoveLeaves
    <3>3. HeldAreIngested'
      BY <1>2, <1>3, <1>4, <1>6, <2>1, <2>2, <3>1, <3>2 DEF HeldAreIngested
    <3>4. \A u \in Trace : u # v => inflight[u].recs \cap inflight[v].recs = {}
                                    /\ ready[u].recs \cap inflight[v].recs = {}
      BY <1>2 DEF HeldAreIngested
    <3>5. SingleHolder'
      BY <1>2, <1>3, <2>2, <3>1, <3>2, <3>4 DEF SingleHolder
    <3> QED
      BY <3>3, <3>5
  <2>3. ASSUME \A u \in Trace : inflight'[u].recs \subseteq inflight[u].recs, UNCHANGED ready,
               \A w \in Worker : job'[w].recs \subseteq job[w].recs
        PROVE  HeldAreIngested' /\ SingleHolder'
    <3>1. HeldAreIngested'
      BY <1>2, <1>4, <1>6, <2>1, <2>3 DEF HeldAreIngested
    <3>2. SingleHolder'
      BY <1>2, <1>3, <2>3 DEF SingleHolder
    <3> QED
      BY <3>1, <3>2
  <2>4. CASE Evict
    <3>1. CASE UNCHANGED <<inflight, job, ready>>
      BY <2>3, <3>1
    <3>2. CASE victim \in Inflight /\ Remove({victim}, inflight[victim].bytes) /\ UNCHANGED <<job, ready>>
      <4>1. \A u \in Trace : inflight'[u].recs \subseteq inflight[u].recs
        BY <1>1, <3>2, RemoveLeaves
      <4> QED
        BY <2>3, <3>2, <4>1
    <3>3. Free("consumer") /\ UNCHANGED ready
      BY <1>2, <2>4 DEF Evict, WorkersIdle
    <3> QED
      BY <2>2, <2>4, <3>1, <3>2, <3>3 DEF Evict, Inflight, bufferVars
  <2>5. CASE EarlyExit
    BY <2>2, <2>3, <2>5 DEF EarlyExit, Inflight, bufferVars
  <2>6. CASE PopReady
    <3>1. PICK S \in SUBSET Trace :
             /\ ready' = [t \in Trace |-> IF t \in S THEN inflight[t] ELSE NoEntry]
             /\ Remove(S, MapThenSumSet(LAMBDA t : inflight[t].bytes, S))
      BY <2>6 DEF PopReady
    <3>2. UNCHANGED job /\ job["sweeper"].recs = {} /\ \A t \in Trace : ready[t].recs = {}
      BY <1>3, <1>5, <2>6 DEF PopReady, Waiting
    <3>3. /\ \A u \in Trace : inflight'[u].recs = IF u \in S THEN {} ELSE inflight[u].recs
          /\ \A u \in Trace : ready'[u].recs = IF u \in S THEN inflight[u].recs ELSE {}
      BY <1>1, <3>1, RemoveLeaves DEF NoEntry
    <3>4. HeldAreIngested'
      BY <1>2, <1>4, <1>6, <2>1, <3>2, <3>3 DEF HeldAreIngested
    <3>5. SingleHolder'
      BY <1>2, <1>3, <3>2, <3>3 DEF SingleHolder
    <3> QED
      BY <3>4, <3>5
  <2>7. ASSUME NEW t \in Trace, SweepNext(t) PROVE HeldAreIngested' /\ SingleHolder'
    <3>1. job'["sweeper"].recs = ready[t].recs /\ job'["consumer"] = job["consumer"]
          /\ UNCHANGED inflight
      BY <1>1, <1>3, <2>7, JobStarts DEF SweepNext, bufferVars
    <3>2. \A u \in Trace : ready'[u].recs = IF u = t THEN {} ELSE ready[u].recs
      BY <1>1, <2>7 DEF SweepNext, NoEntry
    <3>3. HeldAreIngested'
      BY <1>2, <1>3, <1>4, <1>6, <2>1, <3>1, <3>2 DEF HeldAreIngested
    <3>4. \A u \in Trace : u # t => ready[u].recs \cap ready[t].recs = {}
                                    /\ inflight[u].recs \cap ready[t].recs = {}
      BY <1>2 DEF HeldAreIngested
    <3>5. SingleHolder'
      BY <1>2, <1>3, <3>1, <3>2, <3>4 DEF SingleHolder
    <3> QED
      BY <3>3, <3>5
  <2>8. ASSUME NEW w \in Worker, JobStep(w) PROVE HeldAreIngested' /\ SingleHolder'
    <3>1. \A u \in Worker : job'[u].recs \subseteq job[u].recs
      BY <1>1, <2>8, JobGoes DEF SameJob, NoJob
    <3>2. UNCHANGED <<inflight, ready>>
      BY <2>8 DEF JobStep, EmitOk, EmitError, RecordVerdict, RecordDecision, FinishLookup,
                  FinishResolve, bufferVars
    <3> QED
      BY <2>3, <3>1, <3>2
  <2>9. CASE UNCHANGED <<inflight, ready, job>>
    BY <2>3, <2>9
  <2> QED
    BY <1>9, <2>4, <2>5, <2>6, <2>7, <2>8, <2>9, GroupKeeps
    DEF Next, vars, ConsumerStep, SweeperStep, WatchdogStep, Poll, NextRecord, TrackRecord,
        SkipCommit, GatherCommits, Commit, WatchdogScan, WatchdogCheck, WatchdogResolve,
        WatchdogForget, Age, bufferVars
<1> QED
  BY <1>7, <1>8, <1>9

LEMMA HolderInvariant == Spec => [](TypeOK /\ FloorInv /\ HolderInv)
<1>1. TypeOK /\ FloorInv /\ HolderInv /\ [Next]_vars => HolderInv'
  BY NextOrder, NextIdle, NextHeld DEF HolderInv
<1> QED
  BY FloorInvariant, InitHolder, <1>1, PTL DEF Spec

\* A span is in one place only -- the buffer, the sweeper's backlog or a
\* decision in progress -- so that no two of eviction, early exit and sweep
\* store it twice.
THEOREM EachRecordHeldOnce == Spec => []SingleHolder
<1>1. HolderInv => SingleHolder
  BY DEF HolderInv
<1> QED
  BY HolderInvariant, <1>1, PTL

-----------------------------------------------------------------------------
(* What is committed is settled.                                           *)

\* The unsettled records of a trace keep its watermark entry at or below them.
LimboTracked(t) ==
  \A r \in Limbo(t) : Tracked(r[1], t) /\ wm[r[1]][t] <= r[2]

\* Whoever is to decide a trace has all of its unsettled records, and whoever
\* is to release its entry finds none left.
LimboHeld(t) ==
  /\ inflight[t].recs # {} => Limbo(t) \subseteq inflight[t].recs
  /\ ready[t].recs # {} => Limbo(t) \subseteq ready[t].recs
  /\ \A w \in Worker : job[w].trace = t =>
       /\ job[w].step = "emit" => Limbo(t) \subseteq job[w].recs
       /\ job[w].step \in {"lookup", "resolve"} => Limbo(t) = {}
       /\ job[w].step = "record" /\ job[w].kind = "normal" => Limbo(t) = {}

\* While somebody is at work on a trace, or its decision is remembered, the
\* buffer has nothing of it.
NotInBuffer(t) ==
  \/ ready[t].recs # {}
  \/ \E w \in Worker : job[w].trace = t
  \/ dog.step = "resolve" /\ dog.trace = t
  \/ decided[t] # "none"

AssembledApart(t) == NotInBuffer(t) => inflight[t].recs = {}

\* All of this for the traces that were never assembled twice at a time.
SettleInv ==
  \A t \in Trace \ reopened : LimboTracked(t) /\ LimboHeld(t) /\ AssembledApart(t)

\* A commit of this process passes records it has ingested, and no unsettled
\* one of them, which would be tracked below the commit floor.
LEMMA CommitSettles ==
  ASSUME TypeOK, FloorInv, HolderInv, SettleInv, NEW r \in Record,
         commits[r[1]] # NoCommit, r[2] < commits[r[1]] + 1
  PROVE  Settled(r) \/ log[r] \in reopened
<1> USE LogAssumption DEF Offset
<1>1. LoopTypeOK /\ WmTypeOK /\ r[1] \in Partition /\ r[2] \in Nat
  BY DEF TypeOK, Record
<1>2. cpc = "commit" /\ todo = {} /\ commits[r[1]] + 1 <= pos[r[1]]
  BY <1>1 DEF FloorInv
<1>3. commits[r[1]] \in Int /\ pos[r[1]] \in Int
  BY <1>1 DEF LoopTypeOK, NoCommit
<1>4. Ingested(r)
  BY <1>1, <1>2, <1>3 DEF Ingested
<1>5. SUFFICES ASSUME ~Settled(r), log[r] \notin reopened PROVE FALSE
  OBVIOUS
<1> DEFINE t == log[r]
<1>6. t \in Trace
  BY <1>1, <1>5 DEF LoopTypeOK, Logs, Settled
<1>7. r \in Limbo(t)
  BY <1>4, <1>5 DEF Limbo
<1>8. Tracked(r[1], t) /\ wm[r[1]][t] <= r[2]
  BY <1>5, <1>6, <1>7 DEF SettleInv, LimboTracked
<1>9. commits[r[1]] + 1 <= wm[r[1]][t]
  BY <1>1, <1>6, <1>8 DEF FloorInv
<1>10. wm[r[1]][t] \in Int
  BY <1>1, <1>6 DEF WmTypeOK, NotTracked
<1> QED
  BY <1>1, <1>3, <1>8, <1>9, <1>10

\* What the group commits past is settled, whichever worker commits.
LEMMA NextCommitted ==
  ASSUME TypeOK, FloorInv, HolderInv, SettleInv, CommittedIsSettled, [Next]_vars
  PROVE  CommittedIsSettled'
<1>1. LoopTypeOK /\ HistoryTypeOK
  BY DEF TypeOK
<1>2. log' = log /\ reopened \subseteq reopened' /\ \A r \in Record : Settled(r) => Settled(r)'
  BY <1>1, SettledStays
<1>3. SUFFICES ASSUME NEW r \in Record, r[2] < brokerOffset'[r[1]]
               PROVE  Settled(r)' \/ log[r] \in reopened'
  BY <1>2 DEF CommittedIsSettled
<1>4. r[1] \in Partition /\ r[2] \in Nat
  BY LogAssumption DEF Record, Offset
<1>5. CASE brokerOffset'[r[1]] = brokerOffset[r[1]]
  BY <1>2, <1>3, <1>5 DEF CommittedIsSettled
<1>6. CASE Commit
  <2>1. brokerOffset'[r[1]] \in {brokerOffset[r[1]], After(brokerOffset)[r[1]]}
    BY <1>4, <1>6 DEF Commit
  <2>2. CASE brokerOffset'[r[1]] = commits[r[1]] + 1 /\ commits[r[1]] # NoCommit
    BY <1>2, <1>3, <2>2, CommitSettles
  <2> QED
    BY <1>4, <1>5, <2>1, <2>2 DEF After
<1>7. ASSUME NEW p \in Partition, NEW o \in 0 .. LogLen, OtherCommits(p, o)
      PROVE  Settled(r)' \/ log[r] \in reopened'
  <2>1. CASE r[1] # p
    BY <1>1, <1>4, <1>5, <1>7, <2>1 DEF OtherCommits, LoopTypeOK
  <2>2. CASE r[1] = p
    <3>1. r[2] < o
      BY <1>1, <1>3, <1>7, <2>2 DEF OtherCommits, LoopTypeOK
    <3>2. Settled(r) \/ r \in stored'
      BY <1>7, <2>2, <3>1 DEF OtherCommits
    <3> QED
      BY <1>2, <3>2 DEF Settled
  <2> QED
    BY <2>1, <2>2
<1>8. CASE UNCHANGED brokerOffset
  BY <1>5, <1>8
<1> QED
  BY <1>6, <1>7, <1>8
  DEF Next, vars, ConsumerStep, JobStep, SweeperStep, WatchdogStep, GroupStep, Poll,
      NextRecord, TrackRecord, AdmitRecord, Evict, EarlyExit, SkipCommit, GatherCommits,
      EmitOk, EmitError, RecordVerdict, FinishLookup, FinishResolve, PopReady, SweepNext,
      WatchdogScan, WatchdogCheck, WatchdogResolve, WatchdogForget, Age, Revoke, Crash,
      Restart, consumerVars

LEMMA LimboStep ==
  ASSUME TypeOK, FloorInv, HolderInv, [Next]_vars, ~Crash, NEW t \in Trace, NEW r \in Limbo(t)'
  PROVE  r \in Limbo(t) \/ (AdmitRecord /\ r = cur /\ log[cur] = t)
<1>1. log' = log /\ r \in Record /\ (Settled(r) => Settled(r)')
  BY SettledStays DEF TypeOK, Limbo
<1>2. log[r] = t /\ log[r] # Malformed /\ Ingested(r)' /\ ~Settled(r)
  BY <1>1, LogAssumption DEF Limbo
<1>3. Ingested(r) \/ (AdmitRecord /\ r = cur)
  BY <1>1, <1>2, IngestedStep DEF HolderInv
<1> QED
  BY <1>1, <1>2, <1>3 DEF Limbo

\* The record that Buffer.Ingest admits, when no earlier assembly of its trace
\* is unfinished.
LEMMA AdmitSettle ==
  ASSUME TypeOK, FloorInv, HolderInv, SettleInv, AdmitRecord, NEW t \in Trace, t \notin reopened'
  PROVE  LimboTracked(t)' /\ LimboHeld(t)' /\ AssembledApart(t)'
<1>1. BufferTypeOK /\ LoopTypeOK /\ WmTypeOK /\ HistoryTypeOK /\ job \in [Worker -> Job]
  BY DEF TypeOK, JobTypeOK
<1>2. "consumer" \in Worker /\ "sweeper" \in Worker /\ "consumer" # "sweeper"
      /\ \A w \in Worker : w = "consumer" \/ w = "sweeper"
  BY DEF Worker
<1>3. cur \in Record /\ log[cur] \in Trace /\ cpc = "admit" /\ cur[1] \in Partition
  BY <1>1 DEF AdmitRecord, LoopTypeOK, Record
<1>4. job["consumer"] = NoJob /\ job["consumer"].trace # t
  <2>1. job["consumer"] = NoJob
    BY <1>2, <1>3 DEF HolderInv, WorkersIdle
  <2>2. NoJob.trace = NoTrace /\ NoTrace # t
    BY AssemblerAssumption DEF NoJob
  <2> QED
    BY <2>1, <2>2
<1>5. t \notin reopened /\ (t = log[cur] => ~Adrift(t) /\ Tracked(cur[1], t))
  BY DEF AdmitRecord
<1>6. LimboTracked(t) /\ LimboHeld(t) /\ AssembledApart(t)
  BY <1>5 DEF SettleInv
<1>7. UNCHANGED <<wm, ready, dog>>
  BY DEF AdmitRecord, wmVars
<1>8. [Next]_vars /\ ~Crash
  <2>1. Next
    BY DEF Next, ConsumerStep
  <2>2. ~Crash
    BY DEF AdmitRecord, Crash, Restart
  <2> QED
    BY <2>1, <2>2
<1>9. \A r \in Limbo(t)' : r \in Limbo(t) \/ (r = cur /\ log[cur] = t)
  BY <1>8, LimboStep
<1>10. LimboTracked(t)'
  <2>1. t = log[cur] => wm[cur[1]][t] <= cur[2]
    BY <1>3, <1>5 DEF HolderInv, OffsetsInOrder
  <2> QED
    BY <1>5, <1>6, <1>7, <1>9, <2>1 DEF LimboTracked, Tracked
<1>11. CASE t # log[cur]
  <2>1. Limbo(t)' \subseteq Limbo(t)
    BY <1>9, <1>11
  <2>2. inflight'[t] = inflight[t] /\ decided' = decided
    BY <1>1, <1>3, <1>11 DEF AdmitRecord, Admit, bufferVars, BufferTypeOK
  <2>3. job'["sweeper"] = job["sweeper"] /\ job'["consumer"].trace # t
    BY <1>1, <1>2, <1>4, <1>11, JobStarts DEF AdmitRecord
  <2>4. LimboHeld(t)'
    BY <1>2, <1>6, <1>7, <2>1, <2>2, <2>3 DEF LimboHeld
  <2>5. AssembledApart(t)'
    BY <1>2, <1>6, <1>7, <2>2, <2>3 DEF AssembledApart, NotInBuffer
  <2> QED
    BY <1>10, <2>4, <2>5
<1>12. CASE t = log[cur]
  <2>1. ready'[t].recs = {} /\ job["sweeper"].trace # t /\ dog'.trace # t
        /\ Limbo(t) \subseteq inflight[t].recs
    BY <1>5, <1>7, <1>12 DEF Adrift
  <2>2. CASE decided[t] = "none" /\ Admit(t, cur) /\ UNCHANGED job
    <3>1. inflight'[t].recs = inflight[t].recs \cup {cur} /\ decided' = decided
      BY <1>1, <1>3, <2>2, AdmitAdds
    <3>2. LimboHeld(t)'
      BY <1>2, <1>4, <1>9, <2>1, <2>2, <3>1 DEF LimboHeld
    <3>3. AssembledApart(t)'
      BY <1>2, <1>4, <2>1, <2>2, <3>1 DEF AssembledApart, NotInBuffer
    <3> QED
      BY <1>10, <3>2, <3>3
  <2>3. ASSUME NEW step \in {"emit", "lookup"}, decided[t] # "none", UNCHANGED bufferVars,
               Start("consumer", "late", t, {cur}, step),
               step = "lookup" => dropped' = dropped \cup {cur}
        PROVE  LimboTracked(t)' /\ LimboHeld(t)' /\ AssembledApart(t)'
    <3>1. inflight[t].recs = {} /\ inflight'[t].recs = {}
      BY <1>6, <2>3 DEF AssembledApart, NotInBuffer, bufferVars
    <3>2. \A r \in Limbo(t)' : r = cur
      BY <1>9, <2>1, <3>1
    <3>3. /\ job'["consumer"].recs = {cur} /\ job'["consumer"].step = step
          /\ job'["sweeper"] = job["sweeper"]
      BY <1>1, <1>2, <2>3, JobStarts
    <3>4. step = "lookup" => Limbo(t)' = {}
      BY <2>3, <3>2 DEF Limbo, Settled
    <3>5. LimboHeld(t)'
      BY <1>2, <2>1, <2>3, <3>1, <3>2, <3>3, <3>4 DEF LimboHeld
    <3>6. AssembledApart(t)'
      BY <3>1 DEF AssembledApart
    <3> QED
      BY <1>10, <3>5, <3>6
  <2> QED
    BY <1>12, <2>2, <2>3 DEF AdmitRecord
<1> QED
  BY <1>11, <1>12

LEMMA NextSettle ==
  ASSUME TypeOK, FloorInv, HolderInv, SettleInv, CommittedIsSettled, [Next]_vars
  PROVE  SettleInv'
<1> SUFFICES ASSUME NEW t \in Trace, t \notin reopened'
             PROVE  LimboTracked(t)' /\ LimboHeld(t)' /\ AssembledApart(t)'
  BY DEF SettleInv
<1>1. BufferTypeOK /\ LoopTypeOK /\ WmTypeOK /\ HistoryTypeOK /\ JobTypeOK
      /\ job \in [Worker -> Job] /\ ready \in [Trace -> Entry]
  BY DEF TypeOK, JobTypeOK
<1>2. "consumer" \in Worker /\ "sweeper" \in Worker /\ "consumer" # "sweeper"
      /\ \A w \in Worker : w = "consumer" \/ w = "sweeper"
  BY DEF Worker
<1>3. t \notin reopened
  BY <1>1, SettledStays
<1>4. LimboTracked(t) /\ LimboHeld(t) /\ AssembledApart(t)
  BY <1>3 DEF SettleInv
<1>5. NoJob.trace # t /\ NoJob.recs = {} /\ NoJob.step = "idle"
  BY AssemblerAssumption DEF NoJob
<1>6. \A w \in Worker : Free(w) => job[w].trace # t
  BY <1>5 DEF HolderInv, WorkersIdle
<1>7. CASE Crash
  <2>1. Limbo(t)' = {}
    <3>1. \A r \in Record : Ingested(r)' => r[2] < brokerOffset[r[1]]
      BY <1>7 DEF Crash, Restart, Ingested
    <3>2. UNCHANGED <<log, stored, dropped, gaveUp>>
      BY <1>7 DEF Crash, Restart, ghostVars
    <3> QED
      BY <1>3, <3>1, <3>2 DEF Limbo, CommittedIsSettled, Settled
  <2>2. inflight'[t].recs = {} /\ ready'[t].recs = {} /\ \A w \in Worker : job'[w] = NoJob
    BY <1>7 DEF Crash, Restart, NoEntry
  <2> QED
    BY <1>5, <2>1, <2>2 DEF LimboTracked, LimboHeld, AssembledApart
<1>8. CASE AdmitRecord
  BY <1>8, AdmitSettle
<1>9. CASE ~Crash /\ ~AdmitRecord
  <2>1. Limbo(t)' \subseteq Limbo(t)
    BY <1>9, LimboStep
  \* The watermark entry of t stays, or nothing of t is unsettled any more.
  <2>2. ASSUME \/ \A p \in Partition : Tracked(p, t) => wm'[p][t] = wm[p][t]
               \/ Limbo(t)' = {}
        PROVE  LimboTracked(t)'
    <3>1. \A r \in Limbo(t) : r[1] \in Partition
      BY DEF Limbo, Record
    <3> QED
      BY <1>4, <2>1, <2>2, <3>1 DEF LimboTracked, Tracked
  <2>3. CASE UNCHANGED wm /\ ~WatchdogResolve /\ \A w \in Worker : ~JobStep(w)
    <3>1. LimboTracked(t)'
      BY <2>2, <2>3
    \* The buffer gives v to the consumer, or counts it as lost.
    <3>2. ASSUME NEW v \in Inflight, NEW freed, Remove({v}, freed), UNCHANGED <<ready, dog>>,
                 \/ UNCHANGED job
                 \/ /\ Free("consumer")
                    /\ \E kind : Start("consumer", kind, v, inflight[v].recs, "emit")
          PROVE  LimboHeld(t)' /\ AssembledApart(t)'
      <4>1. v \in Trace /\ inflight[v].recs # {}
        BY <3>2 DEF Inflight
      <4>2. /\ inflight'[t].recs = IF t = v THEN {} ELSE inflight[t].recs
            /\ UNCHANGED decided
        BY <1>1, <3>2, RemoveLeaves
      <4>3. CASE UNCHANGED job
        BY <1>4, <2>1, <3>2, <4>2, <4>3 DEF LimboHeld, AssembledApart, NotInBuffer
      <4>4. ASSUME Free("consumer"), NEW kind,
                   Start("consumer", kind, v, inflight[v].recs, "emit")
            PROVE  LimboHeld(t)' /\ AssembledApart(t)'
        <5>1. /\ job'["consumer"].recs = inflight[v].recs /\ job'["consumer"].trace = v
              /\ job'["consumer"].step = "emit"
              /\ job'["sweeper"] = job["sweeper"]
          BY <1>1, <1>2, <4>4, JobStarts
        <5>2. LimboHeld(t)'
          BY <1>2, <1>4, <2>1, <3>2, <4>1, <4>2, <5>1 DEF LimboHeld
        <5>3. AssembledApart(t)'
          BY <1>2, <1>4, <3>2, <4>2, <5>1 DEF AssembledApart, NotInBuffer
        <5> QED
          BY <5>2, <5>3
      <4> QED
        BY <3>2, <4>3, <4>4
    <3>3. CASE UNCHANGED <<inflight, decided, ready, job>>
               /\ (dog'.step = "resolve" /\ dog'.trace = t =>
                     (dog.step = "resolve" /\ dog.trace = t) \/ inflight[t].recs = {})
      BY <1>4, <2>1, <3>1, <3>3 DEF LimboHeld, AssembledApart, NotInBuffer
    <3>4. CASE Evict
      <4>1. Free("consumer")
        BY <3>4 DEF HolderInv, WorkersIdle, Evict
      <4>2. CASE UNCHANGED <<bufferVars, job>>
        BY <3>3, <3>4, <4>2 DEF Evict, bufferVars
      <4>3. CASE victim \in Inflight
        BY <3>1, <3>2, <3>4, <4>1, <4>3 DEF Evict
      <4> QED
        BY <3>4, <4>2, <4>3 DEF Evict
    <3>5. CASE EarlyExit
      <4>1. CASE UNCHANGED <<bufferVars, job>>
        BY <3>3, <3>5, <4>1 DEF EarlyExit, bufferVars
      <4>2. CASE log[cur] \in Inflight /\ Free("consumer")
                 /\ Remove({log[cur]}, inflight[log[cur]].bytes)
                 /\ Start("consumer", "normal", log[cur], inflight[log[cur]].recs, "emit")
        BY <3>1, <3>2, <3>5, <4>2 DEF EarlyExit
      <4> QED
        BY <3>5, <4>1, <4>2 DEF EarlyExit
    <3>6. CASE PopReady
      <4>1. PICK S \in SUBSET Trace :
               /\ ready' = [u \in Trace |-> IF u \in S THEN inflight[u] ELSE NoEntry]
               /\ Remove(S, MapThenSumSet(LAMBDA u : inflight[u].bytes, S))
        BY <3>6 DEF PopReady
      <4>2. UNCHANGED <<job, dog>> /\ ready[t].recs = {}
        BY <3>6 DEF PopReady, Waiting
      <4>3. /\ inflight'[t].recs = IF t \in S THEN {} ELSE inflight[t].recs
            /\ ready'[t].recs = IF t \in S THEN inflight[t].recs ELSE {}
            /\ UNCHANGED decided
        BY <1>1, <4>1, RemoveLeaves DEF NoEntry
      <4> QED
        BY <1>4, <2>1, <3>1, <4>2, <4>3 DEF LimboHeld, AssembledApart, NotInBuffer
    <3>7. ASSUME NEW u \in Trace, SweepNext(u) PROVE LimboHeld(t)' /\ AssembledApart(t)'
      <4>1. /\ job'["sweeper"].recs = ready[u].recs /\ job'["sweeper"].trace = u
            /\ job'["sweeper"].step = "emit"
            /\ job'["consumer"] = job["consumer"]
            /\ UNCHANGED <<inflight, decided, dog>>
        BY <1>1, <1>2, <3>7, JobStarts DEF SweepNext, bufferVars
      <4>2. ready'[t].recs = (IF t = u THEN {} ELSE ready[t].recs) /\ ready[u].recs # {}
        BY <1>1, <3>7 DEF SweepNext, NoEntry, OldestIn, Waiting
      <4>3. LimboHeld(t)'
        BY <1>2, <1>4, <2>1, <4>1, <4>2 DEF LimboHeld
      <4>4. AssembledApart(t)'
        BY <1>2, <1>4, <4>1, <4>2 DEF AssembledApart, NotInBuffer
      <4> QED
        BY <4>3, <4>4
    <3>8. ASSUME NEW e \in Partition \X Trace, WatchdogCheck(e)
          PROVE  LimboHeld(t)' /\ AssembledApart(t)'
      <4>1. dog'.step = "resolve" /\ dog'.trace = t => inflight[t].recs = {}
        BY <3>8 DEF WatchdogCheck, NoDog, Tracks, Inflight
      <4> QED
        BY <3>3, <3>8, <4>1 DEF WatchdogCheck, bufferVars
    <3>9. CASE WatchdogScan \/ WatchdogForget
      <4>1. dog'.step # "resolve"
        <5>1. dog \in Dog
          BY <1>1 DEF JobTypeOK
        <5>2. CASE WatchdogScan
          BY <5>1, <5>2 DEF WatchdogScan, Dog
        <5>3. CASE WatchdogForget
          BY <5>3 DEF WatchdogForget, NoDog
        <5> QED
          BY <3>9, <5>2, <5>3
      <4> QED
        BY <3>3, <3>9, <4>1 DEF WatchdogScan, WatchdogForget, bufferVars
    <3>10. CASE UNCHANGED <<inflight, decided, ready, job, dog>>
      BY <3>3, <3>10
    <3> QED
      BY <1>9, <2>3, <3>1, <3>4, <3>5, <3>6, <3>7, <3>8, <3>9, <3>10, GroupKeeps
      DEF Next, vars, ConsumerStep, SweeperStep, WatchdogStep, Poll, NextRecord, TrackRecord,
          SkipCommit, GatherCommits, Commit, Age, bufferVars
  <2>4. ASSUME NEW w \in Worker, JobStep(w)
        PROVE  LimboTracked(t)' /\ LimboHeld(t)' /\ AssembledApart(t)'
    <3>1. job[w].step # "idle" /\ job[w].kind \in {"normal", "forced", "late"}
          /\ \A u \in Worker : u # w => job'[u] = job[u]
      BY <1>1, <2>4, JobGoes DEF Job
    <3>2. PICK step : /\ GoesTo(w, step)
                      /\ IF step = "idle" THEN job'[w] = NoJob ELSE SameJob(w, step)
      BY <1>1, <2>4, JobGoes
    <3>3. CASE job[w].trace # t
      <4>1. UNCHANGED <<inflight, ready, dog>> /\ decided'[t] \in {decided[t], "none"}
        BY <1>1, <2>4, <3>3 DEF JobStep, EmitOk, EmitError, RecordVerdict, RecordDecision,
          FinishLookup, FinishResolve, bufferVars, BufferTypeOK
      <4>2. job'[w].trace # t
        BY <1>5, <3>2, <3>3 DEF SameJob
      <4>3. \A p \in Partition : wm'[p][t] = wm[p][t]
        BY <1>1, <2>4, <3>3 DEF JobStep, EmitOk, EmitError, RecordVerdict, FinishLookup,
          FinishResolve, Resolve, wmVars, WmTypeOK
      <4>4. LimboHeld(t)'
        BY <1>4, <2>1, <3>1, <4>1, <4>2 DEF LimboHeld
      <4>5. AssembledApart(t)'
        BY <1>4, <3>1, <4>1, <4>2 DEF AssembledApart, NotInBuffer
      <4> QED
        BY <2>2, <4>3, <4>4, <4>5
    <3>4. CASE job[w].trace = t
      <4>1. UNCHANGED <<inflight, ready>> /\ inflight[t].recs = {}
        BY <1>4, <2>4, <3>4 DEF JobStep, EmitOk, EmitError, RecordVerdict, RecordDecision,
          FinishLookup, FinishResolve, bufferVars, AssembledApart, NotInBuffer
      <4>2. EmitOk(w) => Limbo(t)' = {}
        <5>1. EmitOk(w) => job[w].recs \subseteq stored' \cup dropped'
          BY DEF EmitOk, Verdict
        <5>2. EmitOk(w) => Limbo(t) \subseteq job[w].recs
          BY <1>4, <3>4 DEF EmitOk, LimboHeld
        <5> QED
          BY <2>1, <5>1, <5>2 DEF Limbo, Settled
      <4>3. job[w].step \in {"lookup", "resolve"} => Limbo(t)' = {}
        BY <1>4, <2>1, <3>4 DEF LimboHeld
      <4>4. job[w].step = "record" /\ job[w].kind = "normal" => Limbo(t)' = {}
        BY <1>4, <2>1, <3>4 DEF LimboHeld
      <4>5. /\ job'[w].step # "emit"
            /\ job'[w].step \in {"lookup", "resolve"} => Limbo(t)' = {}
            /\ job'[w].step = "record" /\ job'[w].kind = "normal" => Limbo(t)' = {}
        <5>1. CASE step = "idle"
          BY <1>5, <3>2, <5>1
        <5>2. CASE step # "idle"
          <6>1. job'[w].step = step /\ job'[w].kind = job[w].kind
            BY <3>2, <5>2 DEF SameJob
          <6>2. CASE EmitOk(w) /\ step = AfterEmit(job[w].kind)
            BY <4>2, <6>1, <6>2 DEF AfterEmit
          <6>3. CASE EmitError(w) /\ step = AfterError(job[w].kind)
            BY <5>2, <6>1, <6>3 DEF AfterError
          <6>4. CASE RecordVerdict(w) /\ step = AfterRecord(job[w].kind)
            BY <4>4, <5>2, <6>1, <6>4 DEF AfterRecord, RecordVerdict
          <6>5. CASE FinishLookup(w) /\ step \in {"resolve", AfterResolve(job[w].kind)}
            BY <4>3, <5>2, <6>1, <6>5 DEF AfterResolve, FinishLookup
          <6>6. CASE FinishResolve(w) /\ step = AfterResolve(job[w].kind)
            BY <4>3, <5>2, <6>1, <6>6 DEF AfterResolve, FinishResolve
          <6> QED
            BY <3>2, <6>2, <6>3, <6>4, <6>5, <6>6 DEF GoesTo
        <5> QED
          BY <5>1, <5>2
      <4>6. LimboHeld(t)'
        BY <1>4, <2>1, <3>1, <4>1, <4>5 DEF LimboHeld
      <4>7. AssembledApart(t)'
        BY <4>1 DEF AssembledApart
      <4>8. CASE FinishResolve(w)
        BY <2>2, <4>3, <4>6, <4>7, <4>8 DEF FinishResolve
      <4>9. CASE UNCHANGED wm
        BY <2>2, <4>6, <4>7, <4>9
      <4> QED
        BY <2>4, <4>8, <4>9 DEF JobStep, EmitOk, EmitError, RecordVerdict, FinishLookup, wmVars
    <3> QED
      BY <3>3, <3>4
  \* The buffer holds nothing of a trace on which the watchdog gives up.
  <2>5. CASE WatchdogResolve
    <3>1. UNCHANGED <<inflight, decided, ready, job>> /\ dog'.step # "resolve"
      <4>1. dog \in Dog
        BY <1>1 DEF JobTypeOK
      <4> QED
        BY <2>5, <4>1 DEF WatchdogResolve, bufferVars, Dog
    <3>2. LimboHeld(t)' /\ AssembledApart(t)'
      BY <1>4, <2>1, <3>1 DEF LimboHeld, AssembledApart, NotInBuffer
    <3>3. CASE dog.trace = t
      <4>1. inflight[t].recs = {}
        BY <1>4, <2>5, <3>3 DEF WatchdogResolve, AssembledApart, NotInBuffer
      <4>2. Limbo(t) \subseteq gaveUp'
        BY <2>5, <3>3, <4>1 DEF WatchdogResolve
      <4>3. Limbo(t)' = {}
        BY <2>1, <4>2 DEF Limbo, Settled
      <4> QED
        BY <2>2, <3>2, <4>3
    <3>4. CASE dog.trace # t
      <4>1. \A p \in Partition : wm'[p][t] = wm[p][t]
        BY <1>1, <2>5, <3>4 DEF WatchdogResolve, Resolve, WmTypeOK
      <4> QED
        BY <2>2, <3>2, <4>1
    <3> QED
      BY <3>3, <3>4
  <2>6. CASE TrackRecord
    <3>1. \A p \in Partition : Tracked(p, t) => wm'[p][t] = wm[p][t]
      BY <1>1, <2>6 DEF TrackRecord, Track, Tracked, WmTypeOK
    <3>2. UNCHANGED <<inflight, decided, ready, job, dog>>
      BY <2>6 DEF TrackRecord, bufferVars
    <3> QED
      BY <1>4, <2>1, <2>2, <3>1, <3>2 DEF LimboHeld, AssembledApart, NotInBuffer
  <2> QED
    BY <1>9, <2>3, <2>4, <2>5, <2>6, GroupKeeps
    DEF Next, vars, ConsumerStep, SweeperStep, WatchdogStep, Poll, NextRecord, Evict,
        EarlyExit, SkipCommit, GatherCommits, Commit, PopReady, SweepNext, WatchdogScan,
        WatchdogCheck, WatchdogForget, Age, GrowOld, wmVars
<1> QED
  BY <1>7, <1>8, <1>9

\* At-least-once: a record the group has committed past is stored, was decided
\* drop or is counted as lost, unless a span of its trace was ingested while an
\* earlier assembly of the trace was unfinished -- for any interleaving of the
\* consumer, the sweeper and the watchdog, any failures, crashes and rebalances.
THEOREM AtLeastOnce == Spec => []CommittedIsSettled
<1>1. Init => SettleInv
  <2> SUFFICES ASSUME Init, NEW t \in Trace
               PROVE  LimboTracked(t) /\ LimboHeld(t) /\ AssembledApart(t)
    BY DEF SettleInv
  <2>1. Limbo(t) = {}
    BY LogAssumption DEF Init, Limbo, Ingested, Record, Offset
  <2>2. inflight[t].recs = {}
    BY DEF Init, BufferInit, NoEntry
  <2> QED
    BY <2>1, <2>2 DEF Init, LimboTracked, LimboHeld, AssembledApart, NoEntry, NoJob
<1>2. Init => CommittedIsSettled
  BY LogAssumption DEF Init, CommittedIsSettled, Record, Offset
<1>3. TypeOK /\ FloorInv /\ HolderInv /\ SettleInv /\ CommittedIsSettled /\ [Next]_vars
        => (SettleInv /\ CommittedIsSettled)'
  BY NextSettle, NextCommitted
<1> QED
  BY HolderInvariant, <1>1, <1>2, <1>3, PTL DEF Spec
-----------------------------------------------------------------------------
(* Sums over finite sets.                                                  *)

\* A set of naturals that has an element has a smallest one.
LEMMA HasSmallest ==
  ASSUME NEW S \in SUBSET Nat, S # {}
  PROVE  \E x \in S : \A y \in S : x <= y
<1>1. IsWellFoundedOn(OpToRel(<, Nat), Nat)
  BY NatLessThanWellFounded, Zenon
<1>2. PICK x \in S : \A y \in S : <<y, x>> \notin OpToRel(<, Nat)
  BY <1>1, WFMin, Zenon
<1>3. \A y \in S : ~(y < x)
  BY <1>2 DEF OpToRel
<1> QED
  BY <1>3

\* A property that holds at 0 and climbs holds as far as it climbs.
LEMMA Climb ==
  ASSUME NEW n \in Nat, NEW S, 0 \in S, \A i \in 0 .. n - 1 : i \in S => i + 1 \in S
  PROVE  \A i \in 0 .. n : i \in S
<1> DEFINE Missed == {i \in 0 .. n : i \notin S}
<1> SUFFICES ASSUME Missed # {} PROVE FALSE
  OBVIOUS
<1>1. PICK k \in Missed : \A y \in Missed : k <= y
  <2>1. Missed \in SUBSET Nat
    OBVIOUS
  <2> HIDE DEF Missed
  <2> QED
    BY <2>1, HasSmallest
<1>2. k \in 1 .. n
  BY <1>1
<1>3. k - 1 \in 0 .. n - 1 /\ k - 1 \notin Missed /\ (k - 1) + 1 = k
  BY <1>1, <1>2
<1>4. k - 1 \in S
  BY <1>3
<1> QED
  BY <1>1, <1>3, <1>4

\* Sizes of the subsets of a finite set, and of those with an element less.
LEMMA SubsetSizes ==
  ASSUME NEW S, IsFiniteSet(S), NEW s \in SUBSET S
  PROVE  /\ IsFiniteSet(s) /\ Cardinality(s) \in Nat
         /\ Cardinality(s) = 0 <=> s = {}
         /\ \A p \in s : s \ {p} \in SUBSET S /\ Cardinality(s \ {p}) = Cardinality(s) - 1
<1>1. IsFiniteSet(s)
  BY FS_Subset
<1>2. Cardinality(s) \in Nat
  BY <1>1, FS_CardinalityType
<1>3. Cardinality(s) = 0 <=> s = {}
  BY <1>1, FS_EmptySet, Zenon
<1>4. ASSUME NEW p \in s PROVE s \ {p} \in SUBSET S /\ Cardinality(s \ {p}) = Cardinality(s) - 1
  BY <1>1, <1>4, FS_RemoveElement
<1> QED
  BY <1>1, <1>2, <1>3, <1>4

\* What holds of the empty set, and of a set when it holds of the set without any
\* one of its elements, holds of every subset of a finite set.
LEMMA SubsetClimb ==
  ASSUME NEW S, IsFiniteSet(S), NEW Good, {} \in Good,
         \A s \in SUBSET S : s # {} /\ (\A p \in s : s \ {p} \in Good) => s \in Good
  PROVE  \A s \in SUBSET S : s \in Good
<1> DEFINE Sizes == {k \in Nat : \A s \in SUBSET S : Cardinality(s) = k => s \in Good}
<1>1. 0 \in Sizes
  BY SubsetSizes
<1>2. ASSUME NEW k \in Nat, k \in Sizes PROVE k + 1 \in Sizes
  <2>1. ASSUME NEW s \in SUBSET S, Cardinality(s) = k + 1 PROVE s \in Good
    <3>1. s # {}
      BY <2>1, SubsetSizes
    <3>2. ASSUME NEW p \in s PROVE s \ {p} \in Good
      <4>1. s \ {p} \in SUBSET S /\ Cardinality(s \ {p}) = k
        BY <2>1, SubsetSizes
      <4> QED
        BY <1>2, <4>1
    <3> QED
      BY <3>1, <3>2
  <2> QED
    BY <2>1
<1> HIDE DEF Sizes
<1>3. ASSUME NEW s \in SUBSET S PROVE s \in Good
  <2>1. PICK n \in Nat : n = Cardinality(s)
    BY SubsetSizes
  <2>2. n \in 0 .. n
    BY <2>1
  <2>3. \A i \in 0 .. n - 1 : i \in Sizes => i + 1 \in Sizes
    BY <1>2
  <2>4. n \in Sizes
    BY <1>1, <2>2, <2>3, Climb
  <2> QED
    BY <2>1, <2>4 DEF Sizes
<1> QED
  BY <1>3
One(s) == CHOOSE x \in s : TRUE

\* F adds up the weights w over every set of the family D, element by element.
Adds(w, D, F) == F = [s \in D |-> IF s = {} THEN 0 ELSE w[One(s)] + F[s \ {One(s)}]]
Sum(w, S) == (CHOOSE F : Adds(w, SUBSET S, F))[S]

AddsAt(w, F, s) == F[s] = IF s = {} THEN 0 ELSE w[One(s)] + F[s \ {One(s)}]

LEMMA AddsUnfolds ==
  ASSUME NEW w, NEW D, NEW F, Adds(w, D, F), NEW s \in D
  PROVE  AddsAt(w, F, s)
<1>1. PICK G : G = [u \in D |-> IF u = {} THEN 0 ELSE w[One(u)] + F[u \ {One(u)}]]
  OBVIOUS
<1>2. F = G
  BY <1>1, Zenon DEF Adds
<1>3. G[s] = IF s = {} THEN 0 ELSE w[One(s)] + F[s \ {One(s)}]
  BY <1>1
<1> QED
  BY <1>2, <1>3, Zenon DEF AddsAt

LEMMA AddsFolds ==
  ASSUME NEW w, NEW D, NEW F, F = [s \in D |-> F[s]], \A s \in D : AddsAt(w, F, s)
  PROVE  Adds(w, D, F)
<1>1. PICK G : G = [u \in D |-> IF u = {} THEN 0 ELSE w[One(u)] + F[u \ {One(u)}]]
  OBVIOUS
<1>2. \A s \in D : F[s] = G[s]
  <2>1. ASSUME NEW s \in D PROVE F[s] = G[s]
    <3>1. G[s] = IF s = {} THEN 0 ELSE w[One(s)] + F[s \ {One(s)}]
      BY <1>1
    <3> QED
      BY <3>1, Zenon DEF AddsAt
  <2> QED
    BY <2>1
<1>3. G = [s \in D |-> G[s]]
  BY <1>1
<1>4. F = G
  BY <1>2, <1>3, Zenon
<1> QED
  BY <1>1, <1>4, Zenon DEF Adds

LEMMA OneIsElement ==
  ASSUME NEW s, s # {}
  PROVE  One(s) \in s
BY DEF One

LEMMA SumExists ==
  ASSUME NEW S, IsFiniteSet(S), NEW w
  PROVE  \E F : Adds(w, SUBSET S, F)
<1> DEFINE D(k) == {s \in SUBSET S : Cardinality(s) <= k}
           Sizes == {k \in Nat : \E F : Adds(w, D(k), F)}
<1>1. 0 \in Sizes
  <2> DEFINE F == [s \in D(0) |-> 0]
  <2>1. F = [s \in D(0) |-> F[s]]
    OBVIOUS
  <2>2. ASSUME NEW s \in D(0) PROVE AddsAt(w, F, s)
    <3>1. s = {}
      BY SubsetSizes
    <3> QED
      BY <3>1 DEF AddsAt
  <2> HIDE DEF D, F
  <2>3. Adds(w, D(0), F)
    BY <2>1, <2>2, AddsFolds
  <2> QED
    BY <2>3
<1>2. ASSUME NEW k \in Nat, k \in Sizes PROVE k + 1 \in Sizes
  <2>1. PICK F : Adds(w, D(k), F)
    BY <1>2
  <2>2. PICK A, B : A = D(k) /\ B = D(k + 1)
    OBVIOUS
  <2>3. ASSUME NEW s \in B, s # {} PROVE s \ {One(s)} \in A
    <3>1. One(s) \in s
      BY <2>3, OneIsElement
    <3>2. s \in SUBSET S /\ Cardinality(s) <= k + 1
      BY <2>2
    <3>3. Cardinality(s) \in Nat
      BY <3>2, SubsetSizes
    <3>4. s \ {One(s)} \in SUBSET S /\ Cardinality(s \ {One(s)}) = Cardinality(s) - 1
      BY <3>1, <3>2, SubsetSizes
    <3> QED
      BY <2>2, <3>2, <3>3, <3>4
  <2> HIDE DEF D
  <2> DEFINE new == [s \in B |-> IF s \in A THEN F[s] ELSE w[One(s)] + F[s \ {One(s)}]]
  <2>4. {} \in A
    <3>1. Cardinality({}) = 0
      BY FS_EmptySet, Zenon
    <3> QED
      BY <2>2, <3>1 DEF D
  <2>5. ASSUME NEW s \in B PROVE AddsAt(w, new, s)
    <3>1. CASE s = {}
      <4>1. AddsAt(w, F, {})
        BY <2>1, <2>2, <2>4, AddsUnfolds
      <4> QED
        BY <2>4, <3>1, <4>1 DEF AddsAt
    <3>2. CASE s # {}
      <4>1. PICK rest : rest = s \ {One(s)}
        OBVIOUS
      <4>2. rest \in A
        BY <2>3, <3>2, <4>1
      <4>3. rest \in B
        <5>1. A \subseteq B
          <6>1. ASSUME NEW u \in A PROVE u \in B
            <7>1. u \in SUBSET S /\ Cardinality(u) <= k
              BY <2>2 DEF D
            <7>2. Cardinality(u) \in Nat
              BY <7>1, SubsetSizes
            <7> QED
              BY <2>2, <7>1, <7>2 DEF D
          <6> QED
            BY <6>1
        <5> QED
          BY <4>2, <5>1
      <4>4. new[rest] = F[rest]
        BY <4>2, <4>3
      <4>5. CASE s \in A
        <5>1. AddsAt(w, F, s)
          BY <2>1, <2>2, <4>5, AddsUnfolds
        <5>2. F[s] = w[One(s)] + F[rest]
          BY <3>2, <4>1, <5>1 DEF AddsAt
        <5>3. new[s] = F[s]
          BY <4>5
        <5> HIDE DEF new
        <5> QED
          BY <3>2, <4>1, <4>4, <5>2, <5>3 DEF AddsAt
      <4>6. CASE s \notin A
        <5>1. new[s] = w[One(s)] + F[rest]
          BY <4>1, <4>6
        <5> HIDE DEF new
        <5> QED
          BY <3>2, <4>1, <4>4, <5>1 DEF AddsAt
      <4> QED
        BY <4>5, <4>6
    <3> QED
      BY <3>1, <3>2
  <2>6. new = [s \in B |-> new[s]]
    OBVIOUS
  <2> HIDE DEF new
  <2>7. Adds(w, B, new)
    BY <2>5, <2>6, AddsFolds
  <2> QED
    BY <2>2, <2>7
<1>3. PICK n \in Nat : n = Cardinality(S)
  BY FS_CardinalityType
<1>4. SUBSET S = D(n)
  <2>1. ASSUME NEW s \in SUBSET S PROVE Cardinality(s) <= n
    BY <1>3, FS_Subset
  <2> QED
    BY <2>1
<1>5. n \in Sizes
  <2> HIDE DEF Sizes
  <2>1. \A i \in 0 .. n - 1 : i \in Sizes => i + 1 \in Sizes
    BY <1>2
  <2> QED
    BY <1>1, <2>1, Climb
<1> QED
  BY <1>4, <1>5
Agree(F, G, S) == F[S] = G[S]

LEMMA AddsAgree ==
  ASSUME NEW S, IsFiniteSet(S), NEW R, S \subseteq R, NEW w, NEW v, \A x \in S : w[x] = v[x],
         NEW F, Adds(w, SUBSET S, F), NEW G, Adds(v, SUBSET R, G)
  PROVE  Agree(F, G, S)
<1> DEFINE Good == {s \in SUBSET S : F[s] = G[s]}
<1>1. \A s \in SUBSET S : AddsAt(w, F, s) /\ AddsAt(v, G, s)
  <2>1. ASSUME NEW s \in SUBSET S PROVE AddsAt(w, F, s) /\ AddsAt(v, G, s)
    <3>1. s \in SUBSET R
      OBVIOUS
    <3>2. AddsAt(w, F, s)
      BY AddsUnfolds, Zenon
    <3>3. AddsAt(v, G, s)
      BY <3>1, AddsUnfolds, Zenon
    <3> QED
      BY <3>2, <3>3
  <2> QED
    BY <2>1
<1>2. {} \in Good
  <2>1. F[{}] = 0 /\ G[{}] = 0
    BY <1>1 DEF AddsAt
  <2> QED
    BY <2>1
<1>3. ASSUME NEW s \in SUBSET S, s # {}, \A p \in s : s \ {p} \in Good PROVE s \in Good
  <2>1. One(s) \in s
    BY <1>3, OneIsElement
  <2>2. F[s \ {One(s)}] = G[s \ {One(s)}] /\ w[One(s)] = v[One(s)]
    BY <1>3, <2>1
  <2>3. F[s] = w[One(s)] + F[s \ {One(s)}] /\ G[s] = v[One(s)] + G[s \ {One(s)}]
    BY <1>1, <1>3 DEF AddsAt
  <2> QED
    BY <2>2, <2>3
<1>4. \A s \in SUBSET S : s \in Good
  <2> HIDE DEF Good
  <2> QED
    BY <1>2, <1>3, SubsetClimb
<1> QED
  BY <1>4 DEF Agree

LEMMA AddsToNat ==
  ASSUME NEW S, IsFiniteSet(S), NEW w, \A x \in S : w[x] \in Nat, NEW F, Adds(w, SUBSET S, F)
  PROVE  \A s \in SUBSET S : F[s] \in Nat
<1> DEFINE Good == {s \in SUBSET S : F[s] \in Nat}
<1>1. \A s \in SUBSET S : AddsAt(w, F, s)
  BY AddsUnfolds, Zenon
<1>2. {} \in Good
  <2>1. F[{}] = 0
    BY <1>1 DEF AddsAt
  <2> QED
    BY <2>1
<1>3. ASSUME NEW s \in SUBSET S, s # {}, \A p \in s : s \ {p} \in Good PROVE s \in Good
  <2>1. One(s) \in s
    BY <1>3, OneIsElement
  <2>2. F[s \ {One(s)}] \in Nat /\ w[One(s)] \in Nat
    BY <1>3, <2>1
  <2>3. F[s] = w[One(s)] + F[s \ {One(s)}]
    BY <1>1, <1>3 DEF AddsAt
  <2> QED
    BY <2>2, <2>3
<1>4. \A s \in SUBSET S : s \in Good
  <2> HIDE DEF Good
  <2> QED
    BY <1>2, <1>3, SubsetClimb
<1> QED
  BY <1>4

\* The order in which the elements are added up does not matter.
LEMMA AddsInAnyOrder ==
  ASSUME NEW S, IsFiniteSet(S), NEW w, \A x \in S : w[x] \in Nat, NEW F, Adds(w, SUBSET S, F)
  PROVE  \A s \in SUBSET S : \A p \in s : F[s] = w[p] + F[s \ {p}]
<1> DEFINE Good == {s \in SUBSET S : \A p \in s : F[s] = w[p] + F[s \ {p}]}
<1>0. \A s \in SUBSET S : F[s] \in Nat
  BY AddsToNat
<1>1. \A s \in SUBSET S : AddsAt(w, F, s)
  BY AddsUnfolds, Zenon
<1>2. {} \in Good
  OBVIOUS
<1>3. ASSUME NEW s \in SUBSET S, s # {}, \A p \in s : s \ {p} \in Good PROVE s \in Good
  <2>1. PICK q \in s : q = One(s)
    BY <1>3, OneIsElement
  <2>2. F[s] = w[q] + F[s \ {q}]
    BY <1>1, <1>3, <2>1 DEF AddsAt
  <2>4. ASSUME NEW p \in s PROVE F[s] = w[p] + F[s \ {p}]
    <3>1. CASE p = q
      BY <2>2, <3>1
    <3>2. CASE p # q
      <4>1. PICK rest : rest = (s \ {q}) \ {p} /\ rest = (s \ {p}) \ {q}
        OBVIOUS
      <4>2. s \ {q} \in Good /\ s \ {p} \in Good /\ p \in s \ {q} /\ q \in s \ {p}
        BY <1>3, <3>2
      <4>3. F[s \ {q}] = w[p] + F[rest]
        BY <4>1, <4>2
      <4>4. F[s \ {p}] = w[q] + F[rest]
        BY <4>1, <4>2
      <4>5. F[rest] \in Nat /\ w[p] \in Nat /\ w[q] \in Nat
        BY <1>0, <4>1
      <4> QED
        BY <2>2, <4>3, <4>4, <4>5
    <3> QED
      BY <3>1, <3>2
  <2> QED
    BY <2>4
<1>4. \A s \in SUBSET S : s \in Good
  <2> HIDE DEF Good
  <2> QED
    BY <1>2, <1>3, SubsetClimb
<1> QED
  BY <1>4
LEMMA SumAdds ==
  ASSUME NEW S, IsFiniteSet(S), NEW w
  PROVE  \E F : Adds(w, SUBSET S, F) /\ Sum(w, S) = F[S]
<1>1. PICK F : F = (CHOOSE G : Adds(w, SUBSET S, G))
  OBVIOUS
<1>2. Adds(w, SUBSET S, F)
  BY <1>1, SumExists, Zenon
<1> QED
  BY <1>1, <1>2, Zenon DEF Sum

\* Weights that agree on a set have the same sum over it.
LEMMA SumSame ==
  ASSUME NEW S, IsFiniteSet(S), NEW w, NEW v, \A x \in S : w[x] = v[x]
  PROVE  Sum(w, S) = Sum(v, S)
<1>1. PICK F : Adds(w, SUBSET S, F) /\ Sum(w, S) = F[S]
  BY SumAdds
<1>2. PICK G : Adds(v, SUBSET S, G) /\ Sum(v, S) = G[S]
  BY SumAdds
<1>3. S \subseteq S /\ S \in SUBSET S
  OBVIOUS
<1>4. F[S] = G[S]
  <2>1. Agree(F, G, S)
    BY <1>1, <1>2, <1>3, AddsAgree
  <2> QED
    BY <2>1 DEF Agree
<1> QED
  BY <1>1, <1>2, <1>4

LEMMA SumOfNone ==
  ASSUME NEW w
  PROVE  Sum(w, {}) = 0
<1>1. IsFiniteSet({})
  BY FS_EmptySet, Zenon
<1>2. PICK F : Adds(w, SUBSET {}, F) /\ Sum(w, {}) = F[{}]
  BY <1>1, SumAdds
<1>3. AddsAt(w, F, {})
  BY <1>2, AddsUnfolds
<1> QED
  BY <1>2, <1>3 DEF AddsAt

\* One element of a sum apart from the others.
LEMMA SumSplits ==
  ASSUME NEW S, IsFiniteSet(S), NEW w, \A x \in S : w[x] \in Nat
  PROVE  /\ Sum(w, S) \in Nat
         /\ \A p \in S : Sum(w, S) = w[p] + Sum(w, S \ {p})
<1>1. PICK F : Adds(w, SUBSET S, F) /\ Sum(w, S) = F[S]
  BY SumAdds
<1>2. S \in SUBSET S
  OBVIOUS
<1>3. Sum(w, S) \in Nat
  BY <1>1, <1>2, AddsToNat
<1>4. ASSUME NEW p \in S PROVE Sum(w, S) = w[p] + Sum(w, S \ {p})
  <2>1. PICK R : R = S \ {p} /\ R \subseteq S
    OBVIOUS
  <2>2. IsFiniteSet(R)
    BY <2>1, FS_Subset
  <2>3. PICK G : Adds(w, SUBSET R, G) /\ Sum(w, R) = G[R]
    BY <2>2, SumAdds
  <2>4. G[R] = F[R]
    <3>1. \A x \in R : w[x] = w[x]
      OBVIOUS
    <3>2. Agree(G, F, R)
      BY <1>1, <2>1, <2>2, <2>3, <3>1, AddsAgree
    <3> QED
      BY <3>2, Zenon DEF Agree
  <2>5. F[S] = w[p] + F[S \ {p}]
    BY <1>1, <1>2, AddsInAnyOrder
  <2> QED
    BY <1>1, <2>1, <2>3, <2>4, <2>5
<1> QED
  BY <1>3, <1>4

LEMMA SumOfZeros ==
  ASSUME NEW S, IsFiniteSet(S), NEW w, \A x \in S : w[x] = 0
  PROVE  Sum(w, S) = 0
<1> DEFINE Good == {s \in SUBSET S : Sum(w, s) = 0}
<1>1. {} \in Good
  BY SumOfNone
<1>2. ASSUME NEW s \in SUBSET S, s # {}, \A p \in s : s \ {p} \in Good PROVE s \in Good
  <2>1. PICK p : p \in s
    BY <1>2
  <2>2. IsFiniteSet(s)
    BY FS_Subset
  <2>3. \A x \in s : w[x] \in Nat
    OBVIOUS
  <2>4. Sum(w, s) = w[p] + Sum(w, s \ {p})
    BY <2>1, <2>2, <2>3, SumSplits
  <2>5. Sum(w, s \ {p}) = 0 /\ w[p] = 0
    BY <1>2, <2>1
  <2> QED
    BY <2>4, <2>5
<1>3. \A s \in SUBSET S : s \in Good
  <2> HIDE DEF Good
  <2> QED
    BY <1>1, <1>2, SubsetClimb
<1> QED
  BY <1>3

\* The sum follows when one weight changes.
LEMMA SumChanged ==
  ASSUME NEW S, IsFiniteSet(S), NEW w, NEW v, \A x \in S : w[x] \in Nat /\ v[x] \in Nat,
         NEW p \in S, \A x \in S : x # p => v[x] = w[x]
  PROVE  Sum(v, S) + w[p] = Sum(w, S) + v[p]
<1>1. PICK R : R = S \ {p} /\ R \subseteq S
  OBVIOUS
<1>2. IsFiniteSet(R)
  BY <1>1, FS_Subset
<1>3. Sum(w, R) = Sum(v, R)
  <2>1. \A x \in R : w[x] = v[x]
    BY <1>1
  <2> QED
    BY <1>2, <2>1, SumSame
<1>4. Sum(w, R) \in Nat
  BY <1>1, <1>2, SumSplits
<1>5. Sum(w, S) = w[p] + Sum(w, R)
  BY <1>1, SumSplits
<1>6. Sum(v, S) = v[p] + Sum(v, R)
  BY <1>1, SumSplits
<1> QED
  BY <1>3, <1>4, <1>5, <1>6

\* What the weights of a subset leave when they are cleared.
LEMMA SumCleared ==
  ASSUME NEW T, IsFiniteSet(T), NEW S \in SUBSET T, NEW w, \A x \in T : w[x] \in Nat
  PROVE  Sum(w, T) = Sum([x \in T |-> IF x \in S THEN 0 ELSE w[x]], T) + Sum(w, S)
<1> DEFINE cleared(s) == [x \in T |-> IF x \in s THEN 0 ELSE w[x]]
           Good == {s \in SUBSET T : Sum(w, T) = Sum(cleared(s), T) + Sum(w, s)}
<1>0. Sum(w, T) \in Nat
  BY SumSplits
<1>1. {} \in Good
  <2>1. \A x \in T : w[x] = cleared({})[x]
    OBVIOUS
  <2> HIDE DEF cleared
  <2>2. Sum(w, T) = Sum(cleared({}), T)
    BY <2>1, SumSame
  <2> QED
    BY <1>0, <2>2, SumOfNone
<1>2. ASSUME NEW s \in SUBSET T, s # {}, \A p \in s : s \ {p} \in Good PROVE s \in Good
  <2>1. PICK p \in T : p \in s
    BY <1>2
  <2>2. PICK r, f, g : r = s \ {p} /\ f = cleared(r) /\ g = cleared(s)
    OBVIOUS
  <2>3. /\ \A x \in T : f[x] \in Nat /\ g[x] \in Nat
        /\ f[p] = w[p] /\ g[p] = 0
        /\ \A x \in T : x # p => g[x] = f[x]
    BY <2>1, <2>2
  <2>4. Sum(w, T) = Sum(f, T) + Sum(w, r)
    BY <1>2, <2>1, <2>2
  <2> HIDE DEF Good, cleared
  <2>5. Sum(g, T) + w[p] = Sum(f, T)
    <3>1. Sum(g, T) + f[p] = Sum(f, T) + g[p]
      BY <2>3, SumChanged
    <3>2. Sum(f, T) \in Nat
      BY <2>3, SumSplits
    <3> QED
      BY <2>3, <3>1, <3>2
  <2>6. IsFiniteSet(s) /\ IsFiniteSet(r)
    BY <2>2, FS_Subset
  <2>7. Sum(w, s) = w[p] + Sum(w, r)
    BY <2>1, <2>2, <2>6, SumSplits
  <2>8. Sum(g, T) \in Nat /\ Sum(w, r) \in Nat /\ w[p] \in Nat
    <3>1. Sum(g, T) \in Nat
      BY <2>3, SumSplits
    <3>2. Sum(w, r) \in Nat
      BY <2>2, <2>6, SumSplits
    <3> QED
      BY <3>1, <3>2
  <2>9. Sum(w, T) = Sum(g, T) + Sum(w, s)
    BY <2>4, <2>5, <2>7, <2>8
  <2> QED
    BY <2>2, <2>9 DEF Good
<1>3. \A s \in SUBSET T : s \in Good
  <2> HIDE DEF Good
  <2> QED
    BY <1>1, <1>2, SubsetClimb
<1> QED
  BY <1>3
-----------------------------------------------------------------------------
(* The bytes of the buffer.                                                *)

BytesOf == [t \in Trace |-> inflight[t].bytes]
FreedBy(S) == MapThenSumSet(LAMBDA t : inflight[t].bytes, S)
HeldBytes ==
  MapThenSumSet(LAMBDA t : MapThenSumSet(LAMBDA r : SpanSize[r], inflight[t].recs), Trace)

\* What PopReady subtracts.
LEMMA FreedIsSum ==
  ASSUME NEW S \in SUBSET Trace, IsFiniteSet(S)
  PROVE  FreedBy(S) = Sum(BytesOf, S)
<1> DEFINE step(I) == [s \in SUBSET S |->
                         IF s = {} THEN 0 ELSE inflight[One(s)].bytes + I[s \ {One(s)}]]
<1>1. FreedBy(S) = (CHOOSE I : I = step(I))[S]
  BY DEF FreedBy, MapThenSumSet, MapThenFoldSet, One
<1>2. ASSUME NEW I PROVE (I = step(I)) <=> Adds(BytesOf, SUBSET S, I)
  <2>1. PICK G : G = [s \in SUBSET S |->
                        IF s = {} THEN 0 ELSE BytesOf[One(s)] + I[s \ {One(s)}]]
    OBVIOUS
  <2>2. ASSUME NEW s \in SUBSET S PROVE step(I)[s] = G[s]
    <3>1. s # {} => BytesOf[One(s)] = inflight[One(s)].bytes
      BY OneIsElement DEF BytesOf
    <3> QED
      BY <2>1, <3>1
  <2>3. step(I) = [s \in SUBSET S |-> step(I)[s]] /\ G = [s \in SUBSET S |-> G[s]]
    BY <2>1
  <2> HIDE DEF step
  <2>4. step(I) = G
    BY <2>2, <2>3, Zenon
  <2> QED
    BY <2>1, <2>4, Zenon DEF Adds
<1> HIDE DEF step
<1>3. PICK F : Adds(BytesOf, SUBSET S, F) /\ Sum(BytesOf, S) = F[S]
  BY SumAdds
<1>4. PICK I : I = (CHOOSE J : J = step(J))
  OBVIOUS
<1>5. Adds(BytesOf, SUBSET S, I)
  <2>1. F = step(F)
    BY <1>2, <1>3, Zenon
  <2>2. I = step(I)
    BY <1>4, <2>1, Zenon
  <2> QED
    BY <1>2, <2>2, Zenon
<1>6. Agree(I, F, S)
  <2>1. S \subseteq S /\ \A x \in S : BytesOf[x] = BytesOf[x]
    OBVIOUS
  <2> QED
    BY <1>3, <1>5, <2>1, AddsAgree
<1> QED
  BY <1>1, <1>3, <1>4, <1>6, Zenon DEF Agree

SpansOf == [t \in Trace |-> Sum(SpanSize, inflight[t].recs)]

\* What the spans held by the buffer add up to.
LEMMA HeldIsSum ==
  ASSUME IsFiniteSet(Trace)
  PROVE  HeldBytes = Sum(SpansOf, Trace)
<1> DEFINE step(I) == [s \in SUBSET Trace |->
                         IF s = {} THEN 0 ELSE Sum(SpanSize, inflight[One(s)].recs) + I[s \ {One(s)}]]
<1>1. HeldBytes = (CHOOSE I : I = step(I))[Trace]
  BY DEF HeldBytes, MapThenSumSet, MapThenFoldSet, One, Sum, Adds
<1>2. ASSUME NEW I PROVE (I = step(I)) <=> Adds(SpansOf, SUBSET Trace, I)
  <2>1. PICK G : G = [s \in SUBSET Trace |->
                        IF s = {} THEN 0 ELSE SpansOf[One(s)] + I[s \ {One(s)}]]
    OBVIOUS
  <2>2. ASSUME NEW s \in SUBSET Trace PROVE step(I)[s] = G[s]
    <3>1. s # {} => SpansOf[One(s)] = Sum(SpanSize, inflight[One(s)].recs)
      BY OneIsElement DEF SpansOf
    <3> QED
      BY <2>1, <3>1
  <2>3. step(I) = [s \in SUBSET Trace |-> step(I)[s]] /\ G = [s \in SUBSET Trace |-> G[s]]
    BY <2>1
  <2> HIDE DEF step
  <2>4. step(I) = G
    BY <2>2, <2>3, Zenon
  <2> QED
    BY <2>1, <2>4, Zenon DEF Adds
<1> HIDE DEF step
<1>3. PICK F : Adds(SpansOf, SUBSET Trace, F) /\ Sum(SpansOf, Trace) = F[Trace]
  BY SumAdds
<1>4. PICK I : I = (CHOOSE J : J = step(J))
  OBVIOUS
<1>5. Adds(SpansOf, SUBSET Trace, I)
  <2>1. F = step(F)
    BY <1>2, <1>3, Zenon
  <2>2. I = step(I)
    BY <1>4, <2>1, Zenon
  <2> QED
    BY <1>2, <2>2, Zenon
<1>6. Agree(I, F, Trace)
  <2>1. Trace \subseteq Trace /\ \A x \in Trace : SpansOf[x] = SpansOf[x]
    OBVIOUS
  <2> QED
    BY <1>3, <1>5, <2>1, AddsAgree
<1> QED
  BY <1>1, <1>3, <1>4, <1>6, Zenon DEF Agree
-----------------------------------------------------------------------------
(* The bounds of the buffer.                                               *)

\* Between the lock's release and the eviction there is one trace too many,
\* unless someone takes a trace out meanwhile; otherwise the victim is there.
CountInv ==
  /\ cpc # "evict" => Cardinality(Inflight) <= MaxTraces
  /\ cpc = "evict" =>
       /\ Cardinality(Inflight) <= MaxTraces + 1
       /\ Cardinality(Inflight) > MaxTraces => victim \in Inflight

Accounts ==
  /\ \A t \in Trace : /\ IsFiniteSet(inflight[t].recs)
                      /\ inflight[t].bytes = Sum(SpanSize, inflight[t].recs)
  /\ totalBytes = Sum(BytesOf, Trace)

BoundsInv == CountInv /\ Accounts /\ DecidedBounded

LEMMA BufferFacts ==
  /\ IsFiniteSet(Trace) /\ SpanSize \in [Record -> Nat]
  /\ MaxTraces \in Nat /\ DecidedCacheSize \in Nat
BY BufferAssumption

LEMMA InflightSize ==
  /\ IsFiniteSet(Inflight) /\ Cardinality(Inflight) \in Nat
  /\ IsFiniteSet(Inflight') /\ Cardinality(Inflight') \in Nat
<1>1. IsFiniteSet(Inflight)
  BY BufferFacts, FS_Subset DEF Inflight
<1>2. IsFiniteSet(Inflight')
  BY BufferFacts, FS_Subset DEF Inflight
<1> QED
  BY <1>1, <1>2, FS_CardinalityType

\* Fewer traces in flight: the count is no larger, and smaller when one left.
LEMMA FewerInflight ==
  ASSUME Inflight' \subseteq Inflight
  PROVE  /\ Cardinality(Inflight') <= Cardinality(Inflight)
         /\ Inflight' # Inflight => Cardinality(Inflight') < Cardinality(Inflight)
<1>1. PICK A, B : A = Inflight /\ B = Inflight'
  OBVIOUS
<1>2. IsFiniteSet(A) /\ B \in SUBSET A /\ Cardinality(A) \in Nat /\ Cardinality(B) \in Nat
  BY <1>1, InflightSize
<1>3. Cardinality(B) <= Cardinality(A) /\ (Cardinality(A) = Cardinality(B) => A = B)
  BY <1>2, FS_Subset
<1> QED
  BY <1>1, <1>2, <1>3

\* Traces leave while the consumer is elsewhere, or waits to evict.
LEMMA CountFalls ==
  ASSUME CountInv, Inflight' \subseteq Inflight, cpc' = cpc, victim' = victim
  PROVE  CountInv'
<1>1. CASE Inflight' = Inflight
  BY <1>1 DEF CountInv, Inflight
<1>2. CASE Inflight' # Inflight
  <2>1. Cardinality(Inflight') < Cardinality(Inflight)
    BY <1>2, FewerInflight
  <2>2. PICK a \in Nat, b \in Nat : a = Cardinality(Inflight) /\ b = Cardinality(Inflight')
    BY InflightSize
  <2>3. cpc # "evict" => a <= MaxTraces
    BY <2>2 DEF CountInv
  <2>4. cpc = "evict" => a <= MaxTraces + 1
    BY <2>2 DEF CountInv
  <2>5. b <= MaxTraces
    BY <2>1, <2>2, <2>3, <2>4, BufferFacts
  <2>6. CountInv'
    <3>1. Cardinality(Inflight') <= MaxTraces
      BY <2>2, <2>5
    <3>2. Cardinality(Inflight') <= MaxTraces + 1 /\ ~(Cardinality(Inflight') > MaxTraces)
      BY <2>2, <2>5, BufferFacts
    <3> QED
      BY <3>1, <3>2 DEF CountInv
  <2> QED
    BY <2>6
<1> QED
  BY <1>1, <1>2

\* The buffer keeps its size and the consumer is not about to evict.
LEMMA CountStays ==
  ASSUME CountInv, cpc # "evict", cpc' # "evict", Inflight' \subseteq Inflight
  PROVE  CountInv'
<1>1. PICK a \in Nat, b \in Nat : a = Cardinality(Inflight) /\ b = Cardinality(Inflight')
  BY InflightSize
<1>2. b <= a
  BY <1>1, FewerInflight
<1>3. a <= MaxTraces
  BY <1>1 DEF CountInv
<1>4. Cardinality(Inflight') <= MaxTraces
  BY <1>1, <1>2, <1>3, BufferFacts
<1> QED
  BY <1>4 DEF CountInv

LEMMA RemoveShrinks ==
  ASSUME BufferTypeOK, NEW S, NEW freed, Remove(S, freed)
  PROVE  Inflight' = Inflight \ S
<1>1. \A t \in Trace : inflight'[t].recs = IF t \in S THEN {} ELSE inflight[t].recs
  BY RemoveLeaves
<1> QED
  BY <1>1 DEF Inflight

\* An admitted span adds its trace; over a bound, a victim is chosen.
LEMMA CountAfterAdmit ==
  ASSUME TypeOK, CountInv, AdmitRecord
  PROVE  CountInv'
<1>1. BufferTypeOK /\ cur \in Record /\ log[cur] \in Trace /\ cpc = "admit"
  BY DEF TypeOK, LoopTypeOK, AdmitRecord
<1>2. CASE cpc' = "next" /\ UNCHANGED bufferVars
  <2>1. Inflight' = Inflight
    BY <1>2 DEF bufferVars, Inflight
  <2> QED
    BY <1>1, <1>2, <2>1, CountStays
<1>3. CASE Admit(log[cur], cur) /\ ~(cpc' = "next" /\ UNCHANGED bufferVars)
  <2>1. PICK t \in Trace : t = log[cur]
    BY <1>1
  <2>2. \A u \in Trace :
          inflight'[u].recs = IF u = t THEN inflight[t].recs \cup {cur} ELSE inflight[u].recs
    BY <1>1, <1>3, <2>1, AdmitAdds
  <2>3. Inflight' = Inflight \cup {t}
    BY <2>1, <2>2 DEF Inflight
  <2>4. Cardinality(Inflight') <= Cardinality(Inflight) + 1
    <3>1. PICK A, B : A = Inflight /\ B = Inflight'
      OBVIOUS
    <3>2. Cardinality(A \cup {t}) = IF t \in A THEN Cardinality(A) ELSE Cardinality(A) + 1
      BY <3>1, InflightSize, FS_AddElement
    <3>3. Cardinality(A) \in Nat
      BY <3>1, InflightSize
    <3> QED
      BY <2>3, <3>1, <3>2, <3>3
  <2>5. PICK a \in Nat, b \in Nat : a = Cardinality(Inflight) /\ b = Cardinality(Inflight')
    BY InflightSize
  <2>6. a <= MaxTraces /\ b <= MaxTraces + 1
    BY <1>1, <2>4, <2>5, BufferFacts DEF CountInv
  <2>7. CASE NeedsEviction
    <3>1. cpc' = "evict" /\ \E v \in Trace : OldestIn(inflight', Inflight', v) /\ victim' = v
      BY <1>1, <1>3, <2>7 DEF AdmitRecord
    <3>2. victim' \in Inflight'
      BY <3>1 DEF OldestIn
    <3> QED
      BY <2>5, <2>6, <3>1, <3>2 DEF CountInv
  <2>8. CASE ~NeedsEviction
    <3>1. cpc' = "early"
      BY <1>1, <1>3, <2>8 DEF AdmitRecord
    <3>2. ~(Cardinality(Inflight') > MaxTraces)
      BY <2>8 DEF NeedsEviction
    <3>3. Cardinality(Inflight') <= MaxTraces
      BY <2>5, <3>2, BufferFacts
    <3> QED
      BY <3>1, <3>3 DEF CountInv
  <2> QED
    BY <2>7, <2>8
<1> QED
  BY <1>2, <1>3 DEF AdmitRecord

\* The eviction brings the count back, or the victim had gone already.
LEMMA CountAfterEvict ==
  ASSUME TypeOK, CountInv, Evict
  PROVE  CountInv'
<1>1. BufferTypeOK /\ cpc = "evict" /\ cpc' = "early"
  BY DEF TypeOK, Evict
<1>2. PICK a \in Nat, b \in Nat : a = Cardinality(Inflight) /\ b = Cardinality(Inflight')
  BY InflightSize
<1>3. a <= MaxTraces + 1 /\ (a > MaxTraces => victim \in Inflight)
  BY <1>1, <1>2 DEF CountInv
<1>4. b <= MaxTraces
  <2>1. CASE victim \notin Inflight /\ UNCHANGED bufferVars
    <3>1. Inflight' = Inflight
      BY <2>1 DEF bufferVars, Inflight
    <3> QED
      BY <1>2, <1>3, <2>1, <3>1, BufferFacts
  <2>2. CASE victim \in Inflight /\ Remove({victim}, inflight[victim].bytes)
    <3>1. Inflight' = Inflight \ {victim}
      BY <1>1, <2>2, RemoveShrinks
    <3>2. Cardinality(Inflight') < Cardinality(Inflight)
      BY <2>2, <3>1, FewerInflight
    <3> QED
      BY <1>2, <1>3, <3>2, BufferFacts
  <2> QED
    BY <2>1, <2>2 DEF Evict
<1> QED
  BY <1>1, <1>2, <1>4 DEF CountInv
LEMMA NextCount ==
  ASSUME TypeOK, CountInv, [Next]_vars
  PROVE  CountInv'
<1>1. BufferTypeOK
  BY DEF TypeOK
<1>2. CASE Crash
  <2>1. cpc' = "poll" /\ \A t \in Trace : inflight'[t].recs = {}
    BY <1>2 DEF Crash, Restart, NoEntry
  <2>2. Inflight' = {}
    BY <2>1 DEF Inflight
  <2>3. Cardinality(Inflight') = 0
    BY <2>2, FS_EmptySet, Zenon
  <2>4. Cardinality(Inflight') <= MaxTraces
    BY <2>3, BufferFacts
  <2> QED
    BY <2>1, <2>4 DEF CountInv
<1>3. CASE AdmitRecord
  BY <1>3, CountAfterAdmit
<1>4. CASE Evict
  BY <1>4, CountAfterEvict
<1>5. CASE EarlyExit
  <2>1. cpc = "early" /\ cpc' = "next"
    BY <1>5 DEF EarlyExit
  <2>2. CASE UNCHANGED bufferVars
    <3>1. Inflight' = Inflight
      BY <2>2 DEF bufferVars, Inflight
    <3> QED
      BY <2>1, <3>1, CountStays
  <2>3. CASE Remove({log[cur]}, inflight[log[cur]].bytes)
    <3>1. Inflight' = Inflight \ {log[cur]}
      BY <1>1, <2>3, RemoveShrinks
    <3> QED
      BY <2>1, <3>1, CountStays
  <2> QED
    BY <1>5, <2>2, <2>3 DEF EarlyExit
<1>6. CASE PopReady
  <2>1. PICK S, freed : Remove(S, freed)
    BY <1>6 DEF PopReady
  <2>2. Inflight' = Inflight \ S
    BY <1>1, <2>1, RemoveShrinks
  <2>3. cpc' = cpc /\ victim' = victim
    BY <1>6 DEF PopReady, loopVars
  <2> QED
    BY <2>2, <2>3, CountFalls
<1>7. CASE UNCHANGED <<inflight, cpc, victim>>
  <2>1. Inflight' = Inflight
    BY <1>7 DEF Inflight
  <2> QED
    BY <1>7, <2>1, CountFalls
<1>8. CASE /\ UNCHANGED inflight
           /\ cpc # "evict" /\ cpc' # "evict"
  <2>1. Inflight' = Inflight
    BY <1>8 DEF Inflight
  <2> QED
    BY <1>8, <2>1, CountStays
<1> QED
  BY <1>2, <1>3, <1>4, <1>5, <1>6, <1>7, <1>8, GroupKeeps
  DEF Next, vars, ConsumerStep, JobStep, SweeperStep, WatchdogStep, Poll, NextRecord,
      TrackRecord, SkipCommit, PollDone, GatherCommits, Commit, EmitOk, EmitError,
      RecordVerdict, RecordDecision, FinishLookup, FinishResolve, SweepNext, WatchdogScan,
      WatchdogCheck, WatchdogResolve, WatchdogForget, Age, bufferVars, loopVars

-----------------------------------------------------------------------------
(* The bytes.                                                              *)

LEMMA BytesAreNat ==
  ASSUME BufferTypeOK
  PROVE  /\ \A t \in Trace : BytesOf[t] \in Nat /\ BytesOf[t] = inflight[t].bytes
         /\ Sum(BytesOf, Trace) \in Nat
<1>1. \A t \in Trace : BytesOf[t] \in Nat /\ BytesOf[t] = inflight[t].bytes
  BY DEF BytesOf, BufferTypeOK, Entry
<1>2. Sum(BytesOf, Trace) \in Nat
  BY <1>1, BufferFacts, SumSplits
<1> QED
  BY <1>1, <1>2

\* The traces of a set leave with their bytes.
LEMMA AccountsAfterRemove ==
  ASSUME BufferTypeOK, Accounts, NEW S \in SUBSET Trace, Remove(S, Sum(BytesOf, S))
  PROVE  Accounts'
<1>1. PICK w, v : w = BytesOf /\ v = BytesOf'
  OBVIOUS
<1>2. \A t \in Trace : w[t] \in Nat /\ w[t] = inflight[t].bytes
  BY <1>1, BytesAreNat
<1>3. \A t \in Trace : inflight'[t] = IF t \in S THEN NoEntry ELSE inflight[t]
  BY DEF Remove
<1>4. v = [t \in Trace |-> IF t \in S THEN 0 ELSE w[t]]
  <2>1. v = [t \in Trace |-> inflight'[t].bytes]
    BY <1>1 DEF BytesOf
  <2>2. \A t \in Trace : inflight'[t].bytes = IF t \in S THEN 0 ELSE w[t]
    BY <1>2, <1>3 DEF NoEntry
  <2> QED
    BY <2>1, <2>2
<1>5. Sum(w, Trace) = Sum(v, Trace) + Sum(w, S)
  BY <1>2, <1>4, BufferFacts, SumCleared
<1>6. totalBytes' = Sum(v, Trace)
  <2>1. totalBytes' = totalBytes - Sum(w, S) /\ totalBytes = Sum(w, Trace)
    BY <1>1 DEF Remove, Accounts
  <2>2. Sum(v, Trace) \in Nat
    <3>1. \A t \in Trace : v[t] \in Nat
      BY <1>2, <1>4
    <3> QED
      BY <3>1, BufferFacts, SumSplits
  <2>3. Sum(w, S) \in Nat
    <3>1. IsFiniteSet(S) /\ \A t \in S : w[t] \in Nat
      BY <1>2, BufferFacts, FS_Subset
    <3> QED
      BY <3>1, SumSplits
  <2> QED
    BY <1>5, <2>1, <2>2, <2>3
<1>7. ASSUME NEW t \in Trace
      PROVE  IsFiniteSet(inflight'[t].recs) /\ inflight'[t].bytes = Sum(SpanSize, inflight'[t].recs)
  <2>1. CASE t \notin S
    BY <1>3, <2>1 DEF Accounts
  <2>2. CASE t \in S
    <3>1. inflight'[t].recs = {} /\ inflight'[t].bytes = 0
      BY <1>3, <2>2 DEF NoEntry
    <3>2. IsFiniteSet({})
      BY FS_EmptySet, Zenon
    <3> QED
      BY <3>1, <3>2, SumOfNone
  <2> QED
    BY <2>1, <2>2
<1> QED
  BY <1>1, <1>6, <1>7 DEF Accounts

LEMMA AccountsAfterOne ==
  ASSUME BufferTypeOK, Accounts, NEW t \in Trace, Remove({t}, inflight[t].bytes)
  PROVE  Accounts'
<1>1. Sum(BytesOf, {t}) = inflight[t].bytes
  <2>1. IsFiniteSet({t}) /\ {t} \ {t} = {}
    BY FS_Singleton
  <2>2. BytesOf[t] \in Nat /\ BytesOf[t] = inflight[t].bytes
    BY BytesAreNat
  <2>3. Sum(BytesOf, {t}) = BytesOf[t] + Sum(BytesOf, {t} \ {t})
    BY <2>1, <2>2, SumSplits
  <2> QED
    BY <2>1, <2>2, <2>3, SumOfNone
<1> QED
  BY <1>1, AccountsAfterRemove

\* An admitted span, which nobody held, adds its bytes.
LEMMA AccountsAfterAdmit ==
  ASSUME BufferTypeOK, Accounts, NEW t \in Trace, NEW r \in Record, r \notin inflight[t].recs,
         Admit(t, r)
  PROVE  Accounts'
<1>1. PICK w, v : w = BytesOf /\ v = BytesOf'
  OBVIOUS
<1>2. \A u \in Trace : w[u] \in Nat /\ w[u] = inflight[u].bytes
  BY <1>1, BytesAreNat
<1>3. SpanSize[r] \in Nat
  BY BufferFacts
<1>4. /\ inflight'[t].bytes = inflight[t].bytes + SpanSize[r]
      /\ inflight'[t].recs = inflight[t].recs \cup {r}
      /\ \A u \in Trace : u # t => inflight'[u] = inflight[u]
      /\ totalBytes' = totalBytes + SpanSize[r]
  BY DEF Admit, BufferTypeOK
<1>5. \A u \in Trace : v[u] = inflight'[u].bytes
  BY <1>1 DEF BytesOf
<1>6. /\ v[t] = w[t] + SpanSize[r]
      /\ \A u \in Trace : u # t => v[u] = w[u]
      /\ \A u \in Trace : v[u] \in Nat
  BY <1>2, <1>3, <1>4, <1>5
<1>7. Sum(v, Trace) + w[t] = Sum(w, Trace) + v[t]
  BY <1>2, <1>6, BufferFacts, SumChanged
<1>8. totalBytes' = Sum(v, Trace)
  <2>1. Sum(v, Trace) \in Nat /\ Sum(w, Trace) \in Nat
    BY <1>2, <1>6, BufferFacts, SumSplits
  <2>2. totalBytes = Sum(w, Trace)
    BY <1>1 DEF Accounts
  <2> QED
    BY <1>2, <1>3, <1>4, <1>6, <1>7, <2>1, <2>2
<1>9. IsFiniteSet(inflight'[t].recs) /\ inflight'[t].bytes = Sum(SpanSize, inflight'[t].recs)
  <2>1. PICK A, B : A = inflight[t].recs /\ B = A \cup {r}
    OBVIOUS
  <2>2. IsFiniteSet(A) /\ inflight[t].bytes = Sum(SpanSize, A) /\ B \ {r} = A /\ r \in B
    BY <2>1 DEF Accounts
  <2>3. IsFiniteSet(B)
    BY <2>1, <2>2, FS_AddElement
  <2>4. \A x \in B : SpanSize[x] \in Nat
    <3>1. A \subseteq Record
      BY <2>1 DEF BufferTypeOK, Entry
    <3> QED
      BY <2>1, <3>1, BufferFacts
  <2>5. Sum(SpanSize, B) = SpanSize[r] + Sum(SpanSize, A)
    <3>1. Sum(SpanSize, B) = SpanSize[r] + Sum(SpanSize, B \ {r})
      BY <2>2, <2>3, <2>4, SumSplits
    <3> QED
      BY <2>2, <3>1
  <2>6. inflight[t].bytes \in Nat
    BY <1>2
  <2> QED
    BY <1>3, <1>4, <2>1, <2>2, <2>3, <2>5, <2>6
<1>10. ASSUME NEW u \in Trace
       PROVE  IsFiniteSet(inflight'[u].recs) /\ inflight'[u].bytes = Sum(SpanSize, inflight'[u].recs)
  BY <1>4, <1>9 DEF Accounts
<1> QED
  BY <1>1, <1>8, <1>10 DEF Accounts
LEMMA NextAccounts ==
  ASSUME TypeOK, HolderInv, Accounts, [Next]_vars
  PROVE  Accounts'
<1>1. BufferTypeOK
  BY DEF TypeOK
<1>2. CASE UNCHANGED <<inflight, totalBytes>>
  BY <1>2 DEF Accounts, BytesOf
<1>3. CASE Crash
  <2>1. totalBytes' = 0 /\ \A t \in Trace : inflight'[t].recs = {} /\ inflight'[t].bytes = 0
    BY <1>3 DEF Crash, Restart, NoEntry
  <2>2. IsFiniteSet({})
    BY FS_EmptySet, Zenon
  <2>3. PICK v : v = BytesOf'
    OBVIOUS
  <2>4. \A t \in Trace : v[t] = 0
    BY <2>1, <2>3 DEF BytesOf
  <2>5. Sum(v, Trace) = 0
    BY <2>4, BufferFacts, SumOfZeros
  <2> QED
    BY <2>1, <2>2, <2>3, <2>5, SumOfNone DEF Accounts
<1>4. CASE AdmitRecord
  <2>1. PICK t \in Trace : t = log[cur]
    BY <1>4 DEF AdmitRecord, TypeOK, LoopTypeOK
  <2>2. cur \in Record /\ cpc = "admit"
    BY <1>4 DEF AdmitRecord, TypeOK, LoopTypeOK
  <2>3. cur \notin inflight[t].recs
    BY <2>2 DEF HolderInv, HeldAreIngested, Ingested
  <2>4. CASE Admit(t, cur)
    BY <1>1, <2>2, <2>3, <2>4, AccountsAfterAdmit
  <2> QED
    BY <1>2, <1>4, <2>1, <2>4 DEF AdmitRecord, bufferVars
<1>5. CASE Evict
  <2>1. CASE UNCHANGED bufferVars
    BY <1>2, <2>1 DEF bufferVars
  <2>2. CASE victim \in Inflight /\ Remove({victim}, inflight[victim].bytes)
    BY <1>1, <2>2, AccountsAfterOne DEF Inflight
  <2> QED
    BY <1>5, <2>1, <2>2 DEF Evict
<1>6. CASE EarlyExit
  <2>1. CASE UNCHANGED bufferVars
    BY <1>2, <2>1 DEF bufferVars
  <2>2. CASE log[cur] \in Inflight /\ Remove({log[cur]}, inflight[log[cur]].bytes)
    BY <1>1, <2>2, AccountsAfterOne DEF Inflight
  <2> QED
    BY <1>6, <2>1, <2>2 DEF EarlyExit
<1>7. CASE PopReady
  <2>1. PICK S \in SUBSET Trace : Remove(S, FreedBy(S))
    BY <1>7 DEF PopReady, FreedBy
  <2>2. IsFiniteSet(S)
    BY BufferFacts, FS_Subset
  <2>3. Remove(S, Sum(BytesOf, S))
    BY <2>1, <2>2, FreedIsSum
  <2> QED
    BY <1>1, <2>3, AccountsAfterRemove
<1> QED
  BY <1>2, <1>3, <1>4, <1>5, <1>6, <1>7, GroupKeeps
  DEF Next, vars, ConsumerStep, JobStep, SweeperStep, WatchdogStep, Poll, NextRecord,
      TrackRecord, SkipCommit, GatherCommits, Commit, EmitOk, EmitError, RecordVerdict,
      RecordDecision, FinishLookup, FinishResolve, SweepNext, WatchdogScan, WatchdogCheck,
      WatchdogResolve, WatchdogForget, Age, bufferVars

-----------------------------------------------------------------------------
(* The decision cache.                                                     *)

\* A decision leaves the cache only with its place in the FIFO.
LEMMA DecidedAfterRecord ==
  ASSUME BufferTypeOK, DecidedBounded, NEW t \in Trace, NEW verdict, RecordDecision(t, verdict)
  PROVE  DecidedBounded'
<1>1. PICK order, n, size : order = Append(decidedOrder, t) /\ n = Len(decidedOrder)
                            /\ size = DecidedCacheSize
  OBVIOUS
<1>2. n \in Nat /\ size \in Nat /\ decidedOrder \in Seq(Trace)
  BY <1>1, BufferFacts DEF BufferTypeOK
<1>3. /\ order \in Seq(Trace) /\ Len(order) = n + 1
      /\ \A i \in 1 .. n : order[i] = decidedOrder[i]
      /\ order[n + 1] = t
  BY <1>1, <1>2
<1>4. PICK over : over = IF DecidedCacheSize > 0 /\ Len(order) > DecidedCacheSize
                         THEN Len(order) - DecidedCacheSize ELSE 0
  OBVIOUS
<1>5. PICK k \in over .. Len(decidedOrder) :
        /\ decided' = [u \in Trace |->
                         IF u \in {order[i] : i \in 1 .. k} THEN "none"
                         ELSE IF u = t THEN verdict ELSE decided[u]]
        /\ decidedOrder' = SubSeq(order, k + 1, Len(order))
  BY <1>1, <1>4, Zenon DEF RecordDecision
<1>6. k \in 0 .. n /\ (size > 0 => n + 1 - k <= size)
  <2>1. PICK m \in Nat : m = Len(order) /\ m = n + 1
    BY <1>2, <1>3
  <2>2. over = IF size > 0 /\ m > size THEN m - size ELSE 0
    BY <1>1, <1>4, <2>1, Zenon
  <2>3. over \in Nat /\ (size > 0 => m - over <= size)
    BY <1>2, <2>1, <2>2
  <2> QED
    BY <1>1, <1>2, <1>5, <2>1, <2>3
<1>7. PICK new : new = decidedOrder'
  OBVIOUS
<1>8. Len(new) = n + 1 - k /\ \A i \in 1 .. n + 1 - k : new[i] = order[k + i]
  BY <1>2, <1>3, <1>5, <1>6, <1>7
<1>9. ASSUME NEW u \in Trace, decided'[u] # "none"
      PROVE  \E i \in 1 .. Len(new) : new[i] = u
  <2>1. u \notin {order[i] : i \in 1 .. k} /\ (u = t \/ decided[u] # "none")
    BY <1>5, <1>9
  <2>2. PICK i \in 1 .. n + 1 : order[i] = u
    <3>1. CASE u = t
      BY <1>2, <1>3, <3>1
    <3>2. CASE decided[u] # "none"
      <4>1. PICK i \in 1 .. n : decidedOrder[i] = u
        BY <1>1, <3>2 DEF DecidedBounded
      <4> QED
        BY <1>2, <1>3, <4>1
    <3> QED
      BY <2>1, <3>1, <3>2
  <2>3. ~(i \in 1 .. k)
    BY <2>1, <2>2
  <2>4. i - k \in 1 .. n + 1 - k /\ k + (i - k) = i
    BY <1>2, <1>6, <2>2, <2>3
  <2>5. new[i - k] = u
    BY <1>8, <2>2, <2>4
  <2> QED
    BY <1>8, <2>4, <2>5
<1>10. size > 0 => Len(new) <= size
  BY <1>6, <1>8
<1> QED
  BY <1>1, <1>7, <1>9, <1>10 DEF DecidedBounded

LEMMA NextDecided ==
  ASSUME TypeOK, DecidedBounded, [Next]_vars
  PROVE  DecidedBounded'
<1>1. BufferTypeOK
  BY DEF TypeOK
<1>2. CASE UNCHANGED <<decided, decidedOrder>>
  BY <1>2 DEF DecidedBounded
<1>3. CASE Crash
  <2>1. decidedOrder' = <<>> /\ \A t \in Trace : decided'[t] = "none"
    BY <1>3 DEF Crash, Restart
  <2>2. Len(decidedOrder') = 0
    BY <2>1
  <2> QED
    BY <2>1, <2>2, BufferFacts DEF DecidedBounded
<1>4. ASSUME NEW w \in Worker, RecordVerdict(w) PROVE DecidedBounded'
  <2>1. job[w].trace \in Trace
    BY <1>4 DEF RecordVerdict, TypeOK, JobTypeOK
  <2>2. RecordDecision(job[w].trace, job[w].verdict)
    BY <1>4 DEF RecordVerdict
  <2> QED
    BY <1>1, <2>1, <2>2, DecidedAfterRecord
<1> QED
  BY <1>2, <1>3, <1>4, GroupKeeps
  DEF Next, vars, ConsumerStep, JobStep, SweeperStep, WatchdogStep, Poll, NextRecord,
      TrackRecord, AdmitRecord, Admit, Evict, EarlyExit, PopReady, Remove, SkipCommit,
      GatherCommits, Commit, EmitOk, EmitError, FinishLookup, FinishResolve, SweepNext,
      WatchdogScan, WatchdogCheck, WatchdogResolve, WatchdogForget, Age, bufferVars

LEMMA InitBounds == Init => BoundsInv
<1> SUFFICES ASSUME Init PROVE BoundsInv
  OBVIOUS
<1>1. /\ \A t \in Trace : inflight[t].recs = {} /\ inflight[t].bytes = 0
      /\ totalBytes = 0 /\ cpc = "poll"
      /\ decidedOrder = <<>> /\ \A t \in Trace : decided[t] = "none"
  BY DEF Init, BufferInit, NoEntry
<1>2. CountInv
  <2>1. Inflight = {}
    BY <1>1 DEF Inflight
  <2>2. Cardinality(Inflight) = 0
    BY <2>1, FS_EmptySet, Zenon
  <2> QED
    BY <1>1, <2>2, BufferFacts DEF CountInv
<1>3. Accounts
  <2>1. IsFiniteSet({})
    BY FS_EmptySet, Zenon
  <2>2. \A t \in Trace : BytesOf[t] = 0
    BY <1>1 DEF BytesOf
  <2>3. Sum(BytesOf, Trace) = 0
    BY <2>2, BufferFacts, SumOfZeros
  <2> QED
    BY <1>1, <2>1, <2>3, SumOfNone DEF Accounts
<1>4. DecidedBounded
  <2>1. Len(decidedOrder) = 0
    BY <1>1
  <2> QED
    BY <1>1, <2>1, BufferFacts DEF DecidedBounded
<1> QED
  BY <1>2, <1>3, <1>4 DEF BoundsInv

\* The buffer keeps its bound on traces, its byte counter and its decision cache
\* in step with what it holds, whichever of eviction, early exit and sweep takes
\* a trace out, and between the choice of a victim and its eviction
\* (Ingest, resolve, PopReady and recordDecision in internal/sampling/buffer.go).
THEOREM BufferIsBounded == Spec => []BufferKeepsBounds
<1>1. TypeOK /\ HolderInv /\ BoundsInv /\ [Next]_vars => BoundsInv'
  BY NextCount, NextAccounts, NextDecided DEF BoundsInv
<1>2. BoundsInv => BufferKeepsBounds
  <2> SUFFICES ASSUME BoundsInv PROVE BufferKeepsBounds
    OBVIOUS
  <2>1. TracesBounded
    BY DEF BoundsInv, CountInv, TracesBounded
  <2>2. BytesOf = SpansOf
    BY DEF BoundsInv, Accounts, BytesOf, SpansOf
  <2>3. HeldBytes = Sum(SpansOf, Trace)
    BY BufferFacts, HeldIsSum
  <2>4. totalBytes = HeldBytes
    BY <2>2, <2>3 DEF BoundsInv, Accounts
  <2>5. BytesAccounted
    BY <2>4, Zenon DEF BytesAccounted, HeldBytes
  <2> QED
    BY <2>1, <2>5 DEF BufferKeepsBounds, BoundsInv
<1> QED
  BY HolderInvariant, InitBounds, <1>1, <1>2, PTL DEF Spec
=============================================================================
