----------------------------- MODULE Assembler -----------------------------
(***************************************************************************)
(* The assembler process (cmd/assembler, internal/sampling/assembler.go):  *)
(* the consumer goroutine that polls Kafka, ingests spans and commits, the *)
(* sweeper that decides the traces whose wait is over, the watchdog that   *)
(* gives up on stale watermark entries, crashes that lose everything but   *)
(* Kafka and ClickHouse, and rebalances that give a partition to another   *)
(* worker of the group, of which the process is not told.                  *)
(*                                                                         *)
(* One action is one critical section (a.mu, b.mu or w.mu) or one call     *)
(* that leaves the process (poll, write, commit): between any two of them  *)
(* the other goroutines may run.  Verdicts, and whether the root closure   *)
(* condition holds, depend on span contents and are left open.             *)
(***************************************************************************)
EXTENDS OffsetWatermark, Buffer, CommitGate, FiniteSetsExt

CONSTANTS
  Eviction,      \* "forced_decision" or "discard"
  MaxFailures,   \* bound on failed or unacknowledged external calls
  MaxCrashes,    \* bound on crashes
  MaxExpiries,   \* bound on how often an entry outlives WATERMARK_MAX_AGE
  MaxTakeovers   \* bound on crashes and partitions taken away, together

NoTrace == "no trace"
NoPartition == "no partition"

ASSUME AssemblerAssumption ==
  /\ NoTrace \notin Trace
  /\ NoPartition \notin Partition
  /\ Eviction \in {"forced_decision", "discard"}
  /\ MaxFailures \in Nat
  /\ MaxCrashes \in Nat
  /\ MaxExpiries \in Nat
  /\ MaxTakeovers \in Nat

VARIABLES
  log,           \* contents of the spans topic
  brokerOffset,  \* offset committed for the group, survives crashes
  stored,        \* records whose span is in ClickHouse, survives crashes
  pos,           \* the consumer's fetch position
  pending,       \* RunWithCommitGate: highest offset fetched
  committed,     \* RunWithCommitGate: offset after the last one committed
  commits,       \* RunWithCommitGate: the offsets this cycle commits
  mine,          \* the partitions the group assigns to this process
  moved,         \* those that another worker has had, and may commit on
  cpc,           \* where the consumer goroutine is
  todo,          \* records of this poll not yet ingested
  cur,           \* the record being ingested
  victim,        \* evictedID: trace chosen for eviction, NoTrace if none
  partitionOf,   \* Assembler.partitionOf, NoPartition when absent
  job,           \* decideAndEmit, doForceDecide or late write in progress
  ready,         \* what PopReady returned and the sweeper has not decided
  dog,           \* the watchdog's pass
  failures, crashes, expiries,
  \* History variables: no action reads them in a guard.
  dropped,       \* records decided drop
  gaveUp,        \* records counted as lost: evicted, or expired by watchdog
  failed,        \* records some write of which returned an error
  reopened       \* traces ingested while the bookkeeping of an earlier
                 \* assembly of the same trace was unfinished

groupVars == <<mine, moved>>
consumerVars == <<brokerOffset, pos, pending, committed, commits, groupVars>>
ghostVars == <<dropped, gaveUp, failed, reopened>>
loopVars == <<cpc, todo, cur, victim>>
vars == <<wmVars, bufferVars, consumerVars, ghostVars, loopVars, log, stored,
          partitionOf, job, ready, dog, failures, crashes, expiries>>

NoRecord == <<>>
NoCommit == -1
Worker == {"consumer", "sweeper"}

\* A job is the rest of decideAndEmit ("normal"), of resolve with
\* doForceDecide ("forced") or of Ingest's late branches ("late").
NoJob == [step |-> "idle", kind |-> "normal", trace |-> NoTrace,
          recs |-> {}, verdict |-> "drop", part |-> NoPartition]
Job == [step    : {"idle", "emit", "record", "lookup", "resolve"},
        kind    : {"normal", "forced", "late"},
        trace   : Trace \cup {NoTrace},
        recs    : SUBSET Record,
        verdict : Verdict,
        part    : Partition \cup {NoPartition}]

Dog == [step  : {"idle", "check", "resolve", "forget"},
        todo  : SUBSET (Partition \X Trace),
        part  : Partition \cup {NoPartition},
        trace : Trace \cup {NoTrace}]
NoDog == [step |-> "idle", todo |-> {}, part |-> NoPartition, trace |-> NoTrace]

LoopTypeOK ==
  /\ log \in Logs
  /\ brokerOffset \in [Partition -> 0 .. LogLen]
  /\ pos \in [Partition -> 0 .. LogLen]
  /\ pending \in [Partition -> Offset \cup {NoPending}]
  /\ committed \in [Partition -> 0 .. LogLen]
  /\ commits \in [Partition -> Offset \cup {NoCommit}]
  /\ mine \in SUBSET Partition
  /\ moved \in SUBSET Partition
  /\ cpc \in {"poll", "next", "track", "admit", "evict", "early", "commit"}
  /\ todo \in SUBSET Record
  /\ cur \in Record \cup {NoRecord}
  /\ victim \in Trace \cup {NoTrace}
  /\ cpc \in {"track", "admit", "evict", "early"} =>
       cur \in Record /\ log[cur] \in Trace

JobTypeOK ==
  /\ partitionOf \in [Trace -> Partition \cup {NoPartition}]
  /\ job \in [Worker -> Job]
  /\ \A w \in Worker : job[w].step # "idle" => job[w].trace \in Trace
  /\ ready \in [Trace -> Entry]
  /\ dog \in Dog
  /\ dog.step \in {"resolve", "forget"} => dog.trace \in Trace

HistoryTypeOK ==
  /\ stored \in SUBSET Record
  /\ dropped \in SUBSET Record
  /\ gaveUp \in SUBSET Record
  /\ failed \in SUBSET Record
  /\ reopened \in SUBSET Trace
  /\ failures \in 0 .. MaxFailures
  /\ crashes \in 0 .. MaxCrashes
  /\ expiries \in 0 .. MaxExpiries

\* Every variable has its type.  The byte counter is left to BytesAccounted.
TypeOK == WmTypeOK /\ BufferTypeOK /\ LoopTypeOK /\ JobTypeOK /\ HistoryTypeOK

Init ==
  /\ WmInit
  /\ BufferInit
  /\ log \in Logs
  /\ brokerOffset = [p \in Partition |-> 0]
  /\ pos = [p \in Partition |-> 0]
  /\ pending = [p \in Partition |-> NoPending]
  /\ committed = [p \in Partition |-> 0]
  /\ commits = [p \in Partition |-> NoCommit]
  /\ mine = Partition /\ moved = {}
  /\ cpc = "poll" /\ todo = {} /\ cur = NoRecord /\ victim = NoTrace
  /\ partitionOf = [t \in Trace |-> NoPartition]
  /\ job = [w \in Worker |-> NoJob]
  /\ ready = [t \in Trace |-> NoEntry]
  /\ dog = NoDog
  /\ stored = {} /\ dropped = {} /\ gaveUp = {} /\ failed = {} /\ reopened = {}
  /\ failures = 0 /\ crashes = 0 /\ expiries = 0

-----------------------------------------------------------------------------
(* The state of a record.                                                  *)

\* The span of r is accounted for: stored, dropped by a decision, or counted
\* as lost by EvictedTracesTotal or OffsetWatermarkExpiredTotal.  A payload
\* that does not decode is logged and skipped.
Settled(r) == log[r] = Malformed \/ r \in stored \cup dropped \cup gaveUp

\* This process has handed r to the buffer.
Ingested(r) ==
  /\ r[2] < pos[r[1]]
  /\ r \notin todo
  /\ ~(r = cur /\ cpc \in {"track", "admit"})

Limbo(t) == {r \in Record : log[r] = t /\ Ingested(r) /\ ~Settled(r)}

\* An earlier assembly of t is unfinished elsewhere: the sweeper or the
\* watchdog is at work on it, or its write failed.
Adrift(t) ==
  \/ ready[t].recs # {}
  \/ job["sweeper"].trace = t
  \/ dog.trace = t
  \/ ~(Limbo(t) \subseteq inflight[t].recs)

-----------------------------------------------------------------------------
(* The consumer goroutine: RunWithCommitGate, handleSpans, Ingest.         *)

Free(w) == job[w].step = "idle"
Start(w, kind, t, recs, step) ==
  job' = [job EXCEPT ![w] = [NoJob EXCEPT !.step = step, !.kind = kind,
                                          !.trace = t, !.recs = recs]]

\* Mutant: pending only knows the partitions of this poll.
PollForgettingPending(upto) ==
  /\ cpc = "poll"
  /\ \A p \in Partition : pos[p] <= upto[p] /\ (p \notin mine => upto[p] = pos[p])
  /\ pos' = upto
  /\ todo' = {r \in Record : pos[r[1]] <= r[2] /\ r[2] < upto[r[1]]}
  /\ pending' = [p \in Partition |->
                   IF upto[p] > pos[p] THEN upto[p] - 1 ELSE NoPending]
  /\ cpc' = "next"
  /\ UNCHANGED <<wmVars, bufferVars, ghostVars, brokerOffset, committed, commits,
                 groupVars, log, stored, cur, victim, partitionOf, job, ready, dog,
                 failures, crashes, expiries>>

\* PollFetches returns some of the records that follow the fetch position on
\* the partitions assigned, none of them when the poll times out.
Poll(upto) ==
  /\ cpc = "poll"
  /\ \A p \in Partition : pos[p] <= upto[p] /\ (p \notin mine => upto[p] = pos[p])
  /\ pos' = upto
  /\ todo' = {r \in Record : pos[r[1]] <= r[2] /\ r[2] < upto[r[1]]}
  /\ pending' = [p \in Partition |->
                   IF upto[p] > pos[p] /\ upto[p] - 1 > pending[p]
                   THEN upto[p] - 1 ELSE pending[p]]
  /\ cpc' = "next"
  /\ UNCHANGED <<wmVars, bufferVars, ghostVars, brokerOffset, committed, commits,
                 groupVars, log, stored, cur, victim, partitionOf, job, ready, dog,
                 failures, crashes, expiries>>

\* handleSpans' loop, up to Ingest's first critical section.  The records of
\* a partition come in offset order.
NextRecord(r) ==
  /\ cpc = "next"
  /\ Free("consumer")
  /\ r \in todo
  /\ \A q \in todo : q[1] = r[1] => r[2] <= q[2]
  /\ todo' = todo \ {r}
  /\ \/ /\ log[r] = Malformed
        /\ UNCHANGED <<cpc, cur, partitionOf>>
     \/ /\ log[r] # Malformed
        /\ cur' = r
        /\ cpc' = "track"
        /\ partitionOf' = [partitionOf EXCEPT ![log[r]] =
                             IF @ = NoPartition THEN r[1] ELSE @]
  /\ UNCHANGED <<wmVars, bufferVars, consumerVars, ghostVars, log, stored, victim,
                 job, ready, dog, failures, crashes, expiries>>

\* Ingest: a.wm.Track.
TrackRecord ==
  /\ cpc = "track"
  /\ Track(cur[1], cur[2], log[cur])
  /\ cpc' = "admit"
  /\ UNCHANGED <<bufferVars, consumerVars, ghostVars, log, stored, todo, cur,
                 victim, partitionOf, job, ready, dog, failures, crashes, expiries>>

\* Ingest: Buffer.Ingest classifies the span as late, or admits it and picks
\* the oldest trace as victim when the buffer is now over a bound.
AdmitRecord ==
  LET t == log[cur] IN
  /\ cpc = "admit"
  /\ reopened' = IF Adrift(t) \/ ~Tracked(cur[1], t) THEN reopened \cup {t}
                                                    ELSE reopened
  /\ \/ /\ decided[t] = "sample"
        /\ Start("consumer", "late", t, {cur}, "emit")
        /\ cpc' = "next"
        /\ cur' = NoRecord
        /\ UNCHANGED <<bufferVars, victim, dropped>>
     \/ /\ decided[t] = "drop"
        /\ dropped' = dropped \cup {cur}
        /\ Start("consumer", "late", t, {cur}, "lookup")
        /\ cpc' = "next"
        /\ cur' = NoRecord
        /\ UNCHANGED <<bufferVars, victim>>
     \/ /\ decided[t] = "none"
        /\ Admit(t, cur)
        /\ IF NeedsEviction
           THEN /\ cpc' = "evict"
                /\ \E v \in Trace : OldestIn(inflight', Inflight', v) /\ victim' = v
           ELSE cpc' = "early" /\ UNCHANGED victim
        /\ UNCHANGED <<cur, job, dropped>>
  /\ UNCHANGED <<wmVars, consumerVars, gaveUp, failed, log, stored, todo,
                 partitionOf, ready, dog, failures, crashes, expiries>>

\* Buffer.resolve: nothing when the sweeper took the victim meanwhile.
Evict ==
  /\ cpc = "evict"
  /\ \/ /\ victim \notin Inflight
        /\ UNCHANGED <<bufferVars, job, gaveUp>>
     \/ /\ victim \in Inflight
        /\ Remove({victim}, inflight[victim].bytes)
        /\ IF Eviction = "discard"
           THEN gaveUp' = gaveUp \cup inflight[victim].recs /\ UNCHANGED job
           ELSE /\ Start("consumer", "forced", victim, inflight[victim].recs, "emit")
                /\ UNCHANGED gaveUp
  /\ cpc' = "early"
  /\ victim' = NoTrace
  /\ UNCHANGED <<wmVars, consumerVars, dropped, failed, reopened, log, stored,
                 todo, cur, partitionOf, ready, dog, failures, crashes, expiries>>

\* Mutant: the trace is decided but not taken out of the buffer.
EarlyExitKeepingTrace ==
  LET t == log[cur] IN
  /\ cpc = "early"
  /\ Free("consumer")
  /\ \/ UNCHANGED <<bufferVars, job>>
     \/ /\ t \in Inflight
        /\ Start("consumer", "normal", t, inflight[t].recs, "emit")
        /\ UNCHANGED bufferVars
  /\ cpc' = "next"
  /\ cur' = NoRecord
  /\ UNCHANGED <<wmVars, consumerVars, ghostVars, log, stored, todo, victim,
                 partitionOf, ready, dog, failures, crashes, expiries>>

\* TryEarlyExit, after any forced decision has been dealt with.
EarlyExit ==
  LET t == log[cur] IN
  /\ cpc = "early"
  /\ Free("consumer")
  /\ \/ UNCHANGED <<bufferVars, job>>
     \/ /\ t \in Inflight
        /\ Remove({t}, inflight[t].bytes)
        /\ Start("consumer", "normal", t, inflight[t].recs, "emit")
  /\ cpc' = "next"
  /\ cur' = NoRecord
  /\ UNCHANGED <<wmVars, consumerVars, ghostVars, log, stored, todo, victim,
                 partitionOf, ready, dog, failures, crashes, expiries>>

\* The handlers of the poll are done; when the one of another topic failed,
\* nothing is committed in this cycle.
PollDone == cpc = "next" /\ Free("consumer") /\ todo = {}

SkipCommit ==
  /\ PollDone
  /\ failures < MaxFailures
  /\ failures' = failures + 1
  /\ cpc' = "poll"
  /\ UNCHANGED <<wmVars, bufferVars, consumerVars, ghostVars, log, stored, todo,
                 cur, victim, partitionOf, job, ready, dog, crashes, expiries>>

\* The offset to commit on p, given the ceiling SafeOffset allows there.
Due(p, offset) ==
  IF CommitDue(offset, committed[p]) THEN offset ELSE NoCommit

\* Mutant: the ceiling is not consulted.
ToCommitUngated(p, c) ==
  IF pending[p] = NoPending THEN c = NoCommit ELSE c = Due(p, pending[p])

ToCommit(p, c) ==
  \/ pending[p] = NoPending /\ c = NoCommit
  \/ /\ pending[p] # NoPending
     /\ ~HasFloor(p)
     /\ c = Due(p, CommitOffset(pending[p], FALSE, 0))
  \/ /\ pending[p] # NoPending
     /\ \E floor \in Offset :
          /\ IsFloor(p, floor)
          /\ c = Due(p, CommitOffset(pending[p], TRUE, floor - 1))

\* The loop that consults the ceiling of every partition with pending offsets.
GatherCommits ==
  /\ PollDone
  /\ commits' \in {c \in [Partition -> Offset \cup {NoCommit}] :
                   \A p \in Partition : ToCommit(p, c[p])}
  /\ cpc' = IF \A p \in Partition : commits'[p] = NoCommit THEN "poll" ELSE "commit"
  /\ UNCHANGED <<wmVars, bufferVars, ghostVars, brokerOffset, pos, pending,
                 committed, groupVars, log, stored, todo, cur, victim,
                 partitionOf, job, ready, dog, failures, crashes, expiries>>

After(offsets) ==
  [p \in Partition |-> IF commits[p] = NoCommit THEN offsets[p] ELSE commits[p] + 1]

\* CommitRecords succeeds, fails, or succeeds and the answer is lost.
Commit ==
  /\ cpc = "commit"
  /\ \/ /\ brokerOffset' = After(brokerOffset)
        /\ committed' = After(committed)
        /\ UNCHANGED failures
     \/ /\ failures < MaxFailures
        /\ failures' = failures + 1
        /\ brokerOffset' \in {brokerOffset, After(brokerOffset)}
        /\ UNCHANGED committed
  /\ commits' = [p \in Partition |-> NoCommit]
  /\ cpc' = "poll"
  /\ UNCHANGED <<wmVars, bufferVars, ghostVars, pos, pending, groupVars, log,
                 stored, todo, cur, victim, partitionOf, job, ready, dog,
                 crashes, expiries>>

-----------------------------------------------------------------------------
(* Deciding a trace, on the consumer or on the sweeper goroutine.          *)

\* The step that follows in decideAndEmit, in resolve with doForceDecide
\* (which records the decision last, and even when the write failed), and in
\* Ingest's late branches.
AfterEmit(kind) == IF kind = "normal" THEN "record" ELSE "lookup"
\* Mutant: the trace is finished although its write failed.
AfterErrorFinish(kind) == AfterEmit(kind)
AfterError(kind) == IF kind = "forced" THEN "record" ELSE "idle"
AfterRecord(kind) == IF kind = "normal" THEN "lookup" ELSE "idle"
AfterResolve(kind) == IF kind = "forced" THEN "record" ELSE "idle"

Goto(j, step) == IF step = "idle" THEN NoJob ELSE [j EXCEPT !.step = step]

\* decide and emit (or lateAttach) with no error: a dropped trace is not
\* written, a sampled one is durable when emit returns.
EmitOk(w) ==
  LET j == job[w] IN
  /\ j.step = "emit"
  /\ \E v \in Verdict :
       /\ j.kind = "late" => v = "sample"
       /\ stored' = IF v = "sample" THEN stored \cup j.recs ELSE stored
       /\ dropped' = IF v = "drop" THEN dropped \cup j.recs ELSE dropped
       /\ job' = [job EXCEPT ![w] = Goto([j EXCEPT !.verdict = v], AfterEmit(j.kind))]
  /\ UNCHANGED <<wmVars, bufferVars, consumerVars, loopVars, gaveUp, failed,
                 reopened, log, partitionOf, ready, dog, failures, crashes, expiries>>

\* emit returns an error: the spans may be in ClickHouse all the same, when
\* only a later table failed or when the wait ran into its timeout.
EmitError(w) ==
  LET j == job[w] IN
  /\ j.step = "emit"
  /\ failures < MaxFailures
  /\ failures' = failures + 1
  /\ stored' \in {stored, stored \cup j.recs}
  /\ failed' = failed \cup j.recs
  /\ job' = [job EXCEPT ![w] = Goto([j EXCEPT !.verdict = "sample"], AfterError(j.kind))]
  /\ UNCHANGED <<wmVars, bufferVars, consumerVars, loopVars, dropped, gaveUp,
                 reopened, log, partitionOf, ready, dog, crashes, expiries>>

RecordVerdict(w) ==
  LET j == job[w] IN
  /\ j.step = "record"
  /\ RecordDecision(j.trace, j.verdict)
  /\ job' = [job EXCEPT ![w] = Goto(j, AfterRecord(j.kind))]
  /\ UNCHANGED <<wmVars, consumerVars, loopVars, ghostVars, log, stored,
                 partitionOf, ready, dog, failures, crashes, expiries>>

\* finishTrace, under a.mu.
FinishLookup(w) ==
  LET j == job[w]
      part == partitionOf[j.trace]
      next == IF part = NoPartition THEN AfterResolve(j.kind) ELSE "resolve"
  IN
  /\ j.step = "lookup"
  /\ partitionOf' = [partitionOf EXCEPT ![j.trace] = NoPartition]
  /\ job' = [job EXCEPT ![w] = Goto([j EXCEPT !.part = part], next)]
  /\ UNCHANGED <<wmVars, bufferVars, consumerVars, loopVars, ghostVars, log,
                 stored, ready, dog, failures, crashes, expiries>>

\* finishTrace, after a.mu is released: a.wm.Resolve.
FinishResolve(w) ==
  LET j == job[w] IN
  /\ j.step = "resolve"
  /\ Resolve(j.part, j.trace)
  /\ job' = [job EXCEPT ![w] = Goto(j, AfterResolve(j.kind))]
  /\ UNCHANGED <<bufferVars, consumerVars, loopVars, ghostVars, log, stored,
                 partitionOf, ready, dog, failures, crashes, expiries>>

-----------------------------------------------------------------------------
(* The sweeper: RunSweep.                                                  *)

Waiting == {t \in Trace : ready[t].recs # {}}

PopReady ==
  /\ Free("sweeper")
  /\ Waiting = {}
  /\ \E S \in SUBSET Trace :
       /\ ReadySet(S)
       /\ ready' = [t \in Trace |-> IF t \in S THEN inflight[t] ELSE NoEntry]
       /\ Remove(S, MapThenSumSet(LAMBDA t : inflight[t].bytes, S))
  /\ UNCHANGED <<wmVars, consumerVars, loopVars, ghostVars, log, stored,
                 partitionOf, job, dog, failures, crashes, expiries>>

SweepNext(t) ==
  /\ Free("sweeper")
  /\ OldestIn(ready, Waiting, t)
  /\ Start("sweeper", "normal", t, ready[t].recs, "emit")
  /\ ready' = [ready EXCEPT ![t] = NoEntry]
  /\ UNCHANGED <<wmVars, bufferVars, consumerVars, loopVars, ghostVars, log,
                 stored, partitionOf, dog, failures, crashes, expiries>>

-----------------------------------------------------------------------------
(* The watchdog: checkWatermarkOnce.                                       *)

WatchdogScan ==
  /\ dog.step = "idle"
  /\ StaleCandidates # {}
  /\ dog' = [dog EXCEPT !.step = "check", !.todo = StaleCandidates]
  /\ UNCHANGED <<wmVars, bufferVars, consumerVars, loopVars, ghostVars, log,
                 stored, partitionOf, job, ready, failures, crashes, expiries>>

\* Mutant: Buffer.Tracks is not consulted.
WatchdogCheckBlind(e) ==
  /\ dog.step = "check"
  /\ e \in dog.todo
  /\ dog' = [step |-> "resolve", todo |-> dog.todo \ {e}, part |-> e[1], trace |-> e[2]]
  /\ UNCHANGED <<wmVars, bufferVars, consumerVars, loopVars, ghostVars, log,
                 stored, partitionOf, job, ready, failures, crashes, expiries>>

\* The next candidate is left alone when the buffer still knows its trace.
WatchdogCheck(e) ==
  /\ dog.step = "check"
  /\ e \in dog.todo
  /\ dog' = IF Tracks(e[2])
            THEN IF dog.todo = {e} THEN NoDog ELSE [dog EXCEPT !.todo = @ \ {e}]
            ELSE [step |-> "resolve", todo |-> dog.todo \ {e},
                  part |-> e[1], trace |-> e[2]]
  /\ UNCHANGED <<wmVars, bufferVars, consumerVars, loopVars, ghostVars, log,
                 stored, partitionOf, job, ready, failures, crashes, expiries>>

\* What the entry covered, and is not back in the buffer, counts as expired.
WatchdogResolve ==
  /\ dog.step = "resolve"
  /\ Resolve(dog.part, dog.trace)
  /\ gaveUp' = gaveUp \cup (Limbo(dog.trace) \ inflight[dog.trace].recs)
  /\ dog' = [dog EXCEPT !.step = "forget"]
  /\ UNCHANGED <<bufferVars, consumerVars, loopVars, dropped, failed, reopened,
                 log, stored, partitionOf, job, ready, failures, crashes, expiries>>

WatchdogForget ==
  /\ dog.step = "forget"
  /\ partitionOf' = [partitionOf EXCEPT ![dog.trace] = NoPartition]
  /\ dog' = IF dog.todo = {} THEN NoDog
            ELSE [NoDog EXCEPT !.step = "check", !.todo = dog.todo]
  /\ UNCHANGED <<wmVars, bufferVars, consumerVars, loopVars, ghostVars, log,
                 stored, job, ready, failures, crashes, expiries>>

-----------------------------------------------------------------------------
Age(p, t) ==
  /\ expiries < MaxExpiries
  /\ expiries' = expiries + 1
  /\ GrowOld(p, t)
  /\ UNCHANGED <<bufferVars, consumerVars, loopVars, ghostVars, log, stored,
                 partitionOf, job, ready, dog, failures, crashes>>

\* Mutant: a callback drops the entries of p and leaves what is pending there.
RevokeClearingFloor(p) ==
  /\ p \in mine
  /\ crashes + Cardinality(moved \cup {p}) <= MaxTakeovers
  /\ mine' = mine \ {p}
  /\ moved' = moved \cup {p}
  /\ wm' = [wm EXCEPT ![p] = [t \in Trace |-> NotTracked]]
  /\ UNCHANGED <<aged, bufferVars, ghostVars, loopVars, brokerOffset, pos,
                 pending, committed, commits, log, stored, partitionOf, job,
                 ready, dog, failures, crashes, expiries>>

\* The group gives p to another worker.  NewConsumer registers no callback for
\* it: the fetches of p stop, and everything the process remembers about p --
\* pending, committed, the buffer, the watermark -- stays as it is.
Revoke(p) ==
  /\ p \in mine
  /\ crashes + Cardinality(moved \cup {p}) <= MaxTakeovers
  /\ mine' = mine \ {p}
  /\ moved' = moved \cup {p}
  /\ UNCHANGED <<wmVars, bufferVars, ghostVars, loopVars, brokerOffset, pos,
                 pending, committed, commits, log, stored, partitionOf, job,
                 ready, dog, failures, crashes, expiries>>

\* Another worker that has had p commits there.  It keeps the promise of
\* at-least-once itself: what it commits past is settled, here as stored.  Its
\* offset may lie before the one committed, when it lost p in its turn.
OtherCommits(p, o) ==
  /\ p \in moved
  /\ brokerOffset' = [brokerOffset EXCEPT ![p] = o]
  /\ stored' = stored \cup {r \in Record : r[1] = p /\ r[2] < o /\ ~Settled(r)}
  /\ UNCHANGED <<wmVars, bufferVars, ghostVars, loopVars, pos, pending,
                 committed, commits, groupVars, log, partitionOf, job, ready,
                 dog, failures, crashes, expiries>>

\* A new process joins the group and fetches from the offsets given, its
\* memory empty.
Restart(from) ==
  /\ crashes < MaxCrashes
  /\ crashes + Cardinality(moved) < MaxTakeovers
  /\ crashes' = crashes + 1
  /\ pos' = from
  /\ pending' = [p \in Partition |-> NoPending]
  /\ committed' = [p \in Partition |-> 0]
  /\ commits' = [p \in Partition |-> NoCommit]
  /\ mine' = Partition
  /\ cpc' = "poll" /\ todo' = {} /\ cur' = NoRecord /\ victim' = NoTrace
  /\ partitionOf' = [t \in Trace |-> NoPartition]
  /\ job' = [w \in Worker |-> NoJob]
  /\ ready' = [t \in Trace |-> NoEntry]
  /\ dog' = NoDog
  /\ wm' = [p \in Partition |-> [t \in Trace |-> NotTracked]]
  /\ aged' = {}
  /\ inflight' = [t \in Trace |-> NoEntry]
  /\ totalBytes' = 0 /\ clock' = 0
  /\ decided' = [t \in Trace |-> "none"]
  /\ decidedOrder' = <<>>
  /\ UNCHANGED <<ghostVars, log, brokerOffset, moved, stored, failures, expiries>>

\* Mutant: the new process does not resume from the committed offsets.
CrashToStart == Restart([p \in Partition |-> 0])

\* The process dies and a new one resumes from the committed offsets.
Crash == Restart(brokerOffset)

ConsumerStep ==
  \/ \E upto \in [Partition -> 0 .. LogLen] : Poll(upto)
  \/ \E r \in Record : NextRecord(r)
  \/ TrackRecord \/ AdmitRecord \/ Evict \/ EarlyExit
  \/ SkipCommit \/ GatherCommits \/ Commit

JobStep(w) ==
  EmitOk(w) \/ EmitError(w) \/ RecordVerdict(w) \/ FinishLookup(w) \/ FinishResolve(w)

SweeperStep == PopReady \/ (\E t \in Trace : SweepNext(t))

WatchdogStep ==
  \/ WatchdogScan \/ WatchdogResolve \/ WatchdogForget
  \/ \E e \in Partition \X Trace : WatchdogCheck(e)

\* What the rest of the consumer group does to this process.
GroupStep ==
  \E p \in Partition : Revoke(p) \/ \E o \in 0 .. LogLen : OtherCommits(p, o)

Next ==
  \/ ConsumerStep
  \/ \E w \in Worker : JobStep(w)
  \/ SweeperStep
  \/ WatchdogStep
  \/ \E p \in Partition, t \in Trace : Age(p, t)
  \/ GroupStep
  \/ Crash

Spec == Init /\ [][Next]_vars

\* The goroutines keep running while the process lives, a poll returns records
\* that are available again and again, and time passes.
Fetch == \E upto \in [Partition -> 0 .. LogLen] : upto # pos /\ Poll(upto)
Fairness ==
  /\ WF_vars(ConsumerStep)
  /\ SF_vars(Fetch)
  /\ \A w \in Worker : WF_vars(JobStep(w))
  /\ WF_vars(SweeperStep)
  /\ WF_vars(WatchdogStep)
  /\ \A p \in Partition, t \in Trace : WF_vars(Age(p, t))

FairSpec == Spec /\ Fairness
-----------------------------------------------------------------------------
(* Properties.                                                             *)

\* No commit passes the first offset of a trace still tracked: what this
\* process is about to commit lies below every watermark entry, also on a
\* partition it has lost, and so does the offset the broker holds for the group
\* where no other worker commits -- whatever the interleaving of Track, Resolve,
\* the ceiling check and CommitRecords.
FloorRespected ==
  \A p \in Partition, t \in Trace :
    Tracked(p, t) => /\ commits[p] < wm[p][t]
                     /\ p \notin moved => brokerOffset[p] <= wm[p][t]

\* At-least-once: a record the group has committed past is stored, was decided
\* drop, or is counted as lost -- unless a span of its trace was ingested while
\* an earlier assembly of the trace was unfinished (see NeverCommitsUndecided).
CommittedIsSettled ==
  \A r \in Record :
    r[2] < brokerOffset[r[1]] => Settled(r) \/ log[r] \in reopened

\* A span is held in one place only: the buffer, the sweeper's backlog or one
\* of the two decisions in progress.  Otherwise eviction, early exit and sweep
\* could decide the same trace twice and store its spans twice.
SingleHolder ==
  \A t \in Trace, r \in Record :
    /\ r \in inflight[t].recs =>
         r \notin ready[t].recs \cup job["consumer"].recs \cup job["sweeper"].recs
    /\ r \in ready[t].recs => r \notin job["consumer"].recs \cup job["sweeper"].recs
    /\ r \notin job["consumer"].recs \cap job["sweeper"].recs

\* Buffer.Ingest leaves at most MaxTraces traces in flight once its eviction
\* is done, although the victim is chosen before the lock is released.
TracesBounded == cpc # "evict" => Cardinality(Inflight) <= MaxTraces

\* Every path that removes a trace gives back exactly what its spans added.
BytesAccounted ==
  totalBytes = MapThenSumSet(LAMBDA t :
                 MapThenSumSet(LAMBDA r : SpanSize[r], inflight[t].recs), Trace)

\* Every decision remembered is still in the FIFO that evicts it.
DecidedBounded ==
  /\ \A t \in Trace : decided[t] # "none" =>
       \E i \in 1 .. Len(decidedOrder) : decidedOrder[i] = t
  /\ DecidedCacheSize > 0 => Len(decidedOrder) <= DecidedCacheSize

\* The buffer keeps its limits and its accounts whichever of eviction, early
\* exit and sweep removes a trace: the number of traces, the byte counter
\* that capacity is checked against, and the decision cache (Buffer.Ingest,
\* resolve, PopReady, recordDecision).
BufferKeepsBounds == TracesBounded /\ BytesAccounted /\ DecidedBounded

\* The group's committed offsets never move back, neither after a failed
\* commit nor after a restart that begins with an empty committed map, as long
\* as no rebalance has had two workers commit on the partition (then they do:
\* see CommitsStayMonotonic of Consumer).
OffsetsAdvance ==
  [][\A p \in Partition \ moved : brokerOffset[p] <= brokerOffset'[p]]_vars

\* Every record is eventually stored, dropped or counted as lost, even when
\* its write failed and Kafka does not redeliver it, because the watchdog
\* gives up on it in the end.  The watchdog leaves alone a trace that the
\* decision cache remembers: its unsettled records stay above the committed
\* offset, for a restart to redeliver.
EverythingSettles ==
  \A r \in Record :
    <>[](\/ Settled(r)
         \/ log[r] \in reopened
         \/ decided[log[r]] # "none" /\ r[2] >= brokerOffset[r[1]])

\* The commit floor does not stay stuck: in the end everything is committed,
\* or the only entries left are of traces that the decision cache remembers,
\* which the watchdog does not touch.
FloorReleased ==
  <>[](\A p \in Partition :
         \/ brokerOffset[p] = LogLen
         \/ \E t \in Trace : Tracked(p, t) /\ decided[t] # "none")

-----------------------------------------------------------------------------
(* Claims of the repository that the code does not keep.                   *)

\* docs/ARCHITECTURE.md: the consumer never commits past an undecided trace.
NeverCommitsUndecided ==
  \A r \in Record : r[2] < brokerOffset[r[1]] => Settled(r)

\* assembler.go, EmitFunc: a failed write leaves the commit floor held, so
\* that Kafka never advances past spans that were not stored.
FailedWriteHoldsFloor ==
  \A r \in failed : r[2] < brokerOffset[r[1]] => Settled(r)
=============================================================================
