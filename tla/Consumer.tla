------------------------------ MODULE Consumer ------------------------------
(***************************************************************************)
(* The poll loop of internal/pipeline/consumer.go for several topics: what *)
(* a failed handler, a fetch error, data lost by the broker, a lost commit *)
(* answer, a rebalance and a restart do to the offsets that the group      *)
(* commits.                                                                *)
(*                                                                         *)
(* Spans are handed to the assembler, of which a coarse view matters here: *)
(* the entry that the watermark keeps per trace, the spans buffered, those *)
(* of decisions under way and those whose write failed (Assembler has the  *)
(* rest).  Logs and metrics are written and waited for by their handler,   *)
(* one flush for the records of a poll, whose token is that set of records.*)
(***************************************************************************)
EXTENDS CommitGate, Sequences, FiniteSetsExt

CONSTANTS
  TopicPartition,
  Topic,
  TopicOf,       \* the topic of each partition
  Gated,         \* topics with a watermark: the spans topic
  Exposed,       \* partitions that may lose records, or move to another worker
  Trace,
  TraceOf,       \* the trace of each record
  LogLen,        \* bound on the length of a partition's log
  MaxLosses,     \* bound on log truncations by the broker
  Budgets        \* how many faults of each kind may come together

NoCut == -1
NoCommit == -1
Records == TopicPartition \X (0 .. LogLen - 1) \X (0 .. MaxLosses)

ASSUME ConsumerAssumption ==
  /\ TopicOf \in [TopicPartition -> Topic]
  /\ TraceOf \in [Records -> Trace]
  /\ Exposed \subseteq TopicPartition
  /\ {LogLen, MaxLosses} \subseteq Nat

VARIABLES
  log,        \* leader epoch of the record at each offset
  cut,        \* where a truncation not yet noticed by the client cut the log
  group,      \* offset committed for the group
  mine,       \* partitions assigned to this worker
  shared,     \* partitions that another worker has owned, and may still commit
  pos,        \* the client's fetch position
  pending,    \* highest offset fetched
  committed,  \* offset after the last one committed, by this process
  commits,    \* what this cycle commits
  todo,       \* records of this poll without a verdict of their handler
  failed,     \* a handler of this poll has failed
  cpc,        \* "poll", "handle" or "commit"
  held,       \* the watermark's entries: the record that each was made for
  open,       \* spans in the buffer
  taken,      \* spans of decisions under way
  limbo,      \* spans whose write failed while their trace has an entry
  durable,    \* records stored or dropped by a decision
  flushes,    \* the batches of logs and metrics that ClickHouse stored
  failures, losses, crashes, moves,
  \* History variables: no action reads them in a guard.
  withheld,   \* records of failed handlers and skipped fetches, uncommitted
  forfeited,  \* records that a later commit may pass although nobody has them
  again       \* records that Kafka delivers again, to a restart or a new owner

groupVars == <<mine, shared>>
clientVars == <<pos, pending, committed>>
pollVars == <<todo, failed>>
traceVars == <<held, open, taken, limbo>>
storeVars == <<durable, flushes>>
budgetVars == <<failures, losses, crashes, moves>>
vars == <<log, cut, group, groupVars, clientVars, commits, pollVars, cpc, traceVars,
          storeVars, budgetVars, withheld, forfeited, again>>

PartitionOf(r) == r[1]
OffsetOf(r) == r[2]
RecordAt(tp, o) == <<tp, o, log[tp][o + 1]>>
InLog(r) ==
  OffsetOf(r) < Len(log[PartitionOf(r)]) /\ RecordAt(r[1], r[2]) = r
IsGated(tp) == TopicOf[tp] \in Gated
Positions == [TopicPartition -> 0 .. LogLen]

\* Some budget allows that many failing handlers, fetches, writes and commits,
\* truncations, restarts, and partitions taken away by a rebalance.
Within(f, l, c, m) ==
  \E b \in Budgets : f <= b.failures /\ l <= b.losses /\ c <= b.crashes /\ m <= b.moves
MayFail == Within(failures + 1, losses, crashes, moves)

TypeOK ==
  /\ log \in [TopicPartition -> Seq(0 .. MaxLosses)]
  /\ \A tp \in TopicPartition : Len(log[tp]) <= LogLen
  /\ cut \in [TopicPartition -> 0 .. LogLen \cup {NoCut}]
  /\ {group, pos, committed} \subseteq Positions
  /\ mine \cup shared \subseteq TopicPartition
  /\ pending \in [TopicPartition -> 0 .. LogLen - 1 \cup {NoPending}]
  /\ commits \in [TopicPartition -> 0 .. LogLen - 1 \cup {NoCommit}]
  /\ failed \in BOOLEAN
  /\ cpc \in {"poll", "handle", "commit"}
  /\ todo \cup held \cup open \cup taken \cup limbo \subseteq Records
  /\ durable \cup withheld \cup forfeited \cup again \subseteq Records
  /\ flushes \subseteq SUBSET Records
  /\ failures \in Nat /\ losses \in 0 .. MaxLosses /\ crashes \in Nat /\ moves \in Nat

Init ==
  /\ log = [tp \in TopicPartition |-> [i \in 1 .. LogLen |-> 0]]
  /\ cut = [tp \in TopicPartition |-> NoCut]
  /\ group = [tp \in TopicPartition |-> 0]
  /\ mine = TopicPartition /\ shared = {}
  /\ pos = group /\ committed = group
  /\ pending = [tp \in TopicPartition |-> NoPending]
  /\ commits = [tp \in TopicPartition |-> NoCommit]
  /\ todo = {} /\ failed = FALSE
  /\ cpc = "poll"
  /\ held = {} /\ open = {} /\ taken = {} /\ limbo = {}
  /\ durable = {} /\ flushes = {}
  /\ failures = 0 /\ losses = 0 /\ crashes = 0 /\ moves = 0
  /\ withheld = {} /\ forfeited = {} /\ again = {}

-----------------------------------------------------------------------------
(* Kafka: the log and the assignment of partitions.                        *)

\* A record goes to the end of the log.  If the client has seen that offset
\* before, in an earlier epoch, its pending offset covers the new record too.
Produce(tp) ==
  /\ Len(log[tp]) < LogLen
  /\ log' = [log EXCEPT ![tp] = Append(@, losses)]
  /\ forfeited' = IF Len(log[tp]) <= pending[tp] \/ Len(log[tp]) < group[tp]
                  THEN forfeited \cup {<<tp, Len(log[tp]), losses>>} ELSE forfeited
  /\ UNCHANGED <<cut, group, groupVars, clientVars, commits, pollVars, cpc, traceVars,
                 storeVars, budgetVars, withheld, again>>

\* The broker comes back with a shorter log; the client's position is gone.
Truncate(tp, len) ==
  /\ tp \in Exposed
  /\ losses < MaxLosses /\ Within(failures, losses + 1, crashes, moves)
  /\ len < pos[tp] /\ len < Len(log[tp])
  /\ losses' = losses + 1
  /\ log' = [log EXCEPT ![tp] = SubSeq(@, 1, len)]
  /\ cut' = [cut EXCEPT ![tp] = IF @ = NoCut THEN len ELSE Min({@, len})]
  /\ UNCHANGED <<group, groupVars, clientVars, commits, pollVars, cpc, traceVars,
                 storeVars, failures, crashes, moves, withheld, forfeited, again>>

\* Where a member starts to fetch: at the group's offset, or at the start of a
\* partition whose log no longer reaches it.
Start(tp) == IF group[tp] <= Len(log[tp]) THEN group[tp] ELSE 0

\* Mutant: a callback drops the watermark's entries, and nothing else.
RevokeForgetsFloor(tp) ==
  /\ tp \in mine \cap Exposed
  /\ Within(failures, losses, crashes, moves + 1)
  /\ moves' = moves + 1
  /\ mine' = mine \ {tp}
  /\ shared' = shared \cup {tp}
  /\ held' = {e \in held : PartitionOf(e) # tp}
  /\ UNCHANGED <<log, cut, group, clientVars, commits, pollVars, cpc, open, taken, limbo,
                 storeVars, failures, losses, crashes, withheld, forfeited, again>>
\* A rebalance gives a partition to another worker.  The client has no callback
\* for it: what was fetched, the maps and the watermark stay.
Revoke(tp) ==
  /\ tp \in mine \cap Exposed
  /\ Within(failures, losses, crashes, moves + 1)
  /\ moves' = moves + 1
  /\ mine' = mine \ {tp}
  /\ shared' = shared \cup {tp}
  /\ UNCHANGED <<log, cut, group, clientVars, commits, pollVars, cpc, traceVars,
                 storeVars, failures, losses, crashes, withheld, forfeited, again>>

\* Another rebalance gives it back.
Assign(tp) ==
  /\ tp \notin mine
  /\ mine' = mine \cup {tp}
  /\ pos' = [pos EXCEPT ![tp] = Start(tp)]
  /\ cut' = [cut EXCEPT ![tp] = NoCut]
  /\ again' = again \cup {r \in Records :
                  InLog(r) /\ r[1] = tp /\ Start(tp) <= r[2] /\ r[2] < pos[tp]}
  /\ UNCHANGED <<log, group, shared, pending, committed, commits, pollVars, cpc,
                 traceVars, storeVars, budgetVars, withheld, forfeited>>

\* The other worker runs the same program.  It deals with records, and moves
\* the group's offset over records dealt with -- or back: it, too, may commit
\* from what it remembers of an earlier assignment.
OtherDeals(tp, upto) ==
  /\ tp \in shared
  /\ durable' = durable \cup {RecordAt(tp, o) : o \in 0 .. Min({upto, Len(log[tp])}) - 1}
  /\ UNCHANGED <<log, cut, group, groupVars, clientVars, commits, pollVars, cpc,
                 traceVars, flushes, budgetVars, withheld, forfeited, again>>

OtherCommits(tp, upto) ==
  /\ tp \in shared
  /\ upto <= Len(log[tp])
  /\ \A o \in group[tp] .. upto - 1 : RecordAt(tp, o) \in durable \cup forfeited
  /\ group' = [group EXCEPT ![tp] = upto]
  /\ UNCHANGED <<log, cut, groupVars, clientVars, commits, pollVars, cpc, traceVars,
                 storeVars, budgetVars, withheld, forfeited, again>>

-----------------------------------------------------------------------------
(* The poll.                                                               *)

\* What a fetch up to the offsets given returns: nothing of a partition that
\* is not assigned, or whose position is lost.
Fetchable(upto) ==
  \A tp \in TopicPartition :
    /\ pos[tp] <= upto[tp]
    /\ IF tp \in mine /\ cut[tp] = NoCut THEN upto[tp] <= Max({pos[tp], Len(log[tp])})
                                        ELSE upto[tp] = pos[tp]
\* Mutant: the client fetches again what the group has not committed.
FetchedAgain(upto) ==
  UNION {{RecordAt(tp, o) : o \in Min({pos[tp], group[tp]}) .. Min({upto[tp], Len(log[tp])}) - 1} :
         tp \in TopicPartition}
Fetched(upto) ==
  UNION {{RecordAt(tp, o) : o \in pos[tp] .. upto[tp] - 1} : tp \in TopicPartition}

\* Mutant: only the offsets of this poll are pending.
HighestOfPoll(records, tp) ==
  Max({NoPending} \cup {OffsetOf(r) : r \in {q \in records : PartitionOf(q) = tp}})
HighestSeen(records, tp) ==
  Max({pending[tp]} \cup {OffsetOf(r) : r \in {q \in records : PartitionOf(q) = tp}})

\* Records, or nothing when the poll timed out after commitRetryInterval.
Poll(upto) ==
  /\ cpc = "poll"
  /\ Fetchable(upto)
  /\ pos' = upto
  /\ todo' = Fetched(upto)
  /\ pending' = [tp \in TopicPartition |-> HighestSeen(todo', tp)]
  /\ failed' = FALSE
  /\ cpc' = "handle"
  /\ UNCHANGED <<log, cut, group, groupVars, committed, commits, traceVars, storeVars,
                 budgetVars, withheld, forfeited, again>>

SameTrace(r, q) == PartitionOf(r) = PartitionOf(q) /\ TraceOf[r] = TraceOf[q]

\* The spans without a verdict, and those among them of the traces of records.
Unsettled == open \cup taken \cup limbo
Mates(records) == {q \in Unsettled : \E r \in records : SameTrace(q, r)}

\* Mutant: only what lies below the new end of the log is released.
ClearedBelowReset(tp) ==
  {r \in held : PartitionOf(r) = tp /\ OffsetOf(r) < cut[tp]}
\* HandleDataLoss and OffsetWatermark.ClearBelow: the entries of the partition
\* below the offset consumed so far, also those the broker still has.  Their
\* traces stay in the buffer, but nothing keeps a commit from passing them.
Cleared(tp) ==
  {r \in held : IsGated(tp) /\ PartitionOf(r) = tp /\ OffsetOf(r) < pos[tp]}

\* What the data-loss callback releases for the partitions that report a loss.
Torn(errs) == {tp \in errs : cut[tp] # NoCut}
DataLoss(torn) == UNION {Cleared(tp) : tp \in torn}

\* Some partitions fail to be fetched, with or without data loss.  The cycle
\* ends: what other partitions returned is neither handled nor pending.
FetchError(upto, errs) ==
  LET torn == Torn(errs)
      cleared == DataLoss(torn)
  IN
  /\ cpc = "poll"
  /\ errs # {} /\ errs \subseteq mine
  /\ Fetchable(upto)
  /\ \A tp \in errs : upto[tp] = pos[tp]
  /\ \/ torn = errs /\ UNCHANGED failures
     \/ torn # errs /\ MayFail /\ failures' = failures + 1
  /\ pos' = [tp \in TopicPartition |-> IF tp \in torn THEN cut[tp] ELSE upto[tp]]
  /\ cut' = [tp \in TopicPartition |-> IF tp \in torn THEN NoCut ELSE cut[tp]]
  /\ held' = held \ cleared
  /\ limbo' = limbo \ Mates(cleared)
  /\ withheld' = withheld \cup Fetched(upto)
  /\ forfeited' = forfeited \cup (Mates(cleared) \ durable)
  /\ UNCHANGED <<log, group, groupVars, pending, committed, commits, pollVars, cpc,
                 open, taken, storeVars, losses, crashes, moves, again>>

-----------------------------------------------------------------------------
(* The handlers: cmd/assembler, handler.handle.                            *)

\* handleSpans hands the next record of a partition to Assembler.Ingest, which
\* tracks its trace -- the first offset wins -- and buffers it.
Ingest(r) ==
  /\ cpc = "handle"
  /\ r \in todo /\ IsGated(PartitionOf(r))
  /\ \A q \in todo : PartitionOf(q) = PartitionOf(r) => OffsetOf(r) <= OffsetOf(q)
  /\ todo' = todo \ {r}
  /\ held' = IF \E e \in held : SameTrace(e, r) THEN held ELSE held \cup {r}
  /\ open' = open \cup {r}
  /\ UNCHANGED <<log, cut, group, groupVars, clientVars, commits, failed, cpc, taken, limbo,
                 storeVars, budgetVars, withheld, forfeited, again>>

RecordsOf(topic) == {r \in todo : TopicOf[PartitionOf(r)] = topic}

\* handleLogs and handleMetrics, whose write succeeds.
WriteOk(topic) ==
  /\ cpc = "handle"
  /\ topic \notin Gated /\ RecordsOf(topic) # {}
  /\ todo' = todo \ RecordsOf(topic)
  /\ durable' = durable \cup RecordsOf(topic)
  /\ flushes' = flushes \cup {RecordsOf(topic)}
  /\ UNCHANGED <<log, cut, group, groupVars, clientVars, commits, failed, cpc, traceVars,
                 budgetVars, withheld, forfeited, again>>

\* The write fails, or is stored and its answer does not come in time.
WriteError(topic) ==
  /\ cpc = "handle"
  /\ topic \notin Gated /\ RecordsOf(topic) # {}
  /\ MayFail
  /\ failures' = failures + 1
  /\ todo' = todo \ RecordsOf(topic)
  /\ failed' = TRUE
  /\ withheld' = withheld \cup RecordsOf(topic)
  /\ \/ UNCHANGED storeVars
     \/ /\ durable' = durable \cup RecordsOf(topic)
        /\ flushes' = flushes \cup {RecordsOf(topic)}
  /\ UNCHANGED <<log, cut, group, groupVars, clientVars, commits, cpc, traceVars,
                 losses, crashes, moves, forfeited, again>>

-----------------------------------------------------------------------------
(* The assembler's goroutines.                                             *)

OneTrace(records) == \A r, q \in records : SameTrace(r, q)

\* Spans of a trace leave the buffer for a decision: the sweep, the early exit,
\* an eviction, or a late span on its own.
Take(d) ==
  /\ d # {} /\ OneTrace(d)
  /\ open' = open \ d
  /\ taken' = taken \cup d
  /\ UNCHANGED <<log, cut, group, groupVars, clientVars, commits, pollVars, cpc, held, limbo,
                 storeVars, budgetVars, withheld, forfeited, again>>

\* The trace is stored or dropped, and finishTrace resolves its entry, for all
\* its spans: those of a failed assembly, and those buffered since.
Decide(d) ==
  /\ d # {} /\ OneTrace(d)
  /\ taken' = taken \ d
  /\ durable' = durable \cup d
  /\ held' = {e \in held : \A r \in d : ~SameTrace(e, r)}
  /\ limbo' = limbo \ Mates(d)
  /\ forfeited' = forfeited \cup (Mates(d) \ durable')
  /\ UNCHANGED <<log, cut, group, groupVars, clientVars, commits, pollVars, cpc, open, flushes, budgetVars, withheld, again>>

\* The write fails, or is stored without an answer: the entry stays.
DecideError(d) ==
  /\ d # {} /\ OneTrace(d)
  /\ MayFail
  /\ failures' = failures + 1
  /\ taken' = taken \ d
  /\ limbo' = limbo \cup d
  /\ durable' \in {durable, durable \cup d}
  /\ UNCHANGED <<log, cut, group, groupVars, clientVars, commits, pollVars, cpc, held, open,
                 flushes, losses, crashes, moves, withheld, forfeited, again>>

\* checkWatermarkOnce gives up an old entry whose trace is not in the buffer:
\* its write failed, or takes long.
Expire(e) ==
  /\ \A r \in open : ~SameTrace(e, r)
  /\ held' = held \ {e}
  /\ limbo' = limbo \ Mates({e})
  /\ forfeited' = forfeited \cup (Mates({e}) \ durable)
  /\ UNCHANGED <<log, cut, group, groupVars, clientVars, commits, pollVars, cpc, open, taken,
                 storeVars, budgetVars, withheld, again>>

-----------------------------------------------------------------------------
(* The end of the cycle.                                                   *)

Handled == cpc = "handle" /\ todo = {}

\* A handler failed: no commit in this cycle.
Withhold ==
  /\ Handled
  /\ failed
  /\ cpc' = "poll"
  /\ failed' = FALSE
  /\ UNCHANGED <<log, cut, group, groupVars, clientVars, commits, todo, traceVars,
                 storeVars, budgetVars, withheld, forfeited, again>>

\* commitCeiling of a gated topic.
HeldOffsets(tp) == {OffsetOf(e) : e \in {q \in held : PartitionOf(q) = tp}}
HasCeiling(tp) == IsGated(tp) /\ HeldOffsets(tp) # {}
Ceiling(tp) == Min(HeldOffsets(tp)) - 1

\* Also for a partition that is no longer assigned.
ToCommit(tp) ==
  LET o == CommitOffset(pending[tp], HasCeiling(tp),
                        IF HasCeiling(tp) THEN Ceiling(tp) ELSE 0)
  IN  IF pending[tp] # NoPending /\ CommitDue(o, committed[tp]) THEN o ELSE NoCommit

\* Mutant: the failure of a handler is logged only.
GatherAnyway ==
  /\ Handled
  /\ commits' = [tp \in TopicPartition |-> ToCommit(tp)]
  /\ cpc' = IF \A tp \in TopicPartition : commits'[tp] = NoCommit THEN "poll" ELSE "commit"
  /\ IF failed THEN UNCHANGED <<withheld, forfeited>>
               ELSE withheld' = {} /\ forfeited' = forfeited \cup withheld
  /\ UNCHANGED <<log, cut, group, groupVars, clientVars, todo, failed, traceVars,
                 storeVars, budgetVars, again>>
\* Every handler succeeded: every partition is considered, also those that
\* returned nothing.  The pending offsets still cover earlier failures.
Gather ==
  /\ Handled
  /\ ~failed
  /\ commits' = [tp \in TopicPartition |-> ToCommit(tp)]
  /\ cpc' = IF \A tp \in TopicPartition : commits'[tp] = NoCommit THEN "poll" ELSE "commit"
  /\ forfeited' = forfeited \cup withheld
  /\ withheld' = {}
  /\ UNCHANGED <<log, cut, group, groupVars, clientVars, todo, failed, traceVars,
                 storeVars, budgetVars, again>>

After(offsets) ==
  [tp \in TopicPartition |-> IF commits[tp] = NoCommit THEN offsets[tp] ELSE commits[tp] + 1]

\* CommitRecords succeeds, fails, or succeeds and its answer is lost.
Commit ==
  /\ cpc = "commit"
  /\ \/ /\ group' = After(group)
        /\ committed' = After(committed)
        /\ UNCHANGED failures
     \/ /\ MayFail
        /\ failures' = failures + 1
        /\ group' \in {group, After(group)}
        /\ UNCHANGED committed
  /\ commits' = [tp \in TopicPartition |-> NoCommit]
  /\ cpc' = "poll"
  /\ UNCHANGED <<log, cut, groupVars, pos, pending, pollVars, traceVars, storeVars, losses,
                 crashes, moves, withheld, forfeited, again>>

\* Another process takes over and resumes from the group's offsets.
Crash ==
  /\ Within(failures, losses, crashes + 1, moves)
  /\ crashes' = crashes + 1
  /\ pos' = [tp \in TopicPartition |-> Start(tp)]
  /\ cut' = [tp \in TopicPartition |-> NoCut]
  /\ committed' = [tp \in TopicPartition |-> 0]
  /\ pending' = [tp \in TopicPartition |-> NoPending]
  /\ commits' = [tp \in TopicPartition |-> NoCommit]
  /\ todo' = {} /\ failed' = FALSE /\ cpc' = "poll"
  /\ held' = {} /\ open' = {} /\ taken' = {} /\ limbo' = {} /\ withheld' = {}
  /\ again' = again \cup {r \in Records : InLog(r) /\ r[2] >= pos'[r[1]] /\ r[2] < pos[r[1]]}
  /\ UNCHANGED <<log, group, groupVars, storeVars, failures, losses, moves, forfeited>>

LoopStep ==
  \/ \E upto \in Positions : Poll(upto)
  \/ \E r \in todo : Ingest(r)
  \/ \E topic \in Topic : WriteOk(topic) \/ WriteError(topic)
  \/ Withhold \/ Gather \/ Commit

Decision == \E d \in SUBSET taken : Decide(d)

Next ==
  \/ LoopStep
  \/ \E upto \in Positions, errs \in SUBSET TopicPartition : FetchError(upto, errs)
  \/ \E d \in SUBSET open : Take(d)
  \/ Decision
  \/ \E d \in SUBSET taken : DecideError(d)
  \/ \E e \in held : Expire(e)
  \/ \E tp \in TopicPartition :
       \/ Produce(tp)
       \/ Revoke(tp) \/ Assign(tp)
       \/ \E o \in 0 .. LogLen : Truncate(tp, o) \/ OtherDeals(tp, o) \/ OtherCommits(tp, o)
  \/ Crash

Spec == Init /\ [][Next]_vars

\* The loop runs, spans are decided, and what there is to be found out about a
\* partition -- new records, or a lost position -- is found out in the end.
Fetch == \E upto \in Positions : upto # pos /\ Poll(upto)
Detect == \E upto \in Positions : FetchError(upto, {tp \in mine : cut[tp] # NoCut})
Fairness ==
  /\ WF_vars(LoopStep)
  /\ SF_vars(Fetch \/ Detect)
  /\ WF_vars((\E d \in SUBSET open : Take(d)) \/ Decision)

FairSpec == Spec /\ Fairness
-----------------------------------------------------------------------------
(* Properties.                                                             *)

\* A record that need not be delivered again: stored or dropped -- or given
\* up by the code, see "forfeited" in the README.
Dealt == durable \cup forfeited

\* The group's offset passes a record only when a handler or a decision dealt
\* with it, whatever fails, is lost, moves to another worker or restarts.  The
\* code gives up a record when its handler failed or its fetch was skipped and
\* a later cycle succeeds; when its offset was used before in an epoch the
\* broker lost; and when the entry of its trace is released while its own span
\* is not settled: another span of the trace was decided, the watchdog expired
\* the entry, or the data-loss callback cleared it.
Promise == INSTANCE Delivery WITH dealt <- Dealt, offset <- group
ImplementsDelivery == Promise!Spec

\* Two flushes share a record only when a restart or a rebalance had Kafka
\* deliver it again: otherwise no record reaches a handler twice, although a
\* failed handler leaves its offsets uncommitted.
StoredTwiceOnlyIfRedelivered ==
  \A f, g \in flushes : f # g => f \cap g \subseteq again

\* The watermark never keeps the floor on a record that the broker has lost,
\* once the client knows: such an entry could hold commits back for ever.  (A
\* position that a rebalance moved back no longer covers all entries.)
NoFloorOnLostRecord ==
  \A e \in held : PartitionOf(e) \notin shared /\ cut[PartitionOf(e)] = NoCut => InLog(e)

\* No span of the trace is left to be decided: only the watchdog, or a span
\* still to come, can release the entry.
Abandoned(e) == \A r \in open \cup taken : ~SameTrace(e, r)

\* In the end the group's offset reaches the end of every log that stays with
\* this worker, or what keeps it is the entry of a failed write, or a fetch
\* skipped without anything fetched after it.
OffsetsCatchUp ==
  <>[](\A tp \in TopicPartition :
         \/ group[tp] >= Len(log[tp])
         \/ tp \in shared
         \/ \E e \in held : PartitionOf(e) = tp /\ Abandoned(e)
         \/ \E r \in withheld \cup forfeited :
              PartitionOf(r) = tp /\ OffsetOf(r) > pending[tp])
-----------------------------------------------------------------------------
\* consumer.go, NewConsumer: "Offsets advance only after the handler reports the
\* batch durably stored".
AdvancesOnlyWhenStored ==
  \A tp \in TopicPartition : \A o \in 0 .. Min({group[tp], Len(log[tp])}) - 1 :
    RecordAt(tp, o) \in durable

\* storage/writer.go, Writer: "inserts must land in the same order the consumer
\* submitted them so that offset commits stay monotonic": a commit of this
\* worker never takes the group's offset back.
CommitsStayMonotonic ==
  [][cpc = "commit" /\ cpc' = "poll" =>
       \A tp \in TopicPartition : group[tp] <= group'[tp]]_vars
=============================================================================
