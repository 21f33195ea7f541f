# TLA+ models of tracelens

tracelens takes OpenTelemetry exports, moves them through Kafka, samples whole
traces at their tail and stores the result in ClickHouse.  This directory holds
TLA+ models of the parts of it in which goroutines, failures and restarts meet,
the TLC configurations that check them on small instances, and TLAPS proofs of
the main results for all values of the constants.

Contents

1. The system
2. Modules and how they correspond to the code
3. Runs: what is checked and what it shows
4. Bounds
5. Fairness
6. Proofs
7. Where the code departs from what the repository says
8. What is not modelled
9. What is left

To check a run: `tlc -config AssemblerSafety.cfg MCAssembler`; a proof module:
`tlapm AssemblerProofs.tla`.  `PROJECT.json` lists every run, the source lines
behind every definition, the hazards and the properties that cover them.

## 1. The system

```
 OTLP clients                              Kafka                ClickHouse
     |  gRPC/HTTP                            |                       ^
     v                                       v                       |
 receivers -> ingest queue -> batcher -> topics -> consumer -> Ingest ... Writer
 \_______________ collector _______________/       \__________ assembler ______/
                                                    buffer, watermark, sweeper,
                                                    watchdog, policies, templates

 query server, alert evaluator, cold tier, migrations: read or manage ClickHouse
```

### Components

| Component | State | Operations | Correct when |
|---|---|---|---|
| Receivers (`ingest/receiver.go`, `grpc.go`, `http.go`) | envelopes of a request | split, enqueue, answer | every request is answered; an envelope has one owner |
| Ingest queue (`ingest/queue.go`) | channel, depth counter, policy | `EnqueueBatch`, `Dequeue`, `TryDequeue` | all or nothing per request, the counter does not drift, drops are counted |
| Batcher (`ingest/batcher.go`) | batch, bytes, ticker | `Run`, `flush`, `drain` | flushes at its limits, keeps nothing back, survives a broker failure |
| Producer (`pipeline/producer.go`) | none | `Produce` | releases what it was given once |
| Collector process (`cmd/collector`) | context, errgroup | start, shutdown | nothing accepted is left behind |
| Consumer (`pipeline/consumer.go`) | pending and committed offsets | poll, data-loss callback, dispatch, gated commit | never commits past what is not durable |
| Trace assembler (`sampling/assembler.go`) | `partitionOf` | `Ingest`, `RunSweep`, forced decision, watchdog | every span is decided once and written, dropped or counted |
| Trace buffer (`sampling/buffer.go`) | traces in flight, age heap, decision cache | admit, evict, early exit, `PopReady`, `Tracks` | bounded, byte accounts exact, cache bounded |
| Offset watermark (`sampling/watermark.go`) | first offset of each trace in flight | `Track`, `Resolve`, `SafeOffset`, `ClearBelow`, `StaleCandidates` | the floor is at or below every undecided trace and is released in the end |
| Storage writer (`storage/writer.go`) | queue of flushes, one worker | `Submit`, `Wait`, `Close` | an acknowledged flush is durable; order kept; retries do not duplicate |
| Policies (`sampling/policy.go`, `config.go`, `reload.go`) | chain, token buckets, latency window, last modification time seen | `Decide`, `SetChain`, watch | what a chain keeps for sure is kept, a rate limit holds, the last valid file becomes active |
| Cardinality guard (`sampling/cardinality.go`, `hyperloglog.go`) | bounded set of sketches with cached estimates | track, check, enforce | the raw values stored for a key set no more registers than its budget |
| Trace tree, service edges (`sampling/tree.go`, `servicegraph.go`) | none | build, critical path, extract | the walks end, one weighted call per cross-service link below a root (calls below an orphan are lost, section 7) |
| Rendezvous router (`sampling/router.go`) | none | `Owner` | removing a node moves only its keys |
| Log templates (`logs/drain.go`, `store.go`) | parse tree, clusters, index | `Parse`, evict, upsert | index and tree agree, the stored dictionary explains the stored rows |
| Anomaly detector, alerting (`anomaly`, `alerting`) | seasonal rings, run counters, rule states | observe, evaluate, notify | flips need a run, notifications keep their distance, a sink misses nothing silently |
| Migrations, cold tier (`storage/migrate.go`, `coldtier.go`) | ledger, partitions, objects, manifests | apply; export, verify, drop, restore | restartable; no row is dropped without a copy |
| Query language and execution (`query`) | none | parse, plan, optimise, compile, execute | an optimised statement returns what the query asks for |
| Service map (`query/servicegraph.go`) | none | cycles, cut vertices, criticality | a cycle per cyclic structure, exactly the cut vertices |
| Admin server (`observability/admin.go`) | cached readiness | probe | readiness is not older than its TTL |

### How the components interact

* A handler goroutine hands envelopes to the batcher through a channel.  The
  depth counter is an atomic next to the channel, updated in a step of its own.
* Several assembler workers share the partitions (`deploy/k8s/manifests.yaml:317`
  runs three, replaced one after the other); a rebalance moves a partition from
  one to another, and the client tells the program nothing of it.
* The batcher calls the producer synchronously.  `Produce` owns the envelopes,
  on success and on failure.
* The consumer goroutine polls, calls the handlers of every topic in turn,
  asks the watermark for a ceiling per partition and commits.  It is the same
  goroutine that runs `Ingest`, eviction and early exit.
* The sweeper goroutine takes traces from the buffer whose wait is over and
  decides them; the watchdog goroutine resolves watermark entries that are too
  old.  They share the buffer (`b.mu`), the watermark (`w.mu`) and `partitionOf`
  (`a.mu`) with the consumer, and hold only one of these locks at a time.
* Consumer and sweeper write through one `Writer`: they submit a flush and wait
  for it; one worker inserts.
* The consumer passes spans through the guard as it reads them; a decision walks
  the active policy chain; a watcher goroutine swaps the chain under `a.mu` while decisions go on.
* A stored trace carries its calls between services; a materialized view sums
  them up and the query service reads the sums as the service map.
* Log records pass through the parse tree; the rows and the templates that
  changed go into one flush.
* The alert evaluator reads rollups on a ticker, feeds the detector and calls
  sinks.  The cold tier tool and `cmd/migrate` are processes of their own that
  meet the assembler only in ClickHouse.
* Only Kafka's log and group offsets, ClickHouse's tables and the cold tier's
  objects survive a crash.

### What is hard

Critical sections that are short and many, with a trace passing from goroutine
to goroutine between them; writes that fail or succeed without an answer while
the offset has to wait for them; redelivery after a crash; partitions that move
to another worker while this one still remembers them; two assemblies of one
trace at once; shutdown, in which each process stops its goroutines in an order
of its own; tools that work in several statements against tables that others
write; rewrites of a query that must not change its answer.  `hazards` in PROJECT.json lists these at their lines.

## 2. Modules and how they correspond to the code

### Assembler process

| Module | Models | State |
|---|---|---|
| `SpanLog` | the spans topic: partitions, offsets, the trace of each record.  Records of a trace share a partition because the splitter keys them by trace id | constants only |
| `OffsetWatermark` | `watermark.go` | `wm[p][t]`: first tracked offset; `aged`: entries beyond `WATERMARK_MAX_AGE` |
| `Buffer` | `buffer.go` | `inflight`, `totalBytes`, `decided`, `decidedOrder`, and `clock` for the order of first sight |
| `CommitGate` | the arithmetic of `RunWithCommitGate` | none |
| `Assembler` | `assembler.go`, the consumer loop, the sweep, the watchdog, rebalances and crashes | the rest; `mine` and `moved` are the partitions assigned to this worker, and those another one has had |
| `MCAssembler`, `AssemblerProofs` | constants for TLC; proofs | |

An action is one critical section or one call that leaves the process:

| Action | Code |
|---|---|
| `Poll` | `PollFetches` and the update of `pending` |
| `NextRecord` | `handleSpans`' loop and `Ingest`'s section under `a.mu` |
| `TrackRecord` | `wm.Track` |
| `AdmitRecord` | `Buffer.Ingest` up to its unlock, with the choice of a victim |
| `Evict` | `Buffer.resolve` |
| `EarlyExit` | `TryEarlyExit` |
| `SkipCommit`, `GatherCommits`, `Commit` | the end of the cycle: a handler failed, the ceilings, `CommitRecords` |
| `EmitOk`, `EmitError` | `decide` and `emit`, or `lateAttach`; an error may hide a stored write |
| `RecordVerdict`, `FinishLookup`, `FinishResolve` | `recordDecision`; the two halves of `finishTrace` |
| `PopReady`, `SweepNext` | `RunSweep` |
| `WatchdogScan`, `WatchdogCheck`, `WatchdogResolve`, `WatchdogForget` | `checkWatermarkOnce` |
| `Age` | time passes for one entry |
| `Revoke` | a rebalance takes a partition away: fetching stops, and as `NewConsumer` registers no callback nothing else changes |
| `OtherCommits` | the new owner, another worker of the group, commits there what it has settled |
| `Crash` | the process dies and restarts from the committed offsets |

A decision in progress is a job.  It runs on either goroutine and takes one of
three routes: `decideAndEmit` (emit, record, finish), a forced decision (emit,
finish, record: the decision is recorded last, and also when the write failed),
and a late span (emit or nothing, then finish).

Left open, so the results hold for every choice: the verdict, whether the root
closure condition holds, how many records a poll returns, which records are
malformed, which traces have waited long enough.

History variables say how a record ended (`dropped`, `gaveUp`, `failed`) and
which traces were ingested while an earlier assembly of them was unfinished
(`reopened`).  No guard reads them.

### Collector process

| Module | Models | State |
|---|---|---|
| `IngestQueue` | the channel and the counter of `queue.go` | `ch`, `depth` |
| `Collector` | handlers, batcher, producer as the batcher sees it, ticker, shutdown | `cpc`, `at`, `old` per request; `bpc`, `buf`, `bytes`, `got`; `tick`, `cancelled`, `closed`, `status` |
| `MCCollector`, `CollectorProofs` | constants for TLC; proofs | |

A channel operation and the update of the counter that follows it are two
actions (`Send`/`CountSent`, `Evict`/`CountEvicted`, `Dequeue`/`AddToBatch`,
`Drain`/`DrainAdd`), since other goroutines run in between.  An envelope is
pooled memory; `released` counts how often it went back.  `FlushError` models
what the code does after a failed produce: it reads slots that `Produce` has set
to nil, which ends the process in `"panicked"`.

### Storage writer

| Module | Models | State |
|---|---|---|
| `Writer` | `Submit`, `Wait`, the worker, `Close`, and the deduplication window of ClickHouse (external) | `queue`, `spc`, `done`, `wpc`, `cur`, `left`, `attempt`, `closing`, `cancelled`; `inserted`, the flushes whose rows each table took |
| `MCWriter`, `WriterProofs` | constants for TLC; proofs | |

A flush inserts into its tables one by one.  `InsertError` may or may not have
stored the rows.  ClickHouse remembers the last `Window` blocks of a table and
takes none of them again.  It knows a block by its token; in a table of
`Tokenless` (`log_templates`, for which `insertTemplates` passes "", writer.go:266)
by a hash of its rows, which the retry of a flush repeats and a redelivered batch,
with its later `updated_at`, does not (`Block`).  A batch may come again in another flush with the same token,
while the first is still queued because its submitter timed out.  A select with
two ready cases (`Submit` on a closed queue) may take either.

### Kafka consumer

| Module | Models | State |
|---|---|---|
| `Delivery` | the abstract promise: a group's offset moves only over records that were dealt with | `log`, `dealt`, `offset` |
| `Consumer` | `RunWithCommitGate` over several partitions and topics, the data-loss callback with `ClearBelow`, rebalances, and the handlers and the assembler as far as the offsets depend on them | `log`, `cut`, `group` (broker); `mine`, `shared` (consumer group); `pos`, `pending`, `committed`, `commits`, `todo`, `failed`, `cpc` (loop); `held` (watermark: the record each entry was made for); `open`, `taken`, `limbo` (spans in the buffer, in a decision, of a failed write); `durable`, `flushes` |
| `MCConsumer`, `ConsumerProofs` | constants for TLC; proofs | |

`Assembler` looks at the inside of the spans topic; `Consumer` looks at what
surrounds it.  `Poll` fetches any prefix of every log assigned, `FetchError` skips
a cycle with the records other partitions returned, and learns of truncated logs.
`Ingest` (gated topics) makes an entry in the watermark if the record's trace has
none and buffers the span; `Take` and `Decide` are a decision by sweep, early exit,
eviction or late span, and `DecideError` one whose write fails.  `Decide` resolves
the entry of the trace for all its spans, `Expire` is the watchdog.  `WriteOk` and
`WriteError` are the handlers of topics that write at once; `Withhold`, `Gather`
and `Commit` end the cycle.  `Revoke` takes a partition away and leaves every map
as it is, `Assign` gives it back with the position that the group has; in between
and afterwards another worker stores records (`OtherDeals`) and moves the group's
offset (`OtherCommits`), forward over what was dealt with, or back.  A record is a
partition, an offset and the leader epoch it was written in, so that a reused
offset is another record.

`Consumer` implements `Delivery` with `dealt` mapped to `durable` and
`forfeited`.  The history variable *forfeited* holds the records that the code
gives up:

* a record whose handler failed, or that was fetched in a skipped cycle, when a
  later cycle succeeds and its commits pass it;
* a record at an offset that was read or committed in an epoch the broker has
  lost;
* a span that is not settled when the entry of its trace is released for another
  reason: another span of the trace was decided (its success resolves the entry
  also for spans of a failed write and for spans buffered since), the watchdog
  expired the entry, or the data-loss callback cleared it.

The last item is where one entry per trace matters: it is the case of
`FailedWriteHoldsFloor` and of `sweep_race` in section 7.  Any other way of
passing a record violates `ImplementsDelivery`.

### Log templates

`Templates` models `drain.go` and the flushes of `handleLogs`: `nodes` and `leaf`
are the parse tree, `clusters` the index with the generations that eviction goes
by, `rows` and `upserts` the flush in preparation, `logs` and `log_templates` the
tables.  A line is a sequence of tokens.  `ParseMatch` and `ParseNew` are
`Drain.Parse` with both of its evictions, `FlushOk` and `FlushError` the end of a
handler, `Restart` a new process with an empty tree.  Two history variables say
what the stored dictionary cannot: `unsaved` holds the templates whose last text
went down with a failed flush, `issuer` the process that last handed an id out.
`TemplatesProofs` proves both invariants.

### Anomaly detector and alerting

`Detector` is `detector.go`: a ring of values per series and seasonal bucket, the
robust z-score (the median and the median deviation of the sample, scaled to
integers), the two thresholds and the run counters.  `Alerting` is the evaluator
around it: a tick evaluates every rule in turn (`EvalThreshold`, `EvalAnomaly`,
`FetchError`), and a transition notifies each sink or falls into the cooldown.  A
tick may find the rollup bucket that the tick before it found.  History variables
(`levels`, `values`, `condition`, `muted`, `missed`, `notified`) record what a
test would have to keep.  `AlertingProofs` proves the four properties of the run;
what it says of sinks takes `OneRulePerSeries`, that no two anomaly rules are over
one series (section 7 has what happens without it).

### Sampling

| Module | Models | State |
|---|---|---|
| `CardinalityGuard` | `cardinality.go`, `hyperloglog.go` as operators on a tracker: registers filled, cached estimate, generations | none |
| `PolicyChain` | `policy.go`, `config.go` as operators on a chain: its policies, and of each its token buckets and its latency window | none |
| `Sampling` | deciding goroutines, the guard, `SetChain`, the policy file and its watcher | `tracker`, `attrs`, `decoding`, `file`, `watcher`, `chains`, `deciding`, `verdict` |
| `MCSampling`, `SamplingProofs` | constants for TLC; proofs | |

A decision takes the chain once and then goes from policy to policy, one step
each, while other decisions and the watcher take theirs.  A replaced chain stays
in `chains`, as decisions still hold it.  The consumer's goroutine hands a trace's
attributes to the guard, which goes over their keys one by one in any order
(`Decode`, `Enforce`); it decides and reads by turns, while the sweep's goroutine
only decides.  A bucket's `passed` and the `chain` and `warm` of a verdict are
history, for the properties.  Rates are whole numbers per unit of time.

### Cold tier and migrations

| Module | Models | State |
|---|---|---|
| `Migrations` | `Migrate`, run by every starting assembler and by `cmd/migrate`: read the ledger, execute the statements of each missing version, record it | `schema`, `ledger`, `release`, `migrating` |
| `ColdTier` | `coldexport`: candidates, export, verify, manifest, drop, restore, one action per statement or object-store call | `table`, `object`, `manifest`, `run`, `arrived` |
| `MCColdTier`, `ColdTierProofs` | constants for TLC; proofs | |

`ColdTier` extends `Migrations`: an export copies the columns that the table has
at that moment.  Between any two statements rows arrive, the TTL removes a day's
rows, and an object may be deleted.

`Migrate` holds no lock, so migrators overlap.  Two assumptions about the script
of migrations carry the results, and the up migrations in `internal/storage/migrations` meet both:
`AlteredInOneVersion`, no two versions alter the same table, as otherwise a slow
migrator could undo what a later version altered; and `ColumnsAreKept`, no
version takes a column away.

### Read path

| Module | Models | State |
|---|---|---|
| `TraceTree` | `tree.go`, `sampling/servicegraph.go` | none |
| `ServiceGraph` | `findCycles`, `articulationPoints`, criticality | none |
| `QueryPlan` | `Build` and the five passes of the optimiser | none |
| `Physical` | the compiled statement, its placeholders and arguments, and what ClickHouse returns for it | none |
| `ReadPath` | writers of spans and calls, and the query service | `trace`, `rollup`, `rows`, `request` |
| `MCReadPath` | constants for TLC | |

The first four are pure.  A plan is the sequence of its nodes from the scan up;
a predicate is a sequence of terms; a literal is a number and a type.  A statement
that has several possible answers (a `LIMIT` without an order) has a set of them.
`Meaning`, in `ReadPath`, is the reference: what the text of a query says, without
a plan.  `findCycles` and `articulationPoints` are recursive in the code and in
`ServiceGraph`, which is therefore outside of any proof.

## 3. Runs: what is checked and what it shows

### Runs that pass

`assembler_safety` (`FloorRespected`, `CommittedIsSettled`, `SingleHolder`,
`BufferKeepsBounds`, `OffsetsAdvance`).  Consumer and sweeper over three records
of two traces, a buffer of one trace that must evict by forced decision, one
failure, and one crash or one rebalance anywhere.  The central result is `CommittedIsSettled`: a
record the group committed past is stored, was decided drop or is counted as
lost.  It has one exception, a trace that was ingested while an earlier assembly
of it was unfinished; section 7 shows that the exception is needed.
`SingleHolder` says that buffer, sweeper backlog and decisions in progress never
share a span.  After a rebalance another worker commits on the partition, while
this one goes on deciding what it buffered and committing what it remembers: its
commits stay below its own floor, and the group's offset may go back, but never
over something nobody has.  `OffsetsAdvance` is about partitions that stayed.

`assembler_liveness` (`EverythingSettles`, `FloorReleased`,
`CommittedIsSettled`).  The discard policy, with the watchdog at work: every
record is settled in the end and the floor is released, except for traces the
decision cache remembers, which the watchdog leaves alone.  The invariant is
repeated here because this is the run in which the watchdog gives up on entries
and in which discarded traces must be counted.

`collector` (`ReleasedOnce`, `DepthExact`, `PromisesKept`, `NobodyStarves`,
`ShutdownCompletes`).  Two racing requests under either backpressure policy, a
produce call that may fail, a shutdown at any point.

`writer` (`AckedIsDurable`, `StoredOnce`, `NobodyWaitsForever`).  Two goroutines,
a two-table batch and its redelivery, a one-table batch and an empty one, a failed
insert, retries, timeouts, cancellation and Close in any order.  One of the tables
takes no token, and the window is a single block, so that a batch can come again
within its reach and beyond it.  `StoredOnce` has two parts: retries never store
the rows of a flush twice, in any table; a batch that comes again is stored again
only in a table without tokens or after `Window` other blocks.

`consumer` (`ImplementsDelivery`, `StoredTwiceOnlyIfRedelivered`,
`NoFloorOnLostRecord`, `OffsetsCatchUp`).  A gated partition of spans, two records
under one entry of the watermark, and one of logs.  A failed handler, fetch, write
or commit and a restart, or a log cut by the broker, or a rebalance that takes the
spans to another worker and back.  Offsets pass a record only if it was dealt with
or is one of the forfeited ones of section 2; no record is in two flushes unless
Kafka delivered it again; the watermark does not hold on to records the broker
lost; offsets reach the ends of the logs, or what holds them is the entry of a
failed write, or a skipped fetch with nothing fetched after it.

`templates` (`IndexAndLeavesAgree`, `DictionaryCoversLogs`, `LeafIsStable`).  Five
lines out of six, among them numbers in the routing token and a node that fills
up, with leaves and a tree of two clusters: index and leaves agree after both
evictions, the text stored for a template covers every stored row of it, and no
line changes its leaf.

`alerting` (`FlipsNeedARun`, `RingHoldsLatest`, `CooldownKept`,
`SinksInformed`).  An anomaly rule with two sinks and a threshold rule, six ticks
in two seasonal buckets.  A sink believes what the rule's condition is, unless
the last transition fell into the cooldown or its own delivery failed.

`sampling` (`CertainlyKept`, `AdmittedWithinRate`, `StoredWithinBudget`,
`ChainCatchesUp`).  Two goroutines decide three traces while the policy file is
edited to one that loads or one that does not, and a read may fail.  A trace that
some policy keeps for sure ahead of any that may drop is kept, by the chain with
which its decision began.

`cold_tier` (`DroppedIsExported`, `RestoreReads`, `RecordedIsDone`,
`OldDaysLeave`).  One day of two rows, an assembler and `cmd/migrate` migrating
at once, and one incident anywhere.  A drop deletes no row that the exported
object lacks, but for rows that arrived after its own count; a manifest names
columns the object has; a version in the ledger was executed to its end.

`read_path` (`AnswersMeanTheQuery`, `WalksEnd`, `RollupCountsCalls`,
`CyclesAreReported`, `CutVerticesDisconnect`).  Every trace of up to three spans,
with orphans, redelivered copies and spans that name themselves or each other as
parents; every set of calls between four services; 560 queries (repeated,
tightened and contradictory terms, a limit with and without a sort or an
aggregate) over every subset of four rows.  `RollupCountsCalls`: a trace adds at
least one weighted call for every cross-service link below a root, at any depth
and across internal calls, and, without copies of spans, at most one for every
link it has.  `AnswersMeanTheQuery` is the
optimiser's correctness: the optimised statement runs and returns only what the
text of the query allows, with any of the three passes off that may be off.

### Runs that find a violation

`sweep_race` and `unhandled_commit`: see section 7.

Every property of a passing run has a mutant: the model with one definition
changed the way a slip in the code would change it (a dropped guard, a missing
reset, an order swapped), under which TLC finds the property violated.

## 4. Bounds

| Run | Instance | Why it is enough for the cases asked about |
|---|---|---|
| `assembler_safety` | 1 partition, 3 records, 2 traces or malformed, buffer of 1 trace and 3 bytes, 1 remembered decision, 1 failure, 1 crash or 1 partition that moves | two spans of a trace with one of another between them: eviction, late spans, a second assembly of a trace, cache eviction; each under a failure and a restart, or with a commit of another worker before, between and after those of this one |
| `assembler_liveness` | 2 records, 1 failure, 2 expiries | a failed write that only the watchdog can release, next to an entry that must not be given up |
| `collector` | 2 requests of 2 envelopes, capacity 3, high-water mark 2, batches of 2 records or 2 bytes, 1 failure | both requests pass the admission check together and fill the channel; batches trip either limit |
| `writer` | 4 flushes, 3 batches, 2 tables of which 1 without tokens, queue of 2, 1 retry, window of 1 block, 1 error | the queue fills, a flush fails in its second table, a redelivery overtakes a timed-out flush, a batch comes again right after its first insert and after another block |
| `consumer` | 2 partitions of 2 records; 1 failure and 1 restart, 1 truncation, or 1 move | a failure in one partition's poll with records of the other in it, a restart on top; an offset that is reused after a truncation, before or after its commit; a stale commit before or after the other worker's, a partition regained with old entries |
| `templates` | 6 lines of 3 tokens, 2 children per node, 2 clusters per leaf and in all, flushes of 2 rows, 5 lines parsed, 1 failure, 1 restart | a full node, both evictions in one call, a template that widens after its rows were stored |
| `alerting` | values 1, 3, 7, windows of 3 with 2 samples, runs of 2, 6 ticks, cooldown of 2, 1 failure | the ring wraps, a flip and its reverse within a cooldown, a delivery to one of two sinks fails |
| `sampling` | 2 deciding goroutines, 3 traces, 2 keys, budgets of 2 values, latency window of 2, 3 times, 1 edit, 1 failed read | a key over its budget, a limiter that runs dry and refills, an edit between the look at the file's time and its read |
| `cold_tier` | 1 day, 2 rows, 3 versions of which 1 comes with a second release, 1 incident | late rows between any two statements, a column added between export and manifest or restore |
| `read_path` | 3 spans of 2 services, 4 services, 4 rows, guard at 2 rows | a cycle of two parents with a third span below it, cut vertices of degree 2 and 3, two cycles that share a service, folding to nothing, a limit below the number of matching rows |

The bounds on faults (`MaxFailures`, `MaxCrashes`, `MaxExpiries`, `MaxErrors`,
`MaxLosses`, `MaxTakeovers`, `MaxDeaths`, `MaxIncidents`, `MaxReadErrors`) say how
often the environment misbehaves and stand in guards, as do those on inputs
(`LogLen`, `MaxLines`, `MaxTicks`, `MaxTime`, `MaxEdits`, `MaxRestores`,
`MaxRollup`).  The assembler's safety runs use symmetry on traces where traces
are interchangeable (one partition) and only safety is checked.  Deadlock is
checked except in `templates`, `alerting`, `sampling` and `cold_tier`, where the
bounded inputs run out; the collector and the writer have a terminating step for
an ended process.

`MaxTakeovers` bounds the crashes and moved partitions of `Assembler` together;
`Budgets` says which faults of `Consumer` come together, and other combinations
(a truncation of a partition that moves, say) are left to the proofs.  In `Writer`, `Window` is no
bound but a parameter of ClickHouse (`non_replicated_deduplication_window`): the
comment on `Flush.Token` (writer.go:28-31) relies on it, and the instance makes it
small enough that repetitions fall on either side of it.

Two cases of the code are modelled but lie outside of the bounds: the eviction
of whole sketches (the instance tracks as many keys as there are), and
`always_sample_slow` (in no chain of the instance).

## 5. Fairness

* Assembler: weak fairness for the consumer loop, each decision in progress, the
  sweeper and the watchdog, because each is a goroutine in a loop without a
  condition to wait for.  Strong fairness that a poll returns records which are
  there, because franz-go fetches continuously.  Weak fairness for `Age`: time
  passes.  No fairness for failures and crashes.
* Collector: weak fairness for each handler (not for arrivals), the batcher, the
  ticker, and the steps of a shutdown that has begun.  The tick arrives only
  while the batcher waits, adds what it received or calls the broker: a pass of
  the loop that calls nothing is short against the flush interval.
* Writer: weak fairness for submit and wait, the worker, and Close once the
  context is done or Close has begun (the consumer's loop returns when its
  context is done).  Timeouts are possible and never assumed, except that the
  consumer's own wait ends when its context is cancelled, as `Wait` selects on it.
* Consumer: weak fairness for the loop and for `Take` and `Decide` together, which
  the assembler's own liveness provides (a decision may still fail, within the
  bound on failures); strong fairness that what there is to be found out, new
  records or a lost position, is found out, as franz-go keeps polling.  None for
  `Expire`, the broker, other workers and faults.
* Sampling: weak fairness for the watcher, which a ticker drives.  An edit is
  followed by no other for good, so "once the file is no longer edited" is what
  the bounded edits give.
* Cold tier: weak fairness for a run that has begun; strong fairness for starting
  one with `-export -drop`, as its comment has it run from cron (coldexport/main.go:4), whatever else
  is started by hand in between.
* Templates, alerting and the read path: safety only.

## 6. Proofs

All theorems hold for every value of the constants allowed by the named
assumptions: any number of partitions, traces, records, requests, flushes,
tables, rules and lines, any buffer, queue, window and cache size, any number of
faults.  Most assumptions only give types, say that a reserved value is not a
member of the set it is added to, or that a set whose members are counted is
finite.  Those with content are `AlteredInOneVersion` and `ColumnsAreKept` (the
script of migrations, section 2) and a hypothesis of one theorem,
`OneRulePerSeries`; each is named where it is used below.

An invariant below is proved by the same scheme: it holds initially, each action
preserves it (one lemma or step per action, under it one per conjunct the action
can disturb), and it implies the property.

**Assembler** (`AssemblerProofs`)

* `TypeCorrect`.  One lemma per group of variables.
* `FloorIsRespected`: no commit of the worker passes the first offset of a tracked
  trace, also on a partition that it has lost.
  `FloorRespected` is not inductive: between the ceiling check and
  `CommitRecords` entries are resolved, and after a restart offsets are tracked
  that an earlier process may have seen.  `FloorInv` adds that nothing the
  process has still to ingest, is ingesting or is about to commit lies below the
  broker's offset, and that a gathered commit stays below every entry: resolving
  only removes entries, and the consumer, the only one to add any, is at the
  commit.  What it says of the broker's offset is said of partitions that never
  moved: elsewhere another worker sets it.
* `CommitsAdvance`: the group's offset of a partition that no rebalance gave to
  another worker never moves back, which follows from `FloorInv` for commits
  repeated from a stale `committed` map.  After a rebalance it may move back (section 7).
* `EachRecordHeldOnce`: buffer, sweeper backlog and decisions in progress never
  share a record.  `HolderInv` adds where a record in hand stands: what is still
  to be ingested is held by none of them.
* `AtLeastOnce`: what the group committed past is stored, was decided drop or is
  counted as lost, but for traces ingested while an earlier assembly of them was
  unfinished.  `SettleInv` says of every record that was read and is not settled
  where it is, and that a watermark entry at or below it then exists.  It rests on
  `FloorInv` and `HolderInv`.  Rebalances are included: `CommitSettles` derives
  from the entries alone, wherever the group's offset stands, that what a commit of
  this worker passes is settled, and what another one passes is settled by it
  (`NextCommitted`).
* `BufferIsBounded`: `BoundsInv` adds what holds between the lock's release after
  an insertion and the eviction that follows: one trace too many, unless the
  sweeper took one out, and the victim is then still in flight.  That the byte
  counter agrees with the spans held needs sums over finite sets, which the
  library defines by a fold and says nothing about.  `SumExists` and
  `AddsInAnyOrder` prove that a sum exists and does not depend on the order (by a
  least counterexample over the number of members, since no induction theorem of
  the library can be instantiated), `SumChanged` and `SumCleared` what one new
  term or an emptied entry does to it, and `FreedIsSum` and `HeldIsSum` that the
  model's folds are such sums.  It uses that there are finitely many trace ids, as
  ids of 16 bytes are, and `HolderInv`: a record admitted is not yet held.

**Collector** (`CollectorProofs`)

* `TypeCorrect`, by `TypeInv`.
* `DepthNeverDrifts`: the counter differs from the channel's length by exactly
  the operations in progress.  Three lemmas say how the number of handlers at a
  step changes when one of them enters it, leaves it or moves elsewhere.
* `PromisesAreKept`: what went into the queue is still held, is in Kafka, was
  lost in the drain's failed produce, or was evicted and counted.  The invariant
  `PromiseInv` adds that batcher and evicting handler hold at most the envelope
  whose count is outstanding (so that they overwrite none), that evictions happen
  under drop_oldest only and that OK means sent to the end; `FoundKept` shows
  that each step leaves a found envelope found.
* `EnvelopesAreReleasedOnce`: an envelope has one owner until it goes back to the
  pool, and it goes back once.  `OnceInv` counts: the shares of an envelope that
  the request, the channel, the evicting handler, the batcher and the pool have
  add up to 1 once its request arrived, and to 0 before.

**Storage writer** (`WriterProofs`)

* `AcknowledgedIsDurable`.  `DurableInv` says what is stored while the worker is
  under way: the tables of the current flush it has finished, and every batch
  whose token a table remembers, since a deduplicated insert stores nothing.
* `CompletionIsOrdered`.  `OrderInv`: the queue is the end of what was accepted,
  the flush being written stands before it, exactly what precedes is complete,
  and nothing is accepted twice.
* `RowsAreStoredOnce`: no flush is twice in what a table took, and between two
  flushes of one batch in a table with tokens lie at least `Window` blocks, for any
  window and however many batches have passed.  `OnceInv` adds that what a table
  took was taken from the queue before, and that the current flush's own rows, once
  a table has them, are the last it took: so a retry finds them remembered.

**Kafka consumer** (`ConsumerProofs`)

* `OffsetsKeepThePromise`: `Consumer` implements `Delivery`.  A commit moves the
  offset over records each of which is durable or forfeited.  `ConsumerInv` has,
  beyond types, where the loop stands (`LoopInv`), what the watermark may hold
  (`HeldInv`), that the entry of its trace stands at or below every span without a
  verdict unless the span was given up (`KeptInv`), that a record which arrives
  under a later entry of its trace was seen before (`TodoInv`), that everything up
  to `pending` and to the fetch position was seen or is in the batch and everything
  below the group's offset was dealt with (`CoverInv`), and which records the
  flushes have (`FlushInv`).  `CoverInv` goes by `pending` and not by the group's
  offset, as a rebalance may move that anywhere over what was dealt with.
* `NoFloorLost` from `HeldInv`, `StoredOnceOrRedelivered` from `FlushInv`.

**Cold tier and migrations** (`ColdTierProofs`)

* `MigrationsAreDone`, for any script and any number of migrators that overlap
  and die anywhere, under `AlteredInOneVersion`.
* `NothingDroppedUnexported`: `ToolInv` says at each statement of the tool what
  the table, the object and the counts taken so far have in common.
* `ManifestsCanBeRead`, under `ColumnsAreKept`: the manifest may be written after
  columns were added that the object does not have.

**Anomaly detector and alerting** (`AlertingProofs`)

* `RingsHoldTheLatest`: at every position of the ring stands the value that the
  sequence of all values has there, also after the ring wrapped around.
* `FlipsTakeARun`: `RunsInv` ties the run counters to the levels seen.
* `NotificationsKeepDistance`: `RuleInv` ties a rule's last notification to the
  list of all of them.
* `SinksAreInformed`, under `OneRulePerSeries`: `SeriesInv` says that a rule and
  the detector's state of its series agree but for the transition in progress.

**Log templates** (`TemplatesProofs`)

* `IndexAgreesWithLeaves`, both bounds included.  `TreeInv` holds between the
  index and the leaves' lists; four lemmas carry it over the eviction of a
  cluster, over an addition, and over the two loops that evict.
* `DictionaryExplainsLogs`: what each stored row's template says covers its line,
  unless that text went down with a flush or a later process reuses the id.
  `DictionaryInv` adds that the text of a cluster covers every row that carries
  its id, stored or not, and that a text that changed is in the upserts.
* `LinesKeepTheirLeaf`: a line that has a leaf keeps it.  `LeavesRooted` says that
  every node on the path to a leaf is in the tree.  `KeyStays`: a node that is in
  the tree stays the child its lines go to, since a node that is full gains no
  child but the wildcard one; `PathStays` carries that down the levels.  `Climb`
  shows that the recursive definition of a path has a solution at each level.

**Sampling** (`SamplingProofs`)

* `AdmitsWithinRate`.  `Balanced` says of a bucket that its tokens and the traces
  it let pass since any of them are no more than one bucket and what the rate gave
  since; refilling and drawing keep it, and eviction and reload begin a bucket
  anew.
* `StoresWithinBudget`.  `SketchInv`: the cached estimate is the number of registers
  that values seen have filled.  `RawInv`: what is stored as it came is in the key's
  sketch, as the tracker sees a value before the guard stores it.  `KeptInv`: a
  value whose key is within its budget is stored as it came.
* `CertainKeepsAreKept`.  `DecisionInv` says of a decision that its trace is read,
  undecided and nobody else's (`Owns`), that the policies it has passed do not keep
  the trace for sure (`Walked`), that windows with an entry keep one (`StaysWarm`),
  and that its estimate is the duration of another trace (`Measured`).  The last
  rests on `EntriesInv`: a duration in a window is of a trace decided, or of a
  decision past the window's policy.  `KeptInv` gives what `attribute_match` sees.

**What the proofs taught.**  Where a step did not go through, the model or a
statement was wrong or too weak:

* `Consumer` forfeited every record of a skipped fetch cycle.  The proof does not
  need it for records after a cut, so the promise became stronger.
* `RecordedIsDone` is false for scripts in which two versions alter one table.
  The code has no such scripts and no lock that would make them safe;
  `AlteredInOneVersion` says so.
* `SinksInformed` is false when two anomaly rules share a series (section 7).
* `DictionaryCoversLogs` had spared rows of earlier processes whose ids the
  current process had not yet reached.  That is false after two restarts, which
  the run's single one does not show: it now goes by `issuer`.
* `RingHoldsLatest` compared multisets of values; it now says which value stands
  where.
* `Sampling` kept one window and one set of buckets per chain, while each policy of
  the code has its own, and gave the guard all attributes of a trace in one step.
* `CertainlyKept` called the slowest of all traces kept for sure.  When the others
  take no time at all the estimate is 0, which the policy takes for no estimate
  (policy.go:158), so it is not.
* `Consumer` kept an entry per record that a failed write left stuck.  With one
  entry per trace the promise needs `KeptInv` and `TodoInv`: a later span of the
  trace, or the watchdog, releases spans that nobody stored.
* `OffsetsAdvance` is false once a partition has been with another worker.
* `StoredWithinBudget` is about values that their bucket alters: a value that has
  the form of its own bucket is stored as it came, over budget or not.

**Only model-checked.**  Liveness under fairness and ENABLED, which TLAPS does not
reach, and the read path (`AnswersMeanTheQuery`, `WalksEnd`, `CyclesAreReported`,
`CutVerticesDisconnect`, `RollupCountsCalls`): what it computes are recursive walks
and folds over plans, rows and edges of any shape, where a proof would be an
induction over them.

## 7. Where the code departs from what the repository says

With a run, whose counterexample is the shortest one:

| Run | What happens | What is said |
|---|---|---|
| `sweep_race` | The sweeper pops a trace; before it finishes, another span of the trace is buffered.  `Track` finds the old entry and does nothing, `finishTrace` then resolves it, and the buffered span is committed past while undecided.  A crash now loses it. | docs/ARCHITECTURE.md:165 "Never commits past an undecided trace" |
| `unhandled_commit` | A handler fails and the cycle commits nothing, but `pending` keeps its offsets; the next cycle that succeeds commits past records that nobody stored. | consumer.go:77 "Offsets advance only after the handler reports the batch durably stored" |

Stated in a module, and found violated by TLC when the property is put into the
configuration named:

| Property, configuration | What happens | What is said |
|---|---|---|
| `FailedWriteHoldsFloor`, `AssemblerSafety.cfg` | A write fails and the entry is kept.  The next span of the trace is decided by itself and its success resolves the same entry: the failed spans are committed past and never retried. | assembler.go:19-22 "A non-nil error leaves the partition's commit floor held" |
| `AllOrNothing`, `Collector.cfg` | Requests pass the admission check before either is counted; the channel fills and one is refused with part of it queued.  The client sends all of it again. | queue.go:98 "every envelope derived from one export request, or none of them" |
| `NeverPanics`, `Collector.cfg` | `Produce` releases the batch and sets its slots to nil; the error branch of `flush` then reads them.  A context that ends during a flush in the loop takes the same path. | batcher.go:80 "Produce owns the envelopes either way"; docs/RUNBOOK.md:62 |
| `NothingLeftBehind`, `Collector.cfg` | The batchers stop when the context ends, which is before the transports are shut; what is accepted after their drain is left in the queue at exit. | cmd/collector/main.go:94 "Shut the transports first" |
| `FlushIntervalHonoured`, `Collector.cfg` | A partial batch waits in `Dequeue`, which does not look at the ticker. | batcher.go:23 "or the flush interval trips" |
| `FiringIsTrue`, `Alerting.cfg` with `SeriesOf <- SharedSeries` | Of two anomaly rules over one series the first evaluated takes the flip; the other finds no change and returns before its own state is touched, so it never fires and never notifies. | evaluator.go:76 "The true firing state always updates" |
| `CommitsStayMonotonic`, `Consumer.cfg` | A worker polls a record; the partition moves to another one, which stores and commits further; the first worker, told nothing of it (consumer.go:82-93), commits its pending offset, and the group's offset goes back.  Nothing is lost: what lies between is delivered again to the next owner. | writer.go:76-78 "inserts must land in the same order the consumer submitted them so that offset commits stay monotonic" |
| `EveryLinkCounted`, `ReadPath.cfg` | A span's parent never arrived.  Its own calls to other services have a known caller, but `ExtractServiceEdges` walks down from the roots only (servicegraph.go:51), so none of them is counted. | servicegraph.go:23-24 "emits one edge per CROSS-service call"; :31-32 excludes orphans as "there is no known caller to draw an edge from" |
| `SubmitAfterCloseRefused`, `Writer.cfg` | The sweeper submits after Close; the select may send on the closed queue. | writer.go:18 "ErrWriterClosed is returned by Submit after Close" |

Built into the preconditions of a property:

* **Placeholders** (`Answerable`, through `BindsInOrder`).  `compileAggregate` puts
  the text of group-by fields and aggregates before the subquery and their
  arguments behind those of the subquery, and uses the text of a group-by field
  twice but binds it once; `compileSort` drops the arguments of its fields.  A
  query that groups, aggregates or sorts by an attribute therefore has arguments
  in the wrong places or too few, against the comment on `compiled`
  (physical.go:46-47, "in the same left-to-right order they appear in sql").
* **Ablations** (`Optional`).  Without `partition_pruning` a query loses its time
  range, and without `predicate_pushdown` a pushed limit cuts rows before they are
  filtered: these two switches of the benchmark measure other queries.
* **Copies of spans** (`Distinct`).  A redelivered span is appended to its parent's
  children again, for the same node: the calls below it are counted once per copy,
  which multiplies from level to level.  Two spans that share an id but not a
  parent can make `criticalChain` and `walk` run for ever.
* **Sinks** (`muted`, `missed`).  A transition within the cooldown is never told to
  anyone, and a failed delivery is not repeated, for as long as the state lasts.
* **Dictionary** (`unsaved`, a later process).  The upserts of a failed flush are
  lost, while the redelivered lines only match; ids begin at 1 again after a
  restart, although `log_templates` is keyed by them.
* **Forfeited records** (section 2).
* **Tables without a token** (`Tokenless` in `StoredOnce`).  `log_templates` takes
  the rows of a redelivered batch again, with a later `updated_at`; readers rely on
  its ReplacingMergeTree to merge them.

Observed while modelling:

* Ingest's `Track` may come after another goroutine's `finishTrace` removed the
  trace's `partitionOf` mapping (assembler.go:100, 308-320).  The new watermark
  entry then has no mapping and only the watchdog resolves it.
* Under the discard policy nothing resolves the watermark entry of a discarded
  trace (buffer.go:217) but a later assembly of the trace or the watchdog.
* A worker that regains a partition still has its old `committed`.  If the group's
  offset has gone back meanwhile, the worker commits nothing until its offsets
  pass the old value, and on a quiet partition the group's offset stays behind.
  `OffsetsCatchUp` therefore leaves out partitions that have moved.
* One trace is evicted per span, so bytes in flight may stay above `MaxBytes`
  (buffer.go:181), although doc.go:11 asks for a hard cap.
* The depth counter may be negative for a moment, so a request slightly above
  the high-water mark is admitted (queue.go:124).
* The drain ignores `MaxBytes` (batcher.go:128), and a produce it fails is logged
  but not counted (batcher.go:129).
* Once a template has widened, the positional parameters of rows stored before
  no longer fit its text, so those rows render differently from their lines.
* Two anomaly rules over one series count each tick twice.  A baseline without
  deviation puts every larger value above the threshold.
* A budget of B values is exceeded by the B-th distinct one.  The guard runs
  before the policies, so `attribute_match` sees values it has replaced.  A rate
  below one per second never admits.  The watcher's first tick always reloads, and
  a reload refills the buckets and empties the latency window; a file with an
  older modification time is never loaded.
* Rows that arrive after a drop make the day a candidate again, and its next
  export overwrites the only copy of what was dropped.  Two runs of the tool at
  once can overwrite an object with that of an emptied day.  The default
  `-older-than` of 720 h is the TTL of spans, so rows expire before or while they
  are exported, and restored rows expire at once.  Equal counts do not mean equal
  rows, and rows that arrive between the recount and the drop are lost.
* An attribute compared with `==` to a number is text against a number, which
  ClickHouse refuses.  `coalesce(span_attributes[k], resource_attributes[k])` never
  falls back, as a missing key gives '' and not NULL.  The average of an attribute
  divides by the weight of rows that lack it.  `Build` keeps the last aggregate,
  sort and limit, and filters before them, wherever they stand in the query.
* `CriticalPathNS` adds up the durations of nested spans.  Spans attached late are
  written without their calls.

## 8. What is not modelled

* Pure conversions: row decoding, wire formats, content negotiation, lexing and
  parsing of queries, SQL text beyond its placeholders, metric and log output.
* The fixed statements of `red.go`, `logs.go`, `health.go` and of the trace lookup:
  one query each, whose rows are copied into a response.  Quantile aggregates,
  which are approximations by design.
* The rendezvous router, which no process calls; the admin server, whose cached
  readiness no other component uses.
* Configuration, counters, benchmarks, load generators, the demo, the web
  interface.
* Within the modelled components: body limits and status codes of the transports,
  start-up of the processes, masking and tokenising of log lines, the formats of
  notifications, and HyperLogLog's estimator beyond the number of registers that
  differ.

* Of the consumer group: `Assembler` gets a lost partition back only with a
  restart (`Consumer` has it assigned again at any time).  Other workers are
  assumed to keep at-least-once themselves, in that they only move the group's
  offset over records dealt with.  That a broker takes the commit of a worker for a
  partition it has lost, within its generation or after it has joined the next
  one, is how franz-go and Kafka behave as far as the code uses them, and external.
* In `Consumer`, the watchdog's look at the buffer and its release are one step
  (they are two in `Assembler`), it may expire an entry at any time, and the broker
  cuts a log only below the client's position.
* `ReadPath` holds the rows of a table as a set: two copies of a redelivered row,
  which ClickHouse may still hold and which queries without FINAL return, are one.
  `Templates` likewise has one version per id, while query/logs.go:34 joins
  `log_templates` without FINAL and may meet versions not yet merged.  `Physical`
  gives a row one map of attributes for the two that the code coalesces.

## 9. What is left

The models are in place, and every safety property that a run checks is proved
but for those of the read path.  The walks of `TraceTree` and the passes of
`QueryPlan` are folds and recursive functions on sequences; what they compute for
every input stays with TLC.  Four hazards have no property; each says why in
`PROJECT.json`.
