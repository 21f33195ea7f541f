----------------------------- MODULE Collector -----------------------------
(***************************************************************************)
(* The collector process (cmd/collector, internal/ingest) for one signal:  *)
(* request handlers that split an export and put its envelopes on the      *)
(* bounded queue, the batcher that takes them off and produces them to     *)
(* Kafka, and the shutdown sequence of main.                               *)
(*                                                                         *)
(* One action is one channel operation, one atomic update or one call that *)
(* leaves the process.  An envelope is pooled memory: it has one owner     *)
(* until it is released, and nobody may touch it afterwards.               *)
(***************************************************************************)
EXTENDS IngestQueue, SequencesExt

CONSTANTS
  Policies,      \* the policies the queue may be configured with
  Size,          \* Envelope.Size
  MaxRecords,    \* BatchConfig.MaxRecords
  MaxBytes,      \* BatchConfig.MaxBytes
  MaxFailures    \* bound on produce calls the broker fails

ASSUME CollectorAssumption ==
  /\ Policies \subseteq {"reject", "drop_oldest"}
  /\ Size \in [Envelope -> Nat]
  /\ MaxRecords \in Nat \ {0}
  /\ MaxBytes \in Nat \ {0}
  /\ MaxFailures \in Nat

NoEnvelope == <<>>

VARIABLES
  policy,     \* QueueConfig.PolicyFor the signal, fixed at start
  cpc,        \* where each request handler is, or how the request ended
  at,         \* index of the first envelope of envs that is not nil
  old,        \* the envelope a handler evicted and has not released
  bpc,        \* where the batcher is
  bnext,      \* what follows the flush or the produce in progress
  got,        \* envelope received whose count is still to be taken off
  buf,        \* the batch
  bytes,      \* its size as Run keeps it
  tick,       \* a tick waits in the ticker's channel
  cancelled,  \* gctx is done
  closed,     \* the transports accept no request
  status,     \* "running", "panicked" or "exited"
  failures,   \* produce calls the broker failed
  \* History variables: no action reads them in a guard.
  released,   \* how often each envelope went back to the pool
  produced,   \* envelopes Kafka has
  counted,    \* envelopes whose items a drop counter includes
  lost        \* envelopes of the drain that a failed produce discarded

clientVars == <<cpc, at, old>>
batcherVars == <<bpc, bnext, got, buf, bytes>>
processVars == <<tick, cancelled, closed, status, failures>>
ghostVars == <<released, produced, counted, lost>>
vars == <<policy, queueVars, clientVars, batcherVars, processVars, ghostVars>>

Ended == {"ok", "rejected", "malformed"}

ClientTypeOK ==
  /\ cpc \in [Client -> {"idle", "admit", "send", "count", "evict", "uncount"}
                          \cup Ended]
  /\ at \in [Client -> Nat \ {0}]
  /\ \A c \in Client :
       /\ at[c] <= BatchLen[c] + 1
       /\ cpc[c] \in {"send", "evict", "uncount"} => at[c] <= BatchLen[c]
  /\ old \in [Client -> Envelope \cup {NoEnvelope}]
  /\ \A c \in Client : cpc[c] = "uncount" => old[c] \in Envelope

BatcherTypeOK ==
  /\ bpc \in {"select", "dequeue", "count", "flush",
              "drain", "draincount", "drainflush", "done"}
  /\ bnext \in {"select", "drain", "done"}
  /\ got \in Envelope \cup {NoEnvelope}
  /\ bpc \in {"count", "draincount"} => got \in Envelope
  /\ buf \in Seq(Envelope)
  /\ bytes \in Nat

ProcessTypeOK ==
  /\ policy \in Policies
  /\ tick \in BOOLEAN /\ cancelled \in BOOLEAN /\ closed \in BOOLEAN
  /\ status \in {"running", "panicked", "exited"}
  /\ failures \in 0 .. MaxFailures

GhostTypeOK ==
  /\ released \in [Envelope -> Nat]
  /\ produced \in SUBSET Envelope
  /\ counted \in SUBSET Envelope
  /\ lost \in SUBSET Envelope

TypeOK ==
  QueueTypeOK /\ ClientTypeOK /\ BatcherTypeOK /\ ProcessTypeOK /\ GhostTypeOK

Init ==
  /\ QueueInit
  /\ policy \in Policies
  /\ cpc = [c \in Client |-> "idle"]
  /\ at = [c \in Client |-> 1]
  /\ old = [c \in Client |-> NoEnvelope]
  /\ bpc = "select" /\ bnext = "select"
  /\ got = NoEnvelope /\ buf = <<>> /\ bytes = 0
  /\ tick = FALSE /\ cancelled = FALSE /\ closed = FALSE
  /\ status = "running"
  /\ failures = 0
  /\ released = [e \in Envelope |-> 0]
  /\ produced = {} /\ counted = {} /\ lost = {}

\* The envelopes of c's request whose slot in envs is not nil.
Rest(c) == {<<c, i>> : i \in at[c] .. BatchLen[c]}

Release(S) == released' = [e \in Envelope |-> released[e] + (IF e \in S THEN 1 ELSE 0)]

-----------------------------------------------------------------------------
(* The request handlers.                                                   *)

\* A transport hands a decoded request to AcceptTraces, AcceptLogs or
\* AcceptMetrics.  A request without envelopes is answered at once.
Accept(c) ==
  /\ cpc[c] = "idle"
  /\ ~closed
  /\ cpc' = [cpc EXCEPT ![c] =
               IF BatchLen[c] = 0 THEN "ok"
               ELSE IF policy = "reject" THEN "admit" ELSE "send"]
  /\ UNCHANGED <<queueVars, at, old, batcherVars, processVars, ghostVars>>

\* The split fails: what it produced so far is counted and released.
AcceptMalformed(c) ==
  /\ cpc[c] = "idle"
  /\ ~closed
  /\ cpc' = [cpc EXCEPT ![c] = "malformed"]
  /\ counted' = counted \cup Request(c)
  /\ Release(Request(c))
  /\ UNCHANGED <<queueVars, at, old, batcherVars, processVars, produced,
                 lost>>

\* Mutant: the receiver releases the whole request, admitted prefix included.
RefuseReleasingAll(c) ==
  /\ cpc' = [cpc EXCEPT ![c] = "rejected"]
  /\ counted' = counted \cup Rest(c)
  /\ Release(Request(c))
  /\ UNCHANGED <<queueVars, at, old, batcherVars, processVars, produced,
                 lost>>

\* EnqueueBatch fails: envs[i:] is counted, the receiver releases what it owns.
Refuse(c) ==
  /\ cpc' = [cpc EXCEPT ![c] = "rejected"]
  /\ counted' = counted \cup Rest(c)
  /\ Release(Rest(c))
  /\ UNCHANGED <<queueVars, at, old, batcherVars, processVars, produced,
                 lost>>

EnqueueBatch(c) ==
  /\ cpc[c] = "admit"
  /\ \/ /\ Admits(BatchLen[c])
        /\ cpc' = [cpc EXCEPT ![c] = "send"]
        /\ UNCHANGED <<queueVars, at, old, batcherVars, processVars, ghostVars>>
     \/ ~Admits(BatchLen[c]) /\ Refuse(c)

\* The send of a select with a default branch.
Send(c) ==
  /\ cpc[c] = "send"
  /\ \/ /\ HasRoom
        /\ Put(<<c, at[c]>>)
        /\ at' = [at EXCEPT ![c] = @ + 1]
        /\ cpc' = [cpc EXCEPT ![c] = "count"]
        /\ UNCHANGED <<depth, old, batcherVars, processVars, ghostVars>>
     \/ ~HasRoom /\ policy = "reject" /\ Refuse(c)
     \/ /\ ~HasRoom /\ policy = "drop_oldest"
        /\ cpc' = [cpc EXCEPT ![c] = "evict"]
        /\ UNCHANGED <<queueVars, at, old, batcherVars, processVars, ghostVars>>

CountSent(c) ==
  /\ cpc[c] = "count"
  /\ CountIn
  /\ cpc' = [cpc EXCEPT ![c] = IF at[c] > BatchLen[c] THEN "ok" ELSE "send"]
  /\ UNCHANGED <<ch, at, old, batcherVars, processVars, ghostVars>>

\* Mutant: the receive of the eviction has no default branch.
EvictBlocking(c) ==
  /\ cpc[c] = "evict"
  /\ ch # <<>>
  /\ old' = [old EXCEPT ![c] = Head(ch)]
  /\ Take
  /\ cpc' = [cpc EXCEPT ![c] = "uncount"]
  /\ UNCHANGED <<depth, at, batcherVars, processVars, ghostVars>>

\* enqueueDropOldest evicts the head, or finds the queue drained meanwhile.
Evict(c) ==
  /\ cpc[c] = "evict"
  /\ \/ /\ ch # <<>>
        /\ old' = [old EXCEPT ![c] = Head(ch)]
        /\ Take
        /\ cpc' = [cpc EXCEPT ![c] = "uncount"]
     \/ /\ ch = <<>>
        /\ cpc' = [cpc EXCEPT ![c] = "send"]
        /\ UNCHANGED <<ch, old>>
  /\ UNCHANGED <<depth, at, batcherVars, processVars, ghostVars>>

\* Mutant: an eviction the drop counter never hears of.
CountEvictedSilently(c) ==
  /\ cpc[c] = "uncount"
  /\ CountOut
  /\ Release({old[c]})
  /\ old' = [old EXCEPT ![c] = NoEnvelope]
  /\ cpc' = [cpc EXCEPT ![c] = "send"]
  /\ UNCHANGED <<ch, at, batcherVars, processVars, produced,
                 counted, lost>>

CountEvicted(c) ==
  /\ cpc[c] = "uncount"
  /\ CountOut
  /\ counted' = counted \cup {old[c]}
  /\ Release({old[c]})
  /\ old' = [old EXCEPT ![c] = NoEnvelope]
  /\ cpc' = [cpc EXCEPT ![c] = "send"]
  /\ UNCHANGED <<ch, at, batcherVars, processVars, produced,
                 lost>>

-----------------------------------------------------------------------------
(* The batcher.                                                            *)

\* The select at the top of Run: a ready case is taken, any of them when
\* both are, and only when neither is does the default branch run.
Select ==
  /\ bpc = "select"
  /\ \/ cancelled /\ bpc' = "flush" /\ bnext' = "drain" /\ tick' = tick
     \/ tick /\ bpc' = "flush" /\ bnext' = "select" /\ tick' = FALSE
     \/ ~cancelled /\ ~tick /\ bpc' = "dequeue" /\ UNCHANGED <<bnext, tick>>
  /\ UNCHANGED <<queueVars, clientVars, got, buf, bytes, cancelled, closed,
                 status, failures, ghostVars>>

\* Mutant: Dequeue does not look at the context.
DequeueBlind ==
  /\ bpc = "dequeue"
  /\ ch # <<>>
  /\ got' = Head(ch)
  /\ Take
  /\ bpc' = "count"
  /\ UNCHANGED <<depth, clientVars, bnext, buf, bytes, processVars, ghostVars>>

\* Queue.Dequeue blocks for an envelope or for the end of the context.
Dequeue ==
  /\ bpc = "dequeue"
  /\ \/ /\ ch # <<>>
        /\ got' = Head(ch)
        /\ Take
        /\ bpc' = "count"
        /\ bnext' = bnext
     \/ cancelled /\ bpc' = "flush" /\ bnext' = "drain" /\ UNCHANGED <<ch, got>>
  /\ UNCHANGED <<depth, clientVars, buf, bytes, processVars, ghostVars>>

\* The batch is due for a flush.
Full(batch, n) == Len(batch) >= MaxRecords \/ n >= MaxBytes

\* The rest of Dequeue, and what Run does with the envelope.
AddToBatch ==
  /\ bpc = "count"
  /\ CountOut
  /\ got' = NoEnvelope
  /\ buf' = Append(buf, got)
  /\ bytes' = bytes + Size[got]
  /\ bnext' = "select"
  /\ bpc' = IF Full(buf', bytes') THEN "flush" ELSE "select"
  /\ UNCHANGED <<ch, clientVars, processVars, ghostVars>>

\* Mutant: the batch is kept after it was produced.
ProduceKeepingBatch(S) ==
  /\ produced' = produced \cup S
  /\ Release(ToSet(buf))
  /\ UNCHANGED <<buf, bytes>>

\* Producer.Produce keeps S of the batch in Kafka and releases all of it.
Produce(S) ==
  /\ produced' = produced \cup S
  /\ Release(ToSet(buf))
  /\ buf' = <<>>
  /\ bytes' = 0

FlushOk ==
  /\ bpc = "flush"
  /\ Produce(ToSet(buf))
  /\ bpc' = bnext
  /\ UNCHANGED <<queueVars, clientVars, bnext, got, processVars, counted,
                 lost>>

\* Produce returns an error, with any of the records written.  Its deferred
\* ReleaseAll has set every slot of buf to nil, and the error branch of flush
\* then reads items from them: the process panics.  Besides the broker, the
\* cancelled context a flush inside the loop passes on makes Produce fail.
FlushError ==
  /\ bpc = "flush"
  /\ buf # <<>>
  /\ \/ cancelled /\ bnext = "select" /\ failures' = failures
     \/ failures < MaxFailures /\ failures' = failures + 1
  /\ \E S \in SUBSET ToSet(buf) : Produce(S)
  /\ status' = "panicked"
  /\ UNCHANGED <<queueVars, clientVars, bpc, bnext, got, tick, cancelled,
                 closed, counted, lost>>

\* drain takes envelopes without blocking; an empty queue ends it.
Drain ==
  /\ bpc = "drain"
  /\ \/ /\ ch # <<>>
        /\ got' = Head(ch)
        /\ Take
        /\ bpc' = "draincount"
        /\ bnext' = bnext
     \/ /\ ch = <<>>
        /\ bpc' = "drainflush"
        /\ bnext' = "done"
        /\ UNCHANGED <<ch, got>>
  /\ UNCHANGED <<depth, clientVars, buf, bytes, processVars, ghostVars>>

DrainAdd ==
  /\ bpc = "draincount"
  /\ CountOut
  /\ got' = NoEnvelope
  /\ buf' = Append(buf, got)
  /\ bytes' = bytes + Size[got]
  /\ bnext' = "drain"
  /\ bpc' = IF Len(buf') >= MaxRecords THEN "drainflush" ELSE "drain"
  /\ UNCHANGED <<ch, clientVars, processVars, ghostVars>>

DrainOk ==
  /\ bpc = "drainflush"
  /\ Produce(ToSet(buf))
  /\ bpc' = bnext
  /\ UNCHANGED <<queueVars, clientVars, bnext, got, processVars, counted,
                 lost>>

\* A failed produce of the drain is logged, and counted nowhere.
DrainError ==
  /\ bpc = "drainflush"
  /\ buf # <<>>
  /\ failures < MaxFailures
  /\ failures' = failures + 1
  /\ \E S \in SUBSET ToSet(buf) :
       /\ Produce(S)
       /\ lost' = lost \cup (ToSet(buf) \ S)
  /\ bpc' = bnext
  /\ UNCHANGED <<queueVars, clientVars, bnext, got, tick, cancelled, closed,
                 status, counted>>

-----------------------------------------------------------------------------
(* The process.                                                            *)

\* The interval is long against a pass of the loop that calls nothing: ticks
\* arrive while Dequeue blocks or runs, or while Produce is called.
Tick ==
  /\ ~tick
  /\ bpc \in {"dequeue", "count"} \/ (bpc = "flush" /\ buf # <<>>)
  /\ tick' = TRUE
  /\ UNCHANGED <<queueVars, clientVars, batcherVars, cancelled, closed, status,
                 failures, ghostVars>>

\* A signal arrives, or a server of the errgroup fails: gctx is done.
Cancel ==
  /\ ~cancelled
  /\ cancelled' = TRUE
  /\ UNCHANGED <<queueVars, clientVars, batcherVars, tick, closed, status,
                 failures, ghostVars>>

\* main shuts the transports down once gctx is done.
CloseTransports ==
  /\ cancelled
  /\ ~closed
  /\ closed' = TRUE
  /\ UNCHANGED <<queueVars, clientVars, batcherVars, tick, cancelled, status,
                 failures, ghostVars>>

\* The graceful stops have waited for the handlers, g.Wait for the batcher.
Exit ==
  /\ closed
  /\ \A c \in Client : cpc[c] \in Ended \cup {"idle"}
  /\ bpc = "done"
  /\ status' = "exited"
  /\ UNCHANGED <<queueVars, clientVars, batcherVars, tick, cancelled, closed,
                 failures, ghostVars>>

Running == status = "running"
Step == Running /\ policy' = policy

Handler(c) ==
  /\ Step
  /\ \/ EnqueueBatch(c) \/ Send(c) \/ CountSent(c) \/ Evict(c) \/ CountEvicted(c)

Arrival(c) == Step /\ (Accept(c) \/ AcceptMalformed(c))

Batcher ==
  /\ Step
  /\ \/ Select \/ Dequeue \/ AddToBatch \/ FlushOk \/ FlushError
     \/ Drain \/ DrainAdd \/ DrainOk \/ DrainError

Process == Step /\ (Tick \/ Cancel \/ CloseTransports \/ Exit)

\* The process has ended.
Terminated == ~Running /\ UNCHANGED vars

Next ==
  \/ \E c \in Client : Arrival(c) \/ Handler(c)
  \/ Batcher
  \/ Process
  \/ Terminated

Spec == Init /\ [][Next]_vars

\* The Go scheduler runs every goroutine that can run, the ticker ticks, and
\* a shutdown under way goes on.  Nothing forces a request or a signal.
FairSpec ==
  /\ Spec
  /\ \A c \in Client : WF_vars(Handler(c))
  /\ WF_vars(Batcher)
  /\ WF_vars(Step /\ Tick)
  /\ WF_vars(Step /\ CloseTransports)
  /\ WF_vars(Step /\ Exit)

-----------------------------------------------------------------------------
(* Properties.                                                             *)

Arrived(c) == cpc[c] # "idle"
Handling(c) == cpc[c] \in {"admit", "send", "count", "evict", "uncount"}

\* Who owns envelope e now: its handler, the channel, an evicting handler,
\* the batcher.
HandlersOwning(e) == {c \in Client : Handling(c) /\ e \in Rest(c)}
EvictorsOwning(e) == {c \in Client : old[c] = e}
SlotsOwning(s, e) == {i \in 1 .. Len(s) : s[i] = e}
Owners(e) ==
  Cardinality(HandlersOwning(e)) + Cardinality(EvictorsOwning(e))
  + Cardinality(SlotsOwning(ch, e)) + Cardinality(SlotsOwning(buf, e))
  + (IF got = e THEN 1 ELSE 0)

\* An envelope of a request that arrived has exactly one owner until it is
\* released, and is released exactly once: "Releasing twice is a
\* use-after-free and will corrupt another goroutine's envelope"
\* (envelope.go:75-77), and one never released is leaked from the pool.
ReleasedOnce ==
  \A c \in Client : Arrived(c) =>
    \A e \in Request(c) : Owners(e) + released[e] = 1

\* The depth counter differs from the channel's length by exactly the sends
\* and receives whose second half is still to come, so it never drifts:
\* admission and the depth gauge rest on it (queue.go:124, 142).
DepthExact ==
  depth = Len(ch)
          - Cardinality({c \in Client : cpc[c] = "count"})
          + Cardinality({c \in Client : cpc[c] = "uncount"})
          + (IF bpc \in {"count", "draincount"} THEN 1 ELSE 0)

\* What the collector has taken responsibility for: all of a request it
\* answered OK, and what it put in the queue of any other.
Promised(c) == IF cpc[c] = "ok" THEN Request(c) ELSE Request(c) \ Rest(c)

\* Nothing promised disappears: it is still owned, is in Kafka, went down with
\* a failed produce of the drain, or, under drop_oldest only, was evicted and
\* counted (EnqueueBatch, enqueueDropOldest, Run, drain).  A panic takes what
\* is owned with it, see NeverPanics.
PromisesKept ==
  status # "panicked" =>
    \A c \in Client : \A e \in Promised(c) :
      \/ Owners(e) > 0
      \/ e \in produced \cup lost
      \/ policy = "drop_oldest" /\ e \in counted

\* A refused request left nothing in the queue: "EnqueueBatch admits every
\* envelope derived from one export request, or none of them"
\* (queue.go:98-99).
AllOrNothing == \A c \in Client : cpc[c] = "rejected" => at[c] = 1

\* A failed produce is counted and logged and the batcher goes on: "Produce
\* owns the envelopes either way" (batcher.go:80).
NeverPanics == status # "panicked"

\* main: "Shut the transports first so no new work is admitted, then let the
\* batchers drain what clients were already told we accepted"
\* (cmd/collector/main.go:94-95).
NothingLeftBehind == status = "exited" => ch = <<>>

\* Every request is answered, whatever other requests and the batcher do.
RequestsAnswered ==
  \A c \in Client : Handling(c) ~> (cpc[c] \in Ended \/ ~Running)

\* What was admitted does not stay in the queue.
QueueDrains ==
  \A e \in Envelope : (e \in ToSet(ch)) ~> (e \notin ToSet(ch) \/ ~Running)

\* Neither side of the queue starves: handlers that send, evict and retry are
\* done in the end, and the batcher gets to every envelope, over ticks, flushes
\* that fail and the drain (EnqueueBatch, enqueueDropOldest, Run).
NobodyStarves == RequestsAnswered /\ QueueDrains

\* A cancelled process ends: the batcher stops blocking in Dequeue, drains
\* and returns, and main gets past g.Wait.
ShutdownCompletes == cancelled ~> ~Running

\* Run flushes when "the flush interval trips" (batcher.go:23-24): no envelope
\* stays in the batch for ever.
FlushIntervalHonoured == (buf # <<>>) ~> (buf = <<>> \/ ~Running)
=============================================================================
