------------------------------- MODULE Writer -------------------------------
(***************************************************************************)
(* The storage writer (internal/storage/writer.go): goroutines of the      *)
(* assembler submit flushes and wait for them, one worker inserts their    *)
(* rows table by table with retries, ClickHouse discards a block that it   *)
(* remembers.  A batch may come again in a new flush with the same token   *)
(* (Kafka redelivers, a decision is retried).                              *)
(*                                                                         *)
(* One action is one channel operation or one insert.                      *)
(***************************************************************************)
EXTENDS Integers, Sequences, FiniteSets

CONSTANTS
  Flush,        \* flush handles
  Submitter,    \* goroutines that call Submit
  Consumer,     \* the one among them main waits for before Close
  Owner,        \* the goroutine that submits a flush
  Batch,        \* row sets, each with its own Token
  BatchOf,      \* the rows and the Token of a flush
  Tables,       \* number of tables, in the order write inserts into them
  Tokenless,    \* tables whose inserts carry no token (log_templates)
  Needs,        \* the tables a flush has rows for
  QueueCap,     \* capacity of Writer.queue
  MaxRetries,   \* config.ClickHouse.MaxRetries
  Window,       \* non_replicated_deduplication_window, in blocks
  MaxErrors     \* bound on inserts that fail while the context lives

Table == 1 .. Tables

ASSUME WriterAssumption ==
  /\ Consumer \in Submitter
  /\ Owner \in [Flush -> Submitter]
  /\ BatchOf \in [Flush -> Batch]
  /\ Tables \in Nat
  /\ Tokenless \subseteq Table
  /\ Needs \in [Flush -> SUBSET Table]
  /\ QueueCap \in Nat \ {0}
  /\ MaxRetries \in Nat
  /\ Window \in Nat \ {0}
  /\ MaxErrors \in Nat

NoFlush == "no flush"

ASSUME NoFlushAssumption == NoFlush \notin Flush

VARIABLES
  queue,      \* Writer.queue
  spc,        \* where the submitter of each flush is
  done,       \* Flush.done: nothing, nil or an error
  wpc,        \* where the worker is
  cur,        \* the flush being written
  left,       \* tables of cur still to be inserted
  attempt,    \* attempts of the current insert that failed
  cancelled,  \* the context given to Start is done
  closing,    \* Close: "open", then closed is closed, then queue is
  status,     \* "running", "panicked" or "exited"
  errors,     \* failed inserts so far
  inserted,   \* the flushes whose rows each table took, in order
  accepted    \* history: the flushes queued, in order

workerVars == <<wpc, cur, left, attempt>>
storeVars == <<inserted, errors>>
processVars == <<cancelled, closing, status>>
vars == <<queue, spc, done, workerVars, storeVars, processVars, accepted>>

TypeOK ==
  /\ queue \in Seq(Flush)
  /\ spc \in [Flush -> {"idle", "submit", "wait", "acked", "failed"}]
  /\ done \in [Flush -> {"none", "ok", "error"}]
  /\ wpc \in {"select", "write", "fail", "exited"}
  /\ cur \in Flush \cup {NoFlush}
  /\ left \in SUBSET Table
  /\ wpc = "write" => cur \in Flush
  /\ attempt \in 0 .. MaxRetries
  /\ cancelled \in BOOLEAN
  /\ closing \in {"open", "refusing", "closed"}
  /\ status \in {"running", "panicked", "exited"}
  /\ errors \in 0 .. MaxErrors
  /\ inserted \in [Table -> Seq(Flush)]
  /\ accepted \in Seq(Flush)

Init ==
  /\ queue = <<>>
  /\ spc = [f \in Flush |-> "idle"]
  /\ done = [f \in Flush |-> "none"]
  /\ wpc = "select" /\ cur = NoFlush /\ left = {} /\ attempt = 0
  /\ cancelled = FALSE /\ closing = "open" /\ status = "running"
  /\ errors = 0
  /\ inserted = [t \in Table |-> <<>>]
  /\ accepted = <<>>

-----------------------------------------------------------------------------
(* The submitters: handleLogs, handleMetrics and submitAndWait.            *)

InProgress(f) == spc[f] \in {"submit", "wait"}

\* A goroutine has one flush at a time, and a batch comes again when the flush
\* before it has its answer (it failed, or its offset was not committed).  main
\* closes the writer when the consumer is done.
Begin(f) ==
  /\ spc[f] = "idle"
  /\ \A g \in Flush :
       Owner[g] = Owner[f] \/ BatchOf[g] = BatchOf[f] => ~InProgress(g)
  /\ Owner[f] = Consumer => closing = "open"
  /\ spc' = [spc EXCEPT ![f] = "submit"]
  /\ UNCHANGED <<queue, done, workerVars, storeVars, processVars, accepted>>

\* Submit: an empty flush is complete; otherwise any case of the select that
\* is ready.  After Close the send is ready too, and panics.
Submit(f) ==
  /\ spc[f] = "submit"
  /\ \/ /\ Needs[f] = {}
        /\ done' = [done EXCEPT ![f] = "ok"]
        /\ spc' = [spc EXCEPT ![f] = "wait"]
        /\ UNCHANGED <<queue, accepted, status>>
     \/ /\ Needs[f] # {}
        /\ closing # "closed" /\ Len(queue) < QueueCap
        /\ queue' = Append(queue, f)
        /\ accepted' = Append(accepted, f)
        /\ spc' = [spc EXCEPT ![f] = "wait"]
        /\ UNCHANGED <<done, status>>
     \/ /\ Needs[f] # {}
        /\ closing # "open"
        /\ spc' = [spc EXCEPT ![f] = "failed"]
        /\ UNCHANGED <<queue, done, accepted, status>>
     \/ /\ Needs[f] # {}
        /\ closing = "closed"
        /\ status' = "panicked"
        /\ UNCHANGED <<queue, done, accepted, spc>>
  /\ UNCHANGED <<workerVars, storeVars, cancelled, closing>>

\* Flush.Wait returns what the worker reported.
Wait(f) ==
  /\ spc[f] = "wait"
  /\ done[f] # "none"
  /\ spc' = [spc EXCEPT ![f] = IF done[f] = "ok" THEN "acked" ELSE "failed"]
  /\ UNCHANGED <<queue, done, workerVars, storeVars, processVars, accepted>>

\* The submitter's context ends first: QueryTimeout, or the consumer's.
GiveUp(f) ==
  /\ InProgress(f)
  /\ spc' = [spc EXCEPT ![f] = "failed"]
  /\ UNCHANGED <<queue, done, workerVars, storeVars, processVars, accepted>>

-----------------------------------------------------------------------------
(* The worker.                                                             *)

\* Mutant: only a successful write completes its flush.
CompleteOkOnly(f, result) ==
  done' = IF result = "ok" THEN [done EXCEPT ![f] = result] ELSE done

Complete(f, result) == done' = [done EXCEPT ![f] = result]

\* Mutant: the worker takes the newest flush.
TakeNewest ==
  /\ wpc = "select"
  /\ queue # <<>>
  /\ cur' = queue[Len(queue)]
  /\ queue' = SubSeq(queue, 1, Len(queue) - 1)
  /\ left' = Needs[cur']
  /\ attempt' = 0
  /\ wpc' = "write"
  /\ UNCHANGED <<spc, done, storeVars, processVars, accepted>>

TakeFlush ==
  /\ wpc = "select"
  /\ queue # <<>>
  /\ cur' = Head(queue)
  /\ queue' = Tail(queue)
  /\ left' = Needs[cur']
  /\ attempt' = 0
  /\ wpc' = "write"
  /\ UNCHANGED <<spc, done, storeVars, processVars, accepted>>

\* The table write inserts into next.
NextTable(t) == t \in left /\ \A u \in left : t <= u

\* Mutant: a token of its own for every flush.
BlockOfFlush(t, f) == f

\* What ClickHouse knows a block by: its token (batchToken and spanBatchToken
\* derive it from the records or spans, so a batch that comes again has the
\* same), or the hash of its rows when batchContext gets no token.  The template
\* rows of a redelivered batch have a later updated_at, hence another hash.
Block(t, f) == IF t \in Tokenless THEN f ELSE BatchOf[f]

\* Table t remembers the last Window blocks it took.
Remembers(t, f) ==
  \E i \in 1 .. Len(inserted[t]) :
    i > Len(inserted[t]) - Window /\ Block(t, inserted[t][i]) = Block(t, f)

\* ClickHouse: a block that table t remembers leaves no rows.
Store(t, f) ==
  \/ Remembers(t, f) /\ UNCHANGED inserted
  \/ ~Remembers(t, f) /\ inserted' = [inserted EXCEPT ![t] = Append(@, f)]

\* runInsert succeeds; after the last table the flush is complete.
InsertOk(t) ==
  /\ wpc = "write"
  /\ NextTable(t)
  /\ Store(t, cur)
  /\ left' = left \ {t}
  /\ attempt' = 0
  /\ \/ left' # {} /\ UNCHANGED <<wpc, done>>
     \/ left' = {} /\ wpc' = "select" /\ Complete(cur, "ok")
  /\ UNCHANGED <<queue, spc, cur, errors, processVars, accepted>>

\* Mutant: a table whose insert failed for good is skipped.
AfterFailureSkip(t) ==
  /\ left' = left \ {t}
  /\ attempt' = 0
  /\ \/ left' # {} /\ UNCHANGED <<wpc, done>>
     \/ left' = {} /\ wpc' = "select" /\ Complete(cur, "ok")

\* write returns the first error, and the later tables are not tried.
AfterFailure(t) ==
  /\ wpc' = "select"
  /\ Complete(cur, "error")
  /\ attempt' = 0
  /\ left' = {}

\* retry goes round again, for an error that is not permanent.
MayRetry == attempt < MaxRetries /\ ~cancelled

\* An attempt fails, perhaps after the rows were stored.  retry tries again
\* unless the error is permanent, the retries are used up or the context is
\* done; while it is done every attempt may fail.
InsertError(t) ==
  /\ wpc = "write"
  /\ NextTable(t)
  /\ \/ cancelled /\ errors' = errors
     \/ errors < MaxErrors /\ errors' = errors + 1
  /\ Store(t, cur) \/ UNCHANGED inserted
  /\ \/ /\ MayRetry
        /\ attempt' = attempt + 1
        /\ UNCHANGED <<wpc, left, done>>
     \/ AfterFailure(t)
  /\ UNCHANGED <<queue, spc, cur, processVars, accepted>>

\* Start's select sees the end of the context.
SeeCancel ==
  /\ wpc = "select"
  /\ cancelled
  /\ wpc' = "fail"
  /\ UNCHANGED <<queue, spc, done, cur, left, attempt, storeVars, processVars,
                 accepted>>

\* "Fail anything still queued so no consumer waits forever."
FailQueued ==
  /\ wpc = "fail"
  /\ \/ /\ queue # <<>>
        /\ Complete(Head(queue), "error")
        /\ queue' = Tail(queue)
        /\ wpc' = wpc
     \/ queue = <<>> /\ wpc' = "exited" /\ UNCHANGED <<queue, done>>
  /\ UNCHANGED <<spc, cur, left, attempt, storeVars, processVars, accepted>>

\* The queue is closed and drained.
SeeClosed ==
  /\ wpc = "select"
  /\ queue = <<>>
  /\ closing = "closed"
  /\ wpc' = "exited"
  /\ UNCHANGED <<queue, spc, done, cur, left, attempt, storeVars, processVars,
                 accepted>>

-----------------------------------------------------------------------------
(* The process.                                                            *)

Cancel ==
  /\ ~cancelled
  /\ cancelled' = TRUE
  /\ UNCHANGED <<queue, spc, done, workerVars, storeVars, closing, status,
                 accepted>>

\* Close closes the two channels one after the other; g.Wait has returned.
Close ==
  /\ \A f \in Flush : Owner[f] = Consumer => ~InProgress(f)
  /\ \/ closing = "open" /\ closing' = "refusing"
     \/ closing = "refusing" /\ closing' = "closed"
  /\ UNCHANGED <<queue, spc, done, workerVars, storeVars, cancelled, status,
                 accepted>>

\* Close has waited for the worker; run returns and the process ends.
Exit ==
  /\ closing = "closed"
  /\ wpc = "exited"
  /\ status' = "exited"
  /\ UNCHANGED <<queue, spc, done, workerVars, storeVars, cancelled, closing,
                 accepted>>

Running == status = "running"

Worker ==
  /\ Running
  /\ \/ TakeFlush \/ SeeCancel \/ FailQueued \/ SeeClosed
     \/ \E t \in Table : InsertOk(t) \/ InsertError(t)

Next ==
  \/ \E f \in Flush : Running /\ (Begin(f) \/ Submit(f) \/ Wait(f) \/ GiveUp(f))
  \/ Worker
  \/ Running /\ (Cancel \/ Close \/ Exit)
  \/ ~Running /\ UNCHANGED vars

Spec == Init /\ [][Next]_vars

\* The Go scheduler runs what can run, a cancelled process goes on to Close
\* (its consumer returns when its context is done), and once Close has begun
\* it completes.  No timeout of a submitter is assumed.
FairSpec ==
  /\ Spec
  /\ \A f \in Flush :
       /\ WF_vars(Running /\ Submit(f))
       /\ WF_vars(Running /\ Wait(f))
       /\ WF_vars(Running /\ cancelled /\ Owner[f] = Consumer /\ GiveUp(f))
  /\ WF_vars(Worker)
  /\ WF_vars(Running /\ (cancelled \/ closing # "open") /\ Close)
  /\ WF_vars(Running /\ Exit)

-----------------------------------------------------------------------------
(* Properties.                                                             *)

\* The rows of f are in every table they belong to, from f itself or from an
\* earlier flush of the same block.
Stored(f) ==
  \A t \in Needs[f] : \E i \in 1 .. Len(inserted[t]) :
    Block(t, inserted[t][i]) = Block(t, f)

\* A nil from Wait means that the rows are in every table they belong to:
\* "The consumer must not commit Kafka offsets before this returns nil"
\* (writer.go:63-64), however inserts fail, replies get lost or the writer is
\* shut down.
AckedIsDurable == \A f \in Flush : spc[f] = "acked" => Stored(f)

\* The retries of a flush never store its rows twice, in any table; and the rows
\* of a batch that comes again are stored again only if the table has no token
\* for them or has taken Window other blocks since: the token "makes
\* re-inserting them harmless" (writer.go:21-22) as far as the window reaches.
StoredOnce ==
  \A t \in Table : \A i, j \in 1 .. Len(inserted[t]) :
    i < j =>
      /\ inserted[t][i] # inserted[t][j]
      /\ t \notin Tokenless /\ BatchOf[inserted[t][i]] = BatchOf[inserted[t][j]] =>
           j - i > Window

\* Flushes are completed in the order they were submitted: "inserts must land
\* in the same order the consumer submitted them" (writer.go:76-77).
CompletedInOrder ==
  \A i, j \in 1 .. Len(accepted) :
    i < j /\ done[accepted[j]] # "none" => done[accepted[i]] # "none"

\* A submitter that waits gets an answer, also when the context ends: "so no
\* consumer waits forever" (writer.go:122), unless the process ends first.
WaitReturns ==
  \A f \in Flush : (spc[f] = "wait") ~> (spc[f] # "wait" \/ ~Running)

\* Close returns: the worker drains the queue and stops.
CloseReturns == (closing # "open") ~> ~Running

\* Nobody waits for ever, whichever of a flush, cancellation, Close and an
\* exhausted retry comes first (Submit, Start, Wait, Close).
NobodyWaitsForever == WaitReturns /\ CloseReturns

\* "ErrWriterClosed is returned by Submit after Close" (writer.go:18): a
\* submission after Close is an error, never a crash.
SubmitAfterCloseRefused == status # "panicked"
=============================================================================
