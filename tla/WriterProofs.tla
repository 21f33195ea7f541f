---------------------------- MODULE WriterProofs ----------------------------
(***************************************************************************)
(* Proofs about Writer: an acknowledged flush is durable in every table it *)
(* has rows for, flushes are completed in the order they were queued, and  *)
(* rows are stored again only beyond the deduplication window.             *)
(***************************************************************************)
EXTENDS Writer, SequenceTheorems, TLAPS

USE WriterAssumption, NoFlushAssumption

-----------------------------------------------------------------------------
(* Types.                                                                  *)

LEMMA TableType == Table \subseteq Nat
BY DEF Table

\* What Store does to the list of inserts: nothing, or one more at its end.
LEMMA StoreGrows ==
  ASSUME TypeOK, NEW t \in Table, NEW f \in Flush, Store(t, f)
  PROVE  /\ inserted' \in [Table -> Seq(Flush)]
         /\ \A u \in Table : Len(inserted'[u]) \in Nat /\ Len(inserted[u]) \in Nat
         /\ \A u \in Table : u # t => inserted'[u] = inserted[u]
         /\ \/ Remembers(t, f) /\ inserted'[t] = inserted[t]
            \/ /\ ~Remembers(t, f)
               /\ Len(inserted'[t]) = Len(inserted[t]) + 1
               /\ \A i \in 1 .. Len(inserted[t]) : inserted'[t][i] = inserted[t][i]
               /\ inserted'[t][Len(inserted[t]) + 1] = f
<1>1. inserted \in [Table -> Seq(Flush)] /\ inserted[t] \in Seq(Flush)
  BY DEF TypeOK
<1>2. CASE Remembers(t, f) /\ UNCHANGED inserted
  BY <1>1, <1>2
<1>3. CASE ~Remembers(t, f) /\ inserted' = [inserted EXCEPT ![t] = Append(@, f)]
  <2>1. /\ inserted'[t] = Append(inserted[t], f)
        /\ \A u \in Table : u # t => inserted'[u] = inserted[u]
    BY <1>1, <1>3
  <2>2. Append(inserted[t], f) \in Seq(Flush)
    BY <1>1
  <2>3. inserted' \in [Table -> Seq(Flush)]
    BY <1>1, <1>3, <2>2
  <2>4. /\ Len(inserted'[t]) = Len(inserted[t]) + 1
        /\ \A i \in 1 .. Len(inserted[t]) : inserted'[t][i] = inserted[t][i]
        /\ inserted'[t][Len(inserted[t]) + 1] = f
    BY <1>1, <2>1, AppendProperties
  <2>5. \A u \in Table : Len(inserted'[u]) \in Nat /\ Len(inserted[u]) \in Nat
    BY <1>1, <2>3
  <2> QED BY <1>3, <2>1, <2>3, <2>4, <2>5
<1> QED BY <1>2, <1>3 DEF Store

LEMMA TypeInit == Init => TypeOK
<1> SUFFICES ASSUME Init PROVE TypeOK
  OBVIOUS
<1>1. attempt \in 0 .. MaxRetries /\ errors \in 0 .. MaxErrors
  BY DEF Init
<1>2. queue \in Seq(Flush) /\ accepted \in Seq(Flush)
  BY DEF Init
<1>3. inserted \in [Table -> Seq(Flush)]
  BY DEF Init
<1> QED BY <1>1, <1>2, <1>3 DEF Init, TypeOK

LEMMA TypeSubmitters ==
  ASSUME TypeOK, NEW f \in Flush, Begin(f) \/ Submit(f) \/ Wait(f) \/ GiveUp(f)
  PROVE  TypeOK'
<1>1. CASE Begin(f)
  BY <1>1 DEF TypeOK, Begin, workerVars, storeVars, processVars
<1>2. CASE Submit(f)
  <2>1. queue' \in Seq(Flush) /\ accepted' \in Seq(Flush)
    <3>1. queue \in Seq(Flush) /\ accepted \in Seq(Flush)
      BY DEF TypeOK
    <3>2. \/ UNCHANGED <<queue, accepted>>
          \/ queue' = Append(queue, f) /\ accepted' = Append(accepted, f)
      BY <1>2 DEF Submit
    <3>3. Append(queue, f) \in Seq(Flush) /\ Append(accepted, f) \in Seq(Flush)
      BY <3>1
    <3> QED BY <3>1, <3>2, <3>3
  <2>2. spc' \in [Flush -> {"idle", "submit", "wait", "acked", "failed"}]
    BY <1>2 DEF TypeOK, Submit
  <2>3. /\ done' \in [Flush -> {"none", "ok", "error"}]
        /\ status' \in {"running", "panicked", "exited"}
    BY <1>2 DEF TypeOK, Submit
  <2> QED BY <1>2, <2>1, <2>2, <2>3 DEF TypeOK, Submit, workerVars, storeVars
<1>3. CASE Wait(f)
  BY <1>3 DEF TypeOK, Wait, workerVars, storeVars, processVars
<1>4. CASE GiveUp(f)
  BY <1>4 DEF TypeOK, GiveUp, workerVars, storeVars, processVars
<1> QED BY <1>1, <1>2, <1>3, <1>4

LEMMA TypeInserts ==
  ASSUME TypeOK, NEW t \in Table, InsertOk(t) \/ InsertError(t)
  PROVE  TypeOK'
<1>1. cur \in Flush
  BY DEF TypeOK, InsertOk, InsertError
<1>2. CASE InsertOk(t)
  <2>1. inserted' \in [Table -> Seq(Flush)]
    BY <1>1, <1>2, StoreGrows DEF InsertOk
  <2>2. done' \in [Flush -> {"none", "ok", "error"}] /\ wpc' \in {"select", "write"}
    BY <1>1, <1>2 DEF TypeOK, InsertOk, Complete
  <2>3. attempt' \in 0 .. MaxRetries
    BY <1>2 DEF InsertOk
  <2>4. left' \in SUBSET Table
    BY <1>2 DEF TypeOK, InsertOk
  <2> QED BY <1>1, <1>2, <2>1, <2>2, <2>3, <2>4 DEF TypeOK, InsertOk, processVars
<1>3. CASE InsertError(t)
  <2>1. inserted' \in [Table -> Seq(Flush)]
    <3>1. CASE Store(t, cur)
      BY <1>1, <3>1, StoreGrows
    <3>2. CASE UNCHANGED inserted
      BY <3>2 DEF TypeOK
    <3> QED BY <1>3, <3>1, <3>2 DEF InsertError
  <2>2. errors' \in 0 .. MaxErrors
    BY <1>3 DEF TypeOK, InsertError
  <2>3. attempt' \in 0 .. MaxRetries
    BY <1>3 DEF TypeOK, InsertError, MayRetry, AfterFailure
  <2> QED BY <1>1, <1>3, <2>1, <2>2, <2>3
          DEF TypeOK, InsertError, MayRetry, AfterFailure, Complete, processVars
<1> QED BY <1>2, <1>3

LEMMA TypeWorker ==
  ASSUME TypeOK, Worker
  PROVE  TypeOK'
<1>1. CASE TakeFlush
  <2>1. Head(queue) \in Flush /\ Tail(queue) \in Seq(Flush)
    BY <1>1 DEF TypeOK, TakeFlush
  <2> QED BY <1>1, <2>1 DEF TypeOK, TakeFlush, storeVars, processVars
<1>2. CASE SeeCancel
  BY <1>2 DEF TypeOK, SeeCancel, storeVars, processVars
<1>3. CASE FailQueued
  <2>1. queue # <<>> => Head(queue) \in Flush /\ Tail(queue) \in Seq(Flush)
    BY DEF TypeOK
  <2> QED BY <1>3, <2>1 DEF TypeOK, FailQueued, Complete, storeVars, processVars
<1>4. CASE SeeClosed
  BY <1>4 DEF TypeOK, SeeClosed, storeVars, processVars
<1>5. CASE \E t \in Table : InsertOk(t) \/ InsertError(t)
  BY <1>5, TypeInserts
<1> QED BY <1>1, <1>2, <1>3, <1>4, <1>5 DEF Worker

LEMMA TypeProcess ==
  ASSUME TypeOK, Cancel \/ Close \/ Exit
  PROVE  TypeOK'
BY DEF TypeOK, Cancel, Close, Exit, workerVars, storeVars

LEMMA TypeStep == TypeOK /\ [Next]_vars => TypeOK'
<1> SUFFICES ASSUME TypeOK, [Next]_vars PROVE TypeOK'
  OBVIOUS
<1>1. CASE UNCHANGED vars
  BY <1>1 DEF TypeOK, vars, workerVars, storeVars, processVars
<1> QED BY <1>1, TypeSubmitters, TypeWorker, TypeProcess DEF Next

\* Every variable keeps its type.
THEOREM TypeCorrect == Spec => []TypeOK
BY TypeInit, TypeStep, PTL DEF Spec

-----------------------------------------------------------------------------
(* Durability.  The worker reports success after its last table, so the    *)
(* invariant says what is stored while it is under way: the rows of the    *)
(* current flush in the tables that it is done with.                       *)

InTable(t, f) ==
  \E i \in 1 .. Len(inserted[t]) : Block(t, inserted[t][i]) = Block(t, f)

ReportedIsStored == \A f \in Flush : done[f] = "ok" => Stored(f)
ProgressIsStored ==
  wpc = "write" => \A t \in Needs[cur] \ left : InTable(t, cur)
DurableInv == TypeOK /\ ReportedIsStored /\ ProgressIsStored /\ AckedIsDurable

LEMMA DurableInit == Init => DurableInv
<1> SUFFICES ASSUME Init PROVE DurableInv
  OBVIOUS
<1>1. TypeOK
  BY TypeInit
<1> QED BY <1>1 DEF Init, DurableInv, ReportedIsStored, ProgressIsStored, AckedIsDurable

\* Rows are never removed: what is in a table stays there.
LEMMA StoredStays ==
  ASSUME TypeOK, NEW t \in Table, NEW f \in Flush, Store(t, f),
         NEW u \in Table, NEW g \in Flush, InTable(u, g)
  PROVE  InTable(u, g)'
<1>1. PICK i \in 1 .. Len(inserted[u]) : Block(u, inserted[u][i]) = Block(u, g)
  BY DEF InTable
<1>2. /\ i \in 1 .. Len(inserted'[u])
      /\ inserted'[u][i] = inserted[u][i]
  <2>1. CASE u # t
    BY <1>1, <2>1, StoreGrows
  <2>2. CASE u = t
    <3>1. /\ Len(inserted[t]) \in Nat
          /\ \/ inserted'[t] = inserted[t]
             \/ /\ Len(inserted'[t]) = Len(inserted[t]) + 1
                /\ \A k \in 1 .. Len(inserted[t]) : inserted'[t][k] = inserted[t][k]
      BY StoreGrows
    <3> QED BY <2>2, <3>1
  <2> QED BY <2>1, <2>2
<1>3. Block(u, inserted'[u][i]) = Block(u, g)
  BY <1>1, <1>2
<1> QED BY <1>2, <1>3 DEF InTable, Block

\* After an insert the rows of the flush are in the table, deduplicated or not.
LEMMA StoreStores ==
  ASSUME TypeOK, NEW t \in Table, NEW f \in Flush, Store(t, f)
  PROVE  InTable(t, f)'
<1>1. CASE Remembers(t, f)
  <2>1. InTable(t, f)
    BY <1>1 DEF Remembers, InTable
  <2> QED BY <2>1, StoredStays
<1>2. CASE ~Remembers(t, f)
  <2>1. /\ Len(inserted[t]) + 1 \in 1 .. Len(inserted'[t])
        /\ inserted'[t][Len(inserted[t]) + 1] = f
    BY <1>2, StoreGrows
  <2> QED BY <2>1 DEF InTable, Block
<1> QED BY <1>1, <1>2

\* The steps that leave the tables alone.
LEMMA DurableQuiet ==
  ASSUME DurableInv, TypeOK', UNCHANGED inserted,
         \A f \in Flush : done'[f] = "ok" => done[f] = "ok" \/ Needs[f] = {},
         \A f \in Flush : spc'[f] = "acked" => spc[f] = "acked" \/ done[f] = "ok",
         \/ wpc' # "write"
         \/ UNCHANGED <<wpc, cur, left>>
         \/ left' = Needs[cur']
  PROVE  DurableInv'
<1>1. \A f \in Flush : Stored(f) => Stored(f)'
  BY DEF Stored, Block
<1>2. ReportedIsStored'
  BY <1>1 DEF DurableInv, ReportedIsStored, Stored
<1>3. AckedIsDurable'
  BY <1>1 DEF DurableInv, ReportedIsStored, AckedIsDurable
<1>4. ProgressIsStored'
  BY DEF DurableInv, ProgressIsStored, InTable, Block
<1> QED BY <1>2, <1>3, <1>4 DEF DurableInv

LEMMA DurableInserts ==
  ASSUME DurableInv, TypeOK', NEW t \in Table, InsertOk(t) \/ InsertError(t)
  PROVE  DurableInv'
<1>1. TypeOK /\ ReportedIsStored /\ ProgressIsStored /\ AckedIsDurable
  BY DEF DurableInv
<1>2. cur \in Flush /\ wpc = "write" /\ cur' = cur /\ spc' = spc
  BY <1>1 DEF TypeOK, InsertOk, InsertError
<1>3. \A f \in Flush : Needs[f] \subseteq Table
  OBVIOUS
<1>4. CASE Store(t, cur)
  <2>1. InTable(t, cur)'
    BY <1>1, <1>2, <1>4, StoreStores
  <2>2. \A u \in Table, g \in Flush : InTable(u, g) => InTable(u, g)'
    BY <1>1, <1>2, <1>4, StoredStays
  <2>3. \A g \in Flush : Stored(g) => Stored(g)'
    BY <1>3, <2>2 DEF Stored, InTable
  <2>4. AckedIsDurable'
    BY <1>1, <1>2, <2>3 DEF AckedIsDurable
  <2>5. \A u \in Needs[cur] \ left : InTable(u, cur)'
    BY <1>1, <1>2, <1>3, <2>2 DEF ProgressIsStored
  <2>6. CASE InsertOk(t)
    <3>1. \A u \in Needs[cur] \ left' : InTable(u, cur)'
      BY <2>1, <2>5, <2>6 DEF InsertOk
    <3>2. ProgressIsStored'
      <4> SUFFICES ASSUME NEW u \in Needs[cur'] \ left' PROVE InTable(u, cur)'
        BY DEF ProgressIsStored
      <4> QED BY <1>2, <3>1
    <3>3. ReportedIsStored'
      <4>1. CASE UNCHANGED done
        BY <1>1, <2>3, <4>1 DEF ReportedIsStored
      <4>2. CASE left' = {} /\ done' = [done EXCEPT ![cur] = "ok"]
        <5>1. Stored(cur)'
          BY <1>2, <3>1, <4>2 DEF Stored, InTable
        <5>2. \A g \in Flush : done'[g] = "ok" => g = cur \/ done[g] = "ok"
          BY <1>1, <4>2 DEF TypeOK
        <5> QED BY <1>1, <1>2, <2>3, <5>1, <5>2 DEF ReportedIsStored
      <4> QED BY <2>6, <4>1, <4>2 DEF InsertOk, Complete
    <3> QED BY <2>4, <3>2, <3>3 DEF DurableInv
  <2>7. CASE InsertError(t)
    <3>1. wpc' = "write" => left' = left
      BY <2>7 DEF InsertError, AfterFailure
    <3>2. ProgressIsStored'
      <4> SUFFICES ASSUME wpc' = "write", NEW u \in Needs[cur'] \ left'
                   PROVE  InTable(u, cur)'
        BY DEF ProgressIsStored
      <4> QED BY <1>2, <2>5, <3>1
    <3>3. \A f \in Flush : done'[f] = "ok" => done[f] = "ok"
      BY <1>1, <1>2, <2>7 DEF InsertError, AfterFailure, Complete, TypeOK
    <3>4. ReportedIsStored'
      BY <1>1, <2>3, <3>3 DEF ReportedIsStored
    <3> QED BY <2>4, <3>2, <3>4 DEF DurableInv
  <2> QED BY <2>6, <2>7
<1>5. CASE InsertError(t) /\ UNCHANGED inserted
  <2>1. \A f \in Flush : done'[f] = "ok" => done[f] = "ok" \/ Needs[f] = {}
    BY <1>1, <1>2, <1>5 DEF InsertError, AfterFailure, Complete, TypeOK
  <2>2. wpc' # "write" \/ UNCHANGED <<wpc, cur, left>>
    BY <1>2, <1>5 DEF InsertError, AfterFailure
  <2>3. \A f \in Flush : spc'[f] = "acked" => spc[f] = "acked" \/ done[f] = "ok"
    BY <1>2
  <2>4. UNCHANGED inserted
    BY <1>5
  <2> HIDE <1>5
  <2> QED BY <2>1, <2>2, <2>3, <2>4, DurableQuiet
<1> QED BY <1>4, <1>5 DEF InsertOk, InsertError

LEMMA DurableStep == DurableInv /\ [Next]_vars => DurableInv'
<1> SUFFICES ASSUME DurableInv, [Next]_vars PROVE DurableInv'
  OBVIOUS
<1>1. TypeOK /\ TypeOK'
  BY TypeStep DEF DurableInv
<1>2. ASSUME NEW f \in Flush, Begin(f) \/ Submit(f) \/ Wait(f) \/ GiveUp(f)
      PROVE  DurableInv'
  <2>1. UNCHANGED <<inserted, wpc, cur, left>>
    BY <1>2 DEF Begin, Submit, Wait, GiveUp, workerVars, storeVars
  <2>2. \A g \in Flush : done'[g] = "ok" => done[g] = "ok" \/ Needs[g] = {}
    BY <1>1, <1>2 DEF Begin, Submit, Wait, GiveUp, TypeOK
  <2>3. \A g \in Flush : spc'[g] = "acked" => spc[g] = "acked" \/ done[g] = "ok"
    BY <1>1, <1>2 DEF Begin, Submit, Wait, GiveUp, TypeOK
  <2> QED BY <1>1, <2>1, <2>2, <2>3, DurableQuiet
<1>3. CASE TakeFlush
  <2>1. UNCHANGED <<inserted, done, spc>> /\ left' = Needs[cur']
    BY <1>3 DEF TakeFlush, storeVars
  <2> QED BY <1>1, <2>1, DurableQuiet
<1>4. CASE SeeCancel \/ FailQueued \/ SeeClosed
  <2>1. UNCHANGED <<inserted, spc>> /\ wpc' # "write"
    BY <1>4 DEF SeeCancel, FailQueued, SeeClosed, storeVars
  <2>2. \A g \in Flush : done'[g] = "ok" => done[g] = "ok"
    BY <1>1, <1>4 DEF SeeCancel, FailQueued, SeeClosed, Complete, TypeOK
  <2> QED BY <1>1, <2>1, <2>2, DurableQuiet
<1>5. ASSUME NEW t \in Table, InsertOk(t) \/ InsertError(t) PROVE DurableInv'
  BY <1>1, <1>5, DurableInserts
<1>6. CASE Cancel \/ Close \/ Exit \/ UNCHANGED vars
  <2>1. UNCHANGED <<inserted, done, spc, wpc, cur, left>>
    BY <1>6 DEF Cancel, Close, Exit, vars, workerVars, storeVars
  <2> QED BY <1>1, <2>1, DurableQuiet
<1> QED BY <1>2, <1>3, <1>4, <1>5, <1>6 DEF Next, Worker

\* Wait returns nil only when the rows of the flush are in every table they
\* belong to, whatever fails and whenever the writer is closed, for any number
\* of flushes, tables, retries and any deduplication window.
THEOREM AcknowledgedIsDurable == Spec => []AckedIsDurable
<1>1. DurableInv => AckedIsDurable
  BY DEF DurableInv
<1> QED BY <1>1, DurableInit, DurableStep, PTL DEF Spec

-----------------------------------------------------------------------------
(* Order.  The queue is the end of accepted, the flush being written the   *)
(* one before it, and exactly what precedes them is complete.  No flush is *)
(* accepted twice, so completing one never touches another's place.        *)

Finished == Len(accepted) - Len(queue) - (IF wpc = "write" THEN 1 ELSE 0)

QueueIsSuffix ==
  /\ Finished >= 0
  /\ \A i \in 1 .. Len(queue) : queue[i] = accepted[Len(accepted) - Len(queue) + i]
  /\ wpc = "write" => cur = accepted[Finished + 1]
DoneIsPrefix ==
  \A i \in 1 .. Len(accepted) : done[accepted[i]] # "none" <=> i <= Finished
AcceptedOnce ==
  \A i, j \in 1 .. Len(accepted) : accepted[i] = accepted[j] => i = j
NotYetAccepted ==
  \A f \in Flush : spc[f] \in {"idle", "submit"} =>
    \A i \in 1 .. Len(accepted) : accepted[i] # f
NotYetDone ==
  \A f \in Flush : spc[f] \in {"idle", "submit"} => done[f] = "none"
OrderInv ==
  TypeOK /\ QueueIsSuffix /\ DoneIsPrefix /\ AcceptedOnce /\ NotYetAccepted /\ NotYetDone

LEMMA OrderImplies == OrderInv => CompletedInOrder
<1> SUFFICES ASSUME OrderInv,
                    NEW i \in 1 .. Len(accepted), NEW j \in 1 .. Len(accepted),
                    i < j, done[accepted[j]] # "none"
             PROVE  done[accepted[i]] # "none"
  BY DEF CompletedInOrder
<1>1. Len(accepted) \in Nat /\ Len(queue) \in Nat
  BY DEF OrderInv, TypeOK
<1>2. Finished \in Int
  BY <1>1 DEF Finished
<1>3. j <= Finished
  BY DEF OrderInv, DoneIsPrefix
<1>4. i <= Finished
  BY <1>1, <1>2, <1>3
<1> QED BY <1>4 DEF OrderInv, DoneIsPrefix

LEMMA OrderInit == Init => OrderInv
<1> SUFFICES ASSUME Init PROVE OrderInv
  OBVIOUS
<1>1. TypeOK
  BY TypeInit
<1>2. Len(accepted) = 0 /\ Len(queue) = 0 /\ Finished = 0
  BY DEF Init, Finished
<1> QED BY <1>1, <1>2 DEF Init, OrderInv, QueueIsSuffix, DoneIsPrefix,
           AcceptedOnce, NotYetAccepted, NotYetDone

\* Steps that touch neither the queue nor the worker nor a result.
LEMMA OrderQuiet ==
  ASSUME OrderInv, TypeOK', UNCHANGED <<queue, accepted, done, cur>>,
         wpc' = wpc \/ (wpc # "write" /\ wpc' # "write"),
         \A f \in Flush : spc'[f] \in {"idle", "submit"} => spc[f] \in {"idle", "submit"}
  PROVE  OrderInv'
<1>1. Finished' = Finished
  BY DEF Finished
<1>2. QueueIsSuffix'
  BY <1>1 DEF OrderInv, QueueIsSuffix
<1>3. DoneIsPrefix' /\ AcceptedOnce'
  BY <1>1 DEF OrderInv, DoneIsPrefix, AcceptedOnce
<1>4. NotYetAccepted' /\ NotYetDone'
  BY DEF OrderInv, NotYetAccepted, NotYetDone
<1> QED BY <1>2, <1>3, <1>4 DEF OrderInv

LEMMA OrderSubmit ==
  ASSUME OrderInv, TypeOK', NEW f \in Flush, Submit(f)
  PROVE  OrderInv'
<1>1. TypeOK /\ Len(accepted) \in Nat /\ Len(queue) \in Nat
  BY DEF OrderInv, TypeOK
<1>2. done[f] = "none" /\ \A i \in 1 .. Len(accepted) : accepted[i] # f
  BY DEF OrderInv, NotYetAccepted, NotYetDone, Submit
<1>3. UNCHANGED <<wpc, cur>>
  BY DEF Submit, workerVars
<1>4. CASE UNCHANGED <<queue, accepted, done>>
  <2>1. \A g \in Flush : spc'[g] \in {"idle", "submit"} => spc[g] \in {"idle", "submit"}
    BY <1>1 DEF Submit, TypeOK
  <2> QED BY <1>3, <1>4, <2>1, OrderQuiet
<1>5. CASE /\ UNCHANGED <<queue, accepted>>
           /\ done' = [done EXCEPT ![f] = "ok"]
           /\ spc' = [spc EXCEPT ![f] = "wait"]
  <2>1. Finished' = Finished
    BY <1>3, <1>5 DEF Finished
  <2>2. \A i \in 1 .. Len(accepted) : done'[accepted[i]] = done[accepted[i]]
    BY <1>1, <1>2, <1>5 DEF TypeOK
  <2>3. DoneIsPrefix'
    BY <1>5, <2>1, <2>2 DEF OrderInv, DoneIsPrefix
  <2>4. QueueIsSuffix' /\ AcceptedOnce'
    BY <1>3, <1>5, <2>1 DEF OrderInv, QueueIsSuffix, AcceptedOnce
  <2>5. NotYetAccepted' /\ NotYetDone'
    BY <1>1, <1>5 DEF OrderInv, NotYetAccepted, NotYetDone, TypeOK
  <2> QED BY <2>3, <2>4, <2>5 DEF OrderInv
<1>6. CASE /\ queue' = Append(queue, f)
           /\ accepted' = Append(accepted, f)
           /\ spc' = [spc EXCEPT ![f] = "wait"]
           /\ done' = done
  <2> DEFINE n == Len(accepted)
             m == Len(queue)
  <2>1. /\ Len(accepted') = n + 1 /\ accepted'[n + 1] = f
        /\ \A i \in 1 .. n : accepted'[i] = accepted[i]
    BY <1>1, <1>6, AppendProperties DEF TypeOK
  <2>2. /\ Len(queue') = m + 1 /\ queue'[m + 1] = f
        /\ \A i \in 1 .. m : queue'[i] = queue[i]
    BY <1>1, <1>6, AppendProperties DEF TypeOK
  <2>3. Finished' = Finished /\ Finished \in Int /\ Finished >= 0 /\ Finished <= n
    BY <1>1, <1>3, <2>1, <2>2 DEF Finished, OrderInv, QueueIsSuffix
  <2>4. QueueIsSuffix'
    <3>1. ASSUME NEW i \in 1 .. m + 1 PROVE queue'[i] = accepted'[n - m + i]
      <4>1. CASE i = m + 1
        BY <1>1, <2>1, <2>2, <4>1
      <4>2. CASE i \in 1 .. m
        <5>1. n - m + i \in 1 .. n
          BY <1>1, <4>2 DEF OrderInv, QueueIsSuffix, Finished
        <5> QED BY <4>2, <5>1, <2>1, <2>2 DEF OrderInv, QueueIsSuffix
      <4> QED BY <1>1, <4>1, <4>2
    <3>2. wpc = "write" => Finished + 1 \in 1 .. n
      BY <1>1, <2>3 DEF Finished, OrderInv, QueueIsSuffix
    <3>3. wpc' = "write" => cur' = accepted'[Finished' + 1]
      BY <1>3, <2>1, <2>3, <3>2 DEF OrderInv, QueueIsSuffix
    <3>4. \A i \in 1 .. Len(queue') :
            queue'[i] = accepted'[Len(accepted') - Len(queue') + i]
      <4>1. Len(accepted') - Len(queue') = n - m
        BY <1>1, <2>1, <2>2
      <4> QED BY <2>2, <3>1, <4>1
    <3> QED BY <2>3, <3>3, <3>4 DEF QueueIsSuffix
  <2>5. DoneIsPrefix'
    <3>1. ASSUME NEW i \in 1 .. n + 1
          PROVE  done'[accepted'[i]] # "none" <=> i <= Finished'
      <4>1. CASE i = n + 1
        BY <1>1, <1>2, <1>6, <2>1, <2>3, <4>1
      <4>2. CASE i \in 1 .. n
        BY <1>6, <2>1, <2>3, <4>2 DEF OrderInv, DoneIsPrefix
      <4> QED BY <1>1, <4>1, <4>2
    <3> QED BY <2>1, <3>1 DEF DoneIsPrefix
  <2>6. AcceptedOnce'
    <3>1. ASSUME NEW i \in 1 .. n + 1, NEW j \in 1 .. n + 1, accepted'[i] = accepted'[j]
          PROVE  i = j
      <4>1. CASE i \in 1 .. n /\ j \in 1 .. n
        BY <2>1, <3>1, <4>1 DEF OrderInv, AcceptedOnce
      <4>2. CASE i = n + 1 \/ j = n + 1
        BY <1>1, <1>2, <2>1, <3>1, <4>2
      <4> QED BY <1>1, <4>1, <4>2
    <3> QED BY <2>1, <3>1 DEF AcceptedOnce
  <2>7. NotYetAccepted'
    <3>1. ASSUME NEW g \in Flush, spc'[g] \in {"idle", "submit"}, NEW i \in 1 .. n + 1
          PROVE  accepted'[i] # g
      <4>1. g # f /\ spc[g] \in {"idle", "submit"}
        BY <1>1, <1>6, <3>1 DEF TypeOK
      <4>2. CASE i = n + 1
        BY <2>1, <4>1, <4>2
      <4>3. CASE i \in 1 .. n
        BY <2>1, <4>1, <4>3 DEF OrderInv, NotYetAccepted
      <4> QED BY <1>1, <4>2, <4>3
    <3> QED BY <2>1, <3>1 DEF NotYetAccepted
  <2>8. NotYetDone'
    BY <1>1, <1>6 DEF OrderInv, NotYetDone, TypeOK
  <2> QED BY <2>4, <2>5, <2>6, <2>7, <2>8 DEF OrderInv
<1> QED BY <1>4, <1>5, <1>6 DEF Submit

\* The queue loses its head.
LEMMA QueueTail ==
  ASSUME OrderInv, queue # <<>>, queue' = Tail(queue), UNCHANGED accepted
  PROVE  /\ Len(queue) > 0 /\ Len(queue') = Len(queue) - 1
         /\ Head(queue) = accepted[Len(accepted) - Len(queue) + 1]
         /\ \A i \in 1 .. Len(queue') :
               queue'[i] = accepted'[Len(accepted') - Len(queue') + i]
<1>1. queue \in Seq(Flush) /\ Len(queue) \in Nat /\ Len(accepted) \in Nat
  BY DEF OrderInv, TypeOK
<1>2. /\ Len(queue) > 0 /\ Len(Tail(queue)) = Len(queue) - 1 /\ Head(queue) = queue[1]
      /\ \A k \in 1 .. Len(Tail(queue)) : Tail(queue)[k] = queue[k + 1]
  BY <1>1, HeadTailProperties, EmptySeq
<1>3. ASSUME NEW i \in 1 .. Len(queue')
      PROVE  queue'[i] = accepted'[Len(accepted') - Len(queue') + i]
  <2>1. i + 1 \in 1 .. Len(queue) /\ queue'[i] = queue[i + 1]
    BY <1>1, <1>2, <1>3
  <2>2. queue[i + 1] = accepted[Len(accepted) - Len(queue) + (i + 1)]
    BY <2>1 DEF OrderInv, QueueIsSuffix
  <2>3. Len(accepted) - Len(queue) + (i + 1) = Len(accepted') - Len(queue') + i
    BY <1>1, <1>2
  <2> QED BY <2>1, <2>2, <2>3
<1>4. Head(queue) = accepted[Len(accepted) - Len(queue) + 1]
  <2>1. 1 \in 1 .. Len(queue)
    BY <1>1, <1>2
  <2> QED BY <1>2, <2>1 DEF OrderInv, QueueIsSuffix
<1> QED BY <1>2, <1>3, <1>4

\* A step that completes the oldest unfinished flush and nothing else.
LEMMA OrderComplete ==
  ASSUME OrderInv, TypeOK', UNCHANGED <<accepted, spc>>, NEW r \in {"ok", "error"},
         Finished' = Finished + 1, Finished + 1 \in 1 .. Len(accepted),
         done' = [done EXCEPT ![accepted[Finished + 1]] = r]
  PROVE  DoneIsPrefix' /\ AcceptedOnce' /\ NotYetAccepted' /\ NotYetDone'
<1> DEFINE k == Finished + 1
<1>1. TypeOK /\ accepted[k] \in Flush /\ Finished \in Int /\ k \in Int
  BY DEF OrderInv, TypeOK, Finished
<1>2. ASSUME NEW i \in 1 .. Len(accepted)
      PROVE  done'[accepted[i]] # "none" <=> i <= Finished'
  <2>1. accepted[i] \in Flush
    BY <1>1 DEF TypeOK
  <2>2. CASE i = k
    BY <1>1, <2>2 DEF TypeOK
  <2>3. CASE i # k
    <3>1. accepted[i] # accepted[k]
      BY <2>3 DEF OrderInv, AcceptedOnce
    <3>2. done'[accepted[i]] = done[accepted[i]]
      BY <1>1, <2>1, <3>1 DEF TypeOK
    <3>3. i <= Finished' <=> i <= Finished
      BY <1>1, <2>3
    <3> QED BY <3>2, <3>3 DEF OrderInv, DoneIsPrefix
  <2> QED BY <2>2, <2>3
<1>3. DoneIsPrefix'
  BY <1>2 DEF DoneIsPrefix
<1>4. AcceptedOnce' /\ NotYetAccepted'
  BY DEF OrderInv, AcceptedOnce, NotYetAccepted
<1>5. ASSUME NEW f \in Flush, spc'[f] \in {"idle", "submit"} PROVE done'[f] = "none"
  <2>1. f # accepted[k] /\ done[f] = "none"
    BY <1>5 DEF OrderInv, NotYetAccepted, NotYetDone
  <2> QED BY <1>1, <2>1 DEF TypeOK
<1> QED BY <1>3, <1>4, <1>5 DEF NotYetDone

LEMMA OrderTake ==
  ASSUME OrderInv, TypeOK', TakeFlush
  PROVE  OrderInv'
<1>1. /\ queue # <<>> /\ queue' = Tail(queue) /\ UNCHANGED <<accepted, done, spc>>
      /\ wpc # "write" /\ wpc' = "write" /\ cur' = Head(queue)
  BY DEF TakeFlush
<1>2. Len(queue) \in Nat /\ Len(accepted) \in Nat
  BY DEF OrderInv, TypeOK
<1>3. Finished' = Finished /\ Finished = Len(accepted) - Len(queue)
  BY <1>1, <1>2, QueueTail DEF Finished
<1>4. QueueIsSuffix'
  BY <1>1, <1>2, <1>3, QueueTail DEF OrderInv, QueueIsSuffix
<1>5. DoneIsPrefix' /\ AcceptedOnce' /\ NotYetAccepted' /\ NotYetDone'
  BY <1>1, <1>3 DEF OrderInv, DoneIsPrefix, AcceptedOnce, NotYetAccepted, NotYetDone
<1> QED BY <1>4, <1>5 DEF OrderInv

LEMMA OrderFail ==
  ASSUME OrderInv, TypeOK', FailQueued
  PROVE  OrderInv'
<1>1. Len(queue) \in Nat /\ Len(accepted) \in Nat
  BY DEF OrderInv, TypeOK
<1>2. CASE queue = <<>>
  BY <1>2, OrderQuiet DEF FailQueued
<1>3. CASE queue # <<>>
  <2>1. /\ queue' = Tail(queue) /\ UNCHANGED <<accepted, spc, cur, wpc>> /\ wpc = "fail"
        /\ done' = [done EXCEPT ![Head(queue)] = "error"]
    BY <1>3 DEF FailQueued, Complete
  <2>2. /\ Finished = Len(accepted) - Len(queue) /\ Finished' = Finished + 1
        /\ Finished >= 0 /\ Finished + 1 \in 1 .. Len(accepted)
    BY <1>1, <1>3, <2>1, QueueTail DEF Finished, OrderInv, QueueIsSuffix
  <2>3. done' = [done EXCEPT ![accepted[Finished + 1]] = "error"]
    BY <1>1, <1>3, <2>1, <2>2, QueueTail
  <2>4. DoneIsPrefix' /\ AcceptedOnce' /\ NotYetAccepted' /\ NotYetDone'
    BY <2>1, <2>2, <2>3, OrderComplete
  <2>5. QueueIsSuffix'
    BY <1>1, <1>3, <2>1, <2>2, QueueTail DEF QueueIsSuffix
  <2> QED BY <2>4, <2>5 DEF OrderInv
<1> QED BY <1>2, <1>3

LEMMA OrderInserts ==
  ASSUME OrderInv, TypeOK', NEW t \in Table, InsertOk(t) \/ InsertError(t)
  PROVE  OrderInv'
<1>1. /\ Len(queue) \in Nat /\ Len(accepted) \in Nat /\ wpc = "write"
      /\ UNCHANGED <<queue, accepted, spc, cur>>
  BY DEF OrderInv, TypeOK, InsertOk, InsertError
<1>2. CASE UNCHANGED <<wpc, done>>
  BY <1>1, <1>2, OrderQuiet
<1>3. ASSUME NEW r \in {"ok", "error"}, wpc' = "select", Complete(cur, r)
      PROVE  OrderInv'
  <2>1. /\ Finished' = Finished + 1 /\ Finished + 1 \in 1 .. Len(accepted)
        /\ cur = accepted[Finished + 1]
    BY <1>1, <1>3 DEF Finished, OrderInv, QueueIsSuffix
  <2>2. DoneIsPrefix' /\ AcceptedOnce' /\ NotYetAccepted' /\ NotYetDone'
    BY <1>1, <1>3, <2>1, OrderComplete DEF Complete
  <2>3. QueueIsSuffix'
    BY <1>1, <1>3, <2>1 DEF OrderInv, QueueIsSuffix
  <2> QED BY <2>2, <2>3 DEF OrderInv
<1> QED BY <1>2, <1>3 DEF InsertOk, InsertError, AfterFailure

LEMMA OrderStep == OrderInv /\ [Next]_vars => OrderInv'
<1> SUFFICES ASSUME OrderInv, [Next]_vars PROVE OrderInv'
  OBVIOUS
<1>1. TypeOK /\ TypeOK'
  BY TypeStep DEF OrderInv
<1>2. ASSUME NEW f \in Flush, Begin(f) \/ Wait(f) \/ GiveUp(f) PROVE OrderInv'
  <2>1. UNCHANGED <<queue, accepted, done, cur, wpc>>
    BY <1>2 DEF Begin, Wait, GiveUp, workerVars
  <2>2. \A g \in Flush : spc'[g] \in {"idle", "submit"} => spc[g] \in {"idle", "submit"}
    BY <1>1, <1>2 DEF Begin, Wait, GiveUp, TypeOK
  <2> QED BY <1>1, <2>1, <2>2, OrderQuiet
<1>3. ASSUME NEW f \in Flush, Submit(f) PROVE OrderInv'
  BY <1>1, <1>3, OrderSubmit
<1>4. CASE SeeCancel \/ SeeClosed
  BY <1>1, <1>4, OrderQuiet DEF SeeCancel, SeeClosed
<1>5. ASSUME NEW t \in Table, InsertOk(t) \/ InsertError(t) PROVE OrderInv'
  BY <1>1, <1>5, OrderInserts
<1>6. CASE Cancel \/ Close \/ Exit \/ UNCHANGED vars
  BY <1>1, <1>6, OrderQuiet DEF Cancel, Close, Exit, vars, workerVars
<1>7. CASE TakeFlush
  BY <1>1, <1>7, OrderTake
<1>8. CASE FailQueued
  BY <1>1, <1>8, OrderFail
<1> QED BY <1>2, <1>3, <1>4, <1>5, <1>6, <1>7, <1>8 DEF Next, Worker

\* Flushes are completed in the order Submit queued them, for any number of
\* submitters and any capacity of the queue.
THEOREM CompletionIsOrdered == Spec => []CompletedInOrder
BY OrderInit, OrderStep, OrderImplies, PTL DEF Spec

-----------------------------------------------------------------------------
(* Deduplication.  A flush is accepted once and written in one go: while   *)
(* it is being written its own insert into a table is the last one there,  *)
(* and its retries find it in any window.                                  *)

Taken == Len(accepted) - Len(queue)

InsertedWasTaken ==
  \A t \in Table : \A i \in 1 .. Len(inserted[t]) :
    \E k \in 1 .. Taken : inserted[t][i] = accepted[k]
OwnInsertIsLast ==
  wpc = "write" => \A t \in Table : \A i \in 1 .. Len(inserted[t]) :
                     inserted[t][i] = cur => i = Len(inserted[t])
OnceInv == OrderInv /\ InsertedWasTaken /\ OwnInsertIsLast /\ StoredOnce

LEMMA OnceInit == Init => OnceInv
<1> SUFFICES ASSUME Init PROVE OnceInv
  OBVIOUS
<1>1. OrderInv
  BY OrderInit
<1>2. \A t \in Table : Len(inserted[t]) = 0
  BY DEF Init
<1> QED BY <1>1, <1>2 DEF OnceInv, InsertedWasTaken, OwnInsertIsLast, StoredOnce

\* Steps without an insert: the accepted flushes before the queue stay where they
\* are, and a flush taken from the queue has not been inserted yet.
LEMMA OnceQuiet ==
  ASSUME OnceInv, TypeOK', UNCHANGED inserted, Taken' >= Taken,
         \A k \in 1 .. Taken : accepted'[k] = accepted[k],
         \/ wpc' # "write"
         \/ UNCHANGED <<wpc, cur>>
         \/ \A k \in 1 .. Taken : accepted[k] # cur'
  PROVE  InsertedWasTaken' /\ OwnInsertIsLast' /\ StoredOnce'
<1>1. Taken \in Int /\ Taken' \in Int
  BY DEF Taken, OnceInv, OrderInv, TypeOK
<1>2. \A t \in Table : inserted'[t] = inserted[t]
  OBVIOUS
<1>3. InsertedWasTaken'
  <2> SUFFICES ASSUME NEW t \in Table, NEW i \in 1 .. Len(inserted'[t])
               PROVE  \E k \in 1 .. Taken' : inserted'[t][i] = accepted'[k]
    BY DEF InsertedWasTaken
  <2>1. PICK k \in 1 .. Taken : inserted[t][i] = accepted[k]
    BY <1>2 DEF OnceInv, InsertedWasTaken
  <2>2. k \in 1 .. Taken'
    BY <1>1
  <2> QED BY <1>2, <2>1, <2>2
<1>4. OwnInsertIsLast'
  <2> SUFFICES ASSUME wpc' = "write", NEW t \in Table, NEW i \in 1 .. Len(inserted[t]),
                      inserted[t][i] = cur'
               PROVE  i = Len(inserted[t])
    BY <1>2 DEF OwnInsertIsLast
  <2>1. \E k \in 1 .. Taken : cur' = accepted[k]
    BY DEF OnceInv, InsertedWasTaken
  <2>2. UNCHANGED <<wpc, cur>>
    BY <2>1
  <2> QED BY <2>2 DEF OnceInv, OwnInsertIsLast
<1>5. StoredOnce'
  BY <1>2 DEF OnceInv, StoredOnce
<1> QED BY <1>3, <1>4, <1>5

\* An insert of the current flush: a table that has its block among the last ones
\* drops it, and one that has not took an equal block Window inserts ago or more.
LEMMA OnceStore ==
  ASSUME OnceInv, wpc = "write", UNCHANGED <<queue, accepted, cur>>,
         NEW t \in Table, Store(t, cur)
  PROVE  InsertedWasTaken' /\ OwnInsertIsLast' /\ StoredOnce'
<1> DEFINE n == Len(inserted[t])
<1>1. TypeOK /\ cur \in Flush /\ Taken \in Int /\ Taken' = Taken
  BY DEF OnceInv, OrderInv, TypeOK, Taken
<1>2. Taken \in 1 .. Taken /\ cur = accepted[Taken]
  BY <1>1 DEF OnceInv, OrderInv, QueueIsSuffix, Finished, Taken
<1>3. /\ \A u \in Table : Len(inserted[u]) \in Nat
      /\ \A u \in Table : u # t => inserted'[u] = inserted[u]
  BY <1>1, StoreGrows
<1>4. CASE inserted'[t] = inserted[t]
  <2>1. \A u \in Table : inserted'[u] = inserted[u]
    BY <1>3, <1>4
  <2> QED BY <1>1, <2>1
          DEF OnceInv, InsertedWasTaken, OwnInsertIsLast, StoredOnce
<1>5. CASE /\ ~Remembers(t, cur)
           /\ Len(inserted'[t]) = n + 1
           /\ \A i \in 1 .. n : inserted'[t][i] = inserted[t][i]
           /\ inserted'[t][n + 1] = cur
  <2>1. \A i \in 1 .. n : i > n - Window => Block(t, inserted[t][i]) # Block(t, cur)
    BY <1>5 DEF Remembers
  <2>2. \A i \in 1 .. n : inserted[t][i] # cur
    <3> SUFFICES ASSUME NEW i \in 1 .. n, inserted[t][i] = cur PROVE FALSE
      OBVIOUS
    <3>1. i = n
      BY DEF OnceInv, OwnInsertIsLast
    <3>2. n > n - Window
      BY <1>3, <3>1
    <3> QED BY <2>1, <3>1, <3>2
  <2>3. \A i \in 1 .. n :
          t \notin Tokenless /\ BatchOf[inserted[t][i]] = BatchOf[cur] =>
            n + 1 - i > Window
    <3> SUFFICES ASSUME NEW i \in 1 .. n, t \notin Tokenless,
                        BatchOf[inserted[t][i]] = BatchOf[cur]
                 PROVE  n + 1 - i > Window
      OBVIOUS
    <3>1. Block(t, inserted[t][i]) = Block(t, cur)
      BY DEF Block
    <3>2. ~(i > n - Window)
      BY <2>1, <3>1
    <3> QED BY <1>3, <3>2
  <2>4. InsertedWasTaken'
    <3> SUFFICES ASSUME NEW u \in Table, NEW i \in 1 .. Len(inserted'[u])
                 PROVE  \E k \in 1 .. Taken : inserted'[u][i] = accepted[k]
      BY <1>1 DEF InsertedWasTaken
    <3>1. CASE u = t /\ i = n + 1
      BY <1>2, <1>5, <3>1
    <3>2. CASE ~(u = t /\ i = n + 1)
      <4>1. i \in 1 .. Len(inserted[u]) /\ inserted'[u][i] = inserted[u][i]
        BY <1>3, <1>5, <3>2
      <4> QED BY <4>1 DEF OnceInv, InsertedWasTaken
    <3> QED BY <3>1, <3>2
  <2>5. OwnInsertIsLast'
    <3> SUFFICES ASSUME NEW u \in Table, NEW i \in 1 .. Len(inserted'[u]),
                        inserted'[u][i] = cur
                 PROVE  i = Len(inserted'[u])
      BY DEF OwnInsertIsLast
    <3>1. CASE u = t
      BY <1>3, <1>5, <2>2, <3>1
    <3>2. CASE u # t
      BY <1>3, <3>2 DEF OnceInv, OwnInsertIsLast
    <3> QED BY <3>1, <3>2
  <2>6. StoredOnce'
    <3> SUFFICES ASSUME NEW u \in Table, NEW i \in 1 .. Len(inserted'[u]),
                        NEW j \in 1 .. Len(inserted'[u]), i < j
                 PROVE  /\ inserted'[u][i] # inserted'[u][j]
                        /\ /\ u \notin Tokenless
                           /\ BatchOf[inserted'[u][i]] = BatchOf[inserted'[u][j]]
                           => j - i > Window
      BY DEF StoredOnce
    <3>1. CASE u = t /\ j = n + 1
      <4>1. i \in 1 .. n /\ inserted'[t][i] = inserted[t][i]
        BY <1>3, <1>5, <3>1
      <4>2. inserted'[u][i] = inserted[t][i] /\ inserted'[u][j] = cur
        BY <1>5, <3>1, <4>1
      <4> QED BY <2>2, <2>3, <3>1, <4>1, <4>2
    <3>2. CASE ~(u = t /\ j = n + 1)
      <4>1. /\ i \in 1 .. Len(inserted[u]) /\ inserted'[u][i] = inserted[u][i]
            /\ j \in 1 .. Len(inserted[u]) /\ inserted'[u][j] = inserted[u][j]
        BY <1>3, <1>5, <3>2
      <4> QED BY <4>1 DEF OnceInv, StoredOnce
    <3> QED BY <3>1, <3>2
  <2> QED BY <2>4, <2>5, <2>6
<1> QED BY <1>1, <1>4, <1>5, StoreGrows

LEMMA OnceStep == OnceInv /\ [Next]_vars => OnceInv'
<1> SUFFICES ASSUME OnceInv, [Next]_vars
             PROVE  InsertedWasTaken' /\ OwnInsertIsLast' /\ StoredOnce'
  BY OrderStep DEF OnceInv
<1>1. OrderInv /\ OrderInv' /\ TypeOK /\ TypeOK'
  BY OrderStep DEF OnceInv, OrderInv
<1>2. /\ Len(queue) \in Nat /\ Len(accepted) \in Nat
      /\ Taken \in Int /\ Taken <= Len(accepted)
  BY <1>1 DEF TypeOK, Taken
<1>3. CASE UNCHANGED <<queue, accepted, inserted, cur>> /\ (wpc' = wpc \/ wpc' # "write")
  <2>1. Taken' = Taken
    BY <1>3 DEF Taken
  <2> QED BY <1>1, <1>2, <1>3, <2>1, OnceQuiet
<1>4. ASSUME NEW f \in Flush, Submit(f)
      PROVE  InsertedWasTaken' /\ OwnInsertIsLast' /\ StoredOnce'
  <2>1. UNCHANGED <<inserted, wpc, cur>>
    BY <1>4 DEF Submit, workerVars, storeVars
  <2>2. CASE UNCHANGED <<queue, accepted>>
    BY <1>3, <2>1, <2>2
  <2>3. CASE queue' = Append(queue, f) /\ accepted' = Append(accepted, f)
    <3>1. /\ Len(accepted') = Len(accepted) + 1 /\ Len(queue') = Len(queue) + 1
          /\ \A k \in 1 .. Len(accepted) : accepted'[k] = accepted[k]
      BY <1>1, <2>3, AppendProperties DEF TypeOK
    <3>2. Taken' = Taken
      BY <1>2, <3>1 DEF Taken
    <3>3. \A k \in 1 .. Taken : accepted'[k] = accepted[k]
      BY <1>2, <3>1
    <3> QED BY <1>1, <1>2, <2>1, <3>2, <3>3, OnceQuiet
  <2> QED BY <1>4, <2>2, <2>3 DEF Submit
<1>5. CASE queue # <<>> /\ queue' = Tail(queue) /\ UNCHANGED <<accepted, inserted>>
           /\ (wpc' # "write" \/ cur' = Head(queue))
  <2>1. /\ Len(queue) > 0 /\ Len(queue') = Len(queue) - 1
        /\ Head(queue) = accepted[Taken + 1]
    BY <1>1, <1>5, QueueTail DEF Taken
  <2>2. Taken' = Taken + 1 /\ Taken + 1 \in 1 .. Len(accepted)
    BY <1>1, <1>2, <1>5, <2>1 DEF Taken, OrderInv, QueueIsSuffix, Finished
  <2>3. \A k \in 1 .. Taken : accepted[k] # Head(queue)
    BY <1>1, <1>2, <2>1, <2>2 DEF OrderInv, AcceptedOnce
  <2> QED BY <1>1, <1>2, <1>5, <2>2, <2>3, OnceQuiet
<1>6. ASSUME NEW t \in Table, InsertOk(t) \/ InsertError(t)
      PROVE  InsertedWasTaken' /\ OwnInsertIsLast' /\ StoredOnce'
  <2>1. wpc = "write" /\ UNCHANGED <<queue, accepted, cur>>
    BY <1>6 DEF InsertOk, InsertError
  <2>2. wpc' = wpc \/ wpc' # "write"
    BY <1>6 DEF InsertOk, InsertError, AfterFailure
  <2>3. Store(t, cur) \/ UNCHANGED inserted
    BY <1>6 DEF InsertOk, InsertError
  <2> QED BY <1>3, <2>1, <2>2, <2>3, OnceStore
<1>7. ASSUME NEW f \in Flush, Begin(f) \/ Wait(f) \/ GiveUp(f)
      PROVE  InsertedWasTaken' /\ OwnInsertIsLast' /\ StoredOnce'
  BY <1>3, <1>7 DEF Begin, Wait, GiveUp, workerVars, storeVars
<1>8. CASE TakeFlush
  BY <1>5, <1>8 DEF TakeFlush, storeVars
<1>9. CASE FailQueued
  BY <1>3, <1>5, <1>9 DEF FailQueued, storeVars
<1>10. CASE SeeCancel \/ SeeClosed
  BY <1>3, <1>10 DEF SeeCancel, SeeClosed, storeVars
<1>11. CASE Cancel \/ Close \/ Exit \/ UNCHANGED vars
  BY <1>3, <1>11 DEF Cancel, Close, Exit, vars, workerVars, storeVars
<1> QED BY <1>4, <1>6, <1>7, <1>8, <1>9, <1>10, <1>11 DEF Next, Worker

\* The retries of a flush never store its rows twice in a table, and the rows of a
\* batch that comes again with its token (Flush.Token, writer.go:26-31) are stored
\* again only after Window other blocks, for any flushes, tables, tokenless tables,
\* deduplication window, queue capacity and failures.
THEOREM RowsAreStoredOnce == Spec => []StoredOnce
<1>1. OnceInv => StoredOnce
  BY DEF OnceInv
<1> QED BY <1>1, OnceInit, OnceStep, PTL DEF Spec
=============================================================================
