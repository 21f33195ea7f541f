-------------------------- MODULE CollectorProofs --------------------------
(***************************************************************************)
(* Proofs about Collector: the depth counter never drifts from the queue,  *)
(* no envelope the collector answered for disappears, and each envelope is *)
(* released exactly once.                                                  *)
(***************************************************************************)
EXTENDS Collector, FiniteSetTheorems, SequenceTheorems, TLAPS

USE QueueAssumption, CollectorAssumption

-----------------------------------------------------------------------------
(* Facts about envelopes, the queue and the batch.                         *)

LEMMA EnvelopeOf ==
  ASSUME NEW c \in Client, NEW i \in 1 .. BatchLen[c]
  PROVE  <<c, i>> \in Envelope
BY DEF Envelope, Request

LEMMA RestType ==
  ASSUME ClientTypeOK, NEW c \in Client
  PROVE  Rest(c) \subseteq Envelope /\ Request(c) \subseteq Envelope
BY EnvelopeOf DEF Rest, Request, ClientTypeOK

\* Releasing any set of envelopes keeps the type of the release counts.
LEMMA ReleaseType ==
  ASSUME GhostTypeOK, NEW S, Release(S)
  PROVE  released' \in [Envelope -> Nat]
BY DEF Release, GhostTypeOK

LEMMA TakeType ==
  ASSUME ch \in Seq(Envelope), ch # <<>>, Take
  PROVE  ch' \in Seq(Envelope) /\ Head(ch) \in Envelope
BY DEF Take

LEMMA AppendType ==
  ASSUME NEW s \in Seq(Envelope), NEW e \in Envelope
  PROVE  Append(s, e) \in Seq(Envelope)
OBVIOUS

LEMMA ToSetType ==
  ASSUME NEW s \in Seq(Envelope)
  PROVE  ToSet(s) \subseteq Envelope
BY DEF ToSet

LEMMA EmptyType == <<>> \in Seq(Envelope)
OBVIOUS

LEMMA ProduceType ==
  ASSUME BatcherTypeOK, GhostTypeOK, NEW S \in SUBSET ToSet(buf), Produce(S)
  PROVE  /\ produced' \in SUBSET Envelope
         /\ released' \in [Envelope -> Nat]
<1>1. ToSet(buf) \subseteq Envelope
  BY ToSetType DEF BatcherTypeOK
<1>2. released' \in [Envelope -> Nat]
  BY ReleaseType DEF Produce
<1> QED BY <1>1, <1>2 DEF Produce, GhostTypeOK

-----------------------------------------------------------------------------
(* Types.                                                                  *)

\* TypeOK is not inductive by itself: a request that has not begun to send
\* is at its first envelope, and one that waits for admission has some.
TypeInv ==
  /\ TypeOK
  /\ \A c \in Client :
       /\ cpc[c] \in {"idle", "admit"} => at[c] = 1
       /\ cpc[c] = "admit" => BatchLen[c] > 0

LEMMA TypeInit == Init => TypeInv
<1> SUFFICES ASSUME Init PROVE TypeInv
  OBVIOUS
<1>1. QueueTypeOK
  BY EmptyType DEF Init, QueueInit, QueueTypeOK
<1>2. ClientTypeOK /\ \A c \in Client : cpc[c] = "idle" /\ at[c] = 1
  BY DEF Init, ClientTypeOK
<1>3. BatcherTypeOK
  BY EmptyType DEF Init, BatcherTypeOK
<1>4. ProcessTypeOK
  <2>1. failures \in 0 .. MaxFailures
    BY DEF Init
  <2>2. tick \in BOOLEAN /\ cancelled \in BOOLEAN /\ closed \in BOOLEAN
    BY Zenon DEF Init
  <2> QED BY <2>1, <2>2 DEF Init, ProcessTypeOK
<1>5. GhostTypeOK
  BY DEF Init, GhostTypeOK
<1> QED BY <1>1, <1>2, <1>3, <1>4, <1>5 DEF TypeInv, TypeOK

LEMMA TypeRefuse ==
  ASSUME TypeInv, NEW c \in Client, Step, Refuse(c)
  PROVE  TypeInv'
<1> USE DEF Refuse, TypeInv, TypeOK
<1>1. QueueTypeOK'
  BY DEF QueueTypeOK, queueVars
<1>2. /\ ClientTypeOK'
      /\ \A d \in Client : /\ cpc'[d] \in {"idle", "admit"} => at'[d] = 1
                           /\ cpc'[d] = "admit" => BatchLen[d] > 0
  BY DEF ClientTypeOK, Ended
<1>3. BatcherTypeOK'
  BY DEF BatcherTypeOK, batcherVars
<1>4. ProcessTypeOK'
  BY DEF ProcessTypeOK, processVars, Step
<1>5. GhostTypeOK'
  BY RestType, ReleaseType DEF GhostTypeOK
<1> QED BY <1>1, <1>2, <1>3, <1>4, <1>5

LEMMA TypeHandler ==
  ASSUME TypeInv, NEW c \in Client, Arrival(c) \/ Handler(c)
  PROVE  TypeInv'
<1>0. Step
  BY DEF Arrival, Handler
<1>1. CASE Refuse(c)
  BY <1>0, <1>1, TypeRefuse
<1> DEFINE Begun ==
      \A d \in Client : /\ cpc[d] \in {"idle", "admit"} => at[d] = 1
                        /\ cpc[d] = "admit" => BatchLen[d] > 0
<1>2. QueueTypeOK /\ ClientTypeOK /\ BatcherTypeOK /\ ProcessTypeOK /\ GhostTypeOK /\ Begun
  BY DEF TypeInv, TypeOK
<1>3. CASE /\ ~Refuse(c)
           /\ \/ Accept(c) \/ AcceptMalformed(c) \/ EnqueueBatch(c) \/ Send(c)
              \/ CountSent(c) \/ Evict(c) \/ CountEvicted(c)
  <2> USE DEF AcceptMalformed, Accept, EnqueueBatch, Send, CountSent, Evict, CountEvicted
  <2>1. BatcherTypeOK'
    BY <1>2, <1>3 DEF BatcherTypeOK, batcherVars
  <2>2. ProcessTypeOK'
    BY <1>0, <1>2, <1>3 DEF ProcessTypeOK, processVars, Step
  <2>3. GhostTypeOK'
    <3>1. CASE UNCHANGED ghostVars
      BY <1>2, <3>1 DEF GhostTypeOK, ghostVars
    <3>2. CASE AcceptMalformed(c)
      BY <1>2, <3>2, RestType, ReleaseType DEF GhostTypeOK
    <3>3. CASE CountEvicted(c)
      <4>1. old[c] \in Envelope
        BY <1>2, <3>3 DEF ClientTypeOK
      <4> QED BY <1>2, <3>3, <4>1, ReleaseType DEF GhostTypeOK
    <3> QED BY <1>3, <3>1, <3>2, <3>3
  <2>4. QueueTypeOK'
    <3>1. CASE Send(c) /\ HasRoom
      <4>1. at[c] \in 1 .. BatchLen[c]
        BY <1>2, <3>1 DEF ClientTypeOK
      <4>2. Append(ch, <<c, at[c]>>) \in Seq(Envelope)
        BY <1>2, <4>1, EnvelopeOf, AppendType DEF QueueTypeOK
      <4> QED BY <1>2, <3>1, <4>2 DEF QueueTypeOK, Put
    <3>2. CASE Evict(c) /\ ch # <<>>
      BY <1>2, <3>2, TakeType DEF QueueTypeOK
    <3>3. CASE CountSent(c) \/ CountEvicted(c)
      BY <1>2, <3>3 DEF QueueTypeOK, CountIn, CountOut
    <3> QED BY <1>2, <1>3, <3>1, <3>2, <3>3 DEF QueueTypeOK, queueVars
  <2>5. ClientTypeOK' /\ Begun'
    <3> USE DEF ClientTypeOK, Ended
    <3>1. CASE Accept(c) \/ AcceptMalformed(c) \/ CountSent(c)
      BY <1>2, <3>1
    <3>2. CASE EnqueueBatch(c)
      BY <1>2, <1>3, <3>2
    <3>3. CASE Send(c)
      BY <1>2, <1>3, <3>3
    <3>4. CASE Evict(c)
      <4>1. ch # <<>> => Head(ch) \in Envelope
        BY <1>2 DEF QueueTypeOK
      <4>2. CASE ch # <<>>
        <5>1. PICK x \in Envelope : x = Head(ch)
          BY <4>1, <4>2
        <5>2. old' = [old EXCEPT ![c] = x] /\ cpc' = [cpc EXCEPT ![c] = "uncount"] /\ at' = at
              /\ cpc[c] = "evict"
          BY <3>4, <4>2, <5>1 DEF Evict
        <5> QED BY <1>2, <5>1, <5>2
      <4>3. CASE ch = <<>>
        <5>1. old' = old /\ cpc' = [cpc EXCEPT ![c] = "send"] /\ at' = at /\ cpc[c] = "evict"
          BY <3>4, <4>3 DEF Evict
        <5> QED BY <1>2, <5>1
      <4> QED BY <4>2, <4>3
    <3>5. CASE CountEvicted(c)
      BY <1>2, <3>5
    <3> QED BY <1>3, <3>1, <3>2, <3>3, <3>4, <3>5
  <2> QED BY <2>1, <2>2, <2>3, <2>4, <2>5 DEF TypeInv, TypeOK
<1> QED BY <1>1, <1>3 DEF Arrival, Handler

LEMMA TypeBatcher == TypeInv /\ Batcher => TypeInv'
<1> SUFFICES ASSUME TypeInv, Batcher PROVE TypeInv'
  OBVIOUS
<1>0. Step
  BY DEF Batcher
<1>1. QueueTypeOK /\ ClientTypeOK /\ BatcherTypeOK /\ ProcessTypeOK /\ GhostTypeOK
  BY DEF TypeInv, TypeOK
<1>2. UNCHANGED clientVars
  BY DEF Batcher, Select, Dequeue, Drain, AddToBatch, DrainAdd, FlushOk, FlushError,
         DrainOk, DrainError
<1>3. CASE Select
  <2>1. QueueTypeOK' /\ GhostTypeOK'
    BY <1>1, <1>3 DEF Select, QueueTypeOK, GhostTypeOK, queueVars, ghostVars
  <2>2. BatcherTypeOK'
    BY <1>1, <1>3 DEF Select, BatcherTypeOK
  <2>3. ProcessTypeOK'
    BY <1>0, <1>1, <1>3 DEF Select, ProcessTypeOK, Step
  <2> QED BY <1>2, <2>1, <2>2, <2>3 DEF TypeInv, TypeOK, ClientTypeOK, clientVars
<1>4. CASE Dequeue \/ Drain
  <2>1. ProcessTypeOK' /\ GhostTypeOK'
    BY <1>0, <1>1, <1>4 DEF Dequeue, Drain, ProcessTypeOK, GhostTypeOK, processVars,
                            ghostVars, Step
  <2>2. ch # <<>> => Head(ch) \in Envelope /\ Tail(ch) \in Seq(Envelope)
    BY <1>1 DEF QueueTypeOK
  <2>3. QueueTypeOK' /\ BatcherTypeOK'
    BY <1>1, <1>4, <2>2 DEF Dequeue, Drain, QueueTypeOK, BatcherTypeOK, Take
  <2> QED BY <1>2, <2>1, <2>3 DEF TypeInv, TypeOK, ClientTypeOK, clientVars
<1>5. CASE AddToBatch \/ DrainAdd
  <2>1. ProcessTypeOK' /\ GhostTypeOK'
    BY <1>0, <1>1, <1>5 DEF AddToBatch, DrainAdd, ProcessTypeOK, GhostTypeOK, processVars,
                            ghostVars, Step
  <2>2. got \in Envelope
    BY <1>1, <1>5 DEF AddToBatch, DrainAdd, BatcherTypeOK
  <2>3. Append(buf, got) \in Seq(Envelope) /\ bytes + Size[got] \in Nat
    BY <1>1, <2>2, AppendType DEF BatcherTypeOK
  <2>4. BatcherTypeOK'
    BY <1>1, <1>5, <2>3 DEF AddToBatch, DrainAdd, BatcherTypeOK
  <2>5. QueueTypeOK'
    BY <1>1, <1>5 DEF AddToBatch, DrainAdd, CountOut, QueueTypeOK
  <2> QED BY <1>2, <2>1, <2>4, <2>5 DEF TypeInv, TypeOK, ClientTypeOK, clientVars
<1>6. CASE FlushOk \/ FlushError \/ DrainOk \/ DrainError
  <2>1. PICK S \in SUBSET ToSet(buf) : Produce(S)
    BY <1>6 DEF FlushOk, FlushError, DrainOk, DrainError
  <2>2. produced' \in SUBSET Envelope /\ released' \in [Envelope -> Nat]
    BY <1>1, <2>1, ProduceType
  <2>3. lost' \in SUBSET Envelope /\ counted' \in SUBSET Envelope
    BY <1>1, <1>6, ToSetType
    DEF FlushOk, FlushError, DrainOk, DrainError, BatcherTypeOK, GhostTypeOK
  <2>4. ProcessTypeOK'
    BY <1>0, <1>1, <1>6
    DEF FlushOk, FlushError, DrainOk, DrainError, ProcessTypeOK, processVars, Step
  <2>5. QueueTypeOK'
    BY <1>1, <1>6 DEF FlushOk, FlushError, DrainOk, DrainError, QueueTypeOK, queueVars
  <2>6. buf' = <<>> /\ bytes' = 0
    BY <2>1 DEF Produce
  <2>7. BatcherTypeOK'
    BY <1>1, <1>6, <2>6, EmptyType
    DEF FlushOk, FlushError, DrainOk, DrainError, BatcherTypeOK
  <2> QED BY <1>2, <2>2, <2>3, <2>4, <2>5, <2>7
          DEF TypeInv, TypeOK, ClientTypeOK, clientVars, GhostTypeOK
<1> QED BY <1>3, <1>4, <1>5, <1>6 DEF Batcher

LEMMA TypeProcess == TypeInv /\ (Process \/ UNCHANGED vars) => TypeInv'
<1> SUFFICES ASSUME TypeInv, Process \/ UNCHANGED vars PROVE TypeInv'
  OBVIOUS
<1>1. UNCHANGED <<queueVars, clientVars, batcherVars, ghostVars>>
  BY DEF Process, Tick, Cancel, CloseTransports, Exit, vars
<1>2. ProcessTypeOK'
  <2>1. CASE Process
    BY <2>1 DEF Process, Step, Tick, Cancel, CloseTransports, Exit, TypeInv, TypeOK,
                ProcessTypeOK
  <2>2. CASE UNCHANGED vars
    BY <2>2 DEF vars, processVars, TypeInv, TypeOK, ProcessTypeOK
  <2> QED BY <2>1, <2>2
<1> QED
  BY <1>1, <1>2 DEF TypeInv, TypeOK, QueueTypeOK, ClientTypeOK, BatcherTypeOK, GhostTypeOK,
                    queueVars, clientVars, batcherVars, ghostVars

LEMMA TypeNext == TypeInv /\ [Next]_vars => TypeInv'
BY TypeHandler, TypeBatcher, TypeProcess DEF Next, Terminated

LEMMA TypeInvariant == Spec => []TypeInv
BY TypeInit, TypeNext, PTL DEF Spec

\* Every variable of the collector keeps its type, whatever the handlers, the
\* batcher and the shutdown do, for any clients, requests, limits and failures.
THEOREM TypeCorrect == Spec => []TypeOK
<1>1. TypeInv => TypeOK
  BY DEF TypeInv
<1> QED BY TypeInvariant, <1>1, PTL

-----------------------------------------------------------------------------
(* The depth counter.                                                      *)

\* The handlers at step l, and how their number changes when one of them moves.
At(l) == {c \in Client : cpc[c] = l}

LEMMA AtFinite ==
  ASSUME NEW l
  PROVE  IsFiniteSet(At(l)) /\ Cardinality(At(l)) \in Nat
<1>1. At(l) \subseteq Client
  BY DEF At
<1>2. IsFiniteSet(At(l))
  BY <1>1, FS_Subset
<1> QED BY <1>2, FS_CardinalityType

LEMMA AtEnter ==
  ASSUME ClientTypeOK, NEW c \in Client, NEW k, NEW l,
         cpc' = [cpc EXCEPT ![c] = k], cpc[c] # l, k = l
  PROVE  Cardinality(At(l)') = Cardinality(At(l)) + 1
<1>1. At(l)' = At(l) \cup {c} /\ c \notin At(l)
  BY DEF At, ClientTypeOK
<1> QED BY <1>1, AtFinite, FS_AddElement

LEMMA AtLeave ==
  ASSUME ClientTypeOK, NEW c \in Client, NEW k, NEW l,
         cpc' = [cpc EXCEPT ![c] = k], cpc[c] = l, k # l
  PROVE  Cardinality(At(l)') = Cardinality(At(l)) - 1
<1>1. At(l)' = At(l) \ {c} /\ c \in At(l)
  BY DEF At, ClientTypeOK
<1>2. IsFiniteSet(At(l))
  BY AtFinite
<1>3. Cardinality(At(l) \ {c}) = Cardinality(At(l)) - 1
  BY <1>1, <1>2, FS_RemoveElement, Zenon
<1> QED BY <1>1, <1>3

LEMMA AtElsewhere ==
  ASSUME ClientTypeOK, NEW c \in Client, NEW k, NEW l,
         cpc' = [cpc EXCEPT ![c] = k], cpc[c] # l, k # l
  PROVE  Cardinality(At(l)') = Cardinality(At(l))
<1>1. At(l)' = At(l)
  BY DEF At, ClientTypeOK
<1> QED BY <1>1

\* What the batcher received and has not yet taken off the counter.
Received == IF bpc \in {"count", "draincount"} THEN 1 ELSE 0

LEMMA DepthForm ==
  DepthExact <=>
    depth = Len(ch) - Cardinality(At("count")) + Cardinality(At("uncount")) + Received
BY DEF DepthExact, At, Received

LEMMA DepthHandler ==
  ASSUME TypeInv, DepthExact, NEW c \in Client, Arrival(c) \/ Handler(c)
  PROVE  DepthExact'
<1>1. /\ ch \in Seq(Envelope) /\ depth \in Int
      /\ ClientTypeOK
      /\ Cardinality(At("count")) \in Nat /\ Cardinality(At("uncount")) \in Nat
      /\ Received \in Nat
      /\ Len(ch) \in Nat
      /\ depth = Len(ch) - Cardinality(At("count")) + Cardinality(At("uncount")) + Received
  BY AtFinite, DepthForm DEF TypeInv, TypeOK, QueueTypeOK, Received
<1>2. Received' = Received
  BY DEF Arrival, Handler, Accept, AcceptMalformed, Refuse, EnqueueBatch, Send, CountSent,
         Evict, CountEvicted, batcherVars, Received
<1>3. SUFFICES depth' = Len(ch') - Cardinality(At("count")') + Cardinality(At("uncount")')
                        + Received'
  BY DEF DepthExact, At, Received
<1>4. CASE Accept(c) \/ AcceptMalformed(c) \/ EnqueueBatch(c) \/ (Send(c) /\ ~HasRoom)
  <2>1. UNCHANGED <<ch, depth>>
    BY <1>4 DEF Accept, AcceptMalformed, EnqueueBatch, Send, Refuse, queueVars
  <2>2. PICK k \in {"ok", "admit", "send", "malformed", "rejected", "evict"} :
          cpc' = [cpc EXCEPT ![c] = k]
    BY <1>4 DEF Accept, AcceptMalformed, EnqueueBatch, Send, Refuse
  <2>3. cpc[c] \in {"idle", "admit", "send"}
    BY <1>4 DEF Accept, AcceptMalformed, EnqueueBatch, Send
  <2>4. Cardinality(At("count")') = Cardinality(At("count"))
    BY <1>1, <2>2, <2>3, AtElsewhere
  <2>5. Cardinality(At("uncount")') = Cardinality(At("uncount"))
    BY <1>1, <2>2, <2>3, AtElsewhere
  <2> QED BY <1>1, <1>2, <2>1, <2>4, <2>5
<1>5. CASE Send(c) /\ HasRoom
  <2>1. cpc' = [cpc EXCEPT ![c] = "count"] /\ cpc[c] = "send" /\ depth' = depth
    BY <1>5 DEF Send
  <2>2. Len(ch') = Len(ch) + 1
    BY <1>1, <1>5 DEF Send, Put
  <2>3. Cardinality(At("count")') = Cardinality(At("count")) + 1
    BY <1>1, <2>1, AtEnter
  <2>4. Cardinality(At("uncount")') = Cardinality(At("uncount"))
    BY <1>1, <2>1, AtElsewhere
  <2> QED BY <1>1, <1>2, <2>1, <2>2, <2>3, <2>4
<1>6. CASE CountSent(c)
  <2>1. PICK k \in {"ok", "send"} : cpc' = [cpc EXCEPT ![c] = k]
    BY <1>6 DEF CountSent
  <2>2. cpc[c] = "count" /\ depth' = depth + 1 /\ ch' = ch
    BY <1>6 DEF CountSent, CountIn
  <2>3. Cardinality(At("count")') = Cardinality(At("count")) - 1
    BY <1>1, <2>1, <2>2, AtLeave
  <2>4. Cardinality(At("uncount")') = Cardinality(At("uncount"))
    BY <1>1, <2>1, <2>2, AtElsewhere
  <2> QED BY <1>1, <1>2, <2>2, <2>3, <2>4
<1>7. CASE Evict(c) /\ ch # <<>>
  <2>1. cpc' = [cpc EXCEPT ![c] = "uncount"] /\ cpc[c] = "evict" /\ depth' = depth
    BY <1>7 DEF Evict
  <2>2. Len(ch') = Len(ch) - 1
    BY <1>1, <1>7 DEF Evict, Take
  <2>3. Cardinality(At("count")') = Cardinality(At("count"))
    BY <1>1, <2>1, AtElsewhere
  <2>4. Cardinality(At("uncount")') = Cardinality(At("uncount")) + 1
    BY <1>1, <2>1, AtEnter
  <2> QED BY <1>1, <1>2, <2>1, <2>2, <2>3, <2>4
<1>8. CASE Evict(c) /\ ch = <<>>
  <2>1. cpc' = [cpc EXCEPT ![c] = "send"] /\ cpc[c] = "evict" /\ UNCHANGED <<ch, depth>>
    BY <1>8 DEF Evict
  <2>2. Cardinality(At("count")') = Cardinality(At("count"))
    BY <1>1, <2>1, AtElsewhere
  <2>3. Cardinality(At("uncount")') = Cardinality(At("uncount"))
    BY <1>1, <2>1, AtElsewhere
  <2> QED BY <1>1, <1>2, <2>1, <2>2, <2>3
<1>9. CASE CountEvicted(c)
  <2>1. /\ cpc' = [cpc EXCEPT ![c] = "send"] /\ cpc[c] = "uncount"
        /\ depth' = depth - 1 /\ ch' = ch
    BY <1>9 DEF CountEvicted, CountOut
  <2>2. Cardinality(At("count")') = Cardinality(At("count"))
    BY <1>1, <2>1, AtElsewhere
  <2>3. Cardinality(At("uncount")') = Cardinality(At("uncount")) - 1
    BY <1>1, <2>1, AtLeave
  <2> QED BY <1>1, <1>2, <2>1, <2>2, <2>3
<1> QED BY <1>4, <1>5, <1>6, <1>7, <1>8, <1>9 DEF Arrival, Handler

LEMMA DepthOthers ==
  ASSUME TypeInv, DepthExact, Batcher \/ Process \/ UNCHANGED vars
  PROVE  DepthExact'
<1>1. /\ ch \in Seq(Envelope) /\ depth \in Int
      /\ Cardinality(At("count")) \in Nat /\ Cardinality(At("uncount")) \in Nat
      /\ Len(ch) \in Nat
      /\ depth = Len(ch) - Cardinality(At("count")) + Cardinality(At("uncount")) + Received
  BY AtFinite, DepthForm DEF TypeInv, TypeOK, QueueTypeOK
<1>2. cpc' = cpc
  BY DEF Batcher, Select, Dequeue, AddToBatch, FlushOk, FlushError, Drain, DrainAdd, DrainOk,
         DrainError, Process, Tick, Cancel, CloseTransports, Exit, vars, clientVars
<1>3. At("count")' = At("count") /\ At("uncount")' = At("uncount")
  BY <1>2 DEF At
<1>4. SUFFICES depth' = Len(ch') - Cardinality(At("count")) + Cardinality(At("uncount"))
                        + Received'
  <2>1. depth' = Len(ch') - Cardinality(At("count")') + Cardinality(At("uncount")') + Received'
    BY <1>3, <1>4
  <2> QED BY <2>1 DEF DepthExact, At, Received
<1>5. CASE (Dequeue \/ Drain) /\ ch # <<>> /\ Take
  <2>1. Len(ch') = Len(ch) - 1 /\ Len(ch') \in Nat
    BY <1>1, <1>5 DEF Take
  <2>2. Received = 0 /\ depth' = depth
    BY <1>5 DEF Dequeue, Drain, Received
  <2>3. Received' = 1 \/ UNCHANGED ch
    BY <1>5 DEF Dequeue, Drain, Received
  <2>4. Received' = 1
    BY <1>1, <2>1, <2>3
  <2> QED BY <1>1, <2>1, <2>2, <2>4
<1>6. CASE AddToBatch \/ DrainAdd
  <2>1. Received = 1 /\ Received' = 0 /\ depth' = depth - 1 /\ ch' = ch
    BY <1>6 DEF AddToBatch, DrainAdd, CountOut, Received
  <2> QED BY <1>1, <2>1
<1>7. CASE UNCHANGED <<ch, depth>> /\ Received' = Received
  BY <1>1, <1>7 DEF Received
<1>8. \/ (Dequeue \/ Drain) /\ ch # <<>> /\ Take
      \/ AddToBatch \/ DrainAdd
      \/ UNCHANGED <<ch, depth>> /\ Received' = Received
  <2>1. CASE Dequeue \/ Drain
    BY <2>1 DEF Dequeue, Drain, Received
  <2>2. CASE Select
    BY <2>2 DEF Select, Received, queueVars
  <2>3. CASE FlushOk \/ FlushError \/ DrainOk \/ DrainError
    BY <2>3 DEF FlushOk, FlushError, DrainOk, DrainError, Received, queueVars, TypeInv, TypeOK,
                BatcherTypeOK
  <2>4. CASE Process \/ UNCHANGED vars
    BY <2>4 DEF Process, Tick, Cancel, CloseTransports, Exit, vars, queueVars, batcherVars,
                Received
  <2> QED BY <2>1, <2>2, <2>3, <2>4 DEF Batcher
<1> QED BY <1>5, <1>6, <1>7, <1>8

\* The depth counter differs from the queue's length by exactly the sends and
\* receives whose second half is outstanding (EnqueueBatch, enqueueDropOldest,
\* Dequeue, TryDequeue), for any number of concurrent requests.
THEOREM DepthNeverDrifts == Spec => []DepthExact
<1>1. Init => DepthExact
  <2> SUFFICES ASSUME Init PROVE DepthExact
    OBVIOUS
  <2>1. At("count") = {} /\ At("uncount") = {} /\ Received = 0
    BY DEF Init, At, Received
  <2>2. depth = 0 /\ Len(ch) = 0
    BY DEF Init, QueueInit
  <2>3. Cardinality(At("count")) = 0 /\ Cardinality(At("uncount")) = 0
    BY <2>1, FS_EmptySet, Zenon
  <2>4. depth = Len(ch) - Cardinality(At("count")) + Cardinality(At("uncount")) + Received
    BY <2>1, <2>2, <2>3
  <2> QED BY <2>4, DepthForm
<1>2. TypeInv /\ DepthExact /\ [Next]_vars => DepthExact'
  BY DepthHandler, DepthOthers DEF Next, Terminated
<1> QED BY TypeInvariant, <1>1, <1>2, PTL DEF Spec

-----------------------------------------------------------------------------
(* What the collector answered for.                                        *)

In(s, e) == \E i \in 1 .. Len(s) : s[i] = e

LEMMA InAppend ==
  ASSUME NEW s \in Seq(Envelope), NEW x \in Envelope
  PROVE  In(Append(s, x), x) /\ \A e \in Envelope : In(s, e) => In(Append(s, x), e)
<1>1. Len(Append(s, x)) = Len(s) + 1 /\ Len(s) \in Nat
  OBVIOUS
<1>2. Append(s, x)[Len(s) + 1] = x
  OBVIOUS
<1>3. \A i \in 1 .. Len(s) : Append(s, x)[i] = s[i]
  OBVIOUS
<1> QED BY <1>1, <1>2, <1>3 DEF In

LEMMA InTail ==
  ASSUME NEW s \in Seq(Envelope), s # <<>>, NEW e \in Envelope, In(s, e)
  PROVE  e = Head(s) \/ In(Tail(s), e)
<1>1. PICK i \in 1 .. Len(s) : s[i] = e
  BY DEF In
<1>2. CASE i = 1
  BY <1>1, <1>2
<1>3. CASE i # 1
  <2>1. Len(Tail(s)) = Len(s) - 1 /\ Len(s) \in Nat
    OBVIOUS
  <2>2. i - 1 \in 1 .. Len(Tail(s)) /\ Tail(s)[i - 1] = s[i]
    BY <1>3, <2>1
  <2> QED BY <1>1, <2>2 DEF In
<1> QED BY <1>2, <1>3

LEMMA InToSet ==
  ASSUME NEW s \in Seq(Envelope), NEW e, In(s, e)
  PROVE  e \in ToSet(s)
BY DEF In, ToSet

\* Where an envelope that was put in the queue may be found.
Found(e) ==
  \/ \E c \in Client : old[c] = e
  \/ In(ch, e)
  \/ got = e
  \/ In(buf, e)
  \/ e \in produced \cup lost
  \/ policy = "drop_oldest" /\ e \in counted

\* The batcher and an evicting handler hold at most the envelope whose count
\* is outstanding, so neither overwrites one.
OneInHand ==
  /\ bpc \notin {"count", "draincount"} => got = NoEnvelope
  /\ \A c \in Client : cpc[c] # "uncount" => old[c] = NoEnvelope

\* Evictions happen under drop_oldest only, and a request answered OK was
\* sent to its end.
Answers ==
  \A c \in Client :
    /\ cpc[c] \in {"evict", "uncount"} => policy = "drop_oldest"
    /\ cpc[c] = "ok" => at[c] = BatchLen[c] + 1

\* What was sent is found somewhere.
SentIsFound ==
  status # "panicked" =>
    \A c \in Client : \A i \in 1 .. at[c] - 1 : Found(<<c, i>>)

PromiseInv == OneInHand /\ Answers /\ SentIsFound

LEMMA NoEnvelopeIsNone ==
  ASSUME NEW e \in Envelope
  PROVE  e # NoEnvelope
BY DEF Envelope, Request, NoEnvelope

LEMMA PromiseInit == Init => PromiseInv
BY DEF Init, PromiseInv, OneInHand, Answers, SentIsFound

\* The bookkeeping part of the invariant.
LEMMA HandsNext ==
  ASSUME TypeInv, OneInHand, Answers, [Next]_vars
  PROVE  OneInHand' /\ Answers'
<1> USE DEF OneInHand, Answers, TypeInv, TypeOK
<1>1. ASSUME NEW c \in Client, Arrival(c) \/ Handler(c) PROVE OneInHand' /\ Answers'
  <2> USE DEF ClientTypeOK, ProcessTypeOK, Step, Ended
  <2>1. CASE Step /\ Refuse(c) /\ cpc[c] \in {"admit", "send"}
    BY <2>1 DEF Refuse, batcherVars
  <2>2. CASE Step /\ Accept(c)
    BY <2>2 DEF Accept, batcherVars
  <2>3. CASE Step /\ AcceptMalformed(c)
    BY <2>3 DEF AcceptMalformed, batcherVars
  <2>4. CASE Step /\ EnqueueBatch(c) /\ ~Refuse(c)
    BY <2>4 DEF EnqueueBatch, batcherVars
  <2>5. CASE Step /\ Send(c) /\ ~Refuse(c)
    BY <2>5 DEF Send, batcherVars
  <2>6. CASE Step /\ CountSent(c)
    BY <2>6 DEF CountSent, batcherVars
  <2>7. CASE Step /\ Evict(c)
    BY <2>7 DEF Evict, batcherVars
  <2>8. CASE Step /\ CountEvicted(c)
    BY <2>8 DEF CountEvicted, batcherVars
  <2>9. EnqueueBatch(c) \/ Send(c) => cpc[c] \in {"admit", "send"}
    BY DEF EnqueueBatch, Send
  <2> HIDE DEF Step, OneInHand, Answers, TypeInv, TypeOK, ClientTypeOK, ProcessTypeOK
  <2> QED BY <1>1, <2>1, <2>2, <2>3, <2>4, <2>5, <2>6, <2>7, <2>8, <2>9 DEF Arrival, Handler
<1>2. CASE Batcher
  <2>1. UNCHANGED <<cpc, at, old, policy>>
    BY <1>2 DEF Batcher, Step, Select, Dequeue, AddToBatch, FlushOk, FlushError, Drain,
                DrainAdd, DrainOk, DrainError, clientVars
  <2>2. bpc' \notin {"count", "draincount"} => got' = NoEnvelope
    BY <1>2 DEF Batcher, Select, Dequeue, AddToBatch, FlushOk, FlushError, Drain, DrainAdd,
                DrainOk, DrainError
  <2> QED BY <2>1, <2>2
<1>3. CASE Process \/ UNCHANGED vars
  BY <1>3 DEF Process, Step, Tick, Cancel, CloseTransports, Exit, vars, clientVars,
              batcherVars
<1> QED BY <1>1, <1>2, <1>3 DEF Next, Terminated

\* No step loses sight of an envelope, unless it is the panic.
LEMMA FoundKept ==
  ASSUME TypeInv, OneInHand, Answers, [Next]_vars, status' # "panicked",
         NEW e \in Envelope, Found(e)
  PROVE  Found(e)'
<1>1. ch \in Seq(Envelope) /\ buf \in Seq(Envelope) /\ e # NoEnvelope
  BY NoEnvelopeIsNone DEF TypeInv, TypeOK, QueueTypeOK, BatcherTypeOK
<1>2. ASSUME NEW c \in Client, Arrival(c) \/ Handler(c) PROVE Found(e)'
  <2>1. UNCHANGED <<policy, got, buf, produced, lost>> /\ counted \subseteq counted'
    BY <1>2 DEF Arrival, Handler, Step, Accept, AcceptMalformed, Refuse, EnqueueBatch, Send,
                CountSent, Evict, CountEvicted, batcherVars, ghostVars
  <2>2. CASE UNCHANGED <<old, ch>>
    BY <2>1, <2>2 DEF Found, In
  <2>3. CASE Send(c) /\ HasRoom
    <3>1. <<c, at[c]>> \in Envelope
      BY <2>3, EnvelopeOf DEF Send, TypeInv, TypeOK, ClientTypeOK
    <3>2. ch' = Append(ch, <<c, at[c]>>) /\ old' = old
      BY <2>3 DEF Send, Put
    <3>3. In(ch, e) => In(ch', e)
      BY <1>1, <3>1, <3>2, InAppend, Zenon
    <3> QED BY <2>1, <3>2, <3>3 DEF Found, In
  <2>4. CASE Evict(c) /\ ch # <<>>
    <3>1. old' = [old EXCEPT ![c] = Head(ch)] /\ ch' = Tail(ch) /\ old[c] = NoEnvelope
      BY <2>4 DEF Evict, Take, OneInHand
    <3>2. old \in [Client -> Envelope \cup {NoEnvelope}]
      BY DEF TypeInv, TypeOK, ClientTypeOK
    <3>3. \A d \in Client : old[d] = e => old'[d] = e
      BY <1>1, <3>1, <3>2
    <3>4. In(ch, e) => old'[c] = e \/ In(ch', e)
      BY <1>1, <2>4, <3>1, <3>2, InTail
    <3> QED BY <2>1, <3>3, <3>4 DEF Found, In
  <2>5. CASE CountEvicted(c)
    <3>1. /\ old' = [old EXCEPT ![c] = NoEnvelope] /\ ch' = ch
          /\ counted' = counted \cup {old[c]}
          /\ policy = "drop_oldest"
      BY <2>5 DEF CountEvicted, Answers
    <3>2. old \in [Client -> Envelope \cup {NoEnvelope}]
      BY DEF TypeInv, TypeOK, ClientTypeOK
    <3>3. \A d \in Client : old[d] = e => old'[d] = e \/ e \in counted'
      BY <3>1, <3>2
    <3> QED BY <2>1, <3>1, <3>3 DEF Found, In
  <2>6. UNCHANGED <<old, ch>> \/ (Send(c) /\ HasRoom) \/ (Evict(c) /\ ch # <<>>) \/ CountEvicted(c)
    BY <1>2 DEF Arrival, Handler, Accept, AcceptMalformed, Refuse, EnqueueBatch, Send,
                CountSent, Evict, queueVars
  <2> QED BY <2>2, <2>3, <2>4, <2>5, <2>6
<1>3. CASE Batcher
  <2>1. UNCHANGED <<policy, old, counted>> /\ produced \subseteq produced' /\ lost \subseteq lost'
    BY <1>3 DEF Batcher, Step, Select, Dequeue, AddToBatch, FlushOk, FlushError, Drain,
                DrainAdd, DrainOk, DrainError, Produce, clientVars, ghostVars
  <2>2. CASE UNCHANGED <<ch, got, buf>>
    BY <2>1, <2>2 DEF Found, In
  <2>3. CASE (Dequeue \/ Drain) /\ ch # <<>> /\ ch' = Tail(ch) /\ got' = Head(ch)
    <3>1. got = NoEnvelope /\ buf' = buf
      BY <2>3 DEF Dequeue, Drain, OneInHand
    <3>2. In(ch, e) => got' = e \/ In(ch', e)
      BY <1>1, <2>3, InTail
    <3> QED BY <1>1, <2>1, <3>1, <3>2 DEF Found, In
  <2>4. CASE AddToBatch \/ DrainAdd
    <3>1. buf' = Append(buf, got) /\ ch' = ch /\ got \in Envelope
      BY <2>4 DEF AddToBatch, DrainAdd, TypeInv, TypeOK, BatcherTypeOK
    <3>2. (got = e => In(buf', e)) /\ (In(buf, e) => In(buf', e))
      BY <1>1, <3>1, InAppend
    <3> QED BY <2>1, <3>1, <3>2 DEF Found, In
  <2>5. CASE FlushOk \/ DrainOk \/ DrainError
    <3>1. ch' = ch /\ got' = got
      BY <2>5 DEF FlushOk, DrainOk, DrainError, queueVars
    <3>2. ToSet(buf) \subseteq produced' \cup lost'
      BY <2>5 DEF FlushOk, DrainOk, DrainError, Produce
    <3>3. In(buf, e) => e \in produced' \cup lost'
      BY <1>1, <3>2, InToSet
    <3> QED BY <2>1, <3>1, <3>3 DEF Found, In
  <2>6. \/ UNCHANGED <<ch, got, buf>>
        \/ (Dequeue \/ Drain) /\ ch # <<>> /\ ch' = Tail(ch) /\ got' = Head(ch)
        \/ AddToBatch \/ DrainAdd
        \/ FlushOk \/ DrainOk \/ DrainError
    BY <1>3 DEF Batcher, Select, Dequeue, Drain, Take, FlushError, queueVars
  <2> QED BY <2>2, <2>3, <2>4, <2>5, <2>6
<1>4. CASE Process \/ UNCHANGED vars
  <2>1. UNCHANGED <<policy, old, ch, got, buf, produced, lost, counted>>
    BY <1>4 DEF Process, Step, Tick, Cancel, CloseTransports, Exit, vars, queueVars,
                clientVars, batcherVars, ghostVars
  <2> QED BY <2>1 DEF Found, In
<1> QED BY <1>2, <1>3, <1>4 DEF Next, Terminated

LEMMA SentNext ==
  ASSUME TypeInv, PromiseInv, [Next]_vars
  PROVE  SentIsFound'
<1> SUFFICES ASSUME status' # "panicked", NEW c \in Client, NEW i \in 1 .. at'[c] - 1
             PROVE  Found(<<c, i>>)'
  BY DEF SentIsFound
<1>1. at \in [Client -> Nat \ {0}] /\ at[c] <= BatchLen[c] + 1 /\ BatchLen[c] \in Nat
  BY DEF TypeInv, TypeOK, ClientTypeOK
<1>2. status # "panicked"
  BY DEF Next, Arrival, Handler, Batcher, Process, Terminated, Step, Running, vars,
         processVars
<1>3. CASE i \in 1 .. at[c] - 1
  <2>1. Found(<<c, i>>) /\ <<c, i>> \in Envelope
    BY <1>1, <1>2, <1>3, EnvelopeOf DEF PromiseInv, SentIsFound
  <2> QED BY <2>1, FoundKept DEF PromiseInv
<1>4. CASE i \notin 1 .. at[c] - 1
  <2>1. at' # at
    BY <1>4
  <2>2. PICK d \in Client : Send(d) /\ HasRoom
    BY <2>1 DEF Next, Arrival, Handler, Accept, AcceptMalformed, EnqueueBatch, Refuse, Send,
                CountSent, Evict, CountEvicted, Batcher, Select, Dequeue, AddToBatch, FlushOk,
                FlushError, Drain, DrainAdd, DrainOk, DrainError, Process, Tick, Cancel,
                CloseTransports, Exit, Terminated, vars, clientVars
  <2>3. at' = [at EXCEPT ![d] = @ + 1] /\ ch' = Append(ch, <<d, at[d]>>)
    BY <2>2 DEF Send, Put
  <2>4. d = c /\ i = at[c]
    BY <1>1, <1>4, <2>3
  <2>5. <<c, i>> \in Envelope
    BY <1>1, <2>2, <2>4, EnvelopeOf DEF Send, TypeInv, TypeOK, ClientTypeOK
  <2>6. In(ch', <<c, i>>)
    BY <2>3, <2>4, <2>5, InAppend DEF TypeInv, TypeOK, QueueTypeOK
  <2> QED BY <2>6 DEF Found, In
<1> QED BY <1>3, <1>4

LEMMA PromiseInvariant == Spec => [](TypeInv /\ PromiseInv)
<1>1. TypeInv /\ PromiseInv /\ [Next]_vars => PromiseInv'
  BY HandsNext, SentNext DEF PromiseInv
<1> QED BY TypeInvariant, PromiseInit, <1>1, PTL DEF Spec

\* Whoever holds an envelope is counted among its owners.
LEMMA HeldIsOwned ==
  ASSUME TypeInv, NEW e,
         (\E c \in Client : old[c] = e) \/ In(ch, e) \/ got = e \/ In(buf, e)
  PROVE  Owners(e) > 0
<1> DEFINE H == HandlersOwning(e)
           V == EvictorsOwning(e)
           Q == SlotsOwning(ch, e)
           B == SlotsOwning(buf, e)
<1>1. IsFiniteSet(H) /\ IsFiniteSet(V)
  BY FS_Subset DEF HandlersOwning, EvictorsOwning
<1>2. Len(ch) \in Nat /\ Len(buf) \in Nat
  BY DEF TypeInv, TypeOK, QueueTypeOK, BatcherTypeOK
<1>3. IsFiniteSet(Q) /\ IsFiniteSet(B)
  <2>1. IsFiniteSet(1 .. Len(ch)) /\ IsFiniteSet(1 .. Len(buf))
    BY <1>2, FS_Interval
  <2>2. Q \subseteq 1 .. Len(ch) /\ B \subseteq 1 .. Len(buf)
    BY DEF SlotsOwning
  <2> QED BY <2>1, <2>2, FS_Subset
<1>4. Cardinality(H) \in Nat /\ Cardinality(V) \in Nat /\ Cardinality(Q) \in Nat
      /\ Cardinality(B) \in Nat
  BY <1>1, <1>3, FS_CardinalityType
<1>5. V # {} \/ Q # {} \/ B # {} \/ got = e
  BY DEF EvictorsOwning, SlotsOwning, In
<1>6. Cardinality(V) # 0 \/ Cardinality(Q) # 0 \/ Cardinality(B) # 0 \/ got = e
  BY <1>1, <1>3, <1>5, FS_EmptySet
<1> HIDE DEF H, V, Q, B
<1>7. Cardinality(H) + Cardinality(V) + Cardinality(Q) + Cardinality(B)
      + (IF got = e THEN 1 ELSE 0) > 0
  BY <1>4, <1>6
<1> QED BY <1>7 DEF Owners, H, V, Q, B

\* Nothing the collector answered for disappears (EnqueueBatch,
\* enqueueDropOldest, Run, drain): it is still held, it is in Kafka, it went
\* down with a failed produce of the drain, or it was evicted and counted, for
\* any number of requests of any size and either policy.
THEOREM PromisesAreKept == Spec => []PromisesKept
<1>1. TypeInv /\ PromiseInv => PromisesKept
  <2> SUFFICES ASSUME TypeInv, PromiseInv, status # "panicked",
                      NEW c \in Client, NEW e \in Promised(c)
               PROVE  \/ Owners(e) > 0
                      \/ e \in produced \cup lost
                      \/ policy = "drop_oldest" /\ e \in counted
    BY DEF PromisesKept
  <2>1. at[c] \in Nat \ {0} /\ BatchLen[c] \in Nat
    BY DEF TypeInv, TypeOK, ClientTypeOK
  <2>2. PICK i \in 1 .. BatchLen[c] : e = <<c, i>>
    BY DEF Promised, Request
  <2>3. i \in 1 .. at[c] - 1
    BY <2>1, <2>2 DEF Promised, Rest, PromiseInv, Answers
  <2>4. Found(e)
    BY <2>2, <2>3 DEF PromiseInv, SentIsFound
  <2> QED BY <2>4, HeldIsOwned DEF Found
<1> QED BY PromiseInvariant, <1>1, PTL

-----------------------------------------------------------------------------
(* Envelopes and their owners.                                             *)

\* The number of slots of a sequence that hold e.
SlotCount(s, e) == Cardinality(SlotsOwning(s, e))

LEMMA SlotsFinite ==
  ASSUME NEW s \in Seq(Envelope), NEW e
  PROVE  IsFiniteSet(SlotsOwning(s, e)) /\ SlotCount(s, e) \in Nat
<1>1. Len(s) \in Nat
  OBVIOUS
<1>2. IsFiniteSet(1 .. Len(s))
  BY <1>1, FS_Interval
<1>3. SlotsOwning(s, e) \subseteq 1 .. Len(s)
  BY DEF SlotsOwning
<1>4. IsFiniteSet(SlotsOwning(s, e))
  BY <1>2, <1>3, FS_Subset
<1> QED BY <1>4, FS_CardinalityType DEF SlotCount

LEMMA SlotsEmpty ==
  ASSUME NEW e
  PROVE  SlotCount(<<>>, e) = 0
<1>1. SlotsOwning(<<>>, e) = {}
  BY DEF SlotsOwning
<1> QED BY <1>1, FS_EmptySet DEF SlotCount

LEMMA SlotsAppend ==
  ASSUME NEW s \in Seq(Envelope), NEW x \in Envelope, NEW e
  PROVE  SlotCount(Append(s, x), e) = SlotCount(s, e) + (IF x = e THEN 1 ELSE 0)
<1>1. Len(s) \in Nat /\ Len(Append(s, x)) = Len(s) + 1
  OBVIOUS
<1>2. /\ Append(s, x)[Len(s) + 1] = x
      /\ \A i \in 1 .. Len(s) : Append(s, x)[i] = s[i]
  OBVIOUS
<1>3. IsFiniteSet(SlotsOwning(s, e)) /\ SlotCount(s, e) \in Nat
  BY SlotsFinite
<1>4. CASE x = e
  <2>1. SlotsOwning(Append(s, x), e) = SlotsOwning(s, e) \cup {Len(s) + 1}
    BY <1>1, <1>2, <1>4 DEF SlotsOwning
  <2>2. Len(s) + 1 \notin SlotsOwning(s, e)
    BY <1>1 DEF SlotsOwning
  <2>3. SlotCount(Append(s, x), e) = SlotCount(s, e) + 1
    BY <1>3, <2>1, <2>2, FS_AddElement DEF SlotCount
  <2> QED BY <1>4, <2>3
<1>5. CASE x # e
  <2>1. SlotsOwning(Append(s, x), e) = SlotsOwning(s, e)
    BY <1>1, <1>2, <1>5 DEF SlotsOwning
  <2> QED BY <1>3, <1>5, <2>1 DEF SlotCount
<1> QED BY <1>4, <1>5

LEMMA SlotsTail ==
  ASSUME NEW s \in Seq(Envelope), s # <<>>, NEW e
  PROVE  SlotCount(s, e) = SlotCount(Tail(s), e) + (IF Head(s) = e THEN 1 ELSE 0)
<1>1. Len(s) \in Nat \ {0} /\ Len(Tail(s)) = Len(s) - 1 /\ Tail(s) \in Seq(Envelope)
  OBVIOUS
<1>2. \A i \in 1 .. Len(s) - 1 : Tail(s)[i] = s[i + 1]
  OBVIOUS
<1> DEFINE T == SlotsOwning(Tail(s), e)
           M == {i + 1 : i \in T}
<1>3. IsFiniteSet(T) /\ Cardinality(T) \in Nat
  BY <1>1, SlotsFinite DEF SlotCount
<1>4. T \subseteq 1 .. Len(s) - 1
  BY <1>1 DEF SlotsOwning
<1>5. IsFiniteSet(M) /\ Cardinality(M) = Cardinality(T)
  <2> DEFINE f == [i \in T |-> i + 1]
  <2>1. f \in [T -> M] /\ \A i \in T : f[i] = i + 1
    OBVIOUS
  <2>2. \A a, b \in T : f[a] = f[b] => a = b
    <3> SUFFICES ASSUME NEW a \in T, NEW b \in T, f[a] = f[b] PROVE a = b
      OBVIOUS
    <3>1. a \in Int /\ b \in Int
      BY <1>4
    <3> QED BY <2>1, <3>1
  <2>3. \A m \in M : \E a \in T : f[a] = m
    BY <2>1
  <2> HIDE DEF T, M, f
  <2>4. f \in Bijection(T, M)
    BY <2>1, <2>2, <2>3, Zenon DEF Bijection, Injection, Surjection, IsInjective
  <2>5. ExistsBijection(T, M)
    BY <2>4 DEF ExistsBijection
  <2> QED BY <1>3, <2>5, FS_Bijection, Zenon
<1>6. CASE Head(s) = e
  <2>1. SlotsOwning(s, e) = M \cup {1}
    <3>1. \A i \in SlotsOwning(s, e) : i = 1 \/ i - 1 \in T
      BY <1>1, <1>2 DEF SlotsOwning
    <3>2. \A i \in T : i + 1 \in SlotsOwning(s, e)
      BY <1>1, <1>2 DEF SlotsOwning
    <3>3. 1 \in SlotsOwning(s, e)
      BY <1>1, <1>6 DEF SlotsOwning
    <3>4. SlotsOwning(s, e) \subseteq Int
      BY DEF SlotsOwning
    <3>5. \A i \in SlotsOwning(s, e) : i = 1 \/ i \in M
      <4> SUFFICES ASSUME NEW i \in SlotsOwning(s, e), i - 1 \in T PROVE i \in M
        BY <3>1
      <4>1. i = (i - 1) + 1
        BY <3>4
      <4> QED BY <4>1
    <3> HIDE DEF T
    <3> QED BY <3>2, <3>3, <3>5
  <2>2. 1 \notin M
    BY <1>1, <1>4
  <2> HIDE DEF T, M
  <2>3. Cardinality(M \cup {1}) = Cardinality(M) + 1
    BY <1>5, <2>2, FS_AddElement
  <2>4. SlotCount(s, e) = Cardinality(T) + 1
    BY <1>5, <2>1, <2>3 DEF SlotCount
  <2> QED BY <1>6, <2>4 DEF SlotCount, T
<1>7. CASE Head(s) # e
  <2>1. SlotsOwning(s, e) = M
    <3>1. \A i \in SlotsOwning(s, e) : i - 1 \in T
      BY <1>1, <1>2, <1>7 DEF SlotsOwning
    <3>2. \A i \in T : i + 1 \in SlotsOwning(s, e)
      BY <1>1, <1>2 DEF SlotsOwning
    <3>3. SlotsOwning(s, e) \subseteq Int
      BY DEF SlotsOwning
    <3>4. \A i \in SlotsOwning(s, e) : i \in M
      <4> SUFFICES ASSUME NEW i \in SlotsOwning(s, e) PROVE i \in M
        OBVIOUS
      <4>1. i = (i - 1) + 1
        BY <3>3
      <4> QED BY <3>1, <4>1
    <3> HIDE DEF T
    <3> QED BY <3>2, <3>4
  <2> HIDE DEF T, M
  <2>2. SlotCount(s, e) = Cardinality(T)
    BY <1>5, <2>1 DEF SlotCount
  <2> QED BY <1>3, <1>7, <2>2 DEF SlotCount, T
<1> QED BY <1>6, <1>7

LEMMA SlotsToSet ==
  ASSUME NEW s \in Seq(Envelope), NEW e
  PROVE  (e \in ToSet(s)) <=> (SlotCount(s, e) # 0)
<1>1. (e \in ToSet(s)) <=> (SlotsOwning(s, e) # {})
  <2>1. DOMAIN s = 1 .. Len(s)
    OBVIOUS
  <2>2. (e \in ToSet(s)) <=> \E i \in 1 .. Len(s) : s[i] = e
    BY <2>1, Zenon DEF ToSet
  <2> QED BY <2>2, Zenon DEF SlotsOwning
<1>2. IsFiniteSet(SlotsOwning(s, e))
  BY SlotsFinite
<1>3. Cardinality(SlotsOwning(s, e)) = 0 <=> SlotsOwning(s, e) = {}
  BY <1>2, FS_EmptySet, Zenon
<1> QED BY <1>1, <1>3, Zenon DEF SlotCount
\* Clients whose evicting hand holds e, and how a hand's content counts.
HandCount(e) == Cardinality(EvictorsOwning(e))

LEMMA HandFinite ==
  ASSUME NEW e
  PROVE  IsFiniteSet(EvictorsOwning(e)) /\ HandCount(e) \in Nat
<1>1. IsFiniteSet(EvictorsOwning(e))
  BY FS_Subset DEF EvictorsOwning
<1> QED BY <1>1, FS_CardinalityType DEF HandCount

LEMMA HandMoves ==
  ASSUME ClientTypeOK, NEW c \in Client, NEW x,
         old' = [old EXCEPT ![c] = x], NEW e
  PROVE  /\ old[c] # e /\ x = e => HandCount(e)' = HandCount(e) + 1
         /\ old[c] = e /\ x # e => HandCount(e)' = HandCount(e) - 1
         /\ (old[c] = e <=> x = e) => HandCount(e)' = HandCount(e)
<1>1. IsFiniteSet(EvictorsOwning(e)) /\ HandCount(e) \in Nat
  BY HandFinite
<1>2. ASSUME old[c] # e, x = e PROVE HandCount(e)' = HandCount(e) + 1
  <2>1. EvictorsOwning(e)' = EvictorsOwning(e) \cup {c} /\ c \notin EvictorsOwning(e)
    BY <1>2 DEF EvictorsOwning, ClientTypeOK
  <2> QED BY <1>1, <2>1, FS_AddElement DEF HandCount
<1>3. ASSUME old[c] = e, x # e PROVE HandCount(e)' = HandCount(e) - 1
  <2>1. EvictorsOwning(e)' = EvictorsOwning(e) \ {c} /\ c \in EvictorsOwning(e)
    BY <1>3 DEF EvictorsOwning, ClientTypeOK
  <2>2. Cardinality(EvictorsOwning(e) \ {c}) = Cardinality(EvictorsOwning(e)) - 1
    BY <1>1, <2>1, FS_RemoveElement, Zenon
  <2> QED BY <2>1, <2>2 DEF HandCount
<1>4. ASSUME old[c] = e <=> x = e PROVE HandCount(e)' = HandCount(e)
  <2>1. EvictorsOwning(e)' = EvictorsOwning(e)
    BY <1>4 DEF EvictorsOwning, ClientTypeOK
  <2> QED BY <2>1 DEF HandCount
<1> QED BY <1>2, <1>3, <1>4

\* Only the handler of a request can hold its envelopes as a handler.
HandlerCount(c, i) == IF Handling(c) /\ at[c] <= i THEN 1 ELSE 0

LEMMA HandlersAre ==
  ASSUME TypeInv, NEW c \in Client, NEW i \in 1 .. BatchLen[c]
  PROVE  Cardinality(HandlersOwning(<<c, i>>)) = HandlerCount(c, i)
<1>1. Cardinality({}) = 0 /\ Cardinality({c}) = 1
  BY FS_EmptySet, FS_Singleton
<1>2. \A d \in Client : <<c, i>> \in Rest(d) <=> d = c /\ i \in at[c] .. BatchLen[c]
  BY DEF Rest
<1>3. i \in at[c] .. BatchLen[c] <=> at[c] <= i
  BY DEF TypeInv, TypeOK, ClientTypeOK
<1>4. HandlersOwning(<<c, i>>) = IF Handling(c) /\ at[c] <= i THEN {c} ELSE {}
  BY <1>2, <1>3, Zenon DEF HandlersOwning
<1> QED BY <1>1, <1>4 DEF HandlerCount

\* Envelope i of client c is nowhere before its request arrives, and from then
\* on it has one owner or was released once.
GotCount(e) == IF got = e THEN 1 ELSE 0

Shares(c, i) ==
  HandlerCount(c, i) + HandCount(<<c, i>>) + SlotCount(ch, <<c, i>>)
  + SlotCount(buf, <<c, i>>) + GotCount(<<c, i>>) + released[<<c, i>>]

OnceInv ==
  \A c \in Client : \A i \in 1 .. BatchLen[c] :
    Shares(c, i) = IF Arrived(c) THEN 1 ELSE 0

LEMMA CountsAreNat ==
  ASSUME TypeInv, NEW c \in Client, NEW i \in 1 .. BatchLen[c]
  PROVE  /\ HandlerCount(c, i) \in Nat
         /\ HandCount(<<c, i>>) \in Nat
         /\ SlotCount(ch, <<c, i>>) \in Nat
         /\ SlotCount(buf, <<c, i>>) \in Nat
         /\ GotCount(<<c, i>>) \in Nat
         /\ released[<<c, i>>] \in Nat
<1>1. HandlerCount(c, i) \in Nat /\ GotCount(<<c, i>>) \in Nat
  BY DEF HandlerCount, GotCount
<1>2. ch \in Seq(Envelope) /\ buf \in Seq(Envelope)
  BY DEF TypeInv, TypeOK, QueueTypeOK, BatcherTypeOK
<1>3. released[<<c, i>>] \in Nat
  BY EnvelopeOf DEF TypeInv, TypeOK, GhostTypeOK
<1> QED BY <1>1, <1>2, <1>3, HandFinite, SlotsFinite

LEMMA OnceInit == Init => OnceInv
<1> SUFFICES ASSUME Init, NEW c \in Client, NEW i \in 1 .. BatchLen[c]
             PROVE  Shares(c, i) = IF Arrived(c) THEN 1 ELSE 0
  BY DEF OnceInv
<1>1. ~Arrived(c) /\ HandlerCount(c, i) = 0 /\ released[<<c, i>>] = 0
  BY EnvelopeOf DEF Init, Arrived, HandlerCount, Handling
<1>2. GotCount(<<c, i>>) = 0
  BY DEF Init, GotCount, NoEnvelope
<1>3. HandCount(<<c, i>>) = 0
  <2>1. EvictorsOwning(<<c, i>>) = {}
    BY DEF Init, EvictorsOwning, NoEnvelope
  <2> QED BY <2>1, FS_EmptySet DEF HandCount
<1>4. SlotCount(ch, <<c, i>>) = 0 /\ SlotCount(buf, <<c, i>>) = 0
  BY SlotsEmpty DEF Init, QueueInit
<1> QED BY <1>1, <1>2, <1>3, <1>4 DEF Shares

\* What a release adds to the count of one envelope.
LEMMA ReleaseAdds ==
  ASSUME TypeInv, NEW S, Release(S), NEW e \in Envelope
  PROVE  /\ e \in S => released'[e] = released[e] + 1
         /\ e \notin S => released'[e] = released[e]
BY DEF Release, TypeInv, TypeOK, GhostTypeOK

LEMMA OnceHandler ==
  ASSUME TypeInv, OneInHand, OnceInv, NEW c \in Client, Arrival(c) \/ Handler(c)
  PROVE  OnceInv'
<1> SUFFICES ASSUME NEW d \in Client, NEW i \in 1 .. BatchLen[d]
             PROVE  Shares(d, i)' = IF Arrived(d)' THEN 1 ELSE 0
  BY DEF OnceInv
<1> DEFINE e == <<d, i>>
<1>1. /\ e \in Envelope /\ e # NoEnvelope
      /\ i \in Nat /\ BatchLen[d] \in Nat /\ i <= BatchLen[d]
  BY EnvelopeOf, NoEnvelopeIsNone
<1>2. Shares(d, i) = IF Arrived(d) THEN 1 ELSE 0
  BY DEF OnceInv
<1>3. /\ HandlerCount(d, i) \in Nat /\ HandCount(e) \in Nat
      /\ SlotCount(ch, e) \in Nat /\ SlotCount(buf, e) \in Nat
      /\ GotCount(e) \in Nat /\ released[e] \in Nat
  BY CountsAreNat
<1>4. /\ ClientTypeOK /\ ch \in Seq(Envelope)
      /\ cpc \in [Client -> {"idle", "admit", "send", "count", "evict", "uncount"}
                              \cup Ended]
      /\ at \in [Client -> Nat \ {0}]
      /\ old \in [Client -> Envelope \cup {NoEnvelope}]
      /\ at[d] \in Nat
  BY DEF TypeInv, TypeOK, ClientTypeOK, QueueTypeOK
<1>5. UNCHANGED <<buf, got>>
  BY DEF Arrival, Handler, Accept, AcceptMalformed, Refuse, EnqueueBatch, Send, CountSent,
         Evict, CountEvicted, batcherVars
<1>6. SlotCount(buf, e)' = SlotCount(buf, e) /\ GotCount(e)' = GotCount(e)
  BY <1>5 DEF SlotCount, SlotsOwning, GotCount
<1>7. /\ UNCHANGED ch => SlotCount(ch, e)' = SlotCount(ch, e)
      /\ UNCHANGED old => HandCount(e)' = HandCount(e)
      /\ UNCHANGED ghostVars => released'[e] = released[e]
  BY DEF SlotCount, SlotsOwning, HandCount, EvictorsOwning, ghostVars
<1>8. ASSUME NEW k, cpc' = [cpc EXCEPT ![c] = k], d # c, at'[d] = at[d]
      PROVE  HandlerCount(d, i)' = HandlerCount(d, i) /\ Arrived(d)' = Arrived(d)
  BY <1>4, <1>8 DEF HandlerCount, Handling, Arrived
<1>0. /\ Shares(d, i)' = HandlerCount(d, i)' + HandCount(e)' + SlotCount(ch, e)'
                         + SlotCount(buf, e)' + GotCount(e)' + released'[e]
      /\ Shares(d, i) = HandlerCount(d, i) + HandCount(e) + SlotCount(ch, e)
                        + SlotCount(buf, e) + GotCount(e) + released[e]
  BY DEF Shares
<1> HIDE DEF e
<1>9. CASE Accept(c)
  <2>1. UNCHANGED <<ch, at, old, ghostVars>> /\ cpc[c] = "idle"
    BY <1>9 DEF Accept, queueVars
  <2>2. PICK k \in {"ok", "admit", "send"} :
          cpc' = [cpc EXCEPT ![c] = k] /\ (k = "ok" => BatchLen[c] = 0)
    BY <1>9 DEF Accept
  <2>3. CASE d = c
    <3>1. at[c] = 1 /\ k # "ok" /\ cpc'[c] = k
      BY <1>1, <1>4, <2>1, <2>2, <2>3 DEF TypeInv
    <3>2. ~Arrived(d) /\ Arrived(d)' /\ HandlerCount(d, i) = 0 /\ HandlerCount(d, i)' = 1
      BY <1>1, <2>1, <2>2, <2>3, <3>1 DEF Arrived, HandlerCount, Handling
    <3> QED BY <1>2, <1>3, <1>6, <1>7, <2>1, <3>2 DEF Shares, e
  <2>4. CASE d # c
    BY <1>2, <1>6, <1>7, <1>8, <2>1, <2>2, <2>4 DEF Shares, e
  <2> QED BY <2>3, <2>4
<1>10. CASE AcceptMalformed(c)
  <2>1. /\ UNCHANGED <<ch, at, old>> /\ cpc[c] = "idle" /\ Release(Request(c))
        /\ cpc' = [cpc EXCEPT ![c] = "malformed"]
    BY <1>10 DEF AcceptMalformed, queueVars
  <2>2. e \in Request(c) <=> d = c
    BY DEF Request, e
  <2>3. CASE d = c
    <3>1. cpc'[c] = "malformed"
      BY <1>4, <2>1
    <3>2. ~Arrived(d) /\ Arrived(d)' /\ HandlerCount(d, i) = 0 /\ HandlerCount(d, i)' = 0
      BY <2>1, <2>3, <3>1 DEF Arrived, HandlerCount, Handling
    <3>3. released'[e] = released[e] + 1
      BY <1>1, <2>1, <2>2, <2>3, ReleaseAdds
    <3> QED BY <1>2, <1>3, <1>6, <1>7, <2>1, <3>2, <3>3 DEF Shares, e
  <2>4. CASE d # c
    <3>1. released'[e] = released[e]
      BY <1>1, <2>1, <2>2, <2>4, ReleaseAdds
    <3> QED BY <1>2, <1>6, <1>7, <1>8, <2>1, <2>4, <3>1 DEF Shares, e
  <2> QED BY <2>3, <2>4
<1>11. CASE Refuse(c) /\ cpc[c] \in {"admit", "send"}
  <2>1. /\ UNCHANGED <<ch, at, old>> /\ Release(Rest(c))
        /\ cpc' = [cpc EXCEPT ![c] = "rejected"]
    BY <1>11 DEF Refuse, queueVars
  <2>2. e \in Rest(c) <=> d = c /\ at[c] <= i
    BY <1>1, <1>4 DEF Rest, e
  <2>3. CASE d = c
    <3>1. cpc'[c] = "rejected"
      BY <1>4, <2>1
    <3>2. /\ Arrived(d) /\ Arrived(d)'
          /\ HandlerCount(d, i) = IF at[c] <= i THEN 1 ELSE 0
          /\ HandlerCount(d, i)' = 0
      BY <1>11, <2>1, <2>3, <3>1 DEF Arrived, HandlerCount, Handling
    <3>3. released'[e] = released[e] + HandlerCount(d, i)
      BY <1>1, <1>3, <2>1, <2>2, <2>3, <3>2, ReleaseAdds
    <3> QED BY <1>2, <1>3, <1>6, <1>7, <2>1, <3>2, <3>3 DEF Shares, e
  <2>4. CASE d # c
    <3>1. released'[e] = released[e]
      BY <1>1, <2>1, <2>2, <2>4, ReleaseAdds
    <3> QED BY <1>2, <1>6, <1>7, <1>8, <2>1, <2>4, <3>1 DEF Shares, e
  <2> QED BY <2>3, <2>4
<1>12. CASE /\ ~Refuse(c)
            /\ EnqueueBatch(c) \/ (Send(c) /\ ~HasRoom) \/ CountSent(c)
               \/ (Evict(c) /\ ch = <<>>)
  <2>1. UNCHANGED <<ch, at, old, ghostVars>>
    BY <1>12 DEF EnqueueBatch, Send, CountSent, Evict, queueVars
  <2>2. PICK k \in {"ok", "send", "evict"} :
          cpc' = [cpc EXCEPT ![c] = k] /\ (k = "ok" => at[c] > BatchLen[c])
    BY <1>12 DEF EnqueueBatch, Send, CountSent, Evict
  <2>3. Handling(c)
    BY <1>12 DEF EnqueueBatch, Send, CountSent, Evict, Handling
  <2>4. HandlerCount(d, i)' = HandlerCount(d, i) /\ Arrived(d)' = Arrived(d)
    <3>1. CASE d = c
      <4>1. cpc'[c] = k
        BY <1>4, <2>2
      <4>2. Arrived(d) /\ Arrived(d)'
        BY <2>2, <2>3, <3>1, <4>1 DEF Arrived, Handling
      <4>3. k = "ok" => ~(at[d] <= i)
        BY <1>1, <1>4, <2>2, <3>1
      <4>4. k # "ok" => Handling(d)'
        BY <3>1, <4>1 DEF Handling
      <4> QED BY <2>1, <2>3, <3>1, <4>2, <4>3, <4>4 DEF HandlerCount
    <3>2. CASE d # c
      BY <1>8, <2>1, <2>2, <3>2
    <3> QED BY <3>1, <3>2
  <2> QED BY <1>2, <1>6, <1>7, <2>1, <2>4 DEF Shares, e
<1>13. CASE Send(c) /\ HasRoom
  <2>1. /\ UNCHANGED <<old, ghostVars>> /\ ch' = Append(ch, <<c, at[c]>>)
        /\ cpc[c] = "send" /\ cpc' = [cpc EXCEPT ![c] = "count"]
        /\ at' = [at EXCEPT ![c] = @ + 1]
    BY <1>13 DEF Send, Put
  <2>2. <<c, at[c]>> \in Envelope
    BY <2>1, EnvelopeOf DEF TypeInv, TypeOK, ClientTypeOK
  <2>3. SlotCount(ch, e)' = SlotCount(ch, e) + (IF <<c, at[c]>> = e THEN 1 ELSE 0)
    <3>1. SlotCount(ch, e)' = SlotCount(ch', e)
      BY DEF SlotCount, SlotsOwning, e
    <3> QED BY <1>4, <2>1, <2>2, <3>1, SlotsAppend
  <2>4. CASE d = c
    <3>1. cpc'[c] = "count" /\ at'[c] = at[c] + 1 /\ at[c] \in Nat
      BY <1>4, <2>1
    <3>2. /\ Arrived(d) /\ Arrived(d)'
          /\ HandlerCount(d, i) = IF at[c] <= i THEN 1 ELSE 0
          /\ HandlerCount(d, i)' = IF at[c] + 1 <= i THEN 1 ELSE 0
      BY <2>1, <2>4, <3>1 DEF Arrived, HandlerCount, Handling
    <3>3. <<c, at[c]>> = e <=> at[c] = i
      BY <2>4 DEF e
    <3>4. HandlerCount(d, i)' + SlotCount(ch, e)' = HandlerCount(d, i) + SlotCount(ch, e)
      BY <1>1, <1>3, <2>3, <3>1, <3>2, <3>3
    <3>5. HandlerCount(d, i)' \in Nat /\ SlotCount(ch, e)' \in Nat
      BY <1>3, <2>3, <3>2
    <3>6. HandCount(e)' = HandCount(e) /\ released'[e] = released[e]
      BY <1>7, <2>1
    <3> QED BY <1>0, <1>2, <1>3, <1>6, <3>2, <3>4, <3>5, <3>6
  <2>5. CASE d # c
    <3>1. at'[d] = at[d] /\ <<c, at[c]>> # e
      BY <1>4, <2>1, <2>5 DEF e
    <3>2. SlotCount(ch, e)' = SlotCount(ch, e)
      BY <1>3, <2>3, <3>1
    <3> QED BY <1>2, <1>6, <1>7, <1>8, <2>1, <2>5, <3>1, <3>2 DEF Shares, e
  <2> QED BY <2>4, <2>5
<1>14. CASE Evict(c) /\ ch # <<>>
  <2>1. /\ UNCHANGED <<at, ghostVars>> /\ ch' = Tail(ch)
        /\ cpc[c] = "evict" /\ cpc' = [cpc EXCEPT ![c] = "uncount"]
        /\ old' = [old EXCEPT ![c] = Head(ch)]
    BY <1>14 DEF Evict, Take
  <2>2. old[c] = NoEnvelope
    BY <2>1 DEF OneInHand
  <2>3. SlotCount(ch, e) = SlotCount(ch, e)' + (IF Head(ch) = e THEN 1 ELSE 0)
    <3>1. SlotCount(ch, e)' = SlotCount(ch', e)
      BY DEF SlotCount, SlotsOwning, e
    <3> QED BY <1>4, <1>14, <2>1, <3>1, SlotsTail
  <2>4. HandCount(e)' = HandCount(e) + (IF Head(ch) = e THEN 1 ELSE 0)
    <3>1. PICK x : x = Head(ch)
      OBVIOUS
    <3>2. /\ old[c] # e /\ x = e => HandCount(e)' = HandCount(e) + 1
          /\ (old[c] = e <=> x = e) => HandCount(e)' = HandCount(e)
      BY <1>4, <2>1, <3>1, HandMoves DEF e
    <3> QED BY <1>1, <1>3, <2>2, <3>1, <3>2
  <2>5. SlotCount(ch, e)' \in Nat
    <3>1. SlotCount(ch, e)' = SlotCount(ch', e) /\ ch' \in Seq(Envelope)
      BY <1>4, <1>14, <2>1 DEF SlotCount, SlotsOwning, e
    <3> QED BY <3>1, SlotsFinite
  <2>6. HandlerCount(d, i)' = HandlerCount(d, i) /\ Arrived(d)' = Arrived(d)
    BY <1>4, <1>8, <2>1 DEF HandlerCount, Handling, Arrived
  <2>7. HandCount(e)' + SlotCount(ch, e)' = HandCount(e) + SlotCount(ch, e)
    BY <1>3, <2>3, <2>4, <2>5
  <2>8. HandCount(e)' \in Nat
    BY <1>3, <2>4
  <2>9. released'[e] = released[e]
    BY <1>7, <2>1
  <2> QED BY <1>0, <1>2, <1>3, <1>6, <2>5, <2>6, <2>7, <2>8, <2>9
<1>15. CASE CountEvicted(c)
  <2>1. /\ UNCHANGED <<at, ch>> /\ Release({old[c]})
        /\ cpc[c] = "uncount" /\ cpc' = [cpc EXCEPT ![c] = "send"]
        /\ old' = [old EXCEPT ![c] = NoEnvelope]
    BY <1>15 DEF CountEvicted
  <2>2. HandCount(e)' = HandCount(e) - (IF old[c] = e THEN 1 ELSE 0)
    <3>1. /\ old[c] = e /\ NoEnvelope # e => HandCount(e)' = HandCount(e) - 1
          /\ (old[c] = e <=> NoEnvelope = e) => HandCount(e)' = HandCount(e)
      <4>1. PICK x : x = NoEnvelope
        OBVIOUS
      <4> QED BY <1>4, <2>1, <4>1, HandMoves
    <3> QED BY <1>1, <1>3, <3>1
  <2>3. released'[e] = released[e] + (IF old[c] = e THEN 1 ELSE 0)
    BY <1>1, <1>3, <2>1, ReleaseAdds
  <2>4. HandlerCount(d, i)' = HandlerCount(d, i) /\ Arrived(d)' = Arrived(d)
    BY <1>4, <1>8, <2>1 DEF HandlerCount, Handling, Arrived
  <2> QED BY <1>2, <1>3, <1>6, <1>7, <2>1, <2>2, <2>3, <2>4 DEF Shares, e
<1>16. EnqueueBatch(c) \/ Send(c) => cpc[c] \in {"admit", "send"}
  BY DEF EnqueueBatch, Send
<1>17. \/ Accept(c) \/ AcceptMalformed(c) \/ EnqueueBatch(c) \/ Send(c) \/ CountSent(c)
       \/ Evict(c) \/ CountEvicted(c)
  BY DEF Arrival, Handler
<1>18. CountSent(c) \/ Evict(c) => ~Refuse(c)
  <2>1. CountSent(c) \/ Evict(c) => cpc'[c] # "rejected"
    BY <1>4 DEF CountSent, Evict
  <2>2. Refuse(c) => cpc'[c] = "rejected"
    BY <1>4 DEF Refuse
  <2> QED BY <2>1, <2>2
<1> QED
  BY <1>9, <1>10, <1>11, <1>12, <1>13, <1>14, <1>15, <1>16, <1>17, <1>18
LEMMA OnceBatcher ==
  ASSUME TypeInv, OneInHand, OnceInv, Batcher
  PROVE  OnceInv'
<1> SUFFICES ASSUME NEW d \in Client, NEW i \in 1 .. BatchLen[d]
             PROVE  Shares(d, i)' = IF Arrived(d)' THEN 1 ELSE 0
  BY DEF OnceInv
<1> DEFINE e == <<d, i>>
<1>0. /\ Shares(d, i)' = HandlerCount(d, i)' + HandCount(e)' + SlotCount(ch, e)'
                         + SlotCount(buf, e)' + GotCount(e)' + released'[e]
      /\ Shares(d, i) = HandlerCount(d, i) + HandCount(e) + SlotCount(ch, e)
                        + SlotCount(buf, e) + GotCount(e) + released[e]
  BY DEF Shares
<1>1. e \in Envelope /\ e # NoEnvelope
  BY EnvelopeOf, NoEnvelopeIsNone
<1>2. Shares(d, i) = IF Arrived(d) THEN 1 ELSE 0
  BY DEF OnceInv
<1>3. /\ HandlerCount(d, i) \in Nat /\ HandCount(e) \in Nat
      /\ SlotCount(ch, e) \in Nat /\ SlotCount(buf, e) \in Nat
      /\ GotCount(e) \in Nat /\ released[e] \in Nat
  BY CountsAreNat
<1>4. ch \in Seq(Envelope) /\ buf \in Seq(Envelope)
  BY DEF TypeInv, TypeOK, QueueTypeOK, BatcherTypeOK
<1>5. UNCHANGED clientVars
  BY DEF Batcher, Select, Dequeue, AddToBatch, FlushOk, FlushError, Drain, DrainAdd, DrainOk,
         DrainError
<1>6. /\ HandlerCount(d, i)' = HandlerCount(d, i) /\ Arrived(d)' = Arrived(d)
      /\ HandCount(e)' = HandCount(e)
  BY <1>5 DEF clientVars, HandlerCount, Handling, Arrived, HandCount, EvictorsOwning
<1>7. SlotCount(ch, e)' = SlotCount(ch', e) /\ SlotCount(buf, e)' = SlotCount(buf', e)
  BY DEF SlotCount, SlotsOwning
<1> HIDE DEF e
<1>8. CASE (Dequeue \/ Drain) /\ ch # <<>> /\ ch' = Tail(ch) /\ got' = Head(ch)
  <2>1. got = NoEnvelope /\ buf' = buf /\ released' = released
    BY <1>8 DEF Dequeue, Drain, OneInHand, ghostVars
  <2>2. SlotCount(ch, e) = SlotCount(ch', e) + (IF Head(ch) = e THEN 1 ELSE 0)
    BY <1>4, <1>8, SlotsTail
  <2>3. GotCount(e) = 0 /\ GotCount(e)' = IF Head(ch) = e THEN 1 ELSE 0
    BY <1>1, <1>8, <2>1 DEF GotCount
  <2>4. SlotCount(ch', e) \in Nat
    <3>1. ch' \in Seq(Envelope)
      BY <1>4, <1>8
    <3> QED BY <3>1, SlotsFinite
  <2> QED BY <1>0, <1>2, <1>3, <1>6, <1>7, <2>1, <2>2, <2>3, <2>4
<1>9. CASE AddToBatch \/ DrainAdd
  <2>1. /\ buf' = Append(buf, got) /\ ch' = ch /\ got \in Envelope /\ got' = NoEnvelope
        /\ released' = released
    BY <1>9 DEF AddToBatch, DrainAdd, TypeInv, TypeOK, BatcherTypeOK, ghostVars
  <2>2. SlotCount(buf', e) = SlotCount(buf, e) + GotCount(e)
    BY <1>4, <2>1, SlotsAppend DEF GotCount
  <2>3. GotCount(e)' = 0
    BY <1>1, <2>1 DEF GotCount
  <2>4. SlotCount(buf, e)' = SlotCount(buf, e) + GotCount(e) /\ SlotCount(ch, e)' = SlotCount(ch, e)
    BY <1>7, <2>1, <2>2
  <2>5. released'[e] = released[e]
    BY <2>1
  <2> QED BY <1>0, <1>2, <1>3, <1>6, <2>3, <2>4, <2>5
<1>10. CASE FlushOk \/ FlushError \/ DrainOk \/ DrainError
  <2>1. UNCHANGED <<ch, got>> /\ buf' = <<>> /\ Release(ToSet(buf))
    BY <1>10 DEF FlushOk, FlushError, DrainOk, DrainError, Produce, queueVars
  <2>2. SlotCount(buf, e) \in {0, 1}
    <3>1. Shares(d, i) <= 1
      BY <1>2
    <3>2. SlotCount(buf, e) <= 1
      BY <1>0, <1>3, <3>1
    <3> QED BY <1>3, <3>2
  <2>3. released'[e] = released[e] + SlotCount(buf, e)
    <3>1. e \in ToSet(buf) <=> SlotCount(buf, e) # 0
      BY <1>4, SlotsToSet
    <3>2. /\ e \in ToSet(buf) => released'[e] = released[e] + 1
          /\ e \notin ToSet(buf) => released'[e] = released[e]
      BY <1>1, <2>1, ReleaseAdds
    <3> QED BY <1>3, <2>2, <3>1, <3>2
  <2>4. SlotCount(buf', e) = 0 /\ GotCount(e)' = GotCount(e)
    BY <2>1, SlotsEmpty DEF GotCount
  <2> QED BY <1>0, <1>2, <1>3, <1>6, <1>7, <2>1, <2>3, <2>4
<1>11. CASE UNCHANGED <<ch, got, buf, released>>
  <2>1. GotCount(e)' = GotCount(e)
    BY <1>11 DEF GotCount
  <2> QED BY <1>0, <1>2, <1>3, <1>6, <1>7, <1>11, <2>1
<1>12. \/ (Dequeue \/ Drain) /\ ch # <<>> /\ ch' = Tail(ch) /\ got' = Head(ch)
       \/ AddToBatch \/ DrainAdd
       \/ FlushOk \/ FlushError \/ DrainOk \/ DrainError
       \/ UNCHANGED <<ch, got, buf, released>>
  BY DEF Batcher, Select, Dequeue, Drain, Take, queueVars, ghostVars
<1> QED BY <1>8, <1>9, <1>10, <1>11, <1>12

LEMMA OnceProcess ==
  ASSUME OnceInv, Process \/ UNCHANGED vars
  PROVE  OnceInv'
<1>1. UNCHANGED <<ch, cpc, at, old, buf, got, released>>
  BY DEF Process, Tick, Cancel, CloseTransports, Exit, vars, queueVars, clientVars,
         batcherVars, ghostVars
<1> SUFFICES ASSUME NEW c \in Client, NEW i \in 1 .. BatchLen[c]
             PROVE  Shares(c, i)' = IF Arrived(c)' THEN 1 ELSE 0
  BY DEF OnceInv
<1>2. Shares(c, i)' = Shares(c, i)
  BY <1>1 DEF Shares, HandlerCount, Handling, HandCount, EvictorsOwning, SlotCount,
              SlotsOwning, GotCount
<1>3. Arrived(c)' = Arrived(c)
  BY <1>1 DEF Arrived
<1> QED BY <1>2, <1>3 DEF OnceInv

\* From the arrival of its request on, an envelope has exactly one owner until
\* it is released, and is released exactly once (AcceptTraces, EnqueueBatch,
\* enqueueDropOldest, Produce), for any number of concurrent requests, any
\* capacity and limits, either policy and any failures.
THEOREM EnvelopesAreReleasedOnce == Spec => []ReleasedOnce
<1>1. TypeInv /\ PromiseInv /\ OnceInv /\ [Next]_vars => OnceInv'
  BY OnceHandler, OnceBatcher, OnceProcess DEF Next, Terminated, PromiseInv
<1>2. TypeInv /\ OnceInv => ReleasedOnce
  <2> SUFFICES ASSUME TypeInv, OnceInv, NEW c \in Client, Arrived(c), NEW e \in Request(c)
               PROVE  Owners(e) + released[e] = 1
    BY DEF ReleasedOnce
  <2>1. PICK i \in 1 .. BatchLen[c] : e = <<c, i>>
    BY DEF Request
  <2>2. Shares(c, i) = 1
    BY DEF OnceInv
  <2>3. Cardinality(HandlersOwning(<<c, i>>)) = HandlerCount(c, i)
    BY HandlersAre
  <2>4. Owners(e) + released[e] = Shares(c, i)
    BY <2>1, <2>3 DEF Owners, Shares, HandCount, SlotCount, GotCount
  <2> QED BY <2>2, <2>4
<1>3. Spec => []OnceInv
  BY PromiseInvariant, OnceInit, <1>1, PTL DEF Spec
<1> QED BY TypeInvariant, <1>2, <1>3, PTL
=============================================================================
