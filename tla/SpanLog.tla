------------------------------ MODULE SpanLog ------------------------------
(***************************************************************************)
(* The Kafka spans topic as the assembler sees it.  The collector keys     *)
(* every span record by its trace id (internal/ingest/split.go), so all    *)
(* the records of a trace lie on one partition; a record holds one span of *)
(* one trace, or a payload that does not decode.                           *)
(***************************************************************************)
EXTENDS Integers

CONSTANTS
  Trace,       \* trace ids
  Partition,   \* partitions of the spans topic
  LogLen,      \* records per partition
  Route,       \* the partition the hash of each trace id selects
  Malformed    \* stands for the trace id of a record that does not decode

ASSUME LogAssumption ==
  /\ LogLen \in Nat \ {0}
  /\ Route \in [Trace -> Partition]
  /\ Malformed \notin Trace

Offset == 0 .. LogLen - 1
Record == Partition \X Offset

\* The contents the topic can have: the trace each record belongs to.
Logs ==
  {l \in [Record -> Trace \cup {Malformed}] :
     \A r \in Record : l[r] # Malformed => Route[l[r]] = r[1]}
=============================================================================
