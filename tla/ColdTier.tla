------------------------------ MODULE ColdTier ------------------------------
(***************************************************************************)
(* Cold tiering (internal/storage/coldtier.go, cmd/coldexport): a run of   *)
(* the tool exports every old partition of a table to object storage,      *)
(* counts what it finds there, and drops the partition; another run        *)
(* restores one.  Each statement is an action, and a run may die, or be    *)
(* refused, between any two.  Rows keep arriving, the schema migrates, and *)
(* objects may be deleted by a lifecycle rule.                             *)
(*                                                                         *)
(* A row is its key in the ReplacingMergeTree, and every count is FINAL.   *)
(* One run is active at a time.                                            *)
(***************************************************************************)
EXTENDS Migrations

CONSTANTS
  Partition,     \* days, in order
  Row,           \* rows of each day
  Table,         \* the table that is tiered; its definition is its columns
  MaxErrors,     \* bound on statements that fail and on runs that die
  MaxLosses,     \* bound on objects deleted behind the tool's back
  MaxRestores,
  MaxIncidents   \* bound on those and the deaths of migrators together

ASSUME ColdTierAssumption ==
  /\ Partition = 1 .. Cardinality(Partition)
  /\ {MaxErrors, MaxLosses, MaxRestores, MaxIncidents} \subseteq Nat

\* A migration takes no column away from the table.
ASSUME ColumnsAreKept ==
  \A v, w \in DOMAIN Script : \A i \in DOMAIN Script[v], j \in DOMAIN Script[w] :
    Script[v][i].name = Table /\ Script[w][j].name = Table /\ Script[w][j].kind = "alter"
      => Script[v][i].def \subseteq Script[w][j].def

VARIABLES
  table,        \* table[p][r]: the columns that row r came with; others are DEFAULT
  object,       \* data.parquet by partition: [cols, rows], or NoObject
  manifest,     \* _manifest.json by partition, NoManifest when there is none
  run,          \* the tool: [step, todo, p, cols, rows, drop]
  arrived,      \* rows that have arrived
  errors, losses, restores,
  unseen,       \* history: rows that arrived since Drop counted the source
  expired,      \* history: days with rows that expired since their export
  dropped       \* history: of every drop, the rows deleted and not in the object

faultVars == <<errors, losses, restores>>
history == <<unseen, expired, dropped>>
vars == <<migrationVars, table, object, manifest, run, arrived, faultVars, history>>

NoObject == [cols |-> {}, rows |-> <<>>]
NoManifest == [rows |-> -1, cols |-> {}]
Stopped == [step |-> "stopped", todo |-> {}, p |-> 0, cols |-> {}, rows |-> 0, drop |-> FALSE]

Init ==
  /\ table = [p \in Partition |-> <<>>]
  /\ MigrationsInit
  /\ object = [p \in Partition |-> NoObject]
  /\ manifest = [p \in Partition |-> NoManifest]
  /\ run = Stopped
  /\ arrived = [p \in Partition |-> {}]
  /\ errors = 0 /\ losses = 0 /\ restores = 0
  /\ unseen = {} /\ expired = {} /\ dropped = {}

Exists == Table \in DOMAIN schema
columns == IF Exists THEN schema[Table] ELSE {}

Count(p) == Cardinality(DOMAIN table[p])
CountObject(p) == Cardinality(DOMAIN object[p].rows)

\* ReadManifest finds the manifest of a partition.
Described(p) == manifest[p] # NoManifest

\* A statement that leaves everything but the run as it was.
Check(next) ==
  /\ run' = next
  /\ UNCHANGED <<migrationVars, table, object, manifest, arrived, faultVars, history>>

AnotherIncident == errors + losses + restores + deaths < MaxIncidents

-----------------------------------------------------------------------------
(* cmd/coldexport.                                                         *)

\* Candidates: every partition that has rows is old enough.
Candidates == {p \in Partition : Count(p) > 0}

Start(drop) ==
  /\ run = Stopped
  /\ Candidates # {}
  /\ Check([Stopped EXCEPT !.step = "next", !.todo = Candidates, !.drop = drop])

\* The candidates are taken in order; after the last one the tool exits.
NextPartition ==
  /\ run.step = "next"
  /\ \/ run.todo = {} /\ Check(Stopped)
     \/ \E p \in run.todo :
          /\ \A q \in run.todo : p <= q
          /\ Check([run EXCEPT !.step = "columns", !.p = p, !.todo = @ \ {p}])

StartRestore(p) ==
  /\ run = Stopped /\ restores < MaxRestores /\ AnotherIncident
  /\ restores' = restores + 1
  /\ run' = [Stopped EXCEPT !.step = "restore", !.p = p]
  /\ UNCHANGED <<migrationVars, table, object, manifest, arrived, errors, losses, history>>

-----------------------------------------------------------------------------
(* Export, statement by statement.  A check that fails ends the tool.      *)

ReadColumns == run.step = "columns" /\ Check([run EXCEPT !.step = "count", !.cols = columns])

\* Mutant: the manifest is written before the object.
CountAndDescribe ==
  /\ run.step = "count"
  /\ manifest' = IF Count(run.p) = 0 THEN manifest
                 ELSE [manifest EXCEPT ![run.p] = [rows |-> Count(run.p), cols |-> run.cols]]
  /\ run' = IF Count(run.p) = 0 THEN Stopped ELSE [run EXCEPT !.step = "insert", !.rows = Count(run.p)]
  /\ UNCHANGED <<migrationVars, table, object, arrived, faultVars, history>>
CountSource ==
  /\ run.step = "count"
  /\ Check(IF Count(run.p) = 0 THEN Stopped
                               ELSE [run EXCEPT !.step = "insert", !.rows = Count(run.p)])

\* What a SELECT of cols finds in the table.
Snapshot(p, cols) ==
  [cols |-> cols, rows |-> [r \in DOMAIN table[p] |-> cols \cap table[p][r]]]

\* Mutant: an existing object is not truncated, and the statement fails.
WriteObjectOnce ==
  /\ run.step = "insert"
  /\ object' = [object EXCEPT ![run.p] = IF @ = NoObject THEN Snapshot(run.p, run.cols) ELSE @]
  /\ run' = IF object[run.p] = NoObject THEN [run EXCEPT !.step = "verify"] ELSE Stopped
  /\ expired' = expired \ {run.p}
  /\ UNCHANGED <<migrationVars, table, manifest, arrived, faultVars, unseen, dropped>>
\* s3_truncate_on_insert: an earlier export is overwritten.
WriteObject ==
  /\ run.step = "insert"
  /\ object' = [object EXCEPT ![run.p] = Snapshot(run.p, run.cols)]
  /\ run' = [run EXCEPT !.step = "verify"]
  /\ expired' = expired \ {run.p}
  /\ UNCHANGED <<migrationVars, table, manifest, arrived, faultVars, unseen, dropped>>

\* The object is read back, and must hold as many rows as were counted.
Verify ==
  /\ run.step = "verify"
  /\ Check(IF object[run.p] # NoObject /\ CountObject(run.p) = run.rows
           THEN [run EXCEPT !.step = "manifest"] ELSE Stopped)

WriteManifest ==
  /\ run.step = "manifest"
  /\ manifest' = [manifest EXCEPT ![run.p] = [rows |-> run.rows, cols |-> run.cols]]
  /\ run' = [run EXCEPT !.step = IF run.drop THEN "recount_object" ELSE "next"]
  /\ UNCHANGED <<migrationVars, table, object, arrived, faultVars, history>>

-----------------------------------------------------------------------------
(* Drop.                                                                   *)

\* The manifest is read, and the object counted against it; only the tool itself
\* writes manifests.
RecountObject ==
  /\ run.step = "recount_object"
  /\ Check(IF /\ Described(run.p)
              /\ object[run.p] # NoObject
              /\ CountObject(run.p) = manifest[run.p].rows
           THEN [run EXCEPT !.step = "recount_source", !.rows = manifest[run.p].rows]
           ELSE Stopped)

\* Mutant: the source is not counted again.
TrustExport ==
  /\ run.step = "recount_source"
  /\ run' = [run EXCEPT !.step = "drop"]
  /\ unseen' = {}
  /\ UNCHANGED <<migrationVars, table, object, manifest, arrived, faultVars, expired, dropped>>
RecountSource ==
  /\ run.step = "recount_source"
  /\ run' = IF Count(run.p) = run.rows THEN [run EXCEPT !.step = "drop"] ELSE Stopped
  /\ unseen' = {}
  /\ UNCHANGED <<migrationVars, table, object, manifest, arrived, faultVars, expired, dropped>>

DropPartition ==
  LET p == run.p IN
  /\ run.step = "drop"
  /\ dropped' = IF object[p] = NoObject \/ p \in expired THEN dropped
                ELSE dropped \cup {r \in DOMAIN table[p] \ DOMAIN object[p].rows : <<p, r>> \notin unseen}
  /\ table' = [table EXCEPT ![p] = <<>>]
  /\ run' = [run EXCEPT !.step = "next"]
  /\ UNCHANGED <<migrationVars, object, manifest, arrived, faultVars, unseen, expired>>

-----------------------------------------------------------------------------
(* Restore.                                                                *)

\* The manifest's columns that the table still has; there must be one.
ReadForRestore ==
  /\ run.step = "restore"
  /\ Check(IF ~Described(run.p) \/ manifest[run.p].cols \cap columns = {} THEN Stopped
           ELSE [run EXCEPT !.step = "read_back", !.cols = manifest[run.p].cols \cap columns])

\* The INSERT SELECT names columns that the table and the object both have.
Readable(p, cols) == object[p] # NoObject /\ cols \subseteq object[p].cols \cap columns

\* A restored row replaces one of the same key.
ReadBack ==
  LET p == run.p IN
  /\ run.step = "read_back"
  /\ table' = IF Readable(p, run.cols)
              THEN [table EXCEPT ![p] =
                     Over([r \in DOMAIN object[p].rows |-> run.cols \cap object[p].rows[r]], @)]
              ELSE table
  /\ run' = Stopped
  /\ UNCHANGED <<migrationVars, object, manifest, arrived, faultVars, history>>

-----------------------------------------------------------------------------
(* What happens meanwhile.                                                 *)

\* A row arrives, with the columns of the day, on time or late.
Arrive(p, r) ==
  /\ Consuming
  /\ r \notin arrived[p]
  /\ arrived' = [arrived EXCEPT ![p] = @ \cup {r}]
  /\ table' = [table EXCEPT ![p] = Over([x \in {r} |-> columns], @)]
  /\ unseen' = unseen \cup {<<p, r>>}
  /\ UNCHANGED <<migrationVars, object, manifest, run, faultVars, expired, dropped>>

\* The table's TTL deletes what a day holds: whole parts, all its rows.
Expire(p) ==
  /\ Count(p) > 0
  /\ table' = [table EXCEPT ![p] = <<>>]
  /\ expired' = expired \cup {p}
  /\ UNCHANGED <<migrationVars, object, manifest, run, arrived, faultVars, unseen, dropped>>

\* A statement fails or the tool dies.
Fail ==
  /\ run # Stopped /\ errors < MaxErrors /\ AnotherIncident
  /\ errors' = errors + 1
  /\ run' = Stopped
  /\ UNCHANGED <<migrationVars, table, object, manifest, arrived, losses, restores, history>>

\* A lifecycle rule deletes an object.
LoseObject(p) ==
  /\ object[p] # NoObject /\ losses < MaxLosses /\ AnotherIncident
  /\ losses' = losses + 1
  /\ object' = [object EXCEPT ![p] = NoObject]
  /\ UNCHANGED <<migrationVars, table, manifest, run, arrived, errors, restores, history>>

\* The schema is migrated.
Migrate ==
  /\ Migrations
  /\ deaths' # deaths => AnotherIncident
  /\ UNCHANGED <<table, object, manifest, run, arrived, faultVars, history>>

-----------------------------------------------------------------------------
Export == ReadColumns \/ CountSource \/ WriteObject \/ Verify \/ WriteManifest
Drop == RecountObject \/ RecountSource \/ DropPartition
Restore == ReadForRestore \/ ReadBack
Tool == NextPartition \/ Export \/ Drop \/ Restore

Next ==
  \/ Tool
  \/ \E drop \in BOOLEAN : Start(drop)
  \/ \E p \in Partition : StartRestore(p)
  \/ \E p \in Partition, r \in Row : Arrive(p, r)
  \/ \E p \in Partition : Expire(p)
  \/ Fail
  \/ \E p \in Partition : LoseObject(p)
  \/ Migrate

Spec == Init /\ [][Next]_vars

\* A run goes on until it ends, and cron starts one with -export -drop time and
\* again, whatever else is run by hand.
FairSpec == Spec /\ WF_vars(Tool) /\ SF_vars(Start(TRUE))
-----------------------------------------------------------------------------
(* Properties.                                                             *)

\* A drop deletes no row that the exported object lacks, but for rows that
\* arrived after its own count of the source: not those that came between the
\* export and that count, and not after an earlier run that died half-way.  The
\* object may be deleted and rows may expire behind the tool's back.
DroppedIsExported == dropped = {}

\* What a manifest names can be read: of the columns it lists, the object has
\* each that the table still has, so a restore does not fail, whichever
\* statement the last export stopped at.
RestoreReads ==
  \A p \in Partition :
    Described(p) /\ object[p] # NoObject =>
      manifest[p].cols \cap columns \subseteq object[p].cols

\* Once rows stop arriving and statements stop failing, old days leave the
\* table, also those whose drop was refused or whose export failed before.
OldDaysLeave == \A p \in Partition : <>[](table[p] = <<>>)
=============================================================================
