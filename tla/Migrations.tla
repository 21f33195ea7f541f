----------------------------- MODULE Migrations -----------------------------
(***************************************************************************)
(* Schema migrations (internal/storage/migrate.go): every assembler runs   *)
(* all of them when it starts, as does cmd/migrate, so several processes   *)
(* may migrate at once, and each may die between two statements.           *)
(*                                                                         *)
(* The schema maps the name of a table or view to its definition.  A       *)
(* statement creates one IF NOT EXISTS or alters one.                      *)
(***************************************************************************)
EXTENDS Integers, Sequences, FiniteSets

CONSTANTS
  Script,        \* the embedded migrations by version: sequences of statements
  FirstRelease,  \* versions that the first release ships
  Assembler,     \* assemblers, which migrate whenever they start
  Command,       \* invocations of cmd/migrate, which do it once
  MaxDeaths      \* bound on migrators dying

\* What a statement creates or alters, and the columns that it defines.
Statement == [kind : {"create", "alter"}, name : STRING, def : SUBSET STRING]

ASSUME MigrationsAssumption ==
  /\ Script \in Seq(Seq(Statement))
  /\ FirstRelease \in 1 .. Len(Script)
  /\ MaxDeaths \in Nat

\* No two migrations alter the same table: 0005 alters the spans, 0006 the logs.
\* Otherwise a slow migrator could undo what a later version has altered.
ASSUME AlteredInOneVersion ==
  \A v, w \in DOMAIN Script : v # w =>
    \A i \in DOMAIN Script[v], j \in DOMAIN Script[w] :
      \/ Script[v][i].kind = "create" \/ Script[w][j].kind = "create"
      \/ Script[v][i].name # Script[w][j].name

Migrator == Assembler \cup Command

VARIABLES
  schema,     \* ClickHouse's tables and views
  ledger,     \* schema_migrations
  release,    \* versions that the deployed release ships
  migrating,  \* migrating[m]: [step, ships, version, at, applied]
  deaths

migrationVars == <<schema, ledger, release, migrating, deaths>>

NotStarted == [step |-> "not_started", ships |-> 0, version |-> 0, at |-> 0, applied |-> {}]

MigrationsInit ==
  /\ schema = <<>>
  /\ ledger = {}
  /\ release = FirstRelease
  /\ migrating = [m \in Migrator |-> NotStarted]
  /\ deaths = 0

\* The function f, and g where f is not defined.
Over(f, g) == [x \in DOMAIN f \cup DOMAIN g |-> IF x \in DOMAIN f THEN f[x] ELSE g[x]]

\* What a statement makes of a schema.
Effect(sch, stmt) ==
  CASE stmt.kind = "create" -> Over(sch, [n \in {stmt.name} |-> stmt.def])
    [] stmt.kind = "alter" -> [sch EXCEPT ![stmt.name] = stmt.def]

Goto(m, next) == migrating' = [migrating EXCEPT ![m] = next]

\* Migrate is called; the first migration creates the ledger, so it runs
\* without a look at it.
StartMigrating(m) ==
  /\ migrating[m].step = "not_started"
  /\ Goto(m, [NotStarted EXCEPT !.step = "bootstrap", !.ships = release, !.version = 1, !.at = 1])
  /\ UNCHANGED <<schema, ledger, release, deaths>>

\* One statement, of the first migration or of a pending one.
Exec(m) ==
  LET job == migrating[m]
      stmt == Script[job.version][job.at]
  IN
  /\ job.step \in {"bootstrap", "exec"}
  /\ job.at \in DOMAIN Script[job.version]
  /\ stmt.kind = "alter" => stmt.name \in DOMAIN schema
  /\ schema' = Effect(schema, stmt)
  /\ Goto(m, [job EXCEPT !.at = @ + 1])
  /\ UNCHANGED <<ledger, release, deaths>>

\* The migration after version v that the release ships and that is not applied.
Continue(job, v, applied) ==
  LET todo == {w \in v + 1 .. job.ships : w \notin applied} IN
  IF todo = {} THEN [job EXCEPT !.step = "migrated", !.version = 0, !.at = 0, !.applied = {}]
  ELSE [job EXCEPT !.step = "exec", !.at = 1, !.applied = applied,
                   !.version = CHOOSE w \in todo : \A x \in todo : w <= x]

AtEnd(job) == job.at = Len(Script[job.version]) + 1

\* appliedVersions; the first migration may have to be done again.
ReadLedger(m) ==
  /\ migrating[m].step = "bootstrap" /\ AtEnd(migrating[m])
  /\ Goto(m, Continue(migrating[m], 0, ledger))
  /\ UNCHANGED <<schema, ledger, release, deaths>>

\* Mutant: a version is recorded before its statements are executed.
RecordFirst(m) ==
  LET job == migrating[m] IN
  /\ job.step = "exec"
  /\ \/ job.at = 1 /\ ledger' = ledger \cup {job.version} /\ UNCHANGED migrating
     \/ AtEnd(job) /\ Goto(m, Continue(job, job.version, job.applied)) /\ UNCHANGED ledger
  /\ UNCHANGED <<schema, release, deaths>>
\* All statements are done: the version is inserted into the ledger.
Record(m) ==
  LET job == migrating[m] IN
  /\ job.step = "exec" /\ AtEnd(job)
  /\ ledger' = ledger \cup {job.version}
  /\ Goto(m, Continue(job, job.version, job.applied))
  /\ UNCHANGED <<schema, release, deaths>>

\* The process dies, or a statement fails and it exits; it is started again.
Die(m) ==
  /\ migrating[m].step \in {"bootstrap", "exec"} /\ deaths < MaxDeaths
  /\ deaths' = deaths + 1
  /\ Goto(m, NotStarted)
  /\ UNCHANGED <<schema, ledger, release>>

\* A new release ships one more migration; assemblers start anew, while others
\* of the old release may still be migrating.
Upgrade ==
  /\ release < Len(Script)
  /\ release' = release + 1
  /\ migrating' = [m \in Migrator |->
       IF m \in Assembler /\ migrating[m].step = "migrated" THEN NotStarted ELSE migrating[m]]
  /\ UNCHANGED <<schema, ledger, deaths>>

MigrateStep(m) == StartMigrating(m) \/ Exec(m) \/ ReadLedger(m) \/ Record(m)

\* Some assembler has started: migrations come before everything else it does.
Consuming == \E m \in Assembler : migrating[m].step = "migrated"

-----------------------------------------------------------------------------
\* What a statement is for is in the schema, or what a later one made of it.
Holds(v, stmt) ==
  /\ stmt.name \in DOMAIN schema
  /\ stmt.kind = "alter" =>
       \E w \in v .. Len(Script) : \E i \in DOMAIN Script[w] :
         Script[w][i] = [stmt EXCEPT !.def = schema[stmt.name]]

Done(v) == \A i \in DOMAIN Script[v] : Holds(v, Script[v][i])

\* A version in the ledger has all its statements in the schema, and a process
\* whose Migrate returned finds every version it ships there: no matter who died
\* between two statements, and who else was migrating.
RecordedIsDone ==
  /\ \A v \in ledger : Done(v)
  /\ \A m \in Migrator : migrating[m].step = "migrated" => \A v \in 1 .. migrating[m].ships : Done(v)

-----------------------------------------------------------------------------
Migrations == (\E m \in Migrator : MigrateStep(m) \/ Die(m)) \/ Upgrade
=============================================================================
