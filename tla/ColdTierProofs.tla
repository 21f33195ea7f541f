--------------------------- MODULE ColdTierProofs ---------------------------
(***************************************************************************)
(* Proofs about ColdTier and Migrations: a recorded migration is done, no  *)
(* row is dropped without a copy, and what a manifest names can be read.   *)
(***************************************************************************)
EXTENDS ColdTier, FiniteSetTheorems, WellFoundedInduction, TLAPS

-----------------------------------------------------------------------------
(* The inductive invariant.                                                *)

Job ==
  [step : {"not_started", "bootstrap", "exec", "migrated"}, ships : 0 .. Len(Script),
   version : 0 .. Len(Script), at : Nat, applied : SUBSET (1 .. Len(Script))]

ToolStep ==
  {"stopped", "next", "columns", "count", "insert", "verify", "manifest", "recount_object",
   "recount_source", "drop", "restore", "read_back"}

Run ==
  [step : ToolStep, todo : SUBSET Partition, p : Partition \cup {0}, cols : SUBSET STRING,
   rows : Int, drop : BOOLEAN]

\* The part of the type invariant that migrators can break, and the rest.
MigrationType ==
  /\ ledger \in SUBSET (1 .. Len(Script))
  /\ release \in 1 .. Len(Script)
  /\ migrating \in [Migrator -> Job]

RunType == run \in Run /\ (run.step \in {"stopped", "next", "restore", "read_back"} \/ run.p \in Partition)

DataType ==
  /\ DOMAIN table = Partition /\ DOMAIN object = Partition /\ DOMAIN manifest = Partition
  /\ \A p \in Partition : IsFiniteSet(DOMAIN table[p]) /\ IsFiniteSet(DOMAIN object[p].rows)

TypeOK == MigrationType /\ RunType /\ DataType

\* What a migrator has executed so far is in the schema, and what it skips too.
MigrateInv ==
  /\ \A v \in ledger : Done(v)
  /\ \A m \in Migrator :
       LET job == migrating[m] IN
       /\ job.step \in {"bootstrap", "exec"} =>
            /\ job.version \in 1 .. Len(Script)
            /\ job.at \in 1 .. Len(Script[job.version]) + 1
            /\ \A i \in 1 .. job.at - 1 : Holds(job.version, Script[job.version][i])
       /\ job.step = "exec" =>
            /\ job.applied \subseteq ledger
            /\ \A w \in 1 .. job.version - 1 : Done(w)
       /\ job.step = "migrated" => \A v \in 1 .. job.ships : Done(v)

\* The columns of the table are those that some statement gives it.
SchemaInv ==
  Exists => \E v \in DOMAIN Script : \E i \in DOMAIN Script[v] :
    Script[v][i].name = Table /\ schema[Table] = Script[v][i].def

\* An export reads the columns that the table has, and it never loses one: those
\* of an older manifest are among them.
FilesHaveColumns ==
  \A p \in Partition :
    /\ manifest[p].cols \subseteq columns
    /\ object[p] # NoObject => manifest[p].cols \subseteq object[p].cols

RunHasColumns ==
  /\ run.step \in {"count", "insert", "verify", "manifest"} => run.cols \subseteq columns
  /\ run.step \in {"count", "insert"} => manifest[run.p].cols \subseteq run.cols
  /\ run.step \in {"verify", "manifest"} =>
       object[run.p] = NoObject \/ object[run.p].cols = run.cols

\* Since the export, the table has only gained rows, unless some expired; and
\* since the source was counted, only rows that are not in the object have come.
CopyInv ==
  /\ run.step \in {"verify", "manifest", "recount_object", "recount_source", "drop"} =>
       \/ object[run.p] = NoObject
       \/ run.p \in expired
       \/ DOMAIN object[run.p].rows \subseteq DOMAIN table[run.p]
  /\ run.step = "recount_source" =>
       object[run.p] = NoObject \/ CountObject(run.p) = run.rows
  /\ run.step = "drop" =>
       \/ object[run.p] = NoObject
       \/ run.p \in expired
       \/ \A r \in DOMAIN table[run.p] \ DOMAIN object[run.p].rows : <<run.p, r>> \in unseen

ToolInv == RunType /\ DataType /\ FilesHaveColumns /\ RunHasColumns /\ CopyInv /\ DroppedIsExported

ColdTierInv == MigrationType /\ MigrateInv /\ SchemaInv /\ ToolInv

-----------------------------------------------------------------------------
(* Statements and the schema.                                              *)

LEMMA LeastVersion ==
  ASSUME NEW S \in SUBSET Nat, S # {}
  PROVE  \E x \in S : \A y \in S : x <= y
<1>1. IsWellFoundedOn(OpToRel(<, Nat), Nat)
  BY NatLessThanWellFounded, Zenon
<1>2. PICK x \in S : \A y \in S : <<y, x>> \notin OpToRel(<, Nat)
  BY <1>1, WFMin, Zenon
<1>3. \A y \in S : ~(y < x)
  BY <1>2 DEF OpToRel
<1> QED
  BY <1>3

LEMMA ScriptParts ==
  /\ Len(Script) \in Nat /\ DOMAIN Script = 1 .. Len(Script)
  /\ \A v \in 1 .. Len(Script) :
       /\ Len(Script[v]) \in Nat /\ DOMAIN Script[v] = 1 .. Len(Script[v])
       /\ \A i \in 1 .. Len(Script[v]) : Script[v][i] \in Statement
<1>1. Script \in Seq(Seq(Statement))
  BY MigrationsAssumption
<1>2. \A v \in 1 .. Len(Script) : Script[v] \in Seq(Statement)
  BY <1>1
<1> QED
  BY <1>1, <1>2

\* The statement that a migrator runs next.
NextStatement(m) == Script[migrating[m].version][migrating[m].at]

\* What Exec runs, and what it makes of the schema: CREATE IF NOT EXISTS leaves
\* what is there, ALTER sets it.
LEMMA ExecStatement ==
  ASSUME TypeOK, MigrateInv, NEW m \in Migrator, Exec(m)
  PROVE  /\ migrating[m].version \in 1 .. Len(Script)
         /\ migrating[m].at \in 1 .. Len(Script[migrating[m].version])
         /\ NextStatement(m) \in Statement
         /\ DOMAIN schema' = DOMAIN schema \cup {NextStatement(m).name}
         /\ \A n \in DOMAIN schema :
              n # NextStatement(m).name \/ NextStatement(m).kind = "create" => schema'[n] = schema[n]
         /\ NextStatement(m).kind = "alter" \/ NextStatement(m).name \notin DOMAIN schema =>
              schema'[NextStatement(m).name] = NextStatement(m).def
         /\ migrating' = [migrating EXCEPT ![m].at = @ + 1]
         /\ UNCHANGED <<ledger, release>>
<1>0. PICK v, i, s : v = migrating[m].version /\ i = migrating[m].at /\ s = NextStatement(m)
                     /\ s = Script[v][i]
  BY DEF NextStatement
<1>1. v \in 1 .. Len(Script)
  BY <1>0 DEF Exec, MigrateInv
<1>2. i \in 1 .. Len(Script[v]) /\ s \in Statement
  BY <1>0, <1>1, ScriptParts DEF Exec
<1>3. /\ s.kind = "alter" => s.name \in DOMAIN schema
      /\ schema' = Effect(schema, s)
      /\ migrating' = [migrating EXCEPT ![m].at = @ + 1]
      /\ UNCHANGED <<ledger, release>>
  BY <1>0 DEF Exec, Goto
<1>4. CASE s.kind = "create"
  <2>1. schema' = Over(schema, [n \in {s.name} |-> s.def])
    BY <1>3, <1>4 DEF Effect
  <2> QED
    BY <1>0, <1>1, <1>2, <1>3, <1>4, <2>1 DEF Over
<1>5. CASE s.kind = "alter"
  <2>1. schema' = [schema EXCEPT ![s.name] = s.def]
    BY <1>3, <1>5 DEF Effect
  <2> QED
    BY <1>0, <1>1, <1>2, <1>3, <1>5, <2>1
<1> QED
  BY <1>2, <1>4, <1>5 DEF Statement

LEMMA HoldsStays ==
  ASSUME TypeOK, MigrateInv, NEW m \in Migrator, Exec(m),
         NEW v \in 1 .. Len(Script), NEW i \in 1 .. Len(Script[v]), Holds(v, Script[v][i])
  PROVE  Holds(v, Script[v][i])'
<1> DEFINE s == Script[v][i]
<1>0. PICK w, j, t : w = migrating[m].version /\ j = migrating[m].at /\ t = NextStatement(m)
                     /\ t = Script[w][j]
  BY DEF NextStatement
<1>1. /\ w \in 1 .. Len(Script) /\ j \in 1 .. Len(Script[w]) /\ t \in Statement
      /\ DOMAIN schema' = DOMAIN schema \cup {t.name}
      /\ \A n \in DOMAIN schema : n # t.name \/ t.kind = "create" => schema'[n] = schema[n]
      /\ t.kind = "alter" \/ t.name \notin DOMAIN schema => schema'[t.name] = t.def
  BY <1>0, ExecStatement
<1>2. s \in Statement /\ s.name \in DOMAIN schema
  BY ScriptParts DEF Holds
<1>3. s.name \in DOMAIN schema'
  BY <1>1, <1>2
<1>4. ASSUME s.kind = "alter"
      PROVE  \E u \in v .. Len(Script) : \E k \in DOMAIN Script[u] :
               Script[u][k] = [s EXCEPT !.def = schema'[s.name]]
  <2>1. CASE schema'[s.name] = schema[s.name]
    BY <1>4, <2>1 DEF Holds
  <2>2. CASE schema'[s.name] # schema[s.name]
    <3>1. t.name = s.name /\ t.kind = "alter" /\ schema'[s.name] = t.def
      BY <1>1, <1>2, <2>2 DEF Statement
    <3>2. w = v
      <4>1. v \in DOMAIN Script /\ w \in DOMAIN Script /\ i \in DOMAIN Script[v]
            /\ j \in DOMAIN Script[w]
        BY <1>1, ScriptParts
      <4> QED
        BY <1>0, <1>4, <3>1, <4>1, AlteredInOneVersion
    <3>3. t = [s EXCEPT !.def = schema'[s.name]]
      BY <1>1, <1>2, <1>4, <3>1 DEF Statement
    <3>4. w \in v .. Len(Script) /\ j \in DOMAIN Script[w]
      BY <1>1, <3>2, ScriptParts
    <3> QED
      BY <1>0, <3>3, <3>4
  <2> QED
    BY <2>1, <2>2
<1> QED
  BY <1>3, <1>4 DEF Holds

\* The statement just run holds.
LEMMA HoldsNow ==
  ASSUME TypeOK, MigrateInv, NEW m \in Migrator, Exec(m),
         NEW v \in 1 .. Len(Script), v = migrating[m].version,
         NEW i \in 1 .. Len(Script[v]), i = migrating[m].at
  PROVE  Holds(v, Script[v][i])'
<1>0. PICK s : s = NextStatement(m) /\ s = Script[v][i]
  BY DEF NextStatement
<1>1. /\ s \in Statement
      /\ DOMAIN schema' = DOMAIN schema \cup {s.name}
      /\ s.kind = "alter" => schema'[s.name] = s.def
  BY <1>0, ExecStatement
<1>2. s.name \in DOMAIN schema'
  BY <1>1
<1>3. s.kind = "alter" => s = [s EXCEPT !.def = schema'[s.name]]
  BY <1>1 DEF Statement
<1>4. v \in v .. Len(Script) /\ i \in DOMAIN Script[v]
  BY ScriptParts
<1>5. s.kind = "alter" => \E w \in v .. Len(Script) : \E k \in DOMAIN Script[w] :
        Script[w][k] = [s EXCEPT !.def = schema'[s.name]]
  BY <1>0, <1>3, <1>4
<1>6. Holds(v, s)'
  BY <1>2, <1>5 DEF Holds
<1> QED
  BY <1>0, <1>6
-----------------------------------------------------------------------------
(* Migrators.                                                              *)

\* Whatever is done stays done.
LEMMA DoneStays ==
  ASSUME TypeOK, MigrateInv, NEW m \in Migrator, Exec(m), NEW v \in 1 .. Len(Script), Done(v)
  PROVE  Done(v)'
BY HoldsStays, ScriptParts DEF Done

LEMMA JobParts ==
  ASSUME NEW n, n = Len(Script)
  PROVE  /\ n \in Nat /\ n >= 1
         /\ NotStarted \in Job
         /\ \A step \in {"not_started", "bootstrap", "exec", "migrated"}, at \in Nat,
              ships, version \in 0 .. n, applied \in SUBSET (1 .. n) :
              [step |-> step, ships |-> ships, version |-> version, at |-> at,
               applied |-> applied] \in Job
<1>1. n \in Nat /\ n >= 1
  BY ScriptParts, MigrationsAssumption
<1>2. {} \in SUBSET (1 .. n) /\ 0 \in 0 .. n
  BY <1>1
<1> QED
  BY <1>1, <1>2 DEF NotStarted, Job

LEMMA JobFields ==
  ASSUME NEW job \in Job
  PROVE  /\ job = [step |-> job.step, ships |-> job.ships, version |-> job.version,
                   at |-> job.at, applied |-> job.applied]
         /\ job.step \in {"not_started", "bootstrap", "exec", "migrated"} /\ job.at \in Nat
         /\ job.ships \in 0 .. Len(Script) /\ job.version \in 0 .. Len(Script)
         /\ job.applied \in SUBSET (1 .. Len(Script))
BY DEF Job

\* Where a migrator goes next: to the first version that it ships and that is
\* not applied, if there is one.
LEMMA ContinueMeans ==
  ASSUME NEW job \in Job, NEW v \in 0 .. Len(Script), NEW a \in SUBSET (1 .. Len(Script)),
         NEW next, next = Continue(job, v, a)
  PROVE  /\ next \in Job /\ next.ships = job.ships /\ next.step \in {"migrated", "exec"}
         /\ next.step = "migrated" => \A w \in v + 1 .. job.ships : w \in a
         /\ next.step = "exec" =>
              /\ next.version \in v + 1 .. job.ships /\ next.at = 1 /\ next.applied = a
              /\ \A w \in v + 1 .. next.version - 1 : w \in a
<1> DEFINE todo == {w \in v + 1 .. job.ships : w \notin a}
<1>0. Len(Script) \in Nat /\ job.ships \in 0 .. Len(Script) /\ 0 \in 0 .. Len(Script)
  BY ScriptParts, JobFields
<1>1. CASE todo = {}
  <2>1. next = [job EXCEPT !.step = "migrated", !.version = 0, !.at = 0, !.applied = {}]
    BY <1>1 DEF Continue
  <2>2. next.step = "migrated" /\ next.ships = job.ships
    BY <2>1 DEF Job
  <2>3. next \in Job
    <3>1. next = [step |-> "migrated", ships |-> job.ships, version |-> 0, at |-> 0, applied |-> {}]
      <4>1. PICK st, sh, ve, at, ap :
              /\ job = [step |-> st, ships |-> sh, version |-> ve, at |-> at, applied |-> ap]
              /\ job.ships = sh
        BY JobFields
      <4> QED
        BY <2>1, <4>1
    <3>2. 0 \in Nat /\ {} \in SUBSET (1 .. Len(Script))
      OBVIOUS
    <3> QED
      BY <1>0, <3>1, <3>2, JobParts
  <2> HIDE DEF todo
  <2>4. \A w \in v + 1 .. job.ships : w \in a
    BY <1>1 DEF todo
  <2> QED
    BY <2>2, <2>3, <2>4
<1>2. CASE todo # {}
  <2> DEFINE first == CHOOSE w \in todo : \A x \in todo : w <= x
  <2>1. next = [job EXCEPT !.step = "exec", !.at = 1, !.applied = a, !.version = first]
    BY <1>2 DEF Continue
  <2>2. todo \in SUBSET Nat
    BY <1>0
  <2>3. first \in todo /\ \A x \in todo : first <= x
    <3> HIDE DEF todo
    <3> QED
      BY <1>2, <2>2, LeastVersion
  <2>4. first \in 0 .. Len(Script) /\ first \in v + 1 .. job.ships
    BY <1>0, <2>3
  <2>5. \A w \in v + 1 .. first - 1 : w \in a
    BY <1>0, <2>3, <2>4
  <2> HIDE DEF first
  <2>6. next.step = "exec" /\ next.ships = job.ships /\ next.version = first /\ next.at = 1
        /\ next.applied = a
    BY <2>1 DEF Job
  <2>7. next \in Job
    <3>1. next = [step |-> "exec", ships |-> job.ships, version |-> first, at |-> 1, applied |-> a]
      <4>1. PICK st, sh, ve, at, ap :
              /\ job = [step |-> st, ships |-> sh, version |-> ve, at |-> at, applied |-> ap]
              /\ job.ships = sh
        BY JobFields
      <4> QED
        BY <2>1, <4>1
    <3>2. 1 \in Nat
      OBVIOUS
    <3> QED
      BY <1>0, <2>4, <3>1, <3>2, JobParts
  <2> QED
    BY <2>4, <2>5, <2>6, <2>7
<1> QED
  BY <1>1, <1>2

JobInv(m) ==
  LET job == migrating[m] IN
  /\ job.step \in {"bootstrap", "exec"} =>
       /\ job.version \in 1 .. Len(Script)
       /\ job.at \in 1 .. Len(Script[job.version]) + 1
       /\ \A i \in 1 .. job.at - 1 : Holds(job.version, Script[job.version][i])
  /\ job.step = "exec" =>
       /\ job.applied \subseteq ledger
       /\ \A w \in 1 .. job.version - 1 : Done(w)
  /\ job.step = "migrated" => \A v \in 1 .. job.ships : Done(v)

LEMMA SplitMigrateInv ==
  MigrateInv <=> (\A v \in ledger : Done(v)) /\ \A m \in Migrator : JobInv(m)
BY DEF MigrateInv, JobInv

\* A step of one migrator that leaves the schema alone.
LEMMA OtherJobs ==
  ASSUME MigrateInv, UNCHANGED schema, ledger \subseteq ledger',
         NEW m \in Migrator, migrating'[m] = migrating[m]
  PROVE  JobInv(m)'
<1>1. JobInv(m)
  BY SplitMigrateInv
<1>2. \A v : Done(v)' = Done(v)
  BY DEF Done, Holds
<1>3. \A v, s : Holds(v, s)' = Holds(v, s)
  BY DEF Holds
<1> DEFINE D(v) == Done(v)
           H(v, s) == Holds(v, s)
<1> HIDE DEF D, H
<1> QED
  BY <1>1, <1>2, <1>3 DEF JobInv

\* A version that is to be done from its first statement on.
LEMMA NextJob ==
  ASSUME TypeOK, MigrateInv, UNCHANGED schema, ledger \subseteq ledger',
         NEW m \in Migrator, NEW v \in 0 .. Len(Script), NEW a \in SUBSET ledger,
         \A w \in 1 .. v : Done(w),
         migrating' = [migrating EXCEPT ![m] = Continue(migrating[m], v, a)]
  PROVE  migrating'[m] \in Job /\ JobInv(m)'
<1> DEFINE next == Continue(migrating[m], v, a)
           job == migrating[m]
<1>0. /\ job \in Job /\ a \in SUBSET (1 .. Len(Script)) /\ Len(Script) \in Nat
      /\ job.ships \in 0 .. Len(Script) /\ migrating'[m] = next
  BY ScriptParts DEF TypeOK, MigrationType, Job
<1>1. /\ next \in Job /\ next.ships = job.ships /\ next.step \in {"migrated", "exec"}
      /\ next.step = "migrated" => \A w \in v + 1 .. job.ships : w \in a
      /\ next.step = "exec" =>
           /\ next.version \in v + 1 .. job.ships /\ next.at = 1 /\ next.applied = a
           /\ \A w \in v + 1 .. next.version - 1 : w \in a
  BY <1>0, ContinueMeans
<1>2. \A w : Done(w)' = Done(w)
  BY DEF Done, Holds
<1>3. \A w \in a : Done(w)
  BY DEF MigrateInv
<1> HIDE DEF next, job
<1>4. next.step = "migrated" => \A w \in 1 .. next.ships : Done(w)'
  BY <1>0, <1>1, <1>2, <1>3
<1>5. next.step = "exec" =>
        /\ next.version \in 1 .. Len(Script)
        /\ next.at = 1 /\ next.applied \subseteq ledger'
        /\ \A w \in 1 .. next.version - 1 : Done(w)'
  <2>1. HAVE next.step = "exec"
  <2>2. /\ next.version \in v + 1 .. job.ships /\ next.at = 1 /\ next.applied = a
        /\ \A w \in v + 1 .. next.version - 1 : w \in a
    BY <1>1, <2>1
  <2>3. next.version \in 1 .. Len(Script)
    BY <1>0, <2>2
  <2>4. \A w \in 1 .. next.version - 1 : w \in 1 .. v \/ w \in v + 1 .. next.version - 1
    BY <2>3
  <2> QED
    BY <1>2, <1>3, <2>2, <2>3, <2>4
<1>6. next.step = "exec" => Len(Script[next.version]) \in Nat
  BY <1>5, ScriptParts
<1>7. next.step # "bootstrap"
  BY <1>1
<1>8. next.step \in {"bootstrap", "exec"} =>
        /\ next.version \in 1 .. Len(Script) /\ next.at \in 1 .. Len(Script[next.version]) + 1
        /\ \A i \in 1 .. next.at - 1 : FALSE
  <2>1. HAVE next.step \in {"bootstrap", "exec"}
  <2>2. next.version \in 1 .. Len(Script) /\ next.at = 1 /\ Len(Script[next.version]) \in Nat
    BY <1>5, <1>6, <1>7, <2>1
  <2> QED
    BY <2>2
<1> QED
  BY <1>0, <1>1, <1>4, <1>5, <1>8 DEF JobInv

LEMMA NextMigrate ==
  ASSUME TypeOK, MigrateInv, Migrations \/ UNCHANGED migrationVars
  PROVE  MigrationType' /\ MigrateInv'
<1>0. /\ Len(Script) \in Nat /\ Len(Script) >= 1 /\ ledger \in SUBSET (1 .. Len(Script))
      /\ release \in 1 .. Len(Script) /\ migrating \in [Migrator -> Job]
      /\ \A v \in 1 .. Len(Script) : Len(Script[v]) \in Nat
  <2>1. Len(Script) \in Nat /\ Len(Script) >= 1
    BY JobParts
  <2> QED
    BY <2>1, ScriptParts DEF TypeOK, MigrationType
<1>a. /\ \A v \in ledger : Done(v)
      /\ \A m \in Migrator : JobInv(m)
  BY SplitMigrateInv
<1>b. ASSUME UNCHANGED schema, NEW v, Done(v) PROVE Done(v)'
  BY <1>b DEF Done, Holds
<1>c. NotStarted \in Job
  BY JobParts
<1>1. ASSUME NEW m \in Migrator, StartMigrating(m) PROVE MigrationType' /\ MigrateInv'
  <2> DEFINE new == [NotStarted EXCEPT !.step = "bootstrap", !.ships = release,
                                       !.version = 1, !.at = 1]
  <2>1. UNCHANGED <<schema, ledger, release>> /\ migrating' = [migrating EXCEPT ![m] = new]
    BY <1>1 DEF StartMigrating, Goto
  <2>2. /\ new \in Job /\ new.step = "bootstrap" /\ new.version = 1 /\ new.at = 1
    <3>1. new.step = "bootstrap" /\ new.version = 1 /\ new.at = 1
      BY DEF NotStarted
    <3>2. release \in 0 .. Len(Script) /\ 1 \in 0 .. Len(Script) /\ {} \in SUBSET (1 .. Len(Script))
      BY <1>0
    <3> QED
      BY <3>1, <3>2 DEF Job, NotStarted
  <2> HIDE DEF new
  <2>3. JobInv(m)'
    <3>1. migrating'[m] = new
      BY <1>0, <2>1
    <3>2. 1 \in 1 .. Len(Script) /\ 1 \in 1 .. Len(Script[1]) + 1
      BY <1>0
    <3> QED
      BY <2>2, <3>1, <3>2 DEF JobInv
  <2>4. \A k \in Migrator : k # m => JobInv(k)'
    BY <2>1, OtherJobs
  <2>5. MigrationType'
    BY <1>0, <2>1, <2>2 DEF MigrationType
  <2> QED
    BY <1>a, <1>b, <2>1, <2>3, <2>4, <2>5 DEF MigrateInv, JobInv
<1>2. ASSUME NEW m \in Migrator, Exec(m) PROVE MigrationType' /\ MigrateInv'
  <2>0. PICK v, i : v = migrating[m].version /\ i = migrating[m].at
    OBVIOUS
  <2>1. /\ v \in 1 .. Len(Script) /\ i \in 1 .. Len(Script[v])
        /\ migrating' = [migrating EXCEPT ![m].at = i + 1]
        /\ UNCHANGED <<ledger, release>>
    BY <1>2, <2>0, ExecStatement
  <2>2. \A w \in 1 .. Len(Script) : Done(w) => Done(w)'
    BY <1>2, DoneStays
  <2>3. \A w \in 1 .. Len(Script) : \A k \in 1 .. Len(Script[w]) :
          Holds(w, Script[w][k]) => Holds(w, Script[w][k])'
    BY <1>2, HoldsStays
  <2>4. /\ migrating[m] \in Job
        /\ migrating'[m] = [migrating[m] EXCEPT !.at = i + 1]
        /\ \A k \in Migrator : k # m => migrating'[k] = migrating[k]
    BY <1>0, <2>1
  <2>5. MigrationType'
    <3>1. migrating'[m] \in Job
      <4>1. migrating'[m] = [step |-> migrating[m].step, ships |-> migrating[m].ships,
              version |-> migrating[m].version, at |-> i + 1, applied |-> migrating[m].applied]
        BY <2>4, JobFields
      <4>2. i + 1 \in Nat
        BY <1>0, <2>1
      <4>3. PICK step, ships, version, applied :
              /\ step = migrating[m].step /\ ships = migrating[m].ships
              /\ version = migrating[m].version /\ applied = migrating[m].applied
        OBVIOUS
      <4>4. /\ step \in {"not_started", "bootstrap", "exec", "migrated"}
            /\ ships \in 0 .. Len(Script) /\ version \in 0 .. Len(Script)
            /\ applied \in SUBSET (1 .. Len(Script))
        BY <2>4, <4>3, JobFields
      <4> QED
        BY <4>1, <4>2, <4>3, <4>4 DEF Job
    <3> QED
      BY <1>0, <2>1, <2>4, <3>1 DEF MigrationType
  <2>6. ASSUME NEW k \in Migrator PROVE JobInv(k)'
    <3>1. PICK w, at, step, ships, applied :
            /\ w = migrating[k].version /\ at = migrating[k].at /\ step = migrating[k].step
            /\ ships = migrating[k].ships /\ applied = migrating[k].applied
      OBVIOUS
    <3>2. /\ migrating'[k].version = w /\ migrating'[k].step = step
          /\ migrating'[k].ships = ships /\ migrating'[k].applied = applied
          /\ migrating'[k].at = IF k = m THEN i + 1 ELSE at
      BY <2>4, <3>1 DEF Job
    <3>3. ships \in 0 .. Len(Script)
      BY <1>0, <3>1 DEF Job
    <3>4. step \in {"bootstrap", "exec"} =>
            /\ w \in 1 .. Len(Script)
            /\ at \in 1 .. Len(Script[w]) + 1
            /\ \A j \in 1 .. at - 1 : Holds(w, Script[w][j])
      BY <1>a, <3>1 DEF JobInv
    <3>5. step \in {"bootstrap", "exec"} =>
            \A j \in 1 .. at - 1 : Holds(w, Script[w][j])'
      <4>1. HAVE step \in {"bootstrap", "exec"}
      <4>2. \A j \in 1 .. at - 1 : j \in 1 .. Len(Script[w])
        BY <1>0, <3>4, <4>1
      <4> QED
        BY <2>3, <3>4, <4>1, <4>2
    <3>6. k = m => w = v /\ at = i /\ Holds(v, Script[v][i])'
      BY <1>2, <2>0, <2>1, <3>1, HoldsNow
    <3>7. step \in {"bootstrap", "exec"} =>
            /\ w \in 1 .. Len(Script)
            /\ migrating'[k].at \in 1 .. Len(Script[w]) + 1
            /\ \A j \in 1 .. migrating'[k].at - 1 : Holds(w, Script[w][j])'
      <4>1. CASE k = m
        <5>1. migrating'[k].at = i + 1 /\ i + 1 \in 1 .. Len(Script[v]) + 1
          BY <1>0, <2>1, <3>2, <4>1
        <5>2. \A j \in 1 .. i : j = i \/ j \in 1 .. i - 1
          BY <2>1
        <5>3. (i + 1) - 1 = i
          BY <2>1
        <5> QED
          BY <2>1, <3>5, <3>6, <4>1, <5>1, <5>2, <5>3
      <4>2. CASE k # m
        BY <3>2, <3>4, <3>5, <4>2
      <4> QED
        BY <4>1, <4>2
    <3>8. step = "exec" =>
            /\ applied \subseteq ledger'
            /\ \A u \in 1 .. w - 1 : Done(u)'
      <4>1. step = "exec" => applied \subseteq ledger /\ \A u \in 1 .. w - 1 : Done(u)
        BY <1>a, <3>1 DEF JobInv
      <4> QED
        BY <1>0, <2>1, <2>2, <3>4, <4>1
    <3>9. step = "migrated" => \A u \in 1 .. ships : Done(u)'
      <4>1. step = "migrated" => \A u \in 1 .. ships : Done(u)
        BY <1>a, <3>1 DEF JobInv
      <4> QED
        BY <1>0, <2>2, <3>3, <4>1
    <3> QED
      BY <3>2, <3>7, <3>8, <3>9 DEF JobInv
  <2>7. \A w \in ledger' : Done(w)'
    BY <1>0, <1>a, <2>1, <2>2
  <2> QED
    BY <2>5, <2>6, <2>7 DEF MigrateInv, JobInv
<1>3. ASSUME NEW m \in Migrator, ReadLedger(m) PROVE MigrationType' /\ MigrateInv'
  <2>1. UNCHANGED <<schema, ledger, release>>
        /\ migrating' = [migrating EXCEPT ![m] = Continue(migrating[m], 0, ledger)]
    BY <1>3 DEF ReadLedger, Goto
  <2>2. migrating'[m] \in Job /\ JobInv(m)'
    <3>1. 0 \in 0 .. Len(Script) /\ \A w \in 1 .. 0 : Done(w)
      BY <1>0
    <3> QED
      BY <2>1, <3>1, NextJob
  <2>3. \A k \in Migrator : k # m => JobInv(k)'
    BY <2>1, OtherJobs
  <2>4. MigrationType'
    BY <1>0, <2>1, <2>2 DEF MigrationType
  <2> QED
    BY <1>a, <1>b, <2>1, <2>2, <2>3, <2>4 DEF MigrateInv, JobInv
<1>4. ASSUME NEW m \in Migrator, Record(m) PROVE MigrationType' /\ MigrateInv'
  <2>0. PICK v, a : v = migrating[m].version /\ a = migrating[m].applied
    OBVIOUS
  <2>1. /\ UNCHANGED <<schema, release>> /\ ledger' = ledger \cup {v}
        /\ migrating' = [migrating EXCEPT ![m] = Continue(migrating[m], v, a)]
        /\ migrating[m].step = "exec" /\ migrating[m].at = Len(Script[v]) + 1
    BY <1>4, <2>0 DEF Record, Goto, AtEnd
  <2>2. /\ v \in 1 .. Len(Script) /\ a \in SUBSET ledger
        /\ \A j \in 1 .. migrating[m].at - 1 : Holds(v, Script[v][j])
        /\ \A w \in 1 .. v - 1 : Done(w)
    BY <1>a, <2>0, <2>1 DEF JobInv
  <2>3. Done(v)
    <3>1. DOMAIN Script[v] = 1 .. Len(Script[v]) /\ Len(Script[v]) \in Nat
      BY <2>2, ScriptParts
    <3>2. migrating[m].at - 1 = Len(Script[v])
      BY <2>1, <3>1
    <3> QED
      BY <2>2, <3>1, <3>2 DEF Done
  <2>4. \A w \in 1 .. v : Done(w)
    BY <2>2, <2>3
  <2>5. migrating'[m] \in Job /\ JobInv(m)'
    <3>1. v \in 0 .. Len(Script)
      BY <2>2
    <3> QED
      BY <2>1, <2>2, <2>4, <3>1, NextJob
  <2>6. \A k \in Migrator : k # m => JobInv(k)'
    BY <2>1, OtherJobs
  <2>7. MigrationType'
    BY <1>0, <2>1, <2>2, <2>5 DEF MigrationType
  <2>8. \A w \in ledger' : Done(w)'
    BY <1>a, <1>b, <2>1, <2>3
  <2> QED
    BY <2>5, <2>6, <2>7, <2>8 DEF MigrateInv, JobInv
<1>5. ASSUME NEW m \in Migrator, Die(m) PROVE MigrationType' /\ MigrateInv'
  <2>1. UNCHANGED <<schema, ledger, release>>
        /\ migrating' = [migrating EXCEPT ![m] = NotStarted]
    BY <1>5 DEF Die, Goto
  <2>2. JobInv(m)'
    <3>1. migrating'[m].step = "not_started"
      BY <1>0, <2>1 DEF NotStarted
    <3> QED
      BY <3>1 DEF JobInv
  <2>3. \A k \in Migrator : k # m => JobInv(k)'
    BY <2>1, OtherJobs
  <2>4. MigrationType'
    BY <1>0, <1>c, <2>1 DEF MigrationType
  <2> QED
    BY <1>a, <1>b, <2>1, <2>2, <2>3, <2>4 DEF MigrateInv, JobInv
<1>6. CASE Upgrade
  <2>1. /\ UNCHANGED <<schema, ledger>> /\ release' = release + 1 /\ release < Len(Script)
        /\ migrating' = [m \in Migrator |->
             IF m \in Assembler /\ migrating[m].step = "migrated" THEN NotStarted
             ELSE migrating[m]]
    BY <1>6 DEF Upgrade
  <2>2. ASSUME NEW m \in Migrator PROVE JobInv(m)'
    <3>1. CASE migrating'[m] = migrating[m]
      BY <2>1, <3>1, OtherJobs
    <3>2. CASE migrating'[m] = NotStarted
      <4>1. migrating'[m].step = "not_started"
        BY <3>2 DEF NotStarted
      <4> QED
        BY <4>1 DEF JobInv
    <3> QED
      BY <2>1, <3>1, <3>2
  <2>3. MigrationType'
    BY <1>0, <1>c, <2>1 DEF MigrationType
  <2> QED
    BY <1>a, <1>b, <2>1, <2>2, <2>3 DEF MigrateInv, JobInv
<1>7. CASE UNCHANGED migrationVars
  <2>1. UNCHANGED <<schema, ledger, release, migrating>>
    BY <1>7 DEF migrationVars
  <2>2. \A m \in Migrator : JobInv(m)'
    BY <2>1, OtherJobs
  <2> QED
    BY <1>0, <1>a, <1>b, <2>1, <2>2 DEF MigrateInv, JobInv, MigrationType
<1> QED
  BY <1>1, <1>2, <1>3, <1>4, <1>5, <1>6, <1>7 DEF Migrations, MigrateStep
-----------------------------------------------------------------------------
(* The columns of the table.                                               *)

\* A migration takes no column away.
LEMMA ColumnsGrow ==
  ASSUME TypeOK, MigrateInv, SchemaInv, Migrations \/ UNCHANGED migrationVars
  PROVE  SchemaInv' /\ columns \subseteq columns'
<1>1. ASSUME UNCHANGED schema PROVE SchemaInv' /\ columns' = columns
  BY <1>1 DEF SchemaInv, Exists, columns
<1>2. ASSUME NEW m \in Migrator, Exec(m) PROVE SchemaInv' /\ columns \subseteq columns'
  <2>0. PICK v, i, s : v = migrating[m].version /\ i = migrating[m].at /\ s = NextStatement(m)
                       /\ s = Script[v][i]
    BY DEF NextStatement
  <2>1. /\ v \in 1 .. Len(Script) /\ i \in 1 .. Len(Script[v]) /\ s \in Statement
        /\ DOMAIN schema' = DOMAIN schema \cup {s.name}
        /\ \A n \in DOMAIN schema : n # s.name \/ s.kind = "create" => schema'[n] = schema[n]
        /\ s.kind = "alter" \/ s.name \notin DOMAIN schema => schema'[s.name] = s.def
    BY <1>2, <2>0, ExecStatement
  <2>2. v \in DOMAIN Script /\ i \in DOMAIN Script[v]
    BY <2>1, ScriptParts
  <2>3. CASE Exists /\ schema'[Table] = schema[Table]
    <3>1. Exists' /\ columns' = columns
      BY <2>1, <2>3 DEF Exists, columns
    <3> QED
      BY <2>3, <3>1 DEF SchemaInv
  <2>4. CASE Exists /\ schema'[Table] # schema[Table]
    <3>1. s.name = Table /\ s.kind = "alter" /\ schema'[Table] = s.def
      BY <2>1, <2>4 DEF Exists, Statement
    <3>2. PICK w \in DOMAIN Script : \E j \in DOMAIN Script[w] :
            Script[w][j].name = Table /\ schema[Table] = Script[w][j].def
      BY <2>4 DEF SchemaInv
    <3>3. schema[Table] \subseteq s.def
      BY <2>0, <2>2, <3>1, <3>2, ColumnsAreKept
    <3>4. Exists' /\ columns = schema[Table] /\ columns' = schema'[Table]
      BY <2>1, <2>4 DEF Exists, columns
    <3> QED
      BY <2>0, <2>2, <3>1, <3>3, <3>4 DEF SchemaInv
  <2>5. CASE ~Exists
    <3>1. columns = {}
      BY <2>5 DEF columns
    <3>2. Exists' => s.name = Table /\ schema'[Table] = s.def
      BY <2>1, <2>5 DEF Exists
    <3> QED
      BY <2>0, <2>2, <3>1, <3>2 DEF SchemaInv
  <2> QED
    BY <2>3, <2>4, <2>5
<1>3. CASE \E m \in Migrator : Exec(m)
  BY <1>2, <1>3
<1>4. CASE ~\E m \in Migrator : Exec(m)
  <2>1. UNCHANGED schema
    BY <1>4 DEF Migrations, MigrateStep, StartMigrating, ReadLedger, Record, Die, Upgrade,
                migrationVars
  <2> QED
    BY <1>1, <2>1
<1> QED
  BY <1>3, <1>4

\* Columns are names.
LEMMA ColumnNames ==
  ASSUME SchemaInv
  PROVE  columns \in SUBSET STRING
<1>1. CASE Exists
  <2>1. PICK v \in DOMAIN Script : \E i \in DOMAIN Script[v] : schema[Table] = Script[v][i].def
    BY <1>1 DEF SchemaInv
  <2>2. \A i \in DOMAIN Script[v] : Script[v][i] \in Statement
    BY ScriptParts
  <2> QED
    BY <1>1, <2>1, <2>2 DEF columns, Statement
<1>2. CASE ~Exists
  BY <1>2 DEF columns
<1> QED
  BY <1>1, <1>2

LEMMA RunParts ==
  ASSUME NEW r \in Run
  PROVE  /\ r = [step |-> r.step, todo |-> r.todo, p |-> r.p, cols |-> r.cols,
                 rows |-> r.rows, drop |-> r.drop]
         /\ r.step \in ToolStep /\ r.todo \in SUBSET Partition /\ r.p \in Partition \cup {0}
         /\ r.cols \in SUBSET STRING /\ r.rows \in Int /\ r.drop \in BOOLEAN
BY DEF Run

LEMMA StoppedRun == Stopped \in Run /\ Stopped.step = "stopped"
<1>1. {} \in SUBSET Partition /\ 0 \in Partition \cup {0} /\ {} \in SUBSET STRING /\ 0 \in Int
  OBVIOUS
<1>2. FALSE \in BOOLEAN
  OBVIOUS
<1>3. "stopped" \in ToolStep
  BY DEF ToolStep
<1>4. \A todo \in SUBSET Partition, p \in Partition \cup {0}, cols \in SUBSET STRING,
        step \in ToolStep, rows \in Int, drop \in BOOLEAN :
        [step |-> step, todo |-> todo, p |-> p, cols |-> cols, rows |-> rows, drop |-> drop] \in Run
  BY DEF Run
<1> QED
  BY <1>1, <1>2, <1>3, <1>4 DEF Stopped

-----------------------------------------------------------------------------
(* The tool.                                                               *)

\* Any statement that only the run sees.
LEMMA OnlyRun ==
  ASSUME ToolInv, NEW next, Check(next), RunType', RunHasColumns', CopyInv'
  PROVE  ToolInv'
<1>1. UNCHANGED <<schema, table, object, manifest, dropped>>
  BY DEF Check, migrationVars, history
<1>2. DataType' /\ DroppedIsExported'
  BY <1>1 DEF DataType, DroppedIsExported, ToolInv
<1>3. FilesHaveColumns'
  BY <1>1 DEF FilesHaveColumns, ToolInv, columns, Exists
<1> QED
  BY <1>2, <1>3 DEF ToolInv

\* A statement after which the run holds nothing.
LEMMA ReadOnly ==
  ASSUME ToolInv, NEW next \in Run, Check(next),
         \/ next.step \in {"stopped", "next", "restore", "read_back"}
         \/ next.p \in Partition /\ next.step = "columns"
  PROVE  ToolInv'
<1>1. run' = next
  BY DEF Check
<1>2. RunType' /\ RunHasColumns' /\ CopyInv'
  BY <1>1 DEF RunType, RunHasColumns, CopyInv
<1> QED
  BY <1>2, OnlyRun

\* The statements that read.
LEMMA ToolReads ==
  ASSUME ColdTierInv,
         \/ \E drop \in BOOLEAN : Start(drop)
         \/ NextPartition \/ ReadColumns \/ CountSource \/ Verify \/ RecountObject \/ ReadForRestore
  PROVE  ToolInv'
<1>0. /\ run \in Run /\ ToolInv /\ TypeOK /\ SchemaInv /\ run.cols \in SUBSET STRING
      /\ columns \in SUBSET STRING
  BY ColumnNames DEF ColdTierInv, TypeOK, ToolInv, RunType, Run
<1>s. ASSUME Check(Stopped) PROVE ToolInv'
  BY <1>0, <1>s, StoppedRun, ReadOnly
<1>1. ASSUME NEW drop \in BOOLEAN, Start(drop) PROVE ToolInv'
  <2> DEFINE next == [Stopped EXCEPT !.step = "next", !.todo = Candidates, !.drop = drop]
  <2>1. next.step = "next" /\ Check(next)
    BY <1>1 DEF Start, Stopped
  <2>2. next \in Run
    BY StoppedRun DEF Run, ToolStep, Candidates
  <2> HIDE DEF next
  <2> QED
    BY <1>0, <2>1, <2>2, ReadOnly
<1>2. CASE NextPartition
  <2>1. CASE Check(Stopped)
    BY <1>s, <2>1
  <2>2. ASSUME NEW p \in run.todo,
               Check([run EXCEPT !.step = "columns", !.p = p, !.todo = @ \ {p}])
        PROVE  ToolInv'
    <3> DEFINE next == [run EXCEPT !.step = "columns", !.p = p, !.todo = @ \ {p}]
    <3>1. next.step = "columns" /\ next.p = p /\ p \in Partition
      BY <1>0 DEF Run
    <3>2. next \in Run
      BY <1>0 DEF Run, ToolStep
    <3> HIDE DEF next
    <3>3. Check(next)
      BY <2>2 DEF next
    <3> QED
      BY <1>0, <3>1, <3>2, <3>3, ReadOnly
  <2> QED
    BY <1>2, <2>1, <2>2 DEF NextPartition
<1>7. CASE ReadForRestore
  <2> DEFINE next == [run EXCEPT !.step = "read_back", !.cols = manifest[run.p].cols \cap columns]
  <2>1. CASE Check(Stopped)
    BY <1>s, <2>1
  <2>2. CASE Check(next)
    <3>1. next.step = "read_back"
      BY <1>0 DEF Run
    <3>2. next \in Run
      BY <1>0 DEF Run, ToolStep
    <3> HIDE DEF next
    <3> QED
      BY <1>0, <2>2, <3>1, <3>2, ReadOnly
  <2> QED
    BY <1>7, <2>1, <2>2 DEF ReadForRestore
<1>3. CASE ReadColumns
  <2> DEFINE next == [run EXCEPT !.step = "count", !.cols = columns]
  <2>1. /\ next \in Run /\ next.step = "count" /\ next.p = run.p /\ next.cols = columns
        /\ run.step = "columns"
    BY <1>0, <1>3 DEF Run, ToolStep, ReadColumns
  <2>2. Check(next)
    BY <1>3 DEF ReadColumns
  <2> HIDE DEF next
  <2>3. run.p \in Partition
    BY <1>0, <2>1 DEF TypeOK, RunType
  <2>4. manifest[run.p].cols \subseteq columns
    BY <1>0, <2>3 DEF ToolInv, FilesHaveColumns
  <2>5. run' = next /\ manifest' = manifest /\ columns' = columns
    BY <2>2 DEF Check, migrationVars, columns, Exists
  <2>6. RunType' /\ RunHasColumns' /\ CopyInv'
    BY <2>1, <2>3, <2>4, <2>5 DEF RunType, RunHasColumns, CopyInv
  <2> QED
    BY <1>0, <2>2, <2>6, OnlyRun
<1>4. CASE CountSource
  <2> DEFINE next == [run EXCEPT !.step = "insert", !.rows = Count(run.p)]
  <2>1. CASE Check(Stopped)
    BY <1>s, <2>1
  <2>2. CASE Check(next)
    <3>1. run.step = "count" /\ run.p \in Partition
      BY <1>0, <1>4 DEF CountSource, TypeOK, RunType
    <3>2. Count(run.p) \in Int
      BY <1>0, <3>1, FS_CardinalityType DEF TypeOK, DataType, Count
    <3>3. next \in Run /\ next.step = "insert" /\ next.p = run.p /\ next.cols = run.cols
      BY <1>0, <3>2 DEF Run, ToolStep
    <3> HIDE DEF next
    <3>4. run' = next /\ manifest' = manifest /\ columns' = columns
      BY <2>2 DEF Check, migrationVars, columns, Exists
    <3>5. run.cols \subseteq columns /\ manifest[run.p].cols \subseteq run.cols
      BY <1>0, <3>1 DEF ToolInv, RunHasColumns
    <3>6. RunType' /\ RunHasColumns' /\ CopyInv'
      BY <3>1, <3>3, <3>4, <3>5 DEF RunType, RunHasColumns, CopyInv
    <3> QED
      BY <1>0, <2>2, <3>6, OnlyRun
  <2> QED
    BY <1>4, <2>1, <2>2 DEF CountSource
<1>5. CASE Verify
  <2> DEFINE next == [run EXCEPT !.step = "manifest"]
  <2>1. CASE Check(Stopped)
    BY <1>s, <2>1
  <2>2. CASE Check(next)
    <3>1. run.step = "verify" /\ run.p \in Partition
      BY <1>0, <1>5 DEF Verify, TypeOK, RunType
    <3>3. next \in Run /\ next.step = "manifest" /\ next.p = run.p /\ next.cols = run.cols
      BY <1>0 DEF Run, ToolStep
    <3> HIDE DEF next
    <3>4. run' = next /\ UNCHANGED <<manifest, object, table, expired, unseen>> /\ columns' = columns
      BY <2>2 DEF Check, migrationVars, columns, Exists, history
    <3>5. RunHasColumns'
      BY <1>0, <3>1, <3>3, <3>4 DEF ToolInv, RunHasColumns
    <3>6. RunType' /\ CopyInv'
      BY <1>0, <3>1, <3>3, <3>4 DEF RunType, CopyInv, ToolInv
    <3> QED
      BY <1>0, <2>2, <3>5, <3>6, OnlyRun
  <2> QED
    BY <1>5, <2>1, <2>2 DEF Verify
<1>6. CASE RecountObject
  <2> DEFINE next == [run EXCEPT !.step = "recount_source", !.rows = manifest[run.p].rows]
  <2>1. CASE Check(Stopped)
    BY <1>s, <2>1
  <2>2. CASE /\ Check(next) /\ object[run.p] # NoObject
             /\ CountObject(run.p) = manifest[run.p].rows
    <3>1. run.step = "recount_object" /\ run.p \in Partition
      BY <1>0, <1>6 DEF RecountObject, TypeOK, RunType
    <3>2. CountObject(run.p) \in Int
      BY <1>0, <3>1, FS_CardinalityType DEF TypeOK, DataType, CountObject
    <3>3. /\ next \in Run /\ next.step = "recount_source" /\ next.p = run.p
          /\ next.rows = CountObject(run.p)
      BY <1>0, <2>2, <3>2 DEF Run, ToolStep
    <3> HIDE DEF next
    <3>4. /\ run' = next /\ UNCHANGED <<manifest, object, table, expired, unseen>>
          /\ columns' = columns
      BY <2>2 DEF Check, migrationVars, columns, Exists, history
    <3>5. RunType' /\ RunHasColumns'
      BY <3>1, <3>3, <3>4 DEF RunType, RunHasColumns
    <3>6. CopyInv'
      <4>1. CountObject(run.p)' = CountObject(run.p)
        BY <3>3, <3>4 DEF CountObject
      <4> QED
        BY <1>0, <3>1, <3>3, <3>4, <4>1 DEF CopyInv, ToolInv
    <3> QED
      BY <1>0, <2>2, <3>5, <3>6, OnlyRun
  <2> QED
    BY <1>6, <2>1, <2>2 DEF RecountObject
<1> QED
  BY <1>1, <1>2, <1>3, <1>4, <1>5, <1>6, <1>7
\* The export writes the object and describes it.
LEMMA ExportWrites ==
  ASSUME ColdTierInv, WriteObject \/ WriteManifest
  PROVE  ToolInv'
<1>0. ToolInv /\ run \in Run /\ DataType
  BY DEF ColdTierInv, ToolInv, RunType
<1>1. CASE WriteObject
  <2>0. PICK p, snap : p = run.p /\ snap = Snapshot(run.p, run.cols)
    OBVIOUS
  <2>1. /\ run.step = "insert" /\ p \in Partition
        /\ object' = [object EXCEPT ![p] = snap]
        /\ expired' = expired \ {p}
        /\ UNCHANGED <<schema, table, manifest, dropped>>
    BY <1>0, <1>1, <2>0 DEF WriteObject, ToolInv, RunType, migrationVars
  <2>2. /\ run' \in Run /\ run'.step = "verify" /\ run'.p = p /\ run'.cols = run.cols
    BY <1>0, <1>1, <2>0 DEF WriteObject, Run, ToolStep
  <2>3. snap.cols = run.cols /\ DOMAIN snap.rows = DOMAIN table[p]
    BY <2>0 DEF Snapshot
  <2>4. /\ object'[p] = snap /\ \A q \in Partition : q # p => object'[q] = object[q]
        /\ DOMAIN object' = Partition
    BY <1>0, <2>1 DEF DataType
  <2>5. columns' = columns /\ run.cols \subseteq columns /\ manifest[p].cols \subseteq run.cols
    BY <1>0, <2>0, <2>1 DEF ToolInv, RunHasColumns, columns, Exists
  <2>6. DataType' /\ DroppedIsExported'
    BY <1>0, <2>1, <2>3, <2>4 DEF ToolInv, DataType, DroppedIsExported
  <2>7. FilesHaveColumns'
    BY <1>0, <2>1, <2>3, <2>4, <2>5 DEF ToolInv, FilesHaveColumns
  <2>8. RunType' /\ RunHasColumns' /\ CopyInv'
    BY <2>1, <2>2, <2>3, <2>4, <2>5 DEF RunType, RunHasColumns, CopyInv
  <2> QED
    BY <2>6, <2>7, <2>8 DEF ToolInv
<1>2. CASE WriteManifest
  <2>0. PICK p, next : p = run.p /\ next = IF run.drop THEN "recount_object" ELSE "next"
    OBVIOUS
  <2>1. /\ run.step = "manifest" /\ p \in Partition
        /\ manifest' = [manifest EXCEPT ![p] = [rows |-> run.rows, cols |-> run.cols]]
        /\ run' = [run EXCEPT !.step = next] /\ next \in {"recount_object", "next"}
        /\ UNCHANGED <<schema, table, object, expired, unseen, dropped>>
    BY <1>0, <1>2, <2>0 DEF WriteManifest, ToolInv, RunType, migrationVars, history
  <2>2. run' \in Run /\ run'.step \in {"recount_object", "next"} /\ run'.p = p
    BY <1>0, <2>0, <2>1 DEF Run, ToolStep
  <2>3. /\ manifest'[p].cols = run.cols
        /\ \A q \in Partition : q # p => manifest'[q] = manifest[q]
        /\ DOMAIN manifest' = Partition
    BY <1>0, <2>1 DEF DataType
  <2>4. /\ columns' = columns /\ run.cols \subseteq columns
        /\ object[p] = NoObject \/ object[p].cols = run.cols
        /\ object[p] = NoObject \/ p \in expired
             \/ DOMAIN object[p].rows \subseteq DOMAIN table[p]
    BY <1>0, <2>0, <2>1 DEF ToolInv, RunHasColumns, CopyInv, columns, Exists
  <2>5. DataType' /\ DroppedIsExported'
    BY <1>0, <2>1, <2>3 DEF ToolInv, DataType, DroppedIsExported
  <2>6. FilesHaveColumns'
    BY <1>0, <2>1, <2>3, <2>4 DEF ToolInv, FilesHaveColumns
  <2>7. RunType' /\ RunHasColumns' /\ CopyInv'
    BY <2>1, <2>2, <2>4 DEF RunType, RunHasColumns, CopyInv
  <2> QED
    BY <2>5, <2>6, <2>7 DEF ToolInv
<1> QED
  BY <1>1, <1>2

\* The count of the source before a drop: every row is in the object, if its rows
\* have not expired, as there are as many of one as of the other.
LEMMA SourceRecounted ==
  ASSUME ColdTierInv, RecountSource
  PROVE  ToolInv'
<1>0. ToolInv /\ run \in Run /\ DataType
  BY DEF ColdTierInv, ToolInv, RunType
<1>1. /\ run.step = "recount_source" /\ run.p \in Partition
      /\ UNCHANGED <<schema, table, object, manifest, expired, dropped>>
  BY <1>0 DEF RecountSource, ToolInv, RunType, migrationVars
<1>2. DataType' /\ DroppedIsExported' /\ FilesHaveColumns'
  BY <1>0, <1>1 DEF ToolInv, DataType, DroppedIsExported, FilesHaveColumns, columns, Exists
<1>3. CASE run' = Stopped
  BY <1>2, <1>3, StoppedRun DEF ToolInv, RunType, RunHasColumns, CopyInv
<1>4. CASE Count(run.p) = run.rows /\ run' = [run EXCEPT !.step = "drop"]
  <2>1. run' \in Run /\ run'.step = "drop" /\ run'.p = run.p
    BY <1>0, <1>4 DEF Run, ToolStep
  <2>2. PICK T, O : T = DOMAIN table[run.p] /\ O = DOMAIN object[run.p].rows
    OBVIOUS
  <2>3. O = T \/ object[run.p] = NoObject \/ run.p \in expired
    <3>1. IsFiniteSet(T)
      BY <1>0, <1>1, <2>2 DEF DataType
    <3>2. object[run.p] = NoObject \/ run.p \in expired \/ O \subseteq T
      BY <1>0, <1>1, <2>2 DEF ToolInv, CopyInv
    <3>3. object[run.p] = NoObject \/ Cardinality(O) = Cardinality(T)
      BY <1>0, <1>1, <1>4, <2>2 DEF ToolInv, CopyInv, Count, CountObject
    <3> QED
      BY <3>1, <3>2, <3>3, FS_Subset
  <2>4. RunType' /\ RunHasColumns'
    BY <1>1, <2>1 DEF RunType, RunHasColumns
  <2>5. CopyInv'
    BY <1>1, <2>1, <2>2, <2>3 DEF CopyInv
  <2> QED
    BY <1>2, <2>4, <2>5 DEF ToolInv
<1> QED
  BY <1>3, <1>4 DEF RecountSource

LEMMA PartitionDropped ==
  ASSUME ColdTierInv, DropPartition
  PROVE  ToolInv'
<1>0. ToolInv /\ run \in Run /\ DataType
  BY DEF ColdTierInv, ToolInv, RunType
<1>1. PICK p : p = run.p
  OBVIOUS
<1>2. /\ run.step = "drop" /\ p \in Partition
      /\ table' = [table EXCEPT ![p] = <<>>]
      /\ run' = [run EXCEPT !.step = "next"]
      /\ UNCHANGED <<schema, object, manifest>>
  BY <1>0, <1>1 DEF DropPartition, ToolInv, RunType, migrationVars
<1>3. run' \in Run /\ run'.step = "next"
  BY <1>0, <1>2 DEF Run, ToolStep
<1>4. DataType'
  <2>1. IsFiniteSet(DOMAIN <<>>)
    BY FS_EmptySet
  <2> QED
    BY <1>0, <1>2, <2>1 DEF DataType
<1>5. DroppedIsExported'
  <2>1. \/ object[p] = NoObject
        \/ p \in expired
        \/ \A r \in DOMAIN table[p] \ DOMAIN object[p].rows : <<p, r>> \in unseen
    BY <1>0, <1>1, <1>2 DEF ToolInv, CopyInv
  <2>2. dropped = {}
    BY <1>0 DEF ToolInv, DroppedIsExported
  <2> QED
    BY <1>1, <2>1, <2>2 DEF DropPartition, DroppedIsExported
<1>6. FilesHaveColumns'
  BY <1>0, <1>2 DEF ToolInv, FilesHaveColumns, columns, Exists
<1> QED
  BY <1>3, <1>4, <1>5, <1>6 DEF ToolInv, RunType, RunHasColumns, CopyInv

\* A restore only adds rows.
LEMMA RowsReadBack ==
  ASSUME ColdTierInv, ReadBack
  PROVE  ToolInv'
<1>0. ToolInv /\ DataType
  BY DEF ColdTierInv, ToolInv
<1>1. run' = Stopped /\ UNCHANGED <<schema, object, manifest, dropped>>
  BY DEF ReadBack, migrationVars, history
<1>2. DataType'
  <2>1. CASE table' = table
    BY <1>0, <1>1, <2>1 DEF DataType
  <2>2. CASE table' # table
    <3>0. PICK p, f : p = run.p
                      /\ f = Over([r \in DOMAIN object[p].rows |-> run.cols \cap object[p].rows[r]],
                                  table[p])
      OBVIOUS
    <3>1. table' = [table EXCEPT ![p] = f]
      BY <2>2, <3>0 DEF ReadBack
    <3>2. DOMAIN f = DOMAIN object[p].rows \cup DOMAIN table[p]
      BY <3>0 DEF Over
    <3>3. p \in Partition => IsFiniteSet(DOMAIN f)
      <4>1. p \in Partition => IsFiniteSet(DOMAIN object[p].rows) /\ IsFiniteSet(DOMAIN table[p])
        BY <1>0 DEF DataType
      <4> QED
        BY <3>2, <4>1, FS_Union
    <3>4. DOMAIN table' = Partition /\ \A q \in Partition : table'[q] = IF q = p THEN f ELSE table[q]
      BY <1>0, <3>1 DEF DataType
    <3>5. \A q \in Partition : IsFiniteSet(DOMAIN table'[q])
      BY <1>0, <3>3, <3>4 DEF DataType
    <3> QED
      BY <1>0, <1>1, <3>4, <3>5 DEF DataType
  <2> QED
    BY <2>1, <2>2
<1>3. FilesHaveColumns' /\ DroppedIsExported'
  BY <1>0, <1>1 DEF ToolInv, FilesHaveColumns, DroppedIsExported, columns, Exists
<1> QED
  BY <1>1, <1>2, <1>3, StoppedRun DEF ToolInv, RunType, RunHasColumns, CopyInv
-----------------------------------------------------------------------------
(* What happens meanwhile.                                                 *)

\* Rows that arrive since the source was counted are marked as unseen.
LEMMA RowArrives ==
  ASSUME ColdTierInv, NEW q \in Partition, NEW r \in Row, Arrive(q, r)
  PROVE  ToolInv'
<1>0. ToolInv /\ DataType
  BY DEF ColdTierInv, ToolInv
<1>1. PICK f : f = Over([x \in {r} |-> columns], table[q])
  OBVIOUS
<1>2. /\ table' = [table EXCEPT ![q] = f] /\ unseen' = unseen \cup {<<q, r>>}
      /\ UNCHANGED <<schema, object, manifest, run, expired, dropped>>
  BY <1>1 DEF Arrive, migrationVars
<1>3. DOMAIN f = DOMAIN table[q] \cup {r}
  BY <1>1 DEF Over
<1>4. /\ DOMAIN table' = Partition /\ DOMAIN table'[q] = DOMAIN table[q] \cup {r}
      /\ \A p \in Partition : p # q => table'[p] = table[p]
  BY <1>0, <1>2, <1>3 DEF DataType
<1>5. DataType'
  <2>1. IsFiniteSet(DOMAIN table[q] \cup {r})
    BY <1>0, FS_AddElement DEF DataType
  <2>2. \A p \in Partition : IsFiniteSet(DOMAIN table'[p])
    BY <1>0, <1>4, <2>1 DEF DataType
  <2> QED
    BY <1>0, <1>2, <1>4, <2>2 DEF DataType
<1>6. FilesHaveColumns' /\ DroppedIsExported' /\ RunType' /\ RunHasColumns'
  BY <1>0, <1>2 DEF ToolInv, FilesHaveColumns, DroppedIsExported, columns, Exists, RunType,
                    RunHasColumns
<1>7. CopyInv'
  <2>0. PICK p : p = run.p
    OBVIOUS
  <2>1. ASSUME p \in Partition
        PROVE  /\ DOMAIN table[p] \subseteq DOMAIN table'[p]
               /\ \A x \in DOMAIN table'[p] : x \in DOMAIN table[p] \/ <<p, x>> = <<q, r>>
    BY <1>4, <2>1
  <2>2. run.step \in {"verify", "manifest", "recount_object", "recount_source", "drop"} =>
          p \in Partition
    BY <1>0, <2>0 DEF ToolInv, RunType
  <2>3. CountObject(run.p)' = CountObject(run.p)
    BY <1>2 DEF CountObject
  <2>4. CopyInv
    BY <1>0 DEF ToolInv
  <2> QED
    BY <1>2, <2>0, <2>1, <2>2, <2>3, <2>4 DEF CopyInv
<1> QED
  BY <1>5, <1>6, <1>7 DEF ToolInv

LEMMA DayExpires ==
  ASSUME ColdTierInv, NEW q \in Partition, Expire(q)
  PROVE  ToolInv'
<1>0. ToolInv /\ DataType
  BY DEF ColdTierInv, ToolInv
<1>1. /\ table' = [table EXCEPT ![q] = <<>>] /\ expired' = expired \cup {q}
      /\ UNCHANGED <<schema, object, manifest, run, unseen, dropped>>
  BY DEF Expire, migrationVars
<1>2. DataType'
  <2>1. IsFiniteSet(DOMAIN <<>>)
    BY FS_EmptySet
  <2> QED
    BY <1>0, <1>1, <2>1 DEF DataType
<1>3. FilesHaveColumns' /\ DroppedIsExported' /\ RunType' /\ RunHasColumns'
  BY <1>0, <1>1 DEF ToolInv, FilesHaveColumns, DroppedIsExported, columns, Exists, RunType,
                    RunHasColumns
<1>4. CopyInv'
  <2>1. CASE run.p = q
    <3>1. CountObject(run.p)' = CountObject(run.p)
      BY <1>1 DEF CountObject
    <3> QED
      BY <1>0, <1>1, <2>1, <3>1 DEF CopyInv, ToolInv
  <2>2. CASE run.p # q
    <3>1. CountObject(run.p)' = CountObject(run.p) /\ table'[run.p] = table[run.p]
      BY <1>0, <1>1, <2>2 DEF CountObject, DataType
    <3>2. CopyInv
      BY <1>0 DEF ToolInv
    <3> QED
      BY <1>1, <3>1, <3>2 DEF CopyInv
  <2> QED
    BY <2>1, <2>2
<1> QED
  BY <1>2, <1>3, <1>4 DEF ToolInv

LEMMA ObjectLost ==
  ASSUME ColdTierInv, NEW q \in Partition, LoseObject(q)
  PROVE  ToolInv'
<1>0. ToolInv /\ DataType
  BY DEF ColdTierInv, ToolInv
<1>1. /\ object' = [object EXCEPT ![q] = NoObject]
      /\ UNCHANGED <<schema, table, manifest, run, expired, unseen, dropped>>
  BY DEF LoseObject, migrationVars, history
<1>2. /\ DOMAIN object' = Partition /\ object'[q] = NoObject
      /\ \A p : p # q => object'[p] = object[p]
  BY <1>0, <1>1 DEF DataType
<1>3. DataType'
  <2>1. IsFiniteSet(DOMAIN NoObject.rows)
    BY FS_EmptySet DEF NoObject
  <2> QED
    BY <1>0, <1>1, <1>2, <2>1 DEF DataType
<1>4. FilesHaveColumns'
  BY <1>0, <1>1, <1>2 DEF ToolInv, FilesHaveColumns, columns, Exists
<1>5. RunType' /\ DroppedIsExported'
  BY <1>0, <1>1 DEF ToolInv, RunType, DroppedIsExported
<1>6. RunHasColumns' /\ CopyInv'
  <2>1. CountObject(run.p)' = CountObject(run.p) \/ object'[run.p] = NoObject
    BY <1>1, <1>2 DEF CountObject
  <2>2. RunHasColumns /\ CopyInv /\ columns' = columns
    BY <1>0, <1>1 DEF ToolInv, columns, Exists
  <2>3. RunHasColumns'
    BY <1>1, <1>2, <2>2 DEF RunHasColumns
  <2> QED
    BY <1>1, <1>2, <2>1, <2>2, <2>3 DEF CopyInv
<1> QED
  BY <1>3, <1>4, <1>5, <1>6 DEF ToolInv

\* The tool ends half-way, or a restore starts.
LEMMA RunEndsOrRestores ==
  ASSUME ColdTierInv, Fail \/ \E p \in Partition : StartRestore(p)
  PROVE  ToolInv'
<1>0. ToolInv
  BY DEF ColdTierInv
<1>1. UNCHANGED <<schema, table, object, manifest, dropped>>
  BY DEF Fail, StartRestore, migrationVars, history
<1>2. run' \in Run /\ run'.step \in {"stopped", "restore"}
  <2>1. CASE Fail
    BY <2>1, StoppedRun DEF Fail
  <2>2. ASSUME NEW p \in Partition, StartRestore(p) PROVE run' \in Run /\ run'.step = "restore"
    BY <2>2, StoppedRun DEF StartRestore, Run, ToolStep
  <2> QED
    BY <2>1, <2>2
<1>3. DataType' /\ DroppedIsExported' /\ FilesHaveColumns'
  BY <1>0, <1>1 DEF ToolInv, DataType, DroppedIsExported, FilesHaveColumns, columns, Exists
<1> QED
  BY <1>2, <1>3 DEF ToolInv, RunType, RunHasColumns, CopyInv

\* A migration only adds columns.
LEMMA SchemaMigrates ==
  ASSUME ColdTierInv, Migrate \/ UNCHANGED vars
  PROVE  ToolInv'
<1>0. ToolInv
  BY DEF ColdTierInv
<1>1. columns \subseteq columns'
  BY ColumnsGrow DEF ColdTierInv, TypeOK, ToolInv, Migrate, vars
<1>2. UNCHANGED <<table, object, manifest, run, unseen, expired, dropped>>
  BY DEF Migrate, vars, history
<1>3. RunType' /\ DataType' /\ DroppedIsExported'
  BY <1>0, <1>2 DEF ToolInv, RunType, DataType, DroppedIsExported
<1>4. FilesHaveColumns' /\ RunHasColumns'
  BY <1>0, <1>1, <1>2 DEF ToolInv, FilesHaveColumns, RunHasColumns
<1>5. CopyInv'
  BY <1>0, <1>2 DEF ToolInv, CopyInv, CountObject
<1> QED
  BY <1>3, <1>4, <1>5 DEF ToolInv

-----------------------------------------------------------------------------
(* The theorems.                                                           *)

LEMMA ColdTierInit == Init => ColdTierInv
<1> SUFFICES ASSUME Init PROVE ColdTierInv
  OBVIOUS
<1>1. MigrationType /\ MigrateInv
  <2>1. NotStarted \in Job /\ NotStarted.step = "not_started"
    BY JobParts DEF NotStarted
  <2>2. FirstRelease \in 1 .. Len(Script)
    BY MigrationsAssumption
  <2> QED
    BY <2>1, <2>2 DEF Init, MigrationsInit, MigrationType, MigrateInv
<1>2. ~Exists /\ columns = {}
  BY DEF Init, MigrationsInit, Exists, columns
<1>3. IsFiniteSet(DOMAIN <<>>)
  BY FS_EmptySet
<1>4. DataType /\ FilesHaveColumns
  BY <1>3 DEF Init, DataType, FilesHaveColumns, NoObject, NoManifest
<1>5. RunType /\ RunHasColumns /\ CopyInv /\ DroppedIsExported
  BY StoppedRun DEF Init, RunType, RunHasColumns, CopyInv, DroppedIsExported
<1> QED
  BY <1>1, <1>2, <1>4, <1>5 DEF ColdTierInv, ToolInv, SchemaInv

LEMMA ColdTierNext == ColdTierInv /\ [Next]_vars => ColdTierInv'
<1> SUFFICES ASSUME ColdTierInv, [Next]_vars PROVE ColdTierInv'
  OBVIOUS
<1>1. TypeOK /\ MigrateInv /\ SchemaInv
  BY DEF ColdTierInv, TypeOK, ToolInv
<1>2. Migrations \/ UNCHANGED migrationVars
  BY DEF Next, Tool, Export, Drop, Restore, Start, StartRestore, NextPartition, ReadColumns,
         CountSource, WriteObject, Verify, WriteManifest, RecountObject, RecountSource,
         DropPartition, ReadForRestore, ReadBack, Arrive, Expire, Fail, LoseObject, Migrate,
         Check, vars
<1>3. MigrationType' /\ MigrateInv' /\ SchemaInv'
  BY <1>1, <1>2, NextMigrate, ColumnsGrow
<1>4. ToolInv'
  BY ToolReads, ExportWrites, SourceRecounted, PartitionDropped, RowsReadBack, RowArrives,
     DayExpires, ObjectLost, RunEndsOrRestores, SchemaMigrates
     DEF Next, Tool, Export, Drop, Restore
<1> QED
  BY <1>3, <1>4 DEF ColdTierInv

\* Everything that the theorems below rest on.
THEOREM ColdTierInvariant == Spec => []ColdTierInv
BY ColdTierInit, ColdTierNext, PTL DEF Spec

\* However many assemblers and commands migrate at once, of whichever releases,
\* and wherever they die: a version that Migrate (storage/migrate.go) has put in
\* schema_migrations is in the schema, and so is every version that a process
\* ships once its Migrate has returned.  It takes AlteredInOneVersion: Migrate
\* holds no lock, and a slow process executes old statements again.
THEOREM MigrationsAreDone == Spec => []RecordedIsDone
<1>1. ColdTierInv => RecordedIsDone
  BY DEF ColdTierInv, MigrateInv, RecordedIsDone
<1> QED
  BY <1>1, ColdTierInvariant, PTL

\* Drop (storage/coldtier.go) deletes no row that is not in the exported object,
\* but for those that arrive after its own count of the source: the counts are
\* enough although nothing compares the rows themselves.
THEOREM NothingDroppedUnexported == Spec => []DroppedIsExported
<1>1. ColdTierInv => DroppedIsExported
  BY DEF ColdTierInv, ToolInv
<1> QED
  BY <1>1, ColdTierInvariant, PTL

\* Restore (storage/coldtier.go) finds in the object each column that it takes
\* from the manifest, whichever statement the last Export ended at: the object is
\* overwritten before its manifest, and columns are only added.
THEOREM ManifestsCanBeRead == Spec => []RestoreReads
<1>1. ColdTierInv => RestoreReads
  BY DEF ColdTierInv, ToolInv, FilesHaveColumns, RestoreReads
<1> QED
  BY <1>1, ColdTierInvariant, PTL
=============================================================================
