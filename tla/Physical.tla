------------------------------ MODULE Physical ------------------------------
(***************************************************************************)
(* The statement that physical.go compiles a plan to, and what ClickHouse  *)
(* answers to it.  Each node wraps its input in a subquery, so a statement *)
(* is again read off the plan from the Scan up.                            *)
(*                                                                         *)
(* A row is a record of its columns and attributes.  A result is a set of  *)
(* items (rows or groups) and the fields they are ordered by; a statement  *)
(* with a LIMIT has several possible results, and one that fails has none. *)
(***************************************************************************)
EXTENDS QueryPlan

-----------------------------------------------------------------------------
(* Bound arguments: the placeholders of the statement in the order of its  *)
(* text, and the arguments in the order of the bind calls.                 *)

LiteralHole(v) == [key |-> "", value |-> v]

\* attrSQL looks one key up in two maps.
FieldHoles(field) ==
  IF field \in KnownColumns THEN <<>>
  ELSE << [key |-> field, value |-> 0], [key |-> field, value |-> 0] >>

Flat(S(_), seq) == FlattenSeq([i \in 1..Len(seq) |-> S(seq[i])])

PredicateHoles(terms) ==
  Flat(LAMBDA t : IF t = Never THEN <<>> ELSE FieldHoles(t.field) \o <<LiteralHole(t.value)>>,
       terms)

\* The group-by text stands in the select list and again behind the subquery,
\* its arguments are bound once and behind those of the subquery.
Statement(plan) ==
  LET compile(s, n) ==
        CASE n.node = "Scan" ->
               LET own == PredicateHoles(n.predicate) \o
                          (IF n.limit > 0 THEN <<LiteralHole(n.limit)>> ELSE <<>>)
               IN  [holes |-> own, args |-> own]
          [] n.node = "Filter" ->
               LET own == PredicateHoles(n.predicate)
               IN  [holes |-> s.holes \o own, args |-> s.args \o own]
          [] n.node = "Aggregate" ->
               LET by == Flat(FieldHoles, n.by)
                   of == Flat(LAMBDA e : IF e.func = "count" THEN <<>>
                                         ELSE FieldHoles(e.field), n.exprs)
               IN  [holes |-> by \o of \o s.holes \o by, args |-> s.args \o by \o of]
          [] n.node = "Sort" ->
               LET by == IF Has(plan, "Aggregate") THEN <<>>
                         ELSE Flat(LAMBDA f : FieldHoles(f.field), n.fields)
               IN  [s EXCEPT !.holes = @ \o by]
          [] n.node = "Limit" ->
               [holes |-> Append(s.holes, LiteralHole(n.n)),
                args |-> Append(s.args, LiteralHole(n.n))]
          [] OTHER -> s
  IN  FoldLeft(compile, [holes |-> <<>>, args |-> <<>>], plan)

BindsInOrder(plan) == Statement(plan).holes = Statement(plan).args

-----------------------------------------------------------------------------
(* Why a statement is refused, here or by ClickHouse.                      *)

Ordering == {">", ">=", "<", "<="}

\* Text does not compare with a number, and only text matches a pattern.
IllTyped(t) ==
  /\ t # Never
  /\ \/ t.op \in {"=~", "!~"} /\ t.field \in NumericColumns
     \/ t.op \in Equal \cup {"!="} /\ t.type = "number" /\ t.field \notin NumericColumns
     \/ t.op \in Ordering /\ t.field \in KnownColumns \ NumericColumns

WellTyped(plan) ==
  \A i \in 1..Len(plan) : plan[i].node \in {"Scan", "Filter"} =>
    \A t \in ToSet(plan[i].predicate) : ~IllTyped(t)

\* sortFieldSQL: above an Aggregate only its aliases and group-by fields.
SortResolves(plan) ==
  \A i, j \in 1..Len(plan) :
    (plan[i].node = "Aggregate" /\ plan[j].node = "Sort") =>
      \A f \in ToSet(plan[j].fields) :
        f.field \in ToSet(plan[i].by) \cup {e.alias : e \in ToSet(plan[i].exprs)}

\* Every column named above the Scan is one that the Scan selects.
ColumnsReach(plan) ==
  plan[1].columns # {} =>
    \A i \in 2..Len(plan) :
      plan[i].node \in {"Filter", "Aggregate"} =>
        UNION {ColumnsOf(f) : f \in FieldsNamed(plan[i])} \subseteq plan[1].columns

Runs(plan) ==
  BindsInOrder(plan) /\ WellTyped(plan) /\ SortResolves(plan) /\ ColumnsReach(plan)

-----------------------------------------------------------------------------
(* What a statement that runs returns.                                     *)

\* A pattern matches its own text and what follows it.
Matches(x, v) == x >= v

\* A missing attribute is an empty string, and NULL as a number.
Holds(row, t) ==
  LET x == IF t = Never THEN 0 ELSE row[t.field]
      number == t.field \in KnownColumns \/ x # 0
  IN  CASE t.op = "false" -> FALSE
        [] t.op \in Equal -> x = t.value
        [] t.op = "!=" -> x # t.value
        [] t.op = "=~" -> Matches(x, t.value)
        [] t.op = "!~" -> ~Matches(x, t.value)
        [] t.op = ">" -> number /\ x > t.value
        [] t.op = ">=" -> number /\ x >= t.value
        [] t.op = "<" -> number /\ x < t.value
        [] t.op = "<=" -> number /\ x <= t.value

Where(rows, terms) == {r \in rows : \A t \in ToSet(terms) : Holds(r, t)}

Total(f(_), G) == MapThenSumSet(f, G)

\* aggExprSQL: every estimate counts a row with its sampling weight.
AggregateOf(e, G) ==
  LET weight(r) == r.sampling_weight
      weighed(r) == r[e.field] * r.sampling_weight
  IN  CASE e.func = "count" -> Total(weight, G)
        [] e.func = "sum" -> Total(weighed, G)
        [] e.func = "avg" -> <<Total(weighed, G), Total(weight, G)>>
        [] e.func = "min" -> IF G = {} THEN 0 ELSE Min({r[e.field] : r \in G})
        [] e.func = "max" -> IF G = {} THEN 0 ELSE Max({r[e.field] : r \in G})

\* Without GROUP BY there is one group, even of no row.
Groups(rows, n) ==
  LET key(r) == [f \in ToSet(n.by) |-> r[f]]
      keys == IF n.by = <<>> THEN {<<>>} ELSE {key(r) : r \in rows}
      members(k) == IF n.by = <<>> THEN rows ELSE {r \in rows : key(r) = k}
      value(e, k) == AggregateOf(e, members(k))
  IN  { [name \in ToSet(n.by) \cup {e.alias : e \in ToSet(n.exprs)} |->
           IF name \in ToSet(n.by) THEN k[name]
           ELSE value(CHOOSE e \in ToSet(n.exprs) : e.alias = name, k)] : k \in keys }

\* y comes before x.
Before(y, x, fields) ==
  \E i \in 1..Len(fields) :
    /\ \A j \in 1..(i - 1) : y[fields[j].field] = x[fields[j].field]
    /\ IF fields[i].desc THEN y[fields[i].field] > x[fields[i].field]
                         ELSE y[fields[i].field] < x[fields[i].field]

\* The possible first n items.
FirstOf(items, fields, n) ==
  {S \in kSubset(Min({n, Cardinality(items)}), items) :
     \A x \in S, y \in items \ S : ~Before(y, x, fields)}

Result(items, fields) == [items |-> items, order |-> fields]

Wrap(results, n) ==
  CASE n.node = "Filter" -> {Result(Where(r.items, n.predicate), r.order) : r \in results}
    [] n.node = "Aggregate" -> {Result(Groups(r.items, n), <<>>) : r \in results}
    [] n.node = "Sort" -> {Result(r.items, n.fields) : r \in results}
    [] n.node = "Limit" ->
         UNION {{Result(S, r.order) : S \in FirstOf(r.items, r.order, n.n)} : r \in results}
    [] OTHER -> results

FromScan(scan, table) ==
  LET matching == Where(table, scan.predicate) IN
  IF scan.limit = 0 THEN {Result(matching, <<>>)}
  ELSE {Result(S, <<>>) : S \in FirstOf(matching, <<>>, scan.limit)}

Answers(plan, table) ==
  IF Runs(plan) THEN FoldLeft(Wrap, FromScan(plan[1], table), Tail(plan)) ELSE {}

=============================================================================
