----------------------------- MODULE QueryPlan -----------------------------
(***************************************************************************)
(* From a parsed query to a ClickHouse statement: the logical plan         *)
(* (internal/query/plan.go), the optimiser's passes (optimizer.go) and     *)
(* what the compiled statement returns (physical.go).                      *)
(*                                                                         *)
(* A term compares a field with a literal: a value, a number that stands   *)
(* for the literal's text, and its type, "string" or "number".  Every node *)
(* of a plan has at most one input, so a plan is the sequence of its nodes *)
(* from the Scan up, and an AND chain is the sequence of its terms.  The   *)
(* value 0 of an attribute is the empty string of a row that lacks it.     *)
(***************************************************************************)
EXTENDS Integers, FiniteSetsExt, SequencesExt

CONSTANT KnownColumns   \* every other field is looked up in the attributes

NumericColumns == {"duration", "timestamp", "sampling_weight"}

AttributeMaps == {"span_attributes", "resource_attributes"}

\* The columns that a field is read from.
ColumnsOf(field) == IF field \in KnownColumns THEN {field} ELSE AttributeMaps

Literal(field, op, type, value) ==
  [field |-> field, op |-> op, type |-> type, value |-> value]

\* Literal{false}
Never == Literal("", "false", "bool", 0)

-----------------------------------------------------------------------------
(* Build: Scan, Filter, Project, then the last Aggregate, Sort and Limit   *)
(* stage of the query, in this order whatever their order in the query.    *)

Scan(range) ==
  [node |-> "Scan", range |-> range, predicate |-> <<>>, columns |-> {}, limit |-> 0]

Stages(query, kind) == SelectSeq(query.stages, LAMBDA s : s.node = kind)

LastStage(query, kind) ==
  LET found == Stages(query, kind) IN
  IF found = <<>> THEN <<>> ELSE <<Last(found)>>

Predicate(query) ==
  query.selector \o [i \in 1..Len(Stages(query, "Numeric")) |->
                       Stages(query, "Numeric")[i].term]

Build(query) ==
  << Scan(query.range),
     [node |-> "Filter", predicate |-> Predicate(query)],
     [node |-> "Project", columns |-> {}] >>
  \o LastStage(query, "Aggregate") \o LastStage(query, "Sort")
  \o LastStage(query, "Limit")

-----------------------------------------------------------------------------
(* Pass 1: ConstantFold.                                                   *)

\* Terms of a field with one of the operators, by position.
TermsOn(terms, field, ops) ==
  {i \in 1..Len(terms) : terms[i].field = field /\ terms[i].op \in ops}

ValuesOn(terms, field, ops) == {terms[i].value : i \in TermsOn(terms, field, ops)}

\* One term for each value asserted; the last literal with that text stays.
Kept(terms, field, ops, op) ==
  { LET i == Max({j \in TermsOn(terms, field, ops) : terms[j].value = v})
    IN  Literal(field, op, terms[i].type, v) : v \in ValuesOn(terms, field, ops) }

\* The tightest lower (upper) bound: an exclusive one wins over its equal.
Lower(terms, field) ==
  LET B == {terms[i] : i \in TermsOn(terms, field, {">", ">="})} IN
  {t \in B : \A u \in B : t.value > u.value
                          \/ (t.value = u.value /\ (t.op = ">" \/ u.op = ">="))}

Upper(terms, field) ==
  LET B == {terms[i] : i \in TermsOn(terms, field, {"<", "<="})} IN
  {t \in B : \A u \in B : t.value < u.value
                          \/ (t.value = u.value /\ (t.op = "<" \/ u.op = "<="))}

Impossible(lower, upper) ==
  \/ lower.value > upper.value
  \/ lower.value = upper.value /\ (lower.op = ">" \/ upper.op = "<")

Equal == {"=", "=="}

Contradiction(terms, field) ==
  \/ Cardinality(ValuesOn(terms, field, Equal)) > 1
  \/ ValuesOn(terms, field, Equal) \cap ValuesOn(terms, field, {"!="}) # {}
  \/ \E l \in Lower(terms, field), u \in Upper(terms, field) : Impossible(l, u)

FieldTerms(terms, field) ==
  LET eq == Kept(terms, field, Equal, "=") IN
  eq \cup (IF eq = {} THEN Kept(terms, field, {"!="}, "!=") ELSE {})
     \cup Lower(terms, field) \cup Upper(terms, field)

PassThrough(terms) ==
  {terms[i] : i \in {j \in 1..Len(terms) : terms[j].op \in {"=~", "!~", "false"}}}

\* The result is sorted; SetToSeq is one fixed order.
SimplifyAnd(terms) ==
  LET fields == {terms[i].field : i \in {j \in 1..Len(terms) : terms[j] # Never}} IN
  IF \E f \in fields : Contradiction(terms, f)
  THEN <<Never>>
  ELSE SetToSeq(UNION {FieldTerms(terms, f) : f \in fields} \cup PassThrough(terms))

ConstantFold(plan) ==
  [i \in 1..Len(plan) |->
     IF plan[i].node = "Filter"
     THEN [plan[i] EXCEPT !.predicate = SimplifyAnd(@)] ELSE plan[i]]

-----------------------------------------------------------------------------
(* Passes 2 to 5.                                                          *)

\* A Filter directly above the Scan gives its predicate to it.
PredicatePushdown(plan) ==
  IF plan[2].node = "Filter"
  THEN [plan EXCEPT ![1].predicate = @ \o plan[2].predicate, ![2].predicate = <<>>]
  ELSE plan

RangeTerms(range) ==
  << Literal("timestamp", ">=", "number", range.start),
     Literal("timestamp", "<", "number", range.end) >>

PartitionPruning(plan) ==
  LET missing == SelectSeq(RangeTerms(plan[1].range),
                           LAMBDA t : ~Contains(plan[1].predicate, t))
  IN  [plan EXCEPT ![1].predicate = @ \o missing]

\* tryPushLimit goes through a Sort as well.
LimitPushdownThroughSort(plan) ==
  IF /\ Last(plan).node = "Limit"
     /\ \A i \in 2..(Len(plan) - 1) : plan[i].node \in {"Filter", "Project", "Sort"}
  THEN [plan EXCEPT ![1].limit = Last(plan).n]
  ELSE plan

\* tryPushLimit gives up at an Aggregate or a Sort.
LimitPushdown(plan) ==
  IF /\ Last(plan).node = "Limit"
     /\ \A i \in 2..(Len(plan) - 1) : plan[i].node \in {"Filter", "Project"}
  THEN [plan EXCEPT ![1].limit = Last(plan).n]
  ELSE plan

FieldsOf(terms) == {terms[i].field : i \in {j \in 1..Len(terms) : terms[j] # Never}}

\* The fields a node names; a Sort above an Aggregate names its output.
FieldsNamed(n) ==
  CASE n.node \in {"Scan", "Filter"} -> FieldsOf(n.predicate)
    [] n.node = "Aggregate" ->
         ToSet(n.by) \cup {e.field : e \in {x \in ToSet(n.exprs) : x.func # "count"}}
    [] n.node = "Sort" -> {f.field : f \in ToSet(n.fields)}
    [] OTHER -> {}

NeededColumns(plan) ==
  {"timestamp", "sampling_weight"}
  \cup UNION {UNION {ColumnsOf(f) : f \in FieldsNamed(plan[i])} : i \in 1..Len(plan)}

Has(plan, kind) == \E i \in 1..Len(plan) : plan[i].node = kind

ProjectionPushdown(plan) ==
  IF ~Has(plan, "Aggregate") THEN plan
  ELSE [i \in 1..Len(plan) |->
          IF plan[i].node \in {"Scan", "Project"}
          THEN [plan[i] EXCEPT !.columns = NeededColumns(plan)] ELSE plan[i]]

Passes == << "constant_fold", "predicate_pushdown", "partition_pruning",
             "limit_pushdown", "projection_pushdown" >>

Pass(name, plan) ==
  CASE name = "constant_fold" -> ConstantFold(plan)
    [] name = "predicate_pushdown" -> PredicatePushdown(plan)
    [] name = "partition_pruning" -> PartitionPruning(plan)
    [] name = "limit_pushdown" -> LimitPushdown(plan)
    [] name = "projection_pushdown" -> ProjectionPushdown(plan)

OptimizeExcept(plan, skip) ==
  FoldLeft(LAMBDA p, name : IF name \in skip THEN p ELSE Pass(name, p), plan, Passes)

Optimize(plan) == OptimizeExcept(plan, {})

=============================================================================
