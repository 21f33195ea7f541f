------------------------------ MODULE ReadPath ------------------------------
(***************************************************************************)
(* The two tables that users read and both their ends: the assembler joins *)
(* the spans of a decided trace into calls between services                *)
(* (serviceEdgeRows, cmd/assembler/main.go) that the service_edges rollup  *)
(* sums up, spans are stored one flush after the other, and the query      *)
(* service answers DSL queries and requests for the service map            *)
(* (internal/query, cmd/query/main.go).                                    *)
(***************************************************************************)
EXTENDS TraceTree, Physical, ServiceGraph

CONSTANTS
  Traces,          \* span sequences that may be decided with calls yet unknown
  Links,           \* span sequences that may be decided at any time
  Weight,          \* sampling weight of a decided trace
  Rows,            \* rows that may be stored
  Queries,
  MaxRowsScanned,  \* the guard
  MaxRollup        \* bound on the calls between two services

ASSUME ReadPathAssumption ==
  {Weight, MaxRowsScanned, MaxRollup} \subseteq Nat \ {0}

VARIABLES
  trace,     \* the trace decided last
  rollup,    \* service_edges: call weights by <<caller, callee>>
  rows,      \* the spans table
  request    \* what the query service is doing

vars == <<trace, rollup, rows, request>>

Waiting == [stage |-> "waiting"]

Init ==
  /\ trace = <<>>
  /\ rollup = <<>>
  /\ rows = {}
  /\ request = Waiting

-----------------------------------------------------------------------------
(* Writers.                                                                *)

Between(edges, pair) ==
  SelectSeq(edges, LAMBDA e : <<e.caller, e.callee>> = pair)

CallWeight(edges, pair) ==
  FoldLeft(LAMBDA sum, e : sum + e.weight, 0, Between(edges, pair))

Calls(r, pair) == IF pair \in DOMAIN r THEN r[pair] ELSE 0

\* The materialized view adds the rows of every insert block.
AddCalls(r, edges) ==
  [pair \in DOMAIN r \cup {<<e.caller, e.callee>> : e \in ToSet(edges)} |->
     Calls(r, pair) + CallWeight(edges, pair)]

Decide ==
  /\ request = Waiting /\ rows = {}
  /\ \E t \in (IF trace = <<>> THEN Traces ELSE {}) \cup Links :
       LET edges == ExtractServiceEdges(t, Weight) IN
       /\ \A e \in ToSet(edges) :
            Calls(rollup, <<e.caller, e.callee>>) < MaxRollup
       /\ trace' = t
       /\ rollup' = AddCalls(rollup, edges)
  /\ UNCHANGED <<rows, request>>

Store(r) ==
  /\ rollup = <<>> /\ trace = <<>>
  /\ request.stage \in {"waiting", "planned"}
  /\ rows' = rows \cup {r}
  /\ UNCHANGED <<trace, rollup, request>>

-----------------------------------------------------------------------------
(* executeSelect.                                                          *)

\* Parsed, planned, optimised and compiled.
Plan(query) ==
  /\ request = Waiting /\ rollup = <<>> /\ trace = <<>>
  /\ request' = [stage |-> "planned", query |-> query]
  /\ UNCHANGED <<trace, rollup, rows>>

Reply(reply) ==
  /\ request' = reply
  /\ UNCHANGED <<trace, rollup, rows>>

Failed == [stage |-> "failed"]

Optimized(query) == Optimize(Build(query))

\* EstimateRows counts whole granules: at least the rows that match, at most
\* all.  An estimate that fails lets the query pass.
Estimate ==
  /\ request.stage = "planned"
  /\ \/ Reply([request EXCEPT !.stage = "estimated"])
     \/ /\ WellTyped(Optimized(request.query))
        /\ \E rowsEst \in Cardinality(Where(rows, Optimized(request.query)[1].predicate))
                           ..Cardinality(rows) :
             IF rowsEst > MaxRowsScanned THEN Reply(Failed)
             ELSE Reply([request EXCEPT !.stage = "estimated"])

\* The statement runs; the deadline is opts.Timeout.
Execute ==
  /\ request.stage = "estimated"
  /\ \/ Reply(Failed)
     \/ \E r \in Answers(Optimized(request.query), rows) :
          Reply([stage |-> "answered", query |-> request.query, result |-> r])

\* handleServiceGraph
Map ==
  /\ request = Waiting /\ rows = {}
  /\ Reply([stage |-> "mapped", graph |-> BuildServiceGraph(rollup)])

Done ==
  /\ request.stage \in {"failed", "answered", "mapped"}
  /\ Reply(Waiting)

Next ==
  \/ Decide
  \/ \E r \in Rows : Store(r)
  \/ \E q \in Queries : Plan(q)
  \/ Estimate \/ Execute \/ Map \/ Done

Spec == Init /\ [][Next]_vars

-----------------------------------------------------------------------------
(* Queries.                                                                *)

\* The rows that a query selects, by what its text says.
Selected(query) ==
  {r \in rows : /\ query.range.start <= r.timestamp /\ r.timestamp < query.range.end
                /\ \A t \in ToSet(Predicate(query)) : Holds(r, t)}

\* The results that a query may have.
Meaning(query) ==
  FoldLeft(Wrap, {Result(Selected(query), <<>>)},
           LastStage(query, "Aggregate") \o LastStage(query, "Sort")
             \o LastStage(query, "Limit"))

\* Attributes in aggregations and in sort fields do not bind in order, terms
\* of a wrong type are refused.
Answerable(query) ==
  BindsInOrder(Build(query)) /\ WellTyped(Build(query)) /\ SortResolves(Build(query))

\* The passes that the ablation benchmark may turn off without another result:
\* pruning is what applies the time range, and a limit is pushed through a
\* Filter that pushdown left in place.
Optional == {"constant_fold", "limit_pushdown", "projection_pushdown"}

\* The optimised statement of a query that ClickHouse accepts as it stands runs,
\* and returns rows that the query asks for, with any of the optional passes off:
\* folding, pushing the predicate, the limit or the columns down changes nothing
\* (optimizer.go, physical.go).
AnswersMeanTheQuery ==
  request.stage \in {"planned", "estimated"} /\ Answerable(request.query) =>
    \A skip \in SUBSET Optional :
      LET answers == Answers(OptimizeExcept(Build(request.query), skip), rows) IN
      answers # {} /\ answers \subseteq Meaning(request.query)

-----------------------------------------------------------------------------
(* Calls.                                                                  *)

Distinct(t) == \A i, j \in 1..Len(t) : t[i].id = t[j].id => i = j

\* The call of a span: its parent, when the trace has it.
ParentOf(t, i) == {j \in 1..Len(t) : t[i].parent # 0 /\ t[j].id = t[i].parent}

\* The spans of S and those that descend from them: at each step those with a
\* parent there.
Below(t, S) ==
  LET grow(T, k) == T \cup {i \in 1..Len(t) : ParentOf(t, i) \cap T # {}}
  IN  FoldLeft(grow, S, Positions(t))

BelowRoots(t) == Below(t, {i \in 1..Len(t) : t[i].parent = 0})

\* No span is above itself: each descends from a root or from an orphan.
Acyclic(t) ==
  Below(t, {i \in 1..Len(t) : ParentOf(t, i) = {}}) = 1..Len(t)

\* The cross-service links of a trace: the spans whose parent is in the trace and
\* ran in another service.
CrossLinks(t, pair) ==
  {i \in 1..Len(t) :
     /\ pair[1] # pair[2]
     /\ \E j \in ParentOf(t, i) : <<t[j].service, t[i].service>> = pair}

Pairs(t) == {<<t[j].service, t[i].service>> : i, j \in 1..Len(t)}

Added(pair) == Calls(rollup', pair) - Calls(rollup, pair)

\* A decided trace adds its weight for every cross-service link below a root, at
\* whatever depth and across internal calls, and, if its spans are distinct,
\* never more than for every link it has: a trace whose spans all descend from
\* roots is counted exactly, redelivered copies of spans only add
\* (servicegraph.go, ExtractServiceEdges).
RollupCountsCalls ==
  [][trace' # trace =>
       \A pair \in DOMAIN rollup' \cup Pairs(trace') :
         LET links == CrossLinks(trace', pair) IN
         /\ Added(pair) >= Weight * Cardinality(links \cap BelowRoots(trace'))
         /\ Distinct(trace') => Added(pair) <= Weight * Cardinality(links)]_vars

\* ExtractServiceEdges "walks tree's parent-child links and emits one edge per
\* CROSS-service call" (servicegraph.go:23-24): every link whose caller is in the
\* trace counts, also below a span whose own parent never arrived.
EveryLinkCounted ==
  [][trace' # trace /\ Distinct(trace') /\ Acyclic(trace') =>
       \A pair \in Pairs(trace') :
         Added(pair) = Weight * Cardinality(CrossLinks(trace', pair))]_vars

\* The chain from every root gets to a span without children, over no span
\* twice, and none is longer than the critical path: the loop of criticalChain
\* ends whatever parents the spans name, themselves or each other included, as
\* long as spans with one id are copies of one span (tree.go, BuildTree).
WalksEnd ==
  \A root \in ToSet(Roots(trace)) :
    LET chain == CriticalChain(trace, root) IN
    /\ Children(trace, Last(chain)) = <<>>
    /\ \A i, j \in 1..Len(chain) : chain[i] = chain[j] => i = j
    /\ ChainNS(trace, chain) <= ChainNS(trace, CriticalPath(trace))

-----------------------------------------------------------------------------
(* The service map.                                                        *)

\* Services reachable over one or more calls between services of S; the calls
\* of both directions when undirected.
ReachFrom(s, S, undirected) ==
  LET next(T) == UNION {(IF undirected THEN Neighbours(rollup, u) ELSE Callees(rollup, u))
                        \cap S : u \in T}
      grow(T, k) == T \cup next(T)
  IN  FoldLeft(grow, next({s}), [k \in 1..Cardinality(S) |-> k])

IsCycle(c) ==
  \A i \in 1..Len(c) : <<c[i], c[(i % Len(c)) + 1]>> \in DOMAIN rollup

\* The map reports only cycles, and for every service that calls itself over
\* others, a cycle among the services that it reaches and that reach it
\* (servicegraph.go, findCycles: at least one for every cyclic structure).
CyclesAreReported ==
  request.stage = "mapped" =>
    /\ \A c \in ToSet(request.graph.cycles) : IsCycle(c)
    /\ \A s \in Services(rollup) :
         LET reach(u) == ReachFrom(u, Services(rollup), FALSE) IN
         s \in reach(s) =>
           \E c \in ToSet(request.graph.cycles) :
             ToSet(c) \subseteq {u \in reach(s) : s \in reach(u)}

\* The map marks exactly the services whose removal separates two others that
\* are connected with them (servicegraph.go, articulationPoints).
CutVerticesDisconnect ==
  request.stage = "mapped" =>
    request.graph.cutVertices =
      {s \in Services(rollup) :
         \E a, b \in ReachFrom(s, Services(rollup), TRUE) \ {s} :
           a # b /\ b \notin ReachFrom(a, Services(rollup) \ {s}, TRUE)}

=============================================================================
