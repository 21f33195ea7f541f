---------------------------- MODULE ServiceGraph ----------------------------
(***************************************************************************)
(* What the service map computes from the rollup of calls                  *)
(* (internal/query/servicegraph.go): cycles by a depth-first search over   *)
(* the directed calls, cut vertices by low links over the undirected ones, *)
(* and the share of all calls that goes into each service.                 *)
(*                                                                         *)
(* A rollup is a function from pairs <<caller, callee>> to call weights.   *)
(* Services are numbers, in the order of their names.                      *)
(***************************************************************************)
EXTENDS Integers, TLC, FiniteSetsExt, SequencesExt

Services(rollup) == UNION {{e[1], e[2]} : e \in DOMAIN rollup}

Ascending(S) == SetToSortSeq(S, <)

Callees(rollup, u) == {e[2] : e \in {x \in DOMAIN rollup : x[1] = u}}

Neighbours(rollup, u) ==
  Callees(rollup, u) \cup {e[1] : e \in {x \in DOMAIN rollup : x[2] = u}}

-----------------------------------------------------------------------------
(* findCycles.  The gray nodes are those on the path.                      *)

RECURSIVE VisitCycles(_, _, _)

\* The whole path is reported, not its part from the neighbour on.
FollowWholePath(rollup, s, v) ==
  IF Contains(s.path, v) THEN [s EXCEPT !.cycles = Append(@, s.path)]
  ELSE IF v \in s.black THEN s
  ELSE VisitCycles(rollup, s, v)

\* A neighbour on the path closes a cycle, a white one is visited.
Follow(rollup, s, v) ==
  IF Contains(s.path, v)
  THEN [s EXCEPT !.cycles = Append(@, SubSeq(s.path,
          CHOOSE i \in 1..Len(s.path) : s.path[i] = v, Len(s.path)))]
  ELSE IF v \in s.black THEN s
  ELSE VisitCycles(rollup, s, v)

VisitCycles(rollup, s, u) ==
  LET inside == FoldLeft(LAMBDA acc, v : Follow(rollup, acc, v),
                         [s EXCEPT !.path = Append(@, u)],
                         Ascending(Callees(rollup, u)))
  IN  [inside EXCEPT !.path = Front(@), !.black = @ \cup {u}]

FindCycles(rollup) ==
  FoldLeft(LAMBDA s, n : IF n \in s.black THEN s ELSE VisitCycles(rollup, s, n),
           [path |-> <<>>, black |-> {}, cycles |-> <<>>],
           Ascending(Services(rollup))).cycles

-----------------------------------------------------------------------------
(* articulationPoints.  disc and low grow with the visited nodes; the      *)
(* parent of a root is 0.                                                  *)

RECURSIVE VisitCuts(_, _, _, _)

\* A child that reaches u itself and no further counts as a way around u.
BackFromStrict(s, u, v, isRoot) ==
  [s EXCEPT !.low[u] = IF s.low[v] < @ THEN s.low[v] ELSE @,
            !.cut = @ \cup IF \/ isRoot /\ s.children > 1
                              \/ ~isRoot /\ s.low[v] > s.disc[u]
                           THEN {u} ELSE {}]

\* After the return from the tree child v of u.
BackFrom(s, u, v, isRoot) ==
  [s EXCEPT !.low[u] = IF s.low[v] < @ THEN s.low[v] ELSE @,
            !.cut = @ \cup IF \/ isRoot /\ s.children > 1
                              \/ ~isRoot /\ s.low[v] >= s.disc[u]
                           THEN {u} ELSE {}]

Explore(rollup, s, u, parent, v) ==
  IF v = parent THEN s
  ELSE IF v \notin DOMAIN s.disc
  THEN LET below == VisitCuts(rollup, [s EXCEPT !.children = 0], v, u)
       IN  BackFrom([below EXCEPT !.children = s.children + 1], u, v, parent = 0)
  ELSE IF s.disc[v] < s.low[u] THEN [s EXCEPT !.low[u] = s.disc[v]]
  ELSE s

VisitCuts(rollup, s, u, parent) ==
  LET timer == Cardinality(DOMAIN s.disc)
      entered == [s EXCEPT !.disc = @ @@ (u :> timer), !.low = @ @@ (u :> timer)]
  IN  FoldLeft(LAMBDA acc, v : Explore(rollup, acc, u, parent, v),
               entered, Ascending(Neighbours(rollup, u)))

ArticulationPoints(rollup) ==
  LET start == [disc |-> <<>>, low |-> <<>>, children |-> 0, cut |-> {}]
      from(s, n) == IF n \in DOMAIN s.disc THEN s
                    ELSE VisitCuts(rollup, [s EXCEPT !.children = 0], n, 0)
  IN  FoldLeft(from, start, Ascending(Services(rollup))).cut

-----------------------------------------------------------------------------
\* BuildServiceGraph.  A share is a pair of calls into the service and calls
\* altogether.
BuildServiceGraph(rollup) ==
  LET into(s) == MapThenSumSet(LAMBDA e : IF e[2] = s THEN rollup[e] ELSE 0,
                               DOMAIN rollup)
      total == MapThenSumSet(LAMBDA e : rollup[e], DOMAIN rollup)
  IN  [nodes |-> Services(rollup),
       cycles |-> FindCycles(rollup),
       criticality |-> [s \in {e[2] : e \in DOMAIN rollup} |-> <<into(s), total>>],
       cutVertices |-> ArticulationPoints(rollup)]

=============================================================================
