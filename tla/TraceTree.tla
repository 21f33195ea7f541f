----------------------------- MODULE TraceTree -----------------------------
(***************************************************************************)
(* The span tree of a decided trace and the calls between services read    *)
(* off it (internal/sampling/tree.go, servicegraph.go).                    *)
(*                                                                         *)
(* A trace is the sequence of spans that were buffered for it, in arrival  *)
(* order: records of id, parent, service, start, duration and error.  The  *)
(* all-zero id is 0.  A node is the position of its span; delivery may     *)
(* have put the same span there twice.                                     *)
(***************************************************************************)
EXTENDS Integers, SequencesExt

Positions(spans) == [i \in 1..Len(spans) |-> i]

Spans(spans, Test(_)) == SelectSeq(Positions(spans), Test)

Pick(spans, id) == {i \in 1..Len(spans) : spans[i].id = id}

\* byID: a later span with the same id replaces the earlier one.
Node(spans, id) == CHOOSE i \in Pick(spans, id) : \A j \in Pick(spans, id) : j <= i

\* The node of each span at the positions ps.
Nodes(spans, ps) == [k \in 1..Len(ps) |-> Node(spans, spans[ps[k]].id)]

\* A span that names itself as its parent is taken for a root.
RootsOrSelf(spans) ==
  Nodes(spans, Spans(spans, LAMBDA i : spans[i].parent \in {0, spans[i].id}))

Roots(spans) == Nodes(spans, Spans(spans, LAMBDA i : spans[i].parent = 0))

Children(spans, n) ==
  Nodes(spans, Spans(spans, LAMBDA i : spans[i].parent # 0
                                       /\ spans[i].parent = spans[n].id))

EndOf(span) == span.start + span.duration

\* The child that ends last, the first of them when several do.
Gating(spans, kids) ==
  kids[CHOOSE k \in 1..Len(kids) :
         /\ \A j \in 1..Len(kids) : EndOf(spans[kids[j]]) <= EndOf(spans[kids[k]])
         /\ \A j \in 1..(k - 1) : EndOf(spans[kids[j]]) < EndOf(spans[kids[k]])]

\* criticalChain after at most n steps of its loop.
Chain(spans, root, n) ==
  LET step(chain, i) ==
        LET kids == Children(spans, Last(chain)) IN
        IF kids = <<>> THEN chain ELSE Append(chain, Gating(spans, kids))
  IN  FoldLeft(step, <<root>>, [i \in 1..n |-> i])

\* As many steps as there are spans: a chain that is not at a leaf by then never
\* gets to one.
CriticalChain(spans, root) == Chain(spans, root, Len(spans))

ChainNS(spans, chain) ==
  FoldLeft(LAMBDA total, n : total + spans[n].duration, 0, chain)

\* computeCriticalPath: the first root's chain with the largest total, none
\* when every total is 0.
CriticalPath(spans) ==
  LET longer(best, root) ==
        LET chain == CriticalChain(spans, root) IN
        IF ChainNS(spans, chain) > ChainNS(spans, best) THEN chain ELSE best
  IN  FoldLeft(longer, <<>>, Roots(spans))

-----------------------------------------------------------------------------
(* ExtractServiceEdges: one record per link between two services, and the  *)
(* walk goes on below every link, from the roots only.                     *)

Call(caller, callee, weight) ==
  [caller |-> caller.service, callee |-> callee.service, weight |-> weight,
   error |-> callee.error, duration |-> callee.duration]

\* The calls from the nodes ns to their children.
CallsFrom(spans, ns, weight) ==
  FlattenSeq(
    [k \in 1..Len(ns) |->
       LET crossing == SelectSeq(Children(spans, ns[k]),
                                 LAMBDA c : spans[c].service # spans[ns[k]].service)
       IN  [j \in 1..Len(crossing) |->
              Call(spans[ns[k]], spans[crossing[j]], weight)]])

\* Mutant: the walk goes on only below the links that it records.
ExtractBelowCalls(spans, weight) ==
  LET called(n) == SelectSeq(Children(spans, n),
                             LAMBDA c : spans[c].service # spans[n].service)
      below(ns) == FlattenSeq([k \in 1..Len(ns) |-> called(ns[k])])
      down(acc, i) == [level |-> below(acc.level),
                       edges |-> acc.edges \o CallsFrom(spans, acc.level, weight)]
  IN  FoldLeft(down, [level |-> Roots(spans), edges |-> <<>>], Positions(spans)).edges

\* walk, from the roots down, one level of the tree after the other.
ExtractServiceEdges(spans, weight) ==
  LET below(ns) == FlattenSeq([k \in 1..Len(ns) |-> Children(spans, ns[k])])
      down(acc, i) == [level |-> below(acc.level),
                       edges |-> acc.edges \o CallsFrom(spans, acc.level, weight)]
  IN  FoldLeft(down, [level |-> Roots(spans), edges |-> <<>>], Positions(spans)).edges

=============================================================================
