----------------------------- MODULE MCReadPath -----------------------------
EXTENDS ReadPath

Span(id, parent, service, duration) ==
  [id |-> id, parent |-> parent, service |-> service,
   start |-> id, duration |-> duration, error |-> FALSE]

\* Span 4 is never there; a span that comes twice is the same twice.
MCTraces ==
  {t \in UNION {[1..n -> {Span(i, p, s, d) : i \in 1..3, p \in 0..4, s \in 1..2, d \in 1..2}]
                : n \in 1..3} :
     /\ \A i \in 1..Len(t) : t[i].id <= i
     /\ \A i, j \in 1..Len(t) : t[i].id = t[j].id => t[i] = t[j]}

MCLinks == {<<Span(1, 0, a, 1), Span(2, 1, b, 1)>> : a, b \in 1..4}

Row(id, service, duration, timestamp, weight, region) ==
  [id |-> id, service |-> service, duration |-> duration, timestamp |-> timestamp,
   sampling_weight |-> weight, region |-> region]

MCRows == {Row(1, 1, 1, 1, 2, 0), Row(2, 1, 2, 1, 1, 1), Row(3, 2, 3, 1, 1, 2),
           Row(4, 1, 2, 9, 1, 1)}

Text(field, op, v) == Literal(field, op, "string", v)
Number(field, op, v) == Literal(field, op, "number", v)

\* Selectors and filters that repeat, tighten and contradict one another.
MCTerms ==
  { <<>>, <<Number("duration", ">", 1)>>, <<Number("duration", ">=", 2), Number("duration", ">", 2)>>,
    <<Number("duration", ">", 1), Number("duration", "<=", 2)>>,
    <<Number("duration", ">=", 2), Number("duration", "<=", 2)>>,
    <<Number("duration", "<", 3), Number("duration", ">", 2)>>,
    <<Number("duration", "==", 2), Number("duration", "!=", 1)>>,
    <<Number("duration", "!=", 1), Number("duration", "!=", 2)>>,
    <<Number("region", "<", 2)>>, <<Number("region", "==", 1)>> }

MCSelectors ==
  { <<>>, <<Text("service", "=", 1)>>, <<Text("service", "=", 1), Text("service", "=", 2)>>,
    <<Text("service", "!=", 2), Text("service", "=", 1)>>,
    <<Text("service", "!=", 1), Text("service", "=", 1)>>,
    <<Text("service", "=~", 2), Text("region", "!=", 1)>>,
    <<Text("region", "=", 1), Text("duration", "=", 2)>> }

Aggregate(exprs, by) == [node |-> "Aggregate", exprs |-> exprs, by |-> by]
Expr(func, field, alias) == [func |-> func, field |-> field, alias |-> alias]
Sort(field, desc) == [node |-> "Sort", fields |-> <<[field |-> field, desc |-> desc]>>]
Limit(n) == [node |-> "Limit", n |-> n]

MCEnds ==
  { <<>>, <<Limit(1)>>, <<Limit(0)>>, <<Limit(2), Sort("duration", TRUE)>>,
    <<Sort("region", FALSE)>>,
    <<Aggregate(<<Expr("count", "", "count"), Expr("avg", "duration", "avg_duration")>>, <<>>),
      Limit(1)>>,
    <<Aggregate(<<Expr("sum", "duration", "sum_duration")>>, <<"service">>),
      Sort("sum_duration", TRUE), Limit(1)>>,
    <<Aggregate(<<Expr("max", "duration", "max_duration")>>, <<"region">>)>> }

MCQueries ==
  { [selector |-> s, range |-> [start |-> 1, end |-> 5],
     stages |-> [i \in 1..Len(f) |-> [node |-> "Numeric", term |-> f[i]]] \o e] :
       s \in MCSelectors, f \in MCTerms, e \in MCEnds }

=============================================================================
