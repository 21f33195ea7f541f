----------------------------- MODULE PolicyChain -----------------------------
(***************************************************************************)
(* internal/sampling/policy.go and config.go: what each kind of sampling   *)
(* policy says of a trace, and the state of those that have one.  A chain  *)
(* is [policies, state]: the state of each policy is the limiter's buckets *)
(* with their generation, and the window of the rolling p99.               *)
(***************************************************************************)
EXTENDS CardinalityGuard

CONSTANTS
  Trace,
  Service,             \* service of each trace's first span
  HasError, Duration,
  Score,               \* 0 .. 99: the hash of the trace id, in percent
  WindowSize,          \* always_sample_slow: window
  MaxTrackedServices

ASSUME PolicyAssumption ==
  /\ DOMAIN Service = Trace
  /\ HasError \in [Trace -> BOOLEAN]
  /\ Duration \in [Trace -> Nat]
  /\ Score \in [Trace -> 0 .. 99]
  /\ {WindowSize, MaxTrackedServices} \subseteq Nat \ {0}

Fresh == [buckets |-> <<>>, gen |-> 0, window |-> <<>>]
NewChain(policies) == [policies |-> policies, state |-> [i \in DOMAIN policies |-> Fresh]]

\* buildPolicy accepts the entry.
Buildable(p) ==
  \/ p.type \in {"always_sample_errors", "rolling_p99", "attribute_match"}
  \/ p.type = "always_sample_slow" /\ p.threshold > 0
  \/ p.type = "rate_limiting" /\ p.perSec > 0
  \/ p.type = "probabilistic" /\ p.rate \in 0 .. 100

\* LoadPolicyFile succeeds: one entry that is not understood fails the file.
Loads(policies) == \A i \in DOMAIN policies : Buildable(policies[i])

-----------------------------------------------------------------------------
(* Policies without a state of their own.  attrs are the trace's           *)
(* attributes as the cardinality guard left them.                          *)

SampleIf(condition) == IF condition THEN "sample" ELSE "abstain"

OfErrors(x) == SampleIf(HasError[x])
OfSlow(p, d) == SampleIf(d > p.threshold)
OfAttributes(p, attrs) == SampleIf(p.key \in DOMAIN attrs /\ attrs[p.key] = p.value)
OfProbability(p, x) ==
  IF p.rate >= 100 \/ (p.rate > 0 /\ Score[x] < p.rate) THEN "sample" ELSE "drop"

Opinion(p, x, attrs) ==
  CASE p.type = "always_sample_errors" -> OfErrors(x)
    [] p.type = "always_sample_slow" -> OfSlow(p, Duration[x])
    [] p.type = "attribute_match" -> OfAttributes(p, attrs)
    [] p.type = "probabilistic" -> OfProbability(p, x)

-----------------------------------------------------------------------------
(* The rolling p99.                                                        *)

\* Estimate: the element of rank n * 99 / 100, counted from 0, of the sorted
\* window: the least with more than that many elements up to it.  0 without one.
AtMost(window, v) == {i \in DOMAIN window : window[i] <= v}
Rank(window) ==
  LET n == Len(window) IN IF (n * 99) \div 100 >= n THEN n - 1 ELSE (n * 99) \div 100
HighEnough(window) ==
  {v \in {window[i] : i \in DOMAIN window} : Cardinality(AtMost(window, v)) > Rank(window)}
Estimate(window) ==
  IF window = <<>> THEN 0
  ELSE CHOOSE v \in HighEnough(window) : \A u \in HighEnough(window) : v <= u

\* Observe: the latest WindowSize durations stay.
Slide(window, d) ==
  LET all == <<d>> \o window
  IN  IF Len(window) < WindowSize THEN all ELSE SubSeq(all, 1, WindowSize)
Observe(state, d) == [state EXCEPT !.window = Slide(@, d)]

-----------------------------------------------------------------------------
(* The rate limiter: a bucket of tokens for each service.  The field       *)
(* passed is a history: the times at which the bucket let a trace pass.    *)

\* Mutant: a bucket that is idle fills beyond its capacity.
RefillUncapped(b, now, perSec) == [b EXCEPT !.tokens = @ + (now - b.filled) * perSec, !.filled = now]
Refill(b, now, perSec) ==
  LET tokens == b.tokens + (now - b.filled) * perSec
  IN  [b EXCEPT !.tokens = IF tokens > perSec THEN perSec ELSE tokens, !.filled = now]

\* A token is taken, if there is one.
HasToken(b) == b.tokens >= 1
Draw(b, now) ==
  IF HasToken(b) THEN [b EXCEPT !.tokens = @ - 1, !.passed = Append(@, now)] ELSE b

\* Evaluate of rateLimiter: the service's bucket, full if it is new, brought up
\* to date, and the limiter's state after it was asked for a token.
BucketFor(state, s, now, perSec) ==
  LET room == WithRoom(state.buckets, s, MaxTrackedServices)
  IN  Refill(IF s \in DOMAIN room THEN room[s]
             ELSE [tokens |-> perSec, filled |-> now, gen |-> 0, passed |-> <<>>],
             now, perSec)
Admits(state, s, now, perSec) == HasToken(BucketFor(state, s, now, perSec))
Limit(state, s, now, perSec) ==
  LET gen == state.gen + 1
      b == [Draw(BucketFor(state, s, now, perSec), now) EXCEPT !.gen = gen]
  IN  [state EXCEPT !.gen = gen,
                    !.buckets = Put(WithRoom(@, s, MaxTrackedServices), s, b)]
=============================================================================
