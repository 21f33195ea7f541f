----------------------------- MODULE MCSampling -----------------------------
(***************************************************************************)
(* Instances of Sampling for TLC.                                          *)
(***************************************************************************)
EXTENDS Sampling, TLC

CONSTANTS d1, d2, user, tier, u1, u2, u3, gold

P99 == [type |-> "rolling_p99"]
Errors == [type |-> "always_sample_errors"]
Gold == [type |-> "attribute_match", key |-> tier, value |-> gold]
OnePerSecond == [type |-> "rate_limiting", perSec |-> 1]
Half == [type |-> "probabilistic", rate |-> 50]
Unknown == [type |-> "latency"]

\* The first file, one with other policies, and one that does not load.
First == <<Gold, P99>>
Contents == {First, <<OnePerSecond, Errors, Half>>, <<Unknown>>}

\* The first trace has the attribute that is matched, the second an error, and
\* the third is the slowest.
TraceErrors == <<FALSE, TRUE, FALSE>>
TraceDurations == <<1, 2, 3>>
TraceScores == <<90, 90, 10>>
TraceServices == <<"web", "web", "web">>
TraceAttributes == << (user :> u1) @@ (tier :> gold), user :> u2, user :> u3 >>

Registers == (u1 :> 1) @@ (u2 :> 2) @@ (u3 :> 3) @@ (gold :> 4)
Buckets == [k \in Key |-> [v \in Value |-> "bucket_0"]]
KeyBudgets == (user :> 2) @@ (tier :> 2)
KeyActions == (user :> "bucket") @@ (tier :> "drop")
=============================================================================
