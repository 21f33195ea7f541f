----------------------------- MODULE MCAlerting -----------------------------
(***************************************************************************)
(* Instances of Alerting for TLC: an anomaly rule with two sinks and a     *)
(* threshold rule with one.                                                *)
(***************************************************************************)
EXTENDS Alerting

CONSTANTS latency, webhook, slack

RuleSeries == <<latency, NoSeries>>
\* Two anomaly rules about the same series, for a look at what goes wrong with them.
SharedSeries == <<latency, latency>>
RuleThreshold == <<0, 2>>
RuleOp == <<"", ">">>
RuleSinks == << <<webhook, slack>>, <<webhook>> >>
\* Some ticks fall into another hour of the day, with a baseline of its own.
TickBucket == [t \in 0 .. MaxTicks |-> IF t \in {2, 3, 6} THEN 2 ELSE 1]
=============================================================================
