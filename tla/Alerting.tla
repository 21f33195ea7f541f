------------------------------ MODULE Alerting ------------------------------
(***************************************************************************)
(* Alert rules (internal/alerting): one goroutine evaluates every rule in  *)
(* turn on each tick, keeps a state per rule, suppresses notifications in  *)
(* the cooldown, and posts the others to every sink of the rule.           *)
(***************************************************************************)
EXTENDS Detector, FiniteSets

CONSTANTS
  Rule,          \* rules, numbered in the order of the file
  SeriesOf,      \* the series of an anomaly rule, NoSeries for a threshold
  Op, Threshold, \* what a threshold rule compares its value with, and how
  Sinks,         \* the sinks of each rule, in order
  BucketAt,      \* the seasonal bucket of each tick
  Cooldown,      \* in ticks
  MaxTicks,      \* bound on ticks
  MaxFailures    \* bound on failing fetches and deliveries

NoSeries == "no_series"
Never == -1
AllSinks == UNION {{Sinks[r][i] : i \in DOMAIN Sinks[r]} : r \in Rule}

\* Parse: a rule has a sink, and a known operator if it compares.
ValidRule(r) == Sinks[r] # <<>> /\ (SeriesOf[r] = NoSeries => Op[r] \in {">", ">=", "<", "<="})

Compare(value, op, threshold) ==
  CASE op = ">"  -> value > threshold
    [] op = ">=" -> value >= threshold
    [] op = "<"  -> value < threshold
    [] op = "<=" -> value <= threshold

\* No two anomaly rules watch the same series: Parse does not ask for it, but the
\* detector has one alert state per series, and tells one rule that it flipped.
OneRulePerSeries ==
  \A r, q \in Rule : SeriesOf[r] = SeriesOf[q] /\ SeriesOf[r] # NoSeries => r = q

ASSUME AlertingAssumption ==
  /\ Cardinality(Rule) \in Nat \ {0} /\ Rule = 1 .. Cardinality(Rule)
  /\ NoSeries \notin Series
  /\ SeriesOf \in [Rule -> Series \cup {NoSeries}]
  /\ Threshold \in [Rule -> Int]
  /\ \A r \in Rule : ValidRule(r)
  /\ BucketAt \in [0 .. MaxTicks -> Bucket]
  /\ {Cooldown, MaxTicks, MaxFailures} \subseteq Nat

VARIABLES
  tick,          \* ticks so far
  now,           \* the time of the latest rollup bucket, in ticks
  rule,          \* the rule to be evaluated next
  firing,        \* ruleState.firing
  lastNotified,  \* ruleState.lastNotified
  believes,      \* what the last notification a sink received says
  failures,
  \* History variables.
  levels,        \* the levels of the observations of a series, latest last
  values,        \* the values observed in each ring, latest last
  condition,     \* what the last evaluation of a rule found
  muted,         \* rules whose last transition fell into the cooldown
  missed,        \* the sinks that the last notification of a rule failed at
  notified       \* when a rule was notified about

stateVars == <<firing, lastNotified, muted>>
sinkVars == <<believes, missed>>
vars == <<detectorVars, tick, now, rule, stateVars, sinkVars, failures, levels, values,
          condition, notified>>

Init ==
  /\ DetectorInit
  /\ tick = 0 /\ now = 0 /\ rule = 1
  /\ firing = [r \in Rule |-> FALSE]
  /\ lastNotified = [r \in Rule |-> Never]
  /\ believes = [r \in Rule |-> [k \in AllSinks |-> FALSE]]
  /\ failures = 0
  /\ levels = [s \in Series |-> <<>>]
  /\ values = [s \in Series |-> [b \in Bucket |-> <<>>]]
  /\ condition = firing
  /\ muted = {}
  /\ missed = [r \in Rule |-> {}]
  /\ notified = [r \in Rule |-> {}]

SinksOf(r) == {Sinks[r][i] : i \in DOMAIN Sinks[r]}
WithinCooldown(r) == lastNotified[r] # Never /\ now - lastNotified[r] < Cooldown

\* Mutant: the sinks after one that fails get nothing.
ReceivedUntilError(r, failing) ==
  {Sinks[r][i] : i \in {j \in DOMAIN Sinks[r] : \A k \in 1 .. j : Sinks[r][k] \notin failing}}
\* MultiSink.Notify: every sink is tried, whatever happened to the others.
Received(r, failing) == SinksOf(r) \ failing

\* Mutant: lastNotified stays as it was.
NotifyUntimed(r, found, failing) ==
  /\ ~WithinCooldown(r)
  /\ firing' = [firing EXCEPT ![r] = found]
  /\ UNCHANGED lastNotified
  /\ notified' = [notified EXCEPT ![r] = @ \cup {now}]
  /\ muted' = muted \ {r}
  /\ failing \subseteq SinksOf(r)
  /\ failures + Cardinality(failing) <= MaxFailures
  /\ failures' = failures + Cardinality(failing)
  /\ believes' = [believes EXCEPT ![r] =
       [k \in AllSinks |-> IF k \in Received(r, failing) THEN found ELSE @[k]]]
  /\ missed' = [missed EXCEPT ![r] = failing]
\* The rest of transition after its dedup check, with the sinks that fail.
Notify(r, found, failing) ==
  /\ ~WithinCooldown(r)
  /\ firing' = [firing EXCEPT ![r] = found]
  /\ lastNotified' = [lastNotified EXCEPT ![r] = now]
  /\ notified' = [notified EXCEPT ![r] = @ \cup {now}]
  /\ muted' = muted \ {r}
  /\ failing \subseteq SinksOf(r)
  /\ failures + Cardinality(failing) <= MaxFailures
  /\ failures' = failures + Cardinality(failing)
  /\ believes' = [believes EXCEPT ![r] =
       [k \in AllSinks |-> IF k \in Received(r, failing) THEN found ELSE @[k]]]
  /\ missed' = [missed EXCEPT ![r] = failing]

\* A transition within the cooldown changes the state and tells nobody.
Mute(r, found) ==
  /\ WithinCooldown(r)
  /\ firing' = [firing EXCEPT ![r] = found]
  /\ muted' = muted \cup {r}
  /\ UNCHANGED <<lastNotified, notified, failures, sinkVars>>

Transition(r, found) ==
  \/ found = firing[r] /\ UNCHANGED <<stateVars, sinkVars, failures, notified>>
  \/ found # firing[r] /\ Mute(r, found)
  \/ found # firing[r] /\ \E failing \in SUBSET AllSinks : Notify(r, found, failing)

\* The next rule of this tick, or the first one of the next tick, which may
\* find the same rollup bucket again.
NextRule ==
  \/ rule < Cardinality(Rule) /\ rule' = rule + 1 /\ UNCHANGED <<tick, now>>
  \/ /\ rule = Cardinality(Rule)
     /\ tick < MaxTicks
     /\ rule' = 1
     /\ tick' = tick + 1
     /\ now' \in {now, now + 1}

\* EvaluateThreshold.
EvalThreshold(v) ==
  /\ SeriesOf[rule] = NoSeries
  /\ condition' = [condition EXCEPT ![rule] = Compare(v, Op[rule], Threshold[rule])]
  /\ Transition(rule, Compare(v, Op[rule], Threshold[rule]))
  /\ NextRule
  /\ UNCHANGED <<detectorVars, levels, values>>

\* Observe and EvaluateAnomaly, which only looks at a changed state.
EvalAnomaly(v) ==
  LET s == SeriesOf[rule]
      b == BucketAt[now]
  IN
  /\ s # NoSeries
  /\ Observe(s, b, v)
  /\ levels' = [levels EXCEPT ![s] =
       IF LevelIn(s, b, v) = "no_baseline" THEN @ ELSE Append(@, LevelIn(s, b, v))]
  /\ values' = [values EXCEPT ![s][b] = Append(@, v)]
  /\ condition' = [condition EXCEPT ![rule] = alert'[s].firing]
  /\ IF alert'[s].firing = alert[s].firing
     THEN UNCHANGED <<stateVars, sinkVars, failures, notified>>
     ELSE Transition(rule, alert'[s].firing)
  /\ NextRule

\* The rule's value cannot be read: the rule is left out of this tick.
FetchError ==
  /\ failures < MaxFailures
  /\ failures' = failures + 1
  /\ NextRule
  /\ UNCHANGED <<detectorVars, stateVars, sinkVars, levels, values, condition, notified>>

Next ==
  \/ \E v \in Observable : EvalThreshold(v) \/ EvalAnomaly(v)
  \/ FetchError

Spec == Init /\ [][Next]_vars
-----------------------------------------------------------------------------
(* Properties.                                                             *)

Last(seq, n) == SubSeq(seq, Len(seq) - n + 1, Len(seq))

\* The alert state of a series flips only after MinConsecutive observations in
\* a row on the new side: one between the thresholds, or on the other side,
\* starts the count anew.  Observations without a baseline do not count.
FlipsNeedARun ==
  [][\A s \in Series : alert'[s].firing # alert[s].firing =>
       /\ Len(levels'[s]) >= MinConsecutive
       /\ \A i \in 1 .. MinConsecutive :
            Last(levels'[s], MinConsecutive)[i] = IF alert'[s].firing THEN "above" ELSE "below"]_vars

\* The ring that a baseline is computed from holds the latest WindowSize values
\* of its series and bucket, each once, also after it wrapped around: before the
\* position the latest ones, from there on those written a round before.
RingHoldsLatest ==
  \A s \in Series, b \in Bucket :
    LET seen == values[s][b]
        pos == ring[s][b].pos
        n == IF Len(seen) < WindowSize THEN Len(seen) ELSE WindowSize
    IN  /\ Len(Sample(ring[s][b])) = n
        /\ \A j \in 1 .. n :
             Sample(ring[s][b])[j] = seen[Len(seen) - pos + (IF j <= pos THEN j ELSE j - n)]

\* Two notifications about a rule are at least its cooldown apart.
CooldownKept ==
  \A r \in Rule : \A t, u \in notified[r] : t < u => u - t >= Cooldown

\* A sink believes what the rule's condition was at its last evaluation, unless
\* the last transition fell into the cooldown or could not be delivered to this
\* sink: no other transition is lost, and a sink does not miss one because
\* another sink failed.
SinksInformed ==
  \A r \in Rule : \A k \in SinksOf(r) :
    believes[r][k] = condition[r] \/ r \in muted \/ k \in missed[r]

\* The firing state of a rule is what its last evaluation found, muted or not:
\* the state that the next transition is compared with.
FiringIsTrue == \A r \in Rule : firing[r] = condition[r]
=============================================================================
