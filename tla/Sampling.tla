------------------------------ MODULE Sampling ------------------------------
(***************************************************************************)
(* How a trace gets its verdict (internal/sampling): the cardinality guard *)
(* rewrites its attributes when it is decoded, and a decision walks the    *)
(* policy chain that was active when it began, one policy after the other, *)
(* while other decisions do the same and the file watcher swaps the chain. *)
(*                                                                         *)
(* Two goroutines decide: the consumer's, when the buffer overflows, and   *)
(* the sweep's.  Time is in seconds.                                       *)
(***************************************************************************)
EXTENDS PolicyChain

CONSTANTS
  Decider,         \* goroutines that decide
  Consumer,        \* the one that also reads the spans
  NoTrace,
  Attributes,      \* raw attributes of each trace
  Content,         \* what the policy file may be edited to
  FirstContent,    \* the file at startup
  MaxTime, MaxEdits, MaxReadErrors

ASSUME SamplingAssumption ==
  /\ Consumer \in Decider
  /\ NoTrace \notin Trace
  /\ \A x \in Trace : DOMAIN Attributes[x] \subseteq Key
  /\ FirstContent \in Content /\ Loads(FirstContent)
  /\ \A content \in Content : content \in Seq({content[i] : i \in DOMAIN content})
  /\ \A content \in Content : \A i \in DOMAIN content :
       content[i].type = "rate_limiting" => content[i].perSec \in Int
  /\ {MaxTime, MaxEdits, MaxReadErrors} \subseteq Nat

VARIABLES
  now,
  tracker,      \* CardinalityTracker
  attrs,        \* attributes of the traces read, as the guard left them
  decoding,     \* the trace in the guard's hands and its keys still to check
  file,         \* the policy file: [content, mtime]
  watcher,      \* PolicyFileWatcher: [step, lastMod, mtime]
  chains,       \* every chain ever active; the last one is
  deciding,     \* deciding[d]: the decision that d is at, or Idle
  verdict,      \* of the decided traces: the outcome, the chain, and its warm
                \* windows when the decision began
  readErrors

decisionVars == <<chains, deciding, verdict>>
guardVars == <<tracker, attrs, decoding>>
watcherVars == <<watcher, readErrors>>
vars == <<now, guardVars, file, watcherVars, decisionVars>>

Idle == [trace |-> NoTrace, chain |-> 0, at |-> 0, estimate |-> -1, warm |-> {}]

Init ==
  /\ now = 0
  /\ tracker = NewTracker
  /\ attrs = <<>>
  /\ decoding = [trace |-> NoTrace, left |-> {}]
  /\ file = [content |-> FirstContent, mtime |-> 1]
  /\ watcher = [step |-> "idle", lastMod |-> 0, mtime |-> 0]
  /\ chains = <<NewChain(FirstContent)>>
  /\ deciding = [d \in Decider |-> Idle]
  /\ verdict = <<>>
  /\ readErrors = 0

Active == Len(chains)

Tick ==
  /\ now < MaxTime
  /\ now' = now + 1
  /\ UNCHANGED <<guardVars, file, watcherVars, decisionVars>>

\* handleSpans, up to Ingest: the consumer takes a trace's attributes to the
\* guard, which goes over the keys in map order.
Decode(x) ==
  /\ deciding[Consumer] = Idle /\ decoding.left = {}
  /\ x \notin DOMAIN attrs
  /\ attrs' = Put(attrs, x, <<>>)
  /\ decoding' = [trace |-> x, left |-> DOMAIN Attributes[x]]
  /\ UNCHANGED <<now, tracker, file, watcherVars, decisionVars>>

Enforce(k) ==
  LET x == decoding.trace
      v == Attributes[x][k]
  IN
  /\ k \in decoding.left
  /\ tracker' = Track(tracker, k, v)
  /\ attrs' = Put(attrs, x, WithEnforced(attrs[x], tracker', k, v))
  /\ decoding' = [decoding EXCEPT !.left = @ \ {k}]
  /\ UNCHANGED <<now, file, watcherVars, decisionVars>>

Checked == {x \in DOMAIN attrs : decoding.left = {} \/ x # decoding.trace}

-----------------------------------------------------------------------------
(* PolicyChain.Decide.                                                     *)

InProgress == {deciding[d].trace : d \in Decider}

\* The policies of a chain whose window has an entry.
Warm(chain) == {i \in DOMAIN chain.policies : chain.state[i].window # <<>>}

\* decide: the chain is loaded once.
Begin(d, x) ==
  /\ deciding[d] = Idle
  /\ d = Consumer => decoding.left = {}
  /\ x \in Checked \ (DOMAIN verdict \cup InProgress)
  /\ deciding' = [deciding EXCEPT ![d] =
       [trace |-> x, chain |-> Active, at |-> 1, estimate |-> -1, warm |-> Warm(chains[Active])]]
  /\ UNCHANGED <<now, guardVars, file, watcherVars, chains, verdict>>

\* Mutant: every step loads the chain that is active by then.
ChainOfNow(d) == Active
ChainOf(d) == deciding[d].chain

At(d) == deciding[d].at
Policies(d) == chains[ChainOf(d)].policies
StateOf(d) == chains[ChainOf(d)].state[At(d)]

\* The policy d looks at next, when its chain has one left.
PolicyIs(d, type) ==
  /\ deciding[d] # Idle
  /\ At(d) \in DOMAIN Policies(d)
  /\ Policies(d)[At(d)].type = type
PolicyOf(d) == Policies(d)[At(d)]

Settle(d, outcome) ==
  /\ verdict' = Put(verdict, deciding[d].trace,
       [outcome |-> outcome, chain |-> deciding[d].chain, warm |-> deciding[d].warm])
  /\ deciding' = [deciding EXCEPT ![d] = Idle]

\* The first opinion settles the trace; a policy without one passes it on.
Proceed(d, opinion) ==
  IF opinion = "abstain"
  THEN /\ deciding' = [deciding EXCEPT ![d].at = @ + 1, ![d].estimate = -1]
       /\ UNCHANGED verdict
  ELSE Settle(d, opinion)

Stateless == {"always_sample_errors", "always_sample_slow", "attribute_match", "probabilistic"}

Ask(d) ==
  /\ \E type \in Stateless : PolicyIs(d, type)
  /\ Proceed(d, Opinion(PolicyOf(d), deciding[d].trace, attrs[deciding[d].trace]))
  /\ UNCHANGED <<now, guardVars, file, watcherVars, chains>>

\* Estimate and Observe lock the window one after the other.
EstimateP99(d) ==
  /\ PolicyIs(d, "rolling_p99") /\ deciding[d].estimate = -1
  /\ deciding' = [deciding EXCEPT ![d].estimate = Estimate(StateOf(d).window)]
  /\ UNCHANGED <<now, guardVars, file, watcherVars, chains, verdict>>

ObserveP99(d) ==
  LET duration == Duration[deciding[d].trace]
      threshold == deciding[d].estimate
  IN
  /\ PolicyIs(d, "rolling_p99") /\ threshold # -1
  /\ chains' = [chains EXCEPT ![ChainOf(d)].state[At(d)] = Observe(@, duration)]
  /\ Proceed(d, IF threshold > 0 /\ duration > threshold THEN "sample" ELSE "abstain")
  /\ UNCHANGED <<now, guardVars, file, watcherVars>>

\* The bucket is looked up, filled and emptied under one lock.
Throttle(d) ==
  LET s == Service[deciding[d].trace]
      perSec == PolicyOf(d).perSec
  IN
  /\ PolicyIs(d, "rate_limiting")
  /\ chains' = [chains EXCEPT ![ChainOf(d)].state[At(d)] = Limit(@, s, now, perSec)]
  /\ Proceed(d, IF Admits(StateOf(d), s, now, perSec) THEN "abstain" ELSE "drop")
  /\ UNCHANGED <<now, guardVars, file, watcherVars>>

\* No policy had an opinion.
FallThrough(d) ==
  /\ deciding[d] # Idle /\ At(d) \notin DOMAIN Policies(d)
  /\ Settle(d, "drop")
  /\ UNCHANGED <<now, guardVars, file, watcherVars, chains>>

Decide(d) == Ask(d) \/ EstimateP99(d) \/ ObserveP99(d) \/ Throttle(d) \/ FallThrough(d)

-----------------------------------------------------------------------------
(* The policy file and its watcher.                                        *)

\* Someone edits the file; every edit has a later modification time.
Edit(content) ==
  /\ file.mtime <= MaxEdits
  /\ content # file.content
  /\ file' = [content |-> content, mtime |-> file.mtime + 1]
  /\ UNCHANGED <<now, guardVars, watcherVars, decisionVars>>

\* Mutant: lastMod is set before the load, which may fail.
StatAndMark ==
  /\ watcher.step = "idle"
  /\ file.mtime > watcher.lastMod
  /\ watcher' = [step |-> "load", lastMod |-> file.mtime, mtime |-> file.mtime]
  /\ UNCHANGED <<now, guardVars, file, readErrors, decisionVars>>
\* checkAndReload up to the load, when the file is newer than the last one.
Stat ==
  /\ watcher.step = "idle"
  /\ file.mtime > watcher.lastMod
  /\ watcher' = [watcher EXCEPT !.step = "load", !.mtime = file.mtime]
  /\ UNCHANGED <<now, guardVars, file, readErrors, decisionVars>>

\* LoadPolicyFile reads the file, which may have been edited since, and a fresh
\* chain becomes the active one: its limiter and window start empty.
Reload ==
  /\ watcher.step = "load"
  /\ Loads(file.content)
  /\ watcher' = [step |-> "idle", lastMod |-> watcher.mtime, mtime |-> 0]
  /\ chains' = Append(chains, NewChain(file.content))
  /\ UNCHANGED <<now, guardVars, file, readErrors, deciding, verdict>>

\* A file that does not load leaves the chain and lastMod as they are.
KeepChain ==
  /\ watcher.step = "load"
  /\ ~Loads(file.content)
  /\ watcher' = [watcher EXCEPT !.step = "idle", !.mtime = 0]
  /\ UNCHANGED <<now, guardVars, file, readErrors, decisionVars>>

\* So does one that cannot be read.
ReadError ==
  /\ watcher.step = "load"
  /\ readErrors < MaxReadErrors
  /\ readErrors' = readErrors + 1
  /\ watcher' = [watcher EXCEPT !.step = "idle", !.mtime = 0]
  /\ UNCHANGED <<now, guardVars, file, decisionVars>>

Watch == Stat \/ Reload \/ KeepChain

-----------------------------------------------------------------------------
Next ==
  \/ Tick
  \/ \E x \in Trace : Decode(x)
  \/ \E k \in Key : Enforce(k)
  \/ \E d \in Decider, x \in Trace : Begin(d, x)
  \/ \E d \in Decider : Decide(d)
  \/ \E content \in Content : Edit(content)
  \/ Watch
  \/ ReadError

Spec == Init /\ [][Next]_vars

\* The watcher's ticker keeps firing; read errors are not persistent.
FairSpec == Spec /\ WF_vars(Watch)

-----------------------------------------------------------------------------
(* Properties.                                                             *)

\* The values of k that arrived so far do not exhaust its budget.
Seen(k) == {Attributes[x][k] : x \in {y \in DOMAIN attrs : k \in DOMAIN Attributes[y]}}
WithinBudget(k) ==
  Budget[k] = 0 \/ Action[k] = "keep_and_alert" \/ Cardinality(Seen(k)) < Budget[k]

\* p keeps x whatever the state of the chain, as its documentation says.
KeepsForSure(p, x, warm) ==
  \/ p.type = "always_sample_errors" /\ HasError[x]
  \/ p.type = "always_sample_slow" /\ Duration[x] > p.threshold
  \/ p.type = "attribute_match" /\ p.key \in DOMAIN Attributes[x]
     /\ Attributes[x][p.key] = p.value /\ WithinBudget(p.key)
  \/ p.type = "rolling_p99" /\ warm /\ \A y \in Trace \ {x} : Duration[y] \in 1 .. Duration[x] - 1

MayDrop(p) == p.type \in {"rate_limiting", "probabilistic"}

\* A trace is not dropped when the chain its decision began with has a policy
\* that keeps it for sure ahead of any that may drop: an error, a slow trace, a
\* matching attribute of a key within its budget, or the slowest trace of all
\* once the window has an entry (traces that take no time are no measure: the
\* policy waits for a positive estimate).  The chain may be swapped while the
\* decision runs, and other decisions use the same window.
CertainlyKept ==
  \A x \in DOMAIN verdict :
    LET policies == chains[verdict[x].chain].policies IN
    \A i \in DOMAIN policies :
      /\ KeepsForSure(policies[i], x, i \in verdict[x].warm)
      /\ \A j \in 1 .. i - 1 : ~MayDrop(policies[j])
      => verdict[x].outcome = "sample"

\* Between any two times a limiter lets a service pass no more often than its
\* rate allows for that time and one full bucket, as long as the service's
\* bucket is not evicted and the chain not replaced.
PassedWithinRate(passed, perSec) ==
  \A m, n \in DOMAIN passed :
    m <= n => n - m + 1 <= perSec * (1 + passed[n] - passed[m])
AdmittedWithinRate ==
  \A c \in DOMAIN chains : \A i \in DOMAIN chains[c].policies :
    chains[c].policies[i].type = "rate_limiting" =>
      \A s \in DOMAIN chains[c].state[i].buckets :
        PassedWithinRate(chains[c].state[i].buckets[s].passed, chains[c].policies[i].perSec)

\* Of a key that has always been tracked no more distinct values are stored as
\* they came than its budget, whatever order the traces arrive in.  A value that
\* has the form of its own bucket is not counted: there are few of those.
StoredRaw(k) ==
  {x \in DOMAIN attrs :
     /\ k \in DOMAIN attrs[x] \cap DOMAIN Attributes[x]
     /\ attrs[x][k] = Attributes[x][k]
     /\ attrs[x][k] # Bucketed[k][attrs[x][k]]}
RawRegisters(k) == {Register[Attributes[x][k]] : x \in StoredRaw(k)}
StoredWithinBudget ==
  Cardinality(Key) <= MaxTrackedKeys =>
    \A k \in Key : Budget[k] # 0 /\ Action[k] # "keep_and_alert" =>
      Cardinality(RawRegisters(k)) <= Budget[k]

\* Once the file is no longer edited, and if it loads, its chain is the active
\* one for good: an edit between the watcher's look at the modification time and
\* its read of the file is not missed, nor one whose read failed.
ChainCatchesUp ==
  <>[](Loads(file.content) => chains[Active].policies = file.content)
=============================================================================
