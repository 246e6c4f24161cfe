----------------------------- MODULE Evaluation -----------------------------
(***************************************************************************)
(* The read-only algorithms, each compared with a definition of what it    *)
(* should compute, on an input that is chosen at the start and stays.  The *)
(* clock runs meanwhile; the graph searches take their steps.              *)
(***************************************************************************)
EXTENDS Targeting, Windows, DependencyGraph, HealthStats

CONSTANTS
  Rule, Subject, Version, Graph, Observation,        \* what inputs are made of
  Room,        \* observations a health window has room for
  Threshold,   \* failure rate tolerated, in percent
  MaxAt,       \* bound on the clock and the bounds of windows
  MaxChecks,   \* bound on the context checks of a scan
  MaxDelay,    \* bound on the time that passes during a scan
  MaxRules, MaxWindows, MaxGroups, MaxVersions, MaxObservations   \* bounds on lengths

VARIABLES input, at

CD == INSTANCE ConfigDomain
        WITH Value <- {}, DependsOn <- <<>>, Required <- <<>>, NoVersion <- NoTime

Instant == Nat \cup {NoTime}

ASSUME TimeAssumption == NoBound = NoTime /\ MaxAt \in Nat /\ MaxDelay \in Nat

RuleField == {"id", "experiment", "enabled", "priority", "starts", "ends", "requiredLabels",
              "requiredAttributes", "hashAttribute", "percentage"}

\* CreateVersion validates the rules; a bucket is a remainder.
ASSUME RuleAssumption ==
  /\ Buckets \in Nat
  /\ \A r \in Rule : /\ RuleField \subseteq DOMAIN r /\ ValidRule(r)
                     /\ r.enabled \in BOOLEAN /\ r.priority \in Int
                     /\ r.starts \in Instant /\ r.ends \in Instant
                     /\ \A s \in Subject : BucketOf(r, s) \in 0 .. Buckets - 1

ASSUME VersionAssumption == \A v \in Version : v.expires \in Instant

\* A graph is a map from some names to lists of names.
ASSUME GraphAssumption ==
  /\ IsFiniteSet(Names) /\ NoKey \notin Names
  /\ \A E \in Graph : DOMAIN E \in SUBSET Names /\ \A k \in DOMAIN E : E[k] \in Seq(Names)

\* NewHealthWindow gives a window room for a hundred or more.
ASSUME ObservationAssumption ==
  /\ Room \in Nat \ {0} /\ Threshold \in Nat /\ Millisecond \in Nat \ {0}
  /\ \A o \in Observation : o.at \in Nat /\ o.success \in BOOLEAN
-----------------------------------------------------------------------------
\* The slices of at most n elements of S.
Lists(S, n) == UNION {[1 .. m -> S] : m \in 0 .. n}

Bound == 0 .. MaxAt \cup {NoTime}

Window == [starts: Bound, ends: Bound]

ReadInput ==
  [kind: {"rules"}, rules: Lists(Rule, MaxRules), subject: Subject]
    \cup [kind: {"windows"}, windows: Lists(Window, MaxWindows)]
    \cup [kind: {"expiry"}, groups: Lists(Lists(Version, MaxVersions), MaxGroups)]
    \cup [kind: {"health"}, observations: Lists(Observation, MaxObservations)]

Init == /\ at = 0
        /\ \/ input \in ReadInput /\ Start(<<>>, NoKey, {}, <<>>)
           \/ /\ input = [kind |-> "graph"]
              /\ \E E \in Graph : \/ StartHasCycle(E)
                                  \/ \E k \in Names : StartDependencies(E, k)

Tick == /\ at < MaxAt
        /\ input.kind # "graph"
        /\ at' = at + 1
        /\ UNCHANGED <<input, graph>>

Next == Tick \/ (Search /\ UNCHANGED <<input, at>>)

vars == <<input, at, graph>>

Spec == Init /\ [][Next]_vars
-----------------------------------------------------------------------------
(***************************************************************************)
(* Properties.                                                             *)
(***************************************************************************)

\* No two rules have the same identifier.  No validation sees to it.
OneOfEach(rules) == \A i, j \in DOMAIN rules : rules[i].id = rules[j].id => i = j

\* Evaluate, which sorts and returns at the first match, selects the rule of
\* the highest priority that applies, the earliest listed among equals; only
\* the last explanation can be a match, the branch for an experiment that was
\* already selected is never taken, and ExplainVersion lists the rules by
\* priority if their identifiers are distinct.
RuleChoice ==
  input.kind = "rules" =>
    LET rules == input.rules
        e == Evaluate(rules, input.subject, at)
        summaries == RuleSummaries(rules, e)
    IN  /\ e.matched <=> \E i \in DOMAIN rules : Applies(rules[i], input.subject, at)
        /\ e.matched => \E i \in DOMAIN rules : /\ rules[i].id = e.rule
                                                /\ Chosen(rules, i, input.subject, at)
        /\ \A n \in DOMAIN summaries :
             /\ summaries[n].selected <=> e.matched /\ n = Len(summaries)
             /\ n > 1 /\ OneOfEach(rules) => summaries[n].priority <= summaries[n - 1].priority
             /\ e.explanations[n].reason # "mutually_exclusive"

\* A percentage is a share of the buckets: raising that of any rule keeps
\* every selected subject selected, 0 selects nobody and 100 percent everybody.
SharesGrow ==
  input.kind = "rules" =>
    \A i \in DOMAIN input.rules, p \in 0 .. Buckets :
      LET r == input.rules[i]
          e == Evaluate([input.rules EXCEPT ![i].percentage = p], input.subject, at)
      IN  /\ p >= r.percentage =>
               (Evaluate(input.rules, input.subject, at).matched => e.matched)
          /\ p = 0 /\ OneOfEach(input.rules) => ~ (e.matched /\ e.rule = r.id)
          /\ p = Buckets /\ OneOfEach(input.rules) =>
               \A n \in DOMAIN e.explanations :
                 e.explanations[n] # [rule |-> r.id, reason |-> "bucket_outside"]

\* The active-window result stays what it is until the instant NextTransition
\* announces, and for ever if it announces none.
StableUntilNext(windows) ==
  LET next == NextTransition(windows, at)
  IN  \A t \in at .. MaxAt : next = NoTime \/ t < next =>
        ActiveWindow(windows, t) = ActiveWindow(windows, at)

\* NextTransition announces a later instant, the earliest at which the
\* active-window result could change, as its comment says.  It does not: a window
\* that has started is passed over, and so is its end.
TransitionsAnnounced ==
  input.kind = "windows" =>
    LET next == NextTransition(input.windows, at)
    IN  (next # NoTime => next > at) /\ StableUntilNext(input.windows)

\* The windows that have started, the ones with an open start not among them,
\* and are still to end.
Closing(windows) ==
  {i \in DOMAIN windows : /\ Started(windows[i], at)
                          /\ windows[i].ends # NoTime /\ at < windows[i].ends}

\* What NextTransition leaves out is the end of a window that has started, and
\* nothing else: without such a window the result is stable until the announced
\* instant, and with them no window opens before it.
OpeningsAnnounced ==
  input.kind = "windows" =>
    LET windows == input.windows
        next == NextTransition(windows, at)
    IN  /\ next # NoTime => next > at
        /\ Closing(windows) = {} => StableUntilNext(windows)
        /\ \A t \in at .. MaxAt : next = NoTime \/ t < next =>
             Range(ScanActive(windows, t)) \subseteq Range(ScanActive(windows, at))

\* The clock of a scan: it moves on by delay after the first k versions.
ClockOf(k, delay) == [n \in Nat |-> IF n <= k THEN at ELSE at + delay]

\* What the scanner reports expired, the clock running while it scans, is no
\* longer served by Evaluate when it is done.  Every group ScanAll has been
\* through has an entry if it had a candidate at the start, and the entry holds
\* candidates of that group; when ScanAll is cancelled, which takes fewer context
\* checks than there are versions, the entries made before are returned.
ExpiredNotServed ==
  input.kind = "expiry" =>
    LET groups == input.groups
    IN  \A checks, k \in 0 .. MaxChecks, delay \in 0 .. MaxDelay :
          LET scan == ScanAll(groups, ClockOf(k, delay), checks)
          IN  /\ \A g \in DOMAIN groups, s \in Subject :
                   \A v \in Range(Scan(groups[g], at + delay)) : ~ Served(v, s, at + delay)
              /\ \A g \in DOMAIN scan.result :
                   /\ Range(scan.result[g]) \subseteq Range(Scan(groups[g], at + delay))
                   /\ Scan(groups[g], at) # <<>> => scan.result[g] # <<>>
              /\ ~ scan.cancelled => Len(scan.result) = Len(groups)
              /\ scan.cancelled => checks < Total([g \in DOMAIN groups |-> Len(groups[g])])

\* The dependencies of all nodes, one by one.
Links == UNION {{k} \X DOMAIN edges[k] : k \in DOMAIN edges}

\* Both searches are right in whatever order the map gives the roots: HasCycle
\* finds a cycle exactly if some nodes all depend on one another, Dependencies
\* returns what is reachable.  HasCycle calls visit at most once for a root and
\* for a dependency, so it ends on every graph.
CyclesFound ==
  /\ HasCycleDone => (cycle <=> CD!HasCycle([k \in DOMAIN edges |-> Range(edges[k])]))
  /\ DependenciesDone => seen = Reachable(key)
  /\ calls <= Cardinality(DOMAIN edges) + Cardinality(Links)

GateOf(observations) == [samples |-> Len(observations), failures |-> Failures(observations)]

\* The observations a window takes.
Accepted(observations) ==
  Picked(observations, {i \in DOMAIN observations : ValidObservation(observations[i])})

\* A full window keeps the latest valid observations.  The health window and the
\* aggregator agree on samples and failures when all observations of the release
\* are valid and lie inside the window, and on the percentile but for the part of
\* a millisecond the window drops.  The percentile is of what is counted unless
\* an observation lies exactly at the cut-off.  A verdict is the one of the
\* combined gate, and gates combined exceed a threshold only if one of them does.
HealthFiguresAgree ==
  input.kind = "health" =>
    LET os == Accepted(input.observations)
    IN  /\ Recorded(input.observations, Room)
             = SubSeq(os, IF Len(os) > Room THEN Len(os) - Room + 1 ELSE 1, Len(os))
        /\ \A r \in {os[i].release : i \in DOMAIN os} :
             LET mine == {i \in DOMAIN os : os[i].release = r}
                 own == Own(os, r)
                 h == EvaluateHealth(os, r, -1, at, Threshold)
                 m == Summaries(os)[r]
             IN  /\ \A cutoff \in 0 .. at : (\A i \in mine : os[i].at # cutoff) =>
                      /\ ~ Panics(os, r, cutoff, at)
                      /\ Ranked(os, r, cutoff, at) = Counted(os, r, cutoff, at)
                 /\ (\A i \in mine : os[i].at <= at) =>
                      /\ h.samples = m.samples /\ h.failures = m.failures
                      /\ h.p95 = m.p95 \div Millisecond
                      /\ h.healthy <=> ~ Exceeds(GateOf(own), Threshold)
                 /\ \A n \in 1 .. Len(own) - 1 :
                      LET a == GateOf(SubSeq(own, 1, n))
                          b == GateOf(SubSeq(own, n + 1, Len(own)))
                      IN  /\ AggregateHealth(<<a, b>>) = GateOf(own)
                          /\ Exceeds(GateOf(own), Threshold) =>
                               Exceeds(a, Threshold) \/ Exceeds(b, Threshold)
=============================================================================
