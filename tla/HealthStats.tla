---------------------------- MODULE HealthStats ----------------------------
(***************************************************************************)
(* The health figures of a release: HealthWindow of                        *)
(* internal/releasedomain/analytics.go, the Aggregator of internal/metrics *)
(* and AggregateHealth of internal/application.  Rates are compared by     *)
(* cross-multiplication, thresholds are in percent.                        *)
(***************************************************************************)
EXTENDS Slices, TLC

CONSTANTS
  Refused,       \* the error of AggregateHealth
  Millisecond    \* the units of a latency in a millisecond

\* Observation.Validate; 0 is the zero time, which is no timestamp.
ValidObservation(o) == o.release # "" /\ o.tenant # "" /\ o.latency >= 0 /\ o.at # 0

\* HealthWindow.Record with room for max observations.
Record(window, o, max) ==
  IF ValidObservation(o) THEN Append(IF Len(window) >= max THEN Tail(window) ELSE window, o)
                         ELSE window

\* The window after all observations have been recorded.
Recorded(observations, max) ==
  LET W[n \in 0 .. Len(observations)] ==
        IF n = 0 THEN <<>> ELSE Record(W[n - 1], observations[n], max)
  IN  W[Len(observations)]

CountedAll(window, release, cutoff, now) ==
  Picked(window, {i \in DOMAIN window : cutoff <= window[i].at /\ window[i].at <= now})

\* What is counted, and what the percentile is taken of: the observation at
\* the cut-off is in the first only.
Counted(window, release, cutoff, now) ==
  Picked(window, {i \in DOMAIN window : /\ window[i].release = release
                                        /\ cutoff <= window[i].at /\ window[i].at <= now})

Ranked(window, release, cutoff, now) ==
  Picked(window, {i \in DOMAIN window : /\ window[i].release = release
                                        /\ cutoff < window[i].at /\ window[i].at <= now})

Failures(observations) ==
  Cardinality({i \in DOMAIN observations : ~ observations[i].success})

\* The 95th percentile of the code: index floor(0.95 (n - 1)) of the sorted
\* latencies, which is out of range for none.
Percentile(latencies) ==
  SortSeq(latencies, LAMBDA a, b : a < b)[1 + ((Len(latencies) - 1) * 95) \div 100]

Latencies(observations) == [i \in DOMAIN observations |-> observations[i].latency]

Panics(window, release, cutoff, now) ==
  /\ Counted(window, release, cutoff, now) # <<>>
  /\ Ranked(window, release, cutoff, now) = <<>>

\* The percentile in whole milliseconds.
EvaluateHealth(window, release, cutoff, now, threshold) ==
  LET counted == Counted(window, release, cutoff, now)
      ranked == Ranked(window, release, cutoff, now)
  IN  [samples  |-> Len(counted),
       failures |-> Failures(counted),
       p95      |-> IF counted = <<>> THEN 0
                   ELSE Percentile(Latencies(ranked)) \div Millisecond,
       healthy  |-> /\ counted # <<>>
                    /\ Failures(counted) * 100 <= threshold * Len(counted)]

\* The observations of one release.
Own(observations, release) ==
  Picked(observations, {i \in DOMAIN observations : observations[i].release = release})

\* Aggregator.Evaluate and Summaries, which keep the percentile as it is.
Aggregate(release, observations) ==
  LET own == Own(observations, release)
  IN  [samples  |-> Len(own),
       failures |-> Failures(own),
       p95      |-> IF own = <<>> THEN 0 ELSE Percentile(Latencies(own))]

Summaries(observations) ==
  [r \in {o.release : o \in Range(observations)} |-> Aggregate(r, observations)]
-----------------------------------------------------------------------------
\* validateHealthGate and AggregateHealth on gates of samples and failures.
ValidGate(g) == g.samples >= 1 /\ g.failures >= 0 /\ g.failures <= g.samples

AggregateHealth(gates) ==
  IF gates = <<>> \/ \E i \in DOMAIN gates : ~ ValidGate(gates[i])
  THEN Refused
  ELSE [samples  |-> Total([i \in DOMAIN gates |-> gates[i].samples]),
        failures |-> Total([i \in DOMAIN gates |-> gates[i].failures])]

\* HealthGate.FailureRate against a threshold in percent.
Exceeds(g, threshold) == g.failures * 100 > threshold * g.samples
=============================================================================
