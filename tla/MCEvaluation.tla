---------------------------- MODULE MCEvaluation ----------------------------
EXTENDS Evaluation, SequencesExt

Always == [enabled |-> TRUE, priority |-> 1, percentage |-> 3, starts |-> NoTime,
           ends |-> NoTime, experiment |-> "exp", requiredLabels |-> <<>>,
           requiredAttributes |-> <<>>, hashAttribute |-> "os", id |-> 0]

MCRule ==
  {[Always EXCEPT !.priority = p, !.percentage = c, !.id = 10 * p + c] :
     p \in 1 .. 2, c \in {0, 1, 2, 4}}
  \cup {[Always EXCEPT !.enabled = FALSE, !.id = 1],
        [Always EXCEPT !.starts = 1, !.priority = 2, !.experiment = NoExperiment, !.id = 2],
        [Always EXCEPT !.ends = 2, !.percentage = 2, !.id = 3],
        [Always EXCEPT !.requiredLabels = "tier" :> "gold", !.id = 4],
        [Always EXCEPT !.requiredAttributes = "os" :> Empty, !.percentage = 1, !.id = 5]}

\* Identities hash to all buckets but the last.
MCBucket == [x \in (1 .. 24) \X {"d", "t"} |-> IF x[2] = "d" THEN x[1] % 2 ELSE 2]

MCSubject == {[labels |-> [n \in Name |-> l], attributes |-> [n \in Name |-> a],
               device |-> d, tenant |-> "t"] :
                l \in {"gold", Empty}, a \in {"d", Empty}, d \in {"d", Empty}}

MCVersion == [state: {"published", "expired"}, expires: {NoTime, 1, 2}, rules: {<<>>}]

\* Up to three nodes, and a name that is none.
MCGraph == {[k \in DOMAIN E |-> SetToSortSeq(E[k], <)] :
              E \in UNION {[nodes -> SUBSET Names] : nodes \in SUBSET (1 .. 3)}}

\* Latencies of whole milliseconds and others; the first of the last three is of
\* another release, the others are refused, as is what was taken at 0.
MCObservation == [release: {"r1"}, tenant: {"t"}, success: BOOLEAN, latency: {2, 5}, at: 0 .. 2]
                   \cup {[release |-> "r2", tenant |-> "t", success |-> FALSE, latency |-> 7, at |-> 1],
                         [release |-> "r1", tenant |-> "t", success |-> FALSE, latency |-> -1, at |-> 1],
                         [release |-> "r1", tenant |-> "", success |-> FALSE, latency |-> 2, at |-> 2]}
=============================================================================
