----------------------------- MODULE Targeting -----------------------------
(***************************************************************************)
(* Rule evaluation of internal/configdomain/targeting.go and TargetRule of *)
(* model.go: which rule of a version selects a subject at an instant.      *)
(*                                                                         *)
(* A label or attribute map is a function on Name; Empty is the value of a *)
(* missing entry, which is what a Go map answers.                          *)
(***************************************************************************)
EXTENDS Integers, Sequences, FiniteSetsExt

CONSTANTS
  Name, Empty,     \* label and attribute names; the empty string
  NoTime,          \* a nil time bound
  NoExperiment,    \* the empty experiment
  Buckets,         \* number of buckets, 100 in the code
  StableBucket     \* SHA-256 of rule and identity, modulo Buckets
-----------------------------------------------------------------------------
\* TargetRule.Validate; rule identifiers and hash attributes are valid names.
ValidRule(r) == /\ r.percentage \in 0 .. Buckets
                /\ r.starts # NoTime /\ r.ends # NoTime => r.starts < r.ends

PlaceLast(rules, i) ==
  1 + Cardinality({j \in DOMAIN rules :
                     \/ rules[j].priority > rules[i].priority
                     \/ rules[j].priority = rules[i].priority /\ j > i})

\* Where the i-th rule goes: behind those of greater priority, and behind its
\* equals that come before it (SliceStable).
Place(rules, i) ==
  1 + Cardinality({j \in DOMAIN rules :
                     \/ rules[j].priority > rules[i].priority
                     \/ rules[j].priority = rules[i].priority /\ j < i})

SortRules(rules) ==
  [n \in DOMAIN rules |-> rules[CHOOSE i \in DOMAIN rules : Place(rules, i) = n]]

Has(have, want) == \A n \in DOMAIN want : have[n] = want[n]

Identity(r, subject) ==
  LET hashed == subject.attributes[r.hashAttribute]
  IN  CASE hashed # Empty           -> hashed
        [] hashed = Empty /\ subject.device # Empty -> subject.device
        [] OTHER                    -> subject.tenant

BucketOf(r, subject) == StableBucket[r.id, Identity(r, subject)]

InShareInclusive(bucket, percentage) == bucket <= percentage

InShare(bucket, percentage) == bucket < percentage

\* The reason Evaluate gives for a rule, its checks in their order.
Reason(r, subject, at, experiments) ==
  CASE ~ r.enabled -> "disabled"
    [] r.enabled /\ r.starts # NoTime /\ at < r.starts -> "window_not_started"
    [] r.enabled /\ ~ (r.starts # NoTime /\ at < r.starts)
         /\ r.ends # NoTime /\ at >= r.ends -> "window_ended"
    [] OTHER ->
       IF r.experiment # NoExperiment /\ r.experiment \in experiments
       THEN "mutually_exclusive"
       ELSE IF ~ Has(subject.labels, r.requiredLabels) THEN "label_mismatch"
       ELSE IF ~ Has(subject.attributes, r.requiredAttributes)
       THEN "attribute_mismatch"
       ELSE IF ~ InShare(BucketOf(r, subject), r.percentage)
       THEN "bucket_outside" ELSE "matched"

NothingYet == [matched |-> FALSE, rule |-> Empty, explanations |-> <<>>,
               experiments |-> {}]

\* One turn of Evaluate's loop, which returns at the first match.
Consider(result, r, subject, at) ==
  LET reason == Reason(r, subject, at, result.experiments)
  IN  IF result.matched THEN result
      ELSE [matched      |-> reason = "matched",
            rule         |-> IF reason = "matched" THEN r.id ELSE Empty,
            explanations |-> Append(result.explanations,
                                    [rule |-> r.id, reason |-> reason]),
            experiments  |-> IF reason = "matched"
                             THEN result.experiments \cup {r.experiment}
                             ELSE result.experiments]

Evaluate(rules, subject, at) ==
  LET sorted == SortRules(rules)
      E[n \in 0 .. Len(rules)] ==
        IF n = 0 THEN NothingYet ELSE Consider(E[n - 1], sorted[n], subject, at)
  IN  E[Len(rules)]
-----------------------------------------------------------------------------
(***************************************************************************)
(* Service.Evaluate for one published version, and the summary that        *)
(* ExplainVersion gives of each explanation.                               *)
(***************************************************************************)
Unexpired(v, at) == v.expires = NoTime \/ at < v.expires

Served(v, subject, at) ==
  /\ Unexpired(v, at)
  /\ v.rules = <<>> \/ Evaluate(v.rules, subject, at).matched

FindRule(rules, id) == rules[Min({i \in DOMAIN rules : rules[i].id = id})]

RuleSummaries(rules, evaluation) ==
  [n \in DOMAIN evaluation.explanations |->
     LET x == evaluation.explanations[n]
         r == FindRule(rules, x.rule)
     IN  [rule |-> r.id, priority |-> r.priority, selected |-> x.reason = "matched",
          windowActive |-> x.reason \notin {"window_not_started", "window_ended"}]]
-----------------------------------------------------------------------------
\* What the checks amount to when nothing has been selected yet.
Applies(r, subject, at) ==
  /\ r.enabled
  /\ r.starts = NoTime \/ r.starts <= at
  /\ r.ends = NoTime \/ at < r.ends
  /\ Has(subject.labels, r.requiredLabels)
  /\ Has(subject.attributes, r.requiredAttributes)
  /\ InShare(BucketOf(r, subject), r.percentage)

\* i is the rule to choose: it applies, and every other rule that applies has
\* a lower priority, or the same and comes later.
Chosen(rules, i, subject, at) ==
  /\ Applies(rules[i], subject, at)
  /\ \A j \in DOMAIN rules \ {i} : Applies(rules[j], subject, at) =>
       \/ rules[j].priority < rules[i].priority
       \/ rules[j].priority = rules[i].priority /\ i < j
=============================================================================
