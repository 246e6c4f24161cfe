------------------------------ MODULE RateLimit ------------------------------
(***************************************************************************)
(* The token buckets of internal/ratelimit and the registry that hands     *)
(* them out by key.  Registry.Allow takes the bucket under the registry's  *)
(* mutex and spends from it under the bucket's own: a Reset can come       *)
(* between the two.                                                        *)
(*                                                                         *)
(* The floats are scaled to integers: a tick of the clock refills Rate, a  *)
(* request costs Unit, a bucket holds Burst * Unit.  Clocks are read with  *)
(* time.Now().UTC(), which drops the monotonic reading: they can be set    *)
(* back.                                                                   *)
(***************************************************************************)
EXTENDS Integers, FiniteSets

CONSTANTS
  Callers, BucketKey,
  NoBucket,      \* a caller between two calls
  Rate, Unit, Burst,
  MaxWallClock,  \* bound on the clock
  MaxElapsed,    \* bound on the ticks of a behaviour
  MaxBuckets     \* bound on the buckets ever made

ASSUME RateAssumption == /\ Rate \in Nat \ {0}
                         /\ Unit \in Nat \ {0}
                         /\ Burst \in Nat \ {0}
                         /\ MaxBuckets \in Nat

VARIABLES
  wallClock, \* the wall clock
  elapsed,   \* ticks of the clock so far, repeated ones included
  made,      \* buckets made so far; their names are 1 .. made
  buckets,   \* every bucket made: tokens and last
  registry,  \* Registry.buckets, 0 where a key has none
  fetched,   \* the bucket a caller of Allow has fetched
  spent,     \* what each bucket has granted since its window began
  since,     \* elapsed when that window began
  resets     \* successful Resets of each key

rateVars == <<wallClock, elapsed, made, buckets, registry, fetched, spent, since, resets>>
-----------------------------------------------------------------------------
Capacity == Burst * Unit

BucketID == 1 .. MaxBuckets

Bucket == [key: BucketKey, tokens: 0 .. Capacity, last: Nat]

NewBucket(k) == [key |-> k, tokens |-> Capacity, last |-> wallClock]

RateInit == /\ wallClock = 0
            /\ elapsed = 0
            /\ made = 0
            /\ buckets = <<>>
            /\ registry = [k \in BucketKey |-> 0]
            /\ fetched = [c \in Callers |-> NoBucket]
            /\ spent = <<>>
            /\ since = <<>>
            /\ resets = [k \in BucketKey |-> 0]

Advance == /\ wallClock < MaxWallClock
           /\ elapsed < MaxElapsed
           /\ wallClock' = wallClock + 1
           /\ elapsed' = elapsed + 1
           /\ UNCHANGED <<made, buckets, registry, fetched, spent, since, resets>>

StepBack == /\ wallClock > 0
            /\ wallClock' = wallClock - 1
            /\ UNCHANGED <<elapsed, made, buckets, registry, fetched, spent, since, resets>>
-----------------------------------------------------------------------------
MissingAlways(k) == TRUE

Missing(k) == registry[k] = 0

\* The bucket half of Registry.Allow: made on first use.
FetchBucket(c, k) ==
  /\ fetched[c] = NoBucket
  /\ IF Missing(k)
     THEN /\ made < MaxBuckets
          /\ made' = made + 1
          /\ buckets' = [b \in 1 .. made' |-> IF b \in 1 .. made THEN buckets[b]
                                                                ELSE NewBucket(k)]
          /\ spent' = [b \in 1 .. made' |-> IF b \in 1 .. made THEN spent[b] ELSE 0]
          /\ since' = [b \in 1 .. made' |-> IF b \in 1 .. made THEN since[b] ELSE elapsed]
          /\ registry' = [registry EXCEPT ![k] = made']
          /\ fetched' = [fetched EXCEPT ![c] = made']
     ELSE /\ fetched' = [fetched EXCEPT ![c] = registry[k]]
          /\ UNCHANGED <<made, buckets, registry, spent, since>>
  /\ UNCHANGED <<wallClock, elapsed, resets>>

\* Time since the bucket was last used; none when the clock was set back.
SinceLast(b) == IF wallClock > b.last THEN wallClock - b.last ELSE 0

RemainingUncapped(b) == b.tokens + SinceLast(b) * Rate

\* Bucket.Remaining, and the refill at the start of allow.
Remaining(b) ==
  LET tokens == b.tokens + SinceLast(b) * Rate
  IN  IF tokens > Capacity THEN Capacity ELSE tokens

\* Bucket.Allow: a limited call refills but takes nothing.
Allow(c) ==
  LET b == fetched[c]
      full == Remaining(buckets[b])
      grant == IF full < Unit THEN 0 ELSE Unit
  IN  /\ b # NoBucket
      /\ buckets' = [buckets EXCEPT ![b].tokens = full - grant, ![b].last = wallClock]
      /\ spent' = [spent EXCEPT ![b] = @ + grant]
      /\ fetched' = [fetched EXCEPT ![c] = NoBucket]
      /\ UNCHANGED <<wallClock, elapsed, made, registry, since, resets>>

\* Not code: the observer counts a bucket's grants from any moment on.
StartWindow(b) ==
  /\ spent' = [spent EXCEPT ![b] = 0]
  /\ since' = [since EXCEPT ![b] = elapsed]
  /\ UNCHANGED <<wallClock, elapsed, made, buckets, registry, fetched, resets>>

\* Registry.Reset of a known key; of an unknown one it changes nothing.
Reset(k) ==
  /\ ~ Missing(k)
  /\ registry' = [registry EXCEPT ![k] = 0]
  /\ resets' = [resets EXCEPT ![k] = @ + 1]
  /\ UNCHANGED <<wallClock, elapsed, made, buckets, fetched, spent, since>>

RateNext == \/ Advance \/ StepBack
            \/ \E c \in Callers : Allow(c) \/ \E k \in BucketKey : FetchBucket(c, k)
            \/ \E k \in BucketKey : Reset(k)
            \/ \E b \in 1 .. made : StartWindow(b)

RateSpec == RateInit /\ [][RateNext]_rateVars
-----------------------------------------------------------------------------
(***************************************************************************)
(* Properties.                                                             *)
(***************************************************************************)
RateTypeOK == /\ wallClock \in Nat
              /\ elapsed \in Nat
              /\ made \in 0 .. MaxBuckets
              /\ buckets \in [1 .. made -> Bucket]
              /\ registry \in [BucketKey -> 0 .. made]
              /\ fetched \in [Callers -> (1 .. made) \cup {NoBucket}]
              /\ spent \in [1 .. made -> Nat]
              /\ since \in [1 .. made -> Nat]
              /\ resets \in [BucketKey -> Nat]

\* Over any window of time a bucket grants at most its burst and what the
\* ticks of the window refill, whoever shares it, however long it was idle
\* before, and however often the clock is set back.
GrantsBounded ==
  \A b \in 1 .. made : spent[b] <= Capacity + Rate * (elapsed - since[b])

\* The buckets a key has had.
Made(k) == {b \in 1 .. made : buckets[b].key = k}

\* A key starts with a full burst once, and once more for every Reset:
\* callers that race for a new key share the bucket.
BurstPerReset ==
  \A k \in BucketKey : Cardinality(Made(k)) = resets[k] + (IF Missing(k) THEN 0 ELSE 1)
=============================================================================
