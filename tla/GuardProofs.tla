----------------------------- MODULE GuardProofs -----------------------------
(***************************************************************************)
(* The components that guard the others, for every value of the constants: *)
(* the properties of FencingLease for any numbers of goroutines, keys and  *)
(* owners and any lifetime of a lease, those of RateLimit for every rate,  *)
(* unit and burst and any numbers of callers, keys, buckets and ticks.     *)
(***************************************************************************)
EXTENDS FencingLease, RateLimit, FiniteSetTheorems, TLAPS

-----------------------------------------------------------------------------
(***************************************************************************)
(* FencingLease.                                                           *)
(***************************************************************************)
\* As long as something has been returned since the last deletion a lease is
\* stored, and no returned version is greater than its.
GrantsBelow ==
  \A g \in granted : leases[g.key] # NoLease /\ g.version <= leases[g.key].version
-----------------------------------------------------------------------------
\* The calls by kind.
AcquireCall == [op: {"acquire", "renew"}, key: Key, lease: Lease]
ExpireCall == [op: {"expire"}, todo: SUBSET Key, at: Nat]
DropCall == [op: {"drop"}, todo: SUBSET Key, at: Nat, key: Key, lease: Lease]

\* A call's operation tells its kind.
LEMMA Kinds ==
  ASSUME TypeOK, NEW p \in Procs
  PROVE  /\ In(p, "acquire") \/ In(p, "renew") => call[p] \in AcquireCall
         /\ In(p, "expire") => call[p] \in ExpireCall
         /\ In(p, "drop") => call[p] \in DropCall
  <1>1. call[p] \in Call \cup {NoCall}
    BY Zenon DEF TypeOK
  <1>2. CASE call[p] \in AcquireCall
    BY Zenon, <1>2 DEF In, AcquireCall
  <1>3. CASE call[p] \in ExpireCall
    BY Zenon, <1>3 DEF In, ExpireCall
  <1>4. CASE call[p] \in DropCall
    BY Zenon, <1>4 DEF In, DropCall
  <1> QED BY Zenon, <1>1, <1>2, <1>3, <1>4 DEF Call, AcquireCall, ExpireCall, DropCall, In

\* What a step may do to the store and to the record of what was returned.
Kept == leases' = leases /\ granted' = granted

Accepted(k, l) == /\ PutAccepts(k, l)
                  /\ leases' = [leases EXCEPT ![k] = l]
                  /\ granted' = granted \cup {Returned(k, l)}

Refused(k, l) == /\ ~ PutAccepts(k, l)
                 /\ leases' = leases
                 /\ granted' = granted \cup {Returned(k, l)}

Deleted(k) == /\ leases' = [leases EXCEPT ![k] = NoLease]
              /\ granted' = {g \in granted : g.key # k}

\* Store.Delete, whoever calls it.
LEMMA DeleteEffect ==
  ASSUME NEW k \in Key, NEW o, NEW v, Delete(k, o, v)
  PROVE  Kept \/ Deleted(k)
  BY Zenon DEF Delete, Kept, Deleted

\* Store.Put at the end of Acquire or Renew.
LEMMA StoreEffect ==
  ASSUME TypeOK, NEW p \in Procs, Store(p)
  PROVE  Kept \/ \E k \in Key, l \in Lease : Accepted(k, l) \/ Refused(k, l)
  <1>1. call[p] \in AcquireCall
    BY Zenon, Kinds DEF Store, StoreAcquired, StoreRenewed
  <1>2. PICK k, l : k = call[p].key /\ l = call[p].lease
    BY Zenon
  <1>3. k \in Key /\ l \in Lease
    BY Zenon, <1>1, <1>2 DEF AcquireCall
  <1>4. CASE StoreAcquired(p)
    <2>1. Accepted(k, l) \/ Refused(k, l)
      BY Zenon, <1>2, <1>4 DEF StoreAcquired, Put, Accepted, Refused
    <2> QED BY Zenon, <1>3, <2>1
  <1>5. CASE StoreRenewed(p)
    <2>1. PICK clock \in l.expires .. now :
            LET m == [l EXCEPT !.expires = clock + TTL]
            IN  /\ Put(k, m)
                /\ granted' = IF PutAccepts(k, m)
                              THEN granted \cup {Returned(k, m)} ELSE granted
      BY Zenon, <1>2, <1>5 DEF StoreRenewed
    <2>2. PICK m : m = [l EXCEPT !.expires = clock + TTL]
      BY Zenon
    <2>3. clock + TTL \in Nat
      BY <1>3, LeaseAssumption DEF Lease, TypeOK
    <2>4. m \in Lease
      BY Zenon, <1>3, <2>2, <2>3 DEF Lease
    <2>5. Kept \/ Accepted(k, m)
      BY Zenon, <2>1, <2>2 DEF Put, Accepted, Kept
    <2> QED BY Zenon, <1>3, <2>4, <2>5
  <1> QED BY Zenon, <1>4, <1>5 DEF Store

\* Every step.
LEMMA StepEffect ==
  ASSUME TypeOK, [Next]_vars
  PROVE  \/ Kept
         \/ \E k \in Key : Deleted(k)
         \/ \E k \in Key, l \in Lease : Accepted(k, l) \/ Refused(k, l)
  <1>1. CASE UNCHANGED <<leases, granted>>
    BY Zenon, <1>1 DEF Kept
  <1>2. ASSUME NEW p \in Procs, ExpireDelete(p)
        PROVE  Kept \/ \E k \in Key : Deleted(k)
    <2>1. call[p].key \in Key
      BY Zenon, <1>2, Kinds DEF ExpireDelete, DropCall
    <2> QED BY Zenon, <1>2, <2>1, DeleteEffect DEF ExpireDelete
  <1>3. ASSUME NEW p \in Procs, NEW k \in Key, NEW v, Release(p, k, v)
        PROVE  Kept \/ Deleted(k)
    BY Zenon, <1>3, DeleteEffect DEF Release
  <1> QED BY ZenonT(30), <1>1, <1>2, <1>3, StoreEffect
          DEF Next, Step, Tick, Acquire, Renew, ExpireStale, ExpireGet, ExpireDone, vars

\* A returned lease is a grant.
LEMMA ReturnedIsGrant ==
  ASSUME NEW k \in Key, NEW l \in Lease
  PROVE  Returned(k, l) \in Grant
  <1>1. PutAccepts(k, l) \in BOOLEAN
    BY Zenon DEF PutAccepts, Newer
  <1>2. l.owner \in Owner /\ l.version \in Nat \ {0}
    BY Zenon DEF Lease
  <1> QED BY Zenon, <1>1, <1>2 DEF Returned, Grant

\* A new call is well-formed.
LEMMA GotoTypes ==
  ASSUME TypeOK, NEW p \in Procs, NEW c \in Call \cup {NoCall}, Goto(p, c)
  PROVE  call' \in [Procs -> Call \cup {NoCall}]
  BY Zenon DEF Goto, TypeOK

\* Every variable keeps its type.
LEMMA TypeInv == Spec => []TypeOK
  <1>1. Init => TypeOK
    BY DEF Init, TypeOK
  <1>2. TypeOK /\ [Next]_vars => TypeOK'
    <2> SUFFICES ASSUME TypeOK, [Next]_vars
                 PROVE  TypeOK'
      BY Zenon
    <2>1. /\ leases' \in [Key -> Lease \cup {NoLease}]
          /\ granted' \subseteq Grant
      <3>1. CASE Kept
        BY Zenon, <3>1 DEF Kept, TypeOK
      <3>2. ASSUME NEW k \in Key, Deleted(k)
            PROVE  leases' \in [Key -> Lease \cup {NoLease}] /\ granted' \subseteq Grant
        BY Zenon, <3>2 DEF Deleted, TypeOK
      <3>3. ASSUME NEW k \in Key, NEW l \in Lease, Accepted(k, l) \/ Refused(k, l)
            PROVE  leases' \in [Key -> Lease \cup {NoLease}] /\ granted' \subseteq Grant
        <4>1. leases' = leases \/ leases' = [leases EXCEPT ![k] = l]
          BY Zenon, <3>3 DEF Accepted, Refused
        <4>2. granted' = granted \cup {Returned(k, l)}
          BY Zenon, <3>3 DEF Accepted, Refused
        <4>3. leases' \in [Key -> Lease \cup {NoLease}]
          BY Zenon, <4>1 DEF TypeOK
        <4> QED BY Zenon, <4>2, <4>3, ReturnedIsGrant DEF TypeOK
      <3> QED BY Zenon, <3>1, <3>2, <3>3, StepEffect
    <2>2. CASE Tick
      BY <2>2 DEF Tick, TypeOK
    <2>3. ASSUME NEW p \in Procs, NEW k \in Key, NEW clock \in 0 .. now, Acquire(p, k, clock)
          PROVE  TypeOK'
      <3> DEFINE l == [owner |-> OwnerOf[p], version |-> NextVersion(k),
                       expires |-> clock + TTL]
                 c == [op |-> "acquire", key |-> k, lease |-> l]
      <3>1. NextVersion(k) \in Nat \ {0}
        BY DEF NextVersion, TypeOK, Lease
      <3>2. l \in Lease
        BY <3>1, LeaseAssumption DEF Lease, TypeOK
      <3>3. c \in Call
        BY Zenon, <3>2 DEF Call
      <3> QED BY Zenon, <2>3, <3>3, GotoTypes DEF Acquire, TypeOK
    <2>4. ASSUME NEW p \in Procs, NEW k \in Key, Renew(p, k)
          PROVE  TypeOK'
      <3> DEFINE l == [leases[k] EXCEPT !.expires = now]
                 c == [op |-> "renew", key |-> k, lease |-> l]
      <3>1. leases[k] \in Lease
        BY Zenon, <2>4 DEF Renew, TypeOK
      <3>2. l \in Lease
        BY Zenon, <3>1 DEF Lease, TypeOK
      <3>3. c \in Call
        BY Zenon, <3>2 DEF Call
      <3> QED BY Zenon, <2>4, <3>3, GotoTypes DEF Renew, TypeOK
    <2>5. ASSUME NEW p \in Procs, Store(p)
          PROVE  TypeOK'
      BY Zenon, <2>1, <2>5, GotoTypes DEF Store, TypeOK
    <2>6. ASSUME NEW p \in Procs, NEW k \in Key, NEW v, Release(p, k, v)
          PROVE  TypeOK'
      BY Zenon, <2>1, <2>6 DEF Release, TypeOK
    <2>7. ASSUME NEW p \in Procs, NEW keys \in SUBSET Key, ExpireStale(p, keys)
          PROVE  TypeOK'
      <3>1. [op |-> "expire", todo |-> keys, at |-> now] \in Call
        BY Zenon DEF Call, TypeOK
      <3> QED BY Zenon, <2>7, <3>1, GotoTypes DEF ExpireStale, TypeOK
    <2>8. ASSUME NEW p \in Procs, NEW k \in Key, ExpireGet(p, k)
          PROVE  TypeOK'
      <3> DEFINE c == call[p]
                 d == [op |-> "drop", todo |-> c.todo \ {k}, at |-> c.at,
                       key |-> k, lease |-> leases[k]]
      <3>1. c \in ExpireCall
        BY Zenon, <2>8, Kinds DEF ExpireGet
      <3>2. leases[k] # NoLease => d \in Call
        BY Zenon, <3>1 DEF ExpireCall, Call, TypeOK
      <3>3. [c EXCEPT !.todo = @ \ {k}] \in Call
        BY Zenon, <3>1 DEF ExpireCall, Call
      <3> HIDE DEF d
      <3>4. Goto(p, IF leases[k] # NoLease /\ Stale(leases[k], c.at)
                    THEN d ELSE [c EXCEPT !.todo = @ \ {k}])
        BY Zenon, <2>8 DEF ExpireGet, d
      <3>5. call' \in [Procs -> Call \cup {NoCall}]
        BY Zenon, <3>2, <3>3, <3>4, GotoTypes
      <3> QED BY Zenon, <2>8, <3>5 DEF ExpireGet, TypeOK
    <2>9. ASSUME NEW p \in Procs, ExpireDelete(p)
          PROVE  TypeOK'
      <3>1. call[p] \in DropCall
        BY Zenon, <2>9, Kinds DEF ExpireDelete
      <3>2. [op |-> "expire", todo |-> call[p].todo, at |-> call[p].at] \in Call
        BY Zenon, <3>1 DEF DropCall, Call
      <3> QED BY Zenon, <2>1, <2>9, <3>2, GotoTypes DEF ExpireDelete, TypeOK
    <2>10. ASSUME NEW p \in Procs, ExpireDone(p)
          PROVE  TypeOK'
      BY Zenon, <2>10, GotoTypes DEF ExpireDone, TypeOK
    <2>11. CASE UNCHANGED vars
      BY Zenon, <2>11 DEF vars, TypeOK
    <2> QED BY Zenon, <2>2, <2>3, <2>4, <2>5, <2>6, <2>7, <2>8, <2>9, <2>10, <2>11
            DEF Next, Step
  <1> QED BY <1>1, <1>2, PTL DEF Spec
-----------------------------------------------------------------------------
\* What is returned stays below what is stored, and stored versions apart.
LEMMA GrantsInv == Spec => [](GrantsBelow /\ OneOwnerPerVersion)
  <1>1. Init => GrantsBelow /\ OneOwnerPerVersion
    BY Zenon DEF Init, GrantsBelow, OneOwnerPerVersion
  <1>2. TypeOK /\ TypeOK' /\ GrantsBelow /\ OneOwnerPerVersion /\ [Next]_vars
          => (GrantsBelow /\ OneOwnerPerVersion)'
    <2> SUFFICES ASSUME TypeOK, TypeOK', GrantsBelow, OneOwnerPerVersion, [Next]_vars
                 PROVE  GrantsBelow' /\ OneOwnerPerVersion'
      BY Zenon
    <2>1. ASSUME NEW h \in granted
          PROVE  /\ h.key \in Key /\ h.version \in Nat
                 /\ leases[h.key] # NoLease => leases[h.key].version \in Nat
      BY Zenon DEF TypeOK, Grant, Lease
    <2>2. CASE Kept
      BY Zenon, <2>2 DEF Kept, GrantsBelow, OneOwnerPerVersion
    <2>3. ASSUME NEW k \in Key, Deleted(k)
          PROVE  GrantsBelow' /\ OneOwnerPerVersion'
      <3>1. \A h \in granted' : h \in granted /\ leases'[h.key] = leases[h.key]
        BY Zenon, <2>1, <2>3 DEF Deleted, TypeOK
      <3> QED BY Zenon, <3>1 DEF GrantsBelow, OneOwnerPerVersion
    <2>4. ASSUME NEW k \in Key, NEW l \in Lease, Accepted(k, l) \/ Refused(k, l)
          PROVE  GrantsBelow' /\ OneOwnerPerVersion'
      <3>1. PICK g \in Grant : g = Returned(k, l)
        BY Zenon, ReturnedIsGrant
      <3>2. g.key = k /\ g.version = l.version /\ (g.stored <=> PutAccepts(k, l))
        BY Zenon, <3>1 DEF Returned
      <3>3. granted' = granted \cup {g}
        BY Zenon, <2>4, <3>1 DEF Accepted, Refused
      <3>4. \A j \in Key : j # k => leases'[j] = leases[j]
        BY Zenon, <2>4 DEF Accepted, Refused, TypeOK
      <3>5. /\ l.version \in Nat /\ l # NoLease
            /\ leases[k] # NoLease => leases[k].version \in Nat
        BY Zenon, NoLeaseAssumption DEF Lease, TypeOK
      <3>6. CASE Accepted(k, l)
        <4>1. /\ leases'[k] = l /\ g.stored
              /\ leases[k] # NoLease => l.version > leases[k].version
          BY Zenon, <3>2, <3>6 DEF Accepted, PutAccepts, Newer, TypeOK
        <4>2. ASSUME NEW h \in granted, h.key = k
              PROVE  h.version < l.version
          <5>1. leases[k] # NoLease /\ h.version <= leases[k].version
            BY Zenon, <4>2 DEF GrantsBelow
          <5> QED BY <2>1, <3>5, <4>1, <5>1
        <4>3. ASSUME NEW h \in granted'
              PROVE  leases'[h.key] # NoLease /\ h.version <= leases'[h.key].version
          <5>1. CASE h = g
            BY <3>2, <3>5, <4>1, <5>1
          <5>2. CASE h \in granted /\ h.key = k
            BY <2>1, <3>5, <4>1, <4>2, <5>2
          <5>3. CASE h \in granted /\ h.key # k
            BY Zenon, <2>1, <3>4, <5>3 DEF GrantsBelow
          <5> QED BY Zenon, <3>3, <5>1, <5>2, <5>3
        <4>4. ASSUME NEW h \in granted, h.key = g.key, h.version = g.version
              PROVE  FALSE
          BY <2>1, <3>2, <3>5, <4>2, <4>4
        <4>5. OneOwnerPerVersion'
          BY Zenon, <3>3, <4>4 DEF OneOwnerPerVersion
        <4> QED BY Zenon, <4>3, <4>5 DEF GrantsBelow
      <3>7. CASE Refused(k, l)
        <4>1. /\ leases' = leases /\ ~ g.stored
              /\ leases[k] # NoLease /\ ~ (l.version > leases[k].version)
          BY Zenon, <3>2, <3>7 DEF Refused, PutAccepts, Newer
        <4>2. l.version <= leases[k].version
          BY <3>5, <4>1
        <4>3. \A h \in granted' : leases'[h.key] # NoLease /\ h.version <= leases'[h.key].version
          BY Zenon, <3>2, <3>3, <4>1, <4>2 DEF GrantsBelow
        <4>4. OneOwnerPerVersion'
          BY Zenon, <3>3, <4>1 DEF OneOwnerPerVersion
        <4> QED BY Zenon, <4>3, <4>4 DEF GrantsBelow
      <3> QED BY Zenon, <2>4, <3>6, <3>7
    <2> QED BY Zenon, <2>2, <2>3, <2>4, StepEffect
  <1> QED BY <1>1, <1>2, TypeInv, PTL DEF Spec

\* Manager.Acquire and Store.Put: claims that race for a key never store two
\* leases of the same version for different owners before a deletion.
THEOREM VersionsAreFences == Spec => []OneOwnerPerVersion
  BY GrantsInv, PTL

\* Manager.Acquire: the next claim of a key outranks every lease returned since
\* the last deletion, those included whose Put was refused.
THEOREM ClaimsOutrank == Spec => []LaterClaimsOutrank
  <1>1. TypeOK /\ GrantsBelow => LaterClaimsOutrank
    <2> SUFFICES ASSUME TypeOK, GrantsBelow, NEW g \in granted
                 PROVE  NextVersion(g.key) > g.version
      BY Zenon DEF LaterClaimsOutrank
    <2>1. leases[g.key] # NoLease /\ g.version <= leases[g.key].version
      BY Zenon DEF GrantsBelow
    <2>2. g.version \in Nat /\ leases[g.key].version \in Nat
      BY Zenon, <2>1 DEF TypeOK, Grant, Lease
    <2> QED BY <2>1, <2>2 DEF NextVersion
  <1> QED BY <1>1, TypeInv, GrantsInv, PTL
-----------------------------------------------------------------------------
(***************************************************************************)
(* RateLimit.                                                              *)
(***************************************************************************)
\* Remaining as a function of the bucket and the time alone.
Lapse(b, t) == IF t > b.last THEN t - b.last ELSE 0

Held(b, t) ==
  LET tokens == b.tokens + Lapse(b, t) * Rate
  IN  IF tokens > Capacity THEN Capacity ELSE tokens

\* What a bucket has granted and what it could still grant, together, are
\* bounded.  GrantsBounded alone is not inductive: it says nothing of what a
\* bucket has saved up.
Accounted ==
  \A b \in 1 .. made :
    spent[b] + Held(buckets[b], wallClock) <= Capacity + Rate * (elapsed - since[b])
-----------------------------------------------------------------------------
\* A bucket holds an integral positive amount.
LEMMA CapacityNat == Capacity \in Nat
  <1>1. \A u, n \in Nat : n * u \in Nat
    OBVIOUS
  <1> QED BY Zenon, <1>1, RateAssumption DEF Capacity

\* One more tick refills Rate more (a fact about products the provers need
\* to be told).
LEMMA OneMore == \A n \in Int : Rate * n \in Int /\ Rate * (n + 1) = Rate * n + Rate
  <1>1. \A r, n \in Int : r * n \in Int /\ r * (n + 1) = r * n + r
    OBVIOUS
  <1> QED BY <1>1, RateAssumption

\* What is refilled is a natural number.
LEMMA RefillNat == \A n \in Nat : n * Rate \in Nat /\ Rate * n = n * Rate
  <1>1. \A r, n \in Nat : n * r \in Nat /\ r * n = n * r
    OBVIOUS
  <1> QED BY Zenon, <1>1, RateAssumption

\* Remaining is Held at the present time.
LEMMA RemainingIsHeld == \A b : Remaining(b) = Held(b, wallClock)
  BY Zenon DEF Remaining, SinceLast, Held, Lapse

\* A bucket never holds more than the capacity.
LEMMA HeldBounded ==
  ASSUME NEW t \in Nat, NEW b \in Bucket
  PROVE  Held(b, t) \in 0 .. Capacity
  <1> DEFINE s == Lapse(b, t)
  <1>1. b.tokens \in 0 .. Capacity /\ s \in Nat
    BY DEF Bucket, Lapse
  <1>2. s * Rate \in Nat
    BY Zenon, <1>1, RefillNat
  <1>3. Held(b, t) = IF b.tokens + s * Rate > Capacity THEN Capacity ELSE b.tokens + s * Rate
    BY Zenon DEF Held
  <1> QED BY <1>1, <1>2, <1>3, CapacityNat

\* A bucket holds what it was left with at the time it was last used.
LEMMA HeldAtLast ==
  ASSUME NEW b \in Bucket
  PROVE  Held(b, b.last) = b.tokens
  <1>1. b.tokens \in 0 .. Capacity /\ b.last \in Nat
    BY Zenon DEF Bucket
  <1>2. 0 * Rate = 0
    BY RateAssumption
  <1>3. Held(b, b.last) = IF b.tokens + 0 * Rate > Capacity THEN Capacity ELSE b.tokens + 0 * Rate
    BY <1>1 DEF Held, Lapse
  <1> QED BY <1>1, <1>2, <1>3, CapacityNat

\* A tick adds at most Rate to what a bucket holds, and takes nothing away.
LEMMA HeldOverTime ==
  ASSUME NEW t \in Nat, NEW b \in Bucket
  PROVE  /\ Held(b, t + 1) <= Held(b, t) + Rate
         /\ Held(b, t) <= Held(b, t + 1)
  <1> DEFINE s == Lapse(b, t)
             u == Lapse(b, t + 1)
             sr == s * Rate
             ur == u * Rate
  <1>1. b.tokens \in 0 .. Capacity /\ b.last \in Nat
    BY Zenon DEF Bucket
  <1>2. s \in Nat /\ (u = s \/ u = s + 1)
    BY <1>1 DEF Lapse
  <1>3. /\ Held(b, t) = IF b.tokens + sr > Capacity THEN Capacity ELSE b.tokens + sr
        /\ Held(b, t + 1) = IF b.tokens + ur > Capacity THEN Capacity ELSE b.tokens + ur
    BY Zenon DEF Held
  <1> HIDE DEF s, u
  <1>4. sr \in Nat /\ (ur = sr \/ ur = sr + Rate)
    <2>1. s * Rate = Rate * s /\ u * Rate = Rate * u /\ s * Rate \in Nat
      BY <1>2, RefillNat
    <2>2. Rate * (s + 1) = Rate * s + Rate
      BY <1>2, OneMore
    <2> QED BY Zenon, <1>2, <2>1, <2>2
  <1> HIDE DEF sr, ur
  <1> QED BY <1>1, <1>3, <1>4, CapacityNat, RateAssumption

\* Types, for every action.
LEMMA RateTypeInv == RateSpec => []RateTypeOK
  <1>1. RateInit => RateTypeOK
    BY RateAssumption DEF RateInit, RateTypeOK
  <1>2. RateTypeOK /\ [RateNext]_rateVars => RateTypeOK'
    <2> SUFFICES ASSUME RateTypeOK, [RateNext]_rateVars
                 PROVE  RateTypeOK'
      BY Zenon
    <2> USE DEF RateTypeOK
    <2>1. CASE Advance
      BY <2>1 DEF Advance
    <2>2. CASE StepBack
      BY <2>2 DEF StepBack
    <2>3. ASSUME NEW c \in Callers, Allow(c)
          PROVE  RateTypeOK'
      <3> DEFINE b == fetched[c]
                 full == Remaining(buckets[b])
                 grant == IF full < Unit THEN 0 ELSE Unit
      <3>1. b \in 1 .. made /\ buckets[b] \in Bucket
        BY Zenon, <2>3 DEF Allow
      <3>2. full \in 0 .. Capacity
        BY ZenonT(30), <3>1, HeldBounded, RemainingIsHeld
      <3>3. grant \in Nat /\ full - grant \in 0 .. Capacity
        BY <3>2, RateAssumption, CapacityNat
      <3> HIDE DEF full, grant
      <3>4. buckets' = [buckets EXCEPT ![b].tokens = full - grant, ![b].last = wallClock]
        BY Zenon, <2>3 DEF Allow, full, grant
      <3>5. [buckets[b] EXCEPT !.tokens = full - grant, !.last = wallClock] \in Bucket
        BY ZenonT(30), <3>1, <3>3 DEF Bucket
      <3>6. buckets' \in [1 .. made -> Bucket]
        BY Zenon, <3>1, <3>4, <3>5
      <3>7. spent' \in [1 .. made -> Nat]
        BY <2>3, <3>1, <3>3 DEF Allow, full, grant
      <3>8. UNCHANGED <<wallClock, elapsed, made, registry, since, resets>> /\ fetched' = [fetched EXCEPT ![c] = NoBucket]
        BY Zenon, <2>3 DEF Allow
      <3> QED BY ZenonT(30), <3>6, <3>7, <3>8
    <2>4. ASSUME NEW c \in Callers, NEW k \in BucketKey, FetchBucket(c, k)
          PROVE  RateTypeOK'
      <3>1. CASE Missing(k)
        <4>1. made' = made + 1 /\ made' \in 0 .. MaxBuckets
          BY <2>4, <3>1, RateAssumption DEF FetchBucket
        <4>2. NewBucket(k) \in Bucket
          BY CapacityNat DEF NewBucket, Bucket
        <4>3. buckets' \in [1 .. made' -> Bucket]
          BY Zenon, <2>4, <3>1, <4>2 DEF FetchBucket
        <4>4. spent' \in [1 .. made' -> Nat] /\ since' \in [1 .. made' -> Nat]
          BY <2>4, <3>1 DEF FetchBucket
        <4>5. registry' \in [BucketKey -> 0 .. made'] /\ fetched' \in [Callers -> (1 .. made') \cup {NoBucket}]
          <5>1. registry' = [registry EXCEPT ![k] = made'] /\ fetched' = [fetched EXCEPT ![c] = made']
            BY Zenon, <2>4, <3>1 DEF FetchBucket
          <5>2. 0 .. made \subseteq 0 .. made' /\ 1 .. made \subseteq 1 .. made'
            BY <4>1
          <5>3. made' \in 1 .. made' /\ made' \in 0 .. made'
            BY <4>1
          <5> QED BY <5>1, <5>2, <5>3, Zenon
        <4>6. UNCHANGED <<wallClock, elapsed, resets>>
          BY Zenon, <2>4 DEF FetchBucket
        <4> QED BY Zenon, <4>1, <4>3, <4>4, <4>5, <4>6
      <3>2. CASE ~ Missing(k)
        BY <2>4, <3>2 DEF FetchBucket, Missing
      <3> QED BY Zenon, <3>1, <3>2
    <2>5. ASSUME NEW k \in BucketKey, Reset(k)
          PROVE  RateTypeOK'
      <3>1. registry' \in [BucketKey -> 0 .. made]
        BY <2>5 DEF Reset
      <3>2. resets' \in [BucketKey -> Nat]
        BY <2>5 DEF Reset
      <3> QED BY Zenon, <2>5, <3>1, <3>2 DEF Reset
    <2>6. ASSUME NEW b \in 1 .. made, StartWindow(b)
          PROVE  RateTypeOK'
      BY Zenon, <2>6 DEF StartWindow
    <2>7. CASE UNCHANGED rateVars
      BY Zenon, <2>7 DEF rateVars
    <2> QED BY ZenonT(30), <2>1, <2>2, <2>3, <2>4, <2>5, <2>6, <2>7 DEF RateNext
  <1> QED BY <1>1, <1>2, PTL DEF RateSpec


\* Every step keeps the account of every bucket.
LEMMA AccountStep ==
  ASSUME RateTypeOK, RateTypeOK', Accounted, [RateNext]_rateVars
  PROVE  Accounted'
  <1> DEFINE refill(n) == Rate * n
             Fine(b) == spent[b] + Held(buckets[b], wallClock) <= Capacity + refill(elapsed - since[b])
  <1>1. \A n \in Int : refill(n) \in Int /\ refill(n + 1) = refill(n) + Rate
    BY Zenon, OneMore
  <1>2. refill(0) = 0
    BY RateAssumption
  <1>3. \A b \in 1 .. made : Fine(b)
    BY Zenon DEF Accounted
  <1>4. \A b \in 1 .. made : /\ buckets[b] \in Bucket
                            /\ spent[b] \in Nat
                            /\ elapsed - since[b] \in Int
                            /\ Held(buckets[b], wallClock) \in 0 .. Capacity
    BY HeldBounded DEF RateTypeOK
  <1>5. \A b \in 1 .. made' : /\ buckets'[b] \in Bucket
                             /\ Held(buckets'[b], wallClock') \in 0 .. Capacity
    BY Zenon, HeldBounded DEF RateTypeOK
  <1> SUFFICES ASSUME NEW b \in 1 .. made'
               PROVE  Fine(b)'
    BY Zenon DEF Accounted, Capacity, Held
  <1> HIDE DEF refill
  <1>6. CASE Advance
    <2>1. /\ b \in 1 .. made /\ spent'[b] = spent[b] /\ buckets'[b] = buckets[b]
          /\ elapsed' - since'[b] = (elapsed - since[b]) + 1
          /\ wallClock \in Nat /\ wallClock' = wallClock + 1
      BY <1>6 DEF Advance, RateTypeOK
    <2>2. Held(buckets[b], wallClock + 1) <= Held(buckets[b], wallClock) + Rate
      BY Zenon, <2>1, <1>4, HeldOverTime
    <2> DEFINE n == elapsed - since[b]
    <2> HIDE DEF n
    <2>3. refill(n) \in Int /\ refill(n + 1) = refill(n) + Rate /\ elapsed' - since'[b] = n + 1
      BY Zenon, <2>1, <1>1, <1>4 DEF n
    <2>4. spent[b] + Held(buckets[b], wallClock) <= Capacity + refill(n)
      BY Zenon, <2>1, <1>3 DEF n
    <2>5. Held(buckets'[b], wallClock') = Held(buckets[b], wallClock + 1)
      BY Zenon, <2>1
    <2> QED BY <2>1, <2>2, <2>3, <2>4, <2>5, <1>4, <1>5, CapacityNat, RateAssumption
  <1>7. CASE StepBack
    <2>1. /\ b \in 1 .. made /\ spent'[b] = spent[b] /\ buckets'[b] = buckets[b]
          /\ elapsed' - since'[b] = elapsed - since[b]
          /\ wallClock' \in Nat /\ wallClock' + 1 = wallClock
      BY <1>7 DEF StepBack, RateTypeOK
    <2>2. Held(buckets[b], wallClock') <= Held(buckets[b], wallClock' + 1)
      BY Zenon, <2>1, <1>4, HeldOverTime
    <2> QED BY <2>1, <2>2, <1>1, <1>3, <1>4, <1>5, CapacityNat
  <1>8. ASSUME NEW c \in Callers, Allow(c)
        PROVE  Fine(b)'
    <2> DEFINE x == fetched[c]
               full == Held(buckets[x], wallClock)
               grant == IF full < Unit THEN 0 ELSE Unit
    <2>1. /\ x \in 1 .. made /\ b \in 1 .. made /\ wallClock' = wallClock
          /\ elapsed' - since'[b] = elapsed - since[b]
      BY Zenon, <1>8 DEF Allow, RateTypeOK
    <2>2. /\ buckets' = [buckets EXCEPT ![x].tokens = full - grant, ![x].last = wallClock]
          /\ spent' = [spent EXCEPT ![x] = @ + grant]
      BY Zenon, <1>8, RemainingIsHeld DEF Allow
    <2>3. full \in 0 .. Capacity /\ grant \in Nat /\ full - grant \in 0 .. Capacity
      BY <2>1, <1>4, RateAssumption, CapacityNat
    <2>4. CASE b # x
      <3>1. spent'[b] = spent[b] /\ buckets'[b] = buckets[b]
        BY Zenon, <2>1, <2>2, <2>4 DEF RateTypeOK
      <3> QED BY Zenon, <3>1, <2>1, <1>3
    <2>5. CASE b = x
      <3> HIDE DEF full, grant
      <3>1. buckets'[b].tokens = full - grant /\ buckets'[b].last = wallClock
        BY Zenon, <2>1, <2>2, <2>5, <1>4 DEF RateTypeOK, Bucket
      <3>2. Held(buckets'[b], wallClock') = full - grant
        BY Zenon, <3>1, <2>1, <1>5, HeldAtLast
      <3>3. spent'[b] = spent[b] + grant
        BY Zenon, <2>1, <2>2, <2>5 DEF RateTypeOK
      <3>4. spent[b] + full <= Capacity + refill(elapsed - since[b])
        BY Zenon, <1>3, <2>1, <2>5 DEF full
      <3> QED BY <3>2, <3>3, <3>4, <2>1, <2>3, <1>1, <1>4, CapacityNat
    <2> QED BY Zenon, <2>4, <2>5
  <1>9. ASSUME NEW c \in Callers, NEW k \in BucketKey, FetchBucket(c, k)
        PROVE  Fine(b)'
    <2>1. wallClock' = wallClock /\ elapsed' = elapsed
      BY Zenon, <1>9 DEF FetchBucket
    <2>2. CASE b \in 1 .. made
      <3>1. spent'[b] = spent[b] /\ buckets'[b] = buckets[b] /\ since'[b] = since[b]
        BY ZenonT(30), <1>9, <2>2 DEF FetchBucket
      <3> QED BY Zenon, <3>1, <2>1, <2>2, <1>3
    <2>3. CASE b \notin 1 .. made
      <3>1. spent'[b] = 0 /\ since'[b] = elapsed
        BY Zenon, <1>9, <2>3 DEF FetchBucket
      <3>2. elapsed' - since'[b] = 0
        BY <2>1, <3>1 DEF RateTypeOK
      <3> QED BY <3>1, <3>2, <1>2, <1>5, CapacityNat
    <2> QED BY Zenon, <2>2, <2>3
  <1>10. ASSUME NEW x \in 1 .. made, StartWindow(x)
         PROVE  Fine(b)'
    <2>1. b \in 1 .. made /\ wallClock' = wallClock /\ elapsed' = elapsed /\ buckets' = buckets
      BY Zenon, <1>10 DEF StartWindow
    <2>2. CASE b # x
      <3>1. spent'[b] = spent[b] /\ since'[b] = since[b]
        BY Zenon, <1>10, <2>1, <2>2 DEF StartWindow, RateTypeOK
      <3> QED BY Zenon, <3>1, <2>1, <1>3
    <2>3. CASE b = x
      <3>1. spent'[b] = 0 /\ elapsed' - since'[b] = 0
        BY <1>10, <2>1, <2>3 DEF StartWindow, RateTypeOK
      <3> QED BY <3>1, <1>2, <1>5, CapacityNat
    <2> QED BY Zenon, <2>2, <2>3
  <1>11. CASE UNCHANGED <<wallClock, elapsed, made, buckets, spent, since>>
    BY Zenon, <1>11, <1>3
  <1>12. (\E k \in BucketKey : Reset(k)) \/ UNCHANGED rateVars
           => UNCHANGED <<wallClock, elapsed, made, buckets, spent, since>>
    BY Zenon DEF Reset, rateVars
  <1> QED BY Zenon, <1>6, <1>7, <1>8, <1>9, <1>10, <1>11, <1>12 DEF RateNext

\* Registry.Allow and Bucket.Allow: over any window a bucket grants no more
\* than its burst and what the window's ticks refill.
THEOREM RateIsBounded == RateSpec => []GrantsBounded
  <1>1. RateInit => Accounted
    BY DEF RateInit, Accounted
  <1>2. RateTypeOK /\ RateTypeOK' /\ Accounted /\ [RateNext]_rateVars => Accounted'
    BY Zenon, AccountStep
  <1>3. RateTypeOK /\ Accounted => GrantsBounded
    <2> SUFFICES ASSUME RateTypeOK, Accounted, NEW b \in 1 .. made
                 PROVE  spent[b] <= Capacity + Rate * (elapsed - since[b])
      BY Zenon DEF GrantsBounded
    <2>1. Held(buckets[b], wallClock) \in 0 .. Capacity /\ spent[b] \in Nat
      BY Zenon, HeldBounded DEF RateTypeOK
    <2>2. Rate * (elapsed - since[b]) \in Int
      BY SMTT(30), OneMore DEF RateTypeOK
    <2>3. spent[b] + Held(buckets[b], wallClock) <= Capacity + Rate * (elapsed - since[b])
      BY Zenon DEF Accounted
    <2> QED BY <2>1, <2>2, <2>3, CapacityNat
  <1> QED BY <1>1, <1>2, <1>3, RateTypeInv, PTL DEF RateSpec
-----------------------------------------------------------------------------
\* The buckets of a key are finitely many.
LEMMA MadeFinite ==
  ASSUME RateTypeOK, NEW k \in BucketKey
  PROVE  IsFiniteSet(Made(k)) /\ Cardinality(Made(k)) \in Nat /\ made + 1 \notin Made(k)
  <1>1. IsFiniteSet(1 .. made)
    BY FS_Interval DEF RateTypeOK
  <1>2. Made(k) \subseteq 1 .. made
    BY Zenon DEF Made
  <1>3. made + 1 \notin 1 .. made
    BY DEF RateTypeOK
  <1> QED BY Zenon, <1>1, <1>2, <1>3, FS_Subset, FS_CardinalityType

\* No step makes a second bucket for a key that has one.
LEMMA BurstStep ==
  ASSUME RateTypeOK, BurstPerReset, [RateNext]_rateVars
  PROVE  BurstPerReset'
  <1> SUFFICES ASSUME NEW k \in BucketKey
               PROVE  Cardinality(Made(k)') = resets'[k] + (IF registry'[k] = 0 THEN 0 ELSE 1)
    BY Zenon DEF BurstPerReset, Missing
  <1>1. /\ Cardinality(Made(k)) = resets[k] + (IF registry[k] = 0 THEN 0 ELSE 1)
        /\ resets[k] \in Nat
    BY Zenon DEF BurstPerReset, Missing, RateTypeOK
  <1>2. CASE Made(k)' = Made(k) /\ registry' = registry /\ resets' = resets
    BY Zenon, <1>1, <1>2
  <1>3. CASE Advance \/ StepBack \/ (\E b \in 1 .. made : StartWindow(b)) \/ UNCHANGED rateVars
    BY Zenon, <1>2, <1>3 DEF Advance, StepBack, StartWindow, rateVars, Made
  <1>4. ASSUME NEW c \in Callers, Allow(c)
        PROVE  Made(k)' = Made(k) /\ registry' = registry /\ resets' = resets
    <2>1. /\ registry' = registry /\ resets' = resets /\ made' = made
          /\ fetched[c] \in 1 .. made
      BY Zenon, <1>4 DEF Allow, RateTypeOK
    <2>2. \A b \in 1 .. made : buckets'[b].key = buckets[b].key
      BY ZenonT(30), <1>4, <2>1 DEF Allow, RateTypeOK, Bucket
    <2> QED BY Zenon, <2>1, <2>2 DEF Made
  <1>5. ASSUME NEW c \in Callers, NEW j \in BucketKey, FetchBucket(c, j)
        PROVE  Cardinality(Made(k)') = resets'[k] + (IF registry'[k] = 0 THEN 0 ELSE 1)
    <2>1. CASE ~ Missing(j)
      BY Zenon, <1>2, <1>5, <2>1 DEF FetchBucket, Made
    <2>2. CASE Missing(j)
      <3>1. /\ made' = made + 1 /\ resets' = resets
            /\ registry' = [registry EXCEPT ![j] = made + 1]
            /\ \A b \in 1 .. made : buckets'[b] = buckets[b]
            /\ buckets'[made + 1] = NewBucket(j)
        <4>1. made \in Nat /\ made' = made + 1
          BY <1>5, <2>2 DEF FetchBucket, RateTypeOK
        <4>2. /\ resets' = resets
              /\ registry' = [registry EXCEPT ![j] = made + 1]
              /\ buckets' = [b \in 1 .. made + 1 |->
                              IF b \in 1 .. made THEN buckets[b] ELSE NewBucket(j)]
          BY Zenon, <1>5, <2>2, <4>1 DEF FetchBucket
        <4> QED BY <4>1, <4>2
      <3>2. buckets'[made + 1].key = j
        BY <3>1 DEF NewBucket
      <3>3. 1 .. made' = (1 .. made) \cup {made + 1}
        <4>1. made \in Nat /\ made' = made + 1
          BY <3>1 DEF RateTypeOK
        <4> QED BY <4>1
      <3>4. CASE k = j
        <4>1. Made(k)' = Made(k) \cup {made + 1}
          BY Zenon, <3>1, <3>2, <3>3, <3>4 DEF Made
        <4>2. Cardinality(Made(k)') = Cardinality(Made(k)) + 1
          BY Zenon, <4>1, MadeFinite, FS_AddElement
        <4>3. registry[k] = 0 /\ registry'[k] = made + 1 /\ made + 1 # 0
          BY <3>1, <3>4, <2>2 DEF Missing, RateTypeOK
        <4> QED BY <4>2, <4>3, <3>1, <1>1
      <3>5. CASE k # j
        <4>1. Made(k)' = Made(k)
          BY Zenon, <3>1, <3>2, <3>3, <3>5 DEF Made
        <4>2. registry'[k] = registry[k]
          BY Zenon, <3>1, <3>5 DEF RateTypeOK
        <4> QED BY Zenon, <4>1, <4>2, <3>1, <1>1
      <3> QED BY Zenon, <3>4, <3>5
    <2> QED BY Zenon, <2>1, <2>2
  <1>6. ASSUME NEW j \in BucketKey, Reset(j)
        PROVE  Cardinality(Made(k)') = resets'[k] + (IF registry'[k] = 0 THEN 0 ELSE 1)
    <2>1. Made(k)' = Made(k)
      BY Zenon, <1>6 DEF Reset, Made
    <2>2. CASE k = j
      <3>1. registry[k] # 0 /\ registry'[k] = 0 /\ resets'[k] = resets[k] + 1
        BY Zenon, <1>6, <2>2 DEF Reset, Missing, RateTypeOK
      <3> QED BY <2>1, <3>1, <1>1
    <2>3. CASE k # j
      <3>1. registry'[k] = registry[k] /\ resets'[k] = resets[k]
        BY Zenon, <1>6, <2>3 DEF Reset, RateTypeOK
      <3> QED BY Zenon, <2>1, <3>1, <1>1
    <2> QED BY Zenon, <2>2, <2>3
  <1> QED BY Zenon, <1>2, <1>3, <1>4, <1>5, <1>6 DEF RateNext

\* Registry.bucket and Registry.Reset: a key gets a full burst once, and once
\* more for each Reset, however its callers race.
THEOREM BurstsAreCounted == RateSpec => []BurstPerReset
  <1>1. RateInit => BurstPerReset
    <2> SUFFICES ASSUME RateInit, NEW k \in BucketKey
                 PROVE  Cardinality(Made(k)) = resets[k] + (IF Missing(k) THEN 0 ELSE 1)
      BY Zenon DEF BurstPerReset
    <2>1. Made(k) = {}
      BY DEF RateInit, Made
    <2>2. resets[k] = 0 /\ Missing(k)
      BY Zenon DEF RateInit, Missing
    <2> QED BY <2>1, <2>2, FS_EmptySet
  <1>2. RateTypeOK /\ BurstPerReset /\ [RateNext]_rateVars => BurstPerReset'
    BY Zenon, BurstStep
  <1> QED BY <1>1, <1>2, RateTypeInv, PTL DEF RateSpec
=============================================================================
