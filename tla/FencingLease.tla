---------------------------- MODULE FencingLease ----------------------------
(***************************************************************************)
(* The lease manager of internal/fencing and its store.  Get, Put and      *)
(* Delete of the store hold its mutex and are one step each; Acquire,      *)
(* Renew and ExpireStale make two calls, and anything can happen between   *)
(* them.                                                                   *)
(***************************************************************************)
EXTENDS Integers

CONSTANTS
  Procs,                \* goroutines that use the manager
  Key, Owner,           \* strings
  OwnerOf,              \* the owner a goroutine acts for
  NoLease, NoCall,      \* no lease under a key; a goroutine that is not in a call
  TTL,                  \* Manager.ttl
  MaxTime, MaxVersion   \* bounds on the clock and on versions

ASSUME LeaseAssumption == /\ TTL \in Nat \ {0}
                          /\ OwnerOf \in [Procs -> Owner]

VARIABLES
  now,      \* what the manager's clock reads
  leases,   \* Store.leases
  call,     \* the call each goroutine is in
  granted   \* every lease a call has returned since the key's was last deleted,
            \* and whether it was stored

vars == <<now, leases, call, granted>>
-----------------------------------------------------------------------------
\* Versions start at 1; the key is the index of leases.
Lease == [owner: Owner, version: Nat \ {0}, expires: Nat]

ASSUME NoLeaseAssumption == NoLease \notin Lease

Grant == [key: Key, owner: Owner, version: Nat \ {0}, stored: BOOLEAN]

\* at: the clock when ExpireStale was called.
Call == [op: {"acquire", "renew"}, key: Key, lease: Lease]
          \cup [op: {"expire"}, todo: SUBSET Key, at: Nat]
          \cup [op: {"drop"}, todo: SUBSET Key, at: Nat, key: Key, lease: Lease]

Init == /\ now = 0
        /\ leases = [k \in Key |-> NoLease]
        /\ call = [p \in Procs |-> NoCall]
        /\ granted = {}

In(p, op) == call[p] # NoCall /\ call[p].op = op

Goto(p, c) == call' = [call EXCEPT ![p] = c]

Tick == /\ now < MaxTime
        /\ now' = now + 1
        /\ UNCHANGED <<leases, call, granted>>
-----------------------------------------------------------------------------
(***************************************************************************)
(* Store.Put and Store.Delete.                                             *)
(***************************************************************************)
NewerOrSame(l, old) == l.version >= old.version

NewerAlways(l, old) == TRUE

Newer(l, old) == l.version > old.version

PutAccepts(k, l) == leases[k] = NoLease \/ Newer(l, leases[k])

Put(k, l) ==
  leases' = IF PutAccepts(k, l) THEN [leases EXCEPT ![k] = l] ELSE leases

Matches(old, owner, version) == old.version = version /\ old.owner = owner

Delete(k, owner, version) ==
  IF leases[k] # NoLease /\ Matches(leases[k], owner, version)
  THEN /\ leases' = [leases EXCEPT ![k] = NoLease]
       /\ granted' = {g \in granted : g.key # k}
  ELSE UNCHANGED <<leases, granted>>
-----------------------------------------------------------------------------
(***************************************************************************)
(* Manager.  Acquire reads the clock, then the store, and ignores Put's    *)
(* error; the delay between the two reads is that of the clock value.      *)
(***************************************************************************)
NextVersion(k) == IF leases[k] = NoLease THEN 1 ELSE leases[k].version + 1

Acquire(p, k, clock) ==
  /\ call[p] = NoCall
  /\ NextVersion(k) <= MaxVersion
  /\ Goto(p, [op |-> "acquire", key |-> k,
              lease |-> [owner |-> OwnerOf[p], version |-> NextVersion(k),
                         expires |-> clock + TTL]])
  /\ UNCHANGED <<now, leases, granted>>

\* Whatever version the caller presents must be the stored one.  The clock is
\* read after the store; until then expires is the time of the first read.
Renew(p, k) ==
  /\ call[p] = NoCall
  /\ leases[k] # NoLease
  /\ leases[k].owner = OwnerOf[p]
  /\ Goto(p, [op |-> "renew", key |-> k,
              lease |-> [leases[k] EXCEPT !.expires = now]])
  /\ UNCHANGED <<now, leases, granted>>

Returned(k, l) ==
  [key |-> k, owner |-> l.owner, version |-> l.version,
   stored |-> PutAccepts(k, l)]

\* Acquire ignores the error of Put and returns the lease all the same.
StoreAcquired(p) ==
  LET c == call[p]
  IN  /\ In(p, "acquire")
      /\ Put(c.key, c.lease)
      /\ granted' = granted \cup {Returned(c.key, c.lease)}

\* Renew returns the lease only if Put accepts it.
StoreRenewed(p) ==
  LET c == call[p]
  IN  /\ In(p, "renew")
      /\ \E clock \in c.lease.expires .. now :
           LET l == [c.lease EXCEPT !.expires = clock + TTL]
           IN  /\ Put(c.key, l)
               /\ granted' = IF PutAccepts(c.key, l)
                             THEN granted \cup {Returned(c.key, l)} ELSE granted

Store(p) ==
  /\ StoreAcquired(p) \/ StoreRenewed(p)
  /\ Goto(p, NoCall)
  /\ UNCHANGED now

Release(p, k, version) ==
  /\ call[p] = NoCall
  /\ Delete(k, OwnerOf[p], version)
  /\ UNCHANGED <<now, call>>

(***************************************************************************)
(* ExpireStale reads the clock once and takes its keys one after the       *)
(* other, here in any order.                                               *)
(***************************************************************************)
Stale(l, clock) == l.expires <= clock

ExpireStale(p, keys) ==
  /\ call[p] = NoCall
  /\ Goto(p, [op |-> "expire", todo |-> keys, at |-> now])
  /\ UNCHANGED <<now, leases, granted>>

ExpireGet(p, k) ==
  LET c == call[p]
  IN  /\ In(p, "expire")
      /\ k \in c.todo
      /\ Goto(p, IF leases[k] # NoLease /\ Stale(leases[k], c.at)
                 THEN [op |-> "drop", todo |-> c.todo \ {k}, at |-> c.at,
                       key |-> k, lease |-> leases[k]]
                 ELSE [c EXCEPT !.todo = @ \ {k}])
      /\ UNCHANGED <<now, leases, granted>>

ExpireDelete(p) ==
  LET c == call[p]
  IN  /\ In(p, "drop")
      /\ Delete(c.key, c.lease.owner, c.lease.version)
      /\ Goto(p, [op |-> "expire", todo |-> c.todo, at |-> c.at])
      /\ UNCHANGED now

ExpireDone(p) ==
  /\ In(p, "expire")
  /\ call[p].todo = {}
  /\ Goto(p, NoCall)
  /\ UNCHANGED <<now, leases, granted>>

Step(p) ==
  \/ Store(p) \/ ExpireDelete(p) \/ ExpireDone(p)
  \/ \E keys \in SUBSET Key : ExpireStale(p, keys)
  \/ \E k \in Key :
       \/ \E clock \in 0 .. now : Acquire(p, k, clock)
       \/ \E version \in 1 .. MaxVersion : Release(p, k, version)
       \/ Renew(p, k) \/ ExpireGet(p, k)

Next == Tick \/ \E p \in Procs : Step(p)

Spec == Init /\ [][Next]_vars
-----------------------------------------------------------------------------
(***************************************************************************)
(* Properties.                                                             *)
(***************************************************************************)
TypeOK == /\ now \in Nat
          /\ leases \in [Key -> Lease \cup {NoLease}]
          /\ call \in [Procs -> Call \cup {NoCall}]
          /\ granted \subseteq Grant

\* Until a key's lease is deleted, no version of it is ever stored for two
\* owners, however the reads and writes of Acquire and Renew interleave: the
\* version check of Put serialises them.
OneOwnerPerVersion ==
  \A g, h \in {x \in granted : x.stored} :
    g.key = h.key /\ g.version = h.version => g.owner = h.owner

\* Whoever acquires a key next gets a greater version than every lease that
\* Acquire and Renew have returned since the key was last deleted, those
\* included that Put had refused: a later claim fences all earlier ones off.
LaterClaimsOutrank ==
  \A g \in granted : NextVersion(g.key) > g.version

\* The lease a renewal has read is still the stored one.
StillHeld(p) ==
  LET c == call[p]
  IN  /\ leases[c.key] # NoLease
      /\ leases[c.key].owner = c.lease.owner
      /\ leases[c.key].version = c.lease.version

\* "Renew extends a lease when the caller still holds the latest version"
\* (lease.go:37): a renewal that ends while the lease is still held leaves it
\* at least TTL from when it was read.  It does not: Put refuses the version
\* of a lease that is stored.
RenewExtends ==
  [][\A p \in Procs :
       In(p, "renew") /\ StillHeld(p) /\ call'[p] = NoCall =>
         leases'[call[p].key].expires >= call[p].lease.expires + TTL]_vars
=============================================================================
