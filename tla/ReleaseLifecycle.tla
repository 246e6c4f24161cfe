-------------------------- MODULE ReleaseLifecycle --------------------------
(***************************************************************************)
(* What the release table promises its readers: every record moves through *)
(* the transition table in atomic steps, each step starts from the record  *)
(* as it is stored at that moment, raises the fencing token when it        *)
(* changes the state, and raises the revision by one.  There is no stale   *)
(* copy, no concurrent writer and no call in flight at this level.         *)
(***************************************************************************)
EXTENDS ReleaseDomain

CONSTANT ReleaseID

VARIABLE releases
-----------------------------------------------------------------------------
Stored(id) == releases[id] # NoRelease

KeyUnused(key) ==
  key # NoKey => \A id \in ReleaseID :
                   Stored(id) => releases[id].idempotencyKey # key

Init == releases = [id \in ReleaseID |-> NoRelease]

\* A client's draft becomes a pending release, once per idempotency key.
Create(id, d) ==
  /\ ~ Stored(id)
  /\ Validate(d)
  /\ KeyUnused(d.idempotencyKey)
  /\ releases' = [releases EXCEPT ![id] = NewRelease(d)]

\* A fenced transition of the record as it stands.
Move(id, to, token) ==
  /\ Stored(id)
  /\ CanTransition(releases[id], to, token)
  /\ releases' = [releases EXCEPT ![id] = Transition(@, to, token)]

\* A running release enters its next wave.
Advance(id) ==
  /\ Stored(id)
  /\ releases[id].state = Running
  /\ HasNextWave(releases[id])
  /\ releases' = [releases EXCEPT ![id] = NextWave(@)]

Next == \E id \in ReleaseID :
          \/ \E d \in Drafts : Create(id, d)
          \/ \E to \in State, token \in Token : Move(id, to, token)
          \/ Advance(id)

Spec == Init /\ [][Next]_releases
=============================================================================
