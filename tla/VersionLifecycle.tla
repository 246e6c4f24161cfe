-------------------------- MODULE VersionLifecycle --------------------------
(***************************************************************************)
(* What the version table promises: the versions of a configuration are    *)
(* numbered consecutively, their values never change, and each moves       *)
(* through the transition table in atomic steps from its stored state.     *)
(***************************************************************************)
EXTENDS ConfigDomain

CONSTANTS ConfigID, Number

VARIABLE versions
-----------------------------------------------------------------------------
Stored(id, n) == versions[id][n] # NoVersion

Init == versions = [id \in ConfigID |-> [n \in Number |-> NoVersion]]

Create(id, n, value) ==
  /\ \A m \in Number : Stored(id, m) <=> m < n
  /\ versions' = [versions EXCEPT ![id][n] = NewVersion(value)]

Move(id, n, to) ==
  /\ Stored(id, n)
  /\ CanTransition(versions[id][n], to)
  /\ versions' = [versions EXCEPT ![id][n] = Transition(@, to)]

Next == \E id \in ConfigID, n \in Number :
          \/ \E value \in Value : Create(id, n, value)
          \/ \E to \in VersionState : Move(id, n, to)

Spec == Init /\ [][Next]_versions
=============================================================================
