---------------------------- MODULE ConfigDomain ----------------------------
(***************************************************************************)
(* The version aggregate of internal/configdomain/model.go: the version    *)
(* states, their transition table and Transition, which works on a copy.   *)
(*                                                                         *)
(* Left out of the record: rules, expiry, author and timestamps, which no  *)
(* operation on the state of a version reads.                              *)
(***************************************************************************)
EXTENDS Integers, FiniteSetsExt

CONSTANTS
  Value,      \* what a version holds: configuration value and dependencies
  DependsOn,  \* names of the dependencies: keys, or configuration and number
  Required,   \* the dependencies marked required
  NoVersion   \* the absence of a version under a number
-----------------------------------------------------------------------------
Draft      == "draft"
Reviewing  == "reviewing"
Scheduled  == "scheduled"
RollingOut == "rolling_out"
Paused     == "paused"
Published  == "published"
RolledBack == "rolled_back"
Expired    == "expired"

VersionState == {Draft, Reviewing, Scheduled, RollingOut, Paused, Published,
                 RolledBack, Expired}

ConfigVersion == [state: VersionState, value: Value, revision: Nat]

ASSUME NoVersionAssumption == NoVersion \notin ConfigVersion

\* The record CreateVersion builds.
NewVersion(value) == [state |-> Draft, value |-> value, revision |-> 1]

\* Graph.HasCycle: some nodes all have an edge into their own set.  Names that
\* are no node (edges[x] undefined) end every path.
HasCycle(edges) ==
  \E S \in SUBSET DOMAIN edges : S # {} /\ \A x \in S : edges[x] \cap S # {}

Allowed == [s \in VersionState |->
  CASE s = Draft      -> {Reviewing, Expired}
    [] s = Reviewing  -> {Draft, Scheduled, Expired}
    [] s = Scheduled  -> {RollingOut, Paused, Expired}
    [] s = RollingOut -> {Paused, Published, RolledBack}
    [] s = Paused     -> {RollingOut, RolledBack, Expired}
    [] s = Published  -> {RolledBack, Expired}
    [] OTHER          -> {}]

CanTransition(v, to) == to \in Allowed[v.state]

TransitionSameRevision(v, to) == [v EXCEPT !.state = to]

Transition(v, to) == [v EXCEPT !.state = to, !.revision = @ + 1]

\* Memory.Published for one configuration: the number of the version that
\* Evaluate serves, 0 for none.
ServedNumber(vs) ==
  LET published == {n \in DOMAIN vs : /\ vs[n] # NoVersion
                                      /\ vs[n].state = Published}
  IN  IF published = {} THEN 0 ELSE Max(published)
=============================================================================
