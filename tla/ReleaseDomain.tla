--------------------------- MODULE ReleaseDomain ---------------------------
(***************************************************************************)
(* The release aggregate of internal/releasedomain/model.go: its states,   *)
(* the transition table, fenced transitions, wave plans and the health     *)
(* check against the current wave.  Every method of Release works on a     *)
(* copy (value receiver), so all of them are operators on records.         *)
(*                                                                         *)
(* Left out of the record: scope, timestamps and the two reason texts,     *)
(* which no method reads back.                                             *)
(***************************************************************************)
EXTENDS Integers, Sequences, FiniteSets

CONSTANTS
  MinToken, MaxToken,  \* least and greatest int64 fencing token
  VersionRef,          \* references to configuration versions
  IdempotencyKey,      \* Idempotency-Key header values, the empty one excluded
  NoKey,               \* the empty idempotency key
  Drafts,              \* releases as clients submit them
  NoRelease            \* the absence of a record under an identifier

ASSUME TokenAssumption == /\ MinToken \in Int
                          /\ MaxToken \in Int
                          /\ MinToken < 0
                          /\ 0 < MaxToken

ASSUME KeyAssumption == NoKey \notin IdempotencyKey
-----------------------------------------------------------------------------
Pending    == "pending"
Running    == "running"
Paused     == "paused"
Succeeded  == "succeeded"
Failed     == "failed"
RolledBack == "rolled_back"
Cancelled  == "cancelled"
Retrying   == "retrying"

State == {Pending, Running, Paused, Succeeded, Failed, RolledBack, Cancelled,
          Retrying}

Token == MinToken .. MaxToken

\* maxFailureRate is in percent: the code's float in [0, 1] is only compared.
Wave == [percentage: Int, maxFailureRate: Int]

Release == [state: State,
            currentWave: Int,
            fencingToken: Token,
            revision: Nat,
            waves: Seq(Wave),
            versionRefs: Seq(VersionRef),
            idempotencyKey: IdempotencyKey \cup {NoKey}]

\* Decoded from the request body: the client may set every field, and
\* CreateRelease keeps its CurrentWave and its FencingToken.
DraftType == [currentWave: Int,
              fencingToken: Token,
              waves: Seq(Wave),
              versionRefs: Seq(VersionRef),
              idempotencyKey: IdempotencyKey \cup {NoKey}]

ASSUME DraftAssumption == Drafts \subseteq DraftType

ASSUME NoReleaseAssumption == NoRelease \notin Release
-----------------------------------------------------------------------------
(***************************************************************************)
(* Wave.Validate and Release.Validate.  The identifier and scope checks    *)
(* are left out with the two fields, the wave's Number with its field.     *)
(***************************************************************************)
ValidWave(w) == /\ w.percentage >= 1
                /\ w.percentage <= 100
                /\ w.maxFailureRate >= 0
                /\ w.maxFailureRate <= 100

TotalPercentage(waves) ==
  LET sum[i \in 0 .. Len(waves)] ==
        IF i = 0 THEN 0 ELSE sum[i - 1] + waves[i].percentage
  IN  sum[Len(waves)]

Validate(r) == /\ r.versionRefs # <<>>
               /\ r.waves # <<>>
               /\ \A i \in 1 .. Len(r.waves) : ValidWave(r.waves[i])
               /\ TotalPercentage(r.waves) = 100

\* The record CreateRelease builds from a draft.
NewRelease(d) ==
  [state          |-> Pending,
   currentWave    |-> d.currentWave,
   fencingToken   |-> d.fencingToken,
   revision       |-> 1,
   waves          |-> d.waves,
   versionRefs    |-> d.versionRefs,
   idempotencyKey |-> d.idempotencyKey]
-----------------------------------------------------------------------------
(***************************************************************************)
(* The table of Release.Can and the fenced Release.Transition: the token   *)
(* must exceed the stored one and the table must hold the edge.            *)
(***************************************************************************)
Allowed == [s \in State |->
  CASE s = Pending   -> {Running, Cancelled}
    [] s = Running   -> {Paused, Succeeded, Failed, RolledBack}
    [] s = Paused    -> {Running, Cancelled, RolledBack}
    [] s = Succeeded -> {RolledBack}
    [] s = Failed    -> {Retrying, RolledBack}
    [] s = Retrying  -> {Running, Cancelled}
    [] OTHER         -> {}]

Can(r, to) == to \in Allowed[r.state]

FreshOrSame(r, token) == token >= r.fencingToken

Fresh(r, token) == token > r.fencingToken

CanTransition(r, to, token) == Fresh(r, token) /\ Can(r, to)

TransitionSameRevision(r, to, token) ==
  [r EXCEPT !.state = to, !.fencingToken = token]

Transition(r, to, token) ==
  [r EXCEPT !.state = to, !.fencingToken = token, !.revision = @ + 1]

\* r.FencingToken + 1 on an int64: the greatest token wraps to the least.
NextToken(r) ==
  IF r.fencingToken = MaxToken THEN MinToken ELSE r.fencingToken + 1
-----------------------------------------------------------------------------
(***************************************************************************)
(* Release.ShouldPause.  waves is 1-based here, CurrentWave 0-based; a     *)
(* negative CurrentWave indexes out of range and panics in Go.             *)
(***************************************************************************)
ShouldPausePanics(r) == r.currentWave < 0

ShouldPause(r, failureRate) ==
  /\ r.currentWave < Len(r.waves)
  /\ failureRate > r.waves[r.currentWave + 1].maxFailureRate

\* The wave step of AdvanceReleases: not a transition, the token stays.
NextWave(r) == [r EXCEPT !.currentWave = @ + 1, !.revision = @ + 1]

HasNextWaveOffByOne(r) == r.currentWave + 2 < Len(r.waves)

HasNextWave(r) == r.currentWave + 1 < Len(r.waves)
=============================================================================
