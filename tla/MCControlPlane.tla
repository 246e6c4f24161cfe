--------------------------- MODULE MCControlPlane ---------------------------
(***************************************************************************)
(* Small instances of ControlPlane.                                        *)
(***************************************************************************)
EXTENDS ControlPlane

TwoWaves == <<[percentage |-> 50, maxFailureRate |-> 5],
              [percentage |-> 50, maxFailureRate |-> 20]>>

OneWave == <<[percentage |-> 100, maxFailureRate |-> 5]>>

DraftOf(waves, refs) ==
  [currentWave |-> 0, fencingToken |-> 0, waves |-> waves,
   versionRefs |-> refs, idempotencyKey |-> NoKey]

\* Two plans that share a version.
MCDraft == {DraftOf(TwoWaves, <<<<1, 1>>>>), DraftOf(OneWave, <<<<1, 2>>, <<1, 1>>>>)}

\* No version depends on another.
NoDependency == [v \in Value |-> {}]

\* Three-bit tokens.
MCMinToken == -4
=============================================================================
