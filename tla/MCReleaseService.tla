-------------------------- MODULE MCReleaseService --------------------------
(***************************************************************************)
(* Small instances of ReleaseService.                                      *)
(***************************************************************************)
EXTENDS ReleaseService

CONSTANTS c1, c2, w1, ref, key

TwoWaves == <<[percentage |-> 50, maxFailureRate |-> 5],
              [percentage |-> 50, maxFailureRate |-> 20]>>

OneWave == <<[percentage |-> 100, maxFailureRate |-> 5]>>

HalfPlan == <<[percentage |-> 50, maxFailureRate |-> 5]>>

DraftOf(waves, token, k) ==
  [currentWave |-> 0, fencingToken |-> token, waves |-> waves,
   versionRefs |-> <<ref>>, idempotencyKey |-> k]

\* One plan does not total 100 percent and is refused; one starts with the
\* greatest token.
MCDraft == {DraftOf(TwoWaves, 0, key), DraftOf(OneWave, MaxToken, NoKey),
            DraftOf(HalfPlan, 0, NoKey)}

\* Tokens of three bits stand for those of 64.
MCMinToken == -4

\* Cancelling and rolling back end a release as failing it does, which can be
\* retried besides; no route asks for success.
MCTargets == {Running, Paused, Failed}
=============================================================================
