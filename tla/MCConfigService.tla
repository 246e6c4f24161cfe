-------------------------- MODULE MCConfigService --------------------------
(***************************************************************************)
(* Small instances of ConfigService.                                       *)
(***************************************************************************)
EXTENDS ConfigService, TLC

CONSTANTS k1, ahead, back, self

\* A version that waits for the second one, one that builds on the first, and
\* one that requires its own configuration.
MCDependsOn == ahead :> {<<1, 2>>} @@ back :> {<<1, 1>>, k1} @@ self :> {k1}

MCRequired == ahead :> {} @@ back :> {} @@ self :> {k1}

\* Callers are interchangeable.
Symmetry == Permutations(Procs)
=============================================================================
