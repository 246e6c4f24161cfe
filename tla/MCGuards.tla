------------------------------ MODULE MCGuards ------------------------------
(***************************************************************************)
(* Small instances of FencingLease, with two goroutines of one owner and   *)
(* one of another, and of RateLimit, where a request costs three ticks of  *)
(* refill.  Neither package uses the other: a behaviour is one of either,  *)
(* with the other in its initial state.                                    *)
(***************************************************************************)
EXTENDS FencingLease, RateLimit, TLC

CONSTANTS p1, p2, p3, o1, o2

MCOwnerOf == p1 :> o1 @@ p2 :> o1 @@ p3 :> o2

\* The goroutines of one owner are interchangeable.
Twins == Permutations({p1, p2})

GuardInit == Init /\ RateInit

GuardNext == \/ Next /\ RateInit /\ UNCHANGED rateVars
             \/ RateNext /\ Init /\ UNCHANGED vars

GuardSpec == GuardInit /\ [][GuardNext]_<<vars, rateVars>>
=============================================================================
