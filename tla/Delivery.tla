------------------------------ MODULE Delivery ------------------------------
(***************************************************************************)
(* What the dispatcher promises its callers: an event accepted before the  *)
(* dispatcher is closed gets at most one outcome, which never changes, and *)
(* nothing is accepted afterwards.                                         *)
(***************************************************************************)
CONSTANTS Event, Outcome, NoOutcome

VARIABLES open, accepted, outcome

Init == /\ open = TRUE
        /\ accepted = {}
        /\ outcome = [e \in Event |-> NoOutcome]

Accept(e) == /\ open
             /\ e \notin accepted
             /\ accepted' = accepted \cup {e}
             /\ UNCHANGED <<open, outcome>>

Resolve(e, o) == /\ e \in accepted
                 /\ outcome[e] = NoOutcome
                 /\ outcome' = [outcome EXCEPT ![e] = o]
                 /\ UNCHANGED <<open, accepted>>

Shut == /\ open' = FALSE
        /\ UNCHANGED <<accepted, outcome>>

Next == \/ \E e \in Event : Accept(e) \/ \E o \in Outcome : Resolve(e, o)
        \/ Shut

Spec == Init /\ [][Next]_<<open, accepted, outcome>>
=============================================================================
