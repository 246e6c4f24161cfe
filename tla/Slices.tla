------------------------------- MODULE Slices -------------------------------
(***************************************************************************)
(* The loops over slices that the read-only algorithms are made of, as     *)
(* functions of the number of turns taken.                                 *)
(***************************************************************************)
EXTENDS Integers, Sequences, FiniteSetsExt

\* for i, x := range s, appending x to the result if i is in I.
Picked(s, I) ==
  LET P[n \in 0 .. Len(s)] ==
        IF n = 0 THEN <<>>
        ELSE IF n \in I THEN Append(P[n - 1], s[n]) ELSE P[n - 1]
  IN  P[Len(s)]

\* for _, x := range s, adding x to a counter.
Total(s) ==
  LET T[n \in 0 .. Len(s)] == IF n = 0 THEN 0 ELSE T[n - 1] + s[n]
  IN  T[Len(s)]
=============================================================================
