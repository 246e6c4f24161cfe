------------------------------ MODULE Windows ------------------------------
(***************************************************************************)
(* internal/scheduler: time windows, and the scanner for versions whose    *)
(* expiry has passed.  The scans are read-only; cancellation is a number   *)
(* of context checks that still succeed.                                   *)
(***************************************************************************)
EXTENDS Slices

CONSTANT NoBound   \* a nil time bound
-----------------------------------------------------------------------------
ValidWindow(w) == w.starts # NoBound /\ w.ends # NoBound => w.starts < w.ends

Active(w, at) == /\ ValidWindow(w)
                 /\ w.starts # NoBound => w.starts <= at
                 /\ w.ends # NoBound => at < w.ends

\* The index of ActiveWindow's answer, 0 for nil.
ActiveWindow(windows, at) ==
  LET active == {i \in DOMAIN windows : Active(windows[i], at)}
  IN  IF active = {} THEN 0 ELSE Min(active)

ScanActive(windows, at) ==
  Picked(windows, {i \in DOMAIN windows : Active(windows[i], at)})

StartedOrSoon(w, at) == w.starts # NoBound /\ w.starts <= at + 1

Started(w, at) == w.starts # NoBound /\ w.starts <= at

\* The instants NextTransition looks at: the bounds after at of the windows
\* that have not started, an open start not counting as started.
Candidates(windows, at) ==
  {t \in UNION {{windows[i].starts, windows[i].ends} :
                  i \in {j \in DOMAIN windows : ~ Started(windows[j], at)}} :
     t # NoBound /\ t > at}

NextTransition(windows, at) ==
  IF Candidates(windows, at) = {} THEN NoBound ELSE Min(Candidates(windows, at))
-----------------------------------------------------------------------------
ActiveStates == {"draft", "reviewing", "scheduled", "rolling_out", "paused", "published"}

PastInverted(v, now) == v.expires # NoBound /\ now < v.expires

Past(v, now) == v.expires # NoBound /\ v.expires < now

Candidate(v, now) == Past(v, now) /\ v.state \in ActiveStates

Scan(versions, now) ==
  Picked(versions, {i \in DOMAIN versions : Candidate(versions[i], now)})

\* ScanGroup when made context checks have been made and checks succeed: the
\* candidate it stops at, if any, and the checks it makes; cancelled when they do
\* not suffice.  The clock is read for every version, at time clock[n] for the
\* n-th.
ScanGroup(versions, clock, made, checks) ==
  LET found == {i \in DOMAIN versions : Candidate(versions[i], clock[made + i])}
      reads == IF found = {} THEN Len(versions) ELSE Min(found)
  IN  [cancelled  |-> made + reads > checks,
       reads      |-> reads,
       candidates |-> IF made + reads > checks \/ found = {} THEN <<>>
                                                          ELSE <<versions[Min(found)]>>]

\* One turn of ScanAll's loop, which returns when a group is cancelled.  Groups
\* without a candidate have no entry, here the empty one.
ScanNext(acc, group, clock, checks) ==
  LET g == ScanGroup(group, clock, acc.made, checks)
  IN  IF acc.cancelled THEN acc
      ELSE [cancelled |-> g.cancelled,
            made      |-> acc.made + g.reads,
            result    |-> IF g.cancelled THEN acc.result
                                         ELSE Append(acc.result, g.candidates)]

ScanAll(groups, clock, checks) ==
  LET A[n \in 0 .. Len(groups)] ==
        IF n = 0 THEN [cancelled |-> FALSE, made |-> 0, result |-> <<>>]
        ELSE ScanNext(A[n - 1], groups[n], clock, checks)
  IN  A[Len(groups)]
=============================================================================
