------------------------- MODULE ControlPlaneProofs -------------------------
(***************************************************************************)
(* Proofs about ControlPlane, for every set of clients and workers, any    *)
(* configurations, versions, releases and plans.                           *)
(***************************************************************************)
EXTENDS ControlPlane, WellFoundedInduction, TLAPS

-----------------------------------------------------------------------------
(***************************************************************************)
(* The composition implements the release component.                       *)
(***************************************************************************)

\* A request a client makes of the release routes.
LEMMA RequestIsRelease ==
  ASSUME NEW p \in Clients, Request(p)
  PROVE  R!Next \/ UNCHANGED releaseVars
<1>1. CASE createRelease(p)
  BY Zenon, <1>1 DEF createRelease, R!Next, R!Request
<1>2. CASE releaseTransition(p)
  BY Zenon, <1>2 DEF releaseTransition, R!Next, R!Request
<1>3. CASE healthGate(p)
  BY Zenon, <1>3 DEF healthGate, R!Next, R!Request
<1>4. QED
  BY Zenon, <1>1, <1>2, <1>3 DEF Request

\* The further steps of such a call.
LEMMA ServeIsRelease ==
  ASSUME NEW p \in Clients, ReleaseServe(p)
  PROVE  R!Next
<1>1. p \in R!Procs
  BY Zenon DEF R!Procs
<1>2. Usable(Head(call[p].todo)) \in BOOLEAN
  BY Zenon DEF Usable
<1>3. QED
  BY Zenon, <1>1, <1>2 DEF ReleaseServe, R!Next, R!Serve

\* The steps of AdvanceReleases.
LEMMA ScheduleIsRelease ==
  ASSUME NEW w \in Workers, Schedule(w)
  PROVE  R!Next \/ UNCHANGED releaseVars
<1>1. w \in R!Procs
  BY Zenon DEF R!Procs
<1>2. CASE Work(w)
  BY Zenon, <1>1, <1>2 DEF Work, R!Next, R!Finish
<1>3. CASE ReadRef(w) \/ MoveRef(w)
  BY Zenon, <1>3 DEF ReadRef, MoveRef
<1>4. CASE EndLoop(w)
  BY Zenon, <1>1, <1>4 DEF EndLoop, R!Next, R!Finish
<1>5. QED
  BY Zenon, <1>2, <1>3, <1>4 DEF Schedule

\* A step of the control plane is a step of ReleaseService or leaves all of it
\* alone.
LEMMA StepIsRelease ==
  ASSUME [Next]_vars
  PROVE  [R!Next]_(R!vars)
<1>1. CASE Next
  BY Zenon, <1>1, RequestIsRelease, ServeIsRelease, ScheduleIsRelease
     DEF Next, ConfigServe, releaseVars, R!vars
<1>2. CASE UNCHANGED vars
  BY Zenon, <1>2 DEF vars, releaseVars, R!vars
<1>3. QED
  BY Zenon, <1>1, <1>2

\* The HTTP API and the scheduler over one service implement ReleaseService:
\* all its theorems hold of the control plane.
THEOREM ImplementsReleases == Spec => ReleaseSpec
<1>1. Init => R!Init
  BY Zenon DEF Init
<1>2. QED
  BY <1>1, StepIsRelease, PTL DEF Spec, ReleaseSpec, R!Spec
-----------------------------------------------------------------------------
(***************************************************************************)
(* The records of the release side.                                        *)
(***************************************************************************)

\* A transition of a release keeps its references.
LEMMA TransitionRefs ==
  ASSUME NEW r \in R!Release, NEW to \in R!State, NEW token \in R!Token
  PROVE  /\ R!Transition(r, to, token) \in R!Release
         /\ R!Transition(r, to, token).state = to
         /\ R!Transition(r, to, token).versionRefs = r.versionRefs
<1> DEFINE n == r.revision + 1
<1>1. n \in Nat
  BY DEF R!Release
<1> HIDE DEF n
<1>2. LET t == [r EXCEPT !.state = to, !.fencingToken = token, !.revision = n]
      IN  t \in R!Release /\ t.state = to /\ t.versionRefs = r.versionRefs
  BY ZenonT(30), <1>1 DEF R!Release
<1>3. QED
  BY Zenon, <1>2 DEF R!Transition, n

\* And so does a wave step.
LEMMA NextWaveRefs ==
  ASSUME NEW r \in R!Release
  PROVE  /\ R!NextWave(r) \in R!Release
         /\ R!NextWave(r).versionRefs = r.versionRefs
<1> DEFINE n == r.revision + 1
           w == r.currentWave + 1
<1>1. n \in Nat /\ w \in Int
  BY DEF R!Release
<1> HIDE DEF n, w
<1>2. LET t == [r EXCEPT !.currentWave = w, !.revision = n]
      IN  t \in R!Release /\ t.versionRefs = r.versionRefs
  BY ZenonT(30), <1>1 DEF R!Release
<1>3. QED
  BY Zenon, <1>2 DEF R!NextWave, n, w

\* What CreateRelease builds from a draft is a release.
LEMMA DraftIsRelease ==
  ASSUME NEW d \in Drafts
  PROVE  R!NewRelease(d) \in R!Release /\ d.versionRefs \in Seq(VersionRef)
  BY Zenon, PlaneAssumption DEF R!NewRelease, R!Release, R!DraftType, R!State

\* The int64 successor of a token is a token.
LEMMA SuccessorIsToken ==
  ASSUME NEW r \in R!Release
  PROVE  R!NextToken(r) \in R!Token
  BY PlaneAssumption DEF R!NextToken, R!Release, R!Token

\* The frame of a process outside every release call.
LEMMA NoCall == R!Idle \in R!Call /\ R!Idle.pc = "idle"
  BY PlaneAssumption DEF R!Idle, R!Call, R!PC, R!Op, R!Token

\* The frame between the read and the write of a transition.
LEMMA ComputedCall ==
  ASSUME ReleasesKnown, NEW op \in {"transition", "gate"}, NEW id \in R!ReleaseID,
         NEW to \in R!State, NEW token \in R!Token, NEW rate \in Nat, R!Stored(id)
  PROVE  LET c == R!Computed(op, id, to, token, rate)
         IN  /\ c \in R!Call
             /\ c.pc = "update"
             /\ c.id = id
             /\ c.rel \in R!Release
             /\ c.rel.state = to
             /\ c.rel.versionRefs = releases[id].versionRefs
<1>1. releases[id] \in R!Release
  BY Zenon DEF ReleasesKnown, R!Stored
<1> DEFINE rel == R!Transition(releases[id], to, token)
<1>2. rel \in R!Release /\ rel.state = to /\ rel.versionRefs = releases[id].versionRefs
  BY Zenon, <1>1, TransitionRefs
<1> HIDE DEF rel
<1>3. op \in R!Op /\ "update" \in R!PC
  BY Zenon DEF R!Op, R!PC
<1>4. LET c == [R!Idle EXCEPT !.pc = "update", !.op = op, !.id = id,
                              !.base = releases[id], !.rate = rate, !.rel = rel]
      IN  c \in R!Call /\ c.pc = "update" /\ c.id = id /\ c.rel = rel
  BY ZenonT(30), <1>1, <1>2, <1>3, NoCall DEF R!Call
<1>5. QED
  BY Zenon, <1>2, <1>4 DEF R!Computed, rel

\* The frame after a successful write.
LEMMA CommittedCall ==
  ASSUME ReleasesKnown, NEW p \in Procs
  PROVE  /\ R!Committed(p) \in R!Call
         /\ R!Committed(p).pc \in {"audit", "done"}
         /\ R!Committed(p).id = call[p].id
         /\ R!Committed(p).rel = call[p].rel
<1>1. call[p] \in R!Call
  BY Zenon DEF ReleasesKnown
<1>2. R!AfterWrite(call[p].op) \in R!PC /\ R!AfterWrite(call[p].op) \in {"audit", "done"}
  BY Zenon DEF R!AfterWrite, R!PC
<1>3. QED
  BY ZenonT(30), <1>1, <1>2, NoCall DEF R!Committed, R!Call

\* A call that goes on keeps what it carries.
LEMMA GoesOn ==
  ASSUME NEW c \in R!Call, NEW pc \in R!PC
  PROVE  /\ [c EXCEPT !.pc = pc] \in R!Call
         /\ [c EXCEPT !.pc = pc].pc = pc
         /\ [c EXCEPT !.pc = pc].id = c.id
         /\ [c EXCEPT !.pc = pc].rel = c.rel
  BY ZenonT(30) DEF R!Call
-----------------------------------------------------------------------------
(***************************************************************************)
(* What a step does to the release table: nothing is forgotten.            *)
(***************************************************************************)
TableStep ==
  /\ releases' \in [R!ReleaseID -> R!Release \cup {NoRelease}]
  /\ log' \in [R!ReleaseID -> Seq(R!LogEntry)]
  /\ \A id \in R!ReleaseID :
       R!Stored(id) => /\ releases'[id] # NoRelease
                       /\ releases'[id].versionRefs = releases[id].versionRefs
  /\ \A id \in R!ReleaseID : \A state : Reached(id, state) => Reached(id, state)'

\* A step that writes no release.
LEMMA NoWrite ==
  ASSUME ReleasesKnown, UNCHANGED <<releases, log>>
  PROVE  TableStep
  BY Zenon DEF ReleasesKnown, TableStep, R!Stored, Reached

\* Appending to a history keeps what it holds and adds the new state.
LEMMA AppendReaches ==
  ASSUME NEW s \in Seq(R!LogEntry), NEW e \in R!LogEntry
  PROVE  /\ Append(s, e) \in Seq(R!LogEntry)
         /\ \A n \in 1 .. Len(s) : n \in 1 .. Len(Append(s, e)) /\ Append(s, e)[n] = s[n]
         /\ \E n \in 1 .. Len(Append(s, e)) : Append(s, e)[n] = e
<1>1. /\ Append(s, e) \in Seq(R!LogEntry)
      /\ Len(s) \in Nat
      /\ Len(Append(s, e)) = Len(s) + 1
      /\ \A n \in 1 .. Len(s) : Append(s, e)[n] = s[n]
      /\ Append(s, e)[Len(s) + 1] = e
  OBVIOUS
<1>2. /\ \A n \in 1 .. Len(s) : n \in 1 .. Len(Append(s, e))
      /\ Len(s) + 1 \in 1 .. Len(Append(s, e))
  BY <1>1
<1>3. QED
  BY Zenon, <1>1, <1>2

\* A write that keeps the references of what it replaces.
LEMMA WriteTable ==
  ASSUME ReleasesKnown, NEW id \in R!ReleaseID, NEW rel \in R!Release,
         NEW op \in R!Op \cup {"wave"},
         R!Stored(id) => rel.versionRefs = releases[id].versionRefs,
         R!Write(id, rel, op)
  PROVE  TableStep /\ SameRefs(rel, id)' /\ Reached(id, rel.state)'
<1> DEFINE e == [op |-> op, state |-> rel.state]
<1>1. e \in R!LogEntry /\ e.state = rel.state
  BY Zenon DEF R!LogEntry, R!Release
<1>2. /\ releases' = [releases EXCEPT ![id] = rel]
      /\ log' = [log EXCEPT ![id] = Append(log[id], e)]
  BY Zenon DEF R!Write
<1> HIDE DEF e
<1>3. releases'[id] = rel /\ rel # NoRelease /\ log'[id] = Append(log[id], e)
  BY Zenon, <1>2, PlaneAssumption DEF ReleasesKnown
<1>4. \A other \in R!ReleaseID :
        other # id => releases'[other] = releases[other] /\ log'[other] = log[other]
  BY Zenon, <1>2 DEF ReleasesKnown
<1>5. /\ log'[id] \in Seq(R!LogEntry)
      /\ \A n \in 1 .. Len(log[id]) : n \in 1 .. Len(log'[id]) /\ log'[id][n] = log[id][n]
      /\ \E n \in 1 .. Len(log'[id]) : log'[id][n] = e
  <2>1. log[id] \in Seq(R!LogEntry)
    BY Zenon DEF ReleasesKnown
  <2> DEFINE s == Append(log[id], e)
  <2>2. /\ s \in Seq(R!LogEntry)
        /\ \A n \in 1 .. Len(log[id]) : n \in 1 .. Len(s) /\ s[n] = log[id][n]
        /\ \E n \in 1 .. Len(s) : s[n] = e
    BY Zenon, <1>1, <2>1, AppendReaches
  <2> HIDE DEF s
  <2>3. log'[id] = s
    BY Zenon, <1>3 DEF s
  <2>4. QED
    BY Zenon, <2>2, <2>3
<1>6. /\ releases' \in [R!ReleaseID -> R!Release \cup {NoRelease}]
      /\ log' \in [R!ReleaseID -> Seq(R!LogEntry)]
  BY Zenon, <1>2, <1>3, <1>5 DEF ReleasesKnown
<1>7. Reached(id, rel.state)'
  BY Zenon, <1>1, <1>5 DEF Reached
<1>8. ASSUME NEW other \in R!ReleaseID, NEW state, Reached(other, state)
      PROVE  Reached(other, state)'
  BY Zenon, <1>4, <1>5, <1>8 DEF Reached
<1>9. SameRefs(rel, id)'
  BY Zenon, <1>3 DEF SameRefs, R!Stored
<1>10. \A other \in R!ReleaseID :
         R!Stored(other) => /\ releases'[other] # NoRelease
                            /\ releases'[other].versionRefs = releases[other].versionRefs
  BY Zenon, <1>3, <1>4 DEF R!Stored
<1>11. QED
  BY Zenon, <1>6, <1>7, <1>8, <1>9, <1>10 DEF TableStep

\* A copy keeps the references of its release.
LEMMA RefsStaySame ==
  ASSUME TableStep, NEW id \in R!ReleaseID, NEW r, SameRefs(r, id)
  PROVE  SameRefs(r, id)'
  BY Zenon DEF TableStep, SameRefs, R!Stored

\* What a call knows it still knows.
LEMMA KnownStays ==
  ASSUME TableStep, NEW p, CallKnows(p), call'[p] = call[p]
  PROVE  CallKnows(p)'
<1>1. call[p].pc \in {"update", "audit", "done"} => SameRefs(call[p].rel, call[p].id)'
  BY Zenon, RefsStaySame DEF CallKnows
<1>2. p \in Workers /\ call[p].pc \notin {"idle", "update"}
        => Reached(call[p].id, call[p].rel.state)'
  BY Zenon DEF CallKnows, TableStep
<1>3. QED
  BY Zenon, <1>1, <1>2 DEF CallKnows

PagesStep ==
  /\ listed' \in [Workers -> SUBSET R!Item]
  /\ \A w \in Workers : \A item \in listed'[w] :
       item \in listed[w] \/ SameRefs(item.rel, item.id)'

\* A step of one process that leaves it knowing what it must.
LEMMA CallStep ==
  ASSUME ReleasesKnown, TableStep, PagesStep, sequence' \in Nat,
         NEW p \in Procs, NEW c \in R!Call, call' = [call EXCEPT ![p] = c],
         CallKnows(p)'
  PROVE  ReleasesKnown'
<1>1. call' \in [Procs -> R!Call]
  BY Zenon DEF ReleasesKnown
<1>2. ASSUME NEW q \in Procs
      PROVE  CallKnows(q)'
  <2>1. q # p => call'[q] = call[q]
    BY Zenon DEF ReleasesKnown
  <2>2. QED
    BY Zenon, <2>1, KnownStays DEF ReleasesKnown
<1>3. ASSUME NEW w \in Workers, NEW item \in listed'[w]
      PROVE  SameRefs(item.rel, item.id)'
  <2>1. item.id \in R!ReleaseID
    BY DEF PagesStep, R!Item
  <2>2. QED
    BY Zenon, <2>1, RefsStaySame DEF PagesStep, ReleasesKnown
<1>4. QED
  BY Zenon, <1>1, <1>2, <1>3 DEF ReleasesKnown, TableStep, PagesStep
-----------------------------------------------------------------------------
(***************************************************************************)
(* The steps of the release calls keep ReleasesKnown.                      *)
(***************************************************************************)

\* The steps that write nothing and do not touch the pages.
LEMMA QuietCall ==
  ASSUME ReleasesKnown, NEW p \in Procs, NEW c \in R!Call,
         call' = [call EXCEPT ![p] = c], sequence' \in Nat,
         UNCHANGED <<releases, log, listed>>, CallKnows(p)'
  PROVE  ReleasesKnown' /\ TableStep
<1>1. TableStep
  BY Zenon, NoWrite
<1>2. PagesStep
  BY Zenon DEF PagesStep, ReleasesKnown
<1>3. QED
  BY Zenon, <1>1, <1>2, CallStep

\* A call that returns.
LEMMA ReturnsKnowing ==
  ASSUME ReleasesKnown, NEW p \in Procs, call' = [call EXCEPT ![p] = R!Idle],
         UNCHANGED <<releases, log, listed, sequence>>
  PROVE  ReleasesKnown' /\ TableStep
<1>1. call'[p].pc = "idle"
  BY Zenon, NoCall DEF ReleasesKnown
<1>2. CallKnows(p)'
  BY Zenon, <1>1 DEF CallKnows
<1>3. QED
  BY Zenon, <1>2, NoCall, QuietCall DEF ReleasesKnown

\* A client's transition is computed, or a worker's to running or succeeded.
LEMMA ComputesKnowing ==
  ASSUME ReleasesKnown, NEW p \in Procs, NEW op \in {"transition", "gate"},
         NEW id \in R!ReleaseID, NEW to \in R!State, NEW token \in R!Token, NEW rate \in Nat,
         R!Stored(id),
         p \in Workers => to \in {"running", "succeeded"},
         call' = [call EXCEPT ![p] = R!Computed(op, id, to, token, rate)],
         UNCHANGED <<releases, log, listed, sequence>>
  PROVE  ReleasesKnown' /\ TableStep
<1> DEFINE c == R!Computed(op, id, to, token, rate)
<1>1. /\ c \in R!Call
      /\ c.pc = "update"
      /\ c.id = id
      /\ c.rel \in R!Release
      /\ c.rel.state = to
      /\ c.rel.versionRefs = releases[id].versionRefs
  BY ComputedCall
<1>2. call'[p] = c
  BY Zenon DEF ReleasesKnown
<1> HIDE DEF c
<1>3. SameRefs(call[p].rel, call[p].id)'
  BY Zenon, <1>1, <1>2 DEF SameRefs, R!Stored
<1>4. CallKnows(p)'
  BY Zenon, <1>1, <1>2, <1>3 DEF CallKnows
<1>5. QED
  BY Zenon, <1>1, <1>4, QuietCall DEF ReleasesKnown, c

\* createRelease, releaseTransition, healthGate.
LEMMA RequestKnows ==
  ASSUME ReleasesKnown, NEW p \in Clients,
         createRelease(p) \/ releaseTransition(p) \/ healthGate(p)
  PROVE  ReleasesKnown' /\ TableStep
<1>1. p \in Procs /\ p \notin Workers
  BY Zenon, PlaneAssumption DEF Procs
<1>2. CASE createRelease(p)
  <2>1. PICK d \in Drafts : R!CreateRelease(p, d)
    BY Zenon, <1>2 DEF createRelease
  <2>2. sequence' \in Nat /\ sequence' \in R!ReleaseID
    BY <2>1, PlaneAssumption DEF R!CreateRelease, ReleasesKnown, R!ReleaseID
  <2> DEFINE c == [R!Idle EXCEPT !.pc = "refs", !.op = "create", !.id = sequence',
                                 !.rel = R!NewRelease(d), !.todo = d.versionRefs]
  <2>3. /\ c \in R!Call /\ c.pc = "refs" /\ c.id = sequence' /\ c.rel = R!NewRelease(d)
        /\ R!NewRelease(d) \in R!Release
        /\ c.todo = d.versionRefs
    <3>1. R!NewRelease(d) \in R!Release /\ d.versionRefs \in Seq(VersionRef)
      BY Zenon, DraftIsRelease
    <3>2. "refs" \in R!PC /\ "create" \in R!Op
      BY Zenon DEF R!PC, R!Op
    <3>3. QED
      BY ZenonT(30), <2>2, <3>1, <3>2, NoCall DEF R!Call
  <2>4. call' = [call EXCEPT ![p] = c] /\ UNCHANGED <<releases, log, listed>>
    BY Zenon, <2>1 DEF R!CreateRelease
  <2> HIDE DEF c
  <2>5. call'[p] = c
    BY Zenon, <1>1, <2>4 DEF ReleasesKnown
  <2>6. CallKnows(p)'
    BY Zenon, <1>1, <2>1, <2>2, <2>3, <2>5 DEF CallKnows, R!CreateRelease, R!Validate
  <2>7. QED
    BY Zenon, <1>1, <2>2, <2>3, <2>4, <2>6, QuietCall
<1>3. CASE releaseTransition(p)
  <2>1. PICK id \in R!ReleaseID, to \in Targets, token \in CallerTokens :
          R!TransitionRelease(p, id, to, token)
    BY Zenon, <1>3 DEF releaseTransition
  <2>2. to \in R!State /\ token \in R!Token /\ 0 \in Nat
    BY Zenon, PlaneAssumption DEF Targets, R!State, R!Paused, R!Running, R!RolledBack
  <2>3. QED
    BY Zenon, <1>1, <2>1, <2>2, ComputesKnowing DEF R!TransitionRelease, R!Accepts
<1>4. CASE healthGate(p)
  <2>1. PICK id \in R!ReleaseID, rate \in FailureRates, token \in CallerTokens :
          R!AssessReleaseHealth(p, id, rate, token)
    BY Zenon, <1>4 DEF healthGate
  <2>2. rate \in Nat /\ token \in R!Token
    BY Zenon, PlaneAssumption
  <2> DEFINE pause == /\ R!ShouldPause(releases[id], rate)
                      /\ releases[id].state = R!Running
             c == [R!Idle EXCEPT !.pc = "assessed", !.op = "gate", !.id = id,
                                 !.token = token, !.rate = rate, !.pause = pause]
  <2>3. pause \in BOOLEAN
    BY Zenon
  <2>4. call' = [call EXCEPT ![p] = c] /\ UNCHANGED <<releases, log, listed, sequence>>
    BY Zenon, <2>1 DEF R!AssessReleaseHealth
  <2> HIDE DEF pause
  <2>5. c \in R!Call /\ c.pc = "assessed" /\ c.id = id
    <3>1. "assessed" \in R!PC /\ "gate" \in R!Op
      BY Zenon DEF R!PC, R!Op
    <3>2. QED
      BY ZenonT(30), <2>2, <2>3, <3>1, NoCall DEF R!Call
  <2> HIDE DEF c
  <2>6. call'[p] = c
    BY Zenon, <1>1, <2>4 DEF ReleasesKnown
  <2>7. CallKnows(p)'
    BY Zenon, <1>1, <2>5, <2>6 DEF CallKnows
  <2>8. QED
    BY Zenon, <1>1, <2>4, <2>5, <2>7, QuietCall DEF ReleasesKnown
<1>5. QED
  BY Zenon, <1>2, <1>3, <1>4

\* The rest of the references to check.
LEMMA RestOfRefs ==
  ASSUME NEW S, NEW s \in Seq(S), s # <<>>
  PROVE  Tail(s) \in Seq(S) /\ (Len(s) > 1 => Tail(s) # <<>>)
<1>1. Tail(s) \in Seq(S) /\ Len(Tail(s)) = Len(s) - 1 /\ Len(s) \in Nat
  OBVIOUS
<1>2. Len(s) > 1 => Len(Tail(s)) # 0
  BY <1>1
<1>3. Len(<<>>) = 0
  OBVIOUS
<1>4. QED
  BY Zenon, <1>1, <1>2, <1>3

\* Leaving a call shortens at most the page of the process.
LEMMA AbandonKnows ==
  ASSUME ReleasesKnown, NEW p \in Procs, NEW id, R!Abandon(p, id),
         UNCHANGED <<releases, log, sequence>>
  PROVE  ReleasesKnown' /\ TableStep
<1>1. call' = [call EXCEPT ![p] = R!Idle] /\ listed' = R!Proceed(p, id)
  BY Zenon DEF R!Abandon
<1>2. PagesStep
  BY Zenon, <1>1 DEF PagesStep, ReleasesKnown, R!Proceed
<1>3. call'[p].pc = "idle"
  BY Zenon, <1>1, NoCall DEF ReleasesKnown
<1>4. CallKnows(p)'
  BY Zenon, <1>3 DEF CallKnows
<1>5. sequence' \in Nat
  BY Zenon DEF ReleasesKnown
<1>6. QED
  BY Zenon, <1>1, <1>2, <1>4, <1>5, NoCall, NoWrite, CallStep

\* A successful write: the process goes on to audit what it wrote.
LEMMA CommitKnows ==
  ASSUME ReleasesKnown, NEW p \in Procs, NEW op \in R!Op,
         call[p].pc \in {"create", "update"},
         call[p].pc = "create" => ~ R!Stored(call[p].id) /\ p \notin Workers,
         R!Write(call[p].id, call[p].rel, op),
         call' = [call EXCEPT ![p] = R!Committed(p)],
         UNCHANGED <<listed, sequence>>
  PROVE  ReleasesKnown' /\ TableStep
<1>1. call[p].id \in R!ReleaseID /\ call[p].rel \in R!Release
  BY Zenon DEF ReleasesKnown, CallKnows
<1>2. R!Stored(call[p].id) => call[p].rel.versionRefs = releases[call[p].id].versionRefs
  BY Zenon DEF ReleasesKnown, CallKnows, SameRefs
<1>3. /\ R!Committed(p) \in R!Call
      /\ call'[p].pc \in {"audit", "done"}
      /\ call'[p].id = call[p].id
      /\ call'[p].rel = call[p].rel
  BY Zenon, CommittedCall DEF ReleasesKnown
<1>4. /\ TableStep
      /\ releases'[call[p].id] # NoRelease
      /\ call[p].rel.versionRefs = releases'[call[p].id].versionRefs
      /\ Reached(call[p].id, call[p].rel.state)'
  <2> DEFINE id == call[p].id
             rel == call[p].rel
  <2>1. PICK i \in R!ReleaseID, r \in R!Release : i = id /\ r = rel
    BY Zenon, <1>1
  <2>2. /\ R!Write(i, r, op) /\ op \in R!Op \cup {"wave"}
        /\ R!Stored(i) => r.versionRefs = releases[i].versionRefs
    BY Zenon, <1>2, <2>1
  <2>3. TableStep /\ SameRefs(r, i)' /\ Reached(i, r.state)'
    BY Zenon, <2>1, <2>2, WriteTable
  <2>4. QED
    BY Zenon, <1>3, <2>1, <2>3 DEF SameRefs, R!Stored
<1>5. SameRefs(call[p].rel, call[p].id)'
  BY Zenon, <1>3, <1>4 DEF SameRefs, R!Stored
<1>6. p \in Workers => call[p].rel.state \in {"running", "succeeded"}
  BY Zenon DEF ReleasesKnown, CallKnows
<1>7. CallKnows(p)'
  BY Zenon, <1>1, <1>3, <1>4, <1>5, <1>6 DEF CallKnows
<1>8. PagesStep /\ sequence' \in Nat
  BY Zenon DEF PagesStep, ReleasesKnown
<1>9. QED
  BY Zenon, <1>3, <1>4, <1>7, <1>8, CallStep

\* Update, Audit and Return.
LEMMA FinishKnows ==
  ASSUME ReleasesKnown, NEW p \in Procs, R!Update(p) \/ R!Audit(p) \/ R!Return(p)
  PROVE  ReleasesKnown' /\ TableStep
<1>1. call[p] \in R!Call /\ CallKnows(p)
  BY Zenon DEF ReleasesKnown
<1>2. CASE R!Update(p)
  <2>1. CASE R!Abandon(p, call[p].id) /\ UNCHANGED <<releases, log>>
    BY Zenon, <1>2, <2>1, AbandonKnows DEF R!Update
  <2>2. CASE /\ R!Write(call[p].id, call[p].rel, call[p].op)
             /\ call' = [call EXCEPT ![p] = R!Committed(p)]
             /\ UNCHANGED listed
    <3>1. call[p].op \in R!Op
      BY Zenon, <1>1 DEF R!Call
    <3>2. QED
      BY Zenon, <1>2, <2>2, <3>1, CommitKnows DEF R!Update
  <2>3. QED
    BY Zenon, <1>2, <2>1, <2>2 DEF R!Update
<1>3. CASE R!Audit(p)
  <2> DEFINE c == [call[p] EXCEPT !.pc = "done"]
  <2>1. call[p].pc = "audit" /\ call' = [call EXCEPT ![p] = c]
    BY Zenon, <1>3 DEF R!Audit
  <2>2. c \in R!Call /\ c.pc = "done" /\ c.id = call[p].id /\ c.rel = call[p].rel
    BY Zenon, <1>1, GoesOn DEF R!PC
  <2>3. call'[p] = c
    BY Zenon, <2>1 DEF ReleasesKnown
  <2> HIDE DEF c
  <2>4. UNCHANGED <<releases, log, listed, sequence>>
    BY Zenon, <1>3 DEF R!Audit
  <2>5. CallKnows(p)'
    BY Zenon, <1>1, <2>1, <2>2, <2>3, <2>4 DEF CallKnows, SameRefs, R!Stored, Reached
  <2>6. QED
    BY Zenon, <2>1, <2>2, <2>4, <2>5, QuietCall DEF ReleasesKnown
<1>4. CASE R!Return(p)
  BY Zenon, <1>4, AbandonKnows DEF R!Return
<1>5. QED
  BY Zenon, <1>2, <1>3, <1>4

\* The further steps of a client's call.
LEMMA ServeKnows ==
  ASSUME ReleasesKnown, NEW p \in Clients, ReleaseServe(p)
  PROVE  ReleasesKnown' /\ TableStep
<1>1. p \in Procs /\ p \notin Workers
  BY Zenon, PlaneAssumption DEF Procs
<1>2. call[p] \in R!Call /\ CallKnows(p)
  BY Zenon, <1>1 DEF ReleasesKnown
<1>3. ASSUME NEW usable, R!CheckRef(p, usable)
      PROVE  ReleasesKnown' /\ TableStep
  <2> DEFINE pc == IF Len(call[p].todo) > 1 THEN "refs" ELSE "create"
             rest == Tail(call[p].todo)
             c == [call[p] EXCEPT !.todo = rest, !.pc = pc]
  <2>1. UNCHANGED <<releases, log, listed, sequence>> /\ call[p].pc = "refs"
    BY Zenon, <1>3 DEF R!CheckRef
  <2>2. CASE call' = [call EXCEPT ![p] = R!Idle]
    BY Zenon, <1>1, <2>1, <2>2, ReturnsKnowing
  <2>3. CASE call' = [call EXCEPT ![p] = c]
    <3>1. call[p].todo \in Seq(VersionRef) /\ call[p].todo # <<>>
      BY Zenon, <1>2, <2>1 DEF CallKnows, R!Call
    <3>2. rest \in Seq(VersionRef) /\ (pc = "refs" => rest # <<>>)
      BY Zenon, <3>1, RestOfRefs
    <3>3. pc \in {"refs", "create"} /\ pc \in R!PC
      BY Zenon DEF R!PC
    <3> HIDE DEF pc, rest
    <3>4. /\ c \in R!Call /\ c.pc = pc /\ c.id = call[p].id /\ c.rel = call[p].rel
          /\ c.todo = rest
      BY ZenonT(30), <1>2, <3>2, <3>3 DEF R!Call
    <3>5. call'[p] = c
      BY Zenon, <1>1, <2>3 DEF ReleasesKnown
    <3> HIDE DEF c
    <3>6. CallKnows(p)'
      BY Zenon, <1>1, <1>2, <2>1, <3>2, <3>3, <3>4, <3>5 DEF CallKnows
    <3>7. QED
      BY Zenon, <1>1, <2>1, <2>3, <3>4, <3>6, QuietCall DEF ReleasesKnown
  <2>4. QED
    BY Zenon, <1>3, <2>2, <2>3 DEF R!CheckRef
<1>4. CASE R!RepositoryCreate(p)
  <2>1. CASE call' = [call EXCEPT ![p] = R!Idle] /\ UNCHANGED <<releases, idempotency, log>>
    BY Zenon, <1>1, <1>4, <2>1, ReturnsKnowing DEF R!RepositoryCreate
  <2>2. CASE /\ ~ R!Stored(call[p].id)
             /\ R!Write(call[p].id, call[p].rel, "create")
             /\ call' = [call EXCEPT ![p] = R!Committed(p)]
    <3>1. "create" \in R!Op
      BY Zenon DEF R!Op
    <3>2. QED
      BY Zenon, <1>1, <1>4, <2>2, <3>1, CommitKnows DEF R!RepositoryCreate
  <2>3. QED
    BY Zenon, <1>4, <2>1, <2>2 DEF R!RepositoryCreate
<1>5. CASE R!ReadAgain(p)
  <2> DEFINE c == [call[p] EXCEPT !.pc = "gate"]
  <2>1. UNCHANGED <<releases, log, listed, sequence>> /\ call[p].pc = "assessed"
    BY Zenon, <1>5 DEF R!ReadAgain
  <2>2. CASE call' = [call EXCEPT ![p] = R!Idle]
    BY Zenon, <1>1, <2>1, <2>2, ReturnsKnowing
  <2>3. CASE call' = [call EXCEPT ![p] = c]
    <3>1. c \in R!Call /\ c.pc = "gate" /\ c.id = call[p].id
      BY Zenon, <1>2, GoesOn DEF R!PC
    <3>2. call'[p] = c
      BY Zenon, <1>1, <2>3 DEF ReleasesKnown
    <3> HIDE DEF c
    <3>3. CallKnows(p)'
      BY Zenon, <1>1, <1>2, <2>1, <3>1, <3>2 DEF CallKnows
    <3>4. QED
      BY Zenon, <1>1, <2>1, <2>3, <3>1, <3>3, QuietCall DEF ReleasesKnown
  <2>4. QED
    BY Zenon, <1>5, <2>2, <2>3 DEF R!ReadAgain
<1>6. CASE R!GateTransition(p)
  <2>1. UNCHANGED <<releases, log, listed, sequence>> /\ call[p].pc = "gate"
    BY Zenon, <1>6 DEF R!GateTransition
  <2>2. CASE call' = [call EXCEPT ![p] = R!Idle]
    BY Zenon, <1>1, <2>1, <2>2, ReturnsKnowing
  <2>3. CASE /\ R!Accepts(call[p].id, R!Paused, call[p].token)
             /\ call' = [call EXCEPT ![p] =
                          R!Computed("gate", call[p].id, R!Paused, call[p].token, call[p].rate)]
    <3>1. call[p].id \in R!ReleaseID /\ R!Stored(call[p].id)
      BY Zenon, <1>2, <2>1, <2>3 DEF CallKnows, R!Accepts
    <3>2. call[p].token \in R!Token /\ call[p].rate \in Nat /\ R!Paused \in R!State
      BY Zenon, <1>2 DEF R!Call, R!State
    <3>3. "gate" \in {"transition", "gate"}
      BY Zenon
    <3>4. QED
      BY Zenon, <1>1, <2>1, <2>3, <3>1, <3>2, <3>3, ComputesKnowing
  <2>4. QED
    BY Zenon, <1>6, <2>2, <2>3 DEF R!GateTransition
<1>7. CASE R!Finish(p)
  BY Zenon, <1>1, <1>7, FinishKnows DEF R!Finish
<1>8. QED
  BY Zenon, <1>3, <1>4, <1>5, <1>6, <1>7 DEF ReleaseServe

\* Steps of a worker that only turn a page, or write a wave on the way.
LEMMA PageKnows ==
  ASSUME ReleasesKnown, TableStep, PagesStep, UNCHANGED <<call, sequence>>
  PROVE  ReleasesKnown'
<1>1. \A p \in Procs : CallKnows(p)'
  BY Zenon, KnownStays DEF ReleasesKnown
<1>2. ASSUME NEW w \in Workers, NEW item \in listed'[w]
      PROVE  SameRefs(item.rel, item.id)'
  <2>1. item.id \in R!ReleaseID
    BY DEF PagesStep, R!Item
  <2>2. QED
    BY Zenon, <2>1, RefsStaySame DEF PagesStep, ReleasesKnown
<1>3. QED
  BY Zenon, <1>1, <1>2 DEF ReleasesKnown, TableStep, PagesStep

\* The release half of AdvanceReleases.
LEMMA WorkKnows ==
  ASSUME ReleasesKnown, NEW w \in Workers, R!Work(w)
  PROVE  ReleasesKnown' /\ TableStep
<1>1. w \in Procs
  BY Zenon DEF Procs
<1>2. CASE R!ListReleases(w)
  <2>1. TableStep /\ UNCHANGED <<call, sequence, releases>>
    BY Zenon, <1>2, NoWrite DEF R!ListReleases
  <2>2. \A item \in R!FirstPage : item \in R!Item /\ SameRefs(item.rel, item.id)
    <3>1. SUFFICES ASSUME NEW i \in R!ReleaseID, R!Stored(i)
                   PROVE  LET item == [id |-> i, rel |-> releases[i]]
                          IN  item \in R!Item /\ SameRefs(item.rel, item.id)
      BY Zenon DEF R!FirstPage
    <3>2. releases[i] \in R!Release
      BY Zenon, <3>1 DEF ReleasesKnown, R!Stored
    <3>3. QED
      BY Zenon, <3>1, <3>2 DEF R!Item, SameRefs
  <2>3. \A item : SameRefs(item.rel, item.id) => SameRefs(item.rel, item.id)'
    BY Zenon, <2>1 DEF SameRefs, R!Stored
  <2>4. PagesStep
    <3>1. listed' = [listed EXCEPT ![w] = R!FirstPage]
      BY Zenon, <1>2 DEF R!ListReleases
    <3>2. R!FirstPage \in SUBSET R!Item
      BY Zenon, <2>2
    <3>3. listed' \in [Workers -> SUBSET R!Item]
      BY Zenon, <3>1, <3>2 DEF ReleasesKnown
    <3>4. ASSUME NEW v \in Workers, NEW item \in listed'[v]
          PROVE  item \in listed[v] \/ item \in R!FirstPage
      BY Zenon, <3>1 DEF ReleasesKnown
    <3>5. QED
      BY Zenon, <2>2, <2>3, <3>3, <3>4 DEF PagesStep
  <2>5. QED
    BY Zenon, <2>1, <2>4, PageKnows
<1>3. ASSUME NEW item \in listed[w]
      PROVE  /\ item.id \in R!ReleaseID /\ item.rel \in R!Release
             /\ SameRefs(item.rel, item.id)
  BY DEF ReleasesKnown, R!Item
<1>4. ASSUME NEW item \in listed[w], R!AdvanceRelease(w, item)
      PROVE  ReleasesKnown' /\ TableStep
  <2>1. UNCHANGED <<releases, log, sequence>>
    BY Zenon, <1>4 DEF R!AdvanceRelease
  <2>2. CASE R!Abandon(w, item.id)
    BY Zenon, <1>1, <2>1, <2>2, AbandonKnows
  <2>3. ASSUME NEW to \in R!NextStates(item.rel),
               R!Accepts(item.id, to, R!NextToken(item.rel)),
               call' = [call EXCEPT ![w] =
                          R!Computed("transition", item.id, to, R!NextToken(item.rel), 0)],
               UNCHANGED listed
        PROVE  ReleasesKnown' /\ TableStep
    <3>1. to \in {"running", "succeeded"} /\ to \in R!State
      BY Zenon DEF R!NextStates, R!Running, R!Succeeded, R!State
    <3>2. R!NextToken(item.rel) \in R!Token /\ 0 \in Nat
      BY Zenon, <1>3, SuccessorIsToken
    <3>3. R!Stored(item.id) /\ "transition" \in {"transition", "gate"}
      BY Zenon, <2>3 DEF R!Accepts
    <3>4. QED
      BY Zenon, <1>1, <1>3, <2>1, <2>3, <3>1, <3>2, <3>3, ComputesKnowing
  <2>4. QED
    BY Zenon, <1>4, <2>2, <2>3 DEF R!AdvanceRelease
<1>5. ASSUME NEW item \in listed[w], R!AdvanceWave(w, item) \/ R!SkipRelease(w, item)
      PROVE  ReleasesKnown' /\ TableStep
  <2>1. UNCHANGED <<call, sequence>> /\ listed' = R!Proceed(w, item.id)
    BY Zenon, <1>5 DEF R!AdvanceWave, R!SkipRelease
  <2>2. PagesStep
    BY Zenon, <2>1 DEF PagesStep, ReleasesKnown, R!Proceed
  <2>3. CASE UNCHANGED <<releases, log>>
    BY Zenon, <2>1, <2>2, <2>3, NoWrite, PageKnows
  <2>4. CASE R!Write(item.id, R!NextWave(item.rel), "wave")
    <3>1. /\ R!NextWave(item.rel) \in R!Release
          /\ R!NextWave(item.rel).versionRefs = item.rel.versionRefs
      BY Zenon, <1>3, NextWaveRefs
    <3>2. R!NextWave(item.rel).versionRefs = releases[item.id].versionRefs
      BY Zenon, <1>3, <3>1 DEF SameRefs
    <3>3. PICK i \in R!ReleaseID, r \in R!Release :
            i = item.id /\ r = R!NextWave(item.rel)
      BY Zenon, <1>3, <3>1
    <3>4. R!Write(i, r, "wave") /\ r.versionRefs = releases[i].versionRefs
      BY Zenon, <2>4, <3>2, <3>3
    <3>5. TableStep
      BY Zenon, <3>3, <3>4, WriteTable
    <3>6. QED
      BY Zenon, <2>1, <2>2, <3>5, PageKnows
  <2>5. QED
    BY Zenon, <1>5, <2>3, <2>4 DEF R!AdvanceWave, R!SkipRelease
<1>6. QED
  BY Zenon, <1>2, <1>4, <1>5 DEF R!Work
-----------------------------------------------------------------------------
(***************************************************************************)
(* The configuration side.                                                 *)
(***************************************************************************)

\* The frame of a process outside every configuration call.
LEMMA NoFrame == C!Idle \in C!Frame /\ C!Idle.pc = "idle"
  BY Zenon DEF C!Idle, C!Frame

\* A frame that goes on keeps what it carries.
LEMMA FrameGoesOn ==
  ASSUME NEW f \in C!Frame,
         NEW pc \in {"idle", "create", "deps", "put", "update", "audit", "emit"}
  PROVE  /\ [f EXCEPT !.pc = pc] \in C!Frame
         /\ [f EXCEPT !.pc = pc].pc = pc
         /\ [f EXCEPT !.pc = pc].id = f.id
         /\ [f EXCEPT !.pc = pc].num = f.num
         /\ [f EXCEPT !.pc = pc].next = f.next
  BY ZenonT(30) DEF C!Frame

\* A transition of a version is a version in the new state.
LEMMA VersionMoves ==
  ASSUME NEW v \in C!ConfigVersion, NEW to \in C!VersionState
  PROVE  C!Transition(v, to) \in C!ConfigVersion /\ C!Transition(v, to).state = to
<1> DEFINE n == v.revision + 1
<1>1. n \in Nat
  BY DEF C!ConfigVersion
<1> HIDE DEF n
<1>2. LET t == [v EXCEPT !.state = to, !.revision = n]
      IN  t \in C!ConfigVersion /\ t.state = to
  BY ZenonT(30), <1>1 DEF C!ConfigVersion
<1>3. QED
  BY Zenon, <1>2 DEF C!Transition, n

\* What releases have carried stays carried.
LEMMA BackedStays ==
  ASSUME TableStep, NEW ref, NEW state, Backed(ref, state)
  PROVE  Backed(ref, state)'
<1>1. ASSUME NEW id \in R!ReleaseID, References(id, ref)
      PROVE  References(id, ref)'
  BY Zenon, <1>1 DEF References, TableStep, R!Stored
<1>2. ASSUME NEW st, Carried(ref, st)
      PROVE  Carried(ref, st)'
  BY Zenon, <1>1, <1>2 DEF Carried, TableStep
<1>3. QED
  BY Zenon, <1>2 DEF Backed

\* And a write in flight that was backed still is.
LEMMA FrameStaysBacked ==
  ASSUME TableStep, NEW p, FrameBacked(frame[p]), frame'[p] = frame[p]
  PROVE  FrameBacked(frame[p])'
<1>1. ASSUME Backed(<<frame[p].id, frame[p].num>>, frame[p].next.state)
      PROVE  Backed(<<frame[p].id, frame[p].num>>, frame[p].next.state)'
  <2>1. PICK ref, st : ref = <<frame[p].id, frame[p].num>> /\ st = frame[p].next.state
    BY Zenon
  <2>2. Backed(ref, st)'
    BY Zenon, <1>1, <2>1, BackedStays
  <2>3. QED
    BY Zenon, <2>1, <2>2
<1>2. QED
  BY Zenon, <1>1 DEF FrameBacked

\* A step that leaves the versions alone and one process with a backed frame.
LEMMA FrameStep ==
  ASSUME VersionsBacked, TableStep, NEW p \in Procs, NEW f \in C!Frame,
         frame' = [frame EXCEPT ![p] = f], FrameBacked(frame[p])',
         versions' \in [C!ConfigID -> [C!Number -> C!ConfigVersion \cup {NoVersion}]],
         VersionsFollowReleases', issued' \in Nat
  PROVE  VersionsBacked'
<1>1. frame' \in [Procs -> C!Frame]
  BY Zenon DEF VersionsBacked
<1>2. ASSUME NEW q \in Procs
      PROVE  FrameBacked(frame[q])'
  <2>1. q # p => frame'[q] = frame[q]
    BY Zenon DEF VersionsBacked
  <2>2. QED
    BY Zenon, <2>1, FrameStaysBacked DEF VersionsBacked
<1>3. QED
  BY Zenon, <1>1, <1>2 DEF VersionsBacked

\* Versions nobody writes keep following the releases.
LEMMA VersionsStay ==
  ASSUME VersionsBacked, TableStep, UNCHANGED versions
  PROVE  /\ versions' \in [C!ConfigID -> [C!Number -> C!ConfigVersion \cup {NoVersion}]]
         /\ VersionsFollowReleases'
<1>1. ASSUME NEW ref \in VersionRef, VersionOf(ref)' # NoVersion
      PROVE  Backed(ref, VersionOf(ref).state)'
  <2>1. Backed(ref, VersionOf(ref).state) /\ VersionOf(ref)' = VersionOf(ref)
    BY Zenon, <1>1 DEF VersionsBacked, VersionsFollowReleases, VersionOf
  <2>2. PICK st : st = VersionOf(ref).state
    BY Zenon
  <2>3. Backed(ref, st)'
    BY Zenon, <2>1, <2>2, BackedStays
  <2>4. QED
    BY Zenon, <2>1, <2>2, <2>3
<1>2. QED
  BY Zenon, <1>1 DEF VersionsBacked, VersionsFollowReleases

\* A step that is not about configurations.
LEMMA ConfigsUntouched ==
  ASSUME VersionsBacked, TableStep, UNCHANGED configVars
  PROVE  VersionsBacked'
<1>1. UNCHANGED <<versions, frame, issued>>
  BY Zenon DEF configVars
<1>2. \A p \in Procs : FrameBacked(frame[p])'
  BY Zenon, <1>1, FrameStaysBacked DEF VersionsBacked
<1>3. QED
  BY Zenon, <1>1, <1>2, VersionsStay DEF VersionsBacked

\* A step that changes one frame only, to one that is about to write nothing.
LEMMA IdleFrameStep ==
  ASSUME VersionsBacked, TableStep, NEW p \in Procs, NEW f \in C!Frame,
         frame' = [frame EXCEPT ![p] = f], f.pc \notin {"deps", "put", "update"},
         UNCHANGED versions, issued' \in Nat
  PROVE  VersionsBacked'
<1>1. frame'[p] = f
  BY Zenon DEF VersionsBacked
<1>2. FrameBacked(frame[p])'
  BY Zenon, <1>1 DEF FrameBacked
<1>3. QED
  BY Zenon, <1>2, VersionsStay, FrameStep

\* A version write: what is written is backed.
LEMMA WriteFollows ==
  ASSUME VersionsBacked, TableStep, UNCHANGED <<releases, log, issued>>, NEW p \in Procs,
         frame[p].pc \in {"put", "update"},
         versions' = [versions EXCEPT ![frame[p].id][frame[p].num] = frame[p].next],
         NEW f \in C!Frame, frame' = [frame EXCEPT ![p] = f],
         f.pc \notin {"deps", "put", "update"}
  PROVE  VersionsBacked'
<1> DEFINE i == frame[p].id
           n == frame[p].num
           v == frame[p].next
<1>1. v \in C!ConfigVersion /\ Backed(<<i, n>>, v.state)
  BY Zenon DEF VersionsBacked, FrameBacked
<1>2. versions' \in [C!ConfigID -> [C!Number -> C!ConfigVersion \cup {NoVersion}]]
  BY Zenon, <1>1 DEF VersionsBacked
<1>3. ASSUME NEW ref \in VersionRef
      PROVE  \/ versions'[ref[1]][ref[2]] = versions[ref[1]][ref[2]]
             \/ ref = <<i, n>> /\ versions'[ref[1]][ref[2]] = v
  <2>1. /\ ref[1] \in C!ConfigID /\ ref[2] \in C!Number /\ ref = <<ref[1], ref[2]>>
    BY DEF VersionRef, C!ConfigID, C!Number
  <2> HIDE DEF i, n, v
  <2>2. versions' = [versions EXCEPT ![i][n] = v]
    BY Zenon DEF i, n, v
  <2>3. CASE ref[1] = i /\ ref[2] = n
    BY <2>1, <2>2, <2>3 DEF VersionsBacked
  <2>4. CASE ~ (ref[1] = i /\ ref[2] = n)
    BY <2>1, <2>2, <2>4 DEF VersionsBacked
  <2>5. QED
    BY Zenon, <2>3, <2>4
<1>4. ASSUME NEW ref \in VersionRef, VersionOf(ref)' # NoVersion
      PROVE  Backed(ref, VersionOf(ref).state)'
  <2>1. PICK x : x = versions'[ref[1]][ref[2]]
    BY Zenon
  <2>2. Backed(ref, x.state)
    BY Zenon, <1>1, <1>3, <1>4, <2>1 DEF VersionsBacked, VersionsFollowReleases, VersionOf
  <2>3. Backed(ref, x.state)'
    BY Zenon, <2>2, BackedStays
  <2>4. QED
    BY Zenon, <2>1, <2>3 DEF VersionOf
<1>5. frame'[p] = f
  BY Zenon DEF VersionsBacked
<1>6. FrameBacked(frame[p])'
  BY Zenon, <1>5 DEF FrameBacked
<1>7. VersionsFollowReleases'
  BY Zenon, <1>4 DEF VersionsFollowReleases
<1>8. issued' \in Nat
  BY Zenon DEF VersionsBacked
<1>9. QED
  BY Zenon, <1>2, <1>6, <1>7, <1>8, FrameStep
-----------------------------------------------------------------------------
(***************************************************************************)
(* The steps of the configuration calls keep VersionsBacked.               *)
(***************************************************************************)

\* A transition of a version that releases back.
LEMMA TransitionBacked ==
  ASSUME VersionsBacked, TableStep, NEW p \in Procs,
         NEW i \in C!ConfigID, NEW n \in C!Number, NEW to \in C!VersionState, NEW expected,
         C!TransitionVersion(p, i, n, to, expected), Backed(<<i, n>>, to)
  PROVE  VersionsBacked'
<1>1. versions[i][n] \in C!ConfigVersion
  BY Zenon DEF C!TransitionVersion, C!Accepts, C!Stored, VersionsBacked
<1> DEFINE v == C!Transition(versions[i][n], to)
           f == C!Computed(i, n, to)
<1>2. v \in C!ConfigVersion /\ v.state = to
  BY Zenon, <1>1, VersionMoves
<1> HIDE DEF v
<1>3. LET g == [C!Idle EXCEPT !.pc = "update", !.id = i, !.num = n,
                              !.base = versions[i][n], !.next = v]
      IN  g \in C!Frame /\ g.id = i /\ g.num = n /\ g.next = v
  BY ZenonT(30), <1>1, <1>2, NoFrame DEF C!Frame
<1>4. f \in C!Frame /\ f.id = i /\ f.num = n /\ f.next = v
  BY Zenon, <1>3 DEF C!Computed, v
<1> HIDE DEF f
<1>5. frame' = [frame EXCEPT ![p] = f] /\ UNCHANGED <<versions, issued>>
  BY Zenon DEF C!TransitionVersion, C!Goto, f
<1>6. frame'[p] = f
  BY Zenon, <1>5 DEF VersionsBacked
<1>7. Backed(<<i, n>>, to)'
  BY Zenon, BackedStays
<1>8. FrameBacked(frame[p])'
  BY Zenon, <1>2, <1>4, <1>6, <1>7 DEF FrameBacked
<1>9. QED
  BY Zenon, <1>4, <1>5, <1>8, VersionsStay, FrameStep DEF VersionsBacked

\* createConfig, createVersion, approve: none rolls out or publishes.
LEMMA RequestBacked ==
  ASSUME VersionsBacked, TableStep, NEW p \in Clients,
         createConfig(p) \/ createVersion(p) \/ approve(p)
  PROVE  VersionsBacked'
<1>1. p \in Procs
  BY Zenon DEF Procs
<1>2. CASE createConfig(p)
  <2>1. PICK k \in Key : C!CreateConfig(p, k)
    BY Zenon, <1>2 DEF createConfig
  <2>2. issued' \in Nat /\ issued' \in C!ConfigID
    BY <2>1, PlaneAssumption DEF C!CreateConfig, VersionsBacked, C!ConfigID
  <2> DEFINE f == [C!Idle EXCEPT !.pc = "create", !.id = issued', !.key = k]
  <2>3. f \in C!Frame /\ f.pc = "create"
    BY ZenonT(30), <2>1, <2>2, NoFrame DEF C!Frame
  <2>4. frame' = [frame EXCEPT ![p] = f] /\ UNCHANGED versions
    BY Zenon, <2>1 DEF C!CreateConfig, C!Goto
  <2> HIDE DEF f
  <2>5. QED
    BY Zenon, <1>1, <2>2, <2>3, <2>4, IdleFrameStep
<1>3. CASE createVersion(p)
  <2>1. PICK i \in C!ConfigID, value \in Value : C!CreateVersion(p, i, value)
    BY Zenon, <1>3 DEF createVersion
  <2> DEFINE n == C!NextNumber(i)
             v == C!NewVersion(value)
             f == [C!Idle EXCEPT !.pc = "deps", !.id = i, !.num = n, !.next = v]
  <2>2. n \in C!Number /\ frame' = [frame EXCEPT ![p] = f] /\ UNCHANGED <<versions, issued>>
    BY Zenon, <2>1 DEF C!CreateVersion, C!Goto
  <2>3. v \in C!ConfigVersion /\ v.state = "draft"
    BY Zenon, <2>1 DEF C!NewVersion, C!ConfigVersion, C!VersionState, C!Draft
  <2> HIDE DEF n, v
  <2>4. f \in C!Frame /\ f.next = v
    BY ZenonT(30), <2>1, <2>2, <2>3, NoFrame DEF C!Frame
  <2> HIDE DEF f
  <2>5. frame'[p] = f
    BY Zenon, <1>1, <2>2 DEF VersionsBacked
  <2>6. FrameBacked(frame[p])'
    BY Zenon, <2>3, <2>4, <2>5 DEF FrameBacked, Backed
  <2>7. QED
    BY Zenon, <1>1, <2>2, <2>4, <2>6, VersionsStay, FrameStep DEF VersionsBacked
<1>4. CASE approve(p)
  <2>1. PICK i \in C!ConfigID, n \in C!Number, to \in ApproveTargets,
             expected \in 1 .. MaxRevision : C!TransitionVersion(p, i, n, to, expected)
    BY Zenon, <1>4 DEF approve
  <2>2. to \in C!VersionState /\ Backed(<<i, n>>, to)
    BY Zenon DEF ApproveTargets, C!VersionState, C!Reviewing, C!Scheduled, Backed
  <2>3. QED
    BY Zenon, <1>1, <2>1, <2>2, TransitionBacked
<1>5. QED
  BY Zenon, <1>2, <1>3, <1>4

\* The further steps of a configuration call.
LEMMA ConfigServeBacked ==
  ASSUME VersionsBacked, TableStep, UNCHANGED <<releases, log>>,
         NEW p \in Procs, C!Serve(p)
  PROVE  VersionsBacked'
<1>1. frame[p] \in C!Frame /\ issued \in Nat /\ FrameBacked(frame[p])
  BY Zenon DEF VersionsBacked
<1>2. CASE UNCHANGED <<versions, issued>> /\ frame' = [frame EXCEPT ![p] = C!Idle]
  BY Zenon, <1>1, <1>2, NoFrame, IdleFrameStep
<1>3. CASE C!RepositoryCreate(p)
  <2>1. CASE frame' = [frame EXCEPT ![p] = [frame[p] EXCEPT !.pc = "audit", !.key = NoKey]]
    <3> DEFINE f == [frame[p] EXCEPT !.pc = "audit", !.key = NoKey]
    <3>1. f \in C!Frame /\ f.pc = "audit"
      BY ZenonT(30), <1>1 DEF C!Frame
    <3>2. UNCHANGED <<versions, issued>>
      BY Zenon, <1>3 DEF C!RepositoryCreate
    <3> HIDE DEF f
    <3>3. QED
      BY Zenon, <1>1, <2>1, <3>1, <3>2, IdleFrameStep DEF f
  <2>2. QED
    BY Zenon, <1>2, <1>3, <2>1 DEF C!RepositoryCreate, C!Goto
<1>4. CASE C!ValidateDependencies(p)
  <2>1. CASE frame' = [frame EXCEPT ![p] = [frame[p] EXCEPT !.pc = "put"]]
    <3> DEFINE f == [frame[p] EXCEPT !.pc = "put"]
    <3>1. f \in C!Frame /\ f.id = frame[p].id /\ f.num = frame[p].num /\ f.next = frame[p].next
      BY Zenon, <1>1, FrameGoesOn
    <3>2. UNCHANGED <<versions, issued>> /\ frame[p].pc = "deps"
      BY Zenon, <1>4 DEF C!ValidateDependencies
    <3> HIDE DEF f
    <3>3. frame'[p] = f
      BY Zenon, <2>1 DEF VersionsBacked, f
    <3>4. /\ frame[p].next \in C!ConfigVersion
          /\ Backed(<<frame[p].id, frame[p].num>>, frame[p].next.state)
      BY Zenon, <1>1, <3>2 DEF FrameBacked
    <3>5. PICK ref, st : ref = <<frame[p].id, frame[p].num>> /\ st = frame[p].next.state
      BY Zenon
    <3>6. Backed(ref, st)'
      BY Zenon, <3>4, <3>5, BackedStays
    <3>7. FrameBacked(frame[p])'
      BY Zenon, <3>1, <3>3, <3>4, <3>5, <3>6 DEF FrameBacked
    <3>8. QED
      BY Zenon, <1>1, <2>1, <3>1, <3>2, <3>7, VersionsStay, FrameStep DEF f
  <2>2. QED
    BY Zenon, <1>2, <1>4, <2>1 DEF C!ValidateDependencies, C!Goto
<1>5. CASE C!PutVersion(p)
  <2>1. CASE /\ versions' = [versions EXCEPT ![frame[p].id][frame[p].num] = frame[p].next]
             /\ frame' = [frame EXCEPT ![p] = [frame[p] EXCEPT !.pc = "audit"]]
    <3> DEFINE f == [frame[p] EXCEPT !.pc = "audit"]
    <3>1. f \in C!Frame /\ f.pc = "audit"
      BY Zenon, <1>1, FrameGoesOn
    <3>2. frame[p].pc = "put" /\ UNCHANGED issued
      BY Zenon, <1>5 DEF C!PutVersion
    <3> HIDE DEF f
    <3>3. QED
      BY Zenon, <2>1, <3>1, <3>2, WriteFollows DEF f
  <2>2. QED
    BY Zenon, <1>2, <1>5, <2>1 DEF C!PutVersion, C!Goto
<1>6. CASE C!UpdateVersion(p)
  <2>1. CASE /\ versions' = [versions EXCEPT ![frame[p].id][frame[p].num] = frame[p].next]
             /\ frame' = [frame EXCEPT ![p] =
                            [frame[p] EXCEPT !.pc = "audit", !.base = NoVersion]]
    <3> DEFINE f == [frame[p] EXCEPT !.pc = "audit", !.base = NoVersion]
    <3>1. f \in C!Frame /\ f.pc = "audit"
      BY ZenonT(30), <1>1 DEF C!Frame
    <3>2. frame[p].pc = "update" /\ UNCHANGED issued
      BY Zenon, <1>6 DEF C!UpdateVersion
    <3> HIDE DEF f
    <3>3. QED
      BY Zenon, <2>1, <3>1, <3>2, WriteFollows DEF f
  <2>2. QED
    BY Zenon, <1>2, <1>6, <2>1 DEF C!UpdateVersion, C!Goto
<1>7. CASE C!Audit(p)
  <2> DEFINE f == [frame[p] EXCEPT !.pc = "emit"]
  <2>1. f \in C!Frame /\ f.pc = "emit"
    BY Zenon, <1>1, FrameGoesOn
  <2>2. frame' = [frame EXCEPT ![p] = f] /\ UNCHANGED <<versions, issued>>
    BY Zenon, <1>7 DEF C!Audit, C!Goto
  <2> HIDE DEF f
  <2>3. QED
    BY Zenon, <1>1, <2>1, <2>2, IdleFrameStep
<1>8. CASE C!Emit(p)
  BY Zenon, <1>2, <1>8 DEF C!Emit, C!Goto
<1>9. QED
  BY Zenon, <1>3, <1>4, <1>5, <1>6, <1>7, <1>8 DEF C!Serve
-----------------------------------------------------------------------------
(***************************************************************************)
(* AdvanceReleases' loop over the references of a release.                 *)
(***************************************************************************)

\* The reference the loop is at is one of the release it has just moved.
LEMMA AtReference ==
  ASSUME ReleasesKnown, LoopsInRange, NEW w \in Workers, InLoop(w), seen[w] # 0
  PROVE  /\ NextRef(w) \in VersionRef
         /\ call[w].rel.state \in {"running", "succeeded"}
         /\ Carried(NextRef(w), call[w].rel.state)
<1>1. w \in Procs /\ call[w].pc = "done"
  BY Zenon DEF Procs, InLoop
<1>2. /\ call[w].rel \in R!Release /\ call[w].id \in R!ReleaseID
      /\ SameRefs(call[w].rel, call[w].id)
      /\ call[w].rel.state \in {"running", "succeeded"}
      /\ Reached(call[w].id, call[w].rel.state)
  BY Zenon, <1>1 DEF ReleasesKnown, CallKnows
<1>3. Refs(w) \in Seq(VersionRef)
  BY Zenon, <1>2 DEF Refs, R!Release
<1>4. done[w] \in Nat /\ done[w] < Len(Refs(w))
  BY Zenon DEF LoopsInRange
<1>5. done[w] + 1 \in 1 .. Len(Refs(w)) /\ NextRef(w) \in VersionRef
  BY <1>3, <1>4 DEF NextRef
<1>6. References(call[w].id, NextRef(w))
  BY Zenon, <1>2, <1>5 DEF References, SameRefs, Refs, NextRef
<1>7. QED
  BY Zenon, <1>2, <1>5, <1>6 DEF Carried

\* Only a version that is rolling out can be published.
LEMMA OnlyFromRollingOut ==
  ASSUME NEW v \in C!ConfigVersion, C!CanTransition(v, "published")
  PROVE  v.state = "rolling_out"
<1>1. v.state \in C!VersionState
  BY Zenon DEF C!ConfigVersion
<1>2. QED
  BY <1>1 DEF C!CanTransition, C!Allowed, C!VersionState, C!Draft, C!Reviewing, C!Scheduled,
              C!RollingOut, C!Paused, C!Published, C!RolledBack, C!Expired

\* What the loop asks of TransitionVersion, releases back.
LEMMA GoalIsBacked ==
  ASSUME ReleasesKnown, VersionsBacked, LoopsInRange, NEW w \in Workers, MoveRef(w),
         C!TransitionVersion(w, NextRef(w)[1], NextRef(w)[2], Goal(w), seen[w])
  PROVE  /\ NextRef(w)[1] \in C!ConfigID /\ NextRef(w)[2] \in C!Number
         /\ NextRef(w) = <<NextRef(w)[1], NextRef(w)[2]>>
         /\ Goal(w) \in C!VersionState
         /\ Backed(NextRef(w), Goal(w))
<1>1. /\ NextRef(w) \in VersionRef
      /\ call[w].rel.state \in {"running", "succeeded"}
      /\ Carried(NextRef(w), call[w].rel.state)
  BY Zenon, AtReference DEF MoveRef
<1>2. PICK ref \in VersionRef : ref = NextRef(w)
  BY Zenon, <1>1
<1>3. ref[1] \in C!ConfigID /\ ref[2] \in C!Number /\ ref = <<ref[1], ref[2]>>
  BY DEF VersionRef, C!ConfigID, C!Number
<1>4. Goal(w) \in C!VersionState
  BY Zenon DEF Goal, C!VersionState, C!RollingOut, C!Published
<1>5. CASE call[w].rel.state = "running"
  <2>1. Goal(w) = "rolling_out" /\ Carried(ref, "running")
    BY Zenon, <1>1, <1>2, <1>5 DEF Goal
  <2>2. QED
    BY Zenon, <1>2, <1>3, <1>4, <2>1 DEF Backed
<1>6. CASE call[w].rel.state # "running"
  <2>1. Goal(w) = "published" /\ Carried(ref, "succeeded")
    BY Zenon, <1>1, <1>2, <1>6 DEF Goal
  <2>2. VersionOf(ref) # NoVersion /\ C!CanTransition(VersionOf(ref), "published")
    BY Zenon, <1>2, <2>1 DEF C!TransitionVersion, C!Accepts, C!Stored, VersionOf
  <2>3. VersionOf(ref) \in C!ConfigVersion
    BY Zenon, <1>3, <2>2 DEF VersionsBacked, VersionOf
  <2>4. VersionOf(ref).state = "rolling_out"
    BY Zenon, <2>2, <2>3, OnlyFromRollingOut
  <2>5. Carried(ref, "running")
    BY Zenon, <2>2, <2>4 DEF VersionsBacked, VersionsFollowReleases, Backed
  <2>6. QED
    BY Zenon, <1>2, <1>3, <1>4, <2>1, <2>5 DEF Backed
<1>7. QED
  BY Zenon, <1>5, <1>6

\* So the loop keeps the versions behind their releases.
LEMMA MoveRefBacked ==
  ASSUME ReleasesKnown, VersionsBacked, LoopsInRange, TableStep,
         NEW w \in Workers, MoveRef(w)
  PROVE  VersionsBacked'
<1>1. w \in Procs
  BY Zenon DEF Procs
<1>2. CASE C!TransitionVersion(w, NextRef(w)[1], NextRef(w)[2], Goal(w), seen[w])
  <2>1. PICK i \in C!ConfigID, n \in C!Number, to \in C!VersionState :
             /\ i = NextRef(w)[1] /\ n = NextRef(w)[2] /\ to = Goal(w)
             /\ Backed(<<i, n>>, to)
    BY Zenon, <1>2, GoalIsBacked
  <2>2. PICK expected : C!TransitionVersion(w, i, n, to, expected)
    BY Zenon, <1>2, <2>1
  <2>3. QED
    BY Zenon, <1>1, <2>1, <2>2, TransitionBacked
<1>3. CASE UNCHANGED configVars
  BY Zenon, <1>3, ConfigsUntouched
<1>4. QED
  BY Zenon, <1>2, <1>3 DEF MoveRef

\* Steps of other processes leave a worker at its reference.
LEMMA LoopsStay ==
  ASSUME ReleasesKnown, LoopsInRange, UNCHANGED <<done, seen>>,
         NEW p \in Procs, NEW c,
         UNCHANGED call \/ call' = [call EXCEPT ![p] = c],
         p \in Workers => call[p].pc # "done" \/ UNCHANGED call
  PROVE  LoopsInRange'
<1>1. ASSUME NEW w \in Workers, seen[w] # 0
      PROVE  call'[w] = call[w]
  BY Zenon, <1>1 DEF LoopsInRange, ReleasesKnown, Procs
<1>2. QED
  BY Zenon, <1>1 DEF LoopsInRange, Refs

\* A release step is a step of one call.
LEMMA OneCall ==
  ASSUME NEW p,
         \/ createRelease(p) \/ releaseTransition(p) \/ healthGate(p)
         \/ ReleaseServe(p) \/ Work(p)
  PROVE  \E c : UNCHANGED call \/ call' = [call EXCEPT ![p] = c]
<1>1. CASE createRelease(p) \/ releaseTransition(p) \/ healthGate(p)
  BY Zenon, <1>1 DEF createRelease, releaseTransition, healthGate, R!CreateRelease,
                     R!TransitionRelease, R!AssessReleaseHealth
<1>2. CASE R!CheckRef(p, Usable(Head(call[p].todo))) \/ R!RepositoryCreate(p)
  BY Zenon, <1>2 DEF R!CheckRef, R!RepositoryCreate
<1>3. CASE R!ReadAgain(p) \/ R!GateTransition(p)
  BY Zenon, <1>3 DEF R!ReadAgain, R!GateTransition
<1>4. CASE R!Finish(p) \/ R!Update(p) \/ R!Audit(p)
  BY Zenon, <1>4 DEF R!Finish, R!Update, R!Audit, R!Return, R!Abandon
<1>5. CASE R!Work(p)
  BY Zenon, <1>5 DEF R!Work, R!ListReleases, R!AdvanceRelease, R!AdvanceWave,
                     R!SkipRelease, R!Abandon
<1>6. QED
  BY Zenon, <1>1, <1>2, <1>3, <1>4, <1>5 DEF ReleaseServe, Work
-----------------------------------------------------------------------------
(***************************************************************************)
(* PlaneInv is an invariant.                                               *)
(***************************************************************************)

\* Nothing is stored and nobody is in a call at the start.
LEMMA InitPlaneInv == Init => PlaneInv
<1> SUFFICES ASSUME Init PROVE PlaneInv
  OBVIOUS
<1>1. ReleasesKnown
  <2>1. /\ releases \in [R!ReleaseID -> R!Release \cup {NoRelease}]
        /\ sequence \in Nat
        /\ listed \in [Workers -> SUBSET R!Item]
    BY Zenon DEF Init, R!Init
  <2>2. call \in [Procs -> R!Call] /\ \A p \in Procs : call[p] = R!Idle
    BY Zenon, NoCall DEF Init, R!Init, R!Procs, Procs
  <2>3. <<>> \in Seq(R!LogEntry)
    OBVIOUS
  <2>4. log \in [R!ReleaseID -> Seq(R!LogEntry)]
    BY Zenon, <2>3 DEF Init, R!Init
  <2>5. \A p \in Procs : CallKnows(p)
    BY Zenon, <2>2, NoCall DEF CallKnows
  <2>6. QED
    BY Zenon, <2>1, <2>2, <2>4, <2>5 DEF ReleasesKnown, Init, R!Init
<1>2. VersionsBacked
  <2>1. frame \in [Procs -> C!Frame] /\ \A p \in Procs : frame[p] = C!Idle
    BY Zenon, NoFrame DEF Init, C!Init
  <2>2. \A ref \in VersionRef : VersionOf(ref) = NoVersion
    <3>1. \A ref \in VersionRef : ref[1] \in C!ConfigID /\ ref[2] \in C!Number
      BY DEF VersionRef, C!ConfigID, C!Number
    <3>2. QED
      BY Zenon, <3>1 DEF Init, C!Init, VersionOf
  <2>3. QED
    BY Zenon, <2>1, <2>2, NoFrame
       DEF Init, C!Init, VersionsBacked, FrameBacked, VersionsFollowReleases
<1>3. LoopsInRange
  BY Zenon DEF Init, LoopsInRange
<1>4. QED
  BY Zenon, <1>1, <1>2, <1>3 DEF PlaneInv

\* A step that is not about releases.
LEMMA ReleasesUntouched ==
  ASSUME ReleasesKnown, UNCHANGED releaseVars
  PROVE  ReleasesKnown' /\ TableStep
<1>1. UNCHANGED <<releases, log, call, listed, sequence>>
  BY Zenon DEF releaseVars
<1>2. TableStep
  BY Zenon, <1>1, NoWrite
<1>3. PagesStep
  BY Zenon, <1>1 DEF PagesStep, ReleasesKnown
<1>4. QED
  BY Zenon, <1>1, <1>2, <1>3, PageKnows

\* A request of a route.
LEMMA RequestPlane ==
  ASSUME PlaneInv, NEW p \in Clients, Request(p)
  PROVE  PlaneInv'
<1>1. ReleasesKnown /\ VersionsBacked /\ LoopsInRange /\ p \in Procs /\ p \notin Workers
  BY Zenon, PlaneAssumption DEF PlaneInv, Procs
<1>2. UNCHANGED <<done, seen>>
  BY Zenon DEF Request
<1>3. CASE (createRelease(p) \/ releaseTransition(p) \/ healthGate(p)) /\ UNCHANGED configVars
  <2>1. ReleasesKnown' /\ TableStep
    BY Zenon, <1>1, <1>3, RequestKnows
  <2>2. VersionsBacked'
    BY Zenon, <1>1, <1>3, <2>1, ConfigsUntouched
  <2>3. PICK c : UNCHANGED call \/ call' = [call EXCEPT ![p] = c]
    BY Zenon, <1>3, OneCall
  <2>4. LoopsInRange'
    BY Zenon, <1>1, <1>2, <2>3, LoopsStay
  <2>5. QED
    BY Zenon, <2>1, <2>2, <2>4 DEF PlaneInv
<1>4. CASE (createConfig(p) \/ createVersion(p) \/ approve(p)) /\ UNCHANGED releaseVars
  <2>1. ReleasesKnown' /\ TableStep
    BY Zenon, <1>1, <1>4, ReleasesUntouched
  <2>2. VersionsBacked'
    BY Zenon, <1>1, <1>4, <2>1, RequestBacked
  <2>3. LoopsInRange'
    BY Zenon, <1>1, <1>2, <1>4, LoopsStay DEF releaseVars
  <2>4. QED
    BY Zenon, <2>1, <2>2, <2>3 DEF PlaneInv
<1>5. QED
  BY Zenon, <1>3, <1>4 DEF Request

\* The further steps of a release request.
LEMMA ReleaseServePlane ==
  ASSUME PlaneInv, NEW p \in Clients, ReleaseServe(p)
  PROVE  PlaneInv'
<1>1. ReleasesKnown /\ VersionsBacked /\ LoopsInRange /\ p \in Procs /\ p \notin Workers
  BY Zenon, PlaneAssumption DEF PlaneInv, Procs
<1>2. UNCHANGED <<configVars, done, seen>>
  BY Zenon DEF ReleaseServe
<1>3. ReleasesKnown' /\ TableStep
  BY Zenon, <1>1, ServeKnows
<1>4. VersionsBacked'
  BY Zenon, <1>1, <1>2, <1>3, ConfigsUntouched
<1>5. PICK c : UNCHANGED call \/ call' = [call EXCEPT ![p] = c]
  BY Zenon, OneCall
<1>6. LoopsInRange'
  BY Zenon, <1>1, <1>2, <1>5, LoopsStay
<1>7. QED
  BY Zenon, <1>3, <1>4, <1>6 DEF PlaneInv

\* The further steps of a configuration call, of a client or a worker.
LEMMA ConfigServePlane ==
  ASSUME PlaneInv, NEW p \in Procs, ConfigServe(p)
  PROVE  PlaneInv'
<1>1. ReleasesKnown /\ VersionsBacked /\ LoopsInRange
  BY Zenon DEF PlaneInv
<1>2. UNCHANGED <<releaseVars, done, seen>> /\ C!Serve(p)
  BY Zenon DEF ConfigServe
<1>3. UNCHANGED <<releases, log, call>>
  BY Zenon, <1>2 DEF releaseVars
<1>4. ReleasesKnown' /\ TableStep
  BY Zenon, <1>1, <1>2, ReleasesUntouched
<1>5. VersionsBacked'
  BY Zenon, <1>1, <1>2, <1>3, <1>4, ConfigServeBacked
<1>6. LoopsInRange'
  BY Zenon, <1>1, <1>2, <1>3, LoopsStay
<1>7. QED
  BY Zenon, <1>4, <1>5, <1>6 DEF PlaneInv

\* A step of the scheduler.
LEMMA SchedulePlane ==
  ASSUME PlaneInv, NEW w \in Workers, Schedule(w)
  PROVE  PlaneInv'
<1>1. ReleasesKnown /\ VersionsBacked /\ LoopsInRange /\ w \in Procs
  BY Zenon DEF PlaneInv, Procs
<1>2. done \in [Workers -> Nat] /\ seen \in [Workers -> Nat] /\ 0 \in Nat
  BY Zenon, <1>1 DEF LoopsInRange
<1>3. CASE Work(w)
  <2>1. UNCHANGED <<configVars, done, seen>>
    BY Zenon, <1>3 DEF Work
  <2>2. ReleasesKnown' /\ TableStep
    BY Zenon, <1>1, <1>3, WorkKnows, FinishKnows DEF Work
  <2>3. VersionsBacked'
    BY Zenon, <1>1, <2>1, <2>2, ConfigsUntouched
  <2>4. PICK c : UNCHANGED call \/ call' = [call EXCEPT ![w] = c]
    BY Zenon, <1>3, OneCall
  <2>5. call[w].pc # "done"
    BY Zenon, <1>3, NoCall
       DEF Work, R!Work, R!Update, R!Audit, R!ListReleases, R!AdvanceRelease,
           R!AdvanceWave, R!SkipRelease, R!At
  <2>6. LoopsInRange'
    BY Zenon, <1>1, <2>1, <2>4, <2>5, LoopsStay
  <2>7. QED
    BY Zenon, <2>2, <2>3, <2>6 DEF PlaneInv
<1>4. CASE ReadRef(w)
  <2>1. UNCHANGED <<releaseVars, configVars>> /\ UNCHANGED call
    BY Zenon, <1>4 DEF ReadRef, releaseVars
  <2>2. ReleasesKnown' /\ TableStep
    BY Zenon, <1>1, <2>1, ReleasesUntouched
  <2>3. VersionsBacked'
    BY Zenon, <1>1, <2>1, <2>2, ConfigsUntouched
  <2>4. seen[w] = 0 /\ done[w] < Len(Refs(w)) /\ call[w].pc = "done"
    BY Zenon, <1>4 DEF ReadRef, InLoop
  <2> DEFINE v == VersionOf(NextRef(w))
  <2>5. CASE /\ v # NoVersion /\ seen' = [seen EXCEPT ![w] = v.revision]
             /\ UNCHANGED done
    <3>1. NextRef(w) \in VersionRef
      <4>1. Refs(w) \in Seq(VersionRef)
        BY Zenon, <1>1, <2>4 DEF ReleasesKnown, CallKnows, Refs, R!Release
      <4>2. QED
        BY <1>2, <2>4, <4>1 DEF NextRef
    <3>2. NextRef(w)[1] \in C!ConfigID /\ NextRef(w)[2] \in C!Number
      BY <3>1 DEF VersionRef, C!ConfigID, C!Number
    <3>3. v \in C!ConfigVersion
      BY Zenon, <1>1, <2>5, <3>2 DEF VersionsBacked, VersionOf
    <3>4. v.revision \in Nat
      BY Zenon, <3>3 DEF C!ConfigVersion
    <3> HIDE DEF v
    <3>5. seen' \in [Workers -> Nat] /\ \A u \in Workers : u # w => seen'[u] = seen[u]
      BY Zenon, <1>2, <2>5, <3>4
    <3>6. ASSUME NEW u \in Workers, seen'[u] # 0
          PROVE  call[u].pc = "done" /\ done[u] < Len(Refs(u))
      BY Zenon, <1>1, <2>4, <3>5, <3>6 DEF LoopsInRange
    <3>7. LoopsInRange'
      BY Zenon, <1>2, <2>1, <2>5, <3>5, <3>6 DEF LoopsInRange, Refs
    <3>8. QED
      BY Zenon, <2>2, <2>3, <3>7 DEF PlaneInv
  <2>6. CASE done' = [done EXCEPT ![w] = done[w] + 1] /\ UNCHANGED seen
    <3>1. done[w] + 1 \in Nat
      BY <1>2
    <3>2. PICK n \in Nat : n = done[w] + 1
      BY Zenon, <3>1
    <3>3. done' \in [Workers -> Nat] /\ \A u \in Workers : u # w => done'[u] = done[u]
      BY Zenon, <1>2, <2>6, <3>2
    <3>4. LoopsInRange'
      BY Zenon, <1>1, <1>2, <2>1, <2>4, <2>6, <3>3 DEF LoopsInRange, Refs
    <3>5. QED
      BY Zenon, <2>2, <2>3, <3>4 DEF PlaneInv
  <2>7. QED
    BY Zenon, <1>4, <2>5, <2>6 DEF ReadRef
<1>5. ASSUME NEW n \in Nat, done' = [done EXCEPT ![w] = n],
             seen' = [seen EXCEPT ![w] = 0],
             NEW c, UNCHANGED call \/ call' = [call EXCEPT ![w] = c]
      PROVE  LoopsInRange'
  <2>1. /\ done' \in [Workers -> Nat] /\ \A u \in Workers : u # w => done'[u] = done[u]
        /\ seen' \in [Workers -> Nat] /\ \A u \in Workers : u # w => seen'[u] = seen[u]
        /\ seen'[w] = 0
    BY Zenon, <1>2, <1>5
  <2>2. \A u \in Workers : u # w => call'[u] = call[u]
    BY Zenon, <1>1, <1>5 DEF ReleasesKnown, Procs
  <2>3. QED
    BY Zenon, <1>1, <2>1, <2>2 DEF LoopsInRange, Refs
<1>6. CASE MoveRef(w)
  <2>1. UNCHANGED releaseVars /\ UNCHANGED call
    BY Zenon, <1>6 DEF MoveRef, releaseVars
  <2>2. ReleasesKnown' /\ TableStep
    BY Zenon, <1>1, <2>1, ReleasesUntouched
  <2>3. VersionsBacked'
    BY Zenon, <1>1, <1>6, <2>2, MoveRefBacked
  <2>4. done[w] + 1 \in Nat
    BY <1>2
  <2>5. PICK n \in Nat : n = done[w] + 1
    BY Zenon, <2>4
  <2>6. done' = [done EXCEPT ![w] = n] /\ seen' = [seen EXCEPT ![w] = 0]
    BY Zenon, <1>6, <2>5 DEF MoveRef
  <2>7. LoopsInRange'
    BY Zenon, <1>5, <2>1, <2>5, <2>6
  <2>8. QED
    BY Zenon, <2>2, <2>3, <2>7 DEF PlaneInv
<1>7. CASE EndLoop(w)
  <2>1. UNCHANGED configVars /\ R!Return(w)
    BY Zenon, <1>7 DEF EndLoop
  <2>2. ReleasesKnown' /\ TableStep
    BY Zenon, <1>1, <2>1, FinishKnows
  <2>3. VersionsBacked'
    BY Zenon, <1>1, <2>1, <2>2, ConfigsUntouched
  <2>4. done' = [done EXCEPT ![w] = 0] /\ UNCHANGED seen /\ seen[w] = 0
    BY Zenon, <1>7 DEF EndLoop
  <2>5. seen' = [seen EXCEPT ![w] = 0]
    BY Zenon, <1>2, <2>4
  <2>6. call' = [call EXCEPT ![w] = R!Idle]
    BY Zenon, <2>1 DEF R!Return, R!Abandon
  <2>7. LoopsInRange'
    BY Zenon, <1>2, <1>5, <2>4, <2>5, <2>6
  <2>8. QED
    BY Zenon, <2>2, <2>3, <2>7 DEF PlaneInv
<1>8. QED
  BY Zenon, <1>3, <1>4, <1>6, <1>7 DEF Schedule

\* What releases, calls and versions in flight know of each other holds
\* throughout.
THEOREM PlaneInvariant == Spec => []PlaneInv
<1>1. ASSUME PlaneInv, Next PROVE PlaneInv'
  BY Zenon, <1>1, RequestPlane, ReleaseServePlane, SchedulePlane, ConfigServePlane DEF Next
<1>2. ASSUME PlaneInv, UNCHANGED vars PROVE PlaneInv'
  <2>1. UNCHANGED <<releaseVars, configVars, done, seen>>
    BY Zenon, <1>2 DEF vars
  <2>2. ReleasesKnown' /\ TableStep
    BY Zenon, <1>2, <2>1, ReleasesUntouched DEF PlaneInv
  <2>3. VersionsBacked'
    BY Zenon, <1>2, <2>1, <2>2, ConfigsUntouched DEF PlaneInv
  <2>4. LoopsInRange'
    BY Zenon, <1>2, <2>1 DEF PlaneInv, LoopsInRange, Refs, releaseVars
  <2>5. QED
    BY Zenon, <2>2, <2>3, <2>4 DEF PlaneInv
<1>3. QED
  BY <1>1, <1>2, InitPlaneInv, PTL DEF Spec

\* AdvanceReleases and the approve route together never roll a version out
\* before a release that references it has run, nor publish one before such a
\* release has succeeded.
THEOREM VersionsFollow == Spec => []VersionsFollowReleases
<1>1. PlaneInv => VersionsFollowReleases
  BY Zenon DEF PlaneInv, VersionsBacked
<1>2. QED
  BY <1>1, PlaneInvariant, PTL
-----------------------------------------------------------------------------
(***************************************************************************)
(* The composition implements the configuration component.                 *)
(***************************************************************************)

\* A request of the configuration routes.
LEMMA RequestIsConfig ==
  ASSUME NEW p \in Clients, Request(p)
  PROVE  C!Next \/ UNCHANGED configVars
<1>1. p \in Procs
  BY Zenon DEF Procs
<1>2. CASE createConfig(p)
  BY Zenon, <1>1, <1>2 DEF createConfig, C!Next, C!Request
<1>3. CASE createVersion(p)
  BY Zenon, <1>1, <1>3 DEF createVersion, C!Next, C!Request
<1>4. CASE approve(p)
  <2>1. ApproveTargets \subseteq C!VersionState
    BY Zenon DEF ApproveTargets, C!VersionState, C!Reviewing, C!Scheduled
  <2>2. QED
    BY Zenon, <1>1, <1>4, <2>1 DEF approve, C!Next, C!Request
<1>5. QED
  BY Zenon, <1>2, <1>3, <1>4 DEF Request

\* The loop of AdvanceReleases is a caller of TransitionVersion like any other:
\* it asks for a revision somebody may have seen.
LEMMA ScheduleIsConfig ==
  ASSUME PlaneInv, NEW w \in Workers, Schedule(w)
  PROVE  C!Next \/ UNCHANGED configVars
<1>1. w \in Procs
  BY Zenon DEF Procs
<1>2. ASSUME MoveRef(w),
             C!TransitionVersion(w, NextRef(w)[1], NextRef(w)[2], Goal(w), seen[w])
      PROVE  C!Next
  <2>1. PICK i \in C!ConfigID, n \in C!Number, to \in C!VersionState :
             i = NextRef(w)[1] /\ n = NextRef(w)[2] /\ to = Goal(w)
    BY Zenon, <1>2, GoalIsBacked DEF PlaneInv
  <2>2. C!TransitionVersion(w, i, n, to, seen[w])
    BY Zenon, <1>2, <2>1
  <2>3. /\ seen[w] # 0 /\ seen[w] \in Nat
        /\ seen[w] = versions[i][n].revision /\ versions[i][n].revision < MaxRevision
    BY Zenon, <1>2, <2>2
       DEF MoveRef, PlaneInv, LoopsInRange, C!TransitionVersion, C!Accepts
  <2>4. seen[w] \in 1 .. MaxRevision
    BY <2>3, PlaneAssumption
  <2>5. QED
    BY Zenon, <1>1, <2>1, <2>2, <2>4 DEF C!Next, C!Request
<1>3. QED
  BY Zenon, <1>2 DEF Schedule, Work, ReadRef, MoveRef, EndLoop

\* A step of the control plane is a step of ConfigService or leaves all of it
\* alone.
LEMMA StepIsConfig ==
  ASSUME PlaneInv, [Next]_vars
  PROVE  [C!Next]_(C!vars)
<1>1. CASE Next
  <2>1. ASSUME NEW p \in Procs, ConfigServe(p)
        PROVE  C!Next
    BY Zenon, <2>1 DEF ConfigServe, C!Next
  <2>2. ASSUME NEW p \in Clients, ReleaseServe(p)
        PROVE  UNCHANGED configVars
    BY Zenon, <2>2 DEF ReleaseServe
  <2>3. C!Next \/ UNCHANGED configVars
    BY Zenon, <1>1, <2>1, <2>2, RequestIsConfig, ScheduleIsConfig DEF Next
  <2>4. QED
    BY Zenon, <2>3 DEF configVars, C!vars
<1>2. CASE UNCHANGED vars
  BY Zenon, <1>2 DEF vars, configVars, C!vars
<1>3. QED
  BY Zenon, <1>1, <1>2

\* The control plane implements ConfigService, the scheduler being one more
\* caller of TransitionVersion: all its theorems hold of the control plane.
THEOREM ImplementsConfigs == Spec => ConfigSpec
<1>1. Init => C!Init
  BY Zenon DEF Init
<1>2. QED
  BY <1>1, StepIsConfig, PlaneInvariant, PTL DEF Spec, ConfigSpec, C!Spec

-----------------------------------------------------------------------------
(***************************************************************************)
(* What Evaluate serves of a configuration never falls back: the approve   *)
(* route and AdvanceReleases ask for no state that is reached from         *)
(* published, and a transition that read a version before it was published *)
(* finds a greater revision when it comes to write.                        *)
(***************************************************************************)
\* A revision that is no later than one before c is not c.
LEMMA OlderThanBoth ==
  ASSUME NEW a \in Nat, NEW b \in Nat, NEW c \in Nat, a <= b, b < c
  PROVE  a <= c /\ a # c
  OBVIOUS

\* A set of naturals has a least element.
LEMMA LeastNatural ==
  ASSUME NEW T, T \subseteq Nat, T # {}
  PROVE  \E x \in T : \A y \in T : x <= y
<1> DEFINE Less == OpToRel(<, Nat)
<1>1. Less = {ss \in Nat \X Nat : ss[1] < ss[2]}
  BY Zenon DEF OpToRel
<1>2. IsWellFoundedOn(Less, Nat)
  BY Zenon, NatLessThanWellFounded
<1> HIDE DEF Less
<1>3. PICK x \in T : \A y \in T : ~ (<<y, x>> \in Less)
  BY ZenonT(30), <1>2, WFMin
<1>4. \A y \in T : ~ (y < x)
  BY Zenon, <1>1, <1>3
<1>5. QED
  BY <1>4

\* A set of version numbers has a greatest element.
LEMMA MaxIsGreatest ==
  ASSUME NEW S \in SUBSET C!Number, S # {}
  PROVE  C!Max(S) \in S /\ \A y \in S : C!Max(S) >= y
<1> DEFINE T == {MaxVersions - y : y \in S}
<1>1. \A y \in S : MaxVersions - y \in Nat
  BY PlaneAssumption DEF C!Number
<1>2. T \subseteq Nat /\ T # {}
  BY ZenonT(30), <1>1
<1>3. PICK t \in T : \A y \in T : t <= y
  BY Zenon, <1>2, LeastNatural
<1>4. PICK x \in S : t = MaxVersions - x
  BY Zenon, <1>3
<1>5. \A y \in S : MaxVersions - x <= MaxVersions - y
  BY Zenon, <1>3, <1>4
<1>6. \A y \in S : x >= y
  BY <1>5, PlaneAssumption DEF C!Number
<1>7. QED
  BY ZenonT(30), <1>6 DEF C!Max

\* With more versions published the number that is served does not decrease.
LEMMA ServedGrows ==
  ASSUME NEW vs \in [C!Number -> C!ConfigVersion \cup {NoVersion}],
         NEW ws \in [C!Number -> C!ConfigVersion \cup {NoVersion}],
         \A n \in C!Number : vs[n] # NoVersion /\ vs[n].state = "published"
                                => ws[n] # NoVersion /\ ws[n].state = "published"
  PROVE  C!ServedNumber(ws) >= C!ServedNumber(vs)
<1> DEFINE S == {n \in C!Number : vs[n] # NoVersion /\ vs[n].state = "published"}
           T == {n \in C!Number : ws[n] # NoVersion /\ ws[n].state = "published"}
<1>1. DOMAIN vs = C!Number /\ DOMAIN ws = C!Number
  OBVIOUS
<1>2. /\ C!ServedNumber(vs) = IF S = {} THEN 0 ELSE C!Max(S)
      /\ C!ServedNumber(ws) = IF T = {} THEN 0 ELSE C!Max(T)
  BY Zenon, <1>1 DEF C!ServedNumber, C!Published
<1>3. S \subseteq T /\ S \in SUBSET C!Number /\ T \in SUBSET C!Number
  BY Zenon
<1> HIDE DEF S, T
<1>4. CASE S # {}
  <2>1. T # {} /\ C!Max(S) \in T
    BY Zenon, <1>3, <1>4, MaxIsGreatest
  <2>2. C!Max(T) >= C!Max(S)
    BY Zenon, <1>3, <2>1, MaxIsGreatest
  <2>3. QED
    BY Zenon, <1>2, <1>4, <2>1, <2>2
<1>5. CASE S = {} /\ T # {}
  <2>1. C!Max(T) \in C!Number
    BY Zenon, <1>3, <1>5, MaxIsGreatest
  <2>2. C!Max(T) >= 0
    BY <2>1 DEF C!Number
  <2>3. QED
    BY Zenon, <1>2, <1>5, <2>2
<1>6. CASE S = {} /\ T = {}
  <2>1. C!ServedNumber(vs) = 0 /\ C!ServedNumber(ws) = 0
    BY Zenon, <1>2, <1>6
  <2>2. QED
    BY <2>1
<1>7. QED
  BY Zenon, <1>4, <1>5, <1>6

\* What the callers of TransitionVersion ask for here.
Asked == {"reviewing", "scheduled", "rolling_out", "published"}

\* None of it is reached from published.
LEMMA NotFromPublished ==
  ASSUME NEW v \in C!ConfigVersion, NEW to \in Asked, C!CanTransition(v, to)
  PROVE  v.state # "published"
<1>1. v.state \in C!VersionState
  BY Zenon DEF C!ConfigVersion
<1>2. QED
  BY <1>1 DEF C!CanTransition, C!Allowed, C!VersionState, C!Draft, C!Reviewing, C!Scheduled,
              C!RollingOut, C!Paused, C!Published, C!RolledBack, C!Expired, Asked

\* A step on the configuration side, by what it does to frames and versions.
ConfigEffect ==
  \/ UNCHANGED <<versions, frame>>
  \/ /\ UNCHANGED versions
     /\ \E p \in Procs : \E f : f.pc # "update" /\ frame' = [frame EXCEPT ![p] = f]
  \/ \E p \in Procs, i \in C!ConfigID, n \in C!Number, to \in Asked : \E expected :
        C!TransitionVersion(p, i, n, to, expected)
  \/ \E p \in Procs : C!PutVersion(p) \/ C!UpdateVersion(p)

\* The further steps of a configuration call have one of these effects.
LEMMA ServeEffect ==
  ASSUME VersionsBacked, NEW p \in Procs, C!Serve(p)
  PROVE  ConfigEffect
<1>1. frame[p] \in C!Frame
  BY Zenon DEF VersionsBacked
<1>2. ASSUME NEW f, f.pc # "update", frame' = [frame EXCEPT ![p] = f], UNCHANGED versions
      PROVE  ConfigEffect
  BY Zenon, <1>2 DEF ConfigEffect
<1>3. CASE frame' = [frame EXCEPT ![p] = C!Idle] /\ UNCHANGED versions
  BY Zenon, <1>2, <1>3, NoFrame
<1>4. CASE C!RepositoryCreate(p)
  <2> DEFINE f == [frame[p] EXCEPT !.pc = "audit", !.key = NoKey]
  <2>1. f.pc # "update"
    BY Zenon, <1>1 DEF C!Frame
  <2>2. \/ frame' = [frame EXCEPT ![p] = f]
        \/ frame' = [frame EXCEPT ![p] = C!Idle]
    BY Zenon, <1>4 DEF C!RepositoryCreate, C!Goto
  <2>3. UNCHANGED versions
    BY Zenon, <1>4 DEF C!RepositoryCreate
  <2> HIDE DEF f
  <2>4. QED
    BY Zenon, <1>2, <1>3, <2>1, <2>2, <2>3
<1>5. CASE C!ValidateDependencies(p)
  <2> DEFINE f == [frame[p] EXCEPT !.pc = "put"]
  <2>1. f.pc # "update"
    BY Zenon, <1>1 DEF C!Frame
  <2>2. \/ frame' = [frame EXCEPT ![p] = f]
        \/ frame' = [frame EXCEPT ![p] = C!Idle]
    BY Zenon, <1>5 DEF C!ValidateDependencies, C!Goto
  <2>3. UNCHANGED versions
    BY Zenon, <1>5 DEF C!ValidateDependencies
  <2> HIDE DEF f
  <2>4. QED
    BY Zenon, <1>2, <1>3, <2>1, <2>2, <2>3
<1>6. CASE C!PutVersion(p) \/ C!UpdateVersion(p)
  BY Zenon, <1>6 DEF ConfigEffect
<1>7. CASE C!Audit(p)
  <2> DEFINE f == [frame[p] EXCEPT !.pc = "emit"]
  <2>1. f.pc # "update"
    BY Zenon, <1>1 DEF C!Frame
  <2>2. frame' = [frame EXCEPT ![p] = f] /\ UNCHANGED versions
    BY Zenon, <1>7 DEF C!Audit, C!Goto
  <2> HIDE DEF f
  <2>3. QED
    BY Zenon, <1>2, <2>1, <2>2
<1>8. CASE C!Emit(p)
  BY Zenon, <1>3, <1>8 DEF C!Emit, C!Goto
<1>9. QED
  BY Zenon, <1>4, <1>5, <1>6, <1>7, <1>8 DEF C!Serve

\* And so does every step of the control plane.
LEMMA StepEffect ==
  ASSUME PlaneInv, [Next]_vars
  PROVE  ConfigEffect
<1>1. CASE UNCHANGED configVars
  BY Zenon, <1>1 DEF configVars, ConfigEffect
<1>2. ASSUME NEW p \in Clients, Request(p)
      PROVE  ConfigEffect
  <2>1. p \in Procs
    BY Zenon DEF Procs
  <2>2. CASE createConfig(p)
    <3>1. PICK k \in Key : C!CreateConfig(p, k)
      BY Zenon, <2>2 DEF createConfig
    <3> DEFINE f == [C!Idle EXCEPT !.pc = "create", !.id = issued', !.key = k]
    <3>2. f.pc # "update"
      BY Zenon, NoFrame DEF C!Frame
    <3>3. frame' = [frame EXCEPT ![p] = f] /\ UNCHANGED versions
      BY Zenon, <3>1 DEF C!CreateConfig, C!Goto
    <3> HIDE DEF f
    <3>4. QED
      BY Zenon, <2>1, <3>2, <3>3 DEF ConfigEffect
  <2>3. CASE createVersion(p)
    <3>1. PICK i \in C!ConfigID, value \in Value : C!CreateVersion(p, i, value)
      BY Zenon, <2>3 DEF createVersion
    <3> DEFINE f == [C!Idle EXCEPT !.pc = "deps", !.id = i, !.num = C!NextNumber(i),
                                   !.next = C!NewVersion(value)]
    <3>2. f.pc # "update"
      BY Zenon, NoFrame DEF C!Frame
    <3>3. frame' = [frame EXCEPT ![p] = f] /\ UNCHANGED versions
      BY Zenon, <3>1 DEF C!CreateVersion, C!Goto
    <3> HIDE DEF f
    <3>4. QED
      BY Zenon, <2>1, <3>2, <3>3 DEF ConfigEffect
  <2>4. CASE approve(p)
    <3>1. ApproveTargets \subseteq Asked
      BY Zenon DEF ApproveTargets, Asked
    <3>2. QED
      BY Zenon, <2>1, <2>4, <3>1 DEF approve, ConfigEffect
  <2>5. QED
    BY Zenon, <1>1, <1>2, <2>2, <2>3, <2>4 DEF Request
<1>3. ASSUME NEW p \in Clients, ReleaseServe(p)
      PROVE  ConfigEffect
  BY Zenon, <1>1, <1>3 DEF ReleaseServe
<1>4. ASSUME NEW w \in Workers, Schedule(w)
      PROVE  ConfigEffect
  <2>1. w \in Procs
    BY Zenon DEF Procs
  <2>2. ASSUME MoveRef(w),
               C!TransitionVersion(w, NextRef(w)[1], NextRef(w)[2], Goal(w), seen[w])
        PROVE  ConfigEffect
    <3>1. NextRef(w)[1] \in C!ConfigID /\ NextRef(w)[2] \in C!Number
      BY Zenon, <2>2, GoalIsBacked DEF PlaneInv
    <3>2. Goal(w) \in Asked
      BY Zenon DEF Goal, Asked
    <3>3. QED
      BY Zenon, <2>1, <2>2, <3>1, <3>2 DEF ConfigEffect
  <2>3. QED
    BY Zenon, <1>1, <1>4, <2>2 DEF Schedule, Work, ReadRef, MoveRef, EndLoop
<1>5. ASSUME NEW p \in Procs, ConfigServe(p)
      PROVE  ConfigEffect
  BY Zenon, <1>5, ServeEffect DEF ConfigServe, PlaneInv
<1>6. CASE UNCHANGED vars
  BY Zenon, <1>1, <1>6 DEF vars
<1>7. QED
  BY Zenon, <1>2, <1>3, <1>4, <1>5, <1>6 DEF Next

\* A published version stays published.
PublishedStays ==
  \A i \in C!ConfigID, n \in C!Number :
    versions[i][n] # NoVersion /\ versions[i][n].state = "published"
      => versions'[i][n] # NoVersion /\ versions'[i][n].state = "published"

\* A step of a frame that writes nothing spares what is published.
LEMMA FrameSpares ==
  ASSUME VersionsBacked, PublishedSpared, UNCHANGED versions, NEW p \in Procs, NEW f,
         frame' = [frame EXCEPT ![p] = f], SparesPublished(f)
  PROVE  PublishedSpared' /\ PublishedStays
<1>1. ASSUME NEW q \in Procs
      PROVE  SparesPublished(frame'[q])
  BY Zenon DEF VersionsBacked, PublishedSpared
<1>2. ASSUME NEW g, SparesPublished(g)
      PROVE  SparesPublished(g)'
  BY Zenon, <1>2 DEF SparesPublished
<1>3. ASSUME NEW q \in Procs
      PROVE  SparesPublished(frame[q])'
  <2>1. PICK g : g = frame'[q]
    BY Zenon
  <2>2. SparesPublished(g)'
    BY Zenon, <1>1, <1>2, <2>1
  <2>3. QED
    BY Zenon, <2>1, <2>2
<1>4. QED
  BY Zenon, <1>3 DEF PublishedSpared, PublishedStays

\* So does reading a version for a transition: it is not published.
LEMMA ComputedSpares ==
  ASSUME VersionsBacked, NEW p, NEW i \in C!ConfigID, NEW n \in C!Number,
         NEW to \in Asked, NEW expected, C!TransitionVersion(p, i, n, to, expected)
  PROVE  SparesPublished(C!Computed(i, n, to))
<1> DEFINE v == versions[i][n]
           f == C!Computed(i, n, to)
           m == v.revision + 1
<1>1. v # NoVersion /\ v \in C!ConfigVersion /\ C!CanTransition(v, to)
  BY Zenon DEF C!TransitionVersion, C!Accepts, C!Stored, VersionsBacked
<1>2. v.revision \in Nat /\ v.state # "published"
  BY Zenon, <1>1, NotFromPublished DEF C!ConfigVersion
<1>3. v.revision < m /\ v.revision <= v.revision
  BY <1>2
<1>4. C!Transition(v, to).revision = m
  BY Zenon, <1>1 DEF C!Transition, C!ConfigVersion
<1>5. f.id = i /\ f.num = n /\ f.base = v /\ f.next = C!Transition(v, to)
  BY Zenon, NoFrame DEF C!Computed, C!Frame
<1> HIDE DEF v, f, m
<1>6. versions[f.id][f.num] = v
  BY Zenon, <1>5 DEF v
<1>7. SparesPublished(f)
  BY Zenon, <1>1, <1>2, <1>3, <1>4, <1>5, <1>6 DEF SparesPublished
<1>8. QED
  BY Zenon, <1>7 DEF f

\* A write: the version it replaces is absent or not published, and the
\* transitions still in flight started from an older revision.
LEMMA WriteSpares ==
  ASSUME VersionsBacked, PublishedSpared, NEW p \in Procs,
         frame[p].pc \in {"put", "update"},
         versions' = [versions EXCEPT ![frame[p].id][frame[p].num] = frame[p].next],
         NEW f, f.pc # "update", frame' = [frame EXCEPT ![p] = f],
         \/ frame[p].pc = "put" /\ versions[frame[p].id][frame[p].num] = NoVersion
         \/ /\ frame[p].pc = "update"
            /\ versions[frame[p].id][frame[p].num].revision = frame[p].base.revision
  PROVE  PublishedSpared' /\ PublishedStays
<1>1. PICK g : g = frame[p]
  BY Zenon
<1>2. g.next \in C!ConfigVersion /\ g.next # NoVersion /\ g.next.revision \in Nat
  BY Zenon, <1>1, PlaneAssumption DEF VersionsBacked, FrameBacked, C!ConfigVersion
<1>3. /\ SparesPublished(g)
      /\ \/ versions[g.id][g.num] = NoVersion
         \/ /\ g.pc = "update"
            /\ versions[g.id][g.num].revision = g.base.revision
  BY Zenon, <1>1 DEF PublishedSpared
<1>4. \A i \in C!ConfigID, n \in C!Number :
        /\ i = g.id /\ n = g.num => versions'[i][n] = g.next
        /\ ~ (i = g.id /\ n = g.num) => versions'[i][n] = versions[i][n]
  <2>1. versions' = [versions EXCEPT ![g.id][g.num] = g.next]
    BY Zenon, <1>1
  <2>2. QED
    BY <2>1 DEF VersionsBacked
<1>5. PublishedStays
  <2>1. SUFFICES ASSUME NEW i \in C!ConfigID, NEW n \in C!Number,
                        versions[i][n] # NoVersion, versions[i][n].state = "published"
                 PROVE  versions'[i][n] = versions[i][n]
    BY Zenon, <2>1 DEF PublishedStays
  <2>2. ASSUME i = g.id, n = g.num PROVE FALSE
    <3>1. versions[g.id][g.num] # NoVersion /\ versions[g.id][g.num].state = "published"
      BY Zenon, <2>1, <2>2
    <3>2. QED
      BY Zenon, <1>3, <3>1 DEF SparesPublished
  <2>3. QED
    BY Zenon, <1>4, <2>2
<1>6. ASSUME NEW h, SparesPublished(h)
      PROVE  SparesPublished(h)'
  <2>1. SUFFICES ASSUME h.pc = "update" PROVE SparesPublished(h)'
    BY Zenon DEF SparesPublished
  <2>2. /\ h.id \in C!ConfigID /\ h.num \in C!Number /\ versions[h.id][h.num] # NoVersion
        /\ h.base.revision \in Nat /\ h.base.revision < h.next.revision
        /\ h.base.revision <= versions[h.id][h.num].revision
    BY Zenon, <1>6, <2>1 DEF SparesPublished
  <2>3. CASE h.id = g.id /\ h.num = g.num
    <3>1. versions'[h.id][h.num] = g.next
      BY Zenon, <1>4, <2>2, <2>3
    <3>2. g.base.revision \in Nat /\ h.base.revision <= g.base.revision
      BY Zenon, <1>3, <2>2, <2>3 DEF SparesPublished
    <3>3. g.base.revision < g.next.revision
      BY Zenon, <1>3, <2>2, <2>3 DEF SparesPublished
    <3>4. h.base.revision <= g.next.revision /\ h.base.revision # g.next.revision
      BY Zenon, <1>2, <2>2, <3>2, <3>3, OlderThanBoth
    <3>5. /\ versions'[h.id][h.num] # NoVersion
          /\ h.base.revision <= versions'[h.id][h.num].revision
          /\ h.base.revision # versions'[h.id][h.num].revision
      BY Zenon, <1>2, <3>1, <3>4
    <3>6. QED
      BY Zenon, <2>2, <3>5 DEF SparesPublished
  <2>4. CASE ~ (h.id = g.id /\ h.num = g.num)
    <3>1. versions'[h.id][h.num] = versions[h.id][h.num]
      BY Zenon, <1>4, <2>2, <2>4
    <3>2. QED
      BY Zenon, <1>6, <3>1 DEF SparesPublished
  <2>5. QED
    BY Zenon, <2>3, <2>4
<1>7. ASSUME NEW q \in Procs
      PROVE  SparesPublished(frame[q])'
  <2>1. PICK h : h = frame'[q]
    BY Zenon
  <2>2. h = f \/ h = frame[q]
    BY Zenon, <2>1 DEF VersionsBacked
  <2>3. SparesPublished(h)
    BY Zenon, <2>2 DEF PublishedSpared, SparesPublished
  <2>4. SparesPublished(h)'
    BY Zenon, <1>6, <2>3
  <2>5. QED
    BY Zenon, <2>1, <2>4
<1>8. QED
  BY Zenon, <1>5, <1>7 DEF PublishedSpared

\* No step of the control plane takes a published version down.
LEMMA SparedStep ==
  ASSUME PlaneInv, PublishedSpared, [Next]_vars
  PROVE  PublishedSpared' /\ PublishedStays
<1>1. VersionsBacked /\ ConfigEffect
  BY Zenon, StepEffect DEF PlaneInv
<1>2. CASE UNCHANGED <<versions, frame>>
  BY Zenon, <1>2 DEF PublishedSpared, SparesPublished, PublishedStays
<1>3. ASSUME NEW p \in Procs, NEW f, f.pc # "update", frame' = [frame EXCEPT ![p] = f],
             UNCHANGED versions
      PROVE  PublishedSpared' /\ PublishedStays
  <2>1. SparesPublished(f)
    BY Zenon, <1>3 DEF SparesPublished
  <2>2. QED
    BY Zenon, <1>1, <1>3, <2>1, FrameSpares
<1>4. ASSUME NEW p \in Procs, NEW i \in C!ConfigID, NEW n \in C!Number, NEW to \in Asked,
             NEW expected, C!TransitionVersion(p, i, n, to, expected)
      PROVE  PublishedSpared' /\ PublishedStays
  <2>1. PICK f : f = C!Computed(i, n, to)
    BY Zenon
  <2>2. SparesPublished(f)
    BY Zenon, <1>1, <1>4, <2>1, ComputedSpares
  <2>3. frame' = [frame EXCEPT ![p] = f] /\ UNCHANGED versions
    BY Zenon, <1>4, <2>1 DEF C!TransitionVersion, C!Goto
  <2>4. QED
    BY Zenon, <1>1, <2>2, <2>3, FrameSpares
<1>5. ASSUME NEW p \in Procs, C!PutVersion(p)
      PROVE  PublishedSpared' /\ PublishedStays
  <2>1. PICK f : f = [frame[p] EXCEPT !.pc = "audit"]
    BY Zenon
  <2>2. f.pc # "update" /\ C!Idle.pc # "update"
    BY Zenon, <1>1, <2>1, FrameGoesOn, NoFrame DEF VersionsBacked
  <2>3. CASE frame' = [frame EXCEPT ![p] = C!Idle] /\ UNCHANGED versions
    BY Zenon, <1>3, <2>2, <2>3
  <2>4. CASE /\ versions[frame[p].id][frame[p].num] = NoVersion
             /\ versions' = [versions EXCEPT ![frame[p].id][frame[p].num] = frame[p].next]
             /\ frame' = [frame EXCEPT ![p] = f]
    <3>1. frame[p].pc = "put"
      BY Zenon, <1>5 DEF C!PutVersion
    <3>2. QED
      BY Zenon, <1>1, <2>2, <2>4, <3>1, WriteSpares
  <2>5. QED
    BY Zenon, <1>5, <2>1, <2>3, <2>4 DEF C!PutVersion, C!NumberTaken, C!Stored, C!Goto
<1>6. ASSUME NEW p \in Procs, C!UpdateVersion(p)
      PROVE  PublishedSpared' /\ PublishedStays
  <2>1. PICK f : f = [frame[p] EXCEPT !.pc = "audit", !.base = NoVersion]
    BY Zenon
  <2>2. f.pc # "update" /\ C!Idle.pc # "update"
    BY Zenon, <1>1, <2>1, NoFrame DEF VersionsBacked, C!Frame
  <2>3. CASE frame' = [frame EXCEPT ![p] = C!Idle] /\ UNCHANGED versions
    BY Zenon, <1>3, <2>2, <2>3
  <2>4. CASE /\ versions[frame[p].id][frame[p].num].revision = frame[p].base.revision
             /\ versions' = [versions EXCEPT ![frame[p].id][frame[p].num] = frame[p].next]
             /\ frame' = [frame EXCEPT ![p] = f]
    <3>1. frame[p].pc = "update"
      BY Zenon, <1>6 DEF C!UpdateVersion
    <3>2. QED
      BY Zenon, <1>1, <2>2, <2>4, <3>1, WriteSpares
  <2>5. QED
    BY Zenon, <1>6, <2>1, <2>3, <2>4 DEF C!UpdateVersion, C!RevisionMatches, C!Goto
<1>7. QED
  BY Zenon, <1>1, <1>2, <1>3, <1>4, <1>5, <1>6 DEF ConfigEffect

\* What Evaluate serves of a configuration never falls back to an older
\* version: neither the approve route nor AdvanceReleases takes a published
\* version down, even when a transition races with its publication.
THEOREM ServedStays == Spec => ServedNeverFallsBack
<1>1. Init => PublishedSpared
  BY Zenon, NoFrame DEF Init, C!Init, PublishedSpared, SparesPublished
<1>2. ASSUME PlaneInv, PlaneInv', PublishedStays, NEW id \in C!ConfigID
      PROVE  C!ServedNumber(versions'[id]) >= C!ServedNumber(versions[id])
  <2>1. PICK vs, ws : vs = versions[id] /\ ws = versions'[id]
    BY Zenon
  <2>2. /\ vs \in [C!Number -> C!ConfigVersion \cup {NoVersion}]
        /\ ws \in [C!Number -> C!ConfigVersion \cup {NoVersion}]
    BY Zenon, <1>2, <2>1 DEF PlaneInv, VersionsBacked
  <2>3. \A n \in C!Number : vs[n] # NoVersion /\ vs[n].state = "published"
                               => ws[n] # NoVersion /\ ws[n].state = "published"
    BY Zenon, <1>2, <2>1 DEF PublishedStays
  <2>4. QED
    BY Zenon, <2>1, <2>2, <2>3, ServedGrows
<1>3. ASSUME PlaneInv, PlaneInv', PublishedSpared, [Next]_vars
      PROVE  /\ PublishedSpared'
             /\ \A id \in C!ConfigID :
                  C!ServedNumber(versions'[id]) >= C!ServedNumber(versions[id])
  BY Zenon, <1>2, <1>3, SparedStep
<1>4. QED
  BY <1>1, <1>3, PlaneInvariant, PTL DEF Spec, ServedNeverFallsBack
-----------------------------------------------------------------------------
(***************************************************************************)
(* What ReleaseServiceProofs proves holds of the control plane, which      *)
(* implements ReleaseService.  RP has the definitions of R once more.      *)
(***************************************************************************)
RP == INSTANCE ReleaseServiceProofs

\* The assumptions of ReleaseService, and of NoWaveSkipped: no route asks for
\* "succeeded".
LEMMA ReleaseAssumptions ==
  /\ MinToken \in Int /\ MaxToken \in Int /\ MinToken < 0 /\ 0 < MaxToken
  /\ NoKey \notin IdempotencyKey
  /\ MaxReleases \in Nat /\ PageLimit \in Nat
  /\ Clients \cap Workers = {}
  /\ FailureRates \subseteq Nat
  /\ CallerTokens \subseteq RP!Token
  /\ Drafts \subseteq RP!DraftType
  /\ NoRelease \notin RP!Release
  /\ Targets \subseteq RP!State
  /\ RP!Succeeded \notin Targets
<1>1. /\ MinToken \in Int /\ MaxToken \in Int /\ MinToken < 0 /\ 0 < MaxToken
      /\ NoKey \notin IdempotencyKey
      /\ MaxReleases \in Nat /\ PageLimit \in Nat
      /\ Clients \cap Workers = {}
      /\ FailureRates \subseteq Nat
  BY Zenon, PlaneAssumption
<1>2. CallerTokens \subseteq RP!Token
  BY Zenon, PlaneAssumption DEF RP!Token, R!Token
<1>3. Drafts \subseteq RP!DraftType
  BY Zenon, PlaneAssumption DEF R!DraftType, RP!DraftType, R!Token, RP!Token, R!Wave, RP!Wave, R!Release,
    RP!Release, R!State, RP!State, R!Pending, RP!Pending, R!Running, RP!Running,
    R!Paused, RP!Paused, R!Succeeded, RP!Succeeded, R!Failed, RP!Failed, R!RolledBack,
    RP!RolledBack, R!Cancelled, RP!Cancelled, R!Retrying, RP!Retrying
<1>4. NoRelease \notin RP!Release
  BY Zenon, PlaneAssumption DEF R!Release, RP!Release, R!State, RP!State, R!Token, RP!Token, R!Wave, RP!Wave,
    R!Pending, RP!Pending, R!Running, RP!Running, R!Paused, RP!Paused, R!Succeeded,
    RP!Succeeded, R!Failed, RP!Failed, R!RolledBack, RP!RolledBack, R!Cancelled,
    RP!Cancelled, R!Retrying, RP!Retrying
<1>5. Targets \subseteq RP!State /\ RP!Succeeded \notin Targets
  BY DEF Targets, RP!State, RP!Succeeded, RP!Pending, RP!Running, RP!Paused, RP!Failed,
    RP!RolledBack, RP!Cancelled, RP!Retrying
<1>6. QED
  BY Zenon, <1>1, <1>2, <1>3, <1>4, <1>5

\* R and RP are the same specification.
LEMMA SameReleaseSpec == R!Spec => RP!Spec
<1>1. R!Init => RP!Init
  BY Zenon DEF R!Init, RP!Init, R!ReleaseID, RP!ReleaseID, R!Procs, RP!Procs, R!Idle, RP!Idle
<1>2. R!Next => RP!Next
  BY Zenon DEF R!Next, RP!Next, R!Request, RP!Request, R!Serve, RP!Serve, R!Work, RP!Work,
    R!Procs, RP!Procs, R!Finish, RP!Finish, R!CreateRelease, RP!CreateRelease,
    R!ReleaseID, RP!ReleaseID, R!TransitionRelease, RP!TransitionRelease,
    R!RetryRelease, RP!RetryRelease, R!AssessReleaseHealth, RP!AssessReleaseHealth,
    R!CheckRef, RP!CheckRef, R!RepositoryCreate, RP!RepositoryCreate, R!ReadAgain,
    RP!ReadAgain, R!GateTransition, RP!GateTransition, R!ListReleases,
    RP!ListReleases, R!AdvanceRelease, RP!AdvanceRelease, R!AdvanceWave,
    RP!AdvanceWave, R!SkipRelease, RP!SkipRelease, R!Update, RP!Update, R!Audit,
    RP!Audit, R!Return, RP!Return, R!Idle, RP!Idle, R!Validate, RP!Validate,
    R!NewRelease, RP!NewRelease, R!Accepts, RP!Accepts, R!Computed, RP!Computed,
    R!Stored, RP!Stored, R!Failed, RP!Failed, R!Retrying, RP!Retrying, R!NextToken,
    RP!NextToken, R!ShouldPausePanics, RP!ShouldPausePanics, R!ShouldPause,
    RP!ShouldPause, R!Running, RP!Running, R!KeyTaken, RP!KeyTaken, R!Write,
    RP!Write, R!IndexKey, RP!IndexKey, R!Committed, RP!Committed, R!Paused,
    RP!Paused, R!FirstPage, RP!FirstPage, R!At, RP!At, R!NextStates, RP!NextStates,
    R!Abandon, RP!Abandon, R!WaveDue, RP!WaveDue, R!RevisionMatches,
    RP!RevisionMatches, R!NextWave, RP!NextWave, R!Proceed, RP!Proceed, R!AuditOf,
    RP!AuditOf, R!ValidWave, RP!ValidWave, R!TotalPercentage, RP!TotalPercentage,
    R!Pending, RP!Pending, R!CanTransition, RP!CanTransition, R!Transition,
    RP!Transition, R!AfterWrite, RP!AfterWrite, R!Older, RP!Older, R!HasNextWave,
    RP!HasNextWave, R!Succeeded, RP!Succeeded, R!Fresh, RP!Fresh, R!Can, RP!Can,
    R!State, RP!State, R!Token, RP!Token, R!Allowed, RP!Allowed, R!RolledBack,
    RP!RolledBack, R!Cancelled, RP!Cancelled, R!Cardinality, RP!Cardinality,
    R!IsFiniteSet, RP!IsFiniteSet
<1>3. [R!Next]_(R!vars) => [RP!Next]_(RP!vars)
  BY Zenon, <1>2 DEF R!vars, RP!vars
<1>4. QED
  BY <1>1, <1>3, PTL DEF R!Spec, RP!Spec

\* No wave is skipped by whatever the routes and the scheduler do: a release
\* that has succeeded was in its last wave.
THEOREM WavesAreTaken == Spec => []SucceedsInLastWave
<1>1. RP!Spec => []RP!SucceedsInLastWave
  BY ReleaseAssumptions, RP!NoWaveSkipped, PTL
<1>2. RP!SucceedsInLastWave => SucceedsInLastWave
  BY Zenon DEF SucceedsInLastWave, R!SucceedsInLastWave, RP!SucceedsInLastWave, R!ReleaseID, RP!ReleaseID, R!Stored,
    RP!Stored, R!Succeeded, RP!Succeeded, R!InLastWave, RP!InLastWave
<1>3. Spec => R!Spec
  BY ImplementsReleases, PTL DEF ReleaseSpec
<1>4. QED
  BY <1>1, <1>2, <1>3, SameReleaseSpec, PTL
=============================================================================
