------------------------ MODULE ReleaseServiceProofs ------------------------
(***************************************************************************)
(* Proofs about ReleaseService, for every set of clients and workers, any  *)
(* number of releases, any page size, any drafts and any token width.      *)
(***************************************************************************)
EXTENDS ReleaseService, SequenceTheorems, TLAPS

-----------------------------------------------------------------------------
(***************************************************************************)
(* The domain operators.                                                   *)
(***************************************************************************)

\* The identifiers the service has issued are release identifiers.
LEMMA IssuedIDs ==
  ASSUME NEW n \in 0 .. MaxReleases
  PROVE  1 .. n \subseteq ReleaseID
BY ServiceAssumption DEF ReleaseID

\* A transition of a release is a release, one revision on.
LEMMA TransitionType ==
  ASSUME NEW r \in Release, NEW to \in State, NEW token \in Token
  PROVE  /\ Transition(r, to, token) \in Release
         /\ Transition(r, to, token).state = to
         /\ Transition(r, to, token).fencingToken = token
         /\ Transition(r, to, token).revision = r.revision + 1
         /\ Transition(r, to, token).idempotencyKey = r.idempotencyKey
<1> DEFINE n == r.revision + 1
<1>1. n \in Nat
  BY DEF Release
<1> HIDE DEF n
<1>2. [r EXCEPT !.state = to, !.fencingToken = token, !.revision = n] \in Release
  BY ZenonT(30), <1>1 DEF Release
<1>3. /\ [r EXCEPT !.state = to, !.fencingToken = token, !.revision = n].state = to
      /\ [r EXCEPT !.state = to, !.fencingToken = token, !.revision = n].fencingToken = token
      /\ [r EXCEPT !.state = to, !.fencingToken = token, !.revision = n].revision = n
      /\ [r EXCEPT !.state = to, !.fencingToken = token, !.revision = n].idempotencyKey
           = r.idempotencyKey
  BY Zenon DEF Release
<1>4. Transition(r, to, token)
        = [r EXCEPT !.state = to, !.fencingToken = token, !.revision = n]
  BY Zenon DEF Transition, n
<1>5. QED
  BY Zenon, <1>2, <1>3, <1>4 DEF n

\* The wave step of a release is a release, one revision on.
LEMMA NextWaveType ==
  ASSUME NEW r \in Release
  PROVE  /\ NextWave(r) \in Release
         /\ NextWave(r).state = r.state
         /\ NextWave(r).fencingToken = r.fencingToken
         /\ NextWave(r).revision = r.revision + 1
         /\ NextWave(r).idempotencyKey = r.idempotencyKey
<1> DEFINE n == r.revision + 1
           w == r.currentWave + 1
<1>1. n \in Nat /\ w \in Int
  BY DEF Release
<1> HIDE DEF n, w
<1>2. [r EXCEPT !.currentWave = w, !.revision = n] \in Release
  BY Zenon, <1>1 DEF Release
<1>3. /\ [r EXCEPT !.currentWave = w, !.revision = n].state = r.state
      /\ [r EXCEPT !.currentWave = w, !.revision = n].fencingToken = r.fencingToken
      /\ [r EXCEPT !.currentWave = w, !.revision = n].revision = n
      /\ [r EXCEPT !.currentWave = w, !.revision = n].idempotencyKey = r.idempotencyKey
  BY Zenon DEF Release
<1>4. NextWave(r) = [r EXCEPT !.currentWave = w, !.revision = n]
  BY Zenon DEF NextWave, n, w
<1>5. QED
  BY Zenon, <1>2, <1>3, <1>4 DEF n

\* What CreateRelease builds from a draft is a pending release.
LEMMA NewReleaseType ==
  ASSUME NEW d \in Drafts
  PROVE  /\ NewRelease(d) \in Release
         /\ NewRelease(d).state = Pending
         /\ NewRelease(d).revision = 1
         /\ NewRelease(d).idempotencyKey = d.idempotencyKey
         /\ d.versionRefs \in Seq(VersionRef)
  BY Zenon, DraftAssumption DEF NewRelease, Release, DraftType, State

\* The int64 successor of a token is a token.
LEMMA NextTokenType ==
  ASSUME NEW r \in Release
  PROVE  NextToken(r) \in Token
  BY TokenAssumption DEF NextToken, Release, Token

\* The rest of the references to check.
LEMMA TailFacts ==
  ASSUME NEW S, NEW s \in Seq(S), s # <<>>
  PROVE  /\ Tail(s) \in Seq(S)
         /\ Len(s) > 1 => Tail(s) # <<>>
<1>1. Tail(s) \in Seq(S) /\ Len(Tail(s)) = Len(s) - 1
  BY Zenon, HeadTailProperties
<1>2. Len(s) > 1 => Len(Tail(s)) > 0
  BY <1>1
<1>3. Tail(s) = <<>> => Len(Tail(s)) = 0
  BY ZenonT(30), <1>1, EmptySeq
<1>4. QED
  BY <1>1, <1>2, <1>3

\* The states the table and AdvanceReleases name are states.
LEMMA TargetTypes == /\ Retrying \in State
                     /\ Paused \in State
                     /\ \A r : NextStates(r) \subseteq State
  BY Zenon DEF State, NextStates, Running, Succeeded, Retrying, Paused
-----------------------------------------------------------------------------
(***************************************************************************)
(* The call frames.                                                        *)
(***************************************************************************)

\* The frame of a process outside every call.
LEMMA IdleType ==
  /\ Idle \in Call
  /\ Idle.pc = "idle"
  BY TokenAssumption DEF Idle, Call, PC, Op, Token

\* The frame between the read and the write of a transition.
LEMMA ComputedType ==
  ASSUME TypeOK,
         NEW op \in {"transition", "retry", "gate"}, NEW id \in ReleaseID,
         NEW to \in State, NEW token \in Token, NEW rate \in Nat,
         Stored(id)
  PROVE  LET c == Computed(op, id, to, token, rate)
         IN  /\ c \in Call
             /\ c.pc = "update"
             /\ c.op = op
             /\ c.id = id
             /\ c.base = releases[id]
             /\ c.base \in Release
             /\ c.rel = Transition(releases[id], to, token)
<1>1. releases[id] \in Release
  BY Zenon DEF TypeOK, Stored
<1>2. Transition(releases[id], to, token) \in Release
  BY Zenon, <1>1, TransitionType
<1> DEFINE rel == Transition(releases[id], to, token)
<1> HIDE DEF rel
<1>3. rel \in Release
  BY Zenon, <1>2 DEF rel
<1>4. op \in Op /\ "update" \in PC
  BY Zenon DEF Op, PC
<1>5. LET c == [Idle EXCEPT !.pc = "update", !.op = op, !.id = id,
                            !.base = releases[id], !.rate = rate, !.rel = rel]
      IN  /\ c \in Call
          /\ c.pc = "update"
          /\ c.op = op
          /\ c.id = id
          /\ c.base = releases[id]
          /\ c.rel = rel
  BY ZenonT(30), <1>1, <1>3, <1>4, IdleType DEF Call
<1>6. QED
  BY Zenon, <1>1, <1>5 DEF Computed, rel

\* The frame after a successful write.
LEMMA CommittedType ==
  ASSUME TypeOK, NEW p \in Procs
  PROVE  /\ Committed(p) \in Call
         /\ Committed(p).pc = AfterWrite(call[p].op)
         /\ Committed(p).pc \in {"audit", "done"}
         /\ Committed(p).op = call[p].op
         /\ Committed(p).id = call[p].id
         /\ Committed(p).rel = call[p].rel
<1>1. call[p] \in Call
  BY Zenon DEF TypeOK
<1>2. AfterWrite(call[p].op) \in PC /\ AfterWrite(call[p].op) \in {"audit", "done"}
  BY Zenon DEF AfterWrite, PC
<1>3. QED
  BY ZenonT(30), <1>1, <1>2, IdleType DEF Committed, Call
-----------------------------------------------------------------------------
(***************************************************************************)
(* What one step does to the frame of a process, to the record of a        *)
(* release and to a listed page, whichever action it is.                   *)
(***************************************************************************)
Same(p) == call'[p] = call[p]

Leaves(p) == \/ call'[p].pc \in {"idle", "done"}
             \/ call'[p].pc \in {"assessed", "gate"} /\ call'[p].id \in ReleaseID

Reads(p) == /\ call'[p].pc = "update"
            /\ call'[p].op \in {"transition", "retry", "gate"}
            /\ call'[p].id \in ReleaseID
            /\ Stored(call'[p].id)
            /\ call'[p].base = releases[call'[p].id]
            /\ \E to \in State, token \in Token :
                 /\ CanTransition(call'[p].base, to, token)
                 /\ call'[p].rel = Transition(call'[p].base, to, token)
            /\ UNCHANGED <<releases, log>>

Draws(p) == /\ call'[p].pc = "refs"
            /\ call'[p].op = "create"
            /\ call'[p].id = sequence + 1
            /\ sequence' = sequence + 1
            /\ call'[p].todo # <<>>
            /\ \E d \in Drafts : Validate(d) /\ call'[p].rel = NewRelease(d)
            /\ UNCHANGED <<releases, log>>

Checks(p) == /\ call[p].pc = "refs"
             /\ call'[p].pc \in {"refs", "create"}
             /\ call'[p].pc = "refs" => call'[p].todo # <<>>
             /\ call'[p].op = call[p].op
             /\ call'[p].id = call[p].id
             /\ call'[p].rel = call[p].rel
             /\ UNCHANGED <<releases, log>>

Commits(p) == /\ call[p].pc \in {"create", "update"}
              /\ call'[p].pc = "audit"
              /\ call'[p].id = call[p].id
              /\ call'[p].rel = call[p].rel
              /\ call[p].id \in ReleaseID
              /\ call[p].rel \in Release
              /\ releases'[call[p].id] = call[p].rel
              /\ \E op \in Op \cup {"wave"} :
                   log'[call[p].id] = Append(log[call[p].id],
                                             [op |-> op, state |-> call[p].rel.state])

FrameStep(p) == \/ Same(p)
                \/ Leaves(p)
                \/ Reads(p)
                \/ Draws(p)
                \/ Checks(p)
                \/ Commits(p)

OneMoves == \A p, q \in Procs : p # q => Same(p) \/ Same(q)

\* The record of id and its history stay, or grow by one revision.
Writes(id) ==
  /\ releases'[id] \in Release
  /\ \E op \in Op \cup {"wave"} :
       /\ log'[id] = Append(log[id], [op |-> op, state |-> releases'[id].state])
       /\ op \in {"wave", "retry"} \/ \E p \in Procs : Commits(p) /\ call[p].id = id
  /\ \/ /\ Stored(id)
        /\ releases'[id].revision = releases[id].revision + 1
        /\ releases'[id].idempotencyKey = releases[id].idempotencyKey
        /\ UNCHANGED idempotency
     \/ /\ ~ Stored(id)
        /\ releases'[id].revision = 1
        /\ \E p \in Procs : Creating(p) /\ call[p].id = id /\ ~ Creating(p)'
        /\ ~ KeyTaken(releases'[id].idempotencyKey)
        /\ idempotency' = IndexKey(releases'[id].idempotencyKey, id)

RecordStep(id) == \/ releases'[id] = releases[id] /\ log'[id] = log[id]
                  \/ Writes(id)

\* At most one record is written.
OneWrite == \/ UNCHANGED <<releases, log, idempotency>>
            \/ \E id \in ReleaseID :
                 /\ Writes(id)
                 /\ \A other \in ReleaseID \ {id} :
                      /\ releases'[other] = releases[other]
                      /\ log'[other] = log[other]

PageStep == \A w \in Workers : \A item \in listed'[w] :
              \/ item \in listed[w]
              \/ /\ Stored(item.id)
                 /\ item.rel = releases[item.id]
                 /\ UNCHANGED <<releases, log>>

AuditStep == \/ UNCHANGED audits /\ \A p \in Procs : call[p].pc = "audit" => Same(p)
             \/ \E p \in Procs :
                  /\ call[p].pc = "audit"
                  /\ audits' = audits \cup {AuditOf(call[p].id, call[p].rel)}
                  /\ \A q \in Procs \ {p} : Same(q)
                  /\ UNCHANGED <<releases, log>>

StepShape == /\ TypeOK'
             /\ sequence' \in {sequence, sequence + 1}
             /\ \A p \in Procs : FrameStep(p)
             /\ OneMoves
             /\ OneWrite
             /\ PageStep
             /\ AuditStep

\* The shape of a step that changes one frame and no record.
LEMMA QuietShape ==
  ASSUME TypeOK, NEW p \in Procs, NEW c \in Call,
         call[p].pc # "audit",
         call' = [call EXCEPT ![p] = c],
         FrameStep(p),
         sequence' \in 0 .. MaxReleases,
         sequence' \in {sequence, sequence + 1},
         listed' \in [Workers -> SUBSET Item],
         PageStep,
         UNCHANGED <<releases, idempotency, audits, log>>
  PROVE  StepShape
<1>1. TypeOK'
  BY Zenon DEF TypeOK
<1>2. \A q \in Procs : q # p => Same(q)
  BY Zenon DEF TypeOK, Same
<1>3. \A q \in Procs : FrameStep(q)
  BY Zenon, <1>2 DEF FrameStep
<1>4. OneMoves
  BY Zenon, <1>2 DEF OneMoves
<1>5. AuditStep
  BY Zenon, <1>2 DEF AuditStep
<1>6. OneWrite
  BY Zenon DEF OneWrite
<1>7. QED
  BY Zenon, <1>1, <1>3, <1>4, <1>5, <1>6 DEF StepShape

\* Going on to the next release keeps the rest of the page.
LEMMA ProceedPage ==
  ASSUME TypeOK, NEW p \in Procs, NEW id, listed' = Proceed(p, id)
  PROVE  /\ listed' \in [Workers -> SUBSET Item]
         /\ PageStep
  BY Zenon DEF TypeOK, Proceed, PageStep

\* A step that leaves the pages alone keeps them well-formed.
LEMMA SamePage ==
  ASSUME TypeOK, UNCHANGED listed
  PROVE  /\ listed' \in [Workers -> SUBSET Item]
         /\ PageStep
  BY Zenon DEF TypeOK, PageStep

\* CreateRelease starts: its process draws the next identifier.
LEMMA CreateReleaseShape ==
  ASSUME IndInv, NEW p \in Clients, NEW d \in Drafts, CreateRelease(p, d)
  PROVE  StepShape
<1> DEFINE c == [Idle EXCEPT !.pc = "refs", !.op = "create", !.id = sequence',
                             !.rel = NewRelease(d), !.todo = d.versionRefs]
<1>1. TypeOK /\ p \in Procs /\ call[p].pc # "audit"
  BY Zenon, IdleType DEF IndInv, Procs, CreateRelease
<1>2. sequence' = sequence + 1 /\ sequence' \in ReleaseID
  BY <1>1, ServiceAssumption DEF CreateRelease, TypeOK, ReleaseID
<1>3. "refs" \in PC /\ "create" \in Op
  BY Zenon DEF PC, Op
<1>4. /\ c \in Call
      /\ c.pc = "refs"
      /\ c.op = "create"
      /\ c.id = sequence'
      /\ c.rel = NewRelease(d)
      /\ c.todo = d.versionRefs
  <2> HIDE DEF c
  <2>1. NewRelease(d) \in Release /\ d.versionRefs \in Seq(VersionRef)
    BY Zenon, NewReleaseType
  <2> DEFINE rel == NewRelease(d)
             seq == sequence'
             refs == d.versionRefs
  <2>2. rel \in Release /\ seq \in ReleaseID /\ refs \in Seq(VersionRef)
    BY Zenon, <1>2, <2>1
  <2>3. c = [Idle EXCEPT !.pc = "refs", !.op = "create", !.id = seq,
                         !.rel = rel, !.todo = refs]
    BY Zenon DEF c
  <2> HIDE DEF rel, seq, refs
  <2>4. /\ c \in Call
        /\ c.pc = "refs"
        /\ c.op = "create"
        /\ c.id = seq
        /\ c.rel = rel
        /\ c.todo = refs
    BY Zenon, <1>3, <2>2, <2>3, IdleType DEF Call
  <2>5. QED
    BY Zenon, <2>4 DEF rel, seq, refs
<1> HIDE DEF c
<1>5. call' = [call EXCEPT ![p] = c]
  BY Zenon DEF CreateRelease, c
<1>6. call'[p] = c
  BY Zenon, <1>1, <1>5 DEF TypeOK
<1>7. UNCHANGED <<releases, idempotency, listed, audits, log>> /\ Validate(d)
  BY Zenon DEF CreateRelease
<1>8. Draws(p)
  BY Zenon, <1>2, <1>4, <1>6, <1>7 DEF Draws, Validate
<1>9. sequence' \in 0 .. MaxReleases
  BY <1>2, ServiceAssumption DEF ReleaseID
<1>10. QED
  BY Zenon, <1>1, <1>2, <1>4, <1>5, <1>7, <1>8, <1>9, QuietShape, SamePage DEF FrameStep

\* The reference loop of CreateRelease goes on with the same record, or ends
\* the call.
LEMMA CheckRefShape ==
  ASSUME IndInv, NEW p \in Clients, NEW usable \in BOOLEAN, CheckRef(p, usable)
  PROVE  StepShape
<1>1. TypeOK /\ p \in Procs /\ call[p] \in Call
  BY Zenon DEF IndInv, Procs, TypeOK
<1>2. call[p].pc = "refs"
  BY Zenon DEF CheckRef
<1>3. /\ UNCHANGED <<releases, idempotency, sequence, listed, audits, log>>
      /\ sequence' \in 0 .. MaxReleases
  BY Zenon, <1>1 DEF CheckRef, TypeOK
<1>4. CASE usable
  <2> DEFINE refs == Tail(call[p].todo)
             pc   == IF Len(call[p].todo) > 1 THEN "refs" ELSE "create"
             c    == [call[p] EXCEPT !.todo = refs, !.pc = pc]
  <2>1. call[p].todo \in Seq(VersionRef) /\ call[p].todo # <<>>
    BY Zenon, <1>1, <1>2 DEF IndInv, CreatesOwnID, Creating, Call
  <2>2. /\ refs \in Seq(VersionRef)
        /\ pc \in {"refs", "create"}
        /\ pc = "refs" => refs # <<>>
        /\ pc \in PC
    BY Zenon, <2>1, TailFacts DEF PC
  <2>3. call' = [call EXCEPT ![p] = c]
    BY Zenon, <1>1, <1>4 DEF CheckRef, TypeOK
  <2> HIDE DEF refs, pc
  <2>4. /\ c \in Call
        /\ c.pc = pc
        /\ c.todo = refs
        /\ c.op = call[p].op
        /\ c.id = call[p].id
        /\ c.rel = call[p].rel
    BY Zenon, <1>1, <2>2 DEF Call
  <2> HIDE DEF c
  <2>5. Checks(p)
    BY Zenon, <1>1, <1>2, <1>3, <2>2, <2>3, <2>4 DEF Checks, TypeOK
  <2>6. QED
    BY ZenonT(30), <1>1, <1>2, <1>3, <2>3, <2>4, <2>5, QuietShape, SamePage DEF FrameStep
<1>5. CASE ~ usable
  <2>1. call' = [call EXCEPT ![p] = Idle]
    BY Zenon, <1>5 DEF CheckRef
  <2>2. Leaves(p)
    BY Zenon, <1>1, <2>1, IdleType DEF Leaves, TypeOK
  <2>3. QED
    BY ZenonT(30), <1>1, <1>2, <1>3, <2>1, <2>2, IdleType, QuietShape, SamePage DEF FrameStep
<1>6. QED
  BY Zenon, <1>4, <1>5

\* The first half of every transition: a read and the frame it leaves.
LEMMA ReadsShape ==
  ASSUME IndInv, NEW p \in Procs, call[p].pc # "audit",
         NEW op \in {"transition", "retry", "gate"}, NEW id \in ReleaseID,
         NEW to \in State, NEW token \in Token, NEW rate \in Nat,
         Accepts(id, to, token),
         call' = [call EXCEPT ![p] = Computed(op, id, to, token, rate)],
         UNCHANGED <<releases, idempotency, sequence, listed, audits, log>>
  PROVE  StepShape
<1>1. TypeOK /\ Stored(id) /\ CanTransition(releases[id], to, token)
  BY Zenon DEF IndInv, Accepts
<1> DEFINE c == Computed(op, id, to, token, rate)
<1>2. /\ c \in Call
      /\ c.pc = "update"
      /\ c.op = op
      /\ c.id = id
      /\ c.base = releases[id]
      /\ c.rel = Transition(releases[id], to, token)
  BY <1>1, ComputedType
<1>3. call' = [call EXCEPT ![p] = c]
  BY Zenon
<1> HIDE DEF c
<1>4. call'[p] = c
  BY Zenon, <1>1, <1>3 DEF TypeOK
<1>5. Reads(p)
  BY Zenon, <1>1, <1>2, <1>4 DEF Reads
<1>6. sequence' \in 0 .. MaxReleases
  BY Zenon, <1>1 DEF TypeOK
<1>7. QED
  BY ZenonT(30), <1>1, <1>2, <1>3, <1>5, <1>6, QuietShape, SamePage DEF FrameStep

\* A call that ends, or that only remembers an assessment.
LEMMA LeavesShape ==
  ASSUME IndInv, NEW p \in Procs, call[p].pc # "audit", NEW c \in Call,
         \/ c.pc \in {"idle", "done"}
         \/ c.pc \in {"assessed", "gate"} /\ c.id \in ReleaseID,
         call' = [call EXCEPT ![p] = c],
         listed' \in [Workers -> SUBSET Item],
         PageStep,
         UNCHANGED <<releases, idempotency, sequence, audits, log>>
  PROVE  StepShape
<1>1. TypeOK /\ sequence' \in 0 .. MaxReleases
  BY Zenon DEF IndInv, TypeOK
<1>2. Leaves(p)
  BY Zenon, <1>1 DEF Leaves, TypeOK
<1>3. QED
  BY ZenonT(30), <1>1, <1>2, QuietShape DEF FrameStep

\* A call that gives up, as at every early return, only leaves its frame.
LEMMA AbandonShape ==
  ASSUME IndInv, NEW p \in Procs, call[p].pc # "audit", NEW id, Abandon(p, id),
         UNCHANGED <<releases, idempotency, sequence, audits, log>>
  PROVE  StepShape
<1>1. call' = [call EXCEPT ![p] = Idle] /\ listed' = Proceed(p, id) /\ TypeOK
  BY Zenon DEF Abandon, IndInv
<1>2. listed' \in [Workers -> SUBSET Item] /\ PageStep
  BY Zenon, <1>1, ProceedPage
<1>3. QED
  BY ZenonT(30), <1>1, <1>2, IdleType, LeavesShape

\* TransitionRelease starts: a read and a legal transition of what was read.
LEMMA TransitionReleaseShape ==
  ASSUME IndInv, NEW p \in Clients, NEW id \in ReleaseID,
         NEW to \in Targets, NEW token \in CallerTokens,
         TransitionRelease(p, id, to, token)
  PROVE  StepShape
<1>1. p \in Procs /\ to \in State /\ token \in Token /\ 0 \in Nat
  BY Zenon, ServiceAssumption DEF Procs
<1>2. call[p].pc # "audit"
  BY Zenon, IdleType DEF TransitionRelease
<1>3. QED
  BY Zenon, <1>1, <1>2, ReadsShape DEF TransitionRelease

\* RetryRelease starts: its token, one more than the one read, is legal too.
LEMMA RetryReleaseShape ==
  ASSUME IndInv, NEW p \in Clients, NEW id \in ReleaseID, RetryRelease(p, id)
  PROVE  StepShape
<1>1. p \in Procs /\ 0 \in Nat
  BY Zenon DEF Procs
<1>2. call[p].pc # "audit"
  BY Zenon, IdleType DEF RetryRelease
<1>3. releases[id] \in Release
  BY Zenon DEF RetryRelease, IndInv, TypeOK, Stored
<1>4. NextToken(releases[id]) \in Token /\ Retrying \in State
  BY Zenon, <1>3, NextTokenType, TargetTypes
<1>5. QED
  BY ZenonT(30), <1>1, <1>2, <1>4, ReadsShape DEF RetryRelease

\* The assessment of ApplyHealthGate reads and writes no record.
LEMMA AssessShape ==
  ASSUME IndInv, NEW p \in Clients, NEW id \in ReleaseID,
         NEW rate \in FailureRates, NEW token \in CallerTokens,
         AssessReleaseHealth(p, id, rate, token)
  PROVE  StepShape
<1> DEFINE pause == ShouldPause(releases[id], rate) /\ releases[id].state = Running
           c     == [Idle EXCEPT !.pc = "assessed", !.op = "gate", !.id = id,
                                 !.token = token, !.rate = rate, !.pause = pause]
<1>1. p \in Procs /\ TypeOK /\ token \in Token /\ rate \in Nat
  BY Zenon, ServiceAssumption DEF Procs, IndInv
<1>2. call[p].pc # "audit"
  BY Zenon, IdleType DEF AssessReleaseHealth
<1>3. call' = [call EXCEPT ![p] = c]
  BY ZenonT(30) DEF AssessReleaseHealth
<1>4. pause \in BOOLEAN /\ "assessed" \in PC /\ "gate" \in Op
  BY Zenon DEF PC, Op
<1> HIDE DEF pause
<1>5. c \in Call /\ c.pc = "assessed" /\ c.id = id
  BY ZenonT(30), <1>1, <1>4, IdleType DEF Call
<1> HIDE DEF c
<1>6. UNCHANGED <<releases, idempotency, sequence, listed, audits, log>>
  BY Zenon DEF AssessReleaseHealth
<1>7. QED
  BY ZenonT(30), <1>1, <1>2, <1>3, <1>5, <1>6, LeavesShape, SamePage

\* The second read of ApplyHealthGate goes on to the gate or ends the call.
LEMMA ReadAgainShape ==
  ASSUME IndInv, NEW p \in Clients, ReadAgain(p)
  PROVE  StepShape
<1>1. p \in Procs /\ TypeOK /\ call[p] \in Call /\ call[p].pc = "assessed"
  BY Zenon DEF Procs, IndInv, TypeOK, ReadAgain
<1>2. UNCHANGED <<releases, idempotency, sequence, listed, audits, log>>
  BY Zenon DEF ReadAgain
<1>3. CASE call[p].pause
  <2> DEFINE c == [call[p] EXCEPT !.pc = "gate"]
  <2>1. call' = [call EXCEPT ![p] = c]
    BY Zenon, <1>3 DEF ReadAgain
  <2>2. call[p].id \in ReleaseID
    BY Zenon, <1>1 DEF IndInv, UpdatesLegal
  <2>3. c \in Call /\ c.pc = "gate" /\ c.id \in ReleaseID
    BY Zenon, <1>1, <2>2 DEF Call, PC
  <2> HIDE DEF c
  <2>4. QED
    BY Zenon, <1>1, <1>2, <2>1, <2>3, LeavesShape, SamePage
<1>4. CASE ~ call[p].pause
  <2>1. call' = [call EXCEPT ![p] = Idle]
    BY Zenon, <1>4 DEF ReadAgain
  <2>2. QED
    BY ZenonT(30), <1>1, <1>2, <2>1, IdleType, LeavesShape, SamePage
<1>5. QED
  BY Zenon, <1>3, <1>4

\* The gate's TransitionRelease reads afresh, or is refused and ends the call.
LEMMA GateTransitionShape ==
  ASSUME IndInv, NEW p \in Clients, GateTransition(p)
  PROVE  StepShape
<1>1. p \in Procs /\ TypeOK /\ call[p] \in Call /\ call[p].pc = "gate"
  BY Zenon DEF Procs, IndInv, TypeOK, GateTransition
<1>2. UNCHANGED <<releases, idempotency, sequence, listed, audits, log>>
  BY Zenon DEF GateTransition
<1>3. /\ call[p].id \in ReleaseID
      /\ call[p].token \in Token
      /\ call[p].rate \in Nat
      /\ Paused \in State
  BY Zenon, <1>1, TargetTypes DEF IndInv, UpdatesLegal, Call
<1>4. CASE Accepts(call[p].id, Paused, call[p].token)
  <2>1. call' = [call EXCEPT ![p] = Computed("gate", call[p].id, Paused,
                                             call[p].token, call[p].rate)]
    BY Zenon, <1>4 DEF GateTransition
  <2>2. QED
    BY ZenonT(30), <1>1, <1>2, <1>3, <1>4, <2>1, ReadsShape
<1>5. CASE ~ Accepts(call[p].id, Paused, call[p].token)
  <2>1. call' = [call EXCEPT ![p] = Idle]
    BY Zenon, <1>5 DEF GateTransition
  <2>2. QED
    BY Zenon, <1>1, <1>2, <2>1, IdleType, LeavesShape, SamePage
<1>6. QED
  BY Zenon, <1>4, <1>5

\* A call that returns only leaves its frame.
LEMMA ReturnShape ==
  ASSUME IndInv, NEW p \in Procs, Return(p)
  PROVE  StepShape
  BY Zenon, AbandonShape DEF Return

\* Service.audit appends the one record its process owes.
LEMMA AuditShape ==
  ASSUME IndInv, NEW p \in Procs, Audit(p)
  PROVE  StepShape
<1> DEFINE c == [call[p] EXCEPT !.pc = "done"]
           a == AuditOf(call[p].id, call[p].rel)
<1>1. TypeOK /\ call[p] \in Call /\ call[p].pc = "audit"
  BY Zenon DEF IndInv, TypeOK, Audit
<1>2. c \in Call /\ c.pc = "done"
  BY Zenon, <1>1 DEF Call, PC
<1>3. call[p].id \in ReleaseID /\ call[p].rel \in Release
  BY Zenon, <1>1 DEF IndInv, UpdatesLegal, AuditsOwed
<1>4. a \in AuditRecord
  BY Zenon, <1>3 DEF AuditOf, AuditRecord, Release
<1>5. /\ call' = [call EXCEPT ![p] = c]
      /\ audits' = audits \cup {a}
      /\ UNCHANGED <<releases, idempotency, sequence, listed, log>>
  BY Zenon DEF Audit
<1> HIDE DEF c
<1>6. TypeOK'
  BY Zenon, <1>1, <1>2, <1>4, <1>5 DEF TypeOK
<1>7. \A q \in Procs : q # p => Same(q)
  BY Zenon, <1>1, <1>5 DEF TypeOK, Same
<1>8. \A q \in Procs : FrameStep(q)
  <2>1. Leaves(p)
    BY Zenon, <1>1, <1>2, <1>5 DEF Leaves, TypeOK
  <2>2. QED
    BY Zenon, <1>7, <2>1 DEF FrameStep
<1>9. OneMoves
  BY Zenon, <1>7 DEF OneMoves
<1>10. AuditStep
  BY Zenon, <1>1, <1>5, <1>7 DEF AuditStep
<1>11. OneWrite /\ PageStep /\ sequence' = sequence
  BY Zenon, <1>5 DEF OneWrite, PageStep
<1>12. QED
  BY Zenon, <1>6, <1>8, <1>9, <1>10, <1>11 DEF StepShape

\* AdvanceReleases lists copies of stored releases.
LEMMA ListReleasesShape ==
  ASSUME IndInv, NEW w \in Workers, ListReleases(w)
  PROVE  StepShape
<1>1. w \in Procs /\ TypeOK /\ call[w].pc # "audit"
  BY Zenon, IdleType DEF Procs, IndInv, ListReleases
<1>2. /\ listed' = [listed EXCEPT ![w] = FirstPage]
      /\ UNCHANGED <<releases, idempotency, sequence, call, audits, log>>
  BY Zenon DEF ListReleases
<1>3. \A item \in FirstPage : /\ item \in Item
                              /\ Stored(item.id)
                              /\ item.rel = releases[item.id]
  <2> SUFFICES ASSUME NEW i \in ReleaseID, Stored(i)
               PROVE  [id |-> i, rel |-> releases[i]] \in Item
    BY DEF FirstPage
  <2>1. releases[i] \in Release
    BY Zenon, <1>1 DEF TypeOK, Stored
  <2>2. QED
    BY Zenon, <2>1 DEF Item
<1>4. listed' \in [Workers -> SUBSET Item]
  BY Zenon, <1>1, <1>2, <1>3 DEF TypeOK
<1>5. PageStep
  BY Zenon, <1>1, <1>2, <1>3 DEF PageStep, TypeOK
<1>6. call[w] \in Call /\ call' = [call EXCEPT ![w] = call[w]]
  BY Zenon, <1>1, <1>2 DEF TypeOK
<1>7. FrameStep(w)
  BY Zenon, <1>2 DEF FrameStep, Same
<1>8. sequence' \in 0 .. MaxReleases
  BY Zenon, <1>1, <1>2 DEF TypeOK
<1>9. QED
  BY Zenon, <1>1, <1>2, <1>4, <1>5, <1>6, <1>7, <1>8, QuietShape

\* A transition of AdvanceReleases is computed from a fresh read, whatever the
\* listed copy says, or is refused.
LEMMA AdvanceReleaseShape ==
  ASSUME IndInv, NEW w \in Workers, NEW item \in listed[w],
         AdvanceRelease(w, item)
  PROVE  StepShape
<1>1. w \in Procs /\ TypeOK /\ call[w].pc # "audit" /\ 0 \in Nat
  BY Zenon, IdleType DEF Procs, IndInv, AdvanceRelease, At
<1>2. item \in Item
  BY Zenon, <1>1 DEF TypeOK
<1>3. item.id \in ReleaseID /\ NextToken(item.rel) \in Token
  BY Zenon, <1>2, NextTokenType DEF Item
<1>4. PICK to \in NextStates(item.rel) :
        \/ /\ Accepts(item.id, to, NextToken(item.rel))
           /\ call' = [call EXCEPT ![w] = Computed("transition", item.id, to,
                                                   NextToken(item.rel), 0)]
           /\ UNCHANGED listed
        \/ Abandon(w, item.id)
  BY Zenon DEF AdvanceRelease
<1>5. to \in State
  BY Zenon, TargetTypes
<1>6. UNCHANGED <<releases, idempotency, sequence, audits, log>>
  BY Zenon DEF AdvanceRelease
<1>7. QED
  BY Zenon, <1>1, <1>3, <1>4, <1>5, <1>6, ReadsShape, AbandonShape

\* A listed release in no state of the switch is passed over.
LEMMA SkipReleaseShape ==
  ASSUME IndInv, NEW w \in Workers, NEW item \in listed[w], SkipRelease(w, item)
  PROVE  StepShape
<1>1. w \in Procs /\ TypeOK /\ call[w].pc # "audit"
  BY Zenon, IdleType DEF Procs, IndInv, SkipRelease, At
<1>2. /\ UNCHANGED <<releases, idempotency, sequence, call, audits, log>>
      /\ listed' = Proceed(w, item.id)
  BY Zenon DEF SkipRelease
<1>3. call[w] \in Call /\ call' = [call EXCEPT ![w] = call[w]]
  BY Zenon, <1>1, <1>2 DEF TypeOK
<1>4. FrameStep(w)
  BY Zenon, <1>2 DEF FrameStep, Same
<1>5. sequence' \in 0 .. MaxReleases
  BY Zenon, <1>1, <1>2 DEF TypeOK
<1>6. listed' \in [Workers -> SUBSET Item] /\ PageStep
  BY Zenon, <1>1, <1>2, ProceedPage
<1>7. QED
  BY ZenonT(30), <1>1, <1>2, <1>3, <1>4, <1>5, <1>6, QuietShape
-----------------------------------------------------------------------------
(***************************************************************************)
(* The steps that write a record.                                          *)
(***************************************************************************)

\* A write appends to the history of its release and touches no other.
LEMMA WriteType ==
  ASSUME TypeOK, NEW id \in ReleaseID, NEW rel \in Release,
         NEW op \in Op \cup {"wave"}, Write(id, rel, op)
  PROVE  /\ releases' \in [ReleaseID -> Release \cup {NoRelease}]
         /\ log' \in [ReleaseID -> Seq(LogEntry)]
         /\ releases'[id] = rel
         /\ log'[id] = Append(log[id], [op |-> op, state |-> rel.state])
         /\ \A other \in ReleaseID \ {id} : /\ releases'[other] = releases[other]
                                            /\ log'[other] = log[other]
<1> DEFINE e == [op |-> op, state |-> rel.state]
<1>1. e \in LogEntry
  BY Zenon DEF LogEntry, Release
<1>2. /\ releases' = [releases EXCEPT ![id] = rel]
      /\ log' = [log EXCEPT ![id] = Append(log[id], e)]
  BY Zenon DEF Write
<1> HIDE DEF e
<1>3. Append(log[id], e) \in Seq(LogEntry)
  BY <1>1 DEF TypeOK
<1>4. /\ releases' \in [ReleaseID -> Release \cup {NoRelease}]
      /\ releases'[id] = rel
      /\ \A other \in ReleaseID \ {id} : releases'[other] = releases[other]
  BY Zenon, <1>2 DEF TypeOK
<1>5. /\ log' \in [ReleaseID -> Seq(LogEntry)]
      /\ log'[id] = Append(log[id], e)
      /\ \A other \in ReleaseID \ {id} : log'[other] = log[other]
  BY Zenon, <1>2, <1>3 DEF TypeOK
<1>6. QED
  BY Zenon, <1>4, <1>5 DEF e

\* MemoryRepository.Update writes the next revision of the record that was
\* read, or the call gives up.
LEMMA UpdateShape ==
  ASSUME IndInv, NEW p \in Procs, Update(p)
  PROVE  StepShape
<1>1. TypeOK /\ call[p] \in Call /\ call[p].pc = "update"
  BY Zenon DEF IndInv, TypeOK, Update
<1>2. /\ call[p].id \in ReleaseID
      /\ call[p].base \in Release
      /\ call[p].op \in {"transition", "retry", "gate"}
      /\ CopyCurrent(call[p].base, call[p].id)
  BY Zenon, <1>1 DEF IndInv, UpdatesLegal, CopiesCurrent
<1>3. PICK to \in State, token \in Token :
        call[p].rel = Transition(call[p].base, to, token)
  BY Zenon, <1>1 DEF IndInv, UpdatesLegal
<1>4. UNCHANGED <<idempotency, sequence, audits>> /\ sequence' \in 0 .. MaxReleases
  BY Zenon, <1>1 DEF Update, TypeOK
<1>5. CASE ~ RevisionMatches(releases[call[p].id], call[p].base.revision)
  <2>1. Abandon(p, call[p].id) /\ UNCHANGED <<releases, log>>
    BY Zenon, <1>5 DEF Update
  <2>2. QED
    BY Zenon, <1>1, <1>4, <2>1, AbandonShape
<1>6. CASE RevisionMatches(releases[call[p].id], call[p].base.revision)
  <2> DEFINE id  == call[p].id
             rel == call[p].rel
             op  == call[p].op
  <2>1. /\ Write(id, rel, op)
        /\ call' = [call EXCEPT ![p] = Committed(p)]
        /\ UNCHANGED listed
    BY Zenon, <1>6 DEF Update
  <2>2. /\ rel \in Release
        /\ rel.revision = call[p].base.revision + 1
        /\ rel.idempotencyKey = call[p].base.idempotencyKey
    BY <1>2, <1>3, TransitionType
  <2>3. Stored(id) /\ releases[id] = call[p].base
    BY Zenon, <1>2, <1>6 DEF CopyCurrent, RevisionMatches
  <2>4. op \in Op \cup {"wave"} /\ op \in {"transition", "retry", "gate"}
    BY Zenon, <1>2 DEF Op
  <2>5. /\ Committed(p) \in Call
        /\ Committed(p).pc = AfterWrite(op)
        /\ Committed(p).id = id
        /\ Committed(p).rel = rel
    BY Zenon, <1>1, CommittedType
  <2>6. call'[p] = Committed(p) /\ \A q \in Procs : q # p => Same(q)
    BY Zenon, <1>1, <2>1 DEF TypeOK, Same
  <2>7. /\ releases' \in [ReleaseID -> Release \cup {NoRelease}]
        /\ log' \in [ReleaseID -> Seq(LogEntry)]
        /\ releases'[id] = rel
        /\ log'[id] = Append(log[id], [op |-> op, state |-> rel.state])
        /\ \A other \in ReleaseID \ {id} : /\ releases'[other] = releases[other]
                                           /\ log'[other] = log[other]
    BY Zenon, <1>1, <1>2, <2>1, <2>2, <2>4, WriteType
  <2>8. TypeOK'
    BY Zenon, <1>1, <1>4, <2>1, <2>5, <2>7 DEF TypeOK
  <2>9. op # "retry" => Commits(p)
    BY ZenonT(30), <1>1, <1>2, <2>2, <2>4, <2>5, <2>6, <2>7 DEF Commits, AfterWrite
  <2>10. op = "retry" => Leaves(p)
    BY Zenon, <2>5, <2>6 DEF Leaves, AfterWrite
  <2>11. \A q \in Procs : FrameStep(q)
    BY Zenon, <2>6, <2>9, <2>10 DEF FrameStep
  <2>12. Writes(id)
    BY ZenonT(30), <1>2, <1>4, <2>2, <2>3, <2>4, <2>7, <2>9 DEF Writes
  <2>13. OneWrite
    BY Zenon, <1>2, <2>7, <2>12 DEF OneWrite
  <2>14. OneMoves /\ AuditStep /\ PageStep
    BY Zenon, <1>1, <1>4, <2>1, <2>6 DEF OneMoves, AuditStep, PageStep
  <2>15. QED
    BY Zenon, <1>4, <2>8, <2>11, <2>13, <2>14 DEF StepShape
<1>7. QED
  BY Zenon, <1>5, <1>6

\* MemoryRepository.Create writes revision 1 under an unused identifier and an
\* unused key, or the call gives up.
LEMMA RepositoryCreateShape ==
  ASSUME IndInv, NEW p \in Clients, RepositoryCreate(p)
  PROVE  StepShape
<1> DEFINE id  == call[p].id
           rel == call[p].rel
<1>1. TypeOK /\ p \in Procs /\ call[p] \in Call /\ call[p].pc = "create"
  BY Zenon DEF IndInv, TypeOK, Procs, RepositoryCreate
<1>2. /\ UNCHANGED <<sequence, listed, audits>>
      /\ sequence' \in 0 .. MaxReleases
  BY Zenon, <1>1 DEF RepositoryCreate, TypeOK
<1>3. PICK d \in Drafts : rel = NewRelease(d)
  BY Zenon, <1>1 DEF IndInv, CreatesOwnID, Creating
<1>4. rel \in Release /\ rel.revision = 1
  BY Zenon, <1>3, NewReleaseType
<1>5. id \in ReleaseID /\ ~ Stored(id)
  <2>1. id \in 1 .. sequence /\ ~ Stored(id)
    BY Zenon, <1>1 DEF IndInv, CreatesOwnID, Creating
  <2>2. sequence \in 0 .. MaxReleases
    BY Zenon, <1>1 DEF TypeOK
  <2>3. QED
    BY Zenon, <2>1, <2>2, IssuedIDs
<1>6. CASE KeyTaken(rel.idempotencyKey)
  <2>1. call' = [call EXCEPT ![p] = Idle] /\ UNCHANGED <<releases, idempotency, log>>
    BY Zenon, <1>6 DEF RepositoryCreate
  <2>2. QED
    BY Zenon, <1>1, <1>2, <2>1, IdleType, LeavesShape, SamePage
<1>7. CASE ~ KeyTaken(rel.idempotencyKey)
  <2>1. /\ Write(id, rel, "create")
        /\ idempotency' = IndexKey(rel.idempotencyKey, id)
        /\ call' = [call EXCEPT ![p] = Committed(p)]
    BY Zenon, <1>5, <1>7 DEF RepositoryCreate
  <2>2. call[p].op = "create" => AfterWrite(call[p].op) = "audit"
    BY Zenon DEF AfterWrite
  <2>3. /\ Committed(p) \in Call
        /\ Committed(p).pc \in {"audit", "done"}
        /\ Committed(p).id = id
        /\ Committed(p).rel = rel
        /\ Committed(p).pc = AfterWrite(call[p].op)
    BY Zenon, <1>1, CommittedType
  <2>4. call'[p] = Committed(p) /\ \A q \in Procs : q # p => Same(q)
    BY Zenon, <1>1, <2>1 DEF TypeOK, Same
  <2>5. "create" \in Op \cup {"wave"}
    BY Zenon DEF Op
  <2>6. /\ releases' \in [ReleaseID -> Release \cup {NoRelease}]
        /\ log' \in [ReleaseID -> Seq(LogEntry)]
        /\ releases'[id] = rel
        /\ log'[id] = Append(log[id], [op |-> "create", state |-> rel.state])
        /\ \A other \in ReleaseID \ {id} : /\ releases'[other] = releases[other]
                                           /\ log'[other] = log[other]
    BY Zenon, <1>1, <1>4, <1>5, <2>1, <2>5, WriteType
  <2>7. idempotency' \in [IdempotencyKey -> ReleaseID \cup {0}]
    BY ZenonT(30), <1>1, <1>5, <2>1 DEF IndexKey, TypeOK
  <2>8. TypeOK'
    BY Zenon, <1>1, <1>2, <2>1, <2>3, <2>6, <2>7 DEF TypeOK
  <2>9. call[p].op = "create"
    BY Zenon, <1>1 DEF IndInv, CreatesOwnID, Creating
  <2>10. Commits(p)
    BY ZenonT(30), <1>1, <1>4, <1>5, <2>2, <2>3, <2>4, <2>5, <2>6, <2>9 DEF Commits
  <2>11. \A q \in Procs : FrameStep(q)
    BY Zenon, <2>4, <2>10 DEF FrameStep
  <2>12. Creating(p) /\ ~ Creating(p)'
    BY Zenon, <1>1, <2>3, <2>4 DEF Creating
  <2>13. Writes(id)
    BY ZenonT(30), <1>1, <1>4, <1>5, <1>7, <2>1, <2>5, <2>6, <2>10, <2>12 DEF Writes
  <2>14. OneWrite
    BY Zenon, <1>5, <2>6, <2>13 DEF OneWrite
  <2>15. OneMoves /\ AuditStep /\ PageStep
    BY Zenon, <1>1, <1>2, <2>4 DEF OneMoves, AuditStep, PageStep
  <2>16. QED
    BY Zenon, <1>2, <2>8, <2>11, <2>14, <2>15 DEF StepShape
<1>8. QED
  BY Zenon, <1>6, <1>7

\* The wave step writes the next revision of the listed copy if it is current.
LEMMA AdvanceWaveShape ==
  ASSUME IndInv, NEW w \in Workers, NEW item \in listed[w], AdvanceWave(w, item)
  PROVE  StepShape
<1>1. TypeOK /\ w \in Procs /\ call[w].pc # "audit"
  BY Zenon, IdleType DEF IndInv, Procs, AdvanceWave, At
<1>2. /\ item \in Item
      /\ item.id \in ReleaseID
      /\ item.rel \in Release
      /\ CopyCurrent(item.rel, item.id)
  BY <1>1 DEF TypeOK, Item, IndInv, CopiesCurrent
<1>3. /\ UNCHANGED <<idempotency, sequence, call, audits>>
      /\ listed' = Proceed(w, item.id)
      /\ sequence' \in 0 .. MaxReleases
  BY Zenon, <1>1 DEF AdvanceWave, TypeOK
<1>4. listed' \in [Workers -> SUBSET Item] /\ PageStep
  BY Zenon, <1>1, <1>3, ProceedPage
<1>5. \A q \in Procs : Same(q)
  BY Zenon, <1>3 DEF Same
<1>6. CASE ~ RevisionMatches(releases[item.id], item.rel.revision)
  <2>1. UNCHANGED <<releases, log>>
    BY Zenon, <1>6 DEF AdvanceWave
  <2>2. call[w] \in Call /\ call' = [call EXCEPT ![w] = call[w]]
    BY Zenon, <1>1, <1>3 DEF TypeOK
  <2>3. FrameStep(w)
    BY Zenon, <1>1, <1>5 DEF FrameStep
  <2>4. QED
    BY ZenonT(30), <1>1, <1>3, <1>4, <2>1, <2>2, <2>3, QuietShape
<1>7. CASE RevisionMatches(releases[item.id], item.rel.revision)
  <2> DEFINE id  == item.id
             rel == NextWave(item.rel)
  <2>1. Write(id, rel, "wave")
    BY Zenon, <1>7 DEF AdvanceWave
  <2>2. /\ rel \in Release
        /\ rel.revision = item.rel.revision + 1
        /\ rel.idempotencyKey = item.rel.idempotencyKey
    BY Zenon, <1>2, NextWaveType
  <2>3. Stored(id) /\ releases[id] = item.rel
    BY Zenon, <1>2, <1>7 DEF CopyCurrent, RevisionMatches
  <2>4. /\ releases' \in [ReleaseID -> Release \cup {NoRelease}]
        /\ log' \in [ReleaseID -> Seq(LogEntry)]
        /\ releases'[id] = rel
        /\ log'[id] = Append(log[id], [op |-> "wave", state |-> rel.state])
        /\ \A other \in ReleaseID \ {id} : /\ releases'[other] = releases[other]
                                           /\ log'[other] = log[other]
    BY Zenon, <1>1, <1>2, <2>1, <2>2, WriteType
  <2> HIDE DEF rel
  <2>5. TypeOK'
    BY Zenon, <1>1, <1>3, <1>4, <2>4 DEF TypeOK
  <2>6. Writes(id)
    BY ZenonT(30), <1>2, <1>3, <2>2, <2>3, <2>4 DEF Writes
  <2>7. OneWrite
    BY Zenon, <1>2, <2>4, <2>6 DEF OneWrite
  <2>8. OneMoves /\ AuditStep /\ \A q \in Procs : FrameStep(q)
    BY Zenon, <1>3, <1>5 DEF OneMoves, AuditStep, FrameStep
  <2>9. QED
    BY Zenon, <1>3, <1>4, <2>5, <2>7, <2>8 DEF StepShape
<1>8. QED
  BY Zenon, <1>6, <1>7

\* Every step of the service has that shape.
LEMMA NextShape ==
  ASSUME IndInv, [Next]_vars
  PROVE  StepShape
<1>1. CASE UNCHANGED vars
  BY Zenon, <1>1 DEF vars, IndInv, TypeOK, StepShape, FrameStep, Same, OneMoves,
              OneWrite, PageStep, AuditStep
<1>2. ASSUME NEW p \in Clients, Request(p)
      PROVE  StepShape
  BY Zenon, <1>2, CreateReleaseShape, TransitionReleaseShape, RetryReleaseShape,
     AssessShape DEF Request
<1>3. ASSUME NEW p \in Clients, Serve(p)
      PROVE  StepShape
  BY Zenon, <1>3, CheckRefShape, RepositoryCreateShape, ReadAgainShape,
     GateTransitionShape DEF Serve
<1>4. ASSUME NEW w \in Workers, Work(w)
      PROVE  StepShape
  BY Zenon, <1>4, ListReleasesShape, AdvanceReleaseShape, AdvanceWaveShape,
     SkipReleaseShape DEF Work
<1>5. ASSUME NEW p \in Procs, Finish(p)
      PROVE  StepShape
  BY Zenon, <1>5, UpdateShape, AuditShape, ReturnShape DEF Finish
<1>6. QED
  BY Zenon, <1>1, <1>2, <1>3, <1>4, <1>5 DEF Next
-----------------------------------------------------------------------------
(***************************************************************************)
(* Every conjunct of the invariant survives a step of that shape.          *)
(***************************************************************************)

\* A record is left alone or written once.
LEMMA RecordSteps ==
  ASSUME StepShape, NEW id \in ReleaseID
  PROVE  RecordStep(id)
  BY Zenon DEF StepShape, OneWrite, RecordStep

\* The history of a release only grows, by what is written.
LEMMA LogGrows ==
  ASSUME TypeOK, NEW id \in ReleaseID, RecordStep(id)
  PROVE  /\ log[id] \in Seq(LogEntry)
         /\ Len(log[id]) \in Nat
         /\ \A n \in 1 .. Len(log[id]) : log'[id][n] = log[id][n]
         /\ \/ releases'[id] = releases[id] /\ log'[id] = log[id]
            \/ /\ Writes(id)
               /\ Len(log'[id]) = Len(log[id]) + 1
               /\ log'[id][Len(log[id]) + 1].state = releases'[id].state
<1>1. log[id] \in Seq(LogEntry) /\ Len(log[id]) \in Nat
  BY Zenon, LenProperties DEF TypeOK
<1>2. CASE releases'[id] = releases[id] /\ log'[id] = log[id]
  BY Zenon, <1>1, <1>2
<1>3. CASE Writes(id)
  <2>1. PICK op \in Op \cup {"wave"} :
          log'[id] = Append(log[id], [op |-> op, state |-> releases'[id].state])
    BY ZenonT(30), <1>3 DEF Writes
  <2>2. [op |-> op, state |-> releases'[id].state] \in LogEntry
    BY Zenon, <1>3 DEF Writes, LogEntry, Release
  <2>3. QED
    BY SMTT(30), <1>1, <1>3, <2>1, <2>2, AppendProperties
<1>4. QED
  BY Zenon, <1>2, <1>3 DEF RecordStep

\* A copy that matched the table stays behind it or matches it.
LEMMA CopyKept ==
  ASSUME TypeOK, NEW id \in ReleaseID, RecordStep(id),
         NEW copy \in Release, CopyCurrent(copy, id)
  PROVE  CopyCurrent(copy, id)'
<1>1. Stored(id) /\ releases[id] \in Release /\ copy.revision <= releases[id].revision
  BY Zenon DEF CopyCurrent, TypeOK, Stored
<1>2. releases[id].revision \in Nat /\ copy.revision \in Nat
  BY Zenon, <1>1 DEF Release
<1>3. CASE releases'[id] = releases[id]
  BY Zenon, <1>3 DEF CopyCurrent, Stored
<1>4. CASE Writes(id)
  <2>1. releases'[id] \in Release /\ releases'[id].revision = releases[id].revision + 1
    BY Zenon, <1>1, <1>4 DEF Writes
  <2>2. releases'[id] # NoRelease
    BY Zenon, <2>1, NoReleaseAssumption
  <2>3. copy.revision < releases'[id].revision
    BY SMTT(30), <1>1, <1>2, <2>1
  <2>4. QED
    BY SMTT(30), <1>2, <2>1, <2>2, <2>3 DEF CopyCurrent, Stored, Release
<1>5. QED
  BY Zenon, <1>3, <1>4 DEF RecordStep

\* Conjunct CreatesOwnID.
LEMMA CreatesOwnIDStep ==
  ASSUME IndInv, StepShape
  PROVE  CreatesOwnID'
<1>1. TypeOK /\ CreatesOwnID /\ sequence \in Nat /\ sequence' \in Nat
  BY DEF IndInv, StepShape, TypeOK
<1>2. sequence <= sequence' /\ sequence' \in {sequence, sequence + 1}
  BY <1>1 DEF StepShape
<1>3. ASSUME NEW id \in ReleaseID, Stored(id)'
      PROVE  id <= sequence'
  <2>1. Stored(id) \/ \E p \in Procs : Creating(p) /\ call[p].id = id
    BY Zenon, <1>3, RecordSteps DEF RecordStep, Writes, Stored
  <2>2. id \in Nat /\ id <= sequence
    BY SMTT(30), <1>1, <2>1 DEF CreatesOwnID, ReleaseID
  <2>3. QED
    BY SMTT(30), <1>1, <1>2, <2>2
<1>4. ASSUME NEW p \in Procs, Creating(p)'
      PROVE  /\ call'[p].id \in 1 .. sequence'
             /\ ~ Stored(call[p].id)'
             /\ call'[p].op = "create"
             /\ call'[p].pc = "refs" => call'[p].todo # <<>>
             /\ \E d \in Drafts : Validate(d) /\ call'[p].rel = NewRelease(d)
  <2>1. Same(p) \/ Draws(p) \/ Checks(p)
    BY Zenon, <1>4 DEF StepShape, FrameStep, Creating, Leaves, Reads, Commits
  <2>2. CASE Same(p)
    <3>1. Creating(p)
      BY Zenon, <1>4, <2>2 DEF Same, Creating
    <3>2. /\ call[p].id \in 1 .. sequence
          /\ ~ Stored(call[p].id)
          /\ call[p].op = "create"
          /\ call[p].pc = "refs" => call[p].todo # <<>>
          /\ \E d \in Drafts : Validate(d) /\ call[p].rel = NewRelease(d)
      BY Zenon, <1>1, <3>1 DEF CreatesOwnID
    <3>3. call[p].id \in ReleaseID
      BY ZenonT(30), <1>1, <3>2, IssuedIDs DEF TypeOK
    <3>4. ~ Writes(call[p].id)
      <4>1. SUFFICES ASSUME Writes(call[p].id)
                     PROVE  FALSE
        BY Zenon
      <4>2. PICK q \in Procs : Creating(q) /\ call[q].id = call[p].id /\ ~ Creating(q)'
        BY ZenonT(30), <3>2, <4>1 DEF Writes
      <4>3. q = p
        BY Zenon, <1>1, <3>1, <4>2 DEF CreatesOwnID
      <4>4. QED
        BY Zenon, <1>4, <4>2, <4>3
    <3>5. releases'[call[p].id] = releases[call[p].id]
      BY Zenon, <3>3, <3>4, RecordSteps DEF RecordStep
    <3>6. call'[p].id \in 1 .. sequence'
      BY SMTT(30), <1>1, <1>2, <2>2, <3>2 DEF Same
    <3>7. QED
      BY Zenon, <2>2, <3>2, <3>5, <3>6 DEF Same, Stored
  <2>3. CASE Draws(p)
    <3>1. call'[p].id \in 1 .. sequence' /\ call'[p].id = sequence + 1
      BY <1>1, <2>3 DEF Draws
    <3>2. call'[p].id \in ReleaseID
      BY Zenon, <1>1, <3>1, IssuedIDs DEF StepShape, TypeOK
    <3>3. ~ Stored(call'[p].id)
      <4>1. ~ (sequence + 1 <= sequence)
        BY SMTT(30), <1>1
      <4>2. QED
        BY Zenon, <1>1, <3>1, <3>2, <4>1 DEF CreatesOwnID
    <3>4. QED
      BY Zenon, <2>3, <3>1, <3>3 DEF Draws, Stored
  <2>4. CASE Checks(p)
    <3>1. Creating(p)
      BY Zenon, <2>4 DEF Checks, Creating
    <3>2. /\ call[p].id \in 1 .. sequence
          /\ ~ Stored(call[p].id)
          /\ call[p].op = "create"
          /\ \E d \in Drafts : Validate(d) /\ call[p].rel = NewRelease(d)
      BY Zenon, <1>1, <3>1 DEF CreatesOwnID
    <3>3. call'[p].id \in 1 .. sequence'
      BY SMTT(30), <1>1, <1>2, <2>4, <3>2 DEF Checks
    <3>4. QED
      BY Zenon, <2>4, <3>2, <3>3 DEF Checks, Stored
  <2>5. QED
    BY Zenon, <2>1, <2>2, <2>3, <2>4
<1>5. ASSUME NEW p \in Procs, NEW q \in Procs,
             Creating(p)', Creating(q)', call'[p].id = call'[q].id, p # q, Same(q)
      PROVE  FALSE
  <2>1. Creating(q) /\ call[q].id = call'[p].id
    BY Zenon, <1>5 DEF Same, Creating
  <2>2. call[q].id \in 1 .. sequence
    BY Zenon, <1>1, <2>1 DEF CreatesOwnID
  <2>3. Same(p) \/ Draws(p) \/ Checks(p)
    BY ZenonT(30), <1>5 DEF StepShape, FrameStep, Creating, Leaves, Reads, Commits
  <2>4. ~ Draws(p)
    BY SMTT(30), <1>1, <2>1, <2>2 DEF Draws
  <2>5. Creating(p) /\ call[p].id = call[q].id
    BY Zenon, <1>5, <2>1, <2>3, <2>4 DEF Same, Checks, Creating
  <2>6. QED
    BY Zenon, <1>1, <1>5, <2>1, <2>5 DEF CreatesOwnID
<1>6. \A p, q \in Procs :
        Creating(p)' /\ Creating(q)' /\ call'[p].id = call'[q].id => p = q
  BY Zenon, <1>5 DEF StepShape, OneMoves
<1>7. QED
  BY Zenon, <1>3, <1>4, <1>6 DEF CreatesOwnID

\* Conjunct UpdatesLegal.
LEMMA UpdatesLegalStep ==
  ASSUME IndInv, StepShape
  PROVE  UpdatesLegal'
<1>1. TypeOK /\ UpdatesLegal
  BY Zenon DEF IndInv
<1>2. SUFFICES ASSUME NEW p \in Procs
      PROVE  /\ call'[p].pc \in {"assessed", "gate", "update", "audit"}
                  => call'[p].id \in ReleaseID
             /\ call'[p].pc = "update" =>
                  /\ call'[p].base \in Release
                  /\ call'[p].op \in {"transition", "retry", "gate"}
                  /\ \E to \in State, token \in Token :
                       /\ CanTransition(call'[p].base, to, token)
                       /\ call'[p].rel = Transition(call'[p].base, to, token)
  BY Zenon DEF UpdatesLegal
<1>3. FrameStep(p)
  BY Zenon DEF StepShape
<1>4. CASE Same(p)
  BY Zenon, <1>1, <1>4 DEF Same, UpdatesLegal
<1>5. CASE Reads(p)
  BY Zenon, <1>1, <1>5 DEF Reads, TypeOK, Stored
<1>6. CASE Leaves(p) \/ Draws(p) \/ Checks(p) \/ Commits(p)
  BY ZenonT(30), <1>6 DEF Leaves, Draws, Checks, Commits
<1>7. QED
  BY ZenonT(30), <1>3, <1>4, <1>5, <1>6 DEF FrameStep

\* Conjunct LogsStartEmpty.
LEMMA LogsStartEmptyStep ==
  ASSUME IndInv, StepShape
  PROVE  LogsStartEmpty'
<1>1. ASSUME NEW id \in ReleaseID, ~ Stored(id)'
      PROVE  log'[id] = <<>>
  <2>1. ~ Writes(id)
    BY Zenon, <1>1, NoReleaseAssumption DEF Writes, Stored
  <2>2. releases'[id] = releases[id] /\ log'[id] = log[id]
    BY Zenon, <2>1, RecordSteps DEF RecordStep
  <2>3. QED
    BY Zenon, <1>1, <2>2 DEF Stored, IndInv, LogsStartEmpty
<1>2. QED
  BY Zenon, <1>1 DEF LogsStartEmpty

\* Conjunct CopiesCurrent.
LEMMA CopiesCurrentStep ==
  ASSUME IndInv, StepShape
  PROVE  CopiesCurrent'
<1>1. TypeOK /\ CopiesCurrent /\ UpdatesLegal
  BY Zenon DEF IndInv
<1>2. \A id \in ReleaseID : Stored(id) => releases[id] \in Release
  BY Zenon, <1>1 DEF TypeOK, Stored
<1>3. ASSUME NEW p \in Procs, call'[p].pc = "update"
      PROVE  CopyCurrent(call[p].base, call[p].id)'
  <2>1. Same(p) \/ Reads(p)
    BY Zenon, <1>3 DEF StepShape, FrameStep, Leaves, Draws, Checks, Commits
  <2>2. CASE Same(p)
    <3>1. /\ call[p].id \in ReleaseID
          /\ call[p].base \in Release
          /\ CopyCurrent(call[p].base, call[p].id)
      BY Zenon, <1>1, <1>3, <2>2 DEF Same, UpdatesLegal, CopiesCurrent
    <3> DEFINE copy == call[p].base
               id   == call[p].id
    <3>2. RecordStep(id)
      BY Zenon, <3>1, RecordSteps
    <3>3. /\ releases'[id] # NoRelease
          /\ copy.revision <= releases'[id].revision
          /\ copy.revision = releases'[id].revision => copy = releases'[id]
      <4> HIDE DEF copy, id
      <4>1. id \in ReleaseID /\ copy \in Release /\ CopyCurrent(copy, id)
        BY Zenon, <3>1 DEF copy, id
      <4>2. QED
        BY Zenon, <1>1, <3>2, <4>1, CopyKept DEF CopyCurrent, Stored
    <3>4. QED
      BY Zenon, <2>2, <3>3 DEF Same, CopyCurrent, Stored
  <2>3. CASE Reads(p)
    <3>1. /\ call'[p].base = releases'[call'[p].id]
          /\ call'[p].base \in Release
          /\ releases'[call'[p].id] # NoRelease
      BY Zenon, <1>2, <2>3 DEF Reads, Stored
    <3>2. call'[p].base.revision \in Nat
      BY Zenon, <3>1 DEF Release
    <3>3. QED
      BY <3>1, <3>2 DEF CopyCurrent, Stored
  <2>4. QED
    BY Zenon, <2>1, <2>2, <2>3
<1>4. ASSUME NEW w \in Workers, NEW item \in listed'[w]
      PROVE  CopyCurrent(item.rel, item.id)'
  <2>1. item.id \in ReleaseID /\ item.rel \in Release
    BY DEF StepShape, TypeOK, Item
  <2>2. CASE item \in listed[w]
    <3>1. CopyCurrent(item.rel, item.id)
      BY Zenon, <1>1, <2>2 DEF CopiesCurrent
    <3>2. RecordStep(item.id)
      BY Zenon, <2>1, RecordSteps
    <3>3. QED
      BY Zenon, <1>1, <2>1, <3>1, <3>2, CopyKept
  <2>3. CASE /\ Stored(item.id)
             /\ item.rel = releases[item.id]
             /\ UNCHANGED <<releases, log>>
    <3>1. item.rel.revision \in Nat
      BY Zenon, <2>1 DEF Release
    <3>2. QED
      BY <2>3, <3>1 DEF CopyCurrent, Stored
  <2>4. QED
    BY Zenon, <2>2, <2>3 DEF StepShape, PageStep
<1>5. QED
  BY Zenon, <1>3, <1>4 DEF CopiesCurrent

\* Conjunct NoLostUpdate.
LEMMA NoLostUpdateStep ==
  ASSUME IndInv, StepShape
  PROVE  NoLostUpdate'
<1>1. TypeOK /\ NoLostUpdate /\ LogsStartEmpty
  BY Zenon DEF IndInv
<1>2. ASSUME NEW id \in ReleaseID, Stored(id)'
      PROVE  releases'[id].revision = Len(log'[id])
  <2>1. RecordStep(id)
    BY Zenon, RecordSteps
  <2>2. CASE releases'[id] = releases[id] /\ log'[id] = log[id]
    BY Zenon, <1>1, <1>2, <2>2 DEF Stored, NoLostUpdate
  <2>3. CASE Writes(id) /\ Len(log'[id]) = Len(log[id]) + 1
    <3>1. CASE Stored(id)
      BY Zenon, <1>1, <2>3, <3>1 DEF Writes, NoLostUpdate
    <3>2. CASE ~ Stored(id)
      <4>1. Len(log[id]) = 0
        BY Zenon, <1>1, <3>2, EmptySeq DEF LogsStartEmpty
      <4>2. QED
        BY <2>3, <3>2, <4>1 DEF Writes
    <3>3. QED
      BY Zenon, <3>1, <3>2
  <2>4. QED
    BY Zenon, <1>1, <2>1, <2>2, <2>3, LogGrows
<1>3. QED
  BY Zenon, <1>2 DEF NoLostUpdate

\* Conjunct OneReleasePerKey.
LEMMA OneReleasePerKeyStep ==
  ASSUME IndInv, StepShape
  PROVE  OneReleasePerKey'
<1>1. TypeOK /\ OneReleasePerKey
  BY Zenon DEF IndInv
<1>2. CASE UNCHANGED <<releases, log, idempotency>>
  BY Zenon, <1>1, <1>2 DEF OneReleasePerKey, Stored
<1>3. ASSUME NEW id \in ReleaseID, Writes(id),
             \A other \in ReleaseID \ {id} : releases'[other] = releases[other]
      PROVE  OneReleasePerKey'
  <2> DEFINE key == releases'[id].idempotencyKey
  <2>1. releases'[id] \in Release /\ key \in IdempotencyKey \cup {NoKey}
    BY ZenonT(30), <1>3 DEF Writes, Release
  <2>2. CASE Stored(id)
    BY Zenon, <1>1, <1>3, <2>2 DEF Writes, OneReleasePerKey, Stored
  <2>3. CASE ~ Stored(id)
    <3>1. ~ KeyTaken(key) /\ idempotency' = IndexKey(key, id)
      BY ZenonT(30), <1>3, <2>3 DEF Writes
    <3>2. key # NoKey => idempotency'[key] = id
      BY Zenon, <1>1, <2>1, <3>1 DEF IndexKey, TypeOK
    <3>3. ASSUME NEW other \in ReleaseID \ {id}, Stored(other),
                 releases[other].idempotencyKey # NoKey
          PROVE  idempotency'[releases[other].idempotencyKey] = other
      <4> DEFINE k == releases[other].idempotencyKey
      <4>1. k \in IdempotencyKey /\ idempotency[k] = other /\ other # 0
        BY <1>1, <3>3 DEF TypeOK, Stored, Release, OneReleasePerKey, ReleaseID
      <4>2. k # key
        BY Zenon, <3>1, <3>3, <4>1 DEF KeyTaken
      <4>3. QED
        BY Zenon, <1>1, <3>1, <4>1, <4>2 DEF IndexKey, TypeOK
    <3>4. QED
      BY Zenon, <1>3, <3>2, <3>3 DEF OneReleasePerKey, Stored
  <2>4. QED
    BY Zenon, <2>2, <2>3
<1>4. QED
  BY Zenon, <1>2, <1>3 DEF StepShape, OneWrite

\* Conjunct AuditsOwed: a commit's record is the last entry of the history.
LEMMA AuditsOwedStep ==
  ASSUME IndInv, StepShape
  PROVE  AuditsOwed'
<1>1. TypeOK /\ AuditsOwed /\ UpdatesLegal
  BY Zenon DEF IndInv
<1>2. ASSUME NEW p \in Procs, call'[p].pc = "audit"
      PROVE  /\ call'[p].rel \in Release
             /\ call'[p].rel.revision \in 1 .. Len(log'[call'[p].id])
             /\ log'[call'[p].id][call'[p].rel.revision].state = call'[p].rel.state
  <2>1. Same(p) \/ Commits(p)
    BY ZenonT(30), <1>2 DEF StepShape, FrameStep, Leaves, Reads, Draws, Checks
  <2>2. CASE Same(p)
    <3>1. /\ call[p].id \in ReleaseID
          /\ call[p].rel \in Release
          /\ call[p].rel.revision \in 1 .. Len(log[call[p].id])
          /\ log[call[p].id][call[p].rel.revision].state = call[p].rel.state
      BY ZenonT(30), <1>1, <1>2, <2>2 DEF Same, AuditsOwed, UpdatesLegal
    <3>2. RecordStep(call[p].id)
      BY Zenon, <3>1, RecordSteps
    <3>3. /\ Len(log[call[p].id]) \in Nat
          /\ \A n \in 1 .. Len(log[call[p].id]) :
               log'[call[p].id][n] = log[call[p].id][n]
          /\ \/ log'[call[p].id] = log[call[p].id]
             \/ Len(log'[call[p].id]) = Len(log[call[p].id]) + 1
      BY ZenonT(30), <1>1, <3>1, <3>2, LogGrows
    <3>4. call[p].rel.revision \in 1 .. Len(log'[call[p].id])
      <4> DEFINE m == Len(log[call[p].id])
                 n == Len(log'[call[p].id])
                 k == call[p].rel.revision
      <4>1. m \in Nat /\ (n = m \/ n = m + 1) /\ k \in 1 .. m
        BY Zenon, <3>1, <3>3
      <4> HIDE DEF m, n, k
      <4>2. k \in 1 .. n
        BY <4>1
      <4> QED BY Zenon, <4>2 DEF k, n
    <3>5. QED
      BY ZenonT(30), <2>2, <3>1, <3>3, <3>4 DEF Same
  <2>3. CASE Commits(p)
    <3> DEFINE id  == call[p].id
               rel == call[p].rel
    <3>1. /\ id \in ReleaseID
          /\ rel \in Release
          /\ releases'[id] = rel
          /\ call'[p].id = id
          /\ call'[p].rel = rel
      BY Zenon, <2>3 DEF Commits
    <3>2. PICK op \in Op \cup {"wave"} :
            log'[id] = Append(log[id], [op |-> op, state |-> rel.state])
      BY ZenonT(30), <2>3 DEF Commits
    <3>3. log[id] \in Seq(LogEntry) /\ [op |-> op, state |-> rel.state] \in LogEntry
      BY ZenonT(30), <1>1, <3>1 DEF TypeOK, LogEntry, Release
    <3>4. /\ Len(log'[id]) = Len(log[id]) + 1
          /\ log'[id][Len(log[id]) + 1] = [op |-> op, state |-> rel.state]
          /\ Len(log[id]) \in Nat
      BY <3>2, <3>3, AppendProperties, LenProperties
    <3>5. rel.revision = Len(log'[id])
      BY Zenon, <3>1, NoReleaseAssumption, NoLostUpdateStep DEF NoLostUpdate, Stored
    <3>6. QED
      BY SMTT(30), <3>1, <3>4, <3>5
  <2>4. QED
    BY Zenon, <2>1, <2>2, <2>3
<1>3. QED
  BY Zenon, <1>2 DEF AuditsOwed

\* Conjunct AuditTrail.
LEMMA AuditTrailStep ==
  ASSUME IndInv, StepShape
  PROVE  AuditTrail'
<1>1. TypeOK /\ AuditTrail /\ AuditsOwed /\ UpdatesLegal
  BY Zenon DEF IndInv
<1>2. \A id \in ReleaseID :
        /\ Len(log[id]) \in Nat
        /\ \A n \in 1 .. Len(log[id]) : log'[id][n] = log[id][n]
        /\ log'[id] = log[id] \/ Len(log'[id]) = Len(log[id]) + 1
  BY Zenon, <1>1, RecordSteps, LogGrows
<1>3. audits \subseteq audits'
  BY Zenon DEF StepShape, AuditStep
<1>4. ASSUME NEW id \in ReleaseID, NEW n \in 1 .. Len(log[id]), AuditDue(id, n)
      PROVE  AuditDue(id, n)'
  <2>1. log'[id][n] = log[id][n]
    BY Zenon, <1>2
  <2>2. CASE [id |-> id, revision |-> n, state |-> log[id][n].state] \in audits
    BY Zenon, <1>3, <2>1, <2>2 DEF AuditDue
  <2>3. ASSUME NEW p \in Procs, call[p].pc = "audit", call[p].id = id,
               call[p].rel.revision = n
        PROVE  AuditDue(id, n)'
    <3>1. CASE Same(p)
      BY Zenon, <2>3, <3>1 DEF Same, AuditDue
    <3>2. CASE ~ Same(p)
      <4>1. audits' = audits \cup {AuditOf(id, call[p].rel)}
        BY Zenon, <2>3, <3>2 DEF StepShape, AuditStep
      <4>2. call[p].rel.state = log[id][n].state
        BY Zenon, <1>1, <2>3 DEF AuditsOwed
      <4>3. AuditOf(id, call[p].rel)
              = [id |-> id, revision |-> n, state |-> log'[id][n].state]
        BY Zenon, <2>1, <2>3, <4>2 DEF AuditOf
      <4>4. QED
        BY Zenon, <4>1, <4>3 DEF AuditDue
    <3>3. QED
      BY Zenon, <3>1, <3>2
  <2>4. QED
    BY Zenon, <1>4, <2>2, <2>3 DEF AuditDue
<1>5. ASSUME NEW id \in ReleaseID, NEW n \in 1 .. Len(log'[id]),
             log'[id][n].op \in {"create", "transition", "gate"}
      PROVE  AuditDue(id, n)'
  <2>1. CASE n \in 1 .. Len(log[id])
    BY Zenon, <1>1, <1>2, <1>4, <1>5, <2>1 DEF AuditTrail
  <2>2. CASE n \notin 1 .. Len(log[id])
    <3>1. n = Len(log[id]) + 1 /\ n = Len(log'[id]) /\ log'[id] # log[id]
      BY <1>2, <2>2
    <3>2. Writes(id)
      BY Zenon, <3>1, RecordSteps DEF RecordStep
    <3>3. PICK op \in Op \cup {"wave"} :
            /\ log'[id] = Append(log[id], [op |-> op, state |-> releases'[id].state])
            /\ op \in {"wave", "retry"} \/ \E p \in Procs : Commits(p) /\ call[p].id = id
      BY Zenon, <3>2 DEF Writes
    <3>4. log'[id][n].op = op
      <4>1. [op |-> op, state |-> releases'[id].state] \in LogEntry
        BY Zenon, <3>2 DEF Writes, LogEntry, Release
      <4>2. log[id] \in Seq(LogEntry)
        BY Zenon, <1>1 DEF TypeOK
      <4>3. QED
        BY SMTT(30), <3>1, <3>3, <4>1, <4>2, AppendProperties
    <3>5. PICK p \in Procs : Commits(p) /\ call[p].id = id
      BY Zenon, <1>5, <3>3, <3>4
    <3>6. /\ call'[p].pc = "audit"
          /\ call'[p].id = id
          /\ call'[p].rel = releases'[id]
          /\ releases'[id] \in Release
      BY Zenon, <3>5 DEF Commits
    <3>7. releases'[id].revision = n
      BY Zenon, <3>1, <3>6, NoReleaseAssumption, NoLostUpdateStep DEF NoLostUpdate, Stored
    <3>8. QED
      BY Zenon, <3>6, <3>7 DEF AuditDue
  <2>3. QED
    BY Zenon, <2>1, <2>2
<1>6. ASSUME NEW a \in audits'
      PROVE  /\ a.revision \in 1 .. Len(log'[a.id])
             /\ a.state = log'[a.id][a.revision].state
  <2>1. /\ a.id \in ReleaseID
        /\ a.revision \in 1 .. Len(log[a.id])
        /\ a.state = log[a.id][a.revision].state
    <3>1. CASE a \in audits
      BY Zenon, <1>1, <3>1 DEF AuditTrail, TypeOK, AuditRecord
    <3>2. ASSUME NEW p \in Procs, call[p].pc = "audit", a = AuditOf(call[p].id, call[p].rel)
          PROVE  /\ a.id \in ReleaseID
                 /\ a.revision \in 1 .. Len(log[a.id])
                 /\ a.state = log[a.id][a.revision].state
      BY ZenonT(30), <1>1, <3>2 DEF AuditOf, AuditsOwed, UpdatesLegal
    <3>3. QED
      BY Zenon, <3>1, <3>2 DEF StepShape, AuditStep
  <2>2. QED
    BY SMTT(30), <1>2, <2>1
<1>7. QED
  BY Zenon, <1>5, <1>6 DEF AuditTrail
-----------------------------------------------------------------------------
\* The invariant holds before anybody has called the service.
LEMMA InitIndInv ==
  ASSUME Init
  PROVE  IndInv
<1>1. TypeOK
  BY IdleType, ServiceAssumption DEF Init, TypeOK, LogEntry
<1>2. \A p \in Procs : call[p].pc = "idle"
  BY Zenon, IdleType DEF Init
<1>3. \A id \in ReleaseID : ~ Stored(id) /\ log[id] = <<>>
  BY Zenon DEF Init, Stored
<1>4. CreatesOwnID /\ UpdatesLegal /\ AuditsOwed
  BY ZenonT(30), <1>2, <1>3 DEF CreatesOwnID, Creating, UpdatesLegal, AuditsOwed
<1>5. CopiesCurrent
  BY Zenon, <1>2 DEF CopiesCurrent, Init
<1>6. LogsStartEmpty /\ NoLostUpdate /\ OneReleasePerKey
  BY Zenon, <1>3 DEF LogsStartEmpty, NoLostUpdate, OneReleasePerKey
<1>7. AuditTrail
  BY <1>3 DEF AuditTrail, Init
<1>8. QED
  BY Zenon, <1>1, <1>4, <1>5, <1>6, <1>7 DEF IndInv

\* It is inductive.
LEMMA NextIndInv ==
  ASSUME IndInv, [Next]_vars
  PROVE  IndInv'
<1>1. StepShape
  BY Zenon, NextShape
<1>2. TypeOK'
  BY Zenon, <1>1 DEF StepShape
<1>3. QED
  BY Zenon, <1>1, <1>2, CreatesOwnIDStep, UpdatesLegalStep, AuditsOwedStep,
     LogsStartEmptyStep, CopiesCurrentStep, NoLostUpdateStep, AuditTrailStep,
     OneReleasePerKeyStep DEF IndInv

\* The service keeps its invariant, whatever its callers and workers do.
THEOREM Invariance == Spec => []IndInv
  BY InitIndInv, NextIndInv, PTL DEF Spec

\* Every variable keeps its type.
THEOREM TypeCorrect == Spec => []TypeOK
  BY Invariance, PTL DEF IndInv

\* In Update, comparing revisions is as good as comparing records.
THEOREM RevisionsIdentifyRecords == Spec => []CopiesCurrent
  BY Invariance, PTL DEF IndInv

\* No write of a release overwrites one its writer has not seen.
THEOREM WritesAreNotLost == Spec => []NoLostUpdate
  BY Invariance, PTL DEF IndInv

\* What CreateRelease and TransitionRelease write is audited as written.
THEOREM WritesAreAudited == Spec => []AuditTrail
  BY Invariance, PTL DEF IndInv

\* Racing creates with one idempotency key leave one release.
THEOREM CreatesAreIdempotent == Spec => []OneReleasePerKey
  BY Invariance, PTL DEF IndInv
-----------------------------------------------------------------------------
(***************************************************************************)
(* Refinement: each write of the table is one atomic step of               *)
(* ReleaseLifecycle, taken from the record stored at that moment.          *)
(***************************************************************************)

\* The instance of the abstract module has its own copy of the domain.
LEMMA SameDomain ==
  /\ Lifecycle!State = State
  /\ Lifecycle!Token = Token
  /\ Lifecycle!Running = Running
  /\ \A d : Lifecycle!Validate(d) = Validate(d)
  /\ \A d : Lifecycle!NewRelease(d) = NewRelease(d)
  /\ \A r : Lifecycle!NextWave(r) = NextWave(r)
  /\ \A r : Lifecycle!HasNextWave(r) = HasNextWave(r)
  /\ \A r, to, token :
       /\ Lifecycle!CanTransition(r, to, token) = CanTransition(r, to, token)
       /\ Lifecycle!Transition(r, to, token) = Transition(r, to, token)
<1>1. /\ Lifecycle!State = State
      /\ Lifecycle!Token = Token
      /\ Lifecycle!Running = Running
  BY Zenon DEF Lifecycle!State, State, Lifecycle!Token, Token,
         Lifecycle!Pending, Lifecycle!Running, Lifecycle!Paused,
         Lifecycle!Succeeded, Lifecycle!Failed, Lifecycle!RolledBack,
         Lifecycle!Cancelled, Lifecycle!Retrying,
         Pending, Running, Paused, Succeeded, Failed, RolledBack, Cancelled,
         Retrying
<1>2. \A d : Lifecycle!Validate(d) = Validate(d)
  BY Zenon DEF Lifecycle!Validate, Validate, Lifecycle!ValidWave, ValidWave,
         Lifecycle!TotalPercentage, TotalPercentage
<1>3. \A d : Lifecycle!NewRelease(d) = NewRelease(d)
  BY Zenon DEF Lifecycle!NewRelease, NewRelease, Lifecycle!Pending, Pending
<1>4. \A r : Lifecycle!NextWave(r) = NextWave(r)
  BY Zenon DEF Lifecycle!NextWave, NextWave
<1>5. \A r : Lifecycle!HasNextWave(r) = HasNextWave(r)
  BY Zenon DEF Lifecycle!HasNextWave, HasNextWave
<1>6. \A r, to, token : Lifecycle!Transition(r, to, token) = Transition(r, to, token)
  BY Zenon DEF Lifecycle!Transition, Transition
<1>7. Lifecycle!Allowed = Allowed
  BY Zenon, <1>1 DEF Lifecycle!Allowed, Allowed,
         Lifecycle!Pending, Lifecycle!Running, Lifecycle!Paused,
         Lifecycle!Succeeded, Lifecycle!Failed, Lifecycle!RolledBack,
         Lifecycle!Cancelled, Lifecycle!Retrying,
         Pending, Running, Paused, Succeeded, Failed, RolledBack, Cancelled,
         Retrying
<1>8. \A r, to, token :
        Lifecycle!CanTransition(r, to, token) = CanTransition(r, to, token)
  BY Zenon, <1>7 DEF Lifecycle!CanTransition, CanTransition, Lifecycle!Fresh, Fresh,
              Lifecycle!Can, Can
<1>9. QED
  BY Zenon, <1>1, <1>2, <1>3, <1>4, <1>5, <1>6, <1>8

\* Create writes a valid draft under a key no stored release has.
LEMMA RepositoryCreateRefines ==
  ASSUME IndInv, NEW p \in Clients, RepositoryCreate(p)
  PROVE  [Lifecycle!Next]_releases
<1> DEFINE id  == call[p].id
           rel == call[p].rel
<1>1. TypeOK /\ OneReleasePerKey /\ p \in Procs /\ call[p].pc = "create"
  BY Zenon DEF IndInv, Procs, RepositoryCreate
<1>2. CASE UNCHANGED releases
  BY Zenon, <1>2
<1>3. CASE /\ ~ KeyTaken(rel.idempotencyKey)
           /\ ~ Stored(id)
           /\ Write(id, rel, "create")
  <2>1. PICK d \in Drafts : Validate(d) /\ rel = NewRelease(d)
    BY Zenon, <1>1 DEF IndInv, CreatesOwnID, Creating
  <2>2. id \in 1 .. sequence /\ sequence \in 0 .. MaxReleases
    BY Zenon, <1>1 DEF IndInv, CreatesOwnID, Creating, TypeOK
  <2>3. id \in ReleaseID
    BY Zenon, <2>2, IssuedIDs
  <2>4. rel.idempotencyKey = d.idempotencyKey
    BY Zenon, <2>1, NewReleaseType
  <2>5. Lifecycle!KeyUnused(d.idempotencyKey)
    <3>1. SUFFICES ASSUME d.idempotencyKey # NoKey, NEW other \in ReleaseID,
                          Stored(other),
                          releases[other].idempotencyKey = d.idempotencyKey
                   PROVE  FALSE
      BY Zenon DEF Lifecycle!KeyUnused, Lifecycle!Stored, Stored
    <3>2. idempotency[d.idempotencyKey] = other
      BY Zenon, <1>1, <3>1 DEF OneReleasePerKey
    <3>3. other # 0
      BY SMTT(30) DEF ReleaseID
    <3>4. QED
      BY Zenon, <1>3, <2>4, <3>1, <3>2, <3>3 DEF KeyTaken
  <2>6. Lifecycle!Create(id, d)
    BY ZenonT(30), <1>3, <2>1, <2>5, SameDomain DEF Lifecycle!Create, Lifecycle!Stored, Stored, Write
  <2>7. QED
    BY Zenon, <2>3, <2>6 DEF Lifecycle!Next
<1>4. QED
  BY Zenon, <1>2, <1>3 DEF RepositoryCreate

\* Update writes a fenced transition of the stored record.
LEMMA UpdateRefines ==
  ASSUME IndInv, NEW p \in Procs, Update(p)
  PROVE  [Lifecycle!Next]_releases
<1>1. call[p].pc = "update" /\ call[p].id \in ReleaseID
  BY ZenonT(30) DEF IndInv, UpdatesLegal, Update
<1>2. CASE UNCHANGED releases
  BY Zenon, <1>2
<1>3. CASE /\ RevisionMatches(releases[call[p].id], call[p].base.revision)
           /\ Write(call[p].id, call[p].rel, call[p].op)
  <2>1. Stored(call[p].id) /\ releases[call[p].id] = call[p].base
    BY ZenonT(30), <1>1, <1>3 DEF IndInv, CopiesCurrent, CopyCurrent, RevisionMatches
  <2>2. PICK to \in State, token \in Token :
          /\ CanTransition(call[p].base, to, token)
          /\ call[p].rel = Transition(call[p].base, to, token)
    BY Zenon, <1>1 DEF IndInv, UpdatesLegal
  <2>3. Lifecycle!Move(call[p].id, to, token)
    BY ZenonT(30), <1>3, <2>1, <2>2, SameDomain DEF Lifecycle!Move, Lifecycle!Stored, Stored, Write
  <2>4. QED
    BY ZenonT(30), <1>1, <2>3, SameDomain DEF Lifecycle!Next
<1>4. QED
  BY Zenon, <1>2, <1>3 DEF Update

\* The wave step writes the next wave of the stored record.
LEMMA AdvanceWaveRefines ==
  ASSUME IndInv, NEW w \in Workers, NEW item \in listed[w], AdvanceWave(w, item)
  PROVE  [Lifecycle!Next]_releases
<1>1. item.id \in ReleaseID /\ CopyCurrent(item.rel, item.id)
  BY SMTT(30) DEF IndInv, TypeOK, Item, CopiesCurrent
<1>2. CASE UNCHANGED releases
  BY Zenon, <1>2
<1>3. CASE /\ RevisionMatches(releases[item.id], item.rel.revision)
           /\ Write(item.id, NextWave(item.rel), "wave")
  <2>1. Stored(item.id) /\ releases[item.id] = item.rel
    BY Zenon, <1>1, <1>3 DEF CopyCurrent, RevisionMatches
  <2>2. Lifecycle!Advance(item.id)
    BY ZenonT(30), <1>3, <2>1, SameDomain DEF AdvanceWave, WaveDue, Lifecycle!Advance, Lifecycle!Stored,
                      Stored, Write
  <2>3. QED
    BY Zenon, <1>1, <2>2 DEF Lifecycle!Next
<1>4. QED
  BY ZenonT(30), <1>2, <1>3 DEF AdvanceWave

\* The other steps leave the table alone.
LEMMA NextRefines ==
  ASSUME IndInv, [Next]_vars
  PROVE  [Lifecycle!Next]_releases
<1>1. CASE UNCHANGED vars
  BY Zenon, <1>1 DEF vars
<1>2. ASSUME NEW p \in Clients, Request(p)
      PROVE  UNCHANGED releases
  BY ZenonT(30), <1>2 DEF Request, CreateRelease, TransitionRelease, RetryRelease,
              AssessReleaseHealth
<1>3. ASSUME NEW p \in Clients, Serve(p)
      PROVE  [Lifecycle!Next]_releases
  <2>1. RepositoryCreate(p) \/ UNCHANGED releases
    BY Zenon, <1>3 DEF Serve, CheckRef, ReadAgain, GateTransition
  <2>2. QED
    BY Zenon, <2>1, RepositoryCreateRefines
<1>4. ASSUME NEW w \in Workers, Work(w)
      PROVE  [Lifecycle!Next]_releases
  <2>1. (\E item \in listed[w] : AdvanceWave(w, item)) \/ UNCHANGED releases
    BY Zenon, <1>4 DEF Work, ListReleases, AdvanceRelease, SkipRelease
  <2>2. QED
    BY Zenon, <2>1, AdvanceWaveRefines
<1>5. ASSUME NEW p \in Procs, Finish(p)
      PROVE  [Lifecycle!Next]_releases
  <2>1. Update(p) \/ UNCHANGED releases
    BY Zenon, <1>5 DEF Finish, Audit, Return
  <2>2. QED
    BY Zenon, <2>1, UpdateRefines
<1>6. QED
  BY Zenon, <1>1, <1>2, <1>3, <1>4, <1>5 DEF Next

\* The service implements the atomic release table.
THEOREM Refinement == Spec => LifecycleSpec
<1>1. Init => Lifecycle!Init
  BY Zenon DEF Init, Lifecycle!Init
<1>2. QED
  BY <1>1, Invariance, NextRefines, PTL DEF Spec, LifecycleSpec, Lifecycle!Spec

\* A step that changes the state of a stored release raises its token.
LEMMA LifecycleFenced ==
  ASSUME TypeOK, [Lifecycle!Next]_releases, NEW id \in ReleaseID, Stored(id),
         releases'[id].state # releases[id].state
  PROVE  releases'[id].fencingToken > releases[id].fencingToken
<1>1. Lifecycle!Next /\ releases[id] \in Release
  BY Zenon DEF TypeOK, Stored
<1>2. PICK other \in ReleaseID :
        \/ \E d \in Drafts : Lifecycle!Create(other, d)
        \/ \E to \in State, token \in Token : Lifecycle!Move(other, to, token)
        \/ Lifecycle!Advance(other)
  BY Zenon, <1>1, SameDomain DEF Lifecycle!Next
<1>3. other = id
  BY Zenon, <1>2 DEF Lifecycle!Create, Lifecycle!Move, Lifecycle!Advance, TypeOK
<1>4. CASE \E d \in Drafts : Lifecycle!Create(id, d)
  BY Zenon, <1>4 DEF Lifecycle!Create, Lifecycle!Stored, Stored
<1>5. ASSUME NEW to \in State, NEW token \in Token, Lifecycle!Move(id, to, token)
      PROVE  releases'[id].fencingToken > releases[id].fencingToken
  <2>1. releases'[id] = Transition(releases[id], to, token)
    BY Zenon, <1>5, SameDomain DEF Lifecycle!Move, TypeOK
  <2>2. token > releases[id].fencingToken
    BY ZenonT(30), <1>5, SameDomain DEF Lifecycle!Move, CanTransition, Fresh
  <2>3. QED
    BY SMTT(30), <1>1, <2>1, <2>2, TransitionType
<1>6. CASE Lifecycle!Advance(id)
  <2>1. releases'[id] = NextWave(releases[id])
    BY Zenon, <1>6, SameDomain DEF Lifecycle!Advance, TypeOK
  <2>2. QED
    BY Zenon, <1>1, <2>1, NextWaveType
<1>7. QED
  BY ZenonT(30), <1>2, <1>3, <1>4, <1>5, <1>6

\* Whoever moves a release to another state raises its fencing token.
THEOREM Fencing == Spec => FencedTransitions
<1>1. ASSUME IndInv, [Next]_vars
      PROVE  [\A id \in ReleaseID :
                Stored(id) /\ releases'[id].state # releases[id].state
                  => releases'[id].fencingToken > releases[id].fencingToken]_releases
  <2>1. TypeOK /\ [Lifecycle!Next]_releases
    BY Zenon, <1>1, NextRefines DEF IndInv
  <2>2. QED
    BY Zenon, <2>1, LifecycleFenced
<1>2. QED
  BY <1>1, Invariance, PTL DEF Spec, FencedTransitions
-----------------------------------------------------------------------------
(***************************************************************************)
(* A worker of AdvanceReleases never moves a release from a stale page.    *)
(* The argument: tokens only grow, a state changes only together with its  *)
(* token, and the worker presents the listed token plus one.  So if its    *)
(* transition is accepted, the stored token is still the listed one, hence *)
(* so is the state; and if its write succeeds, nothing was written since.  *)
(***************************************************************************)

\* Over one step, a stored release stays, makes a fenced transition or goes on
\* to its next wave.
LEMMA StoredMoves ==
  ASSUME TypeOK, [Lifecycle!Next]_releases, NEW id \in ReleaseID, Stored(id)
  PROVE  \/ releases'[id] = releases[id]
         \/ \E to \in State, token \in Token :
              /\ releases'[id] = Transition(releases[id], to, token)
              /\ token > releases[id].fencingToken
         \/ releases'[id] = NextWave(releases[id])
<1>1. SUFFICES ASSUME Lifecycle!Next, releases'[id] # releases[id]
      PROVE  \/ \E to \in State, token \in Token :
                  /\ releases'[id] = Transition(releases[id], to, token)
                  /\ token > releases[id].fencingToken
             \/ releases'[id] = NextWave(releases[id])
  BY Zenon
<1>2. PICK other \in ReleaseID :
        \/ \E d \in Drafts : Lifecycle!Create(other, d)
        \/ \E to \in State, token \in Token : Lifecycle!Move(other, to, token)
        \/ Lifecycle!Advance(other)
  BY Zenon, <1>1, SameDomain DEF Lifecycle!Next
<1>3. other = id
  BY Zenon, <1>1, <1>2 DEF Lifecycle!Create, Lifecycle!Move, Lifecycle!Advance, TypeOK
<1>4. CASE \E d \in Drafts : Lifecycle!Create(id, d)
  BY Zenon, <1>4 DEF Lifecycle!Create, Lifecycle!Stored, Stored
<1>5. CASE \E to \in State, token \in Token : Lifecycle!Move(id, to, token)
  BY ZenonT(30), <1>5, SameDomain DEF Lifecycle!Move, CanTransition, Fresh, TypeOK
<1>6. CASE Lifecycle!Advance(id)
  BY Zenon, <1>6, SameDomain DEF Lifecycle!Advance, TypeOK
<1>7. QED
  BY Zenon, <1>2, <1>3, <1>4, <1>5, <1>6

\* So its token never falls, and with an unchanged token goes an unchanged
\* state.
LEMMA TokensGrow ==
  ASSUME TypeOK, [Lifecycle!Next]_releases, NEW id \in ReleaseID, Stored(id)
  PROVE  /\ releases[id].fencingToken \in Int
         /\ releases'[id].fencingToken \in Int
         /\ releases[id].fencingToken <= releases'[id].fencingToken
         /\ releases[id].fencingToken = releases'[id].fencingToken
              => releases[id].state = releases'[id].state
<1>1. releases[id] \in Release
  BY Zenon DEF TypeOK, Stored
<1>2. releases[id].fencingToken \in Int
  BY <1>1, TokenAssumption DEF Release, Token
<1>3. CASE releases'[id] = releases[id]
  BY <1>2, <1>3
<1>4. ASSUME NEW to \in State, NEW token \in Token,
             releases'[id] = Transition(releases[id], to, token),
             token > releases[id].fencingToken
      PROVE  /\ releases'[id].fencingToken \in Int
             /\ releases[id].fencingToken < releases'[id].fencingToken
  BY <1>1, <1>2, <1>4, TransitionType, TokenAssumption DEF Token
<1>5. CASE releases'[id] = NextWave(releases[id])
  BY <1>1, <1>2, <1>5, NextWaveType
<1>6. QED
  BY <1>2, <1>3, <1>4, <1>5, StoredMoves

\* A token whose successor beats the stored one is not behind it.
LEMMA NextTokenBeats ==
  ASSUME NEW r \in Release, NEW stored \in Release,
         r.fencingToken <= stored.fencingToken,
         NextToken(r) > stored.fencingToken
  PROVE  r.fencingToken = stored.fencingToken
  BY TokenAssumption DEF NextToken, Release, Token
-----------------------------------------------------------------------------
\* What one step does to the page and the frame of a worker.
Keeps(w) == call'[w] = call[w] /\ listed'[w] \subseteq listed[w]

Lists(w) == /\ call[w].pc = "idle"
            /\ call'[w] = call[w]
            /\ listed'[w] = FirstPage
            /\ UNCHANGED releases

Drops(w) == call'[w].pc # "update" /\ listed'[w] \subseteq listed[w]

Starts(w) == /\ listed'[w] = listed[w]
             /\ UNCHANGED releases
             /\ \E item \in listed[w] :
                  /\ Accepts(item.id, Running, NextToken(item.rel))
                       \/ Accepts(item.id, Succeeded, NextToken(item.rel))
                  /\ call'[w].id = item.id
                  /\ call'[w].base = releases[item.id]

WorkerStep(w) == Keeps(w) \/ Lists(w) \/ Drops(w) \/ Starts(w)

\* Leaving a call only shortens pages.
LEMMA AbandonWorkers ==
  ASSUME TypeOK, NEW p \in Procs, NEW id, Abandon(p, id), NEW w \in Workers
  PROVE  WorkerStep(w)
<1>1. listed'[w] \subseteq listed[w]
  BY Zenon DEF TypeOK, Abandon, Proceed
<1>2. CASE w = p
  BY Zenon, <1>1, <1>2, IdleType DEF Abandon, TypeOK, WorkerStep, Drops
<1>3. CASE w # p
  BY Zenon, <1>1, <1>3 DEF Abandon, TypeOK, Procs, WorkerStep, Keeps
<1>4. QED
  BY Zenon, <1>2, <1>3

\* The clients' own steps touch no worker.
LEMMA ClientsTouchNoWorker ==
  ASSUME TypeOK, NEW p \in Clients, Request(p) \/ Serve(p), NEW w \in Workers
  PROVE  WorkerStep(w)
<1>1. w # p /\ w \in Procs
  BY Zenon, ServiceAssumption DEF Procs
<1>2. UNCHANGED listed
  BY ZenonT(30) DEF Request, CreateRelease, TransitionRelease, RetryRelease,
         AssessReleaseHealth, Serve, CheckRef, RepositoryCreate, ReadAgain,
         GateTransition
<1>3. \E c : call' = [call EXCEPT ![p] = c]
  <2>1. CASE Request(p)
    BY ZenonT(30), <2>1 DEF Request, CreateRelease, TransitionRelease, RetryRelease,
                AssessReleaseHealth
  <2>2. CASE Serve(p)
    BY Zenon, <2>2 DEF Serve, CheckRef, RepositoryCreate, ReadAgain, GateTransition
  <2>3. QED
    BY Zenon, <2>1, <2>2
<1>4. QED
  BY Zenon, <1>1, <1>2, <1>3 DEF TypeOK, WorkerStep, Keeps

\* The steps that finish a call, a client's or a worker's.
LEMMA FinishWorkers ==
  ASSUME TypeOK, NEW p \in Procs, Finish(p), NEW w \in Workers
  PROVE  WorkerStep(w)
<1>1. CASE \E id : Abandon(p, id)
  BY Zenon, <1>1, AbandonWorkers
<1>2. CASE call' = [call EXCEPT ![p] = Committed(p)] /\ UNCHANGED listed
  <2>1. Committed(p).pc # "update"
    BY Zenon, CommittedType
  <2>2. QED
    BY Zenon, <1>2, <2>1 DEF TypeOK, Procs, WorkerStep, Keeps, Drops
<1>3. CASE Audit(p)
  <2>1. call[p] \in Call
    BY Zenon DEF TypeOK
  <2>2. [call[p] EXCEPT !.pc = "done"].pc = "done"
    BY Zenon, <2>1 DEF Call
  <2>3. QED
    BY Zenon, <1>3, <2>2 DEF Audit, TypeOK, Procs, WorkerStep, Keeps, Drops
<1>4. QED
  BY Zenon, <1>1, <1>2, <1>3 DEF Finish, Update, Return

\* The steps of AdvanceReleases.
LEMMA WorkWorkers ==
  ASSUME TypeOK, NEW v \in Workers, Work(v), NEW w \in Workers
  PROVE  WorkerStep(w)
<1>1. v \in Procs /\ w \in Procs
  BY Zenon DEF Procs
<1>2. CASE ListReleases(v)
  BY Zenon, <1>2, IdleType DEF ListReleases, TypeOK, WorkerStep, Keeps, Lists
<1>3. ASSUME NEW item \in listed[v], AdvanceWave(v, item) \/ SkipRelease(v, item)
      PROVE  WorkerStep(w)
  BY Zenon, <1>3 DEF AdvanceWave, SkipRelease, Proceed, TypeOK, WorkerStep, Keeps
<1>4. ASSUME NEW item \in listed[v], AdvanceRelease(v, item)
      PROVE  WorkerStep(w)
  <2>1. CASE Abandon(v, item.id)
    BY Zenon, <1>1, <2>1, AbandonWorkers
  <2>2. ASSUME NEW to \in NextStates(item.rel),
               Accepts(item.id, to, NextToken(item.rel)),
               call' = [call EXCEPT ![v] =
                          Computed("transition", item.id, to, NextToken(item.rel), 0)],
               UNCHANGED listed
        PROVE  WorkerStep(w)
    <3>1. CASE w # v
      BY Zenon, <1>1, <2>2, <3>1 DEF TypeOK, WorkerStep, Keeps
    <3>2. CASE w = v
      <4>1. to \in State /\ to \in {Running, Succeeded}
        BY Zenon, TargetTypes DEF NextStates
      <4>2. item.id \in ReleaseID /\ item.rel \in Release /\ Stored(item.id)
        BY <2>2 DEF TypeOK, Item, Accepts
      <4>3. NextToken(item.rel) \in Token
        BY Zenon, <4>2, NextTokenType
      <4> DEFINE c == Computed("transition", item.id, to, NextToken(item.rel), 0)
      <4>4. c.id = item.id /\ c.base = releases[item.id]
        BY <4>1, <4>2, <4>3, ComputedType
      <4>5. call'[w] = c
        BY Zenon, <1>1, <2>2, <3>2 DEF TypeOK
      <4>6. UNCHANGED releases
        BY Zenon, <1>4 DEF AdvanceRelease
      <4> HIDE DEF c
      <4>7. QED
        BY Zenon, <2>2, <3>2, <4>1, <4>4, <4>5, <4>6 DEF WorkerStep, Starts
    <3>3. QED
      BY Zenon, <3>1, <3>2
  <2>3. QED
    BY Zenon, <1>4, <2>1, <2>2 DEF AdvanceRelease
<1>5. QED
  BY Zenon, <1>2, <1>3, <1>4 DEF Work

\* Whichever step it is.
LEMMA NextWorkers ==
  ASSUME TypeOK, [Next]_vars, NEW w \in Workers
  PROVE  WorkerStep(w)
<1>1. CASE UNCHANGED vars
  BY Zenon, <1>1 DEF vars, WorkerStep, Keeps
<1>2. CASE Next
  BY Zenon, <1>2, ClientsTouchNoWorker, WorkWorkers, FinishWorkers DEF Next
<1>3. QED
  BY Zenon, <1>1, <1>2
-----------------------------------------------------------------------------
\* PagesBehind is kept: by a fresh listing because it copies the table, by
\* the start of a transition because its token beat the stored one, by every
\* other step because tokens grow.
LEMMA PagesBehindStep ==
  ASSUME IndInv, IndInv', PagesBehind, [Next]_vars
  PROVE  PagesBehind'
<1>1. TypeOK /\ CopiesCurrent /\ TypeOK' /\ [Lifecycle!Next]_releases
  BY Zenon, NextRefines DEF IndInv
<1>2. SUFFICES ASSUME NEW w \in Workers, NEW item \in listed'[w]
      PROVE  /\ \A other \in listed'[w] : item.id = other.id => item = other
             /\ item.rel.fencingToken <= releases'[item.id].fencingToken
             /\ item.rel.fencingToken = releases'[item.id].fencingToken
                  => item.rel.state = releases'[item.id].state
             /\ call'[w].pc = "update" /\ call'[w].id = item.id
                  => call'[w].base.state = item.rel.state
  BY Zenon DEF PagesBehind
<1>3. item.id \in ReleaseID /\ item.rel \in Release
  BY <1>1 DEF TypeOK, Item
<1>4. item.rel.fencingToken \in Int
  BY <1>3, TokenAssumption DEF Release, Token
<1>5. WorkerStep(w)
  BY Zenon, <1>1, NextWorkers
<1>6. CASE Lists(w)
  <2>1. item.rel = releases[item.id] /\ releases' = releases
    BY <1>6 DEF Lists, FirstPage
  <2>2. \A other \in listed'[w] : item.id = other.id => item = other
    BY <1>6 DEF Lists, FirstPage
  <2>3. call'[w].pc # "update"
    BY Zenon, <1>6 DEF Lists
  <2>4. QED
    BY <1>4, <2>1, <2>2, <2>3
<1>7. ASSUME listed'[w] \subseteq listed[w]
      PROVE  /\ item \in listed[w]
             /\ Stored(item.id)
             /\ \A other \in listed'[w] : item.id = other.id => item = other
             /\ item.rel.fencingToken <= releases'[item.id].fencingToken
             /\ item.rel.fencingToken = releases'[item.id].fencingToken
                  => item.rel.state = releases'[item.id].state
  <2>1. item \in listed[w] /\ Stored(item.id)
    BY Zenon, <1>1, <1>7 DEF CopiesCurrent, CopyCurrent
  <2>2. /\ \A other \in listed[w] : item.id = other.id => item = other
        /\ item.rel.fencingToken <= releases[item.id].fencingToken
        /\ item.rel.fencingToken = releases[item.id].fencingToken
             => item.rel.state = releases[item.id].state
    BY Zenon, <2>1 DEF PagesBehind
  <2>3. /\ releases[item.id].fencingToken \in Int
        /\ releases'[item.id].fencingToken \in Int
        /\ releases[item.id].fencingToken <= releases'[item.id].fencingToken
        /\ releases[item.id].fencingToken = releases'[item.id].fencingToken
             => releases[item.id].state = releases'[item.id].state
    BY ZenonT(30), <1>1, <1>3, <2>1, TokensGrow
  <2>4. QED
    BY <1>4, <1>7, <2>1, <2>2, <2>3
<1>8. CASE Keeps(w) \/ Drops(w)
  BY Zenon, <1>7, <1>8 DEF Keeps, Drops, PagesBehind
<1>9. CASE Starts(w)
  <2>1. PICK it \in listed[w] :
          /\ \/ Accepts(it.id, Running, NextToken(it.rel))
             \/ Accepts(it.id, Succeeded, NextToken(it.rel))
          /\ call'[w].id = it.id
          /\ call'[w].base = releases[it.id]
    BY Zenon, <1>9 DEF Starts
  <2>2. listed'[w] = listed[w] /\ releases' = releases
    BY Zenon, <1>9 DEF Starts
  <2>3. it.id \in ReleaseID /\ it.rel \in Release /\ releases[it.id] \in Release
    BY <1>1, <2>1 DEF TypeOK, Item, Accepts, Stored
  <2>4. NextToken(it.rel) > releases[it.id].fencingToken
    BY Zenon, <2>1 DEF Accepts, CanTransition, Fresh
  <2>5. it.rel.fencingToken = releases[it.id].fencingToken
    <3>1. it.rel.fencingToken <= releases[it.id].fencingToken
      BY Zenon DEF PagesBehind
    <3>2. QED
      BY Zenon, <2>3, <2>4, <3>1, NextTokenBeats
  <2>6. call'[w].base.state = it.rel.state
    BY Zenon, <2>1, <2>5 DEF PagesBehind
  <2>7. call'[w].id = item.id => item = it
    <3>1. item \in listed[w] /\ it \in listed[w]
      BY Zenon, <2>2
    <3>2. it.id = item.id => it = item
      BY Zenon, <3>1 DEF PagesBehind
    <3>3. QED
      BY Zenon, <2>1, <3>2
  <2>8. QED
    BY Zenon, <1>7, <2>2, <2>6, <2>7
<1>10. QED
  BY Zenon, <1>5, <1>6, <1>8, <1>9 DEF WorkerStep

\* Every page stays behind the table, or agrees with it.
THEOREM PagesStayBehind == Spec => []PagesBehind
<1>1. Init => PagesBehind
  BY Zenon DEF Init, PagesBehind
<1>2. QED
  BY <1>1, PagesBehindStep, Invariance, PTL DEF Spec

\* A worker's successful write found its release in the listed state.
LEMMA CommitFromListedState ==
  ASSUME IndInv, PagesBehind, [Next]_vars,
         NEW w \in Workers, NEW item \in listed[w],
         call[w].pc = "update", call[w].id = item.id, call'[w].pc = "audit"
  PROVE  releases[item.id].state = item.rel.state
<1>1. TypeOK /\ w \in Procs /\ item.id \in ReleaseID
  BY DEF IndInv, Procs, TypeOK, Item
<1>2. call'[w] # call[w]
  BY Zenon
<1>3. Update(w)
  <2>1. ~ UNCHANGED vars
    BY Zenon, <1>2 DEF vars
  <2>2. ASSUME NEW p \in Procs, Finish(p)
        PROVE  Update(w)
    <3>1. p = w
      <4>1. \E c : call' = [call EXCEPT ![p] = c]
        BY Zenon, <2>2 DEF Finish, Update, Audit, Return, Abandon
      <4>2. QED
        BY Zenon, <1>1, <1>2, <4>1 DEF TypeOK
    <3>2. QED
      BY Zenon, <2>2, <3>1 DEF Finish, Audit, Return
  <2>3. ASSUME NEW p \in Clients, Request(p) \/ Serve(p)
        PROVE  FALSE
    <3>1. p # w /\ p \in Procs
      BY Zenon, ServiceAssumption DEF Procs
    <3>2. \E c : call' = [call EXCEPT ![p] = c]
      <4>1. CASE Request(p)
        BY ZenonT(30), <4>1 DEF Request, CreateRelease, TransitionRelease, RetryRelease,
                    AssessReleaseHealth
      <4>2. CASE Serve(p)
        BY Zenon, <4>2 DEF Serve, CheckRef, RepositoryCreate, ReadAgain, GateTransition
      <4>3. QED
        BY Zenon, <2>3, <4>1, <4>2
    <3>3. QED
      BY Zenon, <1>1, <1>2, <3>1, <3>2 DEF TypeOK
  <2>4. ASSUME NEW v \in Workers, Work(v)
        PROVE  FALSE
    <3>1. call' = call \/ (call[v] = Idle /\ \E c : call' = [call EXCEPT ![v] = c])
      BY Zenon, <2>4 DEF Work, ListReleases, AdvanceRelease, AdvanceWave, SkipRelease,
                  At, Abandon
    <3>2. v # w
      BY ZenonT(30), <1>2, <3>1, IdleType
    <3>3. QED
      BY Zenon, <1>1, <1>2, <3>1, <3>2 DEF TypeOK
  <2>5. QED
    BY Zenon, <2>1, <2>2, <2>3, <2>4 DEF Next
<1>4. RevisionMatches(releases[call[w].id], call[w].base.revision)
  <2>1. ~ Abandon(w, call[w].id)
    BY ZenonT(30), <1>1, IdleType DEF Abandon, TypeOK
  <2>2. QED
    BY Zenon, <1>3, <2>1 DEF Update
<1>5. releases[item.id] = call[w].base
  BY Zenon, <1>1, <1>4 DEF IndInv, CopiesCurrent, CopyCurrent, RevisionMatches
<1>6. QED
  BY Zenon, <1>5 DEF PagesBehind

\* No worker sets a release running or succeeded from a stale page.
THEOREM StalePages == Spec => StalePageHarmless
<1>1. ASSUME IndInv, PagesBehind, [Next]_vars
      PROVE  [\A w \in Workers : \A item \in listed[w] :
                /\ call[w].pc = "update"
                /\ call[w].id = item.id
                /\ call'[w].pc = "audit"
                => releases[item.id].state = item.rel.state]_vars
  BY Zenon, <1>1, CommitFromListedState
<1>2. QED
  BY <1>1, Invariance, PagesStayBehind, PTL DEF Spec, StalePageHarmless
-----------------------------------------------------------------------------
(***************************************************************************)
(* No wave is skipped.  Plans never change and waves only go up, so what a *)
(* worker saw on its page still holds of the record it reads: a release in *)
(* its last wave when it was listed is in its last wave when it succeeds.  *)
(***************************************************************************)

\* The wave and the plan of a release; a wave step goes up by one.
LEMMA WaveFields ==
  ASSUME NEW r \in Release
  PROVE  /\ r.currentWave \in Int
         /\ Len(r.waves) \in Nat
         /\ NextWave(r).currentWave = r.currentWave + 1
         /\ NextWave(r).waves = r.waves
<1>1. r.currentWave \in Int /\ r.waves \in Seq(Wave)
  BY Zenon DEF Release
<1>2. Len(r.waves) \in Nat
  BY Zenon, <1>1, LenProperties
<1>3. QED
  BY Zenon, <1>1, <1>2 DEF Release, NextWave

\* A transition keeps both.
LEMMA TransitionKeepsWave ==
  ASSUME NEW r \in Release, NEW to \in State, NEW token \in Token
  PROVE  /\ Transition(r, to, token).currentWave = r.currentWave
         /\ Transition(r, to, token).waves = r.waves
  BY Zenon DEF Release, Transition

\* Over one step, the plan of a stored release stays and its wave never falls.
LEMMA WavesGrow ==
  ASSUME TypeOK, [Lifecycle!Next]_releases, NEW id \in ReleaseID, Stored(id)
  PROVE  /\ releases'[id].waves = releases[id].waves
         /\ releases[id].currentWave \in Int
         /\ releases'[id].currentWave \in Int
         /\ releases[id].currentWave <= releases'[id].currentWave
<1>1. releases[id] \in Release
  BY Zenon DEF TypeOK, Stored
<1>2. /\ releases'[id].waves = releases[id].waves
      /\ releases[id].currentWave \in Int
      /\ \/ releases'[id].currentWave = releases[id].currentWave
         \/ releases'[id].currentWave = releases[id].currentWave + 1
  <2>1. CASE releases'[id] = releases[id]
    BY Zenon, <1>1, <2>1, WaveFields
  <2>2. ASSUME NEW to \in State, NEW token \in Token,
               releases'[id] = Transition(releases[id], to, token)
        PROVE  /\ releases'[id].waves = releases[id].waves
               /\ releases'[id].currentWave = releases[id].currentWave
    <3>1. /\ Transition(releases[id], to, token).waves = releases[id].waves
          /\ Transition(releases[id], to, token).currentWave = releases[id].currentWave
      BY Zenon, <1>1, TransitionKeepsWave
    <3>2. QED
      BY Zenon, <2>2, <3>1
  <2>3. CASE releases'[id] = NextWave(releases[id])
    BY Zenon, <1>1, <2>3, WaveFields
  <2>4. QED
    BY Zenon, <1>1, <2>1, <2>2, <2>3, StoredMoves, WaveFields
<1>3. QED
  BY <1>2

\* A step that writes a release writes what a create or an update in flight
\* carries, or the next wave of a running release.
LEMMA WhoWrites ==
  ASSUME TypeOK, [Next]_vars, NEW id \in ReleaseID, releases'[id] # releases[id]
  PROVE  \/ \E p \in Procs : /\ call[p].pc \in {"create", "update"}
                              /\ releases'[id] = call[p].rel
         \/ \E r \in Release : r.state = Running /\ releases'[id] = NextWave(r)
<1>1. \A other, rel, op : Write(other, rel, op) => other = id /\ releases'[id] = rel
  BY Zenon DEF Write, TypeOK
<1>2. ~ UNCHANGED releases
  BY Zenon
<1>3. ASSUME NEW p \in Clients, Request(p)
      PROVE  FALSE
  BY Zenon, <1>2, <1>3 DEF Request, CreateRelease, TransitionRelease, RetryRelease,
              AssessReleaseHealth
<1>4. ASSUME NEW p \in Clients, Serve(p)
      PROVE  call[p].pc = "create" /\ releases'[id] = call[p].rel
  BY Zenon, <1>1, <1>2, <1>4 DEF Serve, CheckRef, RepositoryCreate, ReadAgain,
              GateTransition
<1>5. ASSUME NEW w \in Workers, Work(w)
      PROVE  \E r \in Release : r.state = Running /\ releases'[id] = NextWave(r)
  <2>1. PICK item \in listed[w] : AdvanceWave(w, item)
    BY Zenon, <1>2, <1>5 DEF Work, ListReleases, AdvanceRelease, SkipRelease
  <2>2. item.rel \in Release
    BY DEF TypeOK, Item
  <2>3. QED
    BY Zenon, <1>1, <1>2, <2>1, <2>2 DEF AdvanceWave, WaveDue
<1>6. ASSUME NEW p \in Procs, Finish(p)
      PROVE  call[p].pc = "update" /\ releases'[id] = call[p].rel
  BY Zenon, <1>1, <1>2, <1>6 DEF Finish, Update, Audit, Return
<1>7. QED
  BY Zenon, <1>2, <1>3, <1>4, <1>5, <1>6 DEF Next, vars, Procs

\* A step that starts an update computes it from the stored record; and only
\* for a release that a worker listed in its last wave does it ask for success.
LEMMA WhoSucceeds ==
  ASSUME IndInv, Succeeded \notin Targets, [Next]_vars,
         NEW p \in Procs, call'[p].pc = "update", call'[p] # call[p]
  PROVE  \E id \in ReleaseID, to \in State, token \in Token :
           /\ Stored(id)
           /\ call'[p].rel = Transition(releases[id], to, token)
           /\ to = Succeeded => \E w \in Workers : \E item \in listed[w] :
                                  item.id = id /\ ~ HasNextWave(item.rel)
<1> DEFINE Succeeds(id, to) == to = Succeeded =>
             \E w \in Workers : \E item \in listed[w] :
               item.id = id /\ ~ HasNextWave(item.rel)
           Computes(c) == \E id \in ReleaseID, to \in State, token \in Token :
             /\ Stored(id)
             /\ c.rel = Transition(releases[id], to, token)
             /\ Succeeds(id, to)
<1> HIDE DEF Succeeds
<1>1. SUFFICES Computes(call'[p])
  BY Zenon DEF Succeeds
<1> TypeOK
  BY Zenon DEF IndInv
<1>2. ASSUME NEW q \in Procs, NEW c, call' = [call EXCEPT ![q] = c]
      PROVE  p = q /\ c = call'[p]
  BY Zenon, <1>2 DEF TypeOK
<1>3. ASSUME NEW q \in Procs, NEW c, call' = [call EXCEPT ![q] = c], c.pc # "update"
      PROVE  FALSE
  BY Zenon, <1>2, <1>3
<1>4. ASSUME NEW q \in Procs, NEW op \in {"transition", "retry", "gate"},
             NEW id \in ReleaseID, NEW to \in State, NEW token \in Token,
             NEW rate \in Nat, Accepts(id, to, token), Succeeds(id, to),
             call' = [call EXCEPT ![q] = Computed(op, id, to, token, rate)]
      PROVE  Computes(call'[p])
  <2>1. Stored(id)
    BY Zenon, <1>4 DEF Accepts
  <2>2. Computed(op, id, to, token, rate).rel = Transition(releases[id], to, token)
    BY <2>1, ComputedType
  <2>3. call'[p].rel = Transition(releases[id], to, token)
    BY Zenon, <1>2, <1>4, <2>2
  <2>4. QED
    BY Zenon, <1>4, <2>1, <2>3
<1>5. \A id, to : to # Succeeded => Succeeds(id, to)
  BY Zenon DEF Succeeds
<1> HIDE DEF Computes
<1>6. Paused # Succeeded /\ Retrying # Succeeded /\ Running # Succeeded
  BY DEF Paused, Retrying, Running, Succeeded
<1>7. \A q \in Procs : call[q] \in Call
  BY Zenon DEF TypeOK
<1>8. ASSUME NEW q \in Clients, Request(q)
      PROVE  Computes(call'[p])
  <2>1. q \in Procs
    BY Zenon DEF Procs
  <2>2. ASSUME NEW d \in Drafts, CreateRelease(q, d)
        PROVE  FALSE
    <3>1. [Idle EXCEPT !.pc = "refs", !.op = "create", !.id = sequence',
                       !.rel = NewRelease(d), !.todo = d.versionRefs].pc = "refs"
      BY Zenon, IdleType DEF Call
    <3>2. QED
      BY Zenon, <1>3, <2>1, <2>2, <3>1 DEF CreateRelease
  <2>3. ASSUME NEW id \in ReleaseID, NEW to \in Targets, NEW token \in CallerTokens,
               TransitionRelease(q, id, to, token)
        PROVE  Computes(call'[p])
    <3>1. to \in State /\ token \in Token /\ 0 \in Nat /\ to # Succeeded
      BY Zenon, ServiceAssumption
    <3>2. QED
      BY Zenon, <1>4, <1>5, <2>1, <2>3, <3>1 DEF TransitionRelease
  <2>4. ASSUME NEW id \in ReleaseID, RetryRelease(q, id)
        PROVE  Computes(call'[p])
    <3>1. NextToken(releases[id]) \in Token /\ 0 \in Nat
      BY Zenon, <2>4, NextTokenType DEF RetryRelease, Stored, TypeOK
    <3>2. QED
      BY Zenon, <1>4, <1>5, <1>6, <2>1, <2>4, <3>1, TargetTypes DEF RetryRelease
  <2>5. ASSUME NEW id \in ReleaseID, NEW rate \in FailureRates, NEW token \in CallerTokens,
               AssessReleaseHealth(q, id, rate, token)
        PROVE  FALSE
    <3>1. \A b : [Idle EXCEPT !.pc = "assessed", !.op = "gate", !.id = id, !.token = token,
                              !.rate = rate, !.pause = b].pc = "assessed"
      BY Zenon, IdleType DEF Call
    <3>2. QED
      BY Zenon, <1>3, <2>1, <2>5, <3>1 DEF AssessReleaseHealth
  <2>6. QED
    BY Zenon, <1>8, <2>2, <2>3, <2>4, <2>5 DEF Request
<1>9. ASSUME NEW q \in Clients, Serve(q)
      PROVE  Computes(call'[p])
  <2>1. q \in Procs /\ Idle.pc # "update"
    BY Zenon, IdleType DEF Procs
  <2>2. ASSUME NEW usable, CheckRef(q, usable)
        PROVE  FALSE
    <3> DEFINE pc == IF Len(call[q].todo) > 1 THEN "refs" ELSE "create"
    <3>1. pc # "update"
      BY Zenon
    <3> HIDE DEF pc
    <3>2. [call[q] EXCEPT !.todo = Tail(@), !.pc = pc].pc # "update"
      BY Zenon, <1>7, <2>1, <3>1 DEF Call
    <3>3. QED
      BY Zenon, <1>3, <2>1, <2>2, <3>2 DEF CheckRef, pc
  <2>3. ASSUME RepositoryCreate(q)
        PROVE  FALSE
    BY Zenon, <1>3, <2>1, <2>3, CommittedType DEF RepositoryCreate
  <2>4. ASSUME ReadAgain(q)
        PROVE  FALSE
    <3>1. [call[q] EXCEPT !.pc = "gate"].pc = "gate"
      BY Zenon, <1>7, <2>1 DEF Call
    <3>2. QED
      BY Zenon, <1>3, <2>1, <2>4, <3>1 DEF ReadAgain
  <2>5. CASE GateTransition(q)
    <3>1. call[q].id \in ReleaseID
      BY Zenon, <2>1, <2>5 DEF GateTransition, IndInv, UpdatesLegal
    <3>2. call[q].token \in Token /\ call[q].rate \in Nat
      BY Zenon, <1>7, <2>1 DEF Call
    <3>3. Accepts(call[q].id, Paused, call[q].token)
      BY Zenon, <1>3, <2>1, <2>5 DEF GateTransition
    <3>4. call' = [call EXCEPT ![q] =
                     Computed("gate", call[q].id, Paused, call[q].token, call[q].rate)]
      BY Zenon, <2>5, <3>3 DEF GateTransition
    <3>5. Succeeds(call[q].id, Paused) /\ Paused \in State
      BY Zenon, <1>5, <1>6, TargetTypes
    <3>6. QED
      BY Zenon, <1>4, <2>1, <3>1, <3>2, <3>3, <3>4, <3>5
  <2>6. QED
    BY Zenon, <1>9, <2>2, <2>3, <2>4, <2>5 DEF Serve
<1>10. ASSUME NEW w \in Workers, Work(w)
       PROVE  Computes(call'[p])
  <2>1. w \in Procs /\ Idle.pc # "update"
    BY Zenon, IdleType DEF Procs
  <2>2. PICK item \in listed[w] : AdvanceRelease(w, item)
    BY Zenon, <1>10 DEF Work, ListReleases, AdvanceWave, SkipRelease
  <2>3. PICK to \in NextStates(item.rel) :
          /\ Accepts(item.id, to, NextToken(item.rel))
          /\ call' = [call EXCEPT ![w] =
                        Computed("transition", item.id, to, NextToken(item.rel), 0)]
    BY Zenon, <1>3, <2>1, <2>2 DEF AdvanceRelease, Abandon
  <2>4. item.id \in ReleaseID /\ item.rel \in Release
    BY DEF TypeOK, Item
  <2>5. Succeeds(item.id, to)
    BY Zenon, <1>6 DEF NextStates, Succeeds
  <2>6. NextToken(item.rel) \in Token /\ to \in State /\ 0 \in Nat
    BY Zenon, <2>4, NextTokenType, TargetTypes
  <2>7. QED
    BY Zenon, <1>4, <2>1, <2>3, <2>4, <2>5, <2>6
<1>11. ASSUME NEW q \in Procs, Finish(q)
       PROVE  FALSE
  <2>1. [call[q] EXCEPT !.pc = "done"].pc = "done"
    BY Zenon, <1>7 DEF Call
  <2>2. Idle.pc # "update" /\ Committed(q).pc # "update"
    BY Zenon, IdleType, CommittedType
  <2>3. QED
    BY Zenon, <1>3, <1>11, <2>1, <2>2 DEF Finish, Update, Audit, Return, Abandon
<1>12. ~ UNCHANGED vars
  BY Zenon DEF vars
<1>13. QED
  BY Zenon, <1>8, <1>9, <1>10, <1>11, <1>12 DEF Next

\* WavesBehind and SucceedsInLastWave are kept together.
LEMMA WavesBehindStep ==
  ASSUME IndInv, IndInv', Succeeded \notin Targets, WavesBehind, SucceedsInLastWave,
         [Next]_vars
  PROVE  WavesBehind' /\ SucceedsInLastWave'
<1>1. TypeOK /\ CopiesCurrent /\ CreatesOwnID /\ [Lifecycle!Next]_releases /\ StepShape
  BY Zenon, NextRefines, NextShape DEF IndInv
<1>2. ASSUME NEW w \in Workers, NEW item \in listed'[w]
      PROVE  /\ item.rel.waves = releases'[item.id].waves
             /\ item.rel.currentWave <= releases'[item.id].currentWave
  <2>1. item.id \in ReleaseID /\ item.rel \in Release
    BY DEF IndInv, TypeOK, Item
  <2>2. item.rel.currentWave \in Int
    BY Zenon, <2>1, WaveFields
  <2>3. CASE item \in listed[w]
    <3>1. /\ Stored(item.id)
          /\ item.rel.waves = releases[item.id].waves
          /\ item.rel.currentWave <= releases[item.id].currentWave
      BY Zenon, <1>1, <2>3 DEF CopiesCurrent, CopyCurrent, WavesBehind
    <3>2. /\ releases'[item.id].waves = releases[item.id].waves
          /\ releases[item.id].currentWave \in Int
          /\ releases'[item.id].currentWave \in Int
          /\ releases[item.id].currentWave <= releases'[item.id].currentWave
      BY Zenon, <1>1, <2>1, <3>1, WavesGrow
    <3>3. QED
      BY <2>2, <3>1, <3>2
  <2>4. CASE item.rel = releases[item.id] /\ UNCHANGED releases
    BY <2>2, <2>4
  <2>5. QED
    BY Zenon, <1>1, <2>3, <2>4 DEF StepShape, PageStep
<1>3. ASSUME NEW p \in Procs, call'[p].pc = "update", call'[p].rel.state = Succeeded
      PROVE  InLastWave(call'[p].rel)
  <2>1. CASE call'[p] = call[p]
    BY Zenon, <1>3, <2>1 DEF WavesBehind
  <2>2. CASE call'[p] # call[p]
    <3>1. PICK id \in ReleaseID, to \in State, token \in Token :
            /\ Stored(id)
            /\ call'[p].rel = Transition(releases[id], to, token)
            /\ to = Succeeded => \E w \in Workers : \E item \in listed[w] :
                                   item.id = id /\ ~ HasNextWave(item.rel)
      BY Zenon, <1>3, <2>2, WhoSucceeds
    <3>2. releases[id] \in Release
      BY Zenon, <1>1, <3>1 DEF Stored, TypeOK
    <3> DEFINE r == Transition(releases[id], to, token)
    <3>3. /\ r.state = to
          /\ r.waves = releases[id].waves
          /\ r.currentWave = releases[id].currentWave
      <4>1. r.state = to
        BY Zenon, <3>1, <3>2, TransitionType
      <4>2. r.waves = releases[id].waves /\ r.currentWave = releases[id].currentWave
        BY Zenon, <3>1, <3>2, TransitionKeepsWave
      <4>3. QED
        BY Zenon, <4>1, <4>2
    <3>4. PICK w \in Workers :
            \E item \in listed[w] : item.id = id /\ ~ HasNextWave(item.rel)
      BY Zenon, <1>3, <3>1, <3>3
    <3> PICK item \in listed[w] : item.id = id /\ ~ HasNextWave(item.rel)
      BY Zenon, <3>4
    <3>5. /\ item.rel.waves = releases[id].waves
          /\ item.rel.currentWave <= releases[id].currentWave
          /\ item.rel \in Release
      BY <1>1 DEF WavesBehind, TypeOK, Item
    <3>6. /\ call'[p].rel.waves = releases[id].waves
          /\ call'[p].rel.currentWave = releases[id].currentWave
          /\ releases[id].currentWave \in Int
          /\ item.rel.currentWave \in Int
          /\ Len(releases[id].waves) \in Nat
      <4>1. /\ releases[id].currentWave \in Int
            /\ item.rel.currentWave \in Int
            /\ Len(releases[id].waves) \in Nat
        BY Zenon, <3>2, <3>5, WaveFields
      <4>2. QED
        BY Zenon, <3>1, <3>3, <4>1
    <3>7. QED
      BY <3>5, <3>6 DEF HasNextWave, InLastWave
  <2>3. QED
    BY Zenon, <2>1, <2>2
<1>4. ASSUME NEW id \in ReleaseID, Stored(id)', releases'[id].state = Succeeded
      PROVE  InLastWave(releases'[id])
  <2>1. CASE releases'[id] = releases[id]
    BY Zenon, <1>4, <2>1 DEF SucceedsInLastWave, Stored
  <2>2. ASSUME NEW p \in Procs, call[p].pc \in {"create", "update"},
               releases'[id] = call[p].rel
        PROVE  InLastWave(releases'[id])
    <3>1. call[p].pc = "create" => call[p].rel.state = Pending
      BY Zenon, <1>1, NewReleaseType DEF CreatesOwnID, Creating
    <3>2. Pending # Succeeded
      BY DEF Pending, Succeeded
    <3>3. QED
      BY Zenon, <1>4, <2>2, <3>1, <3>2 DEF WavesBehind
  <2>3. ASSUME NEW r \in Release, r.state = Running, releases'[id] = NextWave(r)
        PROVE  FALSE
    <3>1. Running # Succeeded
      BY DEF Running, Succeeded
    <3>2. QED
      BY Zenon, <1>4, <2>3, <3>1, NextWaveType
  <2>4. QED
    BY Zenon, <1>1, <2>1, <2>2, <2>3, WhoWrites
<1>5. QED
  BY Zenon, <1>2, <1>3, <1>4 DEF WavesBehind, SucceedsInLastWave

\* A release that AdvanceReleases has set succeeded was in its last wave,
\* whatever clients do that cannot ask for success themselves.
THEOREM NoWaveSkipped ==
  ASSUME Succeeded \notin Targets
  PROVE  Spec => []SucceedsInLastWave
<1>1. Init => WavesBehind /\ SucceedsInLastWave
  BY Zenon, IdleType DEF Init, WavesBehind, SucceedsInLastWave, Stored
<1>2. IndInv /\ IndInv' /\ (WavesBehind /\ SucceedsInLastWave) /\ [Next]_vars
        => WavesBehind' /\ SucceedsInLastWave'
  BY Zenon, WavesBehindStep
<1>3. QED
  BY <1>1, <1>2, Invariance, PTL DEF Spec
=============================================================================
