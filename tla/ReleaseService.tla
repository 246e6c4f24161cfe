--------------------------- MODULE ReleaseService ---------------------------
(***************************************************************************)
(* The release operations of internal/application over the in-memory       *)
(* repository of internal/releasedomain: CreateRelease, TransitionRelease, *)
(* RetryRelease, ApplyHealthGate and the release half of AdvanceReleases.  *)
(*                                                                         *)
(* The repository's mutex makes each of its methods atomic; a service      *)
(* method holds no lock between two of them.  So one step of a process is  *)
(* one repository call together with the computation around it, and        *)
(* call[p] is what process p carries from one such call to the next.       *)
(* A call that fails before it has written anything, on its first          *)
(* repository call, leaves no trace and is not a step.                     *)
(***************************************************************************)
EXTENDS ReleaseDomain

CONSTANTS
  Clients,       \* goroutines serving requests
  Workers,       \* goroutines running AdvanceReleases
  MaxReleases,   \* bound on the identifiers CreateRelease issues
  PageLimit,     \* the page size AdvanceReleases lists (200 in the code)
  Targets,       \* states clients ask TransitionRelease for
  CallerTokens,  \* fencing tokens clients present
  FailureRates   \* failure rates, in percent, that health reports carry

ASSUME ServiceAssumption == /\ MaxReleases \in Nat
                            /\ PageLimit \in Nat
                            /\ Clients \cap Workers = {}
                            /\ Targets \subseteq State
                            /\ CallerTokens \subseteq Token
                            /\ FailureRates \subseteq Nat

VARIABLES
  releases,     \* MemoryRepository.releases
  idempotency,  \* MemoryRepository.idempotency, 0 for a key not in the map
  sequence,     \* identifiers issued so far (Service.sequence)
  call,         \* what each process has in flight
  listed,       \* per worker, the rest of the page it listed
  audits,       \* audit records of releases
  log           \* history: per release, how each revision came to be

vars == <<releases, idempotency, sequence, call, listed, audits, log>>
-----------------------------------------------------------------------------
Procs == Clients \cup Workers

\* A release is named by the rank of its CreatedAt, the order List sorts by;
\* the text of its identifier is only ever compared for equality.
ReleaseID == 1 .. MaxReleases

\* The program points between two repository calls.
PC == {"idle", "refs", "create", "assessed", "gate", "update", "audit", "done"}

Op == {"none", "create", "transition", "retry", "gate"}

Call == [pc: PC,
         op: Op,
         id: ReleaseID \cup {0},
         rel: Release \cup {NoRelease},    \* the record to write
         base: Release \cup {NoRelease},   \* the copy it was computed from
         token: Token,                     \* ApplyHealthGate's token
         rate: Nat,                        \* and its failure rate
         pause: BOOLEAN,                   \* assessment.ShouldPause
         todo: Seq(VersionRef)]            \* references still to be checked

Idle == [pc |-> "idle", op |-> "none", id |-> 0, rel |-> NoRelease,
         base |-> NoRelease, token |-> 0, rate |-> 0, pause |-> FALSE,
         todo |-> <<>>]

Item == [id: ReleaseID, rel: Release]

AuditRecord == [id: ReleaseID, revision: Nat, state: State]

LogEntry == [op: Op \cup {"wave"}, state: State]

Init == /\ releases = [id \in ReleaseID |-> NoRelease]
        /\ idempotency = [k \in IdempotencyKey |-> 0]
        /\ sequence = 0
        /\ call = [p \in Procs |-> Idle]
        /\ listed = [w \in Workers |-> {}]
        /\ audits = {}
        /\ log = [id \in ReleaseID |-> <<>>]
-----------------------------------------------------------------------------
(***************************************************************************)
(* MemoryRepository: the parts of its methods that decide and write.       *)
(***************************************************************************)
Stored(id) == releases[id] # NoRelease

KeyTakenNever(key) == FALSE

\* Create's first check: the key is in the idempotency map.
KeyTaken(key) == key # NoKey /\ idempotency[key] # 0

IndexKey(key, id) ==
  IF key = NoKey THEN idempotency ELSE [idempotency EXCEPT ![key] = id]

RevisionIgnored(old, expected) == TRUE

\* Update's compare-and-set condition.
RevisionMatches(old, expected) == old.revision = expected

Write(id, rel, op) ==
  /\ releases' = [releases EXCEPT ![id] = rel]
  /\ log' = [log EXCEPT ![id] = Append(@, [op |-> op, state |-> rel.state])]

Older(id) == {other \in ReleaseID : other < id /\ Stored(other)}

\* List(1, PageLimit): copies of the oldest releases.
FirstPage ==
  {[id |-> i, rel |-> releases[i]] :
     i \in {j \in ReleaseID : Stored(j) /\ Cardinality(Older(j)) < PageLimit}}
-----------------------------------------------------------------------------
(***************************************************************************)
(* Leaving a call.  A client's call returns; a worker goes on with the     *)
(* next release of its page.                                               *)
(***************************************************************************)
Proceed(p, id) ==
  IF p \in Workers
  THEN [listed EXCEPT ![p] = {item \in @ : item.id # id}]
  ELSE listed

Abandon(p, id) == /\ call' = [call EXCEPT ![p] = Idle]
                  /\ listed' = Proceed(p, id)

\* The program point after a successful write.
AfterWriteSilentGate(op) == IF op \in {"retry", "gate"} THEN "done" ELSE "audit"

AfterWrite(op) == IF op = "retry" THEN "done" ELSE "audit"

Committed(p) ==
  [Idle EXCEPT !.pc = AfterWrite(call[p].op), !.op = call[p].op,
               !.id = call[p].id, !.rel = call[p].rel]
-----------------------------------------------------------------------------
(***************************************************************************)
(* CreateRelease: validate and issue an identifier, look every referenced  *)
(* version up in turn, create, audit.                                      *)
(***************************************************************************)
CreateRelease(p, d) ==
  /\ call[p] = Idle
  /\ Validate(d)
  /\ sequence < MaxReleases
  /\ sequence' = sequence + 1
  /\ call' = [call EXCEPT ![p] =
                [Idle EXCEPT !.pc = "refs", !.op = "create", !.id = sequence',
                             !.rel = NewRelease(d), !.todo = d.versionRefs]]
  /\ UNCHANGED <<releases, idempotency, listed, audits, log>>

\* One GetVersion of the loop; usable: the version is scheduled or reviewing.
CheckRef(p, usable) ==
  /\ call[p].pc = "refs"
  /\ \/ /\ usable
        /\ call' = [call EXCEPT ![p] =
                      [call[p] EXCEPT
                         !.todo = Tail(@),
                         !.pc = IF Len(call[p].todo) > 1 THEN "refs"
                                                         ELSE "create"]]
     \/ /\ ~ usable
        /\ call' = [call EXCEPT ![p] = Idle]
  /\ UNCHANGED <<releases, idempotency, sequence, listed, audits, log>>

RepositoryCreate(p) ==
  LET id  == call[p].id
      rel == call[p].rel
  IN  /\ call[p].pc = "create"
      /\ \/ /\ ~ KeyTaken(rel.idempotencyKey)
            /\ ~ Stored(id)
            /\ Write(id, rel, "create")
            /\ idempotency' = IndexKey(rel.idempotencyKey, id)
            /\ call' = [call EXCEPT ![p] = Committed(p)]
         \/ /\ KeyTaken(rel.idempotencyKey) \/ Stored(id)
            /\ call' = [call EXCEPT ![p] = Idle]
            /\ UNCHANGED <<releases, idempotency, log>>
      /\ UNCHANGED <<sequence, listed, audits>>
-----------------------------------------------------------------------------
(***************************************************************************)
(* TransitionRelease: read and compute (Computed), then write (Update),    *)
(* then audit.  Clients, the health gate and the workers all use it.       *)
(***************************************************************************)
Computed(op, id, to, token, rate) ==
  [Idle EXCEPT !.pc = "update", !.op = op, !.id = id,
               !.base = releases[id], !.rate = rate,
               !.rel = Transition(releases[id], to, token)]

Accepts(id, to, token) == Stored(id) /\ CanTransition(releases[id], to, token)

TransitionRelease(p, id, to, token) ==
  /\ call[p] = Idle
  /\ Accepts(id, to, token)
  /\ call' = [call EXCEPT ![p] = Computed("transition", id, to, token, 0)]
  /\ UNCHANGED <<releases, idempotency, sequence, listed, audits, log>>

Update(p) ==
  LET c == call[p]
  IN  /\ c.pc = "update"
      /\ \/ /\ RevisionMatches(releases[c.id], c.base.revision)
            /\ Write(c.id, c.rel, c.op)
            /\ call' = [call EXCEPT ![p] = Committed(p)]
            /\ UNCHANGED listed
         \/ /\ ~ RevisionMatches(releases[c.id], c.base.revision)
            /\ Abandon(p, c.id)
            /\ UNCHANGED <<releases, log>>
      /\ UNCHANGED <<idempotency, sequence, audits>>

AuditOf(id, rel) == [id |-> id, revision |-> rel.revision, state |-> rel.state]

Audit(p) ==
  /\ call[p].pc = "audit"
  /\ audits' = audits \cup {AuditOf(call[p].id, call[p].rel)}
  /\ call' = [call EXCEPT ![p] = [call[p] EXCEPT !.pc = "done"]]
  /\ UNCHANGED <<releases, idempotency, sequence, listed, log>>

Return(p) ==
  /\ call[p].pc = "done"
  /\ Abandon(p, call[p].id)
  /\ UNCHANGED <<releases, idempotency, sequence, audits, log>>
-----------------------------------------------------------------------------
\* RetryRelease: reads the token it then exceeds; writes no audit record.
RetryRelease(p, id) ==
  /\ call[p] = Idle
  /\ Stored(id)
  /\ releases[id].state = Failed
  /\ Accepts(id, Retrying, NextToken(releases[id]))
  /\ call' = [call EXCEPT ![p] =
                Computed("retry", id, Retrying, NextToken(releases[id]), 0)]
  /\ UNCHANGED <<releases, idempotency, sequence, listed, audits, log>>

(***************************************************************************)
(* ApplyHealthGate: assess (first read), read again, and only then the     *)
(* transition, which reads a third time.                                   *)
(***************************************************************************)
AssessReleaseHealth(p, id, rate, token) ==
  /\ call[p] = Idle
  /\ Stored(id)
  /\ ~ ShouldPausePanics(releases[id])
  /\ call' = [call EXCEPT ![p] =
                [Idle EXCEPT !.pc = "assessed", !.op = "gate", !.id = id,
                             !.token = token, !.rate = rate,
                             !.pause = /\ ShouldPause(releases[id], rate)
                                       /\ releases[id].state = Running]]
  /\ UNCHANGED <<releases, idempotency, sequence, listed, audits, log>>

ReadAgain(p) ==
  /\ call[p].pc = "assessed"
  /\ call' = [call EXCEPT ![p] =
                IF call[p].pause THEN [call[p] EXCEPT !.pc = "gate"] ELSE Idle]
  /\ UNCHANGED <<releases, idempotency, sequence, listed, audits, log>>

GateTransition(p) ==
  LET c == call[p]
  IN  /\ c.pc = "gate"
      /\ call' = [call EXCEPT ![p] =
                    IF Accepts(c.id, Paused, c.token)
                    THEN Computed("gate", c.id, Paused, c.token, c.rate)
                    ELSE Idle]
      /\ UNCHANGED <<releases, idempotency, sequence, listed, audits, log>>
-----------------------------------------------------------------------------
(***************************************************************************)
(* AdvanceReleases: list a page once, then treat each release as it was    *)
(* when it was listed.  The token of a transition comes from the listed    *)
(* copy, the record it applies to from a fresh read.                       *)
(***************************************************************************)
ListReleases(w) ==
  /\ call[w] = Idle
  /\ listed[w] = {}
  /\ listed' = [listed EXCEPT ![w] = FirstPage]
  /\ UNCHANGED <<releases, idempotency, sequence, call, audits, log>>

\* The loop has come to item: the page is sorted by creation.
At(w, item) == /\ call[w] = Idle
               /\ \A other \in listed[w] : item.id <= other.id

WaveDue(r) == r.state = Running /\ HasNextWave(r)

NextStatesNoRetry(r) ==
  CASE r.state = Pending                     -> {Running}
    [] r.state = Running /\ ~ HasNextWave(r) -> {Succeeded}
    [] OTHER                                 -> {}

\* The state the switch of AdvanceReleases moves a listed release to.
NextStates(r) ==
  CASE r.state \in {Pending, Retrying}       -> {Running}
    [] r.state = Running /\ ~ HasNextWave(r) -> {Succeeded}
    [] OTHER                                 -> {}

AdvanceRelease(w, item) ==
  /\ At(w, item)
  /\ \E to \in NextStates(item.rel) :
       \/ /\ Accepts(item.id, to, NextToken(item.rel))
          /\ call' = [call EXCEPT ![w] =
                        Computed("transition", item.id, to,
                                 NextToken(item.rel), 0)]
          /\ UNCHANGED listed
       \/ /\ ~ Accepts(item.id, to, NextToken(item.rel))
          /\ Abandon(w, item.id)
  /\ UNCHANGED <<releases, idempotency, sequence, audits, log>>

AdvanceWave(w, item) ==
  /\ At(w, item)
  /\ WaveDue(item.rel)
  /\ \/ /\ RevisionMatches(releases[item.id], item.rel.revision)
        /\ Write(item.id, NextWave(item.rel), "wave")
     \/ /\ ~ RevisionMatches(releases[item.id], item.rel.revision)
        /\ UNCHANGED <<releases, log>>
  /\ listed' = Proceed(w, item.id)
  /\ UNCHANGED <<idempotency, sequence, call, audits>>

SkipRelease(w, item) ==
  /\ At(w, item)
  /\ ~ WaveDue(item.rel)
  /\ NextStates(item.rel) = {}
  /\ listed' = Proceed(w, item.id)
  /\ UNCHANGED <<releases, idempotency, sequence, call, audits, log>>
-----------------------------------------------------------------------------
Request(p) ==
  \/ \E d \in Drafts : CreateRelease(p, d)
  \/ \E id \in ReleaseID :
       \/ \E to \in Targets, token \in CallerTokens :
            TransitionRelease(p, id, to, token)
       \/ RetryRelease(p, id)
       \/ \E rate \in FailureRates, token \in CallerTokens :
            AssessReleaseHealth(p, id, rate, token)

Serve(p) ==
  \/ \E usable \in BOOLEAN : CheckRef(p, usable)
  \/ RepositoryCreate(p)
  \/ ReadAgain(p)
  \/ GateTransition(p)

Finish(p) == Update(p) \/ Audit(p) \/ Return(p)

Work(w) ==
  \/ ListReleases(w)
  \/ \E item \in listed[w] : \/ AdvanceRelease(w, item)
                             \/ AdvanceWave(w, item)
                             \/ SkipRelease(w, item)

Next == \/ \E p \in Clients : Request(p) \/ Serve(p)
        \/ \E w \in Workers : Work(w)
        \/ \E p \in Procs : Finish(p)

Spec == Init /\ [][Next]_vars

\* RunWorkers calls AdvanceReleases at every tick and never blocks in it.
Fairness == \A w \in Workers : WF_vars(Work(w) \/ Finish(w))

FairSpec == Spec /\ Fairness
-----------------------------------------------------------------------------
(***************************************************************************)
(* Properties.                                                             *)
(***************************************************************************)
\* Every variable has its type: in particular no stored token leaves the
\* int64 range and every frame holds a whole call.
TypeOK == /\ releases \in [ReleaseID -> Release \cup {NoRelease}]
          /\ idempotency \in [IdempotencyKey -> ReleaseID \cup {0}]
          /\ sequence \in 0 .. MaxReleases
          /\ call \in [Procs -> Call]
          /\ listed \in [Workers -> SUBSET Item]
          /\ audits \subseteq AuditRecord
          /\ log \in [ReleaseID -> Seq(LogEntry)]

\* Fencing (docs/architecture.md, Consistency): whoever moves a release to
\* another state, over whatever stale copies, raises its fencing token.
FencedTransitions ==
  [][\A id \in ReleaseID :
       Stored(id) /\ releases'[id].state # releases[id].state
         => releases'[id].fencingToken > releases[id].fencingToken]_releases

\* A copy read earlier is an older revision or the stored record itself.
CopyCurrent(copy, id) ==
  /\ Stored(id)
  /\ copy.revision <= releases[id].revision
  /\ copy.revision = releases[id].revision => copy = releases[id]

\* A copy in flight or on a listed page that still carries the stored
\* revision is the stored record: comparing revisions in Update is as good
\* as comparing records, for every process at every moment.
CopiesCurrent ==
  /\ \A p \in Procs : call[p].pc = "update"
                        => CopyCurrent(call[p].base, call[p].id)
  /\ \A w \in Workers : \A item \in listed[w] : CopyCurrent(item.rel, item.id)

\* No lost update: the stored revision counts the successful writes of the
\* release, so no Update has overwritten one it had not seen.
NoLostUpdate == \A id \in ReleaseID :
                  Stored(id) => releases[id].revision = Len(log[id])

\* The n-th revision of a release is audited, or its writer is about to.
AuditDue(id, n) ==
  \/ [id |-> id, revision |-> n, state |-> log[id][n].state] \in audits
  \/ \E p \in Procs : /\ call[p].pc = "audit"
                      /\ call[p].id = id
                      /\ call[p].rel.revision = n

\* Every revision written by CreateRelease or TransitionRelease has its audit
\* record, or the process that wrote it is about to append it; and no audit
\* record tells of a state that was not written under that revision.
AuditTrail ==
  /\ \A id \in ReleaseID : \A n \in 1 .. Len(log[id]) :
       log[id][n].op \in {"create", "transition", "gate"} => AuditDue(id, n)
  /\ \A a \in audits : /\ a.revision \in 1 .. Len(log[a.id])
                       /\ a.state = log[a.id][a.revision].state

\* Idempotency: whichever creates race, a key names at most one release and
\* the index knows it.
OneReleasePerKey ==
  \A id \in ReleaseID :
    Stored(id) /\ releases[id].idempotencyKey # NoKey
      => idempotency[releases[id].idempotencyKey] = id

\* A worker that acts on a listed page moves a release only if nobody has
\* moved it since it was listed: a paused, cancelled or rolled back release
\* is never set running or succeeded from a stale page.
StalePageHarmless ==
  [][\A w \in Workers : \A item \in listed[w] :
       /\ call[w].pc = "update"
       /\ call[w].id = item.id
       /\ call'[w].pc = "audit"
       => releases[item.id].state = item.rel.state]_vars

\* Release.CurrentWave names the last wave of the plan (or lies beyond it).
InLastWave(r) == r.currentWave + 1 >= Len(r.waves)

\* No wave is skipped: a release that has succeeded was in its last wave,
\* however often it was paused and resumed from stale pages.  So it is as long
\* as no client asks TransitionRelease for "succeeded", which no route does.
SucceedsInLastWave ==
  \A id \in ReleaseID :
    Stored(id) /\ releases[id].state = Succeeded => InLastWave(releases[id])

Lifecycle == INSTANCE ReleaseLifecycle
               WITH ReleaseID <- ReleaseID, releases <- releases

\* The service implements the atomic release table: although reads, checks
\* and writes of different calls interleave, the table changes as if every
\* call had been made alone.
LifecycleSpec == Lifecycle!Spec

\* A release of the first page that AdvanceReleases is still to move on.  The
\* greatest token is the exception: nothing can exceed it, so no transition
\* is possible any more.
Waiting(states, id) ==
  /\ Stored(id)
  /\ Cardinality(Older(id)) < PageLimit
  /\ releases[id].state \in states
  /\ releases[id].fencingToken < MaxToken

\* AdvanceReleases gets every release of the first page going and, unless
\* somebody stops it, through its waves to an end.
ReleasesAdvance ==
  \A id \in ReleaseID : \A states \in {{Pending, Retrying}, {Running}} :
    Waiting(states, id) ~> ~ Waiting(states, id)
-----------------------------------------------------------------------------
(***************************************************************************)
(* What the documentation says and the code does not do.                   *)
(***************************************************************************)

\* "ApplyHealthGate atomically applies the operational recommendation"
\* (operations.go): when the gate pauses a release, the reported failure rate
\* exceeds what the wave the release is in allows.
GateAtomic ==
  [][\A p \in Clients :
       call[p].op = "gate" /\ call[p].pc = "update" /\ call'[p].pc = "audit"
         => ShouldPause(releases[call[p].id], call[p].rate)]_vars
-----------------------------------------------------------------------------
(***************************************************************************)
(* The inductive invariants behind the properties: what the calls in       *)
(* flight and the listed pages know of the table.                          *)
(***************************************************************************)
Creating(p) == call[p].pc \in {"refs", "create"}

\* An identifier belongs to the one call that drew it until Create stores it.
CreatesOwnID ==
  /\ \A id \in ReleaseID : Stored(id) => id <= sequence
  /\ \A p \in Procs : Creating(p) =>
       /\ call[p].id \in 1 .. sequence
       /\ ~ Stored(call[p].id)
       /\ call[p].op = "create"
       /\ call[p].pc = "refs" => call[p].todo # <<>>
       /\ \E d \in Drafts : Validate(d) /\ call[p].rel = NewRelease(d)
  /\ \A p, q \in Procs :
       Creating(p) /\ Creating(q) /\ call[p].id = call[q].id => p = q

\* What is to be written is a fenced, legal transition of what was read.
UpdatesLegal ==
  \A p \in Procs :
    /\ call[p].pc \in {"assessed", "gate", "update", "audit"}
         => call[p].id \in ReleaseID
    /\ call[p].pc = "update" =>
         /\ call[p].base \in Release
         /\ call[p].op \in {"transition", "retry", "gate"}
         /\ \E to \in State, token \in Token :
              /\ CanTransition(call[p].base, to, token)
              /\ call[p].rel = Transition(call[p].base, to, token)

\* What is to be audited was written.
AuditsOwed ==
  \A p \in Procs : call[p].pc = "audit" =>
    /\ call[p].rel \in Release
    /\ call[p].rel.revision \in 1 .. Len(log[call[p].id])
    /\ log[call[p].id][call[p].rel.revision].state = call[p].rel.state

LogsStartEmpty == \A id \in ReleaseID : ~ Stored(id) => log[id] = <<>>

IndInv == /\ TypeOK
          /\ CreatesOwnID
          /\ UpdatesLegal
          /\ AuditsOwed
          /\ LogsStartEmpty
          /\ CopiesCurrent
          /\ NoLostUpdate
          /\ AuditTrail
          /\ OneReleasePerKey

\* For StalePageHarmless: a listed copy is behind the table in its token or
\* agrees in its state, and a worker's write is computed from a record in the
\* listed state.
PagesBehind ==
  \A w \in Workers : \A item \in listed[w] :
    /\ \A other \in listed[w] : item.id = other.id => item = other
    /\ item.rel.fencingToken <= releases[item.id].fencingToken
    /\ item.rel.fencingToken = releases[item.id].fencingToken
         => item.rel.state = releases[item.id].state
    /\ call[w].pc = "update" /\ call[w].id = item.id
         => call[w].base.state = item.rel.state

\* For SucceedsInLastWave: a listed copy has the plan of the stored release and
\* is at most as far in it, and a write that ends a release ends it in its last
\* wave.
WavesBehind ==
  /\ \A w \in Workers : \A item \in listed[w] :
       /\ item.rel.waves = releases[item.id].waves
       /\ item.rel.currentWave <= releases[item.id].currentWave
  /\ \A p \in Procs : call[p].pc = "update" /\ call[p].rel.state = Succeeded
                        => InLastWave(call[p].rel)
=============================================================================
