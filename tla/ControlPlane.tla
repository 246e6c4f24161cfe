---------------------------- MODULE ControlPlane ----------------------------
(***************************************************************************)
(* The control plane as it runs: the HTTP API and the scheduler goroutine  *)
(* over one service.  ReleaseService and ConfigService are composed here:  *)
(* CreateRelease looks referenced versions up in the version table, and    *)
(* after every transition it makes, AdvanceReleases moves the referenced   *)
(* versions along with TransitionVersion.                                  *)
(*                                                                         *)
(* Only what a route of internal/transport/httpapi reaches is requested:   *)
(* create, pause, resume, roll back and gate a release; create a           *)
(* configuration and a version; submit and schedule a version.             *)
(***************************************************************************)
EXTENDS Integers, Sequences, FiniteSets

CONSTANTS
  Clients, Workers, CallerTokens, FailureRates, Drafts,
  MinToken, MaxToken, IdempotencyKey, NoKey, NoRelease, MaxReleases, PageLimit,
  Key, Value, DependsOn, Required, NoVersion, MaxConfigs, MaxVersions, MaxRevision

VARIABLES
  releases, idempotency, sequence, call, listed, audits, log,
  configs, configKeys, issued, versions, frame, audited, outbox,
  done,     \* per worker, the references its loop has dealt with
  seen      \* per worker, the revision its loop read, 0 for none

releaseVars == <<releases, idempotency, sequence, call, listed, audits, log>>

configVars == <<configs, configKeys, issued, versions, frame, audited, outbox>>

vars == <<releaseVars, configVars, done, seen>>
-----------------------------------------------------------------------------
Procs == Clients \cup Workers

\* A VersionRef names a configuration and the number of a version.
VersionRef == (1 .. MaxConfigs) \X (1 .. MaxVersions)

\* The states the release routes ask for: pause, resume, rollback.
Targets == {"paused", "running", "rolled_back"}

ApproveTargetsAll == {"reviewing", "scheduled", "rolling_out", "published", "expired"}

\* The states the approve route asks for.
ApproveTargets == {"reviewing", "scheduled"}

R == INSTANCE ReleaseService

C == INSTANCE ConfigService

\* What the two components assume of these constants.
ASSUME PlaneAssumption ==
  /\ MaxReleases \in Nat /\ MaxConfigs \in Nat /\ MaxVersions \in Nat
  /\ PageLimit \in Nat /\ MaxRevision \in Nat
  /\ Clients \cap Workers = {} /\ IsFiniteSet(Procs)
  /\ MinToken \in Int /\ MaxToken \in Int /\ MinToken < 0 /\ 0 < MaxToken
  /\ CallerTokens \subseteq R!Token
  /\ FailureRates \subseteq Nat
  /\ NoKey \notin IdempotencyKey \cup Key
  /\ Drafts \subseteq R!DraftType
  /\ NoRelease \notin R!Release
  /\ NoVersion \notin C!ConfigVersion

Init == /\ R!Init
        /\ C!Init
        /\ done = [w \in Workers |-> 0]
        /\ seen = [w \in Workers |-> 0]

VersionOf(ref) == versions[ref[1]][ref[2]]

\* A client serves one request at a time.
Free(p) == call[p] = R!Idle /\ frame[p] = C!Idle
-----------------------------------------------------------------------------
(***************************************************************************)
(* The routes that change state, and the further steps of their calls.     *)
(***************************************************************************)
createRelease(p) == \E d \in Drafts : R!CreateRelease(p, d)

\* pause, resume and rollback
releaseTransition(p) ==
  \E id \in R!ReleaseID, to \in Targets, token \in CallerTokens :
    R!TransitionRelease(p, id, to, token)

healthGate(p) ==
  \E id \in R!ReleaseID, rate \in FailureRates, token \in CallerTokens :
    R!AssessReleaseHealth(p, id, rate, token)

createConfig(p) == \E k \in Key : C!CreateConfig(p, k)

createVersion(p) ==
  \E id \in C!ConfigID, value \in Value : C!CreateVersion(p, id, value)

approve(p) ==
  \E id \in C!ConfigID, n \in C!Number, to \in ApproveTargets,
     expected \in 1 .. MaxRevision :
    C!TransitionVersion(p, id, n, to, expected)

Request(p) ==
  /\ Free(p)
  /\ \/ /\ createRelease(p) \/ releaseTransition(p) \/ healthGate(p)
        /\ UNCHANGED configVars
     \/ /\ createConfig(p) \/ createVersion(p) \/ approve(p)
        /\ UNCHANGED releaseVars
  /\ UNCHANGED <<done, seen>>

\* CreateRelease's test of a referenced version.
Usable(ref) == /\ VersionOf(ref) # NoVersion
               /\ VersionOf(ref).state \in {"scheduled", "reviewing"}

ReleaseServe(p) ==
  /\ \/ R!CheckRef(p, Usable(Head(call[p].todo)))
     \/ R!RepositoryCreate(p)
     \/ R!ReadAgain(p)
     \/ R!GateTransition(p)
     \/ R!Finish(p)
  /\ UNCHANGED <<configVars, done, seen>>

ConfigServe(p) == C!Serve(p) /\ UNCHANGED <<releaseVars, done, seen>>
-----------------------------------------------------------------------------
(***************************************************************************)
(* AdvanceReleases.  After a transition (call[w] is "done") the loop over  *)
(* VersionRefs reads each version, and has TransitionVersion move it if it *)
(* is in the state the release's new state calls for.                      *)
(***************************************************************************)
Work(w) ==
  /\ \/ R!Work(w)
     \/ R!Update(w)
     \/ R!Audit(w)
  /\ UNCHANGED <<configVars, done, seen>>

InLoop(w) == call[w].pc = "done" /\ frame[w] = C!Idle

Refs(w) == call[w].rel.versionRefs

NextRef(w) == Refs(w)[done[w] + 1]

DueScheduled(w) == "scheduled"

\* A started release rolls scheduled versions out; a succeeded one publishes
\* those rolling out.
Due(w) == IF call[w].rel.state = "running" THEN "scheduled" ELSE "rolling_out"

Goal(w) == IF call[w].rel.state = "running" THEN "rolling_out" ELSE "published"

ReadRef(w) ==
  /\ InLoop(w)
  /\ seen[w] = 0
  /\ done[w] < Len(Refs(w))
  /\ LET v == VersionOf(NextRef(w))
     IN  IF v # NoVersion /\ v.state = Due(w)
         THEN seen' = [seen EXCEPT ![w] = v.revision] /\ UNCHANGED done
         ELSE done' = [done EXCEPT ![w] = @ + 1] /\ UNCHANGED seen
  /\ UNCHANGED <<releaseVars, configVars>>

MoveRef(w) ==
  LET ref == NextRef(w)
  IN  /\ InLoop(w)
      /\ seen[w] # 0
      /\ \/ C!TransitionVersion(w, ref[1], ref[2], Goal(w), seen[w])
         \/ /\ ~ C!Accepts(ref[1], ref[2], Goal(w), seen[w])
            /\ UNCHANGED configVars
      /\ done' = [done EXCEPT ![w] = @ + 1]
      /\ seen' = [seen EXCEPT ![w] = 0]
      /\ UNCHANGED releaseVars

EndLoop(w) ==
  /\ InLoop(w)
  /\ seen[w] = 0
  /\ done[w] = Len(Refs(w))
  /\ R!Return(w)
  /\ done' = [done EXCEPT ![w] = 0]
  /\ UNCHANGED <<configVars, seen>>

Schedule(w) == Work(w) \/ ReadRef(w) \/ MoveRef(w) \/ EndLoop(w)
-----------------------------------------------------------------------------
Next == \/ \E p \in Clients : Request(p) \/ ReleaseServe(p)
        \/ \E w \in Workers : Schedule(w)
        \/ \E p \in Procs : ConfigServe(p)

Spec == Init /\ [][Next]_vars

\* The scheduler goroutine never blocks and is started again at every tick.
FairSpec == /\ Spec
            /\ \A w \in Workers : WF_vars(Schedule(w) \/ ConfigServe(w))
-----------------------------------------------------------------------------
(***************************************************************************)
(* Properties.                                                             *)
(***************************************************************************)

\* The composition is an implementation of the release component: what the
\* scheduler does to versions in between takes nothing from ReleaseService.
ReleaseSpec == R!Spec

\* And of the configuration component, the scheduler being one more caller
\* of TransitionVersion.
ConfigSpec == C!Spec

References(id, ref) ==
  /\ R!Stored(id)
  /\ \E i \in 1 .. Len(releases[id].versionRefs) : releases[id].versionRefs[i] = ref

Reached(id, state) == \E n \in 1 .. Len(log[id]) : log[id][n].state = state

\* Some release that references ref has been in state.
Carried(ref, state) ==
  \E id \in R!ReleaseID : References(id, ref) /\ Reached(id, state)

\* A version may be in state only after releases have carried it there.
Backed(ref, state) ==
  /\ state \in {"rolling_out", "published"} => Carried(ref, "running")
  /\ state = "published" => Carried(ref, "succeeded")

\* Versions follow releases: nobody rolls a version out before a release that
\* references it has run, or publishes one before such a release has
\* succeeded, whatever is approved, paused or rolled back in between.
VersionsFollowReleases ==
  \A ref \in VersionRef :
    VersionOf(ref) # NoVersion => Backed(ref, VersionOf(ref).state)

\* No wave is skipped, by whatever the routes and the scheduler do: a release
\* that AdvanceReleases has set succeeded was in its last wave.
SucceedsInLastWave == R!SucceedsInLastWave

\* What Evaluate serves never falls back to an older version: no route and no
\* scheduler step takes a published version down.
ServedNeverFallsBack ==
  [][\A id \in C!ConfigID :
       C!ServedNumber(versions'[id]) >= C!ServedNumber(versions[id])]_vars

\* A version is rolling out although every release that references it has
\* succeeded.
Lagging(ref) ==
  /\ VersionOf(ref) # NoVersion
  /\ VersionOf(ref).state = "rolling_out"
  /\ \A id \in R!ReleaseID : References(id, ref) => releases[id].state = "succeeded"

\* A rollout completes: the scheduler publishes what the succeeded releases
\* left rolling out, although success and publication are separate writes.
RolloutCompletes == \A ref \in VersionRef : Lagging(ref) ~> ~ Lagging(ref)
-----------------------------------------------------------------------------
(***************************************************************************)
(* The inductive invariant behind VersionsFollowReleases and ConfigSpec.   *)
(***************************************************************************)

\* A copy of a stored release has its references: nobody changes them.
SameRefs(r, id) == /\ R!Stored(id)
                   /\ r.versionRefs = releases[id].versionRefs

\* What a release call in flight knows of the table.  A worker starts and ends
\* releases, and has done so when it comes to the referenced versions.
CallKnows(p) ==
  LET c == call[p]
  IN  /\ c.pc \in {"refs", "create", "update", "audit", "done"} => c.rel \in R!Release
      /\ c.pc # "idle" => c.id \in R!ReleaseID
      /\ c.pc = "refs" => c.todo # <<>>
      /\ c.pc \in {"update", "audit", "done"} => SameRefs(c.rel, c.id)
      /\ p \in Workers /\ c.pc # "idle" =>
           /\ c.rel.state \in {"running", "succeeded"}
           /\ c.pc # "update" => Reached(c.id, c.rel.state)

ReleasesKnown ==
  /\ releases \in [R!ReleaseID -> R!Release \cup {NoRelease}]
  /\ sequence \in Nat
  /\ call \in [Procs -> R!Call]
  /\ listed \in [Workers -> SUBSET R!Item]
  /\ log \in [R!ReleaseID -> Seq(R!LogEntry)]
  /\ \A p \in Procs : CallKnows(p)
  /\ \A w \in Workers : \A item \in listed[w] : SameRefs(item.rel, item.id)

\* A version write in flight is backed by releases already.
FrameBacked(f) ==
  f.pc \in {"deps", "put", "update"} => /\ f.next \in C!ConfigVersion
                                        /\ Backed(<<f.id, f.num>>, f.next.state)

VersionsBacked ==
  /\ versions \in [C!ConfigID -> [C!Number -> C!ConfigVersion \cup {NoVersion}]]
  /\ issued \in Nat
  /\ frame \in [Procs -> C!Frame]
  /\ \A p \in Procs : FrameBacked(frame[p])
  /\ VersionsFollowReleases

\* A worker between reading a version and moving it is at a reference.
LoopsInRange ==
  /\ done \in [Workers -> Nat]
  /\ seen \in [Workers -> Nat]
  /\ \A w \in Workers : seen[w] # 0 => /\ call[w].pc = "done"
                                        /\ done[w] < Len(Refs(w))

PlaneInv == ReleasesKnown /\ VersionsBacked /\ LoopsInRange

\* Behind ServedNeverFallsBack: a transition in flight cannot meet a published
\* version.  It started from one that was not published, and a version that
\* has been written since has a greater revision.
SparesPublished(f) ==
  LET v == versions[f.id][f.num]
  IN  f.pc = "update" =>
        /\ f.id \in C!ConfigID /\ f.num \in C!Number /\ v # NoVersion
        /\ f.base.revision \in Nat
        /\ f.base.revision < f.next.revision
        /\ f.base.revision <= v.revision
        /\ v.state = "published" => f.base.revision # v.revision

PublishedSpared == \A p \in Procs : SparesPublished(frame[p])
=============================================================================
