# Verification of the feature release control plane

TLA+ specifications of the Go service in this repository, TLC models that check
them on small instances, and TLAPS proofs of the main theorems for every
instance. All paths below are relative to `internal/`.

## The system

The control plane is one process: an HTTP API (`transport/httpapi`), a service
layer (`application`) over in-memory repositories (`releasedomain`,
`repository`), and one scheduler goroutine (`bootstrap/app.go`, `RunWorkers`)
that calls `AdvanceReleases` every second.

A **configuration** owns numbered **versions**. A version moves through
draft, reviewing, scheduled, rolling_out, published (`configdomain/model.go`);
the highest published number is what `Evaluate` serves. A **release** references
versions and a plan of **waves**; the scheduler starts it, takes it through its
waves and lets it succeed, and moves the referenced versions along. Operators
pause, resume, roll back and gate releases. Every write carries a revision
(compare-and-set in the repository); a release's change of state also carries a
fencing token that must exceed the stored one.

Each repository method holds a mutex and is atomic. A service method holds no
lock between two of them. That is the granularity of all the models: **a step is
one repository call with the computation around it**, and everything a call
carries to its next repository call (copies read, numbers drawn, tokens) is
state of the process (`call`, `frame`, `listed`).

Around this core the repository has a change feed (audit chain, outbox, SSE
streams), a webhook dispatcher, fencing leases, a rate limiter, and read-only
algorithms: targeting rules, dependency graph, time windows, expiry scans, health
figures.

### Inventory

| Part | Source | Operations that change state | Modelled in |
|---|---|---|---|
| Release aggregate | `releasedomain/model.go` | Transition | `ReleaseDomain` |
| Release repository | `releasedomain/repository.go` | Create, Update | `ReleaseService` |
| Release operations | `application/service.go`, `operations.go` | CreateRelease, TransitionRelease, RetryRelease, ApplyHealthGate | `ReleaseService` |
| Scheduler | `service.go`, `bootstrap/app.go` | AdvanceReleases | `ReleaseService`, `ControlPlane` |
| Version aggregate | `configdomain/model.go` | Transition | `ConfigDomain` |
| Configuration operations | `service.go`, `repository/memory.go` | CreateConfig, CreateVersion, TransitionVersion | `ConfigService` |
| HTTP routes | `transport/httpapi/server.go` | which call with which target | `ControlPlane` |
| Audit log | `audit`, `memory_audit_outbox.go`, `operations.go` | Append | `ChangeFeed` |
| Outbox, change stream | same, `service.go`, `server.go`, `app.go` | Add, MarkDelivered, Subscribe, emit | `ChangeFeed` |
| Webhook dispatcher | `notify` | Enqueue, Close, deliver, retry | `Dispatcher` |
| Fencing leases | `fencing` | Acquire, Renew, Release, ExpireStale | `FencingLease` |
| Rate limiter | `ratelimit` | Allow, Reset | `RateLimit` |
| Evaluation, targeting | `service.go`, `configdomain/targeting.go` | none | `Targeting`, `Evaluation` |
| Dependency graph | `configdomain/graph.go` | none | `DependencyGraph`, `ConfigService` |
| Expiry and window scans | `scheduler` | none | `Windows` |
| Health window, aggregation | `releasedomain/analytics.go`, `metrics/aggregator.go` | Record | `HealthStats` |
| Sampling, import, export, environment | `metrics`, `importexport`, `platform` | see the last section | not modelled |

## Modules

| Module | What it is |
|---|---|
| `ReleaseDomain` | the release record, transition table, fencing, wave plan |
| `ReleaseLifecycle` | abstract: the release table with atomic Create, Move, Advance |
| `ReleaseService` | the service over the release repository, call by call |
| `ConfigDomain` | the version record, transition table, what is served, what a cycle is |
| `VersionLifecycle` | abstract: the version table with atomic Create and Move |
| `ConfigService` | the service over the configuration repository, call by call |
| `ControlPlane` | both services composed: API routes and the scheduler |
| `ChangeFeed` | what follows a write: audit chain, outbox, streams, delivery loop |
| `Delivery` | abstract: an accepted event gets at most one outcome |
| `Dispatcher` | queue, workers, retry policy, results, Close |
| `FencingLease` | lease manager over the lease store |
| `RateLimit` | token buckets and their registry |
| `Slices` | the loops over slices the algorithms share |
| `Targeting`, `Windows`, `HealthStats` | read-only algorithms as operators |
| `DependencyGraph` | the two depth-first searches, call by call |
| `Evaluation` | an input for the algorithms, the clock, and what they should compute |
| `MC*` | small instances |
| `*Proofs` | theorems about the module they are named after; `GuardProofs` is about `FencingLease` and `RateLimit`, `DependencyGraphProofs` about the searches of `Evaluation` |

### ReleaseService

`call[p]` is the frame of process `p`; its `pc` is the point between two
repository calls. `CreateRelease` validates and draws an identifier, `CheckRef`
is one `GetVersion` of its loop, `RepositoryCreate` is `MemoryRepository.Create`
with both its checks. `TransitionRelease` reads and computes, `Update` is the
repository's compare-and-set, `Audit` is `Service.audit`. `ApplyHealthGate` is
`AssessReleaseHealth`, `ReadAgain`, `GateTransition`, then `Update` and `Audit`:
it reads the release three times. `AdvanceReleases` lists a page (`ListReleases`)
and then goes through it in order (`AdvanceRelease`, `AdvanceWave`,
`SkipRelease`); the token it presents is one more than that of the *listed* copy,
while the record it changes is read afresh. Calls that fail on their first
repository call leave no trace and are not steps.

A release is named by the rank of its `CreatedAt`, the order `List` sorts by.
Left out of the record: identifier text, scope, timestamps, reasons. Failure
rates are whole percents (the code only compares them). Tokens have a least and a
greatest value and wrap, as int64 does. `log` is a history variable: the
operation and state of each revision.

Whether a referenced version is usable is left open here (`usable`); in
`ControlPlane` it is the state of the version.

### ConfigService

`CreateConfig` draws an identifier, `RepositoryCreate` is `Memory.Create`.
`CreateVersion` lists the versions and picks the next number,
`ValidateDependencies` lists them again and builds the graph the code builds
(nodes are the configuration's own versions, named identifier and number; the
values' dependencies are a constant), `PutVersion` refuses a number already
stored. `TransitionVersion`, `UpdateVersion`, `Audit`
and `Emit` follow the code's order: write, audit, announce. Reads of a `Config`
are not steps because no call of the service changes or removes one.

### ControlPlane

Composes the two with `INSTANCE`. `Request` is the set of state-changing routes;
pause, resume and rollback are the only targets of releases, reviewing and
scheduled the only ones of versions. After a transition of its own the scheduler
goes through the release's references: `ReadRef` is `GetVersion`, `MoveRef`
starts `TransitionVersion` with the revision just read, `EndLoop` goes on to the
next release. `ReleaseSpec` and `ConfigSpec` say that the composition is still an
implementation of each part; they are proved.

### ChangeFeed

A writer has just written a configuration, a version or a release. `StampAudit`
draws the identifier and the time, `AppendAudit` is `Memory.Append`, which seals
the record to the last one; then, for all but releases, `DrawCursor`, `Add` and
`Broadcast` are the three parts of `emit`. Each takes one lock, and other writers
come in between. `Subscribe`, `Send` and `Cancel` are the SSE route; `Pending` and
`MarkDelivered` are the delivery loop of `RunWorkers`. `Kept` is the loop by which
`QueryAudit` filters a scope. A hash is the tuple of what it is computed from. `got`
and `since` are history variables.

### Dispatcher

`Enqueue` takes the mutex and keeps it while `Send` waits for room. `Close` is the
call of Close, which may have to wait for the mutex; `CloseMark` and `CloseQueue` are
its two parts. A worker goes through `Take`,
`Check`, `Deliver`, `Backoff`, `Report`, which is `RetryPolicy.Do` inside the
worker's loop; when its context is cancelled and the queue is not empty, the
select takes either case. `accepted`, `collected` and `tries` are history.

### FencingLease

`Acquire`, `Renew` and the two halves of `ExpireStale` read the store; `Store` and
`ExpireDelete` write it in a later step. The clock of `Acquire` is read before the
store, that of `Renew` after it. `Put` and `Delete` are the store's; `Acquire` ignores
the error of `Put` and returns the lease all the same, `Renew` does not. `granted`
remembers what was returned since the key's lease was last deleted, and whether it
was stored.

### RateLimit

`FetchBucket` and `Allow` are the two locks of `Registry.Allow`; a `Reset` may come
between them. `Advance` and `StepBack` move the wall clock. `StartWindow` is the observer's:
it starts counting a bucket's grants at any moment.

### The algorithms

`Targeting` (rule order, windows, labels, buckets), `Windows` (active windows, next
transition, expiry scans with a context that is cancelled after some checks and a
clock that runs while they scan) and `HealthStats` (validation, window, percentile,
aggregation) are operators. A loop of the code is
a function of the number of turns taken, such as `E` in `Evaluate`, with the body
of the loop as an operator (`Consider`, `ScanNext`, `Record`).

`DependencyGraph` has the recursion of `HasCycle` and `Dependencies` as a stack of
calls, each with its node and the dependency it looks at next. `VisitRoot` is a turn
of `HasCycle`'s loop over the map, whose order is any; `Visit` is `visit` up to its
loop, `Return` its end. `Look` is a turn of `Dependencies`' loop, `Leave` the end of a
call. `calls` is a history variable.

`Evaluation` chooses an input at the start, rules, windows, groups of versions,
observations or a graph to search, and lets the clock run.

## What is checked

`tlc -config X.cfg M` for each run of `PROJECT.json`.

| Run | Instance | Shows |
|---|---|---|
| `release_service` | 2 clients, 1 scheduler, 2 releases, tokens -4..4, page of 1, fair | see below |
| `config_service` | 2 callers, 2 identifiers, 1 key, 2 numbers, 3 values, revisions to 4 | see below |
| `rollout` | 1 client, 1 scheduler, 2 releases of 2 versions, fair | `VersionsFollowReleases`, `ServedNeverFallsBack`, `RolloutCompletes` |
| `change_feed` | 2 writers, 1 client with a filter, 2 scopes, buffer and list of 1, 4 numbers, 2 times | see below |
| `dispatcher` | 2 producers, 2 workers, 3 events, channels of 1, 2 attempts, fair | see below |
| `guards` | 2 goroutines of one owner, 1 of another, 1 key, versions to 2; or 2 callers, 1 key, 2 buckets, burst 2, 2/3 of a request per tick, 3 ticks | see below |
| `evaluation` | to 3 rules, 2 windows, 2 groups, 3 nodes, 3 observations, 4 times | see below |
| `gate_atomic` | 2 clients, 1 scheduler, 1 release | `GateAtomic` is violated |
| `scope_chain` | 1 writer, 2 scopes | `ScopeChainsVerify` is violated |
| `close_drains` | as `dispatcher` | `CloseDrains` is violated |
| `renew_extends` | as `guards` | `RenewExtends` is violated |
| `next_transition` | as `evaluation` | `TransitionsAnnounced` is violated |

**release_service.** `FencedTransitions`: whoever changes a release's state raises
its token. `CopiesCurrent`: a copy with the stored revision is the stored record,
so comparing revisions is enough. `NoLostUpdate`: the revision counts the
successful writes. `AuditTrail`: every revision written by a create or a
transition is recorded or about to be, and no record is wrong. (A retry writes no
audit record, and neither does a wave step; the property says so.)
`OneReleasePerKey`: racing creates with one key leave one release.
`StalePageHarmless`: the scheduler moves a release only if it is still in the
state it was listed in. `SucceedsInLastWave`: no wave is skipped on the way to
success. `LifecycleSpec`: the service implements `ReleaseLifecycle`.
`ReleasesAdvance`: every release of the page leaves pending, retrying and running,
unless its token is the greatest there is.

**config_service.** `KeysIndexed`: configurations and key index agree.
`EventPerWrite`: one outbox event for every version write. `AuditTrailIsPath`: the
trail of a version, read by revision, is a path through the transition table.
`DependenciesAcyclic`: the stored versions never form a cycle, although the check
runs on a list that may be outdated when the version is put. `LifecycleSpec`:
numbers are consecutive, values never change and transitions are
atomic, although numbers come from a list read two calls earlier.

**rollout.** A version is rolled out or published only behind a release that
references it and has run or succeeded. No step takes a served version down. Success
and publication are separate writes, and the scheduler completes the second.

**change_feed.** `AuditChain`: the log verifies, in whatever order writers stamp and
append. `StreamedIsStored`: what a client gets is in the outbox. `CursorsDistinct`: no client gets a cursor twice, reconnections
included. `BufferAbsorbs`: a stream misses an event only after more events than its
buffer holds. `StoredIsDelivered`: the bounded list starves no event.

**dispatcher.** `NoSendOnClosed`: no send on the closed channel. `NothingLost`: an
accepted event is in exactly one place until its result is read. `ResultsTruthful`:
"failed" means all attempts were made, "cancelled" that the context was cancelled.
`DrainsIfRead`: if somebody goes on reading the results, then after Close is called
all workers finish, and every accepted event has its result unless the context was
cancelled. `DeliverySpec`: the dispatcher implements `Delivery`.

**guards.** `OneOwnerPerVersion`: between two deletions no version is stored for two
owners. `LaterClaimsOutrank`: whoever acquires next gets a greater version than any
lease returned since the last deletion, those that `Put` refused included.
`GrantsBounded`: over any window a bucket grants at most its burst and what the ticks
of the window refill. `BurstPerReset`: racing callers share a bucket; a key has one
burst, and one more for every Reset.

**evaluation.** `RuleChoice`: the first match after sorting is the rule of the
highest priority that applies. `SharesGrow`: raising a percentage never drops a
subject. `OpeningsAnnounced`: no window opens before the instant announced, and
without a started window that is still to end the active-window result is stable
until then. `ExpiredNotServed`: what the scanner reports is no longer served when the
scan is done, every group it has finished with a candidate has an entry, and a
cancelled scan keeps the entries it had. `CyclesFound`: both searches agree with
reachability in every order of the roots, and `HasCycle` calls `visit` at most once
for a root and a dependency. `HealthFiguresAgree`: the health window, which refuses
invalid observations, the aggregator and the combined gates give the same figures.

**gate_atomic.** The comment on `ApplyHealthGate` says it acts atomically. Between
its assessment and its transition the scheduler can move the release to a wave
that tolerates the reported failure rate; the gate pauses it all the same.

**scope_chain.** `QueryAudit` verifies the records of one scope as a chain. A record
is sealed over the hash of the one before it in the whole log, so the second record,
of another scope, does not verify alone.

**close_drains.** Close is called, nobody reads the results any more, and a worker waits
for room among them for ever. In other behaviours a producer also waits for room in the
queue while it holds the mutex, and Close waits for the mutex. The specification has weak
fairness of every goroutine but the reader.

**renew_extends.** A goroutine acquires a lease and renews it. `Put` refuses the
version, and the lease expires as if it had not been renewed.

**next_transition.** The window from 0 to 1 is active at 0, and nothing is announced.

### Where the code and its comments differ

Five differences are the violated runs above: `application/operations.go:262`
(`gate_atomic`), `application/operations.go:46` (`scope_chain`),
`notify/dispatcher.go:17`, `:98` and `:115` (`close_drains`), `fencing/lease.go:37`
(`renew_extends`) and `scheduler/window.go:49` (`next_transition`). What holds in their
place is a property of a passing run or a theorem: `FencedTransitions` with
`NoLostUpdate`, `ScopedChains`, `DrainsIfRead`, `LaterClaimsOutrank`,
`OpeningsAnnounced`.

Others have no run of their own:

- `docs/runbook.md:7` expects that no worker can act without a higher fencing token.
  The wave step (`application/service.go:393`) writes under the old one; the revision
  check protects it (`NoLostUpdate`), and `FencedTransitions` is about the state.
- `docs/runbook.md:5` has SSE clients reconnect with their last cursor. The route
  reads none, so events broadcast while a client is away are not sent to it.
- `scheduler/expiry.go:59` and `:74` speak of the candidates of a group. `ScanGroup`
  returns at the first one, so a group's entry in `ScanAll` has one candidate, whatever
  `Scan` finds, and a cancelled `ScanGroup` returns none. `ExpiredNotServed` says which
  groups have an entry and that it holds candidates.
- `notify/retry.go:31` says the original error is preserved on cancellation. The
  context's error replaces it (`ResultsTruthful`).
- `releasedomain/analytics.go:111` leaves out an observation exactly at the cut-off
  that line 85 counts; if there is no other, the percentile's index is out of range and
  `Evaluate` panics. `HealthFiguresAgree` is about the other cut-offs.
- The health window drops the part of a millisecond of its percentile and refuses
  invalid observations; the aggregator of `metrics` does neither, so they are compared
  on valid observations and up to a millisecond.
- The branch for mutually exclusive experiments in `configdomain/targeting.go` is
  never taken, because Evaluate returns at the first match (`RuleChoice`).

What the lease manager does not do, though no comment promises it: `Acquire` returns a
lease that `Put` has refused, so two owners can hold the same version, one of them
stored; a deletion forgets the version and the next lease has version 1, so a holder
from before can have the greater one; and `ExpireStale` deletes by owner and version
what it read earlier, which may by then be a fresh lease the same owner has acquired
after a release.

### Bounds

Two clients and a scheduler give every pair of racing calls, and a third process
between the read and the write of the first. Two releases with a page of one make
a release beyond the page; two-wave and one-wave plans make wave steps and their
absence; a draft whose percentages do not total 100 is refused. The caller tokens
include the greatest, so that the scheduler's next token wraps. The drafts start
at the tokens 0 and the greatest. Of the ends of a release `failed` is the one a client
asks for, the only one that can be retried. In `config_service` two identifiers and one key make creations
collide; four revisions take a version from draft to rolling_out. It has
`CHECK_DEADLOCK FALSE` since nothing is possible once the bounds on identifiers,
numbers and revisions are used up; the code has no such bounds. In `ControlPlane`
six revisions are more than any route and the scheduler can make (draft to
published takes five).

In `change_feed` a buffer of one overflows at the second event, a list of one makes
two events compete for delivery, and the client's filter drops one of the scopes;
four numbers are two records and two events, or more of one kind. In `dispatcher`
channels of one with two workers and three events fill the queue, the results and
both pairs of hands at once; two attempts make one backoff. `guards` holds two
components that do not interact: a behaviour is of one of them. Two goroutines of one
owner and one of another read before any of them writes; a lease can be deleted any
number of times, and can expire, be deleted and be claimed again within three times. A
request costs three and a tick refills two, so that buckets hold fractions of a
request; the clock can be set back any number of times. In `evaluation` three rules, of thirteen valid shapes, hold a tie and a
rule above or below it; two windows can overlap, nest or miss each other; graphs of
three nodes and a name that is none hold every shape of cycle up to three; the clock
moves at most once during a scan (`MaxDelay`), after any of its reads; a millisecond is
two units, so that latencies of 5 have a part to drop. `change_feed`, `dispatcher`,
`guards` and `evaluation` also have `CHECK_DEADLOCK FALSE`: a dispatcher that is closed and drained has stopped, and in
the others the bounds on clock, numbers, versions or buckets run out.

Symmetry is used for processes in `config_service` and the goroutines of one owner in
`guards`, never together with liveness.

### Fairness

In the control plane only the scheduler is fair: `RunWorkers` calls `AdvanceReleases` at every tick,
and no call in it blocks. Clients may stop anywhere. Liveness is checked with one
scheduler because the process starts one. This matters: with two,
`RolloutCompletes` fails. The first starts a release and is slow to move its
versions, the second succeeds it and finds nothing rolling out, and the versions
then stay rolling_out.

`ChangeFeed` assumes fairness of the delivery loop alone, for the same reason.
`Dispatcher` assumes it of goroutines that can go on: a producer with room in the
queue, a worker with something to do, a Close that finds the mutex free. Nobody has to
call Enqueue or Close, read the results or cancel. That the results are read is a
premise of `DrainsIfRead`, not of the specification: `WF_vars(Collect) => CloseDrains`.

## What is proved

`tlapm M.tla` for each of the eight modules `*Proofs`. The theorems hold for every
value of the constants that satisfies the named `ASSUME`s of the modules: bounds
and sizes are natural numbers (positive where the code makes them so), tables of
inputs have their types, an absent key, version, lease, stream or event is none,
clients and workers of `ReleaseService` are disjoint, tokens have a negative and a
positive value. The processes of `ConfigService` are finitely many, since
`EventPerWrite` counts them. `PlaneAssumption` is what the two components assume,
put together. `Evaluation` assumes that rules have all fields of the Go struct and
have passed `TargetRule.Validate`, that a bucket is a remainder, that times are
natural numbers or absent, and that a graph is a finite map from names to lists of
names.

| Theorem | Statement |
|---|---|
| `ReleaseServiceProofs!TypeCorrect` | `Spec => []TypeOK` |
| `ReleaseServiceProofs!RevisionsIdentifyRecords` | `Spec => []CopiesCurrent` |
| `ReleaseServiceProofs!WritesAreNotLost` | `Spec => []NoLostUpdate` |
| `ReleaseServiceProofs!WritesAreAudited` | `Spec => []AuditTrail` |
| `ReleaseServiceProofs!CreatesAreIdempotent` | `Spec => []OneReleasePerKey` |
| `ReleaseServiceProofs!Refinement` | `Spec => LifecycleSpec` |
| `ReleaseServiceProofs!Fencing` | `Spec => FencedTransitions` |
| `ReleaseServiceProofs!StalePages` | `Spec => StalePageHarmless` |
| `ReleaseServiceProofs!NoWaveSkipped` | `Spec => []SucceedsInLastWave`, if `succeeded` is no target of clients |
| `ConfigServiceProofs!KeysStayIndexed` | `Spec => []KeysIndexed` |
| `ConfigServiceProofs!DependenciesStayAcyclic` | `Spec => []DependenciesAcyclic` |
| `ConfigServiceProofs!AuditTrailsArePaths` | `Spec => []AuditTrailIsPath` |
| `ConfigServiceProofs!ImplementsLifecycle` | `Spec => LifecycleSpec` |
| `ConfigServiceProofs!WritesAreAnnounced` | `Spec => []EventPerWrite` |
| `ChangeFeedProofs!LogVerifies` | `Spec => []AuditChain` |
| `ChangeFeedProofs!ScopedChains` | `Spec => []ScopeChainsVerifyIfUnmixed` |
| `ChangeFeedProofs!StreamsAreStored` | `Spec => []StreamedIsStored` |
| `ChangeFeedProofs!CursorsAreDistinct` | `Spec => []CursorsDistinct` |
| `ChangeFeedProofs!BuffersAbsorb` | `Spec => []BufferAbsorbs` |
| `DispatcherProofs!ClosedQueueIsQuiet` | `Spec => []NoSendOnClosed` |
| `DispatcherProofs!EventsAreKept` | `Spec => []NothingLost` |
| `DispatcherProofs!ResultsAreTrue` | `Spec => []ResultsTruthful` |
| `DispatcherProofs!ImplementsDelivery` | `Spec => DeliverySpec` |
| `GuardProofs!VersionsAreFences` | `Spec => []OneOwnerPerVersion` |
| `GuardProofs!ClaimsOutrank` | `Spec => []LaterClaimsOutrank` |
| `GuardProofs!RateIsBounded` | `RateSpec => []GrantsBounded` |
| `GuardProofs!BurstsAreCounted` | `RateSpec => []BurstPerReset` |
| `ControlPlaneProofs!ImplementsReleases` | `Spec => ReleaseSpec` |
| `ControlPlaneProofs!PlaneInvariant` | `Spec => []PlaneInv` |
| `ControlPlaneProofs!VersionsFollow` | `Spec => []VersionsFollowReleases` |
| `ControlPlaneProofs!ImplementsConfigs` | `Spec => ConfigSpec` |
| `ControlPlaneProofs!ServedStays` | `Spec => ServedNeverFallsBack` |
| `ControlPlaneProofs!WavesAreTaken` | `Spec => []SucceedsInLastWave` |
| `EvaluationProofs!RulesAreChosen` | `Spec => []RuleChoice` |
| `EvaluationProofs!SharesDoGrow` | `Spec => []SharesGrow` |
| `EvaluationProofs!OpeningsAreAnnounced` | `Spec => []OpeningsAnnounced` |
| `EvaluationProofs!ExpiredAreNotServed` | `Spec => []ExpiredNotServed` |
| `EvaluationProofs!HealthFiguresDoAgree` | `Spec => []HealthFiguresAgree` |
| `DependencyGraphProofs!SearchesAreRight` | `Spec => []CyclesFound` |

**ReleaseService.** None of the invariants is inductive alone. `IndInv` adds what
the frames know: an identifier belongs to the one call that drew it
(`CreatesOwnID`), so that `Create` never finds it taken; what is to be written is a fenced, legal transition
of what was read (`UpdatesLegal`); what is to be audited was written
(`AuditsOwed`). The proof first shows that each action has one of a few shapes
(`StepShape`: a frame stays, leaves, reads, draws, checks or commits; at most one
record is written, one revision on; a page only loses items or holds fresh
copies). Each conjunct is then preserved by every step of that shape, so the
actions are taken apart once and not once per conjunct.

`Refinement` uses `CopiesCurrent` at `Update`: equal revisions make the copy the
stored record, so the write is a move of the stored record. `Fencing` follows from
the refinement. `StalePages` needs `PagesBehind`: a listed copy has a smaller token
than the stored record or the same state, so the token one above it is accepted
only if the state is the listed one. `NoWaveSkipped` needs `WavesBehind`: a listed
copy has the plan of the stored release and is at most as far in it, so what looks
like the last wave on a stale page is the last wave.

**ConfigService.** `VersionInv` says of every frame what survives other processes'
writes: a creator's number has all smaller ones stored before it (`Numbered`); as
long as that number is free the graph it has checked is still the graph
(`Checked`), because nobody can have put a version meanwhile without taking the
number; a writer's copy is the stored version or has an older revision (`Copied`).
`CreatorsApart` says no two creators hold an identifier. The audit trail is proved
of the records made or owed (`History`), so that the order of the appends does not
matter. `EventCount` behind `EventPerWrite` is an equation: a version's revision is
the number of its events and of the processes that have written it and not yet
announced it. A write adds a process to that set, `Emit` takes one out.

**ChangeFeed.** `Flight`: a cursor between `DrawCursor` and `Broadcast` is one
writer's, and no client has seen it. With it, an appended cursor is new to the
client (`Apart`), and the set of broadcast events grows by one with each
broadcast, so a buffer holds no more than it counts (`Counted`). `Chained` is the
invariant of a scope's chain: it verifies if the scope is unbroken, and its last
hash is the log's exactly when the last record is the scope's, because a hash
contains the scope of its record. What the recursive function `Kept` computes is
proved first, by the least counterexample: the loop runs on any log (`LoopRuns`),
and records appended later do not change what it has kept (`LoopsAgree`).

**Dispatcher.** `Locking`: whoever is sending holds the mutex, and nobody does once
`done` is set. `Located` and `Single`: an accepted event is in one place, once;
cardinalities follow from that. `Counts` ties a worker's attempt to the tries made.

**FencingLease.** `GrantsBelow`: as long as something is granted a lease is stored, and
no granted version is greater than its. **RateLimit.** `Accounted` bounds what a bucket has granted together with
what it could still grant; the bound on grants alone says nothing of savings.

**ControlPlane.** `ImplementsReleases` needs no invariant: every step is one of
`ReleaseService` or leaves its variables alone. `ImplementsConfigs` needs to know
that a worker between `ReadRef` and `MoveRef` is at a reference that names a version
(`LoopsInRange`). `VersionsFollow` needs `PlaneInv`, which speaks of both halves at
once: a copy of a release has the references of the stored one (`SameRefs`), a
worker in its loop has brought the release into the state it acts for
(`CallKnows`), and a version write in flight is backed by releases before it is
made (`FrameBacked`). `ServedStays` adds `PublishedSpared`: neither a route nor the
scheduler asks for a state that is reached from published, and a transition that
read its version before the publication finds a greater revision when it writes.
`WavesAreTaken` is `NoWaveSkipped` carried over along `ImplementsReleases`; no route
asks for `succeeded`. Everything else proved of `ReleaseService` and
`ConfigService` holds of the control plane for the same reason.

**Evaluation.** The input never changes (`InputOK`), so each theorem is about one
call on inputs of any length. A loop is taken turn by turn: `LoopRuns` shows that
the recursive function of a loop exists and satisfies its equation, `EveryTurn` that
what holds before the first turn and is kept by each holds after the last; both
rest on the least counterexample. For the rules, `PlacesTaken` shows that
`Place` is a permutation, so that `SortRules` loses no rule and orders them
(`Sorts`). `Told` is the invariant of `Evaluate`'s loop: each rule so far is
explained, none but the last has matched. `ResharedSelects` compares two runs
that differ in one percentage: they select alike up to the changed rule.
The bounds of a window that has not started are announced (`BoundsAnnounced`). The invariant of `ScanAll`'s loop (`Scans`) says that the
entries are picked from the groups done, each at a time of the scan, and accounts for
the context checks made against the versions read; a candidate stays one as the clock
runs (`CandidateStays`). The observations recorded are a suffix of the valid ones (`Latest`), failures of
two parts add up to those of the whole (`FailuresAddUp`), and two gates that both
stay within a threshold do so together (`OneExceeds`).

**DependencyGraph.** `SearchOK` is the classical invariant of a search by colours. The calls in
progress are one path of grey nodes, each waiting for the next (`OnPath`), so
meeting a grey node closes a cycle (`PathIsCycle`). What is black depends on black
only, and no set of black nodes is a cycle (`BlackClosed`, `NoBlackCycle`): a node
turns black after all it depends on. When no root is left, all nodes are black.
`CallsCounted` counts a call of `visit` for each root met and dependency followed, each
once. For `Dependencies`, `ReachInv` says that the result is part of every closed set
and closed itself but for what the calls in progress have still to look at; with an
empty stack it is the least closed set.

Only model-checked: liveness (`ReleasesAdvance`, `RolloutCompletes`,
`StoredIsDelivered`, `DrainsIfRead`), which is out of the prover's reach. Every
invariant, action property and refinement that a passing run checks is proved. What
`SortSeq` makes of the latencies is not: that the percentiles agree is proved because
both are taken of the same sequence.

## Not modelled

- `metrics` sampling (`Sampler`, `Reservoir`, `Store`): a seeded random choice
  whose correctness is statistical. `ExposureCounter` and the signed
  `ReleaseToken`: a counter under a lock, and cryptography.
- `importexport`: conversion and per-record validation, no state.
- `platform/config`, `platform/httpx`, decoding, encoding, pages, error texts,
  logging: one value at a time, no interleaving.
- ETags, proofs, webhook signatures and hashes, except that SHA-256 is taken to be
  injective in the audit chain and that buckets are a fixed function.
- The length of a backoff (`notify/retry.go:49`) and with it the overflow of its
  shift.
- Shutdown and crashes: all repositories are in memory and nothing survives the
  process.
