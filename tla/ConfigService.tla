---------------------------- MODULE ConfigService ----------------------------
(***************************************************************************)
(* The configuration operations of internal/application over the in-memory *)
(* repository of internal/repository: CreateConfig, CreateVersion and      *)
(* TransitionVersion, each followed by its audit record and its outbox     *)
(* event.                                                                  *)
(*                                                                         *)
(* As in ReleaseService, a step is one repository call with the            *)
(* computation around it.  Reads of a Config are not steps of their own:   *)
(* the service never changes or removes one, so Get always answers the     *)
(* same.  A call refused on its first repository call is not a step.       *)
(***************************************************************************)
EXTENDS ConfigDomain

CONSTANTS
  Procs,         \* goroutines calling the service
  Key,           \* configuration keys, scope included
  NoKey,         \* the absence of a configuration under an identifier
  MaxConfigs,    \* bound on the identifiers CreateConfig issues
  MaxVersions,   \* bound on the versions of a configuration
  MaxRevision    \* bound on the revisions of a version

ASSUME ConfigAssumption == /\ MaxConfigs \in Nat
                           /\ MaxVersions \in Nat
                           /\ MaxRevision \in Nat
                           /\ NoKey \notin Key
                           /\ IsFiniteSet(Procs)

VARIABLES
  configs,      \* Memory.configs: the key of each configuration
  configKeys,   \* Memory.configKeys, 0 for a key not in the map
  issued,       \* configuration identifiers issued so far
  versions,     \* Memory.versions
  frame,        \* what each process has in flight
  audited,      \* audit records of versions
  outbox        \* number of outbox events about each version

vars == <<configs, configKeys, issued, versions, frame, audited, outbox>>
-----------------------------------------------------------------------------
ConfigID == 1 .. MaxConfigs

Number == 1 .. MaxVersions

Frame == [pc: {"idle", "create", "deps", "put", "update", "audit", "emit"},
          id: ConfigID \cup {0},
          num: Number \cup {0},                      \* 0: about the Config
          key: Key \cup {NoKey},                     \* the key to create
          base: ConfigVersion \cup {NoVersion},      \* the copy that was read
          next: ConfigVersion \cup {NoVersion}]      \* the record to write

Idle == [pc |-> "idle", id |-> 0, num |-> 0, key |-> NoKey,
         base |-> NoVersion, next |-> NoVersion]

AuditRecord == [id: ConfigID, num: Number, revision: Nat, state: VersionState]

Init == /\ configs = [id \in ConfigID |-> NoKey]
        /\ configKeys = [k \in Key |-> 0]
        /\ issued = 0
        /\ versions = [id \in ConfigID |-> [n \in Number |-> NoVersion]]
        /\ frame = [p \in Procs |-> Idle]
        /\ audited = {}
        /\ outbox = [id \in ConfigID |-> [n \in Number |-> 0]]

Exists(id) == configs[id] # NoKey

Stored(id, n) == versions[id][n] # NoVersion

Goto(p, f) == frame' = [frame EXCEPT ![p] = f]
-----------------------------------------------------------------------------
\* CreateConfig: issue an identifier, create, audit, emit.
CreateConfig(p, k) ==
  /\ frame[p] = Idle
  /\ issued < MaxConfigs
  /\ issued' = issued + 1
  /\ Goto(p, [Idle EXCEPT !.pc = "create", !.id = issued', !.key = k])
  /\ UNCHANGED <<configs, configKeys, versions, audited, outbox>>

KeyExistsNever(k) == FALSE

KeyExists(k) == configKeys[k] # 0

RepositoryCreate(p) ==
  LET f == frame[p]
  IN  /\ f.pc = "create"
      /\ \/ /\ ~ KeyExists(f.key)
            /\ configs' = [configs EXCEPT ![f.id] = f.key]
            /\ configKeys' = [configKeys EXCEPT ![f.key] = f.id]
            /\ Goto(p, [f EXCEPT !.pc = "audit", !.key = NoKey])
         \/ /\ KeyExists(f.key)
            /\ Goto(p, Idle)
            /\ UNCHANGED <<configs, configKeys>>
      /\ UNCHANGED <<issued, versions, audited, outbox>>
-----------------------------------------------------------------------------
(***************************************************************************)
(* CreateVersion: list the versions to find the next number, list them     *)
(* again for the dependency check, put, audit, emit.                       *)
(***************************************************************************)
StoredNumbers(id) == {n \in Number : Stored(id, n)}

\* One more than the greatest number listed.
NextNumber(id) == Max(StoredNumbers(id) \cup {0}) + 1

CreateVersion(p, id, value) ==
  /\ frame[p] = Idle
  /\ Exists(id)
  /\ NextNumber(id) \in Number
  /\ Goto(p, [Idle EXCEPT !.pc = "deps", !.id = id, !.num = NextNumber(id),
                          !.next = NewVersion(value)])
  /\ UNCHANGED <<configs, configKeys, issued, versions, audited, outbox>>

(***************************************************************************)
(* validateDependencies: the graph of the configuration's own versions,    *)
(* named id@number, with the new one added; and no required dependency on  *)
(* the configuration's key.  Dependencies on other keys are not followed.  *)
(***************************************************************************)
Graph(id, vs) ==
  [x \in {<<id, n>> : n \in {m \in Number : vs[m] # NoVersion}} |->
     DependsOn[vs[x[2]].value]]

WithoutNew(f) == Graph(f.id, versions[f.id])

WithNew(f) == Graph(f.id, [versions[f.id] EXCEPT ![f.num] = f.next])

DependenciesValid(f) == /\ ~ HasCycle(WithNew(f))
                        /\ configs[f.id] \notin Required[f.next.value]

ValidateDependencies(p) ==
  /\ frame[p].pc = "deps"
  /\ Goto(p, IF DependenciesValid(frame[p]) THEN [frame[p] EXCEPT !.pc = "put"]
                                            ELSE Idle)
  /\ UNCHANGED <<configs, configKeys, issued, versions, audited, outbox>>

NumberTakenNever(id, n) == FALSE

NumberTaken(id, n) == Stored(id, n)

PutVersion(p) ==
  LET f == frame[p]
  IN  /\ f.pc = "put"
      /\ \/ /\ ~ NumberTaken(f.id, f.num)
            /\ versions' = [versions EXCEPT ![f.id][f.num] = f.next]
            /\ Goto(p, [f EXCEPT !.pc = "audit"])
         \/ /\ NumberTaken(f.id, f.num)
            /\ Goto(p, Idle)
            /\ UNCHANGED versions
      /\ UNCHANGED <<configs, configKeys, issued, audited, outbox>>
-----------------------------------------------------------------------------
(***************************************************************************)
(* TransitionVersion: read, compare with the revision the caller expects,  *)
(* compute; write if the revision is still the one read; audit; emit.      *)
(***************************************************************************)
Accepts(id, n, to, expected) ==
  /\ Stored(id, n)
  /\ expected = versions[id][n].revision
  /\ CanTransition(versions[id][n], to)

Computed(id, n, to) ==
  [Idle EXCEPT !.pc = "update", !.id = id, !.num = n,
               !.base = versions[id][n],
               !.next = Transition(versions[id][n], to)]

TransitionVersion(p, id, n, to, expected) ==
  /\ frame[p] = Idle
  /\ Accepts(id, n, to, expected)
  /\ versions[id][n].revision < MaxRevision
  /\ Goto(p, Computed(id, n, to))
  /\ UNCHANGED <<configs, configKeys, issued, versions, audited, outbox>>

RevisionIgnored(old, expected) == TRUE

RevisionMatches(old, expected) == old.revision = expected

UpdateVersion(p) ==
  LET f == frame[p]
  IN  /\ f.pc = "update"
      /\ \/ /\ RevisionMatches(versions[f.id][f.num], f.base.revision)
            /\ versions' = [versions EXCEPT ![f.id][f.num] = f.next]
            /\ Goto(p, [f EXCEPT !.pc = "audit", !.base = NoVersion])
         \/ /\ ~ RevisionMatches(versions[f.id][f.num], f.base.revision)
            /\ Goto(p, Idle)
            /\ UNCHANGED versions
      /\ UNCHANGED <<configs, configKeys, issued, audited, outbox>>
-----------------------------------------------------------------------------
\* The audit record and the event after a successful write; num is 0 for
\* those about a Config, of which no count is kept.
AuditOf(f) == [id |-> f.id, num |-> f.num, revision |-> f.next.revision,
               state |-> f.next.state]

AuditsAfter(f) == IF f.num = 0 THEN audited ELSE audited \cup {AuditOf(f)}

Audit(p) ==
  /\ frame[p].pc = "audit"
  /\ audited' = AuditsAfter(frame[p])
  /\ Goto(p, [frame[p] EXCEPT !.pc = "emit"])
  /\ UNCHANGED <<configs, configKeys, issued, versions, outbox>>

EventsAfter(f) ==
  IF f.num = 0 THEN outbox ELSE [outbox EXCEPT ![f.id][f.num] = @ + 1]

Emit(p) ==
  /\ frame[p].pc = "emit"
  /\ outbox' = EventsAfter(frame[p])
  /\ Goto(p, Idle)
  /\ UNCHANGED <<configs, configKeys, issued, versions, audited>>
-----------------------------------------------------------------------------
\* expected ranges over the revisions a caller may have seen.
Request(p) ==
  \/ \E k \in Key : CreateConfig(p, k)
  \/ \E id \in ConfigID :
       \/ \E value \in Value : CreateVersion(p, id, value)
       \/ \E n \in Number, to \in VersionState, expected \in 1 .. MaxRevision :
            TransitionVersion(p, id, n, to, expected)

Serve(p) ==
  \/ RepositoryCreate(p)
  \/ ValidateDependencies(p)
  \/ PutVersion(p)
  \/ UpdateVersion(p)
  \/ Audit(p)
  \/ Emit(p)

Next == \E p \in Procs : Request(p) \/ Serve(p)

Spec == Init /\ [][Next]_vars
-----------------------------------------------------------------------------
(***************************************************************************)
(* Properties.                                                             *)
(***************************************************************************)

\* Every variable has its type: no call stores a version under a number or an
\* identifier the service did not issue.
TypeOK == /\ configs \in [ConfigID -> Key \cup {NoKey}]
          /\ configKeys \in [Key -> ConfigID \cup {0}]
          /\ issued \in 0 .. MaxConfigs
          /\ versions \in [ConfigID -> [Number -> ConfigVersion \cup {NoVersion}]]
          /\ frame \in [Procs -> Frame]
          /\ audited \subseteq AuditRecord
          /\ outbox \in [ConfigID -> [Number -> Nat]]

\* Racing CreateConfigs leave one configuration per key, and the key index
\* and the configurations agree (Memory.Create writes both).
KeysIndexed == /\ \A id \in ConfigID : Exists(id) => configKeys[configs[id]] = id
               /\ \A k \in Key : configKeys[k] # 0 => configs[configKeys[k]] = k

\* The version writes a process has made and not yet audited or announced.
Announcing(p, id, n) == /\ frame[p].pc \in {"audit", "emit"}
                        /\ frame[p].id = id
                        /\ frame[p].num = n

\* Every successful write of a version is announced by exactly one outbox
\* event, or its writer is about to emit it.
EventPerWrite ==
  \A id \in ConfigID, n \in Number : Stored(id, n) =>
    versions[id][n].revision
      = outbox[id][n] + Cardinality({p \in Procs : Announcing(p, id, n)})

AuditsOf(id, n, r) ==
  {a \in audited : a.id = id /\ a.num = n /\ a.revision = r}

\* The audit trail of a version, read by revision, is its path through the
\* transition table from draft to its state: no revision has two records, and
\* only what a process has just written may be missing.
AuditTrailIsPath ==
  /\ \A a, b \in audited :
       a.id = b.id /\ a.num = b.num
         => /\ a.revision = b.revision => a = b
            /\ b.revision = a.revision + 1 => b.state \in Allowed[a.state]
  /\ \A id \in ConfigID, n \in Number : Stored(id, n) =>
       \A r \in 1 .. versions[id][n].revision :
         \/ AuditsOf(id, n, r) # {}
         \/ \E p \in Procs : /\ frame[p].pc = "audit"
                             /\ Announcing(p, id, n)
                             /\ frame[p].next.revision = r

\* The dependency graph of a configuration's stored versions never has a
\* cycle, although CreateVersion checks it on a list that other creators may
\* have outdated by the time it puts the version.
DependenciesAcyclic == \A id \in ConfigID : ~ HasCycle(Graph(id, versions[id]))

Lifecycle == INSTANCE VersionLifecycle
               WITH ConfigID <- ConfigID, Number <- Number, versions <- versions

\* The service implements the version table: racing CreateVersions, which
\* take their number from a list read two calls earlier, leave no gap and
\* overwrite nothing, and no transition starts from a stale copy.
LifecycleSpec == Lifecycle!Spec
=============================================================================
