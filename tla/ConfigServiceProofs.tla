------------------------ MODULE ConfigServiceProofs ------------------------
(***************************************************************************)
(* What holds of ConfigService for any number of processes, keys and       *)
(* configurations and any bounds: the key index, the version table as      *)
(* VersionLifecycle, and the acyclic dependencies of stored versions.      *)
(***************************************************************************)
EXTENDS ConfigService, FiniteSetTheorems, WellFoundedInduction, TLAPS

\* A set of naturals has a least element.
LEMMA LeastNatural ==
  ASSUME NEW T, T \subseteq Nat, T # {}
  PROVE  \E x \in T : \A y \in T : x <= y
  <1> DEFINE R == OpToRel(<, Nat)
  <1>1. R = {ss \in Nat \X Nat : ss[1] < ss[2]}
    BY Zenon DEF OpToRel
  <1>2. IsWellFoundedOn(R, Nat)
    BY Zenon, NatLessThanWellFounded
  <1> HIDE DEF R
  <1>3. PICK x \in T : \A y \in T : ~ (<<y, x>> \in R)
    BY ZenonT(30), <1>2, WFMin
  <1>4. \A y \in T : ~ (y < x)
    BY Zenon, <1>1, <1>3
  <1> QED BY <1>4

\* A bounded set of naturals has a greatest element.
LEMMA MaxIsGreatest ==
  ASSUME NEW n \in Nat, NEW S \in SUBSET (0 .. n), S # {}
  PROVE  Max(S) \in S /\ \A y \in S : y <= Max(S)
  <1> DEFINE T == {n - y : y \in S}
  <1>1. \A y \in S : n - y \in Nat
    OBVIOUS
  <1>2. T \subseteq Nat /\ T # {}
    BY ZenonT(30), <1>1
  <1>3. PICK t \in T : \A y \in T : t <= y
    BY Zenon, <1>2, LeastNatural
  <1>4. PICK x \in S : t = n - x
    BY Zenon, <1>3
  <1>5. \A y \in S : n - x <= n - y
    BY Zenon, <1>3, <1>4
  <1>6. \A y \in S : x >= y
    BY <1>5
  <1>7. Max(S) \in S /\ \A y \in S : Max(S) >= y
    BY ZenonT(30), <1>6 DEF Max
  <1> QED BY Zenon, <1>7
-----------------------------------------------------------------------------
Table == [ConfigID -> [Number -> ConfigVersion \cup {NoVersion}]]

\* The records the actions compute.
LEMMA VersionFields ==
  /\ \A value \in Value : /\ NewVersion(value) \in ConfigVersion
                          /\ NewVersion(value).value = value
  /\ \A v \in ConfigVersion, to \in VersionState :
       /\ Transition(v, to) \in ConfigVersion
       /\ Transition(v, to).value = v.value
       /\ Transition(v, to).revision = v.revision + 1
  /\ \A v \in ConfigVersion : v # NoVersion /\ v.revision \in Nat /\ v.state \in VersionState
  <1>1. \A value \in Value : /\ NewVersion(value) \in ConfigVersion
                             /\ NewVersion(value).value = value
    BY Zenon DEF NewVersion, ConfigVersion, VersionState
  <1>2. \A v \in ConfigVersion, to \in VersionState :
          /\ Transition(v, to) \in ConfigVersion
          /\ Transition(v, to).value = v.value
          /\ Transition(v, to).revision = v.revision + 1
    <2> SUFFICES ASSUME NEW v \in ConfigVersion, NEW to \in VersionState
                 PROVE  /\ Transition(v, to) \in ConfigVersion
                        /\ Transition(v, to).value = v.value
                        /\ Transition(v, to).revision = v.revision + 1
      BY Zenon
    <2> DEFINE r == v.revision + 1
    <2>1. r \in Nat
      BY DEF ConfigVersion
    <2> HIDE DEF r
    <2>2. LET t == [v EXCEPT !.state = to, !.revision = r]
          IN  t \in ConfigVersion /\ t.value = v.value /\ t.revision = r
      BY Zenon, <2>1 DEF ConfigVersion
    <2> QED BY Zenon, <2>2 DEF Transition, r
  <1>3. \A v \in ConfigVersion : v # NoVersion /\ v.revision \in Nat /\ v.state \in VersionState
    BY Zenon, NoVersionAssumption DEF ConfigVersion
  <1> QED BY Zenon, <1>1, <1>2, <1>3

\* The frames the actions assign.
Creating(id, k) == [Idle EXCEPT !.pc = "create", !.id = id, !.key = k]
Numbering(id, n, v) == [Idle EXCEPT !.pc = "deps", !.id = id, !.num = n, !.next = v]
Updating(id, n, u, v) ==
  [Idle EXCEPT !.pc = "update", !.id = id, !.num = n, !.base = u, !.next = v]
At(f, pc) == [f EXCEPT !.pc = pc]
Created(f) == [f EXCEPT !.pc = "audit", !.key = NoKey]
Updated(f) == [f EXCEPT !.pc = "audit", !.base = NoVersion]

\* They are frames, with the fields assigned.
LEMMA FrameFields ==
  /\ Idle \in Frame
  /\ \A id \in ConfigID, k \in Key :
       /\ Creating(id, k) \in Frame /\ Creating(id, k).pc = "create"
       /\ Creating(id, k).id = id /\ Creating(id, k).key = k /\ Creating(id, k).num = 0
  /\ \A id \in ConfigID, n \in Number, v \in ConfigVersion :
       /\ Numbering(id, n, v) \in Frame /\ Numbering(id, n, v).pc = "deps"
       /\ Numbering(id, n, v).id = id /\ Numbering(id, n, v).num = n
       /\ Numbering(id, n, v).next = v
  /\ \A id \in ConfigID, n \in Number, u, v \in ConfigVersion :
       /\ Updating(id, n, u, v) \in Frame /\ Updating(id, n, u, v).pc = "update"
       /\ Updating(id, n, u, v).id = id /\ Updating(id, n, u, v).num = n
       /\ Updating(id, n, u, v).base = u /\ Updating(id, n, u, v).next = v
  /\ \A f \in Frame, pc \in {"put", "audit", "emit"} :
       /\ At(f, pc) \in Frame /\ At(f, pc).pc = pc
       /\ At(f, pc).id = f.id /\ At(f, pc).num = f.num /\ At(f, pc).next = f.next
  /\ \A f \in Frame :
       /\ Created(f) \in Frame /\ Created(f).pc = "audit"
       /\ Created(f).id = f.id /\ Created(f).num = f.num
  /\ \A f \in Frame :
       /\ Updated(f) \in Frame /\ Updated(f).pc = "audit"
       /\ Updated(f).id = f.id /\ Updated(f).num = f.num /\ Updated(f).next = f.next
  <1>1. Idle \in Frame
    BY Zenon DEF Idle, Frame
  <1>2. \A id \in ConfigID, k \in Key :
          /\ Creating(id, k) \in Frame /\ Creating(id, k).pc = "create"
          /\ Creating(id, k).id = id /\ Creating(id, k).key = k /\ Creating(id, k).num = 0
    BY ZenonT(30), <1>1 DEF Idle, Frame, Creating
  <1>3. \A id \in ConfigID, n \in Number, v \in ConfigVersion :
          /\ Numbering(id, n, v) \in Frame /\ Numbering(id, n, v).pc = "deps"
          /\ Numbering(id, n, v).id = id /\ Numbering(id, n, v).num = n
          /\ Numbering(id, n, v).next = v
    BY ZenonT(30), <1>1 DEF Idle, Frame, Numbering
  <1>4. \A id \in ConfigID, n \in Number, u, v \in ConfigVersion :
          /\ Updating(id, n, u, v) \in Frame /\ Updating(id, n, u, v).pc = "update"
          /\ Updating(id, n, u, v).id = id /\ Updating(id, n, u, v).num = n
          /\ Updating(id, n, u, v).base = u /\ Updating(id, n, u, v).next = v
    <2> SUFFICES ASSUME NEW id \in ConfigID, NEW n \in Number,
                        NEW u \in ConfigVersion, NEW v \in ConfigVersion
                 PROVE  /\ Updating(id, n, u, v) \in Frame /\ Updating(id, n, u, v).pc = "update"
                        /\ Updating(id, n, u, v).id = id /\ Updating(id, n, u, v).num = n
                        /\ Updating(id, n, u, v).base = u /\ Updating(id, n, u, v).next = v
      BY Zenon
    <2> DEFINE e == [Idle EXCEPT !.id = id, !.num = n]
    <2>1. e \in Frame /\ e.id = id /\ e.num = n
      BY Zenon, <1>1 DEF Frame
    <2> DEFINE g == [e EXCEPT !.pc = "update", !.base = u, !.next = v]
    <2>2. g = Updating(id, n, u, v)
      BY ZenonT(30) DEF Idle, Updating
    <2> HIDE DEF e
    <2>3. /\ g \in Frame /\ g.pc = "update" /\ g.id = id /\ g.num = n
          /\ g.base = u /\ g.next = v
      BY Zenon, <2>1 DEF Frame
    <2> QED BY <2>2, <2>3, Zenon
  <1>5. \A f \in Frame, pc \in {"put", "audit", "emit"} :
          /\ At(f, pc) \in Frame /\ At(f, pc).pc = pc
          /\ At(f, pc).id = f.id /\ At(f, pc).num = f.num /\ At(f, pc).next = f.next
    BY Zenon DEF Frame, At
  <1>6. \A f \in Frame :
          /\ Created(f) \in Frame /\ Created(f).pc = "audit"
          /\ Created(f).id = f.id /\ Created(f).num = f.num
    BY ZenonT(30) DEF Frame, Created
  <1>7. \A f \in Frame :
          /\ Updated(f) \in Frame /\ Updated(f).pc = "audit"
          /\ Updated(f).id = f.id /\ Updated(f).num = f.num /\ Updated(f).next = f.next
    BY Zenon DEF Frame, Updated
  <1> QED BY <1>1, <1>2, <1>3, <1>4, <1>5, <1>6, <1>7, Zenon

\* The table after a write.
Written(vs, id, n, v) == [vs EXCEPT ![id][n] = v]

\* A write keeps the table a table and changes one entry.
LEMMA TableFields ==
  ASSUME NEW vs \in Table, NEW id \in ConfigID, NEW n \in Number, NEW v \in ConfigVersion
  PROVE  /\ Written(vs, id, n, v) \in Table
         /\ Written(vs, id, n, v)[id][n] = v
         /\ \A i \in ConfigID, m \in Number :
              ~ (i = id /\ m = n) => Written(vs, id, n, v)[i][m] = vs[i][m]
  BY Zenon DEF Table, Written
-----------------------------------------------------------------------------
(***************************************************************************)
(* Frames and the table.  Operators of the table vs, not of the variable,  *)
(* so that they can be compared before and after a step.                   *)
(***************************************************************************)
Has(vs, id, n) == vs[id][n] # NoVersion

Contiguous(vs) == \A id \in ConfigID, n \in Number : Has(vs, id, n) =>
                    \A m \in Number : m < n => Has(vs, id, m)

\* A creator's number has all smaller ones stored before it.
Numbered(f, vs) ==
  f.pc \in {"deps", "put"} =>
    /\ f.id \in ConfigID /\ f.num \in Number
    /\ \E value \in Value : f.next = NewVersion(value)
    /\ \A m \in Number : m < f.num => Has(vs, f.id, m)

\* While its number is free, the graph it has checked is still the graph.
Checked(f, vs) ==
  f.pc = "put" /\ ~ Has(vs, f.id, f.num) =>
    ~ HasCycle(Graph(f.id, [vs[f.id] EXCEPT ![f.num] = f.next]))

\* A writer's copy is the stored version or has an older revision.
Copied(f, vs) ==
  f.pc = "update" =>
    /\ f.id \in ConfigID /\ f.num \in Number /\ f.base \in ConfigVersion
    /\ \E to \in VersionState : CanTransition(f.base, to) /\ f.next = Transition(f.base, to)
    /\ Has(vs, f.id, f.num)
    /\ vs[f.id][f.num].value = f.base.value
    /\ f.base.revision <= vs[f.id][f.num].revision
    /\ f.base.revision = vs[f.id][f.num].revision => f.base = vs[f.id][f.num]

Settled(f, vs) == Numbered(f, vs) /\ Checked(f, vs) /\ Copied(f, vs)

VersionInv == /\ Contiguous(versions)
              /\ \A p \in Procs : Settled(frame[p], versions)

\* The graph depends on the numbers and the values only.
LEMMA SameGraph ==
  ASSUME NEW id, NEW us, NEW vs,
         \A m \in Number : /\ us[m] # NoVersion <=> vs[m] # NoVersion
                           /\ us[m] # NoVersion => us[m].value = vs[m].value
  PROVE  Graph(id, us) = Graph(id, vs)
  <1>1. {m \in Number : us[m] # NoVersion} = {m \in Number : vs[m] # NoVersion}
    BY Zenon
  <1> DEFINE S == {<<id, n>> : n \in {m \in Number : us[m] # NoVersion}}
  <1>2. \A x \in S : DependsOn[us[x[2]].value] = DependsOn[vs[x[2]].value]
    OBVIOUS
  <1> QED BY Zenon, <1>1, <1>2 DEF Graph

\* Storing a new version under a free number settles nothing anew: another
\* creator with that number finds it taken.
LEMMA SettledCreate ==
  ASSUME NEW vs \in Table, Contiguous(vs), NEW f \in Frame, Settled(f, vs),
         NEW id \in ConfigID, NEW n \in Number, NEW v \in ConfigVersion,
         ~ Has(vs, id, n), \A m \in Number : m < n => Has(vs, id, m)
  PROVE  Settled(f, Written(vs, id, n, v))
  <1> DEFINE ws == Written(vs, id, n, v)
  <1>1. /\ ws \in Table /\ ws[id][n] = v
        /\ \A i \in ConfigID, m \in Number : ~ (i = id /\ m = n) => ws[i][m] = vs[i][m]
    BY TableFields
  <1>2. v # NoVersion
    BY Zenon, VersionFields
  <1>3. \A i \in ConfigID : i # id => ws[i] = vs[i]
    BY Zenon DEF Table, Written
  <1> HIDE DEF ws
  <1>4. \A i \in ConfigID, m \in Number : Has(ws, i, m) <=> Has(vs, i, m) \/ (i = id /\ m = n)
    BY Zenon, <1>1, <1>2 DEF Has
  <1>5. Numbered(f, ws)
    BY Zenon, <1>4 DEF Settled, Numbered
  <1>6. Checked(f, ws)
    <2> SUFFICES ASSUME f.pc = "put", ~ Has(ws, f.id, f.num)
                 PROVE  ~ HasCycle(Graph(f.id, [ws[f.id] EXCEPT ![f.num] = f.next]))
      BY Zenon DEF Checked
    <2>1. f.id \in ConfigID /\ f.num \in Number /\ \A m \in Number : m < f.num => Has(vs, f.id, m)
      BY Zenon DEF Settled, Numbered
    <2>2. ~ Has(vs, f.id, f.num) /\ ~ (f.id = id /\ f.num = n)
      BY Zenon, <1>4, <2>1
    <2>3. f.id # id
      <3>1. f.id = id => ~ (f.num < n) /\ ~ (n < f.num)
        BY Zenon, <2>1, <2>2
      <3>2. f.num \in Int /\ n \in Int
        BY <2>1 DEF Number
      <3> QED BY <2>2, <3>1, <3>2
    <2> QED BY Zenon, <1>3, <2>1, <2>2, <2>3 DEF Settled, Checked
  <1>7. Copied(f, ws)
    <2> SUFFICES ASSUME f.pc = "update"
                 PROVE  Copied(f, ws)
      BY Zenon DEF Copied
    <2>1. f.id \in ConfigID /\ f.num \in Number /\ Has(vs, f.id, f.num)
      BY Zenon DEF Settled, Copied
    <2>2. ws[f.id][f.num] = vs[f.id][f.num]
      BY Zenon, <1>1, <2>1
    <2> QED BY Zenon, <2>1, <2>2 DEF Settled, Copied, Has
  <1> QED BY Zenon, <1>5, <1>6, <1>7 DEF Settled, ws

\* Moving a stored version only raises its revision.
LEMMA SettledMove ==
  ASSUME NEW vs \in Table, NEW f \in Frame, Settled(f, vs),
         NEW id \in ConfigID, NEW n \in Number, NEW v \in ConfigVersion,
         Has(vs, id, n), v.value = vs[id][n].value, v.revision = vs[id][n].revision + 1
  PROVE  Settled(f, Written(vs, id, n, v))
  <1> DEFINE ws == Written(vs, id, n, v)
  <1>1. /\ ws \in Table /\ ws[id][n] = v
        /\ \A i \in ConfigID, m \in Number : ~ (i = id /\ m = n) => ws[i][m] = vs[i][m]
    BY TableFields
  <1>2. v # NoVersion
    BY Zenon, VersionFields
  <1> HIDE DEF ws
  <1>3. \A i \in ConfigID, m \in Number : /\ Has(ws, i, m) <=> Has(vs, i, m)
                                         /\ ws[i][m].value = vs[i][m].value
    BY Zenon, <1>1, <1>2 DEF Has
  <1>4. Numbered(f, ws)
    BY Zenon, <1>3 DEF Settled, Numbered
  <1>5. Checked(f, ws)
    <2> SUFFICES ASSUME f.pc = "put", ~ Has(ws, f.id, f.num)
                 PROVE  ~ HasCycle(Graph(f.id, [ws[f.id] EXCEPT ![f.num] = f.next]))
      BY Zenon DEF Checked
    <2>1. f.id \in ConfigID /\ f.num \in Number
      BY Zenon DEF Settled, Numbered
    <2>2. ~ HasCycle(Graph(f.id, [vs[f.id] EXCEPT ![f.num] = f.next]))
      BY Zenon, <1>3, <2>1 DEF Settled, Checked
    <2> DEFINE us1 == [vs[f.id] EXCEPT ![f.num] = f.next]
               us2 == [ws[f.id] EXCEPT ![f.num] = f.next]
    <2>3. /\ vs[f.id] \in [Number -> ConfigVersion \cup {NoVersion}]
          /\ ws[f.id] \in [Number -> ConfigVersion \cup {NoVersion}]
      BY Zenon, <1>1, <2>1 DEF Table
    <2>4. \A m \in Number : /\ us1[m] = IF m = f.num THEN f.next ELSE vs[f.id][m]
                            /\ us2[m] = IF m = f.num THEN f.next ELSE ws[f.id][m]
      BY Zenon, <2>3
    <2> HIDE DEF us1, us2
    <2>5. \A m \in Number : /\ us1[m] # NoVersion <=> us2[m] # NoVersion
                            /\ us1[m] # NoVersion => us1[m].value = us2[m].value
      BY <1>3, <2>1, <2>4 DEF Has
    <2>6. Graph(f.id, us1) = Graph(f.id, us2)
      BY Zenon, <2>5, SameGraph
    <2> QED BY Zenon, <2>2, <2>6 DEF us1, us2
  <1>6. Copied(f, ws)
    <2> SUFFICES ASSUME f.pc = "update"
                 PROVE  Copied(f, ws)
      BY Zenon DEF Copied
    <2>1. /\ f.id \in ConfigID /\ f.num \in Number /\ Has(vs, f.id, f.num)
          /\ f.base \in ConfigVersion /\ f.base.revision <= vs[f.id][f.num].revision
      BY Zenon DEF Settled, Copied
    <2>2. CASE f.id = id /\ f.num = n
      <3>1. vs[id][n] \in ConfigVersion
        BY Zenon DEF Table, Has
      <3>2. f.base.revision \in Nat /\ vs[id][n].revision \in Nat
        BY Zenon, <2>1, <3>1, VersionFields
      <3>3. f.base.revision < ws[f.id][f.num].revision
        BY <1>1, <2>1, <2>2, <3>2
      <3> QED BY <1>3, <2>1, <2>2, <3>2, <3>3, <1>1 DEF Settled, Copied
    <2>3. CASE ~ (f.id = id /\ f.num = n)
      <3>1. ws[f.id][f.num] = vs[f.id][f.num]
        BY Zenon, <1>1, <2>1, <2>3
      <3> QED BY Zenon, <2>1, <3>1 DEF Settled, Copied, Has
    <2> QED BY Zenon, <2>2, <2>3
  <1> QED BY Zenon, <1>4, <1>5, <1>6 DEF Settled, ws
-----------------------------------------------------------------------------
\* What a frame carries at the other places.
Carried(f) == /\ f.pc = "create" => f.id \in ConfigID /\ f.key \in Key /\ f.num = 0
              /\ f.pc \in {"audit", "emit"} =>
                   f.id \in ConfigID /\ (f.num # 0 => f.num \in Number /\ f.next \in ConfigVersion)

IInv == TypeOK /\ VersionInv /\ \A p \in Procs : Carried(frame[p])

\* A step of one process, the table being fine for the others.
LEMMA FrameStep ==
  ASSUME IInv, NEW p \in Procs, NEW g \in Frame, Goto(p, g),
         Settled(g, versions'), Carried(g), Contiguous(versions'),
         \A q \in Procs : Settled(frame[q], versions')
  PROVE  /\ VersionInv' /\ frame' \in [Procs -> Frame]
         /\ \A q \in Procs : Carried(frame'[q])
  <1>1. frame \in [Procs -> Frame] /\ frame' = [frame EXCEPT ![p] = g]
    BY Zenon DEF IInv, TypeOK, Goto
  <1>2. \A q \in Procs : frame'[q] = IF q = p THEN g ELSE frame[q]
    BY Zenon, <1>1
  <1>3. \A q \in Procs : Settled(frame'[q], versions')
    BY Zenon, <1>2
  <1>4. \A q \in Procs : Carried(frame'[q])
    BY Zenon, <1>2 DEF IInv
  <1> QED BY Zenon, <1>1, <1>3, <1>4 DEF VersionInv

\* A step of one process that leaves the table alone.
LEMMA QuietStep ==
  ASSUME IInv, NEW p \in Procs, NEW g \in Frame, Goto(p, g), UNCHANGED versions,
         Settled(g, versions), Carried(g)
  PROVE  /\ VersionInv' /\ frame' \in [Procs -> Frame]
         /\ \A q \in Procs : Carried(frame'[q])
  <1>1. Contiguous(versions') /\ Settled(g, versions') /\ \A q \in Procs : Settled(frame[q], versions')
    BY Zenon DEF IInv, VersionInv
  <1> QED BY Zenon, <1>1, FrameStep

\* Every step of a process keeps the invariant.
LEMMA InvStep ==
  ASSUME IInv, NEW p \in Procs, Request(p) \/ Serve(p)
  PROVE  IInv'
  <1> DEFINE f == frame[p]
             Kept == /\ VersionInv' /\ frame' \in [Procs -> Frame]
                     /\ \A q \in Procs : Carried(frame'[q])
  <1>1. /\ f \in Frame /\ Settled(f, versions) /\ Carried(f)
        /\ versions \in Table /\ Contiguous(versions)
    BY Zenon DEF IInv, TypeOK, VersionInv, Table
  <1>i. Idle \in Frame /\ Carried(Idle) /\ \A vs : Settled(Idle, vs)
    BY Zenon, FrameFields DEF Idle, Carried, Settled, Numbered, Checked, Copied
  <1>a. \A g \in Frame : \A vs : g.pc \in {"create", "audit", "emit"} => Settled(g, vs)
    BY Zenon DEF Settled, Numbered, Checked, Copied
  <1> HIDE DEF f, Kept
  <1>2. ASSUME NEW k \in Key, CreateConfig(p, k)
        PROVE  IInv'
    <2> DEFINE g == Creating(issued + 1, k)
    <2>1. issued + 1 \in ConfigID /\ issued' = issued + 1 /\ issued' \in 0 .. MaxConfigs
      BY <1>2, ConfigAssumption DEF CreateConfig, IInv, TypeOK, ConfigID
    <2>2. Goto(p, g) /\ UNCHANGED versions
      BY Zenon, <1>2, <2>1 DEF CreateConfig, Creating
    <2>3. g \in Frame /\ g.pc = "create" /\ g.id \in ConfigID /\ g.key \in Key /\ g.num = 0
      BY <2>1, FrameFields
    <2> HIDE DEF g
    <2>4. Kept
      BY <1>a, <2>2, <2>3, QuietStep DEF Carried, Kept
    <2> QED BY Zenon, <1>2, <2>1, <2>4 DEF IInv, TypeOK, CreateConfig, Kept
  <1>3. CASE RepositoryCreate(p)
    <2>1. f.pc = "create" /\ f.id \in ConfigID /\ f.key \in Key /\ f.num = 0
      BY Zenon, <1>1, <1>3 DEF RepositoryCreate, Carried, f
    <2>2. CASE KeyExists(f.key)
      <3>1. Goto(p, Idle) /\ UNCHANGED <<configs, configKeys, issued, versions, audited, outbox>>
        BY Zenon, <1>3, <2>2 DEF RepositoryCreate, f
      <3>2. Kept
        BY Zenon, <1>i, <3>1, QuietStep DEF Kept
      <3> QED BY Zenon, <3>1, <3>2 DEF IInv, TypeOK, Kept
    <2>3. CASE ~ KeyExists(f.key)
      <3> DEFINE g == Created(f)
      <3>1. /\ Goto(p, g) /\ UNCHANGED <<issued, versions, audited, outbox>>
            /\ configs' = [configs EXCEPT ![f.id] = f.key]
            /\ configKeys' = [configKeys EXCEPT ![f.key] = f.id]
        BY Zenon, <1>3, <2>3 DEF RepositoryCreate, Created, f
      <3>2. g \in Frame /\ g.pc = "audit" /\ g.id = f.id /\ g.num = f.num
        BY Zenon, <1>1, FrameFields
      <3> HIDE DEF g
      <3>3. Kept
        BY <1>a, <2>1, <3>1, <3>2, QuietStep DEF Carried, Kept
      <3> QED BY Zenon, <2>1, <3>1, <3>3 DEF IInv, TypeOK, Kept
    <2> QED BY Zenon, <2>2, <2>3
  <1>4. ASSUME NEW id \in ConfigID, NEW value \in Value, CreateVersion(p, id, value)
        PROVE  IInv'
    <2> DEFINE S == StoredNumbers(id) \cup {0}
               n == NextNumber(id)
               g == Numbering(id, n, NewVersion(value))
    <2>1. n \in Number /\ Goto(p, g) /\ UNCHANGED <<configs, configKeys, issued, versions, audited, outbox>>
      BY Zenon, <1>4 DEF CreateVersion, Numbering
    <2>2. S \in SUBSET (0 .. MaxVersions) /\ S # {}
      BY ConfigAssumption DEF StoredNumbers, Number
    <2>3. Max(S) \in S /\ \A y \in S : y <= Max(S)
      BY Zenon, <2>2, MaxIsGreatest, ConfigAssumption
    <2>4. n = Max(S) + 1
      BY Zenon DEF NextNumber
    <2>5. ASSUME NEW m \in Number, m < n
          PROVE  Has(versions, id, m)
      <3>1. Max(S) \in Number /\ m <= Max(S)
        BY <2>2, <2>3, <2>4, <2>5 DEF Number
      <3>2. Has(versions, id, Max(S))
        <4>1. Max(S) # 0
          BY <3>1 DEF Number
        <4>2. Max(S) \in StoredNumbers(id)
          BY Zenon, <2>3, <4>1
        <4> QED BY Zenon, <4>2 DEF StoredNumbers, Stored, Has
      <3> QED BY <1>1, <3>1, <3>2 DEF Contiguous, Number
    <2> HIDE DEF n
    <2>6. NewVersion(value) \in ConfigVersion
      BY Zenon, VersionFields
    <2>7. g \in Frame /\ g.pc = "deps" /\ g.id = id /\ g.num = n /\ g.next = NewVersion(value)
      BY <2>1, <2>6, FrameFields
    <2> HIDE DEF g
    <2>8. Settled(g, versions) /\ Carried(g)
      BY Zenon, <2>1, <2>5, <2>7 DEF Settled, Numbered, Checked, Copied, Carried
    <2>9. Kept
      BY Zenon, <2>1, <2>7, <2>8, QuietStep DEF Kept
    <2> QED BY Zenon, <2>1, <2>9 DEF IInv, TypeOK, Kept
  <1>5. CASE ValidateDependencies(p)
    <2>1. f.pc = "deps" /\ UNCHANGED <<configs, configKeys, issued, versions, audited, outbox>>
      BY Zenon, <1>5 DEF ValidateDependencies, f
    <2>2. CASE DependenciesValid(f)
      <3> DEFINE g == At(f, "put")
      <3>1. Goto(p, g)
        BY Zenon, <1>5, <2>2 DEF ValidateDependencies, At, f
      <3>2. /\ g \in Frame /\ g.pc = "put" /\ g.id = f.id /\ g.num = f.num
            /\ g.next = f.next
        BY Zenon, <1>1, FrameFields
      <3> HIDE DEF g
      <3>3. ~ HasCycle(Graph(g.id, [versions[g.id] EXCEPT ![g.num] = g.next]))
        BY Zenon, <2>2, <3>2 DEF DependenciesValid, WithNew
      <3>4. Settled(g, versions) /\ Carried(g)
        BY Zenon, <1>1, <2>1, <3>2, <3>3 DEF Settled, Numbered, Checked, Copied, Carried
      <3>5. Kept
        BY Zenon, <2>1, <3>1, <3>2, <3>4, QuietStep DEF Kept
      <3> QED BY Zenon, <2>1, <3>5 DEF IInv, TypeOK, Kept
    <2>3. CASE ~ DependenciesValid(f)
      <3>1. Goto(p, Idle)
        BY Zenon, <1>5, <2>3 DEF ValidateDependencies, f
      <3>2. Kept
        BY Zenon, <1>i, <2>1, <3>1, QuietStep DEF Kept
      <3> QED BY Zenon, <2>1, <3>2 DEF IInv, TypeOK, Kept
    <2> QED BY Zenon, <2>2, <2>3
  <1>6. CASE PutVersion(p)
    <2>1. f.pc = "put" /\ UNCHANGED <<configs, configKeys, issued, audited, outbox>>
      BY Zenon, <1>6 DEF PutVersion, f
    <2>2. CASE NumberTaken(f.id, f.num)
      <3>1. Goto(p, Idle) /\ UNCHANGED versions
        BY Zenon, <1>6, <2>2 DEF PutVersion, f
      <3>2. Kept
        BY Zenon, <1>i, <3>1, QuietStep DEF Kept
      <3> QED BY Zenon, <2>1, <3>1, <3>2 DEF IInv, TypeOK, Kept
    <2>3. CASE ~ NumberTaken(f.id, f.num)
      <3> DEFINE g == At(f, "audit")
      <3>1. Goto(p, g) /\ versions' = Written(versions, f.id, f.num, f.next)
        BY Zenon, <1>6, <2>3 DEF Written, PutVersion, At, f
      <3>2. /\ g \in Frame /\ g.pc = "audit" /\ g.id = f.id /\ g.num = f.num
            /\ g.next = f.next
        BY Zenon, <1>1, FrameFields
      <3> HIDE DEF g
      <3>3. /\ f.id \in ConfigID /\ f.num \in Number /\ f.next \in ConfigVersion
            /\ \A m \in Number : m < f.num => Has(versions, f.id, m)
        BY Zenon, <1>1, <2>1, VersionFields DEF Settled, Numbered
      <3>4. ~ Has(versions, f.id, f.num)
        BY Zenon, <2>3 DEF NumberTaken, Stored, Has
      <3>5. /\ versions' \in Table /\ versions'[f.id][f.num] = f.next
            /\ \A i \in ConfigID, m \in Number :
                 ~ (i = f.id /\ m = f.num) => versions'[i][m] = versions[i][m]
        BY <1>1, <3>1, <3>3, TableFields
      <3>6. \A q \in Procs : Settled(frame[q], versions')
        BY Zenon, <1>1, <3>1, <3>3, <3>4, SettledCreate DEF IInv, VersionInv, TypeOK
      <3>7. Contiguous(versions')
        <4>1. \A i \in ConfigID, m \in Number :
                Has(versions', i, m) <=> Has(versions, i, m) \/ (i = f.id /\ m = f.num)
          BY Zenon, <3>3, <3>5, VersionFields DEF Has
        <4> QED BY Zenon, <1>1, <3>3, <4>1 DEF Contiguous
      <3>8. Carried(g)
        BY Zenon, <3>2, <3>3 DEF Carried
      <3>9. Settled(g, versions')
        BY <1>a, <3>2
      <3>10. Kept
        BY Zenon, <3>9, <3>1, <3>2, <3>6, <3>7, <3>8, FrameStep DEF Kept
      <3> QED BY Zenon, <2>1, <3>5, <3>10 DEF IInv, TypeOK, Kept, Table
    <2> QED BY Zenon, <2>2, <2>3
  <1>7. ASSUME NEW id \in ConfigID, NEW n \in Number, NEW to \in VersionState,
               NEW expected, TransitionVersion(p, id, n, to, expected)
        PROVE  IInv'
    <2> DEFINE v == versions[id][n]
               g == Updating(id, n, v, Transition(v, to))
    <2>1. /\ Has(versions, id, n) /\ CanTransition(v, to)
          /\ Goto(p, g) /\ UNCHANGED <<configs, configKeys, issued, versions, audited, outbox>>
      BY Zenon, <1>7 DEF TransitionVersion, Accepts, Computed, Stored, Has, Updating
    <2>2. v \in ConfigVersion
      BY Zenon, <1>1, <2>1 DEF Table, Has
    <2>3. Transition(v, to) \in ConfigVersion
      BY Zenon, <2>2, VersionFields
    <2>4. /\ g \in Frame /\ g.pc = "update" /\ g.id = id /\ g.num = n
          /\ g.base = v /\ g.next = Transition(v, to)
      BY <2>2, <2>3, FrameFields
    <2> HIDE DEF g
    <2>5. v.revision <= v.revision
      BY SMTT(30), <2>2, VersionFields
    <2>6. Copied(g, versions)
      BY Zenon, <2>1, <2>2, <2>4, <2>5 DEF Copied
    <2>7. Settled(g, versions) /\ Carried(g)
      BY Zenon, <2>4, <2>6 DEF Settled, Numbered, Checked, Carried
    <2>8. Kept
      BY Zenon, <2>1, <2>4, <2>7, QuietStep DEF Kept
    <2> QED BY Zenon, <2>1, <2>8 DEF IInv, TypeOK, Kept
  <1>8. CASE UpdateVersion(p)
    <2>1. f.pc = "update" /\ UNCHANGED <<configs, configKeys, issued, audited, outbox>>
      BY Zenon, <1>8 DEF UpdateVersion, f
    <2>2. CASE ~ RevisionMatches(versions[f.id][f.num], f.base.revision)
      <3>1. Goto(p, Idle) /\ UNCHANGED versions
        BY Zenon, <1>8, <2>2 DEF UpdateVersion, f
      <3>2. Kept
        BY Zenon, <1>i, <3>1, QuietStep DEF Kept
      <3> QED BY Zenon, <2>1, <3>1, <3>2 DEF IInv, TypeOK, Kept
    <2>3. CASE RevisionMatches(versions[f.id][f.num], f.base.revision)
      <3> DEFINE g == Updated(f)
      <3>1. Goto(p, g) /\ versions' = Written(versions, f.id, f.num, f.next)
        BY ZenonT(30), <1>8, <2>3 DEF Written, UpdateVersion, Updated, f
      <3>2. g \in Frame /\ g.pc = "audit" /\ g.id = f.id /\ g.num = f.num /\ g.next = f.next
        BY Zenon, <1>1, FrameFields
      <3> HIDE DEF g
      <3>3. /\ f.id \in ConfigID /\ f.num \in Number /\ f.base \in ConfigVersion
            /\ Has(versions, f.id, f.num) /\ f.base = versions[f.id][f.num]
        BY ZenonT(30), <1>1, <2>1, <2>3 DEF Settled, Copied, RevisionMatches
      <3>4. PICK to \in VersionState : f.next = Transition(f.base, to)
        BY Zenon, <1>1, <2>1 DEF Settled, Copied
      <3>5. /\ f.next \in ConfigVersion /\ f.next.value = f.base.value
            /\ f.next.revision = f.base.revision + 1 /\ f.next # NoVersion
        BY <3>3, <3>4, VersionFields
      <3>6. /\ versions' \in Table /\ versions'[f.id][f.num] = f.next
            /\ \A i \in ConfigID, m \in Number :
                 ~ (i = f.id /\ m = f.num) => versions'[i][m] = versions[i][m]
        <4>1. /\ versions \in Table /\ f.id \in ConfigID
              /\ f.num \in Number /\ f.next \in ConfigVersion
          BY Zenon, <1>1, <3>3, <3>5
        <4>2. \A id \in ConfigID, n \in Number, v \in ConfigVersion :
                /\ Written(versions, id, n, v) \in Table
                /\ Written(versions, id, n, v)[id][n] = v
                /\ \A i \in ConfigID, m \in Number :
                     ~ (i = id /\ m = n) => Written(versions, id, n, v)[i][m] = versions[i][m]
          BY Zenon, <4>1, TableFields
        <4>3. /\ Written(versions, f.id, f.num, f.next) \in Table
              /\ Written(versions, f.id, f.num, f.next)[f.id][f.num] = f.next
              /\ \A i \in ConfigID, m \in Number : ~ (i = f.id /\ m = f.num) =>
                   Written(versions, f.id, f.num, f.next)[i][m] = versions[i][m]
          BY <4>1, <4>2
        <4> QED BY Zenon, <3>1, <4>3
      <3>7. \A q \in Procs : Settled(frame[q], versions')
        BY ZenonT(30), <1>1, <3>1, <3>3, <3>5, SettledMove DEF IInv, VersionInv, TypeOK
      <3>8. Contiguous(versions')
        <4>1. \A i \in ConfigID, m \in Number : Has(versions', i, m) <=> Has(versions, i, m)
          BY Zenon, <3>3, <3>5, <3>6 DEF Has
        <4> QED BY Zenon, <1>1, <4>1 DEF Contiguous
      <3>9. Carried(g)
        BY Zenon, <3>2, <3>3, <3>5 DEF Carried
      <3>10. Settled(g, versions')
        BY <1>a, <3>2
      <3>11. Kept
        BY Zenon, <3>10, <3>1, <3>2, <3>7, <3>8, <3>9, FrameStep DEF Kept
      <3> QED BY Zenon, <2>1, <3>6, <3>11 DEF IInv, TypeOK, Kept, Table
    <2> QED BY Zenon, <2>2, <2>3
  <1>9. CASE Audit(p)
    <2> DEFINE g == At(f, "emit")
    <2>1. /\ f.pc = "audit" /\ Goto(p, g) /\ audited' = AuditsAfter(f)
          /\ UNCHANGED <<configs, configKeys, issued, versions, outbox>>
      BY Zenon, <1>9 DEF Audit, At, f
    <2>2. g \in Frame /\ g.pc = "emit" /\ g.id = f.id /\ g.num = f.num /\ g.next = f.next
      BY ZenonT(30), <1>1, FrameFields
    <2> HIDE DEF g
    <2>3. Carried(g)
      BY Zenon, <1>1, <2>1, <2>2 DEF Carried
    <2>4. Kept
      BY <1>a, <2>1, <2>2, <2>3, QuietStep DEF Kept
    <2>5. f.num # 0 => AuditOf(f) \in AuditRecord
      BY Zenon, <1>1, <2>1 DEF Carried, AuditOf, AuditRecord, ConfigVersion
    <2>6. audited' \subseteq AuditRecord
      BY Zenon, <2>1, <2>5 DEF AuditsAfter, IInv, TypeOK
    <2> QED BY Zenon, <2>1, <2>4, <2>6 DEF IInv, TypeOK, Kept
  <1>10. CASE Emit(p)
    <2>1. /\ f.pc = "emit" /\ Goto(p, Idle) /\ outbox' = EventsAfter(f)
          /\ UNCHANGED <<configs, configKeys, issued, versions, audited>>
      BY Zenon, <1>10 DEF Emit, f
    <2>2. Kept
      BY Zenon, <1>i, <2>1, QuietStep DEF Kept
    <2>3. f.id \in ConfigID /\ (f.num # 0 => f.num \in Number)
      BY Zenon, <1>1, <2>1 DEF Carried
    <2>4. outbox' \in [ConfigID -> [Number -> Nat]]
      BY <2>1, <2>3 DEF EventsAfter, IInv, TypeOK
    <2> QED BY Zenon, <2>1, <2>2, <2>4 DEF IInv, TypeOK, Kept
  <1> QED BY Zenon, <1>2, <1>3, <1>4, <1>5, <1>6, <1>7, <1>8, <1>9, <1>10 DEF Request, Serve

\* The invariant holds.
LEMMA InvHolds == Spec => []IInv
  <1>1. Init => IInv
    <2> SUFFICES ASSUME Init
                 PROVE  IInv
      BY Zenon
    <2>1. TypeOK
      BY FrameFields, ConfigAssumption DEF Init, TypeOK, ConfigID
    <2>2. \A p \in Procs : Carried(frame[p]) /\ Settled(frame[p], versions)
      BY Zenon DEF Init, Idle, Carried, Settled, Numbered, Checked, Copied
    <2>3. Contiguous(versions)
      BY Zenon DEF Init, Contiguous, Has
    <2> QED BY Zenon, <2>1, <2>2, <2>3 DEF IInv, VersionInv
  <1>2. IInv /\ [Next]_vars => IInv'
    <2> SUFFICES ASSUME IInv, [Next]_vars
                 PROVE  IInv'
      BY Zenon
    <2>1. CASE UNCHANGED vars
      BY Zenon, <2>1 DEF IInv, TypeOK, VersionInv, vars
    <2>2. CASE Next
      BY Zenon, <2>2, InvStep DEF Next
    <2> QED BY Zenon, <2>1, <2>2
  <1> QED BY <1>1, <1>2, PTL DEF Spec
-----------------------------------------------------------------------------
(***************************************************************************)
(* The key index.  An identifier is issued once, so the one a CreateConfig *)
(* in flight has is nobody else's.                                         *)
(***************************************************************************)
CreatorsApart ==
  /\ \A id \in ConfigID : Exists(id) => id <= issued
  /\ \A p \in Procs : frame[p].pc = "create" => frame[p].id <= issued /\ ~ Exists(frame[p].id)
  /\ \A p, q \in Procs : /\ frame[p].pc = "create" /\ frame[q].pc = "create"
                         /\ frame[p].id = frame[q].id
                         => p = q

\* A step of a process that creates no configuration is not at "create" after.
LEMMA NotCreating ==
  ASSUME IInv, NEW p \in Procs, Request(p) \/ Serve(p),
         ~ RepositoryCreate(p), \A k \in Key : ~ CreateConfig(p, k)
  PROVE  /\ UNCHANGED <<configs, configKeys, issued>>
         /\ \E g \in Frame : Goto(p, g) /\ g.pc # "create"
  <1> DEFINE f == frame[p]
  <1>1. f \in Frame /\ versions \in Table /\ Settled(f, versions)
    BY Zenon DEF IInv, TypeOK, Table, VersionInv
  <1>i. Idle \in Frame /\ Idle.pc # "create"
    BY Zenon, FrameFields DEF Idle
  <1> HIDE DEF f
  <1>2. ASSUME NEW id \in ConfigID, NEW value \in Value, CreateVersion(p, id, value)
        PROVE  /\ UNCHANGED <<configs, configKeys, issued>>
               /\ \E g \in Frame : Goto(p, g) /\ g.pc # "create"
    <2>1. Goto(p, Numbering(id, NextNumber(id), NewVersion(value))) /\ NextNumber(id) \in Number
      BY Zenon, <1>2 DEF CreateVersion, Numbering
    <2>2. NewVersion(value) \in ConfigVersion
      BY Zenon, VersionFields
    <2>3. PICK n, v : n = NextNumber(id) /\ v = NewVersion(value)
      BY Zenon
    <2>4. n \in Number /\ v \in ConfigVersion /\ Goto(p, Numbering(id, n, v))
      BY Zenon, <2>1, <2>2, <2>3
    <2>5. Numbering(id, n, v) \in Frame /\ Numbering(id, n, v).pc = "deps"
      BY <2>4, FrameFields
    <2>6. Numbering(id, n, v).pc # "create"
      BY Zenon, <2>5
    <2>7. UNCHANGED <<configs, configKeys, issued>>
      BY Zenon, <1>2 DEF CreateVersion
    <2> QED BY Zenon, <2>4, <2>5, <2>6, <2>7
  <1>3. ASSUME NEW id \in ConfigID, NEW n \in Number, NEW to \in VersionState,
               NEW expected, TransitionVersion(p, id, n, to, expected)
        PROVE  /\ UNCHANGED <<configs, configKeys, issued>>
               /\ \E g \in Frame : Goto(p, g) /\ g.pc # "create"
    <2> DEFINE v == versions[id][n]
    <2>1. Goto(p, Updating(id, n, v, Transition(v, to))) /\ v # NoVersion
      BY Zenon, <1>3 DEF TransitionVersion, Accepts, Computed, Stored, Updating
    <2>2. v \in ConfigVersion
      BY Zenon, <1>1, <2>1 DEF Table
    <2>3. Transition(v, to) \in ConfigVersion
      BY Zenon, <2>2, VersionFields
    <2>4. /\ Updating(id, n, v, Transition(v, to)) \in Frame
          /\ Updating(id, n, v, Transition(v, to)).pc = "update"
      <3>1. \A u, w \in ConfigVersion :
              Updating(id, n, u, w) \in Frame /\ Updating(id, n, u, w).pc = "update"
        BY FrameFields
      <3> QED BY ZenonT(30), <2>2, <2>3, <3>1
    <2> QED BY Zenon, <1>3, <2>1, <2>4 DEF TransitionVersion
  <1>4. CASE ValidateDependencies(p)
    <2>1. At(f, "put") \in Frame /\ At(f, "put").pc = "put"
      BY Zenon, <1>1, FrameFields
    <2>2. Goto(p, At(f, "put")) \/ Goto(p, Idle)
      BY Zenon, <1>4 DEF ValidateDependencies, At, f
    <2> QED BY ZenonT(30), <1>4, <1>i, <2>1, <2>2 DEF ValidateDependencies
  <1>5. CASE PutVersion(p)
    <2>1. At(f, "audit") \in Frame /\ At(f, "audit").pc = "audit"
      BY Zenon, <1>1, FrameFields
    <2>2. Goto(p, At(f, "audit")) \/ Goto(p, Idle)
      BY Zenon, <1>5 DEF PutVersion, At, f
    <2> QED BY ZenonT(30), <1>5, <1>i, <2>1, <2>2 DEF PutVersion
  <1>6. CASE UpdateVersion(p)
    <2>1. Updated(f) \in Frame /\ Updated(f).pc = "audit"
      BY Zenon, <1>1, FrameFields
    <2>2. Goto(p, Updated(f)) \/ Goto(p, Idle)
      BY Zenon, <1>6 DEF UpdateVersion, Updated, f
    <2> QED BY ZenonT(30), <1>6, <1>i, <2>1, <2>2 DEF UpdateVersion
  <1>7. CASE Audit(p)
    <2>1. At(f, "emit") \in Frame /\ At(f, "emit").pc = "emit"
      BY Zenon, <1>1, FrameFields
    <2>2. Goto(p, At(f, "emit"))
      BY ZenonT(30), <1>7 DEF Audit, At, f
    <2> QED BY ZenonT(30), <1>7, <2>1, <2>2 DEF Audit
  <1>8. CASE Emit(p)
    BY Zenon, <1>8, <1>i DEF Emit
  <1> QED BY Zenon, <1>2, <1>3, <1>4, <1>5, <1>6, <1>7, <1>8 DEF Request, Serve

\* Every step keeps the index.
LEMMA KeysStep ==
  ASSUME IInv, CreatorsApart, KeysIndexed, NEW p \in Procs, Request(p) \/ Serve(p)
  PROVE  CreatorsApart' /\ KeysIndexed'
  <1> DEFINE f == frame[p]
  <1>1. /\ f \in Frame /\ frame \in [Procs -> Frame] /\ Carried(f)
        /\ configs \in [ConfigID -> Key \cup {NoKey}]
        /\ configKeys \in [Key -> ConfigID \cup {0}]
        /\ issued \in 0 .. MaxConfigs
    BY Zenon DEF IInv, TypeOK
  <1> HIDE DEF f
  <1>2. ASSUME NEW k \in Key, CreateConfig(p, k)
        PROVE  CreatorsApart' /\ KeysIndexed'
    <2> DEFINE g == Creating(issued + 1, k)
    <2>1. /\ issued + 1 \in ConfigID /\ issued' = issued + 1 /\ frame' = [frame EXCEPT ![p] = g]
          /\ UNCHANGED <<configs, configKeys>>
      BY <1>1, <1>2, ConfigAssumption DEF CreateConfig, ConfigID, Goto, Creating
    <2>2. g \in Frame /\ g.pc = "create" /\ g.id = issued + 1
      BY <2>1, FrameFields
    <2> HIDE DEF g
    <2>3. \A q \in Procs : frame'[q] = IF q = p THEN g ELSE frame[q]
      BY Zenon, <1>1, <2>1
    <2>4. \A i \in ConfigID : i <= issued => i <= issued' /\ i # issued + 1
      BY <1>1, <2>1 DEF ConfigID
    <2>5. \A q \in Procs : frame[q].pc = "create" => frame[q].id \in ConfigID
      BY Zenon DEF IInv, Carried
    <2>6. g.id <= issued' /\ ~ Exists(g.id)
      BY <1>1, <2>1, <2>2, <2>4 DEF CreatorsApart
    <2>7. CreatorsApart'
      BY <2>1, <2>2, <2>3, <2>4, <2>5, <2>6 DEF CreatorsApart, Exists
    <2> QED BY Zenon, <2>1, <2>7 DEF KeysIndexed, Exists
  <1>3. CASE RepositoryCreate(p)
    <2>1. f.pc = "create" /\ f.id \in ConfigID /\ f.key \in Key
      BY Zenon, <1>1, <1>3 DEF RepositoryCreate, Carried, f
    <2>2. PICK g \in Frame : Goto(p, g) /\ g.pc # "create"
      <3>1. Created(f) \in Frame /\ Created(f).pc = "audit" /\ Idle \in Frame /\ Idle.pc = "idle"
        BY Zenon, <1>1, FrameFields DEF Idle
      <3>2. Goto(p, Created(f)) \/ Goto(p, Idle)
        BY Zenon, <1>3 DEF RepositoryCreate, Created, f
      <3> QED BY Zenon, <3>1, <3>2
    <2>3. \A q \in Procs : frame'[q] = IF q = p THEN g ELSE frame[q]
      BY Zenon, <1>1, <2>2 DEF Goto
    <2>4. issued' = issued
      BY ZenonT(30), <1>3 DEF RepositoryCreate
    <2>5. CASE KeyExists(f.key)
      <3>1. UNCHANGED <<configs, configKeys>>
        BY Zenon, <1>3, <2>5 DEF RepositoryCreate, f
      <3>2. KeysIndexed'
        BY Zenon, <3>1 DEF KeysIndexed, Exists
      <3>3. \A q \in Procs : frame'[q].pc = "create" => q # p /\ frame'[q] = frame[q]
        BY Zenon, <2>2, <2>3
      <3>4. CreatorsApart'
        BY Zenon, <2>4, <3>1, <3>3 DEF CreatorsApart, Exists
      <3> QED BY Zenon, <3>2, <3>4
    <2>6. CASE ~ KeyExists(f.key)
      <3>1. /\ configs' = [configs EXCEPT ![f.id] = f.key]
            /\ configKeys' = [configKeys EXCEPT ![f.key] = f.id]
        BY Zenon, <1>3, <2>6 DEF RepositoryCreate, f
      <3>2. /\ \A i \in ConfigID : configs'[i] = IF i = f.id THEN f.key ELSE configs[i]
            /\ \A k \in Key : configKeys'[k] = IF k = f.key THEN f.id ELSE configKeys[k]
        BY Zenon, <1>1, <2>1, <3>1
      <3>3. ~ Exists(f.id) /\ f.id <= issued /\ configKeys[f.key] = 0
        BY Zenon, <2>1, <2>6 DEF CreatorsApart, KeyExists, f
      <3>4. \A i \in ConfigID : Exists(i)' => Exists(i) \/ i = f.id
        BY Zenon, <3>2 DEF Exists
      <3>5. CreatorsApart'
        <4>1. \A i \in ConfigID : Exists(i)' => i <= issued'
          BY Zenon, <2>4, <3>3, <3>4 DEF CreatorsApart
        <4>2. \A q \in Procs : frame'[q].pc = "create" =>
                q # p /\ frame[q].pc = "create" /\ frame'[q] = frame[q]
          BY Zenon, <2>2, <2>3
        <4>3. \A q \in Procs : frame[q].pc = "create" /\ q # p =>
                frame[q].id # f.id /\ frame[q].id \in ConfigID
          BY Zenon, <2>1 DEF CreatorsApart, IInv, Carried, f
        <4>4. \A q \in Procs : frame'[q].pc = "create" =>
                frame'[q].id <= issued' /\ configs'[frame'[q].id] = NoKey
          <5> SUFFICES ASSUME NEW q \in Procs, frame'[q].pc = "create"
                       PROVE  frame'[q].id <= issued' /\ configs'[frame'[q].id] = NoKey
            BY Zenon
          <5>1. frame'[q] = frame[q] /\ frame[q].id # f.id /\ frame[q].id \in ConfigID
            BY Zenon, <4>2, <4>3
          <5>2. frame[q].id <= issued /\ ~ Exists(frame[q].id)
            BY Zenon, <4>2 DEF CreatorsApart
          <5> QED BY Zenon, <2>4, <3>2, <5>1, <5>2 DEF Exists
        <4>5. \A q, r \in Procs : /\ frame'[q].pc = "create" /\ frame'[r].pc = "create"
                                  /\ frame'[q].id = frame'[r].id
                                  => q = r
          BY Zenon, <4>2 DEF CreatorsApart
        <4> QED BY Zenon, <4>1, <4>4, <4>5 DEF CreatorsApart, Exists
      <3>6. KeysIndexed'
        <4>1. ASSUME NEW i \in ConfigID, Exists(i)'
              PROVE  configKeys'[configs'[i]] = i
          <5>1. CASE i = f.id
            BY Zenon, <2>1, <3>2, <5>1
          <5>2. CASE i # f.id
            <6>1. Exists(i) /\ configs'[i] = configs[i] /\ configKeys[configs[i]] = i
              BY Zenon, <3>2, <3>4, <4>1, <5>2 DEF KeysIndexed
            <6>2. configs[i] \in Key /\ i # 0
              BY <1>1, <6>1 DEF Exists, ConfigID
            <6>3. configs[i] # f.key
              BY Zenon, <3>3, <6>1, <6>2
            <6> QED BY Zenon, <3>2, <6>1, <6>2, <6>3
          <5> QED BY Zenon, <5>1, <5>2
        <4>2. ASSUME NEW k \in Key, configKeys'[k] # 0
              PROVE  configs'[configKeys'[k]] = k
          <5>1. CASE k = f.key
            BY Zenon, <2>1, <3>2, <5>1
          <5>2. CASE k # f.key
            <6>1. configKeys'[k] = configKeys[k] /\ configs[configKeys[k]] = k
              BY Zenon, <3>2, <4>2, <5>2 DEF KeysIndexed
            <6>2. configKeys[k] \in ConfigID /\ configKeys[k] # f.id
              BY Zenon, <1>1, <3>3, <4>2, <6>1, ConfigAssumption DEF Exists
            <6> QED BY Zenon, <3>2, <6>1, <6>2
          <5> QED BY Zenon, <5>1, <5>2
        <4> QED BY Zenon, <4>1, <4>2 DEF KeysIndexed
      <3> QED BY Zenon, <3>5, <3>6
    <2> QED BY Zenon, <2>5, <2>6
  <1>4. CASE ~ RepositoryCreate(p) /\ \A k \in Key : ~ CreateConfig(p, k)
    <2>1. UNCHANGED <<configs, configKeys, issued>>
      BY Zenon, <1>4, NotCreating
    <2>2. PICK g \in Frame : Goto(p, g) /\ g.pc # "create"
      BY Zenon, <1>4, NotCreating
    <2>3. \A q \in Procs : frame'[q] = IF q = p THEN g ELSE frame[q]
      BY Zenon, <1>1, <2>2 DEF Goto
    <2>4. KeysIndexed'
      BY Zenon, <2>1 DEF KeysIndexed, Exists
    <2>5. \A q \in Procs : frame'[q].pc = "create" => frame'[q] = frame[q]
      BY Zenon, <2>2, <2>3
    <2>6. CreatorsApart'
      BY Zenon, <2>1, <2>5 DEF CreatorsApart, Exists
    <2> QED BY Zenon, <2>4, <2>6
  <1> QED BY Zenon, <1>2, <1>3, <1>4

\* Memory.Create under racing CreateConfigs: one configuration per key, and
\* the key index and the configurations agree.
THEOREM KeysStayIndexed == Spec => []KeysIndexed
  <1>1. Init => CreatorsApart /\ KeysIndexed
    BY ConfigAssumption DEF Init, CreatorsApart, KeysIndexed, Exists, Idle, ConfigID
  <1>2. IInv /\ CreatorsApart /\ KeysIndexed /\ [Next]_vars => CreatorsApart' /\ KeysIndexed'
    <2> SUFFICES ASSUME IInv, CreatorsApart, KeysIndexed, [Next]_vars
                 PROVE  CreatorsApart' /\ KeysIndexed'
      BY Zenon
    <2>1. CASE UNCHANGED vars
      BY Zenon, <2>1 DEF vars, CreatorsApart, KeysIndexed, Exists
    <2>2. CASE Next
      BY Zenon, <2>2, KeysStep DEF Next
    <2> QED BY Zenon, <2>1, <2>2
  <1> QED BY <1>1, <1>2, InvHolds, PTL DEF Spec
-----------------------------------------------------------------------------
(***************************************************************************)
(* The audit records made and those about to be made.                      *)
(***************************************************************************)
Owed(f) == f.pc = "audit" /\ f.num # 0

Records == audited \cup {AuditOf(frame[p]) : p \in {q \in Procs : Owed(frame[q])}}

RecordOf(id, n, v) == [id |-> id, num |-> n, revision |-> v.revision, state |-> v.state]

\* What a step of one process does to them.
LEMMA RecordsStep ==
  ASSUME NEW p \in Procs, NEW g, frame \in [Procs -> Frame], Goto(p, g)
  PROVE  /\ ~ Owed(frame[p]) /\ ~ Owed(g) /\ audited' = audited => Records' = Records
         /\ ~ Owed(frame[p]) /\ Owed(g) /\ audited' = audited
              => Records' = Records \cup {AuditOf(g)}
         /\ Owed(frame[p]) /\ ~ Owed(g) /\ audited' = audited \cup {AuditOf(frame[p])}
              => Records' = Records
  <1> DEFINE Others == {AuditOf(frame[q]) : q \in {r \in Procs \ {p} : Owed(frame[r])}}
  <1>1. \A q \in Procs : frame'[q] = IF q = p THEN g ELSE frame[q]
    BY Zenon DEF Goto
  <1>2. Records = audited \cup Others \cup (IF Owed(frame[p]) THEN {AuditOf(frame[p])} ELSE {})
    BY Zenon DEF Records
  <1>3. {q \in Procs : Owed(frame'[q])}
          = {r \in Procs \ {p} : Owed(frame[r])} \cup (IF Owed(g) THEN {p} ELSE {})
    BY Zenon, <1>1
  <1>4. Records' = audited' \cup {AuditOf(frame'[q]) : q \in {r \in Procs : Owed(frame'[r])}}
    BY Zenon DEF Records
  <1>5. {AuditOf(frame'[q]) : q \in {r \in Procs : Owed(frame'[r])}}
          = Others \cup (IF Owed(g) THEN {AuditOf(g)} ELSE {})
    BY Zenon, <1>1, <1>3
  <1> HIDE DEF Others
  <1> QED BY Zenon, <1>2, <1>4, <1>5

\* The steps, by what they do to the versions and the records.
Quiet == versions' = versions /\ Records' = Records

Creates(id, n, value) ==
  LET v == NewVersion(value)
  IN  /\ ~ Has(versions, id, n) /\ \A m \in Number : m < n => Has(versions, id, m)
      /\ ~ HasCycle(Graph(id, [versions[id] EXCEPT ![n] = v]))
      /\ versions' = Written(versions, id, n, v)
      /\ Records' = Records \cup {RecordOf(id, n, v)}

Moves(id, n, to) ==
  LET v == Transition(versions[id][n], to)
  IN  /\ Has(versions, id, n) /\ CanTransition(versions[id][n], to)
      /\ versions' = Written(versions, id, n, v)
      /\ Records' = Records \cup {RecordOf(id, n, v)}

\* There are no others.
LEMMA WriteEffect ==
  ASSUME IInv, NEW p \in Procs, Request(p) \/ Serve(p)
  PROVE  \/ Quiet
         \/ \E id \in ConfigID, n \in Number, value \in Value : Creates(id, n, value)
         \/ \E id \in ConfigID, n \in Number, to \in VersionState : Moves(id, n, to)
  <1> DEFINE f == frame[p]
  <1>1. /\ f \in Frame /\ frame \in [Procs -> Frame] /\ Settled(f, versions) /\ Carried(f)
    BY Zenon DEF IInv, TypeOK, VersionInv
  <1>2. ~ Owed(Idle) /\ (f.pc # "audit" => ~ Owed(f))
    BY Zenon DEF Owed, Idle
  <1>3. ASSUME NEW g, Goto(p, g), g.pc # "audit" \/ g.num = 0, f.pc # "audit", UNCHANGED <<versions, audited>>
        PROVE  Quiet
    BY Zenon, <1>1, <1>3, RecordsStep DEF Quiet, Owed
  <1> HIDE DEF f
  <1>4. CASE Request(p)
    <2>1. f.pc # "audit"
      <3>1. f = Idle
        BY ZenonT(30), <1>4 DEF Request, CreateConfig, CreateVersion, TransitionVersion, f
      <3> QED BY Zenon, <3>1 DEF Idle
    <2>2. ASSUME NEW k \in Key, CreateConfig(p, k)
          PROVE  Quiet
      <3>1. Goto(p, Creating(issued + 1, k)) /\ UNCHANGED <<versions, audited>>
        BY Zenon, <2>2 DEF CreateConfig, Creating
      <3>2. Creating(issued + 1, k).pc # "audit"
        BY Zenon DEF Creating, Idle
      <3> QED BY Zenon, <1>3, <2>1, <3>1, <3>2
    <2>3. ASSUME NEW id, NEW value, CreateVersion(p, id, value)
          PROVE  Quiet
      <3> DEFINE g == Numbering(id, NextNumber(id), NewVersion(value))
      <3>1. Goto(p, g) /\ UNCHANGED <<versions, audited>>
        BY Zenon, <2>3 DEF CreateVersion, Numbering
      <3>2. g.pc # "audit"
        BY Zenon DEF Numbering, Idle
      <3> HIDE DEF g
      <3> QED BY Zenon, <1>3, <2>1, <3>1, <3>2
    <2>4. ASSUME NEW id, NEW n, NEW to, NEW expected, TransitionVersion(p, id, n, to, expected)
          PROVE  Quiet
      <3> DEFINE g == Computed(id, n, to)
      <3>1. Goto(p, g) /\ UNCHANGED <<versions, audited>>
        BY Zenon, <2>4 DEF TransitionVersion
      <3>2. g.pc # "audit"
        BY Zenon DEF Computed, Idle
      <3> HIDE DEF g
      <3> QED BY Zenon, <1>3, <2>1, <3>1, <3>2
    <2> QED BY Zenon, <1>4, <2>2, <2>3, <2>4 DEF Request
  <1>5. CASE RepositoryCreate(p)
    <2>1. f.pc = "create" /\ f.num = 0 /\ UNCHANGED <<versions, audited>>
      BY Zenon, <1>1, <1>5 DEF RepositoryCreate, Carried, f
    <2>2. Goto(p, Created(f)) \/ Goto(p, Idle)
      BY Zenon, <1>5 DEF RepositoryCreate, Created, f
    <2>3. Created(f).num = 0 /\ Idle.num = 0
      BY Zenon, <1>1, <2>1, FrameFields DEF Idle
    <2> QED BY Zenon, <1>3, <2>1, <2>2, <2>3
  <1>6. CASE ValidateDependencies(p)
    <2>1. f.pc = "deps" /\ UNCHANGED <<versions, audited>>
      BY Zenon, <1>6 DEF ValidateDependencies, f
    <2>2. Goto(p, At(f, "put")) \/ Goto(p, Idle)
      BY Zenon, <1>6 DEF ValidateDependencies, At, f
    <2>3. At(f, "put").pc = "put" /\ Idle.num = 0
      BY Zenon, <1>1, FrameFields DEF Idle
    <2> QED BY Zenon, <1>3, <2>1, <2>2, <2>3
  <1>7. CASE PutVersion(p)
    <2>1. f.pc = "put" /\ audited' = audited
      BY Zenon, <1>7 DEF PutVersion, f
    <2>2. CASE NumberTaken(f.id, f.num)
      <3>1. Goto(p, Idle) /\ UNCHANGED versions /\ Idle.num = 0
        BY Zenon, <1>7, <2>2 DEF PutVersion, Idle, f
      <3> QED BY Zenon, <1>3, <2>1, <3>1
    <2>3. CASE ~ NumberTaken(f.id, f.num)
      <3> DEFINE g == At(f, "audit")
      <3>1. Goto(p, g) /\ versions' = Written(versions, f.id, f.num, f.next)
        BY Zenon, <1>7, <2>3 DEF Written, PutVersion, At, f
      <3>2. g.pc = "audit" /\ g.id = f.id /\ g.num = f.num /\ g.next = f.next
        BY ZenonT(30), <1>1, FrameFields
      <3> HIDE DEF g
      <3>3. /\ f.id \in ConfigID /\ f.num \in Number
            /\ \A m \in Number : m < f.num => Has(versions, f.id, m)
        BY Zenon, <1>1, <2>1 DEF Settled, Numbered
      <3>4. PICK value \in Value : f.next = NewVersion(value)
        BY Zenon, <1>1, <2>1 DEF Settled, Numbered
      <3>5. ~ Has(versions, f.id, f.num)
        BY Zenon, <2>3 DEF NumberTaken, Stored, Has
      <3>6. ~ HasCycle(Graph(f.id, [versions[f.id] EXCEPT ![f.num] = f.next]))
        BY Zenon, <1>1, <2>1, <3>5 DEF Settled, Checked
      <3>7. Owed(g) /\ AuditOf(g) = RecordOf(f.id, f.num, f.next)
        BY <3>2, <3>3 DEF Owed, AuditOf, RecordOf, Number
      <3>8. Records' = Records \cup {RecordOf(f.id, f.num, f.next)}
        BY ZenonT(30), <1>1, <1>2, <2>1, <3>1, <3>7, RecordsStep DEF f
      <3>9. Creates(f.id, f.num, value)
        BY ZenonT(30), <3>1, <3>3, <3>4, <3>5, <3>6, <3>8 DEF Creates
      <3> QED BY Zenon, <3>3, <3>9
    <2> QED BY Zenon, <2>2, <2>3
  <1>8. CASE UpdateVersion(p)
    <2>1. f.pc = "update" /\ audited' = audited
      BY Zenon, <1>8 DEF UpdateVersion, f
    <2>2. CASE ~ RevisionMatches(versions[f.id][f.num], f.base.revision)
      <3>1. Goto(p, Idle) /\ UNCHANGED versions /\ Idle.num = 0
        BY ZenonT(30), <1>8, <2>2 DEF UpdateVersion, Idle, f
      <3> QED BY Zenon, <1>3, <2>1, <3>1
    <2>3. CASE RevisionMatches(versions[f.id][f.num], f.base.revision)
      <3> DEFINE g == Updated(f)
      <3>1. Goto(p, g) /\ versions' = Written(versions, f.id, f.num, f.next)
        BY Zenon, <1>8, <2>3 DEF Written, UpdateVersion, Updated, f
      <3>2. g.pc = "audit" /\ g.id = f.id /\ g.num = f.num /\ g.next = f.next
        <4>1. f \in Frame
          BY Zenon, <1>1
        <4> QED BY Zenon, <4>1, FrameFields
      <3> HIDE DEF g
      <3>3. /\ f.id \in ConfigID /\ f.num \in Number
            /\ Has(versions, f.id, f.num) /\ f.base = versions[f.id][f.num]
        <4>1. Copied(f, versions)
          BY Zenon, <1>1 DEF Settled
        <4>2. /\ f.id \in ConfigID /\ f.num \in Number /\ Has(versions, f.id, f.num)
              /\ f.base.revision = versions[f.id][f.num].revision
                   => f.base = versions[f.id][f.num]
          BY Zenon, <2>1, <4>1 DEF Copied
        <4> QED BY Zenon, <2>3, <4>2 DEF RevisionMatches
      <3>4. PICK to \in VersionState : CanTransition(f.base, to) /\ f.next = Transition(f.base, to)
        BY Zenon, <1>1, <2>1 DEF Settled, Copied
      <3>5. Owed(g) /\ AuditOf(g) = RecordOf(f.id, f.num, f.next)
        BY <3>2, <3>3 DEF Owed, AuditOf, RecordOf, Number
      <3>6. Records' = Records \cup {RecordOf(f.id, f.num, f.next)}
        BY ZenonT(30), <1>1, <1>2, <2>1, <3>1, <3>5, RecordsStep DEF f
      <3>7. Moves(f.id, f.num, to)
        BY Zenon, <3>1, <3>3, <3>4, <3>6 DEF Moves
      <3> QED BY ZenonT(30), <3>3, <3>7
    <2> QED BY Zenon, <2>2, <2>3
  <1>9. CASE Audit(p)
    <2>1. /\ f.pc = "audit" /\ Goto(p, At(f, "emit")) /\ audited' = AuditsAfter(f)
          /\ versions' = versions
      BY Zenon, <1>9 DEF Audit, At, f
    <2>2. ~ Owed(At(f, "emit"))
      BY ZenonT(30), <1>1, FrameFields DEF Owed
    <2>3. CASE f.num = 0
      BY Zenon, <1>1, <2>1, <2>2, <2>3, RecordsStep DEF Quiet, Owed, AuditsAfter, f
    <2>4. CASE f.num # 0
      BY Zenon, <1>1, <2>1, <2>2, <2>4, RecordsStep DEF Quiet, Owed, AuditsAfter, f
    <2> QED BY Zenon, <2>3, <2>4
  <1>10. CASE Emit(p)
    <2>1. f.pc = "emit" /\ Goto(p, Idle) /\ UNCHANGED <<versions, audited>> /\ Idle.num = 0
      BY Zenon, <1>10 DEF Emit, Idle, f
    <2> QED BY Zenon, <1>3, <2>1
  <1> QED BY Zenon, <1>4, <1>5, <1>6, <1>7, <1>8, <1>9, <1>10 DEF Serve
-----------------------------------------------------------------------------
\* validateDependencies and PutVersion: a version is stored only under a free
\* number, and while the number is free the graph that was checked is still
\* the graph, so no cycle is ever stored.
THEOREM DependenciesStayAcyclic == Spec => []DependenciesAcyclic
  <1>1. Init => DependenciesAcyclic
    BY DEF Init, DependenciesAcyclic, HasCycle, Graph
  <1>2. IInv /\ DependenciesAcyclic /\ [Next]_vars => DependenciesAcyclic'
    <2> SUFFICES ASSUME IInv, DependenciesAcyclic, [Next]_vars, NEW i \in ConfigID
                 PROVE  ~ HasCycle(Graph(i, versions'[i]))
      BY Zenon DEF DependenciesAcyclic
    <2>1. versions \in Table
      BY Zenon DEF IInv, TypeOK, Table
    <2>2. CASE versions' = versions
      BY ZenonT(30), <2>2 DEF DependenciesAcyclic
    <2>3. ASSUME NEW id \in ConfigID, NEW n \in Number, NEW value \in Value, Creates(id, n, value)
          PROVE  ~ HasCycle(Graph(i, versions'[i]))
      <3>1. versions'[i] = IF i = id THEN [versions[id] EXCEPT ![n] = NewVersion(value)]
                                     ELSE versions[i]
        BY Zenon, <2>1, <2>3 DEF Creates, Written, Table
      <3> QED BY Zenon, <2>3, <3>1 DEF Creates, DependenciesAcyclic
    <2>4. ASSUME NEW id \in ConfigID, NEW n \in Number, NEW to \in VersionState, Moves(id, n, to)
          PROVE  ~ HasCycle(Graph(i, versions'[i]))
      <3> DEFINE v == Transition(versions[id][n], to)
      <3>1. versions' = Written(versions, id, n, v) /\ versions[id][n] \in ConfigVersion
        BY Zenon, <2>1, <2>4 DEF Moves, Table, Has
      <3>2. v \in ConfigVersion /\ v.value = versions[id][n].value /\ v # NoVersion
        BY Zenon, <3>1, VersionFields
      <3> HIDE DEF v
      <3>3. \A m \in Number : versions'[i][m] = IF i = id /\ m = n THEN v ELSE versions[i][m]
        BY SMTT(30), <2>1, <3>1, <3>2, TableFields
      <3>4. \A m \in Number : /\ versions'[i][m] # NoVersion <=> versions[i][m] # NoVersion
                              /\ versions'[i][m] # NoVersion =>
                                   versions'[i][m].value = versions[i][m].value
        BY Zenon, <2>4, <3>2, <3>3 DEF Moves, Has
      <3>5. Graph(i, versions'[i]) = Graph(i, versions[i])
        BY Zenon, <3>4, SameGraph
      <3> QED BY Zenon, <3>5 DEF DependenciesAcyclic
    <2>5. CASE UNCHANGED vars
      BY Zenon, <2>2, <2>5 DEF vars
    <2>6. CASE Next
      BY Zenon, <2>2, <2>3, <2>4, <2>6, WriteEffect DEF Next, Quiet
    <2> QED BY Zenon, <2>5, <2>6
  <1> QED BY <1>1, <1>2, InvHolds, PTL DEF Spec
-----------------------------------------------------------------------------
\* The abstract specification has the domain's operators as its own.
LEMMA SameDomain ==
  /\ \A value : Lifecycle!NewVersion(value) = NewVersion(value)
  /\ \A v, to : Lifecycle!CanTransition(v, to) <=> CanTransition(v, to)
  /\ \A v, to : Lifecycle!Transition(v, to) = Transition(v, to)
  /\ Lifecycle!VersionState = VersionState
  <1>1. Lifecycle!VersionState = VersionState
    BY Zenon DEF Lifecycle!VersionState, VersionState, Lifecycle!Draft, Draft, Lifecycle!Reviewing,
           Reviewing, Lifecycle!Scheduled, Scheduled, Lifecycle!RollingOut, RollingOut,
           Lifecycle!Paused, Paused, Lifecycle!Published, Published, Lifecycle!RolledBack,
           RolledBack, Lifecycle!Expired, Expired
  <1>2. \A value : Lifecycle!NewVersion(value) = NewVersion(value)
    BY Zenon DEF Lifecycle!NewVersion, NewVersion, Lifecycle!Draft, Draft
  <1>3. \A v, to : Lifecycle!Transition(v, to) = Transition(v, to)
    BY Zenon DEF Lifecycle!Transition, Transition
  <1>4. Lifecycle!Allowed = Allowed
    BY Zenon, <1>1 DEF Lifecycle!Allowed, Allowed, Lifecycle!Draft, Draft, Lifecycle!Reviewing,
           Reviewing, Lifecycle!Scheduled, Scheduled, Lifecycle!RollingOut, RollingOut,
           Lifecycle!Paused, Paused, Lifecycle!Published, Published, Lifecycle!RolledBack,
           RolledBack, Lifecycle!Expired, Expired
  <1>5. \A v, to : Lifecycle!CanTransition(v, to) <=> CanTransition(v, to)
    BY Zenon, <1>4 DEF Lifecycle!CanTransition, CanTransition
  <1> QED BY Zenon, <1>1, <1>2, <1>3, <1>5

\* CreateVersion and TransitionVersion over Memory: the version table is the
\* atomic one, numbered without gaps, whatever the calls in flight.
THEOREM ImplementsLifecycle == Spec => LifecycleSpec
  <1>1. Init => Lifecycle!Init
    BY Zenon DEF Init, Lifecycle!Init
  <1>2. IInv /\ [Next]_vars => [Lifecycle!Next]_versions
    <2> SUFFICES ASSUME IInv, Next
                 PROVE  [Lifecycle!Next]_versions
      BY Zenon DEF vars
    <2>1. versions \in Table /\ Contiguous(versions)
      BY Zenon DEF IInv, TypeOK, Table, VersionInv
    <2>2. ASSUME NEW id \in ConfigID, NEW n \in Number, NEW value \in Value, Creates(id, n, value)
          PROVE  Lifecycle!Next
      <3>1. \A m \in Number : Has(versions, id, m) => m < n
        BY <2>1, <2>2 DEF Creates, Contiguous, Number
      <3>2. \A m \in Number : Has(versions, id, m) <=> m < n
        BY Zenon, <2>2, <3>1 DEF Creates
      <3>3. versions' = [versions EXCEPT ![id][n] = NewVersion(value)]
        BY Zenon, <2>2 DEF Creates, Written
      <3>4. Lifecycle!Create(id, n, value)
        BY Zenon, <3>2, <3>3, SameDomain DEF Lifecycle!Create, Lifecycle!Stored, Has
      <3> QED BY ZenonT(30), <3>4 DEF Lifecycle!Next
    <2>3. ASSUME NEW id \in ConfigID, NEW n \in Number, NEW to \in VersionState, Moves(id, n, to)
          PROVE  Lifecycle!Next
      <3>1. versions' = [versions EXCEPT ![id][n] = Transition(@, to)]
        <4>1. versions' = [versions EXCEPT ![id][n] = Transition(versions[id][n], to)]
          BY Zenon, <2>3 DEF Moves, Written
        <4> QED BY Zenon, <4>1
      <3>2. Lifecycle!Move(id, n, to)
        BY Zenon, <2>3, <3>1, SameDomain DEF Moves, Has, Lifecycle!Move, Lifecycle!Stored
      <3> QED BY Zenon, <3>2, SameDomain DEF Lifecycle!Next
    <2> QED BY Zenon, <2>2, <2>3, WriteEffect DEF Next, Quiet
  <1> QED BY <1>1, <1>2, InvHolds, PTL DEF Spec, LifecycleSpec, Lifecycle!Spec
-----------------------------------------------------------------------------
(***************************************************************************)
(* The records of a version, made or owed, are its history.                *)
(***************************************************************************)
About(a, id, n) == a.id = id /\ a.num = n

History ==
  /\ \A a, b \in Records : About(b, a.id, a.num) =>
       /\ a.revision = b.revision => a = b
       /\ b.revision = a.revision + 1 => b.state \in Allowed[a.state]
  /\ \A a \in Records :
       /\ Has(versions, a.id, a.num)
       /\ a.revision <= versions[a.id][a.num].revision
       /\ a.revision = versions[a.id][a.num].revision => a.state = versions[a.id][a.num].state
  /\ \A id \in ConfigID, n \in Number : Has(versions, id, n) =>
       \A r \in 1 .. versions[id][n].revision : \E a \in Records : About(a, id, n) /\ a.revision = r

\* Records are audit records.
LEMMA RecordsType ==
  ASSUME IInv
  PROVE  Records \subseteq AuditRecord
  <1>1. ASSUME NEW p \in Procs, Owed(frame[p])
        PROVE  AuditOf(frame[p]) \in AuditRecord
    <2>1. /\ frame[p].id \in ConfigID /\ frame[p].num \in Number
          /\ frame[p].next \in ConfigVersion
      BY Zenon, <1>1 DEF Owed, IInv, Carried
    <2> QED BY Zenon, <2>1 DEF AuditOf, AuditRecord, ConfigVersion
  <1> QED BY Zenon, <1>1 DEF Records, IInv, TypeOK

\* One more revision of a version that has one, or the first.
LEMMA HistoryStep ==
  ASSUME IInv, IInv', History, NEW id \in ConfigID, NEW n \in Number, NEW v \in ConfigVersion,
         versions' = Written(versions, id, n, v),
         Records' = Records \cup {RecordOf(id, n, v)},
         \/ ~ Has(versions, id, n) /\ v.revision = 1
         \/ /\ Has(versions, id, n) /\ v.revision = versions[id][n].revision + 1
            /\ v.state \in Allowed[versions[id][n].state]
  PROVE  History'
  <1> DEFINE c == RecordOf(id, n, v)
             u == versions[id][n]
  <1>1. versions \in Table /\ v.revision \in Nat /\ v # NoVersion
    BY Zenon, VersionFields DEF IInv, TypeOK, Table
  <1>2. c.id = id /\ c.num = n /\ c.revision = v.revision /\ c.state = v.state
    BY Zenon DEF RecordOf
  <1> HIDE DEF c
  <1>3. \A a \in Records : a.id \in ConfigID /\ a.num \in Number /\ a.revision \in Nat
    BY Zenon, RecordsType DEF AuditRecord
  <1>4. /\ versions'[id][n] = v
        /\ \A i \in ConfigID, m \in Number : ~ (i = id /\ m = n) => versions'[i][m] = versions[i][m]
    BY <1>1, TableFields
  <1>5. Has(versions, id, n) => u \in ConfigVersion /\ u.revision \in Nat
    <2>1. Has(versions, id, n) => u \in ConfigVersion
      BY ZenonT(30), <1>1 DEF Has, Table
    <2> QED BY Zenon, <2>1, VersionFields
  <1>6. \A a \in Records : About(a, id, n) => /\ Has(versions, id, n) /\ a.revision <= u.revision
                                              /\ v.revision = u.revision + 1
                                              /\ v.state \in Allowed[u.state]
                                              /\ a.revision = u.revision => a.state = u.state
    <2> SUFFICES ASSUME NEW a \in Records, About(a, id, n)
                 PROVE  /\ Has(versions, id, n) /\ a.revision <= u.revision
                        /\ v.revision = u.revision + 1 /\ v.state \in Allowed[u.state]
                        /\ a.revision = u.revision => a.state = u.state
      BY Zenon
    <2>1. a.id = id /\ a.num = n
      BY Zenon DEF About
    <2>2. /\ Has(versions, a.id, a.num)
          /\ a.revision <= versions[a.id][a.num].revision
          /\ a.revision = versions[a.id][a.num].revision
               => a.state = versions[a.id][a.num].state
      BY Zenon DEF History
    <2> QED BY Zenon, <2>1, <2>2
  <1>7. \A a \in Records : About(a, id, n) => /\ a.revision < v.revision
                                              /\ v.revision = a.revision + 1 =>
                                                   v.state \in Allowed[a.state]
    <2> SUFFICES ASSUME NEW a \in Records, About(a, id, n)
                 PROVE  /\ a.revision < v.revision
                        /\ v.revision = a.revision + 1 => v.state \in Allowed[a.state]
      BY Zenon
    <2>1. /\ a.revision \in Nat /\ u.revision \in Nat /\ a.revision <= u.revision
          /\ v.revision = u.revision + 1 /\ v.state \in Allowed[u.state]
          /\ a.revision = u.revision => a.state = u.state
      BY ZenonT(30), <1>3, <1>5, <1>6
    <2>2. v.revision = a.revision + 1 => a.revision = u.revision
      BY SMTT(30), <2>1
    <2>3. a.revision < v.revision
      BY SMTT(30), <2>1
    <2> QED BY Zenon, <2>1, <2>2, <2>3
  <1>8. ASSUME NEW a \in Records', NEW b \in Records', About(b, a.id, a.num)
        PROVE  /\ a.revision = b.revision => a = b
               /\ b.revision = a.revision + 1 => b.state \in Allowed[a.state]
    <2>1. CASE a \in Records /\ b \in Records
      BY Zenon, <1>8, <2>1 DEF History
    <2>2. CASE a \in Records /\ b = c
      <3>1. About(a, id, n) /\ a.revision \in Nat
        BY Zenon, <1>2, <1>3, <1>8, <2>2 DEF About
      <3>2. a.revision < v.revision /\ (v.revision = a.revision + 1 => v.state \in Allowed[a.state])
        BY ZenonT(30), <1>7, <2>2, <3>1
      <3>3. a.revision # b.revision
        BY SMTT(30), <1>1, <1>2, <2>2, <3>1, <3>2
      <3> QED BY Zenon, <1>2, <2>2, <3>2, <3>3
    <2>3. CASE a = c /\ b \in Records
      <3>1. About(b, id, n) /\ b.revision \in Nat
        BY Zenon, <1>2, <1>3, <1>8, <2>3 DEF About
      <3>2. b.revision < v.revision
        BY Zenon, <1>7, <2>3, <3>1
      <3> QED BY <1>1, <1>2, <2>3, <3>1, <3>2
    <2>4. CASE a = c /\ b = c
      BY <1>1, <1>2, <2>4
    <2> QED BY ZenonT(30), <2>1, <2>2, <2>3, <2>4 DEF c
  <1>9. ASSUME NEW a \in Records'
        PROVE  /\ Has(versions', a.id, a.num)
               /\ a.revision <= versions'[a.id][a.num].revision
               /\ a.revision = versions'[a.id][a.num].revision
                    => a.state = versions'[a.id][a.num].state
    <2>1. CASE a = c
      <3>1. v.revision <= v.revision
        BY <1>1
      <3>2. a.id = id /\ a.num = n /\ a.revision = v.revision /\ a.state = v.state
        BY Zenon, <1>2, <2>1
      <3>3. versions'[a.id][a.num] = v
        BY Zenon, <1>4, <3>2
      <3> QED BY Zenon, <1>1, <3>1, <3>2, <3>3 DEF Has
    <2>2. CASE a \in Records /\ About(a, id, n)
      <3>1. a.revision < v.revision /\ a.revision \in Nat
        BY ZenonT(30), <1>3, <1>7, <2>2
      <3> QED BY SMTT(30), <1>1, <1>4, <2>2, <3>1 DEF Has, About
    <2>3. CASE a \in Records /\ ~ About(a, id, n)
      <3>1. versions'[a.id][a.num] = versions[a.id][a.num]
        BY ZenonT(30), <1>3, <1>4, <2>3 DEF About
      <3> QED BY ZenonT(30), <2>3, <3>1 DEF History, Has
    <2> QED BY ZenonT(30), <2>1, <2>2, <2>3 DEF c
  <1>10. ASSUME NEW i \in ConfigID, NEW m \in Number, Has(versions', i, m),
               NEW r \in 1 .. versions'[i][m].revision
        PROVE  \E a \in Records' : About(a, i, m) /\ a.revision = r
    <2>1. \A j \in ConfigID, k \in Number : Has(versions, j, k) =>
            \A q \in 1 .. versions[j][k].revision :
              \E a \in Records : About(a, j, k) /\ a.revision = q
      BY Zenon DEF History
    <2>2. CASE ~ (i = id /\ m = n)
      <3>1. versions'[i][m] = versions[i][m]
        BY Zenon, <1>4, <2>2
      <3>2. Has(versions, i, m) /\ r \in 1 .. versions[i][m].revision
        BY Zenon, <1>10, <3>1 DEF Has
      <3>3. \E a \in Records : About(a, i, m) /\ a.revision = r
        BY Zenon, <2>1, <3>2
      <3> QED BY Zenon, <3>3
    <2>3. CASE i = id /\ m = n /\ r = v.revision
      <3>1. c \in Records'
        BY ZenonT(30) DEF c
      <3> QED BY Zenon, <1>2, <2>3, <3>1 DEF About
    <2>4. CASE i = id /\ m = n /\ r # v.revision
      <3>1. r \in 1 .. v.revision
        BY Zenon, <1>4, <2>4
      <3>2. Has(versions, id, n) /\ v.revision = u.revision + 1
        BY <1>1, <2>4, <3>1
      <3>3. r \in 1 .. u.revision
        BY <1>5, <2>4, <3>1, <3>2
      <3>4. \E a \in Records : About(a, id, n) /\ a.revision = r
        BY <2>1, <3>2, <3>3
      <3> QED BY Zenon, <2>4, <3>4
    <2> QED BY ZenonT(30), <2>2, <2>3, <2>4
  <1> QED BY ZenonT(30), <1>8, <1>9, <1>10 DEF History

\* Service.audit after CreateVersion and TransitionVersion: the records of a
\* version, by revision, are its path through the transition table.
THEOREM AuditTrailsArePaths == Spec => []AuditTrailIsPath
  <1>1. Init => History
    <2> SUFFICES ASSUME Init
                 PROVE  History
      BY Zenon
    <2>1. Records = {}
      BY Zenon DEF Init, Records, Owed, Idle
    <2> QED BY Zenon, <2>1 DEF Init, History, Has
  <1>2. IInv /\ IInv' /\ History /\ [Next]_vars => History'
    <2> SUFFICES ASSUME IInv, IInv', History, [Next]_vars
                 PROVE  History'
      BY Zenon
    <2>1. CASE versions' = versions /\ Records' = Records
      BY ZenonT(30), <2>1 DEF History
    <2>2. ASSUME NEW id \in ConfigID, NEW n \in Number, NEW value \in Value, Creates(id, n, value)
          PROVE  History'
      <3>1. NewVersion(value) \in ConfigVersion /\ NewVersion(value).revision = 1
        BY ZenonT(30), VersionFields DEF NewVersion
      <3> QED BY Zenon, <2>2, <3>1, HistoryStep DEF Creates
    <2>3. ASSUME NEW id \in ConfigID, NEW n \in Number, NEW to \in VersionState, Moves(id, n, to)
          PROVE  History'
      <3> DEFINE v == Transition(versions[id][n], to)
      <3>1. versions[id][n] \in ConfigVersion
        BY <2>3 DEF Moves, Has, IInv, TypeOK
      <3>2. v \in ConfigVersion /\ v.revision = versions[id][n].revision + 1
        BY Zenon, <3>1, VersionFields
      <3>3. v.state = to
        BY ZenonT(30), <3>1 DEF Transition, ConfigVersion
      <3>4. /\ versions' = Written(versions, id, n, v)
            /\ Records' = Records \cup {RecordOf(id, n, v)}
            /\ Has(versions, id, n) /\ v.state \in Allowed[versions[id][n].state]
        BY Zenon, <2>3, <3>3 DEF Moves, CanTransition
      <3> HIDE DEF v
      <3> QED BY Zenon, <3>2, <3>4, HistoryStep
    <2>4. CASE UNCHANGED vars
      BY Zenon, <2>1, <2>4 DEF vars, Records
    <2>5. CASE Next
      BY ZenonT(30), <2>1, <2>2, <2>3, <2>5, WriteEffect DEF Next, Quiet
    <2> QED BY Zenon, <2>4, <2>5
  <1>3. IInv /\ History => AuditTrailIsPath
    <2> SUFFICES ASSUME IInv, History
                 PROVE  AuditTrailIsPath
      BY Zenon
    <2>1. \A a, b \in audited : a.id = b.id /\ a.num = b.num
            => /\ a.revision = b.revision => a = b
               /\ b.revision = a.revision + 1 => b.state \in Allowed[a.state]
      BY Zenon DEF History, About, Records
    <2>2. ASSUME NEW id \in ConfigID, NEW n \in Number, Stored(id, n),
                 NEW r \in 1 .. versions[id][n].revision, AuditsOf(id, n, r) = {}
          PROVE  \E p \in Procs : /\ frame[p].pc = "audit" /\ Announcing(p, id, n)
                                  /\ frame[p].next.revision = r
      <3>1. PICK a \in Records : About(a, id, n) /\ a.revision = r
        BY Zenon, <2>2 DEF History, Has, Stored
      <3>2. a \notin audited
        BY Zenon, <2>2, <3>1 DEF AuditsOf, About
      <3>3. PICK p \in Procs : Owed(frame[p]) /\ a = AuditOf(frame[p])
        BY Zenon, <3>2 DEF Records
      <3> QED BY Zenon, <3>1, <3>3 DEF Owed, About, AuditOf, Announcing
    <2> QED BY <2>1, <2>2 DEF AuditTrailIsPath
  <1> QED BY <1>1, <1>2, <1>3, InvHolds, PTL DEF Spec
-----------------------------------------------------------------------------
(***************************************************************************)
(* One event per write.                                                    *)
(***************************************************************************)
Announces(f, id, n) == f.pc \in {"audit", "emit"} /\ f.id = id /\ f.num = n

Announcers(id, n) == {p \in Procs : Announcing(p, id, n)}

\* EventPerWrite, and before the first write there is nothing to announce.
EventCount ==
  \A id \in ConfigID, n \in Number :
    /\ Stored(id, n) => versions[id][n].revision
                          = outbox[id][n] + Cardinality(Announcers(id, n))
    /\ ~ Stored(id, n) => outbox[id][n] = 0 /\ Announcers(id, n) = {}

\* The announcers are finitely many, and one joins or leaves at a time.
LEMMA AnnouncersCount ==
  ASSUME NEW id, NEW n
  PROVE  /\ IsFiniteSet(Announcers(id, n))
         /\ Cardinality(Announcers(id, n)) \in Nat
<1>1. Announcers(id, n) \subseteq Procs
  BY Zenon DEF Announcers
<1>2. IsFiniteSet(Announcers(id, n))
  BY Zenon, <1>1, FS_Subset, ConfigAssumption
<1>3. QED
  BY Zenon, <1>2, FS_CardinalityType

\* What a step of one frame does to them.
LEMMA AnnouncersStep ==
  ASSUME IInv, NEW p \in Procs, NEW g, Goto(p, g), NEW id, NEW n
  PROVE  /\ Announces(g, id, n) => Announcers(id, n)' = Announcers(id, n) \cup {p}
         /\ ~ Announces(g, id, n) => Announcers(id, n)' = Announcers(id, n) \ {p}
         /\ Announces(frame[p], id, n) <=> p \in Announcers(id, n)
<1>1. frame' = [frame EXCEPT ![p] = g] /\ frame \in [Procs -> Frame]
  BY Zenon DEF Goto, IInv, TypeOK
<1>2. \A q \in Procs : frame'[q] = IF q = p THEN g ELSE frame[q]
  BY Zenon, <1>1
<1>3. \A q \in Procs : Announcing(q, id, n)' <=> Announces(IF q = p THEN g ELSE frame[q], id, n)
  BY Zenon, <1>2 DEF Announcing, Announces
<1>4. \A q \in Procs : Announcing(q, id, n) <=> Announces(frame[q], id, n)
  BY Zenon DEF Announcing, Announces
<1>5. Announcers(id, n)' = {q \in Procs : Announces(IF q = p THEN g ELSE frame[q], id, n)}
  BY Zenon, <1>3 DEF Announcers
<1>6. Announcers(id, n) = {q \in Procs : Announces(frame[q], id, n)}
  BY Zenon, <1>4 DEF Announcers
<1>7. ASSUME Announces(g, id, n)
      PROVE  Announcers(id, n)' = Announcers(id, n) \cup {p}
  BY Zenon, <1>5, <1>6, <1>7
<1>8. ASSUME ~ Announces(g, id, n)
      PROVE  Announcers(id, n)' = Announcers(id, n) \ {p}
  BY Zenon, <1>5, <1>6, <1>8
<1>9. QED
  BY Zenon, <1>6, <1>7, <1>8

\* A step that writes and emits nothing and starts no announcement.
LEMMA CountQuiet ==
  ASSUME IInv, EventCount, NEW p \in Procs, NEW g, Goto(p, g),
         UNCHANGED <<versions, outbox>>,
         \A id \in ConfigID, n \in Number : Announces(g, id, n) <=> Announces(frame[p], id, n)
  PROVE  EventCount'
<1>1. ASSUME NEW id \in ConfigID, NEW n \in Number
      PROVE  Announcers(id, n)' = Announcers(id, n)
  <2>1. CASE Announces(g, id, n)
    <3>1. Announcers(id, n)' = Announcers(id, n) \cup {p} /\ p \in Announcers(id, n)
      BY Zenon, <2>1, AnnouncersStep
    <3>2. QED
      BY Zenon, <3>1
  <2>2. CASE ~ Announces(g, id, n)
    <3>1. Announcers(id, n)' = Announcers(id, n) \ {p} /\ p \notin Announcers(id, n)
      BY Zenon, <2>2, AnnouncersStep
    <3>2. QED
      BY Zenon, <3>1
  <2>3. QED
    BY Zenon, <2>1, <2>2
<1>2. ASSUME NEW id \in ConfigID, NEW n \in Number
      PROVE  /\ Stored(id, n)' => versions'[id][n].revision
                                   = outbox'[id][n] + Cardinality(Announcers(id, n)')
             /\ ~ Stored(id, n)' => outbox'[id][n] = 0 /\ Announcers(id, n)' = {}
  BY Zenon, <1>1 DEF EventCount, Stored
<1>3. QED
  BY Zenon, <1>2 DEF EventCount

\* A write: one more revision, and one more process that has to announce it.
LEMMA CountWrite ==
  ASSUME IInv, EventCount, NEW p \in Procs, NEW g, Goto(p, g), UNCHANGED outbox,
         NEW i \in ConfigID, NEW m \in Number, NEW v \in ConfigVersion,
         versions' = Written(versions, i, m, v),
         frame[p].pc \notin {"audit", "emit"}, g.pc = "audit", g.id = i, g.num = m,
         \/ ~ Has(versions, i, m) /\ v.revision = 1
         \/ Has(versions, i, m) /\ v.revision = versions[i][m].revision + 1
  PROVE  EventCount'
<1>1. /\ versions'[i][m] = v /\ v # NoVersion
      /\ \A id \in ConfigID, n \in Number :
           ~ (id = i /\ n = m) => versions'[id][n] = versions[id][n]
  <2>1. versions \in Table
    BY Zenon DEF IInv, TypeOK, Table
  <2>2. v # NoVersion
    BY Zenon, NoVersionAssumption
  <2>3. PICK ws : ws = Written(versions, i, m, v)
    BY Zenon
  <2>4. /\ ws[i][m] = v
        /\ \A id \in ConfigID, n \in Number :
             ~ (id = i /\ n = m) => ws[id][n] = versions[id][n]
    BY <2>1, <2>3, TableFields
  <2>5. QED
    BY Zenon, <2>2, <2>3, <2>4
<1>2. ASSUME NEW id, NEW n
      PROVE  /\ p \notin Announcers(id, n)
             /\ id = i /\ n = m => Announcers(id, n)' = Announcers(id, n) \cup {p}
             /\ ~ (id = i /\ n = m) => Announcers(id, n)' = Announcers(id, n)
  <2>1. ~ Announces(frame[p], id, n) /\ (Announces(g, id, n) <=> id = i /\ n = m)
    BY Zenon DEF Announces
  <2>2. p \notin Announcers(id, n)
    BY Zenon, <2>1, AnnouncersStep
  <2>3. ~ (id = i /\ n = m) => Announcers(id, n)' = Announcers(id, n) \ {p}
    BY Zenon, <2>1, AnnouncersStep
  <2>4. QED
    BY Zenon, <2>1, <2>2, <2>3, AnnouncersStep
<1>3. ASSUME NEW id \in ConfigID, NEW n \in Number, ~ (id = i /\ n = m)
      PROVE  /\ Stored(id, n)' => versions'[id][n].revision
                                   = outbox'[id][n] + Cardinality(Announcers(id, n)')
             /\ ~ Stored(id, n)' => outbox'[id][n] = 0 /\ Announcers(id, n)' = {}
  <2>1. Announcers(id, n)' = Announcers(id, n)
    BY Zenon, <1>2, <1>3
  <2>2. versions'[id][n] = versions[id][n]
    BY Zenon, <1>1, <1>3
  <2>3. /\ Stored(id, n) => versions[id][n].revision
                             = outbox[id][n] + Cardinality(Announcers(id, n))
        /\ ~ Stored(id, n) => outbox[id][n] = 0 /\ Announcers(id, n) = {}
    BY Zenon DEF EventCount
  <2>4. Stored(id, n)' <=> Stored(id, n)
    BY Zenon, <2>2 DEF Stored
  <2>5. QED
    BY Zenon, <2>1, <2>2, <2>3, <2>4
<1>4. v.revision = outbox[i][m] + Cardinality(Announcers(i, m)')
  <2>1. IsFiniteSet(Announcers(i, m)) /\ Cardinality(Announcers(i, m)) \in Nat
    BY Zenon, AnnouncersCount
  <2>2. Cardinality(Announcers(i, m) \cup {p}) = Cardinality(Announcers(i, m)) + 1
    BY Zenon, <1>2, <2>1, FS_AddElement
  <2>3. Cardinality(Announcers(i, m)') = Cardinality(Announcers(i, m)) + 1
    BY Zenon, <1>2, <2>2
  <2>4. outbox[i][m] \in Nat
    BY Zenon DEF IInv, TypeOK
  <2>5. CASE ~ Has(versions, i, m) /\ v.revision = 1
    <3>1. outbox[i][m] = 0 /\ Cardinality(Announcers(i, m)) = 0
      BY Zenon, <2>5, FS_EmptySet DEF EventCount, Has, Stored
    <3>2. QED
      BY <2>3, <2>5, <3>1
  <2>6. CASE Has(versions, i, m) /\ v.revision = versions[i][m].revision + 1
    <3>1. versions[i][m].revision = outbox[i][m] + Cardinality(Announcers(i, m))
      BY Zenon, <2>6 DEF EventCount, Has, Stored
    <3>2. QED
      BY <2>1, <2>3, <2>4, <2>6, <3>1
  <2>7. QED
    BY Zenon, <2>5, <2>6
<1>5. Stored(i, m)'
  BY Zenon, <1>1 DEF Stored
<1>6. ASSUME NEW id \in ConfigID, NEW n \in Number
      PROVE  /\ Stored(id, n)' => versions'[id][n].revision
                                   = outbox'[id][n] + Cardinality(Announcers(id, n)')
             /\ ~ Stored(id, n)' => outbox'[id][n] = 0 /\ Announcers(id, n)' = {}
  <2>1. CASE id = i /\ n = m
    BY Zenon, <1>1, <1>4, <1>5, <2>1
  <2>2. CASE ~ (id = i /\ n = m)
    BY Zenon, <1>3, <2>2
  <2>3. QED
    BY Zenon, <2>1, <2>2
<1>7. QED
  BY Zenon, <1>6 DEF EventCount

\* An emitted event: one more event, and one announcer less.
LEMMA CountEmit ==
  ASSUME IInv, EventCount, NEW p \in Procs, NEW i \in ConfigID, NEW m \in Number,
         Announces(frame[p], i, m), Goto(p, Idle), UNCHANGED versions,
         outbox' = [outbox EXCEPT ![i][m] = @ + 1]
  PROVE  EventCount'
<1>1. outbox \in [ConfigID -> [Number -> Nat]]
  BY Zenon DEF IInv, TypeOK
<1>2. /\ outbox'[i][m] = outbox[i][m] + 1
      /\ \A id \in ConfigID, n \in Number :
           ~ (id = i /\ n = m) => outbox'[id][n] = outbox[id][n]
  BY <1>1
<1>3. ASSUME NEW id, NEW n
      PROVE  /\ p \in Announcers(id, n) <=> id = i /\ n = m
             /\ Announcers(id, n)' = Announcers(id, n) \ {p}
  <2>1. PICK g : g = Idle
    BY Zenon
  <2>2. ~ Announces(g, id, n) /\ (Announces(frame[p], id, n) <=> id = i /\ n = m)
    BY Zenon, <2>1 DEF Announces, Idle
  <2>3. Goto(p, g)
    BY Zenon, <2>1
  <2>4. Announcers(id, n)' = Announcers(id, n) \ {p}
    BY <2>2, <2>3, AnnouncersStep
  <2>5. p \in Announcers(id, n) <=> Announces(frame[p], id, n)
    BY Zenon DEF Announcers, Announcing, Announces
  <2>6. QED
    BY Zenon, <2>2, <2>4, <2>5
<1>4. ASSUME NEW id \in ConfigID, NEW n \in Number, ~ (id = i /\ n = m)
      PROVE  /\ Stored(id, n)' => versions'[id][n].revision
                                   = outbox'[id][n] + Cardinality(Announcers(id, n)')
             /\ ~ Stored(id, n)' => outbox'[id][n] = 0 /\ Announcers(id, n)' = {}
  <2>1. Announcers(id, n)' = Announcers(id, n) \ {p} /\ p \notin Announcers(id, n)
    BY Zenon, <1>3, <1>4
  <2>2. Announcers(id, n)' = Announcers(id, n)
    BY Zenon, <2>1
  <2>3. outbox'[id][n] = outbox[id][n]
    BY Zenon, <1>2, <1>4
  <2>4. QED
    BY Zenon, <2>2, <2>3 DEF EventCount, Stored
<1>5. p \in Announcers(i, m)
  BY Zenon, <1>3
<1>6. Stored(i, m) /\ versions[i][m].revision = outbox[i][m] + Cardinality(Announcers(i, m))
  BY Zenon, <1>5 DEF EventCount
<1>7. outbox'[i][m] + Cardinality(Announcers(i, m)') = outbox[i][m] + Cardinality(Announcers(i, m))
  <2>1. IsFiniteSet(Announcers(i, m)) /\ Cardinality(Announcers(i, m)) \in Nat
    BY Zenon, AnnouncersCount
  <2>2. Cardinality(Announcers(i, m) \ {p}) = Cardinality(Announcers(i, m)) - 1
    BY Zenon, <1>5, <2>1, FS_RemoveElement
  <2>3. Cardinality(Announcers(i, m)') = Cardinality(Announcers(i, m)) - 1
    BY Zenon, <1>3, <2>2
  <2>4. outbox[i][m] \in Nat
    BY Zenon, <1>1
  <2>5. QED
    BY <1>2, <2>1, <2>3, <2>4
<1>8. ASSUME NEW id \in ConfigID, NEW n \in Number, id = i, n = m
      PROVE  /\ Stored(id, n)' => versions'[id][n].revision
                                   = outbox'[id][n] + Cardinality(Announcers(id, n)')
             /\ ~ Stored(id, n)' => outbox'[id][n] = 0 /\ Announcers(id, n)' = {}
  BY Zenon, <1>6, <1>7, <1>8 DEF Stored
<1>9. QED
  BY Zenon, <1>4, <1>8 DEF EventCount

\* Each step of a call is one of these.
LEMMA CountStep ==
  ASSUME IInv, EventCount, NEW p \in Procs, Request(p) \/ Serve(p)
  PROVE  EventCount'
<1> DEFINE f == frame[p]
<1>1. f \in Frame /\ Settled(f, versions) /\ Carried(f) /\ 0 \notin Number
  <2>1. f \in Frame /\ Settled(f, versions) /\ Carried(f)
    BY Zenon DEF IInv, TypeOK, VersionInv
  <2>2. 0 \notin Number
    BY DEF Number
  <2>3. QED
    BY Zenon, <2>1, <2>2
<1>2. ASSUME NEW g, Goto(p, g), UNCHANGED <<versions, outbox>>,
             f.pc \notin {"audit", "emit"} \/ f.num = 0,
             g.pc \notin {"audit", "emit"} \/ g.num = 0
      PROVE  EventCount'
  <2>1. \A id \in ConfigID, n \in Number : ~ Announces(g, id, n) /\ ~ Announces(f, id, n)
    BY Zenon, <1>1, <1>2 DEF Announces
  <2>2. QED
    BY Zenon, <1>2, <2>1, CountQuiet
<1>3. Idle.pc \notin {"audit", "emit"} /\ Idle.num = 0
  BY Zenon DEF Idle
<1> HIDE DEF f
<1>4. CASE Request(p)
  <2>1. f = Idle /\ UNCHANGED <<versions, outbox>>
    BY ZenonT(30), <1>4 DEF Request, CreateConfig, CreateVersion, TransitionVersion, f
  <2>2. \E g : Goto(p, g) /\ g.pc \in {"create", "deps", "update"}
    <3>1. ASSUME NEW k \in Key, CreateConfig(p, k)
          PROVE  Goto(p, Creating(issued', k)) /\ Creating(issued', k).pc = "create"
      BY Zenon, <3>1 DEF CreateConfig, Creating, Idle
    <3>2. ASSUME NEW id, NEW value, CreateVersion(p, id, value)
          PROVE  LET g == Numbering(id, NextNumber(id), NewVersion(value))
                 IN  Goto(p, g) /\ g.pc = "deps"
      BY Zenon, <3>2 DEF CreateVersion, Numbering, Idle
    <3>3. ASSUME NEW id, NEW n, NEW to, NEW expected, TransitionVersion(p, id, n, to, expected)
          PROVE  Goto(p, Computed(id, n, to)) /\ Computed(id, n, to).pc = "update"
      BY Zenon, <3>3 DEF TransitionVersion, Computed, Idle
    <3>4. QED
      BY Zenon, <1>4, <3>1, <3>2, <3>3 DEF Request
  <2>3. QED
    BY Zenon, <1>2, <1>3, <2>1, <2>2
<1>5. CASE RepositoryCreate(p)
  <2>1. f.num = 0 /\ UNCHANGED <<versions, outbox>>
    BY Zenon, <1>1, <1>5 DEF RepositoryCreate, Carried, f
  <2>2. Goto(p, Created(f)) \/ Goto(p, Idle)
    BY Zenon, <1>5 DEF RepositoryCreate, Created, f
  <2>3. Created(f).num = 0
    BY Zenon, <1>1, <2>1, FrameFields
  <2>4. QED
    BY Zenon, <1>2, <1>3, <2>1, <2>2, <2>3
<1>6. CASE ValidateDependencies(p)
  <2>1. f.pc = "deps" /\ UNCHANGED <<versions, outbox>>
    BY Zenon, <1>6 DEF ValidateDependencies, f
  <2>2. Goto(p, At(f, "put")) \/ Goto(p, Idle)
    BY Zenon, <1>6 DEF ValidateDependencies, At, f
  <2>3. At(f, "put").pc = "put"
    BY Zenon, <1>1, FrameFields
  <2>4. QED
    BY Zenon, <1>2, <1>3, <2>1, <2>2, <2>3
<1>7. CASE PutVersion(p)
  <2>1. f.pc = "put" /\ UNCHANGED outbox
    BY Zenon, <1>7 DEF PutVersion, f
  <2>2. CASE NumberTaken(f.id, f.num)
    <3>1. Goto(p, Idle) /\ UNCHANGED versions
      BY Zenon, <1>7, <2>2 DEF PutVersion, f
    <3>2. QED
      BY Zenon, <1>2, <1>3, <2>1, <3>1
  <2>3. CASE ~ NumberTaken(f.id, f.num)
    <3> DEFINE g == At(f, "audit")
    <3>1. Goto(p, g) /\ versions' = Written(versions, f.id, f.num, f.next)
      BY Zenon, <1>7, <2>3 DEF Written, PutVersion, At, f
    <3>2. g.pc = "audit" /\ g.id = f.id /\ g.num = f.num
      BY Zenon, <1>1, FrameFields
    <3> HIDE DEF g
    <3>3. f.id \in ConfigID /\ f.num \in Number /\ \E value \in Value : f.next = NewVersion(value)
      BY Zenon, <1>1, <2>1 DEF Settled, Numbered
    <3>4. f.next \in ConfigVersion /\ f.next.revision = 1
      <4>1. PICK value \in Value : f.next = NewVersion(value)
        BY Zenon, <3>3
      <4>2. NewVersion(value) \in ConfigVersion
        BY Zenon, VersionFields
      <4>3. NewVersion(value).revision = 1
        BY Zenon DEF NewVersion
      <4>4. QED
        BY Zenon, <4>1, <4>2, <4>3
    <3>5. ~ Has(versions, f.id, f.num)
      BY Zenon, <2>3 DEF NumberTaken, Stored, Has
    <3>6. PICK i \in ConfigID, m \in Number, v \in ConfigVersion :
            i = f.id /\ m = f.num /\ v = f.next
      BY Zenon, <3>3, <3>4
    <3>7. /\ versions' = Written(versions, i, m, v) /\ g.id = i /\ g.num = m
          /\ ~ Has(versions, i, m) /\ v.revision = 1
      BY Zenon, <3>1, <3>2, <3>4, <3>5, <3>6
    <3>8. frame[p].pc \notin {"audit", "emit"}
      BY Zenon, <2>1 DEF f
    <3>9. QED
      BY Zenon, <2>1, <3>1, <3>2, <3>6, <3>7, <3>8, CountWrite
  <2>4. QED
    BY Zenon, <2>2, <2>3
<1>8. CASE UpdateVersion(p)
  <2>1. f.pc = "update" /\ UNCHANGED outbox
    BY Zenon, <1>8 DEF UpdateVersion, f
  <2>2. CASE ~ RevisionMatches(versions[f.id][f.num], f.base.revision)
    <3>1. Goto(p, Idle) /\ UNCHANGED versions
      BY Zenon, <1>8, <2>2 DEF UpdateVersion, f
    <3>2. QED
      BY Zenon, <1>2, <1>3, <2>1, <3>1
  <2>3. CASE RevisionMatches(versions[f.id][f.num], f.base.revision)
    <3> DEFINE g == Updated(f)
    <3>1. Goto(p, g) /\ versions' = Written(versions, f.id, f.num, f.next)
      BY Zenon, <1>8, <2>3 DEF Written, UpdateVersion, Updated, f
    <3>2. g.pc = "audit" /\ g.id = f.id /\ g.num = f.num
      BY Zenon, <1>1, FrameFields
    <3> HIDE DEF g
    <3>3. /\ f.id \in ConfigID /\ f.num \in Number /\ f.base \in ConfigVersion
          /\ Has(versions, f.id, f.num)
          /\ \E to \in VersionState : f.next = Transition(f.base, to)
      BY Zenon, <1>1, <2>1 DEF Settled, Copied
    <3>4. f.next \in ConfigVersion /\ f.next.revision = f.base.revision + 1
      <4>1. PICK to \in VersionState : f.next = Transition(f.base, to)
        BY Zenon, <3>3
      <4>2. /\ Transition(f.base, to) \in ConfigVersion
            /\ Transition(f.base, to).revision = f.base.revision + 1
        BY Zenon, <3>3, VersionFields
      <4>3. QED
        BY Zenon, <4>1, <4>2
    <3>5. f.next.revision = versions[f.id][f.num].revision + 1
      BY Zenon, <2>3, <3>4 DEF RevisionMatches
    <3>6. PICK i \in ConfigID, m \in Number, v \in ConfigVersion :
            i = f.id /\ m = f.num /\ v = f.next
      BY Zenon, <3>3, <3>4
    <3>7. /\ versions' = Written(versions, i, m, v) /\ g.id = i /\ g.num = m
          /\ Has(versions, i, m) /\ v.revision = versions[i][m].revision + 1
      BY Zenon, <3>1, <3>2, <3>3, <3>5, <3>6
    <3>8. frame[p].pc \notin {"audit", "emit"}
      BY Zenon, <2>1 DEF f
    <3>9. QED
      BY Zenon, <2>1, <3>1, <3>2, <3>6, <3>7, <3>8, CountWrite
  <2>4. QED
    BY Zenon, <2>2, <2>3
<1>9. CASE Audit(p)
  <2>1. f.pc = "audit" /\ Goto(p, At(f, "emit")) /\ UNCHANGED <<versions, outbox>>
    BY Zenon, <1>9 DEF Audit, At, f
  <2>2. At(f, "emit").pc = "emit" /\ At(f, "emit").id = f.id /\ At(f, "emit").num = f.num
    BY Zenon, <1>1, FrameFields
  <2>3. \A id, n : Announces(At(f, "emit"), id, n) <=> Announces(f, id, n)
    BY Zenon, <2>1, <2>2 DEF Announces
  <2>4. QED
    BY Zenon, <2>1, <2>3, CountQuiet DEF f
<1>10. CASE Emit(p)
  <2>1. f.pc = "emit" /\ Goto(p, Idle) /\ UNCHANGED versions /\ outbox' = EventsAfter(f)
    BY Zenon, <1>10 DEF Emit, f
  <2>2. CASE f.num = 0
    BY Zenon, <1>2, <1>3, <2>1, <2>2 DEF EventsAfter
  <2>3. CASE f.num # 0
    <3>1. PICK i \in ConfigID, m \in Number : i = f.id /\ m = f.num
      BY Zenon, <1>1, <2>1, <2>3 DEF Carried
    <3>2. Announces(frame[p], i, m)
      BY Zenon, <2>1, <3>1 DEF Announces, f
    <3>3. outbox' = [outbox EXCEPT ![i][m] = @ + 1]
      BY Zenon, <2>1, <2>3, <3>1 DEF EventsAfter
    <3>4. QED
      BY Zenon, <2>1, <3>1, <3>2, <3>3, CountEmit
  <2>4. QED
    BY Zenon, <2>2, <2>3
<1>11. QED
  BY Zenon, <1>4, <1>5, <1>6, <1>7, <1>8, <1>9, <1>10 DEF Serve

\* Service.emit after CreateVersion and TransitionVersion: every write of a
\* version is announced by exactly one event, or its writer is on the way.
THEOREM WritesAreAnnounced == Spec => []EventPerWrite
<1>1. Init => EventCount
  <2>1. SUFFICES ASSUME Init PROVE EventCount
    BY Zenon
  <2>2. \A id, n : Announcers(id, n) = {}
    BY Zenon, <2>1 DEF Init, Announcers, Announcing, Idle
  <2>3. QED
    BY Zenon, <2>1, <2>2 DEF Init, EventCount, Stored
<1>2. ASSUME IInv, EventCount, [Next]_vars PROVE EventCount'
  <2>1. CASE UNCHANGED vars
    <3>1. UNCHANGED <<versions, outbox, frame>>
      BY Zenon, <2>1 DEF vars
    <3>2. \A id, n : Announcers(id, n)' = Announcers(id, n)
      BY Zenon, <3>1 DEF Announcers, Announcing
    <3>3. ASSUME NEW id \in ConfigID, NEW n \in Number
          PROVE  /\ Stored(id, n)' => versions'[id][n].revision
                                       = outbox'[id][n] + Cardinality(Announcers(id, n)')
                 /\ ~ Stored(id, n)' => outbox'[id][n] = 0 /\ Announcers(id, n)' = {}
      BY Zenon, <1>2, <3>1, <3>2 DEF EventCount, Stored
    <3>4. QED
      BY Zenon, <3>3 DEF EventCount
  <2>2. QED
    BY Zenon, <1>2, <2>1, CountStep DEF Next
<1>3. EventCount => EventPerWrite
  BY Zenon DEF EventCount, EventPerWrite, Announcers
<1>4. QED
  BY <1>1, <1>2, <1>3, InvHolds, PTL DEF Spec
=============================================================================
