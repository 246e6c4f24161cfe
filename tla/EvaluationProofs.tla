-------------------------- MODULE EvaluationProofs --------------------------
(***************************************************************************)
(* What the read-only algorithms compute for inputs of any length: which   *)
(* rule Evaluate selects, what NextTransition announces, what the expiry   *)
(* scanner reports and what the health figures have in common.             *)
(***************************************************************************)
EXTENDS Evaluation, FiniteSetTheorems, SequenceTheorems, WellFoundedInduction, TLAPS

-----------------------------------------------------------------------------
(***************************************************************************)
(* Loops.  A loop of m turns is a function of the number of turns taken;   *)
(* what holds before the first turn and is kept by each holds after all.   *)
(***************************************************************************)

\* A set of naturals has a least element.
LEMMA LeastNatural ==
  ASSUME NEW T, T \subseteq Nat, T # {}
  PROVE  \E x \in T : \A y \in T : x <= y
  <1> DEFINE Less == OpToRel(<, Nat)
  <1>1. Less = {ss \in Nat \X Nat : ss[1] < ss[2]}
    BY Zenon DEF OpToRel
  <1>2. IsWellFoundedOn(Less, Nat)
    BY Zenon, NatLessThanWellFounded
  <1> HIDE DEF Less
  <1>3. PICK x \in T : \A y \in T : ~ (<<y, x>> \in Less)
    BY ZenonT(30), <1>2, WFMin
  <1>4. \A y \in T : ~ (y < x)
    BY Zenon, <1>1, <1>3
  <1> QED BY <1>4

\* The operator Min finds it.
LEMMA MinIsLeast ==
  ASSUME NEW T, T \subseteq Nat, T # {}
  PROVE  Min(T) \in T /\ \A y \in T : Min(T) <= y
  <1>1. PICK x \in T : \A y \in T : x <= y
    BY Zenon, LeastNatural
  <1> QED BY Zenon, <1>1 DEF Min

\* A set of numbers of turns that contains 0 and with k - 1 also k contains all.
LEMMA EveryTurn ==
  ASSUME NEW m \in Nat, NEW S, 0 \in S, \A k \in 1 .. m : k - 1 \in S => k \in S
  PROVE  \A k \in 0 .. m : k \in S
  <1> DEFINE T == {k \in 0 .. m : k \notin S}
  <1>1. ASSUME T # {}
        PROVE  FALSE
    <2>1. T \subseteq Nat
      OBVIOUS
    <2>2. PICK k \in T : \A j \in T : k <= j
      BY Zenon, <1>1, <2>1, LeastNatural
    <2>3. k \in 1 .. m
      BY <2>2
    <2>4. k - 1 \in 0 .. m /\ ~ (k <= k - 1)
      BY <2>3
    <2>5. k - 1 \in S
      BY Zenon, <2>2, <2>4
    <2> QED BY Zenon, <2>2, <2>3, <2>5
  <1> QED BY Zenon, <1>1

\* f is the run of a loop of m turns from a, whose n-th turn takes x to g[x, n].
Runs(f, a, g, m) == f[0] = a /\ \A n \in 1 .. m : f[n] = g[f[n - 1], n]

\* A loop whose turns are defined can be run.
LEMMA LoopRuns ==
  ASSUME NEW V, NEW a \in V, NEW m \in Nat, NEW g \in [V \X (1 .. m) -> V]
  PROVE  \E f \in [0 .. m -> V] : Runs(f, a, g, m)
  <1> DEFINE S == {k \in 0 .. m : \E f \in [0 .. k -> V] : Runs(f, a, g, k)}
  <1>1. 0 \in S
    <2> DEFINE f == [n \in 0 .. 0 |-> a]
    <2>1. f \in [0 .. 0 -> V] /\ Runs(f, a, g, 0)
      BY DEF Runs
    <2> HIDE DEF f
    <2>2. 0 \in 0 .. m
      OBVIOUS
    <2> QED BY Zenon, <2>1, <2>2
  <1>2. ASSUME NEW k \in 1 .. m, k - 1 \in S
        PROVE  k \in S
    <2>1. PICK f \in [0 .. k - 1 -> V] : Runs(f, a, g, k - 1)
      BY Zenon, <1>2
    <2>2. /\ k - 1 \in 0 .. k - 1 /\ 0 \in 0 .. k - 1 /\ k \in 0 .. m /\ k \in 0 .. k
          /\ k \notin 0 .. k - 1
          /\ \A n \in 0 .. k : n = k \/ n \in 0 .. k - 1
          /\ \A n \in 0 .. k - 1 : n \in 0 .. k
          /\ \A n \in 1 .. k : n - 1 \in 0 .. k - 1 /\ (n # k => n \in 0 .. k - 1 /\ n \in 1 .. k - 1)
      OBVIOUS
    <2>3. PICK last \in V : last = g[f[k - 1], k]
      BY Zenon, <2>2
    <2> DEFINE h == [n \in 0 .. k |-> IF n = k THEN last ELSE f[n]]
    <2>4. h \in [0 .. k -> V]
      BY Zenon, <2>2
    <2>5. h[k] = last /\ \A n \in 0 .. k - 1 : h[n] = f[n]
      BY Zenon, <2>2
    <2> HIDE DEF h
    <2>6. ASSUME NEW n \in 1 .. k
          PROVE  h[n] = g[h[n - 1], n]
      <3>1. h[n - 1] = f[n - 1]
        BY Zenon, <2>2, <2>5
      <3>2. CASE n = k
        BY Zenon, <2>3, <2>5, <3>1, <3>2
      <3>3. CASE n # k
        BY Zenon, <2>1, <2>2, <2>5, <3>1, <3>3 DEF Runs
      <3> QED BY Zenon, <3>2, <3>3
    <2>7. h[0] = a
      BY Zenon, <2>1, <2>2, <2>5 DEF Runs
    <2> QED BY Zenon, <2>2, <2>4, <2>6, <2>7 DEF Runs
  <1>3. \A k \in 0 .. m : k \in S
    <2> HIDE DEF S
    <2> QED BY Zenon, <1>1, <1>2, EveryTurn
  <1>4. m \in 0 .. m
    OBVIOUS
  <1> QED BY Zenon, <1>3, <1>4

\* f is what the loop of Picked computes, turn by turn.
Picks(f, s, I) ==
  /\ Picked(s, I) = f[Len(s)]
  /\ f[0] = <<>>
  /\ \A n \in 1 .. Len(s) : f[n] = IF n \in I THEN Append(f[n - 1], s[n]) ELSE f[n - 1]

\* There is one.
LEMMA PickedRuns ==
  ASSUME NEW S, NEW s \in Seq(S), NEW I
  PROVE  \E f \in [0 .. Len(s) -> Seq(S)] : Picks(f, s, I)
  <1> DEFINE Body(h) == [n \in 0 .. Len(s) |->
                IF n = 0 THEN <<>> ELSE IF n \in I THEN Append(h[n - 1], s[n]) ELSE h[n - 1]]
             g == [p \in Seq(S) \X (1 .. Len(s)) |->
                     IF p[2] \in I THEN Append(p[1], s[p[2]]) ELSE p[1]]
  <1>1. /\ Len(s) \in Nat /\ <<>> \in Seq(S)
        /\ \A n \in 1 .. Len(s) : s[n] \in S
        /\ \A n \in 1 .. Len(s) : n \in 0 .. Len(s) /\ n - 1 \in 0 .. Len(s) /\ n # 0
        /\ \A n \in 0 .. Len(s) : n = 0 \/ n \in 1 .. Len(s)
        /\ 0 \in 0 .. Len(s) /\ Len(s) \in 0 .. Len(s)
    BY LenProperties, ElementOfSeq, EmptySeq
  <1>2. \A x \in Seq(S), n \in 1 .. Len(s) : Append(x, s[n]) \in Seq(S)
    BY Zenon, <1>1, AppendProperties
  <1>3. g \in [Seq(S) \X (1 .. Len(s)) -> Seq(S)]
    BY <1>2
  <1>4. \A x \in Seq(S), n \in 1 .. Len(s) : g[x, n] = IF n \in I THEN Append(x, s[n]) ELSE x
    OBVIOUS
  <1> HIDE DEF g
  <1>5. PICK f \in [0 .. Len(s) -> Seq(S)] : Runs(f, <<>>, g, Len(s))
    BY Zenon, <1>1, <1>3, LoopRuns
  <1>6. \A n \in 0 .. Len(s) : f[n] = Body(f)[n]
    BY Zenon, <1>1, <1>4, <1>5 DEF Runs
  <1>7. f = Body(f)
    BY Zenon, <1>5, <1>6
  <1>8. PICK h : h = CHOOSE x : x = Body(x)
    BY Zenon
  <1>9. Picked(s, I) = h[Len(s)]
    BY Zenon, <1>8 DEF Picked
  <1> HIDE DEF Body
  <1>10. h = Body(h)
    BY Zenon, <1>7, <1>8
  <1>11. /\ h = [n \in 0 .. Len(s) |-> h[n]]
         /\ h[0] = <<>>
         /\ \A n \in 1 .. Len(s) : h[n] = IF n \in I THEN Append(h[n - 1], s[n]) ELSE h[n - 1]
    BY Zenon, <1>1, <1>10 DEF Body
  <1>12. \A n \in 0 .. Len(s) : n \in {k \in 0 .. Len(s) : h[k] \in Seq(S)}
    <2> DEFINE T == {k \in 0 .. Len(s) : h[k] \in Seq(S)}
    <2>1. 0 \in T
      BY Zenon, <1>1, <1>11
    <2>2. \A n \in 1 .. Len(s) : n - 1 \in T => n \in T
      BY Zenon, <1>1, <1>2, <1>11
    <2> HIDE DEF T
    <2>3. \A n \in 0 .. Len(s) : n \in T
      BY Zenon, <1>1, <2>1, <2>2, EveryTurn
    <2> QED BY Zenon, <2>3 DEF T
  <1>13. h \in [0 .. Len(s) -> Seq(S)]
    BY Zenon, <1>11, <1>12
  <1> QED BY Zenon, <1>9, <1>11, <1>13 DEF Picks

\* Append, element by element.
LEMMA AppendFacts ==
  ASSUME NEW S
  PROVE  \A s \in Seq(S), x \in S :
         /\ Append(s, x) \in Seq(S) /\ Append(s, x) # <<>>
         /\ Len(Append(s, x)) = Len(s) + 1 /\ Len(s) \in Nat
         /\ \A i \in 1 .. Len(s) : Append(s, x)[i] = s[i]
         /\ Append(s, x)[Len(s) + 1] = x
  BY AppendProperties, LenProperties

\* A function on 1 .. m is a sequence.
LEMMA FunctionIsSeq ==
  ASSUME NEW S, NEW m \in Nat, NEW z \in [1 .. m -> S]
  PROVE  z \in Seq(S) /\ Len(z) = m
  OBVIOUS

\* The indices up to n.
Upto(I, n) == {i \in I : i <= n}

\* How they grow.
LEMMA UptoGrows ==
  ASSUME NEW m \in Nat, NEW I \in SUBSET (1 .. m)
  PROVE  /\ Upto(I, 0) = {} /\ Upto(I, m) = I
         /\ \A n \in 1 .. m :
              /\ n \notin I => Upto(I, n) = Upto(I, n - 1)
              /\ n \in I => Upto(I, n) = Upto(I, n - 1) \cup {n} /\ n \notin Upto(I, n - 1)
              /\ (\A j \in I : n <= j) => Upto(I, n - 1) = {}
  <1>1. \A i \in I : i \in Int /\ 1 <= i /\ i <= m
    OBVIOUS
  <1>2. Upto(I, 0) = {} /\ Upto(I, m) = I
    <2>1. \A i \in I : ~ (i <= 0) /\ i <= m
      BY <1>1
    <2> QED BY Zenon, <2>1 DEF Upto
  <1>3. ASSUME NEW n \in 1 .. m
        PROVE  /\ n \notin I => Upto(I, n) = Upto(I, n - 1)
               /\ n \in I => Upto(I, n) = Upto(I, n - 1) \cup {n} /\ n \notin Upto(I, n - 1)
               /\ (\A j \in I : n <= j) => Upto(I, n - 1) = {}
    <2>1. \A i \in I : (i <= n <=> i <= n - 1 \/ i = n) /\ (n <= i => ~ (i <= n - 1))
      BY <1>1
    <2>2. ~ (n <= n - 1)
      OBVIOUS
    <2> QED BY Zenon, <2>1, <2>2 DEF Upto
  <1> QED BY Zenon, <1>2, <1>3

\* What is picked: the elements at the indices in I, as many as there are, in
\* their order.
LEMMA PickedFacts ==
  ASSUME NEW S, NEW s \in Seq(S), NEW I \in SUBSET (1 .. Len(s))
  PROVE  /\ Picked(s, I) \in Seq(S)
         /\ Len(Picked(s, I)) = Cardinality(I)
         /\ Range(Picked(s, I)) = {s[i] : i \in I}
         /\ \A i \in I : (\A j \in I : i <= j) => Picked(s, I) # <<>> /\ Head(Picked(s, I)) = s[i]
  <1>1. PICK f \in [0 .. Len(s) -> Seq(S)] :
          /\ Picked(s, I) = f[Len(s)]
          /\ f[0] = <<>>
          /\ \A n \in 1 .. Len(s) : f[n] = IF n \in I THEN Append(f[n - 1], s[n]) ELSE f[n - 1]
    BY Zenon, PickedRuns DEF Picks
  <1>2. /\ Len(s) \in Nat /\ 0 \in 0 .. Len(s) /\ Len(s) \in 0 .. Len(s)
        /\ \A n \in 1 .. Len(s) : s[n] \in S /\ n \in 0 .. Len(s) /\ n - 1 \in 0 .. Len(s)
    BY LenProperties, ElementOfSeq
  <1>3. /\ Upto(I, 0) = {} /\ Upto(I, Len(s)) = I
        /\ \A n \in 1 .. Len(s) :
             /\ n \notin I => Upto(I, n) = Upto(I, n - 1)
             /\ n \in I => Upto(I, n) = Upto(I, n - 1) \cup {n} /\ n \notin Upto(I, n - 1)
             /\ (\A j \in I : n <= j) => Upto(I, n - 1) = {}
    BY Zenon, <1>2, UptoGrows
  <1> DEFINE Right(n) == /\ IsFiniteSet(Upto(I, n)) /\ Len(f[n]) = Cardinality(Upto(I, n))
                         /\ {f[n][i] : i \in 1 .. Len(f[n])} = {s[i] : i \in Upto(I, n)}
                         /\ \A i \in Upto(I, n) : (\A j \in I : i <= j) =>
                              f[n] # <<>> /\ f[n][1] = s[i]
             T == {n \in 0 .. Len(s) : Right(n)}
  <1>4. 0 \in T
    <2>1. Upto(I, 0) = {}
      BY Zenon, <1>3
    <2>2. Len(<<>>) = 0 /\ 1 .. 0 = {}
      OBVIOUS
    <2> QED BY Zenon, <1>1, <1>2, <2>1, <2>2, FS_EmptySet
  <1>5. ASSUME NEW n \in 1 .. Len(s), n - 1 \in T
        PROVE  n \in T
    <2>1. f[n - 1] \in Seq(S) /\ f[n] \in Seq(S) /\ s[n] \in S /\ n \in 0 .. Len(s) /\ Right(n - 1)
      BY Zenon, <1>2, <1>5
    <2>2. CASE n \notin I
      <3>1. Upto(I, n) = Upto(I, n - 1)
        BY Zenon, <1>3, <2>2
      <3>2. f[n] = f[n - 1]
        BY Zenon, <1>1, <2>2
      <3> QED BY ZenonT(40), <2>1, <3>1, <3>2
    <2>3. CASE n \in I
      <3>1. Upto(I, n) = Upto(I, n - 1) \cup {n} /\ n \notin Upto(I, n - 1)
        BY Zenon, <1>3, <2>3
      <3>2. f[n] = Append(f[n - 1], s[n])
        BY Zenon, <1>1, <2>3
      <3>3. /\ Len(f[n]) = Len(f[n - 1]) + 1 /\ Len(f[n - 1]) \in Nat
            /\ \A i \in 1 .. Len(f[n - 1]) : f[n][i] = f[n - 1][i]
            /\ f[n][Len(f[n - 1]) + 1] = s[n]
        <4>1. PICK x \in Seq(S), y \in S : x = f[n - 1] /\ y = s[n]
          BY Zenon, <2>1
        <4>2. /\ Len(Append(x, y)) = Len(x) + 1 /\ Len(x) \in Nat
              /\ \A i \in 1 .. Len(x) : Append(x, y)[i] = x[i]
              /\ Append(x, y)[Len(x) + 1] = y
          BY <4>1, AppendFacts
        <4> QED BY Zenon, <3>2, <4>1, <4>2
      <3>4. IsFiniteSet(Upto(I, n)) /\ Cardinality(Upto(I, n)) = Cardinality(Upto(I, n - 1)) + 1
        <4>1. PICK U : U = Upto(I, n - 1)
          BY Zenon
        <4>2. IsFiniteSet(U) /\ n \notin U /\ Upto(I, n) = U \cup {n}
          BY Zenon, <2>1, <3>1, <4>1
        <4>3. IsFiniteSet(U \cup {n}) /\ Cardinality(U \cup {n}) = Cardinality(U) + 1
          BY Zenon, <4>2, FS_AddElement
        <4> QED BY Zenon, <4>1, <4>2, <4>3
      <3>5. Len(f[n]) = Cardinality(Upto(I, n))
        BY Zenon, <2>1, <3>3, <3>4
      <3>6. 1 .. Len(f[n]) = (1 .. Len(f[n - 1])) \cup {Len(f[n - 1]) + 1}
        BY <3>3
      <3>7. {f[n][i] : i \in 1 .. Len(f[n])} = {f[n - 1][i] : i \in 1 .. Len(f[n - 1])} \cup {s[n]}
        <4>1. {f[n][i] : i \in 1 .. Len(f[n])}
                = {f[n][i] : i \in 1 .. Len(f[n - 1])} \cup {f[n][Len(f[n - 1]) + 1]}
          BY Zenon, <3>6
        <4>2. {f[n][i] : i \in 1 .. Len(f[n - 1])} = {f[n - 1][i] : i \in 1 .. Len(f[n - 1])}
          BY Zenon, <3>3
        <4> QED BY Zenon, <3>3, <4>1, <4>2
      <3>8. {s[i] : i \in Upto(I, n)} = {s[i] : i \in Upto(I, n - 1)} \cup {s[n]}
        BY Zenon, <3>1
      <3>9. {f[n][i] : i \in 1 .. Len(f[n])} = {s[i] : i \in Upto(I, n)}
        BY Zenon, <2>1, <3>7, <3>8
      <3>10. ASSUME NEW i \in Upto(I, n), \A j \in I : i <= j
             PROVE  f[n] # <<>> /\ f[n][1] = s[i]
        <4>1. f[n] # <<>>
          BY <2>1, <3>3, EmptySeq
        <4>2. CASE i \in Upto(I, n - 1)
          <5>1. f[n - 1] # <<>> /\ f[n - 1][1] = s[i]
            BY Zenon, <2>1, <3>10, <4>2
          <5>2. 1 \in 1 .. Len(f[n - 1])
            BY <2>1, <5>1, EmptySeq
          <5> QED BY Zenon, <3>3, <4>1, <5>1, <5>2
        <4>3. CASE i = n /\ i \notin Upto(I, n - 1)
          <5>1. Upto(I, n - 1) = {}
            BY Zenon, <1>3, <3>10, <4>3
          <5>2. Len(f[n - 1]) = 0
            BY Zenon, <2>1, <5>1, FS_EmptySet
          <5> QED BY <3>3, <4>1, <4>3, <5>2
        <4> QED BY Zenon, <3>1, <4>2, <4>3
      <3> QED BY Zenon, <2>1, <3>4, <3>5, <3>9, <3>10
    <2> QED BY Zenon, <2>2, <2>3
  <1>6. Right(Len(s))
    <2> HIDE DEF Right
    <2>1. 0 \in T /\ \A n \in 1 .. Len(s) : n - 1 \in T => n \in T
      BY Zenon, <1>4, <1>5
    <2> HIDE DEF T
    <2>2. Len(s) \in T
      BY Zenon, <1>2, <2>1, EveryTurn
    <2> QED BY Zenon, <2>2 DEF T
  <1>7. Upto(I, Len(s)) = I
    BY Zenon, <1>3
  <1>8. PICK p \in Seq(S) : p = Picked(s, I) /\ p = f[Len(s)]
    BY Zenon, <1>1, <1>2
  <1>9. Range(p) = {p[i] : i \in 1 .. Len(p)} /\ (p # <<>> => Head(p) = p[1])
    BY EmptySeq DEF Range
  <1>10. Len(p) = Cardinality(I) /\ {p[i] : i \in 1 .. Len(p)} = {s[i] : i \in I}
    BY Zenon, <1>6, <1>7, <1>8
  <1>11. ASSUME NEW i \in I, \A j \in I : i <= j
         PROVE  p # <<>> /\ p[1] = s[i]
    BY Zenon, <1>6, <1>7, <1>8, <1>11
  <1> HIDE DEF Right
  <1> QED BY Zenon, <1>8, <1>9, <1>10, <1>11

-----------------------------------------------------------------------------
(***************************************************************************)
(* The inputs.                                                             *)
(***************************************************************************)

\* The input has the type of its kind, and the clock stays within its bound.
InputOK ==
  /\ at \in 0 .. MaxAt
  /\ input.kind = "rules" => input.rules \in Seq(Rule) /\ input.subject \in Subject
  /\ input.kind = "windows" => input.windows \in Seq(Window)
  /\ input.kind = "expiry" => input.groups \in Seq(Seq(Version))
  /\ input.kind = "health" => input.observations \in Seq(Observation)

\* A list of bounded length is a sequence.
LEMMA ListsAreSequences ==
  ASSUME NEW S, NEW m, NEW s \in Lists(S, m)
  PROVE  s \in Seq(S)
  BY DEF Lists

\* InputOK is an invariant: the input never changes, the clock ticks up to MaxAt.
LEMMA InputOKInvariant == Spec => []InputOK
  <1>1. Init => InputOK
    <2> SUFFICES ASSUME Init
                 PROVE  InputOK
      OBVIOUS
    <2>1. at \in 0 .. MaxAt
      BY TimeAssumption DEF Init
    <2>2. input \in ReadInput \/ input = [kind |-> "graph"]
      BY Zenon DEF Init
    <2>3. CASE input = [kind |-> "graph"]
      BY <2>1, <2>3 DEF InputOK
    <2>4. CASE input \in [kind: {"rules"}, rules: Lists(Rule, MaxRules), subject: Subject]
      <3>1. input.kind = "rules" /\ input.rules \in Lists(Rule, MaxRules) /\ input.subject \in Subject
        BY <2>4
      <3>2. input.rules \in Seq(Rule)
        BY Zenon, <3>1, ListsAreSequences
      <3> QED BY <2>1, <3>1, <3>2 DEF InputOK
    <2>5. CASE input \in [kind: {"windows"}, windows: Lists(Window, MaxWindows)]
      <3>1. input.kind = "windows" /\ input.windows \in Lists(Window, MaxWindows)
        BY <2>5
      <3>2. input.windows \in Seq(Window)
        BY Zenon, <3>1, ListsAreSequences
      <3> QED BY <2>1, <3>1, <3>2 DEF InputOK
    <2>6. CASE input \in [kind: {"expiry"}, groups: Lists(Lists(Version, MaxVersions), MaxGroups)]
      <3>1. input.kind = "expiry" /\ input.groups \in Lists(Lists(Version, MaxVersions), MaxGroups)
        BY <2>6
      <3>2. input.groups \in Seq(Lists(Version, MaxVersions))
        BY Zenon, <3>1, ListsAreSequences
      <3>3. Lists(Version, MaxVersions) \subseteq Seq(Version)
        BY Zenon, ListsAreSequences
      <3>4. input.groups \in Seq(Seq(Version))
        BY <3>2, <3>3
      <3> QED BY <2>1, <3>1, <3>4 DEF InputOK
    <2>7. CASE input \in [kind: {"health"}, observations: Lists(Observation, MaxObservations)]
      <3>1. input.kind = "health" /\ input.observations \in Lists(Observation, MaxObservations)
        BY <2>7
      <3>2. input.observations \in Seq(Observation)
        BY Zenon, <3>1, ListsAreSequences
      <3> QED BY <2>1, <3>1, <3>2 DEF InputOK
    <2> QED BY Zenon, <2>2, <2>3, <2>4, <2>5, <2>6, <2>7 DEF ReadInput
  <1>2. InputOK /\ [Next]_vars => InputOK'
    <2> SUFFICES ASSUME InputOK, [Next]_vars
                 PROVE  InputOK'
      OBVIOUS
    <2>1. input' = input /\ (at' = at \/ (at < MaxAt /\ at' = at + 1))
      BY DEF Next, Tick, vars
    <2>2. at' \in 0 .. MaxAt
      BY <2>1, TimeAssumption DEF InputOK
    <2> QED BY Zenon, <2>1, <2>2 DEF InputOK
  <1> QED BY <1>1, <1>2, PTL DEF Spec

-----------------------------------------------------------------------------
(***************************************************************************)
(* Windows.                                                                *)
(***************************************************************************)

\* NextTransition compares instants only.
LEMMA CandidatesAreInstants ==
  ASSUME NEW ws \in Seq(Window), NEW now
  PROVE  Candidates(ws, now) \subseteq Nat \ {NoTime}
  <1> SUFFICES ASSUME NEW t \in Candidates(ws, now)
               PROVE  t \in Nat \ {NoTime}
    OBVIOUS
  <1>1. t # NoTime /\ \E i \in DOMAIN ws : t \in {ws[i].starts, ws[i].ends}
    BY Zenon, TimeAssumption DEF Candidates
  <1>2. PICK i \in DOMAIN ws : t \in {ws[i].starts, ws[i].ends}
    BY Zenon, <1>1
  <1>3. ws[i] \in Window
    BY ElementOfSeq, LenProperties
  <1>4. ws[i].starts \in Bound /\ ws[i].ends \in Bound
    BY <1>3 DEF Window
  <1>5. t \in Bound
    BY Zenon, <1>2, <1>4
  <1> QED BY <1>1, <1>5, TimeAssumption DEF Bound

\* The bounds of a window that has not started are announced: what is before the
\* announced instant is before them.
LEMMA BoundsAnnounced ==
  ASSUME NEW ws \in Seq(Window), NEW now \in Nat, NEW t \in Nat,
         NextTransition(ws, now) = NoTime \/ t < NextTransition(ws, now),
         NEW i \in DOMAIN ws, ~ Started(ws[i], now),
         NEW c \in Nat, c \in {ws[i].starts, ws[i].ends}, c # NoTime, now < c
  PROVE  t < c
  <1> DEFINE J == {j \in DOMAIN ws : ~ Started(ws[j], now)}
             next == Min(Candidates(ws, now))
  <1>1. c > now
    OBVIOUS
  <1>2. c \in UNION {{ws[j].starts, ws[j].ends} : j \in J}
    BY Zenon
  <1>3. c \in Candidates(ws, now)
    BY Zenon, <1>1, <1>2, TimeAssumption DEF Candidates
  <1>4. Candidates(ws, now) \subseteq Nat \ {NoTime}
    BY Zenon, CandidatesAreInstants
  <1>5. next \in Candidates(ws, now) /\ next <= c
    BY Zenon, <1>3, <1>4, MinIsLeast
  <1>6. NextTransition(ws, now) = next
    BY Zenon, <1>3 DEF NextTransition
  <1> HIDE DEF next
  <1>7. next \in Nat /\ next # NoTime
    BY Zenon, <1>4, <1>5
  <1> QED BY <1>5, <1>6, <1>7

\* A window that is active at t, before which NextTransition announces nothing,
\* was active when it was asked.
LEMMA NoOpening ==
  ASSUME NEW ws \in Seq(Window), NEW now \in Nat, NEW t \in Nat, now <= t,
         NEW i \in DOMAIN ws, Active(ws[i], t),
         NextTransition(ws, now) = NoTime \/ t < NextTransition(ws, now)
  PROVE  Active(ws[i], now)
  <1>1. PICK w \in Window : w = ws[i]
    BY ElementOfSeq, LenProperties
  <1>2. w.starts \in Nat \cup {NoTime} /\ w.ends \in Nat \cup {NoTime}
    BY <1>1, TimeAssumption DEF Window, Bound
  <1>3. NoBound = NoTime
    BY Zenon, TimeAssumption
  <1>4. ASSUME w.starts # NoTime, now < w.starts
        PROVE  FALSE
    <2>1. w.starts \in Nat /\ w.starts <= t
      BY Zenon, <1>1, <1>2, <1>3, <1>4 DEF Active
    <2>2. ~ (w.starts <= now) /\ ~ (t < w.starts)
      BY <1>4, <2>1
    <2>3. ~ Started(ws[i], now)
      BY Zenon, <1>1, <2>2 DEF Started
    <2>4. PICK c \in Nat : c = w.starts
      BY Zenon, <2>1
    <2>5. c \in {ws[i].starts, ws[i].ends} /\ c # NoTime /\ now < c
      BY Zenon, <1>1, <1>4, <2>4
    <2>6. t < c
      BY Zenon, <2>3, <2>5, BoundsAnnounced
    <2> QED BY Zenon, <2>2, <2>4, <2>6
  <1>5. w.starts # NoBound => w.starts <= now
    BY <1>2, <1>3, <1>4
  <1>6. w.ends # NoBound => now < w.ends
    <2>1. Active(w, t)
      BY Zenon, <1>1
    <2> QED BY <1>2, <1>3, <2>1 DEF Active
  <1> QED BY Zenon, <1>1, <1>5, <1>6 DEF Active

\* A window that is active and does not have both started and an end to come is
\* active until the announced instant.
LEMMA NoClosing ==
  ASSUME NEW ws \in Seq(Window), NEW now \in Nat, NEW t \in Nat, now <= t,
         NEW i \in DOMAIN ws, Active(ws[i], now),
         ~ (Started(ws[i], now) /\ ws[i].ends # NoTime /\ now < ws[i].ends),
         NextTransition(ws, now) = NoTime \/ t < NextTransition(ws, now)
  PROVE  Active(ws[i], t)
  <1>1. PICK w \in Window : w = ws[i]
    BY ElementOfSeq, LenProperties
  <1>2. w.starts \in Nat \cup {NoTime} /\ w.ends \in Nat \cup {NoTime}
    BY <1>1, TimeAssumption DEF Window, Bound
  <1>3. NoBound = NoTime
    BY Zenon, TimeAssumption
  <1>4. w.starts # NoBound => w.starts <= t
    <2>1. w.starts # NoBound => w.starts <= now
      BY Zenon, <1>1 DEF Active
    <2> QED BY <1>2, <1>3, <2>1
  <1>5. ASSUME w.ends # NoBound
        PROVE  t < w.ends
    <2>1. w.ends \in Nat /\ w.ends # NoTime /\ now < w.ends
      BY Zenon, <1>1, <1>2, <1>3, <1>5 DEF Active
    <2>2. ~ Started(ws[i], now)
      BY Zenon, <1>1, <2>1
    <2>3. PICK c \in Nat : c = w.ends
      BY Zenon, <2>1
    <2>4. c \in {ws[i].starts, ws[i].ends} /\ c # NoTime /\ now < c
      BY Zenon, <1>1, <2>1, <2>3
    <2>5. t < c
      BY Zenon, <2>2, <2>4, BoundsAnnounced
    <2> QED BY Zenon, <2>3, <2>5
  <1> QED BY Zenon, <1>1, <1>4, <1>5 DEF Active

\* What NextTransition announces is later; until then no window opens, and none
\* closes that has not started: the windows of NoOpening and NoClosing as
\* ScanActive and ActiveWindow find them.
THEOREM OpeningsAreAnnounced == Spec => []OpeningsAnnounced
  <1>1. ASSUME InputOK
        PROVE  OpeningsAnnounced
    <2> SUFFICES ASSUME input.kind = "windows"
                 PROVE  LET windows == input.windows
                            next == NextTransition(windows, at)
                        IN  /\ next # NoTime => next > at
                            /\ Closing(windows) = {} => StableUntilNext(windows)
                            /\ \A t \in at .. MaxAt : next = NoTime \/ t < next =>
                                 Range(ScanActive(windows, t)) \subseteq Range(ScanActive(windows, at))
      BY Zenon DEF OpeningsAnnounced
    <2>1. PICK ws \in Seq(Window) : ws = input.windows
      BY Zenon, <1>1 DEF InputOK
    <2>2. at \in Nat /\ MaxAt \in Nat /\ NoBound = NoTime
      BY <1>1, TimeAssumption DEF InputOK
    <2>3. ASSUME NextTransition(ws, at) # NoTime
          PROVE  NextTransition(ws, at) > at
      <3>1. Candidates(ws, at) # {} /\ NextTransition(ws, at) = Min(Candidates(ws, at))
        BY Zenon, <2>2, <2>3 DEF NextTransition
      <3>2. NextTransition(ws, at) \in Candidates(ws, at)
        BY Zenon, <3>1, <2>2, CandidatesAreInstants, MinIsLeast
      <3> QED BY Zenon, <3>2 DEF Candidates
    <2>4. ASSUME NEW t \in at .. MaxAt, NextTransition(ws, at) = NoTime \/ t < NextTransition(ws, at)
          PROVE  /\ Range(ScanActive(ws, t)) \subseteq Range(ScanActive(ws, at))
                 /\ Closing(ws) = {} => ActiveWindow(ws, t) = ActiveWindow(ws, at)
      <3>1. t \in Nat /\ at <= t
        BY <2>2
      <3>2. \A i \in DOMAIN ws : Active(ws[i], t) => Active(ws[i], at)
        BY Zenon, <2>2, <2>4, <3>1, NoOpening
      <3>3. ASSUME NEW u
            PROVE  Range(ScanActive(ws, u)) = {ws[i] : i \in {j \in DOMAIN ws : Active(ws[j], u)}}
        <4> DEFINE I == {j \in DOMAIN ws : Active(ws[j], u)}
        <4>1. I \in SUBSET (1 .. Len(ws))
          BY LenProperties
        <4>2. ScanActive(ws, u) = Picked(ws, I)
          BY Zenon DEF ScanActive
        <4> HIDE DEF I
        <4>3. Range(Picked(ws, I)) = {ws[i] : i \in I}
          BY Zenon, <4>1, PickedFacts
        <4> QED BY Zenon, <4>2, <4>3 DEF I
      <3>4. Range(ScanActive(ws, t)) \subseteq Range(ScanActive(ws, at))
        <4>1. Range(ScanActive(ws, t)) = {ws[i] : i \in {j \in DOMAIN ws : Active(ws[j], t)}}
          BY Zenon, <3>3
        <4>2. Range(ScanActive(ws, at)) = {ws[i] : i \in {j \in DOMAIN ws : Active(ws[j], at)}}
          BY Zenon, <3>3
        <4> QED BY Zenon, <3>2, <4>1, <4>2
      <3>5. ASSUME Closing(ws) = {}
            PROVE  ActiveWindow(ws, t) = ActiveWindow(ws, at)
        <4>1. ASSUME NEW i \in DOMAIN ws, Active(ws[i], at)
              PROVE  Active(ws[i], t)
          <5>1. ~ (Started(ws[i], at) /\ ws[i].ends # NoTime /\ at < ws[i].ends)
            BY Zenon, <3>5 DEF Closing
          <5> QED BY Zenon, <2>2, <2>4, <3>1, <4>1, <5>1, NoClosing
        <4>2. {j \in DOMAIN ws : Active(ws[j], t)} = {j \in DOMAIN ws : Active(ws[j], at)}
          BY Zenon, <3>2, <4>1
        <4> QED BY Zenon, <4>2 DEF ActiveWindow
      <3> QED BY Zenon, <3>4, <3>5
    <2>5. Closing(ws) = {} => StableUntilNext(ws)
      BY Zenon, <2>4 DEF StableUntilNext
    <2> QED BY Zenon, <2>1, <2>3, <2>4, <2>5
  <1> QED BY <1>1, InputOKInvariant, PTL

-----------------------------------------------------------------------------
(***************************************************************************)
(* The expiry scanner.                                                     *)
(***************************************************************************)

\* What the loop of Total computes, turn by turn.
LEMMA TotalRuns ==
  ASSUME NEW s \in Seq(Nat)
  PROVE  \E f \in [0 .. Len(s) -> Nat] :
           /\ Total(s) = f[Len(s)] /\ f[0] = 0
           /\ \A n \in 1 .. Len(s) : f[n] = f[n - 1] + s[n]
  <1> DEFINE Body(h) == [n \in 0 .. Len(s) |-> IF n = 0 THEN 0 ELSE h[n - 1] + s[n]]
             g == [p \in Nat \X (1 .. Len(s)) |-> p[1] + s[p[2]]]
  <1>1. /\ Len(s) \in Nat /\ 0 \in Nat
        /\ \A n \in 1 .. Len(s) : s[n] \in Nat
        /\ \A n \in 1 .. Len(s) : n \in 0 .. Len(s) /\ n - 1 \in 0 .. Len(s) /\ n # 0
        /\ \A n \in 0 .. Len(s) : n = 0 \/ n \in 1 .. Len(s)
        /\ 0 \in 0 .. Len(s) /\ Len(s) \in 0 .. Len(s)
    BY LenProperties, ElementOfSeq
  <1>2. \A x \in Nat, n \in 1 .. Len(s) : x + s[n] \in Nat
    BY <1>1
  <1>3. g \in [Nat \X (1 .. Len(s)) -> Nat]
    BY <1>2
  <1>4. \A x \in Nat, n \in 1 .. Len(s) : g[x, n] = x + s[n]
    OBVIOUS
  <1> HIDE DEF g
  <1>5. PICK f \in [0 .. Len(s) -> Nat] : Runs(f, 0, g, Len(s))
    BY Zenon, <1>1, <1>3, LoopRuns
  <1>6. \A n \in 0 .. Len(s) : f[n] = Body(f)[n]
    BY Zenon, <1>1, <1>4, <1>5 DEF Runs
  <1>7. f = Body(f)
    BY Zenon, <1>5, <1>6
  <1>8. PICK h : h = CHOOSE x : x = Body(x)
    BY Zenon
  <1>9. Total(s) = h[Len(s)]
    BY Zenon, <1>8 DEF Total
  <1> HIDE DEF Body
  <1>10. h = Body(h)
    BY Zenon, <1>7, <1>8
  <1>11. /\ h = [n \in 0 .. Len(s) |-> h[n]]
         /\ h[0] = 0
         /\ \A n \in 1 .. Len(s) : h[n] = h[n - 1] + s[n]
    BY Zenon, <1>1, <1>10 DEF Body
  <1>12. \A n \in 0 .. Len(s) : h[n] \in Nat
    <2> DEFINE T == {k \in 0 .. Len(s) : h[k] \in Nat}
    <2>1. 0 \in T
      BY Zenon, <1>1, <1>11
    <2>2. \A n \in 1 .. Len(s) : n - 1 \in T => n \in T
      BY Zenon, <1>1, <1>2, <1>11
    <2> HIDE DEF T
    <2>3. \A n \in 0 .. Len(s) : n \in T
      BY Zenon, <1>1, <2>1, <2>2, EveryTurn
    <2> QED BY Zenon, <2>3 DEF T
  <1>13. h \in [0 .. Len(s) -> Nat]
    BY Zenon, <1>11, <1>12
  <1> QED BY Zenon, <1>9, <1>11, <1>13

\* clock reads from early to late.
Timed(clock, early, late) ==
  early \in Nat /\ late \in Nat /\ \A n \in Nat : clock[n] \in early .. late

\* x is a right entry for a group: candidates at the end of the scan, and not
\* none if there was one at its start.
Reported(x, vs, early, late) ==
  /\ x \in Seq(Version)
  /\ Range(x) \subseteq Range(Scan(vs, late))
  /\ Scan(vs, early) # <<>> => x # <<>>

\* A version that is a candidate stays one.
LEMMA CandidateStays ==
  ASSUME NEW v \in Version, NEW now \in Nat, NEW t \in Nat, now <= t, Candidate(v, now)
  PROVE  Candidate(v, t)
  <1>1. v.expires \in Nat \cup {NoTime}
    BY Zenon, VersionAssumption DEF Instant
  <1>2. v.expires # NoTime /\ v.expires < now
    BY Zenon, TimeAssumption DEF Candidate, Past
  <1>3. v.expires < t
    BY <1>1, <1>2
  <1> QED BY Zenon, <1>2, <1>3, TimeAssumption DEF Candidate, Past

\* Scan returns the candidates.
LEMMA ScanFacts ==
  ASSUME NEW vs \in Seq(Version), NEW now
  PROVE  /\ Range(Scan(vs, now)) = {vs[i] : i \in {j \in DOMAIN vs : Candidate(vs[j], now)}}
         /\ (\A i \in DOMAIN vs : ~ Candidate(vs[i], now)) => Scan(vs, now) = <<>>
  <1> DEFINE found == {j \in DOMAIN vs : Candidate(vs[j], now)}
  <1>1. found \in SUBSET (1 .. Len(vs))
    BY LenProperties
  <1>2. Scan(vs, now) = Picked(vs, found)
    BY Zenon DEF Scan
  <1>3. (\A i \in DOMAIN vs : ~ Candidate(vs[i], now)) => found = {}
    BY Zenon
  <1> HIDE DEF found
  <1>4. PICK p \in Seq(Version) : /\ p = Picked(vs, found) /\ Len(p) = Cardinality(found)
                                  /\ Range(p) = {vs[i] : i \in found}
    BY Zenon, <1>1, PickedFacts
  <1>5. ASSUME found = {}
        PROVE  p = <<>>
    <2>1. Len(p) = 0
      BY Zenon, <1>4, <1>5, FS_EmptySet
    <2> QED BY <2>1, EmptySeq
  <1>6. Range(Scan(vs, now)) = {vs[i] : i \in found}
    BY Zenon, <1>2, <1>4
  <1> QED BY Zenon, <1>2, <1>3, <1>4, <1>5, <1>6 DEF found

\* ScanGroup reads no more versions than there are, and its entry is right unless
\* it is cancelled.
LEMMA ScanGroupFacts ==
  ASSUME NEW vs \in Seq(Version), NEW clock, NEW early, NEW late, Timed(clock, early, late),
         NEW made \in Nat, NEW checks \in Nat
  PROVE  LET g == ScanGroup(vs, clock, made, checks)
         IN  /\ g.reads \in 0 .. Len(vs)
             /\ g.cancelled \in BOOLEAN /\ (g.cancelled <=> made + g.reads > checks)
             /\ ~ g.cancelled => Reported(g.candidates, vs, early, late)
  <1> DEFINE found == {i \in DOMAIN vs : Candidate(vs[i], clock[made + i])}
             reads == IF found = {} THEN Len(vs) ELSE Min(found)
             g == ScanGroup(vs, clock, made, checks)
  <1>1. /\ Len(vs) \in Nat /\ DOMAIN vs = 1 .. Len(vs)
        /\ \A i \in DOMAIN vs : vs[i] \in Version
    BY LenProperties, ElementOfSeq
  <1>2. found \in SUBSET (1 .. Len(vs)) /\ found \subseteq Nat
    BY <1>1
  <1>3. /\ g.reads = reads /\ g.cancelled = (made + reads > checks)
        /\ g.candidates = IF made + reads > checks \/ found = {} THEN <<>> ELSE <<vs[Min(found)]>>
    BY DEF ScanGroup
  <1>4. g.cancelled \in BOOLEAN /\ (g.cancelled <=> made + g.reads > checks)
    <2>1. (made + reads > checks) \in BOOLEAN
      OBVIOUS
    <2> HIDE DEF reads, g
    <2> QED BY Zenon, <1>3, <2>1
  <1>5. ASSUME NEW i \in DOMAIN vs
        PROVE  /\ clock[made + i] \in Nat /\ early \in Nat /\ late \in Nat
               /\ early <= clock[made + i] /\ clock[made + i] <= late
    <2>1. made + i \in Nat
      BY <1>1
    <2>2. clock[made + i] \in early .. late /\ early \in Nat /\ late \in Nat
      BY Zenon, <2>1 DEF Timed
    <2> QED BY <2>2
  <1>6. CASE found = {}
    <2>1. ASSUME NEW i \in DOMAIN vs
          PROVE  ~ Candidate(vs[i], early)
      BY Zenon, <1>1, <1>5, <1>6, CandidateStays
    <2>2. Scan(vs, early) = <<>>
      BY Zenon, <2>1, ScanFacts
    <2>3. <<>> \in Seq(Version) /\ Range(<<>>) = {}
      BY EmptySeq DEF Range
    <2>4. Reported(<<>>, vs, early, late)
      BY Zenon, <2>2, <2>3 DEF Reported
    <2>5. reads \in 0 .. Len(vs)
      BY <1>1, <1>6
    <2> HIDE DEF reads, g
    <2>6. g.candidates = <<>>
      BY Zenon, <1>3, <1>6
    <2>7. g.reads \in 0 .. Len(vs) /\ (~ g.cancelled => Reported(g.candidates, vs, early, late))
      BY Zenon, <1>3, <2>4, <2>5, <2>6
    <2> QED BY Zenon, <1>4, <2>7 DEF g
  <1>7. CASE found # {}
    <2>1. PICK i \in found : i = Min(found)
      BY Zenon, <1>2, <1>7, MinIsLeast
    <2>2. Candidate(vs[i], late)
      BY Zenon, <1>1, <1>5, <2>1, CandidateStays
    <2>3. vs[i] \in Range(Scan(vs, late))
      BY Zenon, <2>1, <2>2, ScanFacts
    <2>4. PICK v \in Version : v = vs[i]
      BY Zenon, <1>1, <2>1
    <2>5. <<v>> \in Seq(Version) /\ <<v>> # <<>> /\ Range(<<v>>) = {v}
      BY DEF Range
    <2>6. Reported(<<v>>, vs, early, late)
      BY Zenon, <2>3, <2>4, <2>5 DEF Reported
    <2>7. reads \in 0 .. Len(vs)
      BY <1>1, <1>2, <1>7, <2>1
    <2> HIDE DEF reads, g
    <2>8. ~ g.cancelled => g.candidates = <<v>>
      BY Zenon, <1>3, <1>7, <2>1, <2>4
    <2>9. g.reads \in 0 .. Len(vs) /\ (~ g.cancelled => Reported(g.candidates, vs, early, late))
      BY Zenon, <1>3, <2>6, <2>7, <2>8
    <2> QED BY Zenon, <1>4, <2>9 DEF g
  <1> QED BY Zenon, <1>6, <1>7

\* What ScanAll's loop carries from group to group.
Progress == [cancelled: BOOLEAN, made: Nat, result: Seq(Seq(Version))]

\* b is what a turn of it makes of a.
Turned(b, a, vs, early, late, checks) ==
  /\ b \in Progress
  /\ a.cancelled => b = a
  /\ ~ a.cancelled => \E reads \in 0 .. Len(vs) :
       /\ b.cancelled <=> a.made + reads > checks
       /\ b.made = a.made + reads
       /\ b.cancelled => b.result = a.result
       /\ ~ b.cancelled => \E x \in Seq(Version) : /\ Reported(x, vs, early, late)
                                                   /\ b.result = Append(a.result, x)

\* One turn of it.
LEMMA ScanNextFacts ==
  ASSUME NEW acc \in Progress, NEW vs \in Seq(Version), NEW clock, NEW early, NEW late,
         Timed(clock, early, late), NEW checks \in Nat
  PROVE  Turned(ScanNext(acc, vs, clock, checks), acc, vs, early, late, checks)
  <1>1. PICK b : b = ScanNext(acc, vs, clock, checks)
    BY Zenon
  <1>2. acc.cancelled \in BOOLEAN /\ acc.made \in Nat /\ acc.result \in Seq(Seq(Version))
    BY DEF Progress
  <1>3. PICK g : g = ScanGroup(vs, clock, acc.made, checks)
    BY Zenon
  <1>4. /\ g.reads \in 0 .. Len(vs)
        /\ g.cancelled \in BOOLEAN /\ (g.cancelled <=> acc.made + g.reads > checks)
        /\ ~ g.cancelled => Reported(g.candidates, vs, early, late)
    BY Zenon, <1>2, <1>3, ScanGroupFacts
  <1>5. CASE acc.cancelled
    <2>1. b = acc
      BY Zenon, <1>5, <1>1 DEF ScanNext
    <2> QED BY Zenon, <1>5, <1>1, <2>1 DEF Turned
  <1>6. CASE ~ acc.cancelled
    <2> DEFINE res == IF g.cancelled THEN acc.result ELSE Append(acc.result, g.candidates)
    <2>1. b = [cancelled |-> g.cancelled, made |-> acc.made + g.reads, result |-> res]
      BY Zenon, <1>3, <1>6, <1>1 DEF ScanNext
    <2>2. acc.made + g.reads \in Nat
      BY <1>2, <1>4, LenProperties
    <2>3. res \in Seq(Seq(Version))
      <3>1. \A q \in Seq(Seq(Version)), v \in Seq(Version) : Append(q, v) \in Seq(Seq(Version))
        BY Zenon, AppendProperties
      <3> QED BY Zenon, <1>2, <1>4, <3>1 DEF Reported
    <2>4. /\ g.cancelled => res = acc.result
          /\ ~ g.cancelled => \E x \in Seq(Version) : /\ Reported(x, vs, early, late)
                                                      /\ res = Append(acc.result, x)
      BY Zenon, <1>4 DEF Reported
    <2> HIDE DEF res
    <2>5. \A c \in BOOLEAN, l \in Nat, r \in Seq(Seq(Version)) :
            /\ [cancelled |-> c, made |-> l, result |-> r] \in Progress
            /\ [cancelled |-> c, made |-> l, result |-> r].cancelled = c
            /\ [cancelled |-> c, made |-> l, result |-> r].made = l
            /\ [cancelled |-> c, made |-> l, result |-> r].result = r
      BY Zenon DEF Progress
    <2>6. /\ b \in Progress
          /\ b.cancelled = g.cancelled
          /\ b.made = acc.made + g.reads
          /\ b.result = res
      <3>1. PICK c \in BOOLEAN, l \in Nat, r \in Seq(Seq(Version)) :
              c = g.cancelled /\ l = acc.made + g.reads /\ r = res
        BY Zenon, <1>4, <2>2, <2>3
      <3>2. PICK x : x = [cancelled |-> c, made |-> l, result |-> r]
        BY Zenon
      <3>3. x \in Progress /\ x.cancelled = c /\ x.made = l /\ x.result = r
        BY Zenon, <2>5, <3>2
      <3>4. b = x
        BY Zenon, <2>1, <3>1, <3>2
      <3> QED BY Zenon, <3>1, <3>3, <3>4
    <2>7. \E reads \in 0 .. Len(vs) :
            /\ b.cancelled <=> acc.made + reads > checks
            /\ b.made = acc.made + reads
            /\ b.cancelled => b.result = acc.result
            /\ ~ b.cancelled => \E x \in Seq(Version) : /\ Reported(x, vs, early, late)
                                                        /\ b.result = Append(acc.result, x)
      BY Zenon, <1>4, <2>4, <2>6
    <2> QED BY Zenon, <1>6, <1>1, <2>6, <2>7 DEF Turned
  <1> QED BY Zenon, <1>2, <1>5, <1>6

\* f is what the loop of ScanAll computes, turn by turn.
Scans(f, gs, clock, checks) ==
  /\ ScanAll(gs, clock, checks) = f[Len(gs)]
  /\ f[0] = [cancelled |-> FALSE, made |-> 0, result |-> <<>>]
  /\ \A n \in 1 .. Len(gs) : f[n] = ScanNext(f[n - 1], gs[n], clock, checks)

\* There is one.
LEMMA ScanRuns ==
  ASSUME NEW gs \in Seq(Seq(Version)), NEW clock, NEW early, NEW late,
         Timed(clock, early, late), NEW checks \in Nat
  PROVE  \E f \in [0 .. Len(gs) -> Progress] : Scans(f, gs, clock, checks)
  <1> DEFINE a == [cancelled |-> FALSE, made |-> 0, result |-> <<>>]
             Body(h) == [n \in 0 .. Len(gs) |->
                           IF n = 0 THEN a ELSE ScanNext(h[n - 1], gs[n], clock, checks)]
             g == [p \in Progress \X (1 .. Len(gs)) |-> ScanNext(p[1], gs[p[2]], clock, checks)]
  <1>1. /\ Len(gs) \in Nat
        /\ \A n \in 1 .. Len(gs) : gs[n] \in Seq(Version)
        /\ \A n \in 1 .. Len(gs) : n \in 0 .. Len(gs) /\ n - 1 \in 0 .. Len(gs) /\ n # 0
        /\ \A n \in 0 .. Len(gs) : n = 0 \/ n \in 1 .. Len(gs)
        /\ 0 \in 0 .. Len(gs) /\ Len(gs) \in 0 .. Len(gs)
    BY LenProperties, ElementOfSeq
  <1>2. a \in Progress
    <2>1. <<>> \in Seq(Seq(Version)) /\ 0 \in Nat
      BY EmptySeq
    <2> QED BY Zenon, <2>1 DEF Progress
  <1>3. \A x \in Progress, n \in 1 .. Len(gs) : ScanNext(x, gs[n], clock, checks) \in Progress
    <2>1. ASSUME NEW x \in Progress, NEW vs \in Seq(Version)
          PROVE  ScanNext(x, vs, clock, checks) \in Progress
      <3>1. Turned(ScanNext(x, vs, clock, checks), x, vs, early, late, checks)
        BY Zenon, ScanNextFacts
      <3> QED BY Zenon, <3>1 DEF Turned
    <2> QED BY Zenon, <1>1, <2>1
  <1> HIDE DEF a
  <1>4. g \in [Progress \X (1 .. Len(gs)) -> Progress]
    BY <1>3
  <1>5. \A x \in Progress, n \in 1 .. Len(gs) : g[x, n] = ScanNext(x, gs[n], clock, checks)
    OBVIOUS
  <1> HIDE DEF g
  <1>6. PICK f \in [0 .. Len(gs) -> Progress] : Runs(f, a, g, Len(gs))
    BY Zenon, <1>1, <1>4, <1>2, LoopRuns
  <1>7. \A n \in 0 .. Len(gs) : f[n] = Body(f)[n]
    BY Zenon, <1>1, <1>5, <1>6 DEF Runs
  <1>8. f = Body(f)
    BY Zenon, <1>6, <1>7
  <1>9. PICK h : h = CHOOSE x : x = Body(x)
    BY Zenon
  <1>10. ScanAll(gs, clock, checks) = h[Len(gs)]
    BY Zenon, <1>9 DEF ScanAll, a
  <1> HIDE DEF Body
  <1>11. h = Body(h)
    BY Zenon, <1>8, <1>9
  <1>12. /\ h = [n \in 0 .. Len(gs) |-> h[n]]
         /\ h[0] = a
         /\ \A n \in 1 .. Len(gs) : h[n] = ScanNext(h[n - 1], gs[n], clock, checks)
    BY Zenon, <1>1, <1>11 DEF Body
  <1>13. \A n \in 0 .. Len(gs) : h[n] \in Progress
    <2> DEFINE T == {k \in 0 .. Len(gs) : h[k] \in Progress}
    <2>1. 0 \in T
      BY Zenon, <1>1, <1>12, <1>2
    <2>2. \A n \in 1 .. Len(gs) : n - 1 \in T => n \in T
      BY Zenon, <1>1, <1>3, <1>12
    <2> HIDE DEF T
    <2>3. \A n \in 0 .. Len(gs) : n \in T
      BY Zenon, <1>1, <2>1, <2>2, EveryTurn
    <2> QED BY Zenon, <2>3 DEF T
  <1>14. h \in [0 .. Len(gs) -> Progress]
    BY Zenon, <1>12, <1>13
  <1> QED BY Zenon, <1>10, <1>12, <1>14 DEF a, Scans

\* The numbers of versions in the groups.
Sizes(gs) == [g \in DOMAIN gs |-> Len(gs[g])]

\* The arithmetic of a turn: reads of a group of len versions, with made checks
\* made before, after total versions.
LEMMA ChecksMade ==
  ASSUME NEW checks \in Nat, NEW made \in Nat, NEW total \in Nat, NEW len \in Nat,
         NEW reads \in 0 .. len, made <= total
  PROVE  /\ made + reads <= total + len
         /\ made + reads > checks => checks < total + len
  OBVIOUS

\* What ScanAll reports of groups in any number: right entries for some of the
\* first groups, for all unless cancelled, and it takes fewer checks than there
\* are versions to be cancelled.
LEMMA ScanAllFacts ==
  ASSUME NEW gs \in Seq(Seq(Version)), NEW clock, NEW early, NEW late,
         Timed(clock, early, late), NEW checks \in Nat
  PROVE  LET scan == ScanAll(gs, clock, checks)
         IN  /\ scan.result \in Seq(Seq(Version)) /\ Len(scan.result) <= Len(gs)
             /\ \A j \in 1 .. Len(scan.result) : Reported(scan.result[j], gs[j], early, late)
             /\ ~ scan.cancelled => Len(scan.result) = Len(gs)
             /\ scan.cancelled => checks < Total(Sizes(gs))
  <1>1. PICK f \in [0 .. Len(gs) -> Progress] : Scans(f, gs, clock, checks)
    BY Zenon, ScanRuns
  <1>2. PICK m \in Nat : m = Len(gs) /\ DOMAIN gs = 1 .. m
    BY LenProperties
  <1>3. \A n \in 1 .. m : gs[n] \in Seq(Version) /\ Len(gs[n]) \in Nat
    BY <1>2, ElementOfSeq, LenProperties
  <1>4. Sizes(gs) \in Seq(Nat) /\ Len(Sizes(gs)) = m /\ \A n \in 1 .. m : Sizes(gs)[n] = Len(gs[n])
    <2>1. Sizes(gs) = [n \in 1 .. m |-> Len(gs[n])]
      BY Zenon, <1>2 DEF Sizes
    <2>2. PICK z : z = Sizes(gs)
      BY Zenon
    <2>3. z \in [1 .. m -> Nat] /\ \A n \in 1 .. m : z[n] = Len(gs[n])
      BY Zenon, <1>3, <2>1, <2>2
    <2>4. z \in Seq(Nat) /\ Len(z) = m
      BY Zenon, <2>3, FunctionIsSeq
    <2> QED BY Zenon, <2>2, <2>3, <2>4
  <1>5. PICK t \in [0 .. m -> Nat] : /\ Total(Sizes(gs)) = t[m] /\ t[0] = 0
                                     /\ \A n \in 1 .. m : t[n] = t[n - 1] + Len(gs[n])
    BY ZenonT(40), <1>4, TotalRuns
  <1>6. /\ 0 \in 0 .. m /\ m \in 0 .. m
        /\ \A n \in 1 .. m : n \in 0 .. m /\ n - 1 \in 0 .. m
    BY <1>2
  <1> DEFINE Right(n) == /\ Len(f[n].result) <= n
                         /\ \A j \in 1 .. Len(f[n].result) :
                              Reported(f[n].result[j], gs[j], early, late)
                         /\ f[n].cancelled => checks < t[n]
                         /\ ~ f[n].cancelled => Len(f[n].result) = n /\ f[n].made <= t[n]
             T == {n \in 0 .. m : Right(n)}
  <1>7. 0 \in T
    <2>1. PICK z : z = [cancelled |-> FALSE, made |-> 0, result |-> <<>>]
      BY Zenon
    <2>2. z.cancelled = FALSE /\ z.made = 0 /\ z.result = <<>>
      BY Zenon, <2>1
    <2>3. f[0].cancelled = FALSE /\ f[0].made = 0 /\ f[0].result = <<>> /\ t[0] = 0
      BY Zenon, <1>1, <1>5, <2>1, <2>2 DEF Scans
    <2>4. Len(<<>>) = 0 /\ 1 .. 0 = {} /\ 0 <= 0
      OBVIOUS
    <2> QED BY Zenon, <1>6, <2>3, <2>4
  <1>8. ASSUME NEW n \in 1 .. m, n - 1 \in T
        PROVE  n \in T
    <2>1. Right(n - 1)
      BY Zenon, <1>8
    <2>2. PICK a \in Progress, vs \in Seq(Version) :
            a = f[n - 1] /\ vs = gs[n] /\ f[n] = ScanNext(a, vs, clock, checks)
      <3>1. /\ f[n - 1] \in Progress /\ gs[n] \in Seq(Version)
            /\ f[n] = ScanNext(f[n - 1], gs[n], clock, checks)
        BY Zenon, <1>1, <1>2, <1>3, <1>6 DEF Scans
      <3> QED BY Zenon, <3>1
    <2>3. PICK b : b = f[n] /\ Turned(b, a, vs, early, late, checks)
      BY Zenon, <2>2, ScanNextFacts
    <2>4. PICK p \in Nat, q \in Nat, l \in Nat :
            p = t[n - 1] /\ q = t[n] /\ l = Len(vs) /\ q = p + l
      <3>1. /\ t[n - 1] \in Nat /\ t[n] \in Nat /\ Len(vs) \in Nat
            /\ t[n] = t[n - 1] + Len(vs)
        BY Zenon, <1>3, <1>5, <1>6, <2>2
      <3> QED BY Zenon, <3>1
    <2>5. a.cancelled \in BOOLEAN /\ a.made \in Nat /\ a.result \in Seq(Seq(Version))
      BY Zenon DEF Progress
    <2>6. /\ Len(a.result) <= n - 1
          /\ \A j \in 1 .. Len(a.result) : Reported(a.result[j], gs[j], early, late)
          /\ a.cancelled => checks < p
          /\ ~ a.cancelled => Len(a.result) = n - 1 /\ a.made <= p
      BY Zenon, <2>1, <2>2, <2>4
    <2>7. Len(a.result) \in Nat
      BY Zenon, <2>5, LenProperties
    <2>8. n \in 0 .. m
      BY Zenon, <1>6
    <2> HIDE DEF Right
    <2>9. SUFFICES /\ Len(b.result) <= n
                   /\ \A j \in 1 .. Len(b.result) : Reported(b.result[j], gs[j], early, late)
                   /\ b.cancelled => checks < q
                   /\ ~ b.cancelled => Len(b.result) = n /\ b.made <= q
      BY Zenon, <2>4, <2>8, <2>3 DEF Right
    <2>10. CASE a.cancelled
      <3>1. b = a
        BY Zenon, <2>10, <2>3 DEF Turned
      <3>2. checks < q
        BY <2>4, <2>6, <2>10
      <3>3. \A x \in Nat : x <= n - 1 => x <= n
        OBVIOUS
      <3> QED BY Zenon, <2>6, <2>7, <2>10, <3>1, <3>2, <3>3
    <2>11. CASE ~ a.cancelled
      <3>1. PICK reads \in 0 .. l :
              /\ b.cancelled <=> a.made + reads > checks
              /\ b.made = a.made + reads
              /\ b.cancelled => b.result = a.result
              /\ ~ b.cancelled => \E x \in Seq(Version) : /\ Reported(x, vs, early, late)
                                                          /\ b.result = Append(a.result, x)
        BY Zenon, <2>4, <2>11, <2>3 DEF Turned
      <3>2. a.made <= p
        BY Zenon, <2>6, <2>11
      <3>3. a.made + reads <= p + l /\ (a.made + reads > checks => checks < p + l)
        BY ZenonT(40), <2>4, <2>5, <3>2, ChecksMade
      <3>4. CASE b.cancelled
        <4>1. checks < q /\ b.result = a.result
          BY Zenon, <2>4, <3>1, <3>3, <3>4
        <4>2. \A x \in Nat : x <= n - 1 => x <= n
          OBVIOUS
        <4> QED BY Zenon, <2>6, <2>7, <3>4, <4>1, <4>2
      <3>5. CASE ~ b.cancelled
        <4>1. PICK x \in Seq(Version) : Reported(x, vs, early, late) /\ b.result = Append(a.result, x)
          BY Zenon, <3>1, <3>5
        <4>2. PICK r \in Seq(Seq(Version)) : r = a.result /\ b.result = Append(r, x) /\ Len(r) = n - 1
          BY Zenon, <2>5, <2>6, <2>11, <4>1
        <4>3. /\ Len(Append(r, x)) = Len(r) + 1
              /\ \A i \in 1 .. Len(r) : Append(r, x)[i] = r[i]
              /\ Append(r, x)[Len(r) + 1] = x
          BY AppendFacts
        <4>4. (n - 1) + 1 = n /\ n <= n /\ \A j \in 1 .. n : j \in 1 .. n - 1 \/ j = n
          OBVIOUS
        <4>5. Len(b.result) = n
          BY Zenon, <4>2, <4>3, <4>4
        <4>6. \A j \in 1 .. n : Reported(b.result[j], gs[j], early, late)
          <5>1. \A j \in 1 .. n - 1 : b.result[j] = a.result[j]
            BY Zenon, <4>2, <4>3
          <5>2. b.result[n] = x
            BY Zenon, <4>2, <4>3, <4>4
          <5> QED BY Zenon, <2>2, <2>6, <4>1, <4>2, <4>4, <5>1, <5>2
        <4>7. b.made <= q
          BY Zenon, <2>4, <3>1, <3>3
        <4> QED BY Zenon, <3>5, <4>4, <4>5, <4>6, <4>7
      <3> QED BY Zenon, <3>4, <3>5
    <2> QED BY Zenon, <2>5, <2>10, <2>11
  <1>9. Right(m)
    <2> HIDE DEF Right
    <2>1. 0 \in T /\ \A n \in 1 .. m : n - 1 \in T => n \in T
      BY Zenon, <1>7, <1>8
    <2> HIDE DEF T
    <2>2. m \in T
      BY Zenon, <1>6, <2>1, EveryTurn
    <2> QED BY Zenon, <2>2 DEF T
  <1>10. f[m].result \in Seq(Seq(Version))
    BY Zenon, <1>2, <1>6 DEF Progress
  <1> QED BY Zenon, <1>1, <1>2, <1>5, <1>9, <1>10 DEF Scans

\* The clock of a scan that starts at at.
LEMMA ScanIsTimed ==
  ASSUME at \in Nat, NEW k \in Int, NEW delay \in Nat
  PROVE  Timed(ClockOf(k, delay), at, at + delay)
  BY DEF Timed, ClockOf

\* What the scanner reports has expired and is not served; ScanAll loses nothing.
THEOREM ExpiredAreNotServed == Spec => []ExpiredNotServed
  <1>1. ASSUME InputOK
        PROVE  ExpiredNotServed
    <2> SUFFICES ASSUME input.kind = "expiry"
                 PROVE  \A checks, k \in 0 .. MaxChecks, delay \in 0 .. MaxDelay :
                          LET groups == input.groups
                              scan == ScanAll(groups, ClockOf(k, delay), checks)
                          IN  /\ \A g \in DOMAIN groups, s \in Subject :
                                   \A v \in Range(Scan(groups[g], at + delay)) : ~ Served(v, s, at + delay)
                              /\ \A g \in DOMAIN scan.result :
                                   /\ Range(scan.result[g]) \subseteq Range(Scan(groups[g], at + delay))
                                   /\ Scan(groups[g], at) # <<>> => scan.result[g] # <<>>
                              /\ ~ scan.cancelled => Len(scan.result) = Len(groups)
                              /\ scan.cancelled => checks < Total([g \in DOMAIN groups |-> Len(groups[g])])
      BY Zenon DEF ExpiredNotServed
    <2> DEFINE gs == input.groups
    <2>1. gs \in Seq(Seq(Version))
      BY Zenon, <1>1 DEF InputOK
    <2> HIDE DEF gs
    <2>2. at \in Nat /\ NoBound = NoTime /\ MaxDelay \in Nat
      BY <1>1, TimeAssumption DEF InputOK
    <2>3. ASSUME NEW checks \in 0 .. MaxChecks, NEW k \in 0 .. MaxChecks, NEW delay \in 0 .. MaxDelay
          PROVE  LET scan == ScanAll(gs, ClockOf(k, delay), checks)
                 IN  /\ \A g \in DOMAIN gs, s \in Subject :
                          \A v \in Range(Scan(gs[g], at + delay)) : ~ Served(v, s, at + delay)
                     /\ \A g \in DOMAIN scan.result :
                          /\ Range(scan.result[g]) \subseteq Range(Scan(gs[g], at + delay))
                          /\ Scan(gs[g], at) # <<>> => scan.result[g] # <<>>
                     /\ ~ scan.cancelled => Len(scan.result) = Len(gs)
                     /\ scan.cancelled => checks < Total([g \in DOMAIN gs |-> Len(gs[g])])
      <3> DEFINE scan == ScanAll(gs, ClockOf(k, delay), checks)
      <3>1. checks \in Nat /\ k \in Int /\ delay \in Nat
        BY <2>2
      <3>2. PICK late \in Nat : late = at + delay
        BY <2>2, <3>1
      <3>3. PICK clock : clock = ClockOf(k, delay) /\ Timed(clock, at, late)
        BY Zenon, <2>2, <3>1, <3>2, ScanIsTimed
      <3>4. ASSUME NEW g \in DOMAIN gs, NEW s \in Subject, NEW v \in Range(Scan(gs[g], late))
            PROVE  ~ Served(v, s, late)
        <4>1. PICK vs \in Seq(Version) : vs = gs[g]
          BY <2>1, LenProperties, ElementOfSeq
        <4>2. \A i \in DOMAIN vs : vs[i] \in Version
          BY LenProperties, ElementOfSeq
        <4>3. PICK i \in DOMAIN vs : Candidate(vs[i], late) /\ v = vs[i]
          <5>1. Range(Scan(vs, late)) = {vs[i] : i \in {j \in DOMAIN vs : Candidate(vs[j], late)}}
            BY Zenon, ScanFacts
          <5>2. v \in {vs[i] : i \in {j \in DOMAIN vs : Candidate(vs[j], late)}}
            BY Zenon, <3>4, <4>1, <5>1
          <5> QED BY Zenon, <5>2
        <4>4. v.expires \in Nat \cup {NoTime}
          BY Zenon, <4>2, <4>3, VersionAssumption DEF Instant
        <4>5. v.expires # NoTime /\ v.expires < late
          BY Zenon, <2>2, <4>3 DEF Candidate, Past
        <4>6. ~ (late < v.expires)
          BY <3>2, <4>4, <4>5
        <4> QED BY Zenon, <4>5, <4>6 DEF Served, Unexpired
      <3>5. scan = ScanAll(gs, clock, checks)
        BY Zenon, <3>3
      <3> HIDE DEF scan
      <3>6. /\ scan.result \in Seq(Seq(Version))
            /\ \A j \in 1 .. Len(scan.result) : Reported(scan.result[j], gs[j], at, late)
            /\ ~ scan.cancelled => Len(scan.result) = Len(gs)
            /\ scan.cancelled => checks < Total(Sizes(gs))
        BY Zenon, <2>1, <3>1, <3>3, <3>5, ScanAllFacts
      <3>7. DOMAIN scan.result = 1 .. Len(scan.result)
        BY <3>6, LenProperties
      <3>8. \A g \in DOMAIN scan.result :
              /\ Range(scan.result[g]) \subseteq Range(Scan(gs[g], late))
              /\ Scan(gs[g], at) # <<>> => scan.result[g] # <<>>
        BY Zenon, <3>6, <3>7 DEF Reported
      <3>9. \A g \in DOMAIN gs, s \in Subject :
              \A v \in Range(Scan(gs[g], at + delay)) : ~ Served(v, s, at + delay)
        BY Zenon, <3>2, <3>4
      <3>10. \A g \in DOMAIN scan.result :
              /\ Range(scan.result[g]) \subseteq Range(Scan(gs[g], at + delay))
              /\ Scan(gs[g], at) # <<>> => scan.result[g] # <<>>
        BY Zenon, <3>2, <3>8
      <3>11. scan.cancelled => checks < Total([g \in DOMAIN gs |-> Len(gs[g])])
        BY Zenon, <3>6 DEF Sizes
      <3> QED BY Zenon, <3>6, <3>9, <3>10, <3>11 DEF scan
    <2> QED BY Zenon, <2>3 DEF gs
  <1> QED BY <1>1, InputOKInvariant, PTL

-----------------------------------------------------------------------------
(***************************************************************************)
(* Rules.  Sorting by the place of each is sorting: the places are all     *)
(* different, so each is taken, and they are in the order of priority.     *)
(***************************************************************************)

\* The j-th priority goes before the i-th.
Before(p, j, i) == p[j] > p[i] \/ (p[j] = p[i] /\ j < i)

\* What goes before the i-th.
Ahead(p, i) == {j \in DOMAIN p : Before(p, j, i)}

\* This is a strict order of all indices.
LEMMA BeforeIsOrder ==
  ASSUME NEW m \in Nat, NEW p \in [1 .. m -> Int]
  PROVE  /\ \A i \in 1 .. m : ~ Before(p, i, i)
         /\ \A i, j \in 1 .. m : i = j \/ Before(p, i, j) \/ Before(p, j, i)
         /\ \A i, j, k \in 1 .. m : Before(p, i, j) /\ Before(p, j, k) => Before(p, i, k)
  <1>1. \A i \in 1 .. m : p[i] \in Int /\ i \in Int
    OBVIOUS
  <1> DEFINE Less(x, i, y, j) == x > y \/ (x = y /\ i < j)
  <1>2. ASSUME NEW x \in Int, NEW i \in Int
        PROVE  ~ Less(x, i, x, i)
    OBVIOUS
  <1>3. ASSUME NEW x \in Int, NEW i \in Int, NEW y \in Int, NEW j \in Int, i # j
        PROVE  Less(x, i, y, j) \/ Less(y, j, x, i)
    BY <1>3
  <1>4. ASSUME NEW x \in Int, NEW i \in Int, NEW y \in Int, NEW j \in Int, NEW z \in Int, NEW k \in Int,
               Less(x, i, y, j), Less(y, j, z, k)
        PROVE  Less(x, i, z, k)
    BY <1>4
  <1>5. \A i, j \in 1 .. m : Before(p, i, j) <=> Less(p[i], i, p[j], j)
    BY Zenon DEF Before
  <1> HIDE DEF Less
  <1>6. \A i \in 1 .. m : ~ Before(p, i, i)
    BY Zenon, <1>1, <1>2, <1>5
  <1>7. \A i, j \in 1 .. m : i = j \/ Before(p, i, j) \/ Before(p, j, i)
    BY Zenon, <1>1, <1>3, <1>5
  <1>8. \A i, j, k \in 1 .. m : Before(p, i, j) /\ Before(p, j, k) => Before(p, i, k)
    BY Zenon, <1>1, <1>4, <1>5
  <1> QED BY Zenon, <1>6, <1>7, <1>8

\* An index goes to a place behind what is before it.
LEMMA PlacesGrow ==
  ASSUME NEW m \in Nat, NEW p \in [1 .. m -> Int]
  PROVE  /\ \A i \in 1 .. m : 1 + Cardinality(Ahead(p, i)) \in 1 .. m
         /\ \A i, j \in 1 .. m : Before(p, j, i) =>
              1 + Cardinality(Ahead(p, j)) < 1 + Cardinality(Ahead(p, i))
  <1>1. IsFiniteSet(1 .. m) /\ Cardinality(1 .. m) = m
    BY FS_Interval
  <1>2. \A i \in 1 .. m : Ahead(p, i) \in SUBSET (1 .. m) /\ i \notin Ahead(p, i)
    BY Zenon, BeforeIsOrder DEF Ahead
  <1>3. \A i \in 1 .. m : IsFiniteSet(Ahead(p, i))
    BY Zenon, <1>1, <1>2, FS_Subset
  <1>4. \A i \in 1 .. m : /\ IsFiniteSet(Ahead(p, i) \cup {i})
                          /\ Cardinality(Ahead(p, i) \cup {i}) = Cardinality(Ahead(p, i)) + 1
                          /\ Cardinality(Ahead(p, i)) \in Nat
    BY Zenon, <1>2, <1>3, FS_AddElement, FS_CardinalityType
  <1>5. \A i \in 1 .. m : Cardinality(Ahead(p, i) \cup {i}) <= m
    <2>1. \A i \in 1 .. m : Ahead(p, i) \cup {i} \in SUBSET (1 .. m)
      BY Zenon, <1>2
    <2>2. ASSUME NEW A \in SUBSET (1 .. m)
          PROVE  Cardinality(A) <= m
      <3>1. Cardinality(A) <= Cardinality(1 .. m)
        BY Zenon, <1>1, FS_Subset
      <3> QED BY Zenon, <1>1, <3>1
    <2> QED BY Zenon, <2>1, <2>2
  <1>6. ASSUME NEW i \in 1 .. m, NEW j \in 1 .. m, Before(p, j, i)
        PROVE  Cardinality(Ahead(p, j) \cup {j}) <= Cardinality(Ahead(p, i))
    <2>1. Ahead(p, j) \cup {j} \in SUBSET Ahead(p, i)
      <3>1. \A k \in 1 .. m : Before(p, k, j) => Before(p, k, i)
        BY Zenon, <1>6, BeforeIsOrder
      <3> QED BY Zenon, <1>6, <3>1 DEF Ahead
    <2> QED BY Zenon, <1>3, <2>1, FS_Subset
  <1>7. ASSUME NEW i \in 1 .. m
        PROVE  1 + Cardinality(Ahead(p, i)) \in 1 .. m
    <2>1. PICK c \in Nat : c = Cardinality(Ahead(p, i)) /\ c + 1 <= m
      BY Zenon, <1>4, <1>5
    <2> QED BY <2>1
  <1>8. ASSUME NEW i \in 1 .. m, NEW j \in 1 .. m, Before(p, j, i)
        PROVE  1 + Cardinality(Ahead(p, j)) < 1 + Cardinality(Ahead(p, i))
    <2>1. PICK c \in Nat, d \in Nat :
            c = Cardinality(Ahead(p, j)) /\ d = Cardinality(Ahead(p, i)) /\ c + 1 <= d
      BY ZenonT(40), <1>4, <1>6, <1>8
    <2> QED BY <2>1
  <1> QED BY Zenon, <1>7, <1>8

\* So every place is taken by one index, and those at lower places go before.
LEMMA PlacesTaken ==
  ASSUME NEW m \in Nat, NEW p \in [1 .. m -> Int]
  PROVE  \E o \in [1 .. m -> 1 .. m] :
           /\ \A i, n \in 1 .. m : 1 + Cardinality(Ahead(p, i)) = n <=> i = o[n]
           /\ \A i \in 1 .. m : \E n \in 1 .. m : o[n] = i
           /\ \A n, k \in 1 .. m : n < k => Before(p, o[n], o[k])
  <1> DEFINE place == [i \in 1 .. m |-> 1 + Cardinality(Ahead(p, i))]
             o == [n \in 1 .. m |-> CHOOSE i \in 1 .. m : place[i] = n]
  <1>1. /\ place \in [1 .. m -> 1 .. m]
        /\ \A i, j \in 1 .. m : Before(p, j, i) => place[j] < place[i]
    BY Zenon, PlacesGrow
  <1>2. \A i \in 1 .. m : place[i] = 1 + Cardinality(Ahead(p, i))
    BY Zenon
  <1> HIDE DEF place
  <1>3. \A i, j \in 1 .. m : place[i] < place[j] => ~ (place[j] < place[i]) /\ place[i] # place[j]
    <2>1. \A i \in 1 .. m : place[i] \in Int
      BY <1>1
    <2>2. \A x, y \in Int : x < y => ~ (y < x) /\ x # y
      OBVIOUS
    <2> QED BY Zenon, <2>1, <2>2
  <1>4. \A i, j \in 1 .. m : i = j \/ Before(p, i, j) \/ Before(p, j, i)
    BY Zenon, BeforeIsOrder
  <1>5. place \in Injection(1 .. m, 1 .. m)
    BY Zenon, <1>1, <1>3, <1>4 DEF Injection, IsInjective
  <1>6. place \in Surjection(1 .. m, 1 .. m)
    <2>1. IsFiniteSet(1 .. m)
      BY FS_Interval
    <2> QED BY Zenon, <1>5, <2>1, FS_Injection
  <1>7. \A n \in 1 .. m : \E i \in 1 .. m : place[i] = n
    BY Zenon, <1>6 DEF Surjection
  <1>8. \A n \in 1 .. m : o[n] \in 1 .. m /\ place[o[n]] = n
    BY Zenon, <1>7
  <1>9. o \in [1 .. m -> 1 .. m]
    BY Zenon, <1>8
  <1> HIDE DEF o
  <1>10. \A i, n \in 1 .. m : 1 + Cardinality(Ahead(p, i)) = n <=> i = o[n]
    <2>1. \A i, j \in 1 .. m : place[i] = place[j] => i = j
      BY Zenon, <1>1, <1>3, <1>4
    <2> QED BY Zenon, <1>2, <1>8, <2>1
  <1>11. ASSUME NEW i \in 1 .. m
         PROVE  \E n \in 1 .. m : o[n] = i
    <2>1. place[i] \in 1 .. m /\ place[o[place[i]]] = place[i]
      BY Zenon, <1>1, <1>8
    <2> QED BY Zenon, <1>9, <1>5, <2>1 DEF Injection, IsInjective
  <1>12. ASSUME NEW n \in 1 .. m, NEW k \in 1 .. m, n < k
         PROVE  Before(p, o[n], o[k])
    <2>1. ~ (k < n) /\ n # k
      BY <1>12
    <2>2. o[n] \in 1 .. m /\ o[k] \in 1 .. m /\ place[o[n]] = n /\ place[o[k]] = k
      BY Zenon, <1>8
    <2> QED BY Zenon, <1>1, <1>4, <2>1, <2>2
  <1> QED BY Zenon, <1>9, <1>10, <1>11, <1>12

\* What is used of a rule.
Suitable(R) ==
  \A r \in R : /\ r.enabled \in BOOLEAN /\ r.priority \in Int
               /\ r.starts \in Instant /\ r.ends \in Instant

\* The j-th rule goes before the i-th.
Prior(rs, j, i) == \/ rs[j].priority > rs[i].priority
                   \/ rs[j].priority = rs[i].priority /\ j < i

\* The order o sorts rs into s: it lists every rule, one of a greater priority
\* first and one that comes first among equals.
Sorts(o, rs, s) ==
  /\ Len(s) = Len(rs)
  /\ \A n \in 1 .. Len(rs) : s[n] = rs[o[n]]
  /\ \A i \in 1 .. Len(rs) : \E n \in 1 .. Len(rs) : o[n] = i
  /\ \A n, k \in 1 .. Len(rs) : n < k => Prior(rs, o[n], o[k])

\* SortRules sorts.
LEMMA SortRulesFacts ==
  ASSUME NEW R, Suitable(R), NEW rs \in Seq(R)
  PROVE  \E s \in Seq(R), o \in [1 .. Len(rs) -> 1 .. Len(rs)] :
           s = SortRules(rs) /\ Sorts(o, rs, s)
  <1>1. Len(rs) \in Nat /\ DOMAIN rs = 1 .. Len(rs)
    BY LenProperties
  <1>2. \A i \in 1 .. Len(rs) : rs[i] \in R
    BY <1>1, ElementOfSeq
  <1> DEFINE q == [i \in 1 .. Len(rs) |-> rs[i].priority]
  <1>3. PICK p \in [1 .. Len(rs) -> Int] : p = q
    <2>1. \A i \in 1 .. Len(rs) : rs[i].priority \in Int
      BY Zenon, <1>2 DEF Suitable
    <2> QED BY Zenon, <2>1
  <1>4. DOMAIN p = 1 .. Len(rs) /\ \A i \in 1 .. Len(rs) : p[i] = rs[i].priority
    BY Zenon, <1>3
  <1> HIDE DEF q
  <1>5. \A i \in 1 .. Len(rs) : Place(rs, i) = 1 + Cardinality(Ahead(p, i))
    <2> SUFFICES ASSUME NEW i \in 1 .. Len(rs)
                 PROVE  Place(rs, i) = 1 + Cardinality(Ahead(p, i))
      BY Zenon
    <2>1. \A j \in 1 .. Len(rs) : Prior(rs, j, i) <=> Before(p, j, i)
      BY Zenon, <1>4 DEF Prior, Before
    <2>2. {j \in DOMAIN rs : Prior(rs, j, i)} = Ahead(p, i)
      BY Zenon, <1>1, <1>4, <2>1 DEF Ahead
    <2>3. Place(rs, i) = 1 + Cardinality({j \in DOMAIN rs : Prior(rs, j, i)})
      BY Zenon DEF Place, Prior
    <2> QED BY Zenon, <2>3, <2>2
  <1>6. PICK o \in [1 .. Len(rs) -> 1 .. Len(rs)] :
          /\ \A i, n \in 1 .. Len(rs) : 1 + Cardinality(Ahead(p, i)) = n <=> i = o[n]
          /\ \A i \in 1 .. Len(rs) : \E n \in 1 .. Len(rs) : o[n] = i
          /\ \A n, k \in 1 .. Len(rs) : n < k => Before(p, o[n], o[k])
    BY Zenon, <1>1, PlacesTaken
  <1>7. \A n \in 1 .. Len(rs) : o[n] = CHOOSE i \in DOMAIN rs : Place(rs, i) = n
    <2> SUFFICES ASSUME NEW n \in 1 .. Len(rs)
                 PROVE  o[n] = CHOOSE i \in DOMAIN rs : Place(rs, i) = n
      BY Zenon
    <2>1. \A i \in DOMAIN rs : Place(rs, i) = n <=> i = o[n]
      BY Zenon, <1>1, <1>5, <1>6
    <2>2. o[n] \in DOMAIN rs
      BY Zenon, <1>1, <1>6
    <2> QED BY Zenon, <2>1, <2>2
  <1>8. PICK s : s = SortRules(rs)
    BY Zenon
  <1>9. \A n \in 1 .. Len(rs) : o[n] \in 1 .. Len(rs) /\ rs[o[n]] \in R
    BY Zenon, <1>2, <1>6
  <1>10. s \in [1 .. Len(rs) -> R] /\ \A n \in 1 .. Len(rs) : s[n] = rs[o[n]]
    <2>1. s = [n \in 1 .. Len(rs) |-> rs[CHOOSE i \in DOMAIN rs : Place(rs, i) = n]]
      BY Zenon, <1>1, <1>8 DEF SortRules
    <2> QED BY Zenon, <1>7, <1>9, <2>1
  <1>11. s \in Seq(R) /\ Len(s) = Len(rs)
    BY Zenon, <1>1, <1>10, FunctionIsSeq
  <1>12. ASSUME NEW n \in 1 .. Len(rs), NEW k \in 1 .. Len(rs), n < k
         PROVE  Prior(rs, o[n], o[k])
    <2>1. Before(p, o[n], o[k])
      BY Zenon, <1>6, <1>12
    <2>2. p[o[n]] = rs[o[n]].priority /\ p[o[k]] = rs[o[k]].priority
      BY Zenon, <1>4, <1>9
    <2> QED BY Zenon, <2>1, <2>2 DEF Before, Prior
  <1> QED BY Zenon, <1>6, <1>8, <1>10, <1>11, <1>12 DEF Sorts

Reasons == {"disabled", "window_not_started", "window_ended", "mutually_exclusive",
            "label_mismatch", "attribute_mismatch", "bucket_outside", "matched"}

\* While no experiment has been selected, the reason is a match if and only if
\* the rule applies, and it is not that of an experiment already selected.
LEMMA ReasonFacts ==
  ASSUME NEW R, Suitable(R), NEW r \in R, NEW subject, NEW now \in Nat, NEW X
  PROVE  /\ Reason(r, subject, now, X) \in Reasons
         /\ Reason(r, subject, now, X) = "bucket_outside" => ~ InShare(BucketOf(r, subject), r.percentage)
         /\ X = {} => /\ Reason(r, subject, now, X) = "matched" <=> Applies(r, subject, now)
                      /\ Reason(r, subject, now, X) # "mutually_exclusive"
  <1>1. PICK reason : reason = Reason(r, subject, now, X)
    BY Zenon
  <1> DEFINE early == r.starts # NoTime /\ now < r.starts
             late == r.ends # NoTime /\ now >= r.ends
             last == IF r.experiment # NoExperiment /\ r.experiment \in X
                     THEN "mutually_exclusive"
                     ELSE IF ~ Has(subject.labels, r.requiredLabels) THEN "label_mismatch"
                     ELSE IF ~ Has(subject.attributes, r.requiredAttributes)
                     THEN "attribute_mismatch"
                     ELSE IF ~ InShare(BucketOf(r, subject), r.percentage)
                     THEN "bucket_outside" ELSE "matched"
  <1>2. /\ ~ r.enabled => reason = "disabled"
        /\ r.enabled /\ early => reason = "window_not_started"
        /\ r.enabled /\ ~ early /\ late => reason = "window_ended"
        /\ r.enabled /\ ~ early /\ ~ late => reason = last
    BY Zenon, <1>1 DEF Reason
  <1>3. r.enabled \in BOOLEAN /\ r.starts \in Instant /\ r.ends \in Instant
    BY Zenon DEF Suitable
  <1>4. ~ early <=> r.starts = NoTime \/ r.starts <= now
    BY <1>3 DEF Instant
  <1>5. ~ late <=> r.ends = NoTime \/ now < r.ends
    BY <1>3 DEF Instant
  <1> HIDE DEF early, late
  <1>6. last \in Reasons
    BY Zenon DEF Reasons
  <1>7. ASSUME X = {}
        PROVE  /\ last = "matched" <=> /\ Has(subject.labels, r.requiredLabels)
                                       /\ Has(subject.attributes, r.requiredAttributes)
                                       /\ InShare(BucketOf(r, subject), r.percentage)
               /\ last # "mutually_exclusive"
    <2>1. r.experiment \notin X
      BY Zenon, <1>7
    <2>2. CASE ~ Has(subject.labels, r.requiredLabels)
      BY Zenon, <2>1, <2>2
    <2>3. CASE Has(subject.labels, r.requiredLabels) /\ ~ Has(subject.attributes, r.requiredAttributes)
      BY Zenon, <2>1, <2>3
    <2>4. CASE /\ Has(subject.labels, r.requiredLabels) /\ Has(subject.attributes, r.requiredAttributes)
               /\ ~ InShare(BucketOf(r, subject), r.percentage)
      BY Zenon, <2>1, <2>4
    <2>5. CASE /\ Has(subject.labels, r.requiredLabels) /\ Has(subject.attributes, r.requiredAttributes)
               /\ InShare(BucketOf(r, subject), r.percentage)
      BY Zenon, <2>1, <2>5
    <2> QED BY Zenon, <2>2, <2>3, <2>4, <2>5
  <1>8. last = "bucket_outside" => ~ InShare(BucketOf(r, subject), r.percentage)
    BY Zenon
  <1> HIDE DEF last
  <1>9. /\ "disabled" \in Reasons /\ "disabled" # "matched" /\ "disabled" # "mutually_exclusive"
        /\ "window_not_started" \in Reasons /\ "window_not_started" # "matched"
        /\ "window_not_started" # "mutually_exclusive"
        /\ "window_ended" \in Reasons /\ "window_ended" # "matched" /\ "window_ended" # "mutually_exclusive"
        /\ "disabled" # "bucket_outside" /\ "window_not_started" # "bucket_outside"
        /\ "window_ended" # "bucket_outside"
    BY Zenon DEF Reasons
  <1>10. reason \in Reasons
    BY Zenon, <1>2, <1>6, <1>9, <1>3
  <1>11. ASSUME X = {}
        PROVE  reason = "matched" <=> Applies(r, subject, now)
    BY Zenon, <1>2, <1>4, <1>5, <1>7, <1>9, <1>11, <1>3 DEF Applies
  <1>12. X = {} => reason # "mutually_exclusive"
    BY Zenon, <1>2, <1>7, <1>9, <1>3
  <1>13. reason = "bucket_outside" => ~ InShare(BucketOf(r, subject), r.percentage)
    BY Zenon, <1>2, <1>9, <1>3, <1>8
  <1> QED BY Zenon, <1>1, <1>10, <1>11, <1>12, <1>13

\* What Evaluate builds from the rules of R.
Id(R) == {r.id : r \in R} \cup {Empty}

Explanation(R) == [rule: Id(R), reason: Reasons]

Outcome(R) == [matched: BOOLEAN, rule: Id(R), explanations: Seq(Explanation(R)),
               experiments: SUBSET {r.experiment : r \in R}]

\* The explanation x is right for the rule r.
Explains(x, r, subject, now) == /\ x.rule = r.id
                                /\ x.reason = "matched" <=> Applies(r, subject, now)
                                /\ x.reason # "mutually_exclusive"
                                /\ x.reason = "bucket_outside" =>
                                     ~ InShare(BucketOf(r, subject), r.percentage)

\* One turn makes b of e: nothing changes after a match; before one, an
\* explanation is added and nothing else unless the rule applies.
Considered(b, e, R, r, subject, now) ==
  /\ e.matched => b = e
  /\ ~ e.matched /\ e.experiments = {} =>
       /\ b.matched <=> Applies(r, subject, now)
       /\ b.matched => b.rule = r.id
       /\ ~ b.matched => b.experiments = {}
       /\ \E x \in Explanation(R) : /\ Explains(x, r, subject, now)
                                    /\ b.explanations = Append(e.explanations, x)

\* That is what Consider does.
LEMMA ConsiderFacts ==
  ASSUME NEW R, Suitable(R), NEW e \in Outcome(R), NEW r \in R, NEW subject, NEW now \in Nat
  PROVE  \E b \in Outcome(R) : b = Consider(e, r, subject, now) /\ Considered(b, e, R, r, subject, now)
  <1>1. PICK reason \in Reasons :
          /\ reason = Reason(r, subject, now, e.experiments)
          /\ reason = "bucket_outside" => ~ InShare(BucketOf(r, subject), r.percentage)
          /\ e.experiments = {} => /\ reason = "matched" <=> Applies(r, subject, now)
                                   /\ reason # "mutually_exclusive"
    <2>1. /\ Reason(r, subject, now, e.experiments) \in Reasons
          /\ Reason(r, subject, now, e.experiments) = "bucket_outside" =>
               ~ InShare(BucketOf(r, subject), r.percentage)
          /\ e.experiments = {} =>
               /\ Reason(r, subject, now, e.experiments) = "matched" <=> Applies(r, subject, now)
               /\ Reason(r, subject, now, e.experiments) # "mutually_exclusive"
      BY Zenon, ReasonFacts
    <2> QED BY Zenon, <2>1
  <1>2. /\ e.matched \in BOOLEAN /\ e.rule \in Id(R) /\ e.explanations \in Seq(Explanation(R))
        /\ e.experiments \in SUBSET {q.experiment : q \in R}
    BY DEF Outcome
  <1>3. PICK c : c = Consider(e, r, subject, now)
    BY Zenon
  <1>4. CASE e.matched
    <2>1. c = e
      BY Zenon, <1>3, <1>4 DEF Consider
    <2> QED BY Zenon, <1>3, <1>4, <2>1 DEF Considered
  <1>5. CASE ~ e.matched
    <2> DEFINE x == [rule |-> r.id, reason |-> reason]
               X == IF reason = "matched" THEN e.experiments \cup {r.experiment} ELSE e.experiments
               id == IF reason = "matched" THEN r.id ELSE Empty
               hit == reason = "matched"
    <2>1. x \in Explanation(R) /\ x.rule = r.id /\ x.reason = reason
      <3>1. r.id \in Id(R)
        BY Zenon DEF Id
      <3> QED BY Zenon, <3>1 DEF Explanation
    <2>2. X \in SUBSET {q.experiment : q \in R} /\ id \in Id(R) /\ hit \in BOOLEAN
      BY Zenon, <1>2 DEF Id
    <2>3. (hit => id = r.id) /\ (~ hit => X = e.experiments)
      BY Zenon
    <2>4. c = [matched |-> hit, rule |-> id, explanations |-> Append(e.explanations, x),
               experiments |-> X]
      BY Zenon, <1>1, <1>3, <1>5 DEF Consider
    <2>5. hit <=> reason = "matched"
      BY Zenon
    <2> HIDE DEF x, X, id, hit
    <2>6. PICK es \in Seq(Explanation(R)) : es = Append(e.explanations, x)
      BY Zenon, <1>2, <2>1, AppendProperties
    <2>7. /\ c \in Outcome(R) /\ c.matched = hit /\ c.rule = id /\ c.explanations = es
          /\ c.experiments = X
      <3>1. c = [matched |-> hit, rule |-> id, explanations |-> es, experiments |-> X]
        BY Zenon, <2>4, <2>6
      <3> QED BY Zenon, <2>2, <3>1 DEF Outcome
    <2>8. ASSUME e.experiments = {}
          PROVE  /\ c.matched <=> Applies(r, subject, now)
                 /\ c.matched => c.rule = r.id
                 /\ ~ c.matched => c.experiments = {}
                 /\ \E y \in Explanation(R) : /\ Explains(y, r, subject, now)
                                              /\ c.explanations = Append(e.explanations, y)
      <3>1. Explains(x, r, subject, now)
        BY Zenon, <1>1, <2>1, <2>8 DEF Explains
      <3>2. (c.matched <=> Applies(r, subject, now)) /\ (c.matched => c.rule = r.id)
        BY Zenon, <1>1, <2>3, <2>5, <2>7, <2>8
      <3>3. ~ c.matched => c.experiments = {}
        BY Zenon, <2>3, <2>7, <2>8
      <3> QED BY Zenon, <2>1, <2>6, <2>7, <3>1, <3>2, <3>3
    <2> QED BY Zenon, <1>3, <1>5, <2>7, <2>8 DEF Considered
  <1> QED BY Zenon, <1>2, <1>4, <1>5

\* f is what the loop of Evaluate computes, turn by turn.
Evaluates(f, rs, subject, now) ==
  /\ Evaluate(rs, subject, now) = f[Len(rs)]
  /\ f[0] = NothingYet
  /\ \A n \in 1 .. Len(rs) : f[n] = Consider(f[n - 1], SortRules(rs)[n], subject, now)

\* There is one.
LEMMA EvaluateRuns ==
  ASSUME NEW R, Suitable(R), NEW rs \in Seq(R), NEW subject, NEW now \in Nat,
         SortRules(rs) \in Seq(R), Len(SortRules(rs)) = Len(rs)
  PROVE  \E f \in [0 .. Len(rs) -> Outcome(R)] : Evaluates(f, rs, subject, now)
  <1>1. PICK s \in Seq(R) : s = SortRules(rs) /\ Len(s) = Len(rs)
    BY Zenon
  <1> DEFINE Body(h) == [n \in 0 .. Len(rs) |->
                IF n = 0 THEN NothingYet ELSE Consider(h[n - 1], s[n], subject, now)]
             g == [p \in Outcome(R) \X (1 .. Len(rs)) |-> Consider(p[1], s[p[2]], subject, now)]
  <1>2. /\ Len(rs) \in Nat
        /\ \A n \in 1 .. Len(rs) : s[n] \in R
        /\ \A n \in 1 .. Len(rs) : n \in 0 .. Len(rs) /\ n - 1 \in 0 .. Len(rs) /\ n # 0
        /\ \A n \in 0 .. Len(rs) : n = 0 \/ n \in 1 .. Len(rs)
        /\ 0 \in 0 .. Len(rs) /\ Len(rs) \in 0 .. Len(rs)
    BY <1>1, LenProperties, ElementOfSeq
  <1>3. NothingYet \in Outcome(R)
    <2>1. <<>> \in Seq(Explanation(R))
      BY EmptySeq
    <2> QED BY Zenon, <2>1 DEF NothingYet, Outcome, Id
  <1>4. \A x \in Outcome(R), n \in 1 .. Len(rs) : Consider(x, s[n], subject, now) \in Outcome(R)
    <2>1. ASSUME NEW x \in Outcome(R), NEW r \in R
          PROVE  Consider(x, r, subject, now) \in Outcome(R)
      <3>1. PICK b \in Outcome(R) :
              b = Consider(x, r, subject, now) /\ Considered(b, x, R, r, subject, now)
        BY Zenon, ConsiderFacts
      <3> QED BY Zenon, <3>1
    <2> QED BY Zenon, <1>2, <2>1
  <1>5. g \in [Outcome(R) \X (1 .. Len(rs)) -> Outcome(R)]
    BY <1>4
  <1>6. \A x \in Outcome(R), n \in 1 .. Len(rs) : g[x, n] = Consider(x, s[n], subject, now)
    OBVIOUS
  <1> HIDE DEF g
  <1>7. PICK f \in [0 .. Len(rs) -> Outcome(R)] : Runs(f, NothingYet, g, Len(rs))
    BY Zenon, <1>2, <1>3, <1>5, LoopRuns
  <1>8. f = Body(f)
    <2>1. \A n \in 0 .. Len(rs) : f[n] = Body(f)[n]
      BY Zenon, <1>2, <1>6, <1>7 DEF Runs
    <2> QED BY Zenon, <1>7, <2>1
  <1>9. PICK h : h = CHOOSE x : x = Body(x)
    BY Zenon
  <1>10. Evaluate(rs, subject, now) = h[Len(rs)]
    BY Zenon, <1>9, <1>1 DEF Evaluate
  <1> HIDE DEF Body
  <1>11. h = Body(h)
    BY Zenon, <1>8, <1>9
  <1>12. /\ h = [n \in 0 .. Len(rs) |-> h[n]]
         /\ h[0] = NothingYet
         /\ \A n \in 1 .. Len(rs) : h[n] = Consider(h[n - 1], s[n], subject, now)
    BY Zenon, <1>2, <1>11 DEF Body
  <1>13. \A n \in 0 .. Len(rs) : h[n] \in Outcome(R)
    <2> DEFINE T == {k \in 0 .. Len(rs) : h[k] \in Outcome(R)}
    <2>1. 0 \in T
      BY Zenon, <1>2, <1>3, <1>12
    <2>2. \A n \in 1 .. Len(rs) : n - 1 \in T => n \in T
      BY Zenon, <1>2, <1>4, <1>12
    <2> HIDE DEF T
    <2>3. \A n \in 0 .. Len(rs) : n \in T
      BY Zenon, <1>2, <2>1, <2>2, EveryTurn
    <2> QED BY Zenon, <2>3 DEF T
  <1>14. h \in [0 .. Len(rs) -> Outcome(R)]
    BY Zenon, <1>12, <1>13
  <1> QED BY Zenon, <1>10, <1>12, <1>14, <1>1 DEF Evaluates

\* What is known after n turns over the sorted rules s: the explanations are
\* right, only the last can be that of a rule which applies, and the outcome is
\* a match if it is; without a match every rule considered has one.
Told(e, s, n, subject, now) ==
  LET k == Len(e.explanations)
  IN  /\ k <= n
      /\ \A j \in 1 .. k : Explains(e.explanations[j], s[j], subject, now)
      /\ \A j \in 1 .. k : Applies(s[j], subject, now) => e.matched /\ j = k
      /\ e.matched => k >= 1 /\ Applies(s[k], subject, now) /\ e.rule = s[k].id
      /\ ~ e.matched => k = n /\ e.experiments = {}

\* A turn keeps it.
LEMMA TurnTold ==
  ASSUME NEW R, Suitable(R), NEW e \in Outcome(R), NEW s \in Seq(R), NEW n \in 1 .. Len(s),
         NEW subject, NEW now \in Nat, Told(e, s, n - 1, subject, now)
  PROVE  Told(Consider(e, s[n], subject, now), s, n, subject, now)
  <1>1. PICK r \in R : r = s[n]
    BY Zenon, ElementOfSeq
  <1>2. PICK b \in Outcome(R) :
          b = Consider(e, r, subject, now) /\ Considered(b, e, R, r, subject, now)
    BY Zenon, ConsiderFacts
  <1>3. PICK es \in Seq(Explanation(R)) : es = e.explanations
    BY Zenon DEF Outcome
  <1>4. Len(es) \in Nat /\ Len(s) \in Nat /\ e.matched \in BOOLEAN /\ b.matched \in BOOLEAN
    BY Zenon, LenProperties DEF Outcome
  <1>5. n \in Int
    BY <1>4
  <1>6. SUFFICES Told(b, s, n, subject, now)
    BY Zenon, <1>1, <1>2
  <1>7. CASE e.matched
    <2>1. \A k \in Nat : k <= n - 1 => k <= n
      BY <1>5
    <2>2. b = e
      BY Zenon, <1>2, <1>7 DEF Considered
    <2> QED BY Zenon, <1>3, <1>4, <1>7, <2>1, <2>2 DEF Told
  <1>8. CASE ~ e.matched
    <2>1. Len(es) = n - 1 /\ e.experiments = {}
      BY Zenon, <1>3, <1>8 DEF Told
    <2>2. \A j \in 1 .. n - 1 : /\ Explains(es[j], s[j], subject, now)
                                /\ ~ Applies(s[j], subject, now)
      BY Zenon, <1>3, <1>8, <2>1 DEF Told
    <2>3. PICK x \in Explanation(R) : /\ Explains(x, r, subject, now)
                                      /\ b.explanations = Append(es, x)
      BY Zenon, <1>2, <1>3, <1>8, <2>1 DEF Considered
    <2>4. /\ Len(Append(es, x)) = Len(es) + 1
          /\ \A i \in 1 .. Len(es) : Append(es, x)[i] = es[i]
          /\ Append(es, x)[Len(es) + 1] = x
      BY AppendFacts
    <2>5. /\ (n - 1) + 1 = n /\ n <= n /\ n >= 1 /\ n \in 1 .. n
          /\ \A j \in 1 .. n : j \in 1 .. n - 1 \/ j = n
      BY <1>4
    <2>6. /\ Len(b.explanations) = n /\ b.explanations[n] = x
          /\ \A i \in 1 .. n - 1 : b.explanations[i] = es[i]
      BY Zenon, <2>1, <2>3, <2>4, <2>5
    <2>7. \A j \in 1 .. n : Explains(b.explanations[j], s[j], subject, now)
      BY Zenon, <1>1, <2>2, <2>3, <2>5, <2>6
    <2>8. /\ b.matched <=> Applies(s[n], subject, now)
          /\ b.matched => b.rule = s[n].id
          /\ ~ b.matched => b.experiments = {}
      BY Zenon, <1>1, <1>2, <1>8, <2>1 DEF Considered
    <2>9. \A j \in 1 .. n : Applies(s[j], subject, now) => b.matched /\ j = n
      BY Zenon, <2>2, <2>5, <2>8
    <2> QED BY Zenon, <1>4, <2>5, <2>6, <2>7, <2>8, <2>9 DEF Told
  <1> QED BY Zenon, <1>4, <1>7, <1>8

\* What Evaluate returns for rules in any number.
LEMMA EvaluateFacts ==
  ASSUME NEW R, Suitable(R), NEW rs \in Seq(R), NEW subject, NEW now \in Nat
  PROVE  \E e \in Outcome(R), s \in Seq(R), o \in [1 .. Len(rs) -> 1 .. Len(rs)] :
           /\ e = Evaluate(rs, subject, now)
           /\ Sorts(o, rs, s) /\ Told(e, s, Len(rs), subject, now)
  <1>1. PICK s \in Seq(R), o \in [1 .. Len(rs) -> 1 .. Len(rs)] :
          s = SortRules(rs) /\ Sorts(o, rs, s)
    BY Zenon, SortRulesFacts
  <1>2. Len(s) = Len(rs)
    BY Zenon, <1>1 DEF Sorts
  <1>3. PICK f \in [0 .. Len(rs) -> Outcome(R)] :
          /\ Evaluate(rs, subject, now) = f[Len(rs)]
          /\ f[0] = NothingYet
          /\ \A n \in 1 .. Len(rs) : f[n] = Consider(f[n - 1], s[n], subject, now)
    <2>1. SortRules(rs) \in Seq(R) /\ Len(SortRules(rs)) = Len(rs)
      BY Zenon, <1>1, <1>2
    <2>2. PICK f \in [0 .. Len(rs) -> Outcome(R)] : Evaluates(f, rs, subject, now)
      BY Zenon, <2>1, EvaluateRuns
    <2> QED BY Zenon, <1>1, <2>2 DEF Evaluates
  <1>4. /\ Len(rs) \in Nat /\ 0 \in 0 .. Len(rs) /\ Len(rs) \in 0 .. Len(rs)
        /\ \A n \in 1 .. Len(rs) : n \in 0 .. Len(rs) /\ n - 1 \in 0 .. Len(rs)
    BY LenProperties
  <1> DEFINE T == {n \in 0 .. Len(rs) : Told(f[n], s, n, subject, now)}
  <1>5. 0 \in T
    <2>1. Len(<<>>) = 0 /\ 0 <= 0 /\ 1 .. 0 = {}
      OBVIOUS
    <2>2. f[0].matched = FALSE /\ f[0].explanations = <<>> /\ f[0].experiments = {}
      <3>1. PICK z : z = NothingYet
        BY Zenon
      <3>2. z.matched = FALSE /\ z.explanations = <<>> /\ z.experiments = {}
        BY Zenon, <3>1 DEF NothingYet
      <3> QED BY Zenon, <1>3, <3>1, <3>2
    <2> QED BY Zenon, <1>4, <2>1, <2>2 DEF Told
  <1>6. ASSUME NEW n \in 1 .. Len(rs), n - 1 \in T
        PROVE  n \in T
    <2>1. PICK e \in Outcome(R) : e = f[n - 1] /\ Told(e, s, n - 1, subject, now)
      BY Zenon, <1>4, <1>6
    <2>2. n \in 1 .. Len(s)
      BY Zenon, <1>2
    <2>3. Told(Consider(e, s[n], subject, now), s, n, subject, now)
      BY Zenon, <2>1, <2>2, TurnTold
    <2> QED BY Zenon, <1>3, <1>4, <2>1, <2>3
  <1> HIDE DEF T
  <1>7. Len(rs) \in T
    BY Zenon, <1>4, <1>5, <1>6, EveryTurn
  <1> QED BY Zenon, <1>1, <1>3, <1>4, <1>7 DEF T

\* Evaluate finds a match if and only if a rule applies, and of the rules that
\* do it selects the first by priority.
LEMMA EvaluateChooses ==
  ASSUME NEW R, Suitable(R), NEW rs \in Seq(R), NEW subject, NEW now \in Nat
  PROVE  LET e == Evaluate(rs, subject, now)
         IN  /\ e.matched <=> \E i \in DOMAIN rs : Applies(rs[i], subject, now)
             /\ e.matched => \E i \in DOMAIN rs : rs[i].id = e.rule /\ Chosen(rs, i, subject, now)
  <1>1. PICK e \in Outcome(R), s \in Seq(R), o \in [1 .. Len(rs) -> 1 .. Len(rs)] :
          /\ e = Evaluate(rs, subject, now)
          /\ Sorts(o, rs, s) /\ Told(e, s, Len(rs), subject, now)
    BY Zenon, EvaluateFacts
  <1>2. PICK k \in Nat : k = Len(e.explanations)
    BY Zenon, LenProperties DEF Outcome
  <1>3. Len(rs) \in Nat /\ DOMAIN rs = 1 .. Len(rs) /\ e.matched \in BOOLEAN
    BY LenProperties DEF Outcome
  <1>4. \A n \in 1 .. Len(rs) : s[n] = rs[o[n]]
    BY Zenon, <1>1 DEF Sorts
  <1>5. \A i \in DOMAIN rs : \E n \in 1 .. Len(rs) : o[n] = i /\ s[n] = rs[i]
    <2>1. \A i \in DOMAIN rs : \E n \in 1 .. Len(rs) : o[n] = i
      BY Zenon, <1>1, <1>3 DEF Sorts
    <2> TAKE i \in DOMAIN rs
    <2>2. PICK n \in 1 .. Len(rs) : o[n] = i
      BY Zenon, <2>1
    <2>3. s[n] = rs[i]
      BY Zenon, <1>4, <2>2
    <2> QED BY Zenon, <2>2, <2>3
  <1>6. \A n, l \in 1 .. Len(rs) : n < l => Prior(rs, o[n], o[l])
    BY Zenon, <1>1, <1>3 DEF Sorts
  <1>7. ASSUME ~ e.matched, NEW i \in DOMAIN rs
        PROVE  ~ Applies(rs[i], subject, now)
    <2>1. k = Len(rs) /\ \A j \in 1 .. k : ~ Applies(s[j], subject, now)
      BY Zenon, <1>1, <1>2, <1>7 DEF Told
    <2>2. PICK n \in 1 .. Len(rs) : o[n] = i /\ s[n] = rs[i]
      BY Zenon, <1>5
    <2> QED BY Zenon, <2>1, <2>2
  <1>8. ASSUME e.matched
        PROVE  \E i \in DOMAIN rs : rs[i].id = e.rule /\ Chosen(rs, i, subject, now)
    <2>1. /\ k <= Len(rs) /\ k >= 1 /\ Applies(s[k], subject, now) /\ e.rule = s[k].id
          /\ \A j \in 1 .. k : Applies(s[j], subject, now) => j = k
      BY Zenon, <1>1, <1>2, <1>8 DEF Told
    <2>2. k \in 1 .. Len(rs)
      BY <1>3, <2>1
    <2>3. PICK i \in 1 .. Len(rs) : i = o[k] /\ s[k] = rs[i]
      BY Zenon, <1>4, <2>2
    <2>4. ASSUME NEW j \in DOMAIN rs \ {i}, Applies(rs[j], subject, now)
          PROVE  \/ rs[j].priority < rs[i].priority
                 \/ rs[j].priority = rs[i].priority /\ i < j
      <3>1. PICK n \in 1 .. Len(rs) : o[n] = j /\ s[n] = rs[j]
        BY Zenon, <1>5
      <3>2. n # k
        BY Zenon, <2>3, <3>1
      <3>3. n \notin 1 .. k
        BY Zenon, <2>1, <2>4, <3>1, <3>2
      <3>4. k < n
        BY <2>2, <3>2, <3>3
      <3>5. Prior(rs, i, j)
        BY Zenon, <1>6, <2>2, <2>3, <3>1, <3>4
      <3>6. rs[i] \in R /\ rs[j] \in R
        BY Zenon, <1>3, ElementOfSeq
      <3>7. rs[i].priority \in Int /\ rs[j].priority \in Int
        BY Zenon, <3>6 DEF Suitable
      <3>8. \A x, y \in Int : (x > y => y < x) /\ (x = y => y = x)
        OBVIOUS
      <3> QED BY Zenon, <3>5, <3>7, <3>8 DEF Prior
    <2>5. Chosen(rs, i, subject, now)
      BY Zenon, <2>1, <2>3, <2>4 DEF Chosen
    <2> QED BY Zenon, <1>3, <2>1, <2>3, <2>5
  <1> QED BY Zenon, <1>1, <1>3, <1>7, <1>8 DEF Chosen

\* The summaries say which rule was selected, the last if any, and have the
\* priorities in order if identifiers are distinct.
LEMMA SummariesFacts ==
  ASSUME NEW R, Suitable(R), NEW rs \in Seq(R), NEW subject, NEW now \in Nat
  PROVE  LET e == Evaluate(rs, subject, now)
             summaries == RuleSummaries(rs, e)
         IN  \A n \in DOMAIN summaries :
               /\ summaries[n].selected <=> e.matched /\ n = Len(summaries)
               /\ n > 1 /\ OneOfEach(rs) => summaries[n].priority <= summaries[n - 1].priority
               /\ e.explanations[n].reason # "mutually_exclusive"
  <1>1. PICK e \in Outcome(R), s \in Seq(R), o \in [1 .. Len(rs) -> 1 .. Len(rs)] :
          /\ e = Evaluate(rs, subject, now)
          /\ Sorts(o, rs, s) /\ Told(e, s, Len(rs), subject, now)
    BY Zenon, EvaluateFacts
  <1>2. PICK es \in Seq(Explanation(R)) : es = e.explanations
    BY Zenon DEF Outcome
  <1>3. PICK k \in Nat : k = Len(es) /\ DOMAIN es = 1 .. k
    BY LenProperties
  <1>4. Len(rs) \in Nat /\ DOMAIN rs = 1 .. Len(rs) /\ e.matched \in BOOLEAN
    BY LenProperties DEF Outcome
  <1>5. /\ k <= Len(rs)
        /\ \A j \in 1 .. k : Explains(es[j], s[j], subject, now)
        /\ \A j \in 1 .. k : Applies(s[j], subject, now) => e.matched /\ j = k
        /\ e.matched => Applies(s[k], subject, now)
    BY Zenon, <1>1, <1>2, <1>3 DEF Told
  <1>6. \A j \in 1 .. k : j \in 1 .. Len(rs)
    BY <1>4, <1>5
  <1>7. PICK z : z = RuleSummaries(rs, e)
    BY Zenon
  <1> DEFINE S == {z[n] : n \in 1 .. k}
  <1>8. /\ DOMAIN z = 1 .. k
        /\ \A n \in 1 .. k : /\ z[n].selected <=> es[n].reason = "matched"
                             /\ z[n].priority = FindRule(rs, es[n].rule).priority
    <2>1. z = [n \in 1 .. k |->
                 LET x == es[n]
                     r == FindRule(rs, x.rule)
                 IN  [rule |-> r.id, priority |-> r.priority, selected |-> x.reason = "matched",
                      windowActive |-> x.reason \notin {"window_not_started", "window_ended"}]]
      BY Zenon, <1>2, <1>3, <1>7 DEF RuleSummaries
    <2> QED BY Zenon, <2>1
  <1>9. Len(z) = k
    <2>1. z = [n \in 1 .. k |-> z[n]]
      BY Zenon, <1>3, <1>7 , <1>2 DEF RuleSummaries
    <2>2. z \in [1 .. k -> S]
      BY Zenon, <2>1
    <2> HIDE DEF S
    <2> QED BY Zenon, <2>2, FunctionIsSeq
  <1>10. ASSUME NEW n \in 1 .. k
         PROVE  /\ z[n].selected <=> e.matched /\ n = k
                /\ es[n].reason # "mutually_exclusive"
    BY Zenon, <1>5, <1>8 DEF Explains
  <1>11. ASSUME NEW n \in 1 .. k, OneOfEach(rs)
         PROVE  z[n].priority = rs[o[n]].priority
    <2>1. PICK i \in DOMAIN rs : i = o[n] /\ s[n] = rs[i]
      BY Zenon, <1>1, <1>4, <1>6 DEF Sorts
    <2>2. es[n].rule = rs[i].id
      BY Zenon, <1>5, <2>1 DEF Explains
    <2>3. {j \in DOMAIN rs : rs[j].id = es[n].rule} = {i}
      BY Zenon, <1>11, <2>2 DEF OneOfEach
    <2>4. Min({i}) = i
      <3>1. {i} \subseteq Nat /\ {i} # {}
        BY <1>4
      <3>2. Min({i}) \in {i}
        BY Zenon, <3>1, MinIsLeast
      <3> QED BY Zenon, <3>2
    <2>5. FindRule(rs, es[n].rule) = rs[i]
      BY Zenon, <2>3, <2>4 DEF FindRule
    <2> QED BY Zenon, <1>8, <2>1, <2>5
  <1>12. ASSUME NEW n \in 1 .. k, n > 1, OneOfEach(rs)
         PROVE  z[n].priority <= z[n - 1].priority
    <2>1. n - 1 \in 1 .. k /\ n - 1 < n
      BY <1>12
    <2>2. Prior(rs, o[n - 1], o[n])
      BY Zenon, <1>1, <1>6, <2>1 DEF Sorts
    <2>3. rs[o[n]] \in R /\ rs[o[n - 1]] \in R
      BY Zenon, <1>4, <1>6, <2>1, ElementOfSeq
    <2>4. PICK x \in Int, y \in Int : x = rs[o[n - 1]].priority /\ y = rs[o[n]].priority
      BY Zenon, <2>3 DEF Suitable
    <2>5. x > y \/ x = y
      BY Zenon, <2>2, <2>4 DEF Prior
    <2>6. y <= x
      BY <2>5
    <2> QED BY Zenon, <1>11, <1>12, <2>1, <2>4, <2>6
  <1> QED BY Zenon, <1>1, <1>2, <1>7, <1>8, <1>9, <1>10, <1>12

\* Evaluate selects the rule it should, whatever the number of rules.
THEOREM RulesAreChosen == Spec => []RuleChoice
  <1>1. Suitable(Rule)
    BY Zenon, RuleAssumption DEF Suitable
  <1>2. ASSUME InputOK
        PROVE  RuleChoice
    <2> SUFFICES ASSUME input.kind = "rules"
                 PROVE  LET rules == input.rules
                            e == Evaluate(rules, input.subject, at)
                            summaries == RuleSummaries(rules, e)
                        IN  /\ e.matched <=> \E i \in DOMAIN rules : Applies(rules[i], input.subject, at)
                            /\ e.matched => \E i \in DOMAIN rules :
                                              /\ rules[i].id = e.rule
                                              /\ Chosen(rules, i, input.subject, at)
                            /\ \A n \in DOMAIN summaries :
                                 /\ summaries[n].selected <=> e.matched /\ n = Len(summaries)
                                 /\ n > 1 /\ OneOfEach(rules) =>
                                      summaries[n].priority <= summaries[n - 1].priority
                                 /\ e.explanations[n].reason # "mutually_exclusive"
      BY Zenon DEF RuleChoice
    <2>1. PICK rs \in Seq(Rule) : rs = input.rules
      BY Zenon, <1>2 DEF InputOK
    <2>2. at \in Nat
      BY <1>2, TimeAssumption DEF InputOK
    <2>3. PICK subject : subject = input.subject
      BY Zenon
    <2>4. LET e == Evaluate(rs, subject, at)
          IN  /\ e.matched <=> \E i \in DOMAIN rs : Applies(rs[i], subject, at)
              /\ e.matched => \E i \in DOMAIN rs : rs[i].id = e.rule /\ Chosen(rs, i, subject, at)
      BY Zenon, <1>1, <2>2, EvaluateChooses
    <2>5. LET e == Evaluate(rs, subject, at)
              summaries == RuleSummaries(rs, e)
          IN  \A n \in DOMAIN summaries :
                /\ summaries[n].selected <=> e.matched /\ n = Len(summaries)
                /\ n > 1 /\ OneOfEach(rs) => summaries[n].priority <= summaries[n - 1].priority
                /\ e.explanations[n].reason # "mutually_exclusive"
      BY Zenon, <1>1, <2>2, SummariesFacts
    <2> QED BY Zenon, <2>1, <2>3, <2>4, <2>5
  <1> QED BY <1>2, InputOKInvariant, PTL

\* The rule r with another percentage.
Reshared(r, p) == [r EXCEPT !.percentage = p]

\* All else is as before.
LEMMA ResharedFacts ==
  ASSUME NEW r \in Rule, NEW p
  PROVE  LET q == Reshared(r, p)
         IN  /\ q.id = r.id /\ q.enabled = r.enabled /\ q.priority = r.priority
             /\ q.starts = r.starts /\ q.ends = r.ends /\ q.requiredLabels = r.requiredLabels
             /\ q.requiredAttributes = r.requiredAttributes /\ q.hashAttribute = r.hashAttribute
             /\ q.percentage = p
  <1>1. RuleField \subseteq DOMAIN r
    BY Zenon, RuleAssumption
  <1> DEFINE q == Reshared(r, p)
  <1>2. q.percentage = p
    BY Zenon, <1>1 DEF RuleField, Reshared
  <1>3. \A f \in RuleField : f # "percentage" => q[f] = r[f]
    BY Zenon, <1>1 DEF Reshared
  <1> HIDE DEF q
  <1>4. /\ q.id = r.id /\ q.enabled = r.enabled /\ q.priority = r.priority
        /\ q.starts = r.starts /\ q.ends = r.ends
    BY Zenon, <1>3 DEF RuleField
  <1>5. /\ q.requiredLabels = r.requiredLabels
        /\ q.requiredAttributes = r.requiredAttributes /\ q.hashAttribute = r.hashAttribute
    BY Zenon, <1>3 DEF RuleField
  <1> QED BY Zenon, <1>2, <1>4, <1>5 DEF q

\* The rules, and the rules with percentage p.
Resharing(p) == Rule \cup {Reshared(r, p) : r \in Rule}

\* They can be evaluated.
LEMMA ResharingSuitable ==
  ASSUME NEW p
  PROVE  Suitable(Rule) /\ Suitable(Resharing(p))
  <1>1. Suitable(Rule)
    BY Zenon, RuleAssumption DEF Suitable
  <1>2. ASSUME NEW r \in Rule
        PROVE  \E q : /\ q = Reshared(r, p)
                      /\ q.enabled \in BOOLEAN /\ q.priority \in Int
                      /\ q.starts \in Instant /\ q.ends \in Instant
    <2>1. PICK q : q = Reshared(r, p)
      BY Zenon
    <2>2. q.enabled = r.enabled /\ q.priority = r.priority /\ q.starts = r.starts /\ q.ends = r.ends
      BY ZenonT(40), <2>1, ResharedFacts
    <2> QED BY Zenon, <1>1, <2>1, <2>2 DEF Suitable
  <1>3. \A q \in Resharing(p) : q \in Rule \/ \E r \in Rule : q = Reshared(r, p)
    BY Zenon DEF Resharing
  <1> QED BY Zenon, <1>1, <1>2, <1>3 DEF Suitable

\* Whether a rule with another percentage applies: its bucket is the same.
LEMMA ResharedApplies ==
  ASSUME NEW r \in Rule, NEW p \in 0 .. Buckets, NEW subject \in Subject, NEW now
  PROVE  /\ BucketOf(Reshared(r, p), subject) = BucketOf(r, subject)
         /\ p >= r.percentage /\ Applies(r, subject, now) => Applies(Reshared(r, p), subject, now)
         /\ p = 0 => ~ Applies(Reshared(r, p), subject, now)
         /\ p = Buckets => InShare(BucketOf(r, subject), p)
  <1>1. PICK q : q = Reshared(r, p)
    BY Zenon
  <1>2. /\ q.id = r.id /\ q.enabled = r.enabled /\ q.priority = r.priority
        /\ q.starts = r.starts /\ q.ends = r.ends /\ q.requiredLabels = r.requiredLabels
        /\ q.requiredAttributes = r.requiredAttributes /\ q.hashAttribute = r.hashAttribute
        /\ q.percentage = p
    BY ZenonT(40), <1>1, ResharedFacts
  <1>3. BucketOf(q, subject) = BucketOf(r, subject)
    <2>1. Identity(q, subject) = Identity(r, subject)
      BY Zenon, <1>2 DEF Identity
    <2> QED BY Zenon, <1>2, <2>1 DEF BucketOf
  <1>4. PICK b \in 0 .. Buckets - 1 : b = BucketOf(r, subject)
    BY Zenon, RuleAssumption
  <1>5. PICK w \in 0 .. Buckets : w = r.percentage
    BY Zenon, RuleAssumption DEF ValidRule
  <1>6. /\ p >= w /\ b < w => b < p
        /\ p = 0 => ~ (b < p)
        /\ p = Buckets => b < p
    BY RuleAssumption
  <1>7. ASSUME p >= r.percentage, Applies(r, subject, now)
        PROVE  Applies(q, subject, now)
    <2>1. b < p
      BY Zenon, <1>4, <1>5, <1>6, <1>7 DEF Applies, InShare
    <2>2. InShare(BucketOf(q, subject), q.percentage)
      BY Zenon, <1>2, <1>3, <1>4, <2>1 DEF InShare
    <2> QED BY Zenon, <1>2, <1>7, <2>2 DEF Applies
  <1>8. p = 0 => ~ Applies(q, subject, now)
    BY Zenon, <1>2, <1>3, <1>4, <1>6 DEF Applies, InShare
  <1>9. p = Buckets => InShare(BucketOf(r, subject), p)
    BY Zenon, <1>4, <1>6 DEF InShare
  <1> QED BY Zenon, <1>1, <1>3, <1>7, <1>8, <1>9

\* In ns the i-th rule of rs has percentage p.
Reshares(ns, rs, i, p) ==
  /\ Len(ns) = Len(rs) /\ DOMAIN ns = DOMAIN rs
  /\ ns[i] = Reshared(rs[i], p) /\ \A j \in DOMAIN rs \ {i} : ns[j] = rs[j]

\* A list of rules with another percentage for one is a list of rules.
LEMMA ResharedRules ==
  ASSUME NEW rs \in Seq(Rule), NEW i \in DOMAIN rs, NEW p
  PROVE  \E ns \in Seq(Resharing(p)) :
           ns = [rs EXCEPT ![i].percentage = p] /\ Reshares(ns, rs, i, p)
  <1>1. Len(rs) \in Nat /\ DOMAIN rs = 1 .. Len(rs) /\ \A j \in 1 .. Len(rs) : rs[j] \in Rule
    BY LenProperties, ElementOfSeq
  <1>2. PICK ns : ns = [rs EXCEPT ![i].percentage = p]
    BY Zenon
  <1>3. ns = [j \in 1 .. Len(rs) |-> IF j = i THEN Reshared(rs[i], p) ELSE rs[j]]
    BY Zenon, <1>1, <1>2 DEF Reshared
  <1>4. ns[i] = Reshared(rs[i], p) /\ \A j \in DOMAIN rs \ {i} : ns[j] = rs[j]
    BY Zenon, <1>1, <1>3
  <1>5. ns \in [1 .. Len(rs) -> Resharing(p)]
    BY Zenon, <1>1, <1>3 DEF Resharing
  <1>6. ns \in Seq(Resharing(p)) /\ Len(ns) = Len(rs)
    BY Zenon, <1>1, <1>5, FunctionIsSeq
  <1> QED BY Zenon, <1>1, <1>2, <1>4, <1>5, <1>6 DEF Reshares

\* What a percentage does to a selection, whatever the number of rules.
LEMMA ResharedSelects ==
  ASSUME NEW rs \in Seq(Rule), NEW i \in DOMAIN rs, NEW p \in 0 .. Buckets,
         NEW subject \in Subject, NEW now \in Nat
  PROVE  LET e == Evaluate([rs EXCEPT ![i].percentage = p], subject, now)
         IN  /\ p >= rs[i].percentage => (Evaluate(rs, subject, now).matched => e.matched)
             /\ p = 0 /\ OneOfEach(rs) => ~ (e.matched /\ e.rule = rs[i].id)
             /\ p = Buckets /\ OneOfEach(rs) =>
                  \A n \in DOMAIN e.explanations :
                    e.explanations[n] # [rule |-> rs[i].id, reason |-> "bucket_outside"]
  <1>1. PICK ns \in Seq(Resharing(p)) :
           ns = [rs EXCEPT ![i].percentage = p] /\ Reshares(ns, rs, i, p)
    BY Zenon, ResharedRules
  <1>2. /\ Len(ns) = Len(rs) /\ DOMAIN ns = DOMAIN rs
        /\ ns[i] = Reshared(rs[i], p) /\ \A j \in DOMAIN rs \ {i} : ns[j] = rs[j]
    BY Zenon, <1>1 DEF Reshares
  <1>3. PICK R : R = Resharing(p)
    BY Zenon
  <1>4. Suitable(Rule) /\ Suitable(R) /\ ns \in Seq(R)
    BY Zenon, <1>3, ResharingSuitable
  <1>5. PICK r \in Rule : r = rs[i]
    BY ElementOfSeq
  <1>6. /\ BucketOf(ns[i], subject) = BucketOf(r, subject)
        /\ p >= r.percentage /\ Applies(r, subject, now) => Applies(ns[i], subject, now)
        /\ p = 0 => ~ Applies(ns[i], subject, now)
        /\ p = Buckets => InShare(BucketOf(r, subject), p)
    <2>1. /\ BucketOf(Reshared(r, p), subject) = BucketOf(r, subject)
          /\ p >= r.percentage /\ Applies(r, subject, now) => Applies(Reshared(r, p), subject, now)
          /\ p = 0 => ~ Applies(Reshared(r, p), subject, now)
          /\ p = Buckets => InShare(BucketOf(r, subject), p)
      BY Zenon, ResharedApplies
    <2> QED BY Zenon, <1>2, <1>5, <2>1
  <1>7. ns[i].id = r.id /\ ns[i].percentage = p
    <2>1. Reshared(r, p).id = r.id /\ Reshared(r, p).percentage = p
      BY Zenon, ResharedFacts
    <2> QED BY Zenon, <1>2, <1>5, <2>1
  <1>8. PICK e \in Outcome(R), s \in Seq(R), o \in [1 .. Len(ns) -> 1 .. Len(ns)] :
          /\ e = Evaluate(ns, subject, now)
          /\ Sorts(o, ns, s) /\ Told(e, s, Len(ns), subject, now)
    BY Zenon, <1>4, EvaluateFacts
  <1>9. /\ e.matched <=> \E j \in DOMAIN ns : Applies(ns[j], subject, now)
        /\ e.matched => \E j \in DOMAIN ns : ns[j].id = e.rule /\ Chosen(ns, j, subject, now)
    BY Zenon, <1>4, <1>8, EvaluateChooses
  <1>10. ASSUME p >= r.percentage, Evaluate(rs, subject, now).matched
        PROVE  e.matched
    <2>1. PICK j \in DOMAIN rs : Applies(rs[j], subject, now)
      BY Zenon, <1>4, <1>10, EvaluateChooses
    <2> QED BY Zenon, <1>2, <1>5, <1>6, <1>9, <1>10, <2>1
  <1>11. \A j \in DOMAIN rs : OneOfEach(rs) /\ ns[j].id = r.id => j = i
    BY Zenon, <1>2, <1>5 DEF OneOfEach
  <1>12. ASSUME p = 0, OneOfEach(rs)
         PROVE  ~ (e.matched /\ e.rule = r.id)
    <2>1. SUFFICES ASSUME e.matched, e.rule = r.id
                   PROVE  FALSE
      BY Zenon
    <2>2. PICK j \in DOMAIN rs : ns[j].id = r.id /\ Applies(ns[j], subject, now)
      BY Zenon, <1>2, <1>9, <2>1 DEF Chosen
    <2> QED BY Zenon, <1>6, <1>11, <1>12, <2>2
  <1>13. ASSUME p = Buckets, OneOfEach(rs), NEW n \in DOMAIN e.explanations,
                e.explanations[n] = [rule |-> r.id, reason |-> "bucket_outside"]
         PROVE  FALSE
    <2>1. PICK k \in Nat : k = Len(e.explanations) /\ DOMAIN e.explanations = 1 .. k
      <3>1. PICK es \in Seq(Explanation(R)) : es = e.explanations
        BY Zenon DEF Outcome
      <3>2. Len(es) \in Nat /\ DOMAIN es = 1 .. Len(es)
        BY LenProperties
      <3> QED BY Zenon, <3>1, <3>2
    <2>2. k <= Len(ns) /\ Len(ns) \in Nat
      BY Zenon, <1>8, <2>1, LenProperties DEF Told
    <2>3. n \in 1 .. Len(ns) /\ DOMAIN ns = 1 .. Len(ns)
      BY <2>1, <2>2, LenProperties
    <2>4. PICK x : x = e.explanations[n]
      BY Zenon
    <2>5. Explains(x, s[n], subject, now)
      <3>1. \A j \in 1 .. Len(e.explanations) : Explains(e.explanations[j], s[j], subject, now)
        BY Zenon, <1>8 DEF Told
      <3> QED BY Zenon, <1>13, <2>1, <2>4, <3>1
    <2>6. x.rule = r.id /\ x.reason = "bucket_outside"
      <3>1. x = [rule |-> r.id, reason |-> "bucket_outside"]
        BY Zenon, <1>13, <2>4
      <3> QED BY Zenon, <3>1
    <2>7. PICK j \in DOMAIN ns : s[n] = ns[j]
      BY Zenon, <1>8, <2>3 DEF Sorts
    <2>8. ns[j].id = r.id /\ ~ InShare(BucketOf(ns[j], subject), ns[j].percentage)
      BY Zenon, <2>5, <2>6, <2>7 DEF Explains
    <2>9. j = i
      BY ZenonT(40), <1>2, <1>11, <1>13, <2>8
    <2> QED BY Zenon, <1>6, <1>7, <1>13, <2>8, <2>9
  <1> QED BY Zenon, <1>5, <1>8, <1>10, <1>12, <1>13, <1>1

\* A greater percentage loses nobody, 0 selects nobody and 100 percent everybody.
THEOREM SharesDoGrow == Spec => []SharesGrow
  <1>1. ASSUME InputOK
        PROVE  SharesGrow
    <2>1. ASSUME input.kind = "rules", NEW i \in DOMAIN input.rules, NEW p \in 0 .. Buckets
          PROVE  LET r == input.rules[i]
                     e == Evaluate([input.rules EXCEPT ![i].percentage = p], input.subject, at)
                 IN  /\ p >= r.percentage =>
                          (Evaluate(input.rules, input.subject, at).matched => e.matched)
                     /\ p = 0 /\ OneOfEach(input.rules) => ~ (e.matched /\ e.rule = r.id)
                     /\ p = Buckets /\ OneOfEach(input.rules) =>
                          \A n \in DOMAIN e.explanations :
                            e.explanations[n] # [rule |-> r.id, reason |-> "bucket_outside"]
      <3>1. input.rules \in Seq(Rule) /\ input.subject \in Subject
        BY Zenon, <1>1, <2>1 DEF InputOK
      <3>2. at \in Nat
        BY <1>1, TimeAssumption DEF InputOK
      <3> QED BY Zenon, <3>1, <3>2, ResharedSelects
    <2> QED BY Zenon, <2>1 DEF SharesGrow
  <1> QED BY <1>1, InputOKInvariant, PTL

-----------------------------------------------------------------------------
(***************************************************************************)
(* Health.  A window holds the latest observations; failures add up.       *)
(***************************************************************************)

\* How many of n observations there is room for.
Fit(n, max) == IF n < max THEN n ELSE max

\* w holds the latest of the first n observations.
Latest(w, os, n, max) ==
  /\ Len(w) = Fit(n, max)
  /\ \A j \in 1 .. Fit(n, max) : w[j] = os[(n - Fit(n, max)) + j]

\* Recording the next observation, a valid one, keeps that so.
LEMMA RecordLatest ==
  ASSUME NEW S, NEW os \in Seq(S), NEW max \in Nat \ {0}, NEW n \in 1 .. Len(os),
         NEW w \in Seq(S), Latest(w, os, n - 1, max), ValidObservation(os[n])
  PROVE  Record(w, os[n], max) \in Seq(S) /\ Latest(Record(w, os[n], max), os, n, max)
  <1>1. PICK x \in S : x = os[n]
    BY Zenon, ElementOfSeq
  <1>2. PICK l \in Nat : l = Len(w) /\ n \in Nat /\ n >= 1
    BY LenProperties
  <1>3. l = Fit(n - 1, max) /\ \A j \in 1 .. l : w[j] = os[((n - 1) - l) + j]
    BY Zenon, <1>2 DEF Latest
  <1>4. CASE l >= max
    <2>1. l = max /\ Fit(n, max) = max /\ l # 0
      BY <1>2, <1>3, <1>4 DEF Fit
    <2>2. w # <<>>
      <3>1. Len(<<>>) = 0
        OBVIOUS
      <3> QED BY Zenon, <1>2, <2>1, <3>1
    <2>3. PICK t \in Seq(S) : /\ t = Tail(w) /\ Len(t) = l - 1
                              /\ \A i \in 1 .. l - 1 : t[i] = w[i + 1]
      <3>1. /\ Tail(w) \in Seq(S) /\ Len(Tail(w)) = Len(w) - 1
            /\ \A i \in 1 .. Len(Tail(w)) : Tail(w)[i] = w[i + 1]
        BY Zenon, <2>2, HeadTailProperties
      <3> QED BY Zenon, <1>2, <3>1
    <2>4. Record(w, os[n], max) = Append(t, x)
      BY Zenon, <1>1, <1>2, <1>4, <2>3 DEF Record
    <2>5. /\ Append(t, x) \in Seq(S) /\ Len(Append(t, x)) = Len(t) + 1
          /\ \A i \in 1 .. Len(t) : Append(t, x)[i] = t[i]
          /\ Append(t, x)[Len(t) + 1] = x
      BY AppendFacts
    <2>6. /\ (l - 1) + 1 = l /\ (n - l) + l = n
          /\ \A j \in 1 .. l : j \in 1 .. l - 1 \/ j = l
          /\ \A j \in 1 .. l - 1 : j + 1 \in 1 .. l /\ ((n - 1) - l) + (j + 1) = (n - l) + j
      BY <1>2
    <2>7. ASSUME NEW j \in 1 .. l
          PROVE  Append(t, x)[j] = os[(n - l) + j]
      <3>1. CASE j = l
        BY Zenon, <1>1, <2>3, <2>5, <2>6, <3>1
      <3>2. CASE j \in 1 .. l - 1
        <4>1. Append(t, x)[j] = w[j + 1]
          BY Zenon, <2>3, <2>5, <3>2
        <4>2. w[j + 1] = os[((n - 1) - l) + (j + 1)]
          BY Zenon, <1>3, <2>6, <3>2
        <4> QED BY Zenon, <2>6, <3>2, <4>1, <4>2
      <3> QED BY Zenon, <2>6, <3>1, <3>2
    <2>8. PICK z \in Seq(S) : z = Append(t, x) /\ Len(z) = l /\ \A j \in 1 .. l : z[j] = os[(n - l) + j]
      <3>1. Len(Append(t, x)) = l
        BY Zenon, <2>3, <2>5, <2>6
      <3> QED BY Zenon, <2>5, <2>7, <3>1
    <2>9. PICK f : f = Fit(n, max) /\ f = l
      BY Zenon, <2>1
    <2>10. Len(z) = f /\ \A j \in 1 .. f : z[j] = os[(n - f) + j]
      BY Zenon, <2>8, <2>9
    <2>11. Latest(z, os, n, max)
      BY Zenon, <2>9, <2>10 DEF Latest
    <2> QED BY Zenon, <2>4, <2>8, <2>11
  <1>5. CASE ~ (l >= max)
    <2>1. l = n - 1 /\ Fit(n, max) = n
      BY <1>2, <1>3, <1>5 DEF Fit
    <2>2. Record(w, os[n], max) = Append(w, x)
      BY Zenon, <1>1, <1>2, <1>5 DEF Record
    <2>3. /\ Append(w, x) \in Seq(S) /\ Len(Append(w, x)) = Len(w) + 1
          /\ \A i \in 1 .. Len(w) : Append(w, x)[i] = w[i]
          /\ Append(w, x)[Len(w) + 1] = x
      BY AppendFacts
    <2>4. /\ (n - 1) + 1 = n /\ (n - n) + n = n
          /\ \A j \in 1 .. n : j \in 1 .. n - 1 \/ j = n
          /\ \A j \in 1 .. n - 1 : ((n - 1) - (n - 1)) + j = (n - n) + j
      BY <1>2
    <2>5. ASSUME NEW j \in 1 .. n
          PROVE  Append(w, x)[j] = os[(n - n) + j]
      <3>1. CASE j = n
        BY Zenon, <1>1, <1>2, <2>1, <2>3, <2>4, <3>1
      <3>2. CASE j \in 1 .. n - 1
        <4>1. Append(w, x)[j] = w[j]
          BY Zenon, <1>2, <2>1, <2>3, <3>2
        <4> QED BY Zenon, <1>3, <2>1, <2>4, <3>2, <4>1
      <3> QED BY Zenon, <2>4, <3>1, <3>2
    <2>6. PICK z \in Seq(S) : z = Append(w, x) /\ Len(z) = n /\ \A j \in 1 .. n : z[j] = os[(n - n) + j]
      BY Zenon, <1>2, <2>1, <2>3, <2>4, <2>5
    <2>7. PICK f : f = Fit(n, max) /\ f = n
      BY Zenon, <2>1
    <2>8. Len(z) = f /\ \A j \in 1 .. f : z[j] = os[(n - f) + j]
      BY Zenon, <2>6, <2>7
    <2>9. Latest(z, os, n, max)
      BY Zenon, <2>7, <2>8 DEF Latest
    <2> QED BY Zenon, <2>2, <2>6, <2>9
  <1> QED BY Zenon, <1>4, <1>5

\* f is what the loop of Recorded computes, turn by turn.
Records(f, os, max) ==
  /\ Recorded(os, max) = f[Len(os)]
  /\ f[0] = <<>>
  /\ \A n \in 1 .. Len(os) : f[n] = Record(f[n - 1], os[n], max)

\* There is one.
LEMMA RecordedRuns ==
  ASSUME NEW S, NEW os \in Seq(S), NEW max \in Nat \ {0}
  PROVE  \E f \in [0 .. Len(os) -> Seq(S)] : Records(f, os, max)
  <1> DEFINE Body(h) == [n \in 0 .. Len(os) |->
                IF n = 0 THEN <<>> ELSE Record(h[n - 1], os[n], max)]
             g == [p \in Seq(S) \X (1 .. Len(os)) |-> Record(p[1], os[p[2]], max)]
  <1>1. /\ Len(os) \in Nat /\ <<>> \in Seq(S)
        /\ \A n \in 1 .. Len(os) : os[n] \in S
        /\ \A n \in 1 .. Len(os) : n \in 0 .. Len(os) /\ n - 1 \in 0 .. Len(os) /\ n # 0
        /\ \A n \in 0 .. Len(os) : n = 0 \/ n \in 1 .. Len(os)
        /\ 0 \in 0 .. Len(os) /\ Len(os) \in 0 .. Len(os)
    BY LenProperties, ElementOfSeq, EmptySeq
  <1>2. \A w \in Seq(S), n \in 1 .. Len(os) : Record(w, os[n], max) \in Seq(S)
    <2>1. ASSUME NEW w \in Seq(S), NEW x \in S
          PROVE  Record(w, x, max) \in Seq(S)
      <3>1. Len(w) >= max => w # <<>>
        BY LenProperties
      <3>2. Len(w) >= max => Tail(w) \in Seq(S)
        BY Zenon, <3>1, HeadTailProperties
      <3>3. \A v \in Seq(S) : Append(v, x) \in Seq(S)
        BY Zenon, AppendProperties
      <3> QED BY Zenon, <3>2, <3>3 DEF Record
    <2> QED BY Zenon, <1>1, <2>1
  <1>3. g \in [Seq(S) \X (1 .. Len(os)) -> Seq(S)]
    BY <1>2
  <1>4. \A w \in Seq(S), n \in 1 .. Len(os) : g[w, n] = Record(w, os[n], max)
    OBVIOUS
  <1> HIDE DEF g
  <1>5. PICK f \in [0 .. Len(os) -> Seq(S)] : Runs(f, <<>>, g, Len(os))
    BY Zenon, <1>1, <1>3, LoopRuns
  <1>6. f = Body(f)
    <2>1. \A n \in 0 .. Len(os) : f[n] = Body(f)[n]
      BY Zenon, <1>1, <1>4, <1>5 DEF Runs
    <2> QED BY Zenon, <1>5, <2>1
  <1>7. PICK h : h = CHOOSE x : x = Body(x)
    BY Zenon
  <1>8. Recorded(os, max) = h[Len(os)]
    BY Zenon, <1>7 DEF Recorded
  <1> HIDE DEF Body
  <1>9. h = Body(h)
    BY Zenon, <1>6, <1>7
  <1>10. /\ h = [n \in 0 .. Len(os) |-> h[n]]
         /\ h[0] = <<>>
         /\ \A n \in 1 .. Len(os) : h[n] = Record(h[n - 1], os[n], max)
    BY Zenon, <1>1, <1>9 DEF Body
  <1>11. \A n \in 0 .. Len(os) : h[n] \in Seq(S)
    <2> DEFINE T == {k \in 0 .. Len(os) : h[k] \in Seq(S)}
    <2>1. 0 \in T
      BY Zenon, <1>1, <1>10
    <2>2. \A n \in 1 .. Len(os) : n - 1 \in T => n \in T
      BY Zenon, <1>1, <1>2, <1>10
    <2> HIDE DEF T
    <2>3. \A n \in 0 .. Len(os) : n \in T
      BY Zenon, <1>1, <2>1, <2>2, EveryTurn
    <2> QED BY Zenon, <2>3 DEF T
  <1>12. h \in [0 .. Len(os) -> Seq(S)]
    BY Zenon, <1>10, <1>11
  <1> QED BY Zenon, <1>8, <1>10, <1>12 DEF Records

\* A part of a sequence, element by element.
LEMMA SubSeqFacts ==
  ASSUME NEW S, NEW s \in Seq(S), NEW a \in 1 .. Len(s) + 1, NEW b \in a - 1 .. Len(s)
  PROVE  /\ SubSeq(s, a, b) \in Seq(S)
         /\ Len(SubSeq(s, a, b)) = (b - a) + 1
         /\ \A j \in 1 .. (b - a) + 1 : SubSeq(s, a, b)[j] = s[(a - 1) + j]
  OBVIOUS

\* The arithmetic of the latest of n.
LEMMA FitFacts ==
  ASSUME NEW n \in Nat, NEW max \in Nat \ {0}
  PROVE  \E a \in 1 .. n + 1, c \in Nat :
           /\ a = IF n > max THEN n - max + 1 ELSE 1
           /\ c = Fit(n, max) /\ n \in a - 1 .. n
           /\ (n - a) + 1 = c /\ a - 1 = n - c
  BY DEF Fit

\* What Record makes of a window that holds the latest of p: a refused observation
\* changes nothing, a valid one is the next.
LEMMA RecordNext ==
  ASSUME NEW S, NEW p \in Seq(S), NEW x \in S, NEW max \in Nat \ {0}, NEW w \in Seq(S),
         Latest(w, p, Len(p), max)
  PROVE  /\ ~ ValidObservation(x) => Record(w, x, max) = w
         /\ ValidObservation(x) =>
              Latest(Record(w, x, max), Append(p, x), Len(Append(p, x)), max)
  <1>1. ~ ValidObservation(x) => Record(w, x, max) = w
    BY Zenon DEF Record
  <1>2. ASSUME ValidObservation(x)
        PROVE  Latest(Record(w, x, max), Append(p, x), Len(Append(p, x)), max)
    <2>1. PICK q \in Seq(S) : /\ q = Append(p, x) /\ Len(q) = Len(p) + 1 /\ q[Len(p) + 1] = x
                              /\ \A i \in 1 .. Len(p) : q[i] = p[i]
      <3>1. /\ Append(p, x) \in Seq(S) /\ Len(Append(p, x)) = Len(p) + 1
            /\ \A i \in 1 .. Len(p) : Append(p, x)[i] = p[i]
            /\ Append(p, x)[Len(p) + 1] = x
        BY AppendFacts
      <3> QED BY Zenon, <3>1
    <2>2. PICK n \in 1 .. Len(q) : n = Len(q) /\ n - 1 = Len(p) /\ q[n] = x /\ n - 1 \in Nat
      <3>1. Len(p) \in Nat
        BY LenProperties
      <3>2. Len(q) \in 1 .. Len(q) /\ Len(q) - 1 = Len(p)
        BY <2>1, <3>1
      <3> QED BY Zenon, <2>1, <3>1, <3>2
    <2>3. PICK f \in 0 .. n - 1 : f = Fit(n - 1, max)
      BY <2>2 DEF Fit
    <2>4. Len(w) = f /\ \A j \in 1 .. f : w[j] = p[((n - 1) - f) + j]
      BY Zenon, <2>2, <2>3 DEF Latest
    <2>5. \A j \in 1 .. f : ((n - 1) - f) + j \in 1 .. n - 1
      BY <2>2, <2>3
    <2>6. \A j \in 1 .. f : w[j] = q[((n - 1) - f) + j]
      BY Zenon, <2>1, <2>2, <2>4, <2>5
    <2>7. Latest(w, q, n - 1, max)
      BY Zenon, <2>3, <2>4, <2>6 DEF Latest
    <2>8. Latest(Record(w, q[n], max), q, n, max)
      BY Zenon, <1>2, <2>2, <2>7, RecordLatest
    <2> QED BY Zenon, <2>1, <2>2, <2>8
  <1> QED BY Zenon, <1>1, <1>2

\* p is what the loop of Accepted computes, turn by turn.
Accepts(p, os) ==
  /\ Accepted(os) = p[Len(os)]
  /\ p[0] = <<>>
  /\ \A n \in 1 .. Len(os) : p[n] = IF ValidObservation(os[n]) THEN Append(p[n - 1], os[n])
                                                             ELSE p[n - 1]

\* There is one.
LEMMA AcceptedRuns ==
  ASSUME NEW S, NEW os \in Seq(S)
  PROVE  \E p \in [0 .. Len(os) -> Seq(S)] : Accepts(p, os)
  <1> DEFINE I == {i \in DOMAIN os : ValidObservation(os[i])}
  <1>1. \A n \in 1 .. Len(os) : n \in I <=> ValidObservation(os[n])
    BY LenProperties
  <1>2. Accepted(os) = Picked(os, I)
    BY Zenon DEF Accepted
  <1> HIDE DEF I
  <1>3. PICK f \in [0 .. Len(os) -> Seq(S)] : Picks(f, os, I)
    BY Zenon, PickedRuns
  <1>4. \A n \in 1 .. Len(os) : f[n] = IF ValidObservation(os[n]) THEN Append(f[n - 1], os[n])
                                                                ELSE f[n - 1]
    BY Zenon, <1>1, <1>3 DEF Picks
  <1> QED BY Zenon, <1>2, <1>3, <1>4 DEF Accepts, Picks

\* After any number of observations the window holds the latest of the valid ones.
LEMMA RecordedHolds ==
  ASSUME NEW S, NEW os \in Seq(S), NEW max \in Nat \ {0}
  PROVE  /\ Recorded(os, max) \in Seq(S) /\ Accepted(os) \in Seq(S)
         /\ Latest(Recorded(os, max), Accepted(os), Len(Accepted(os)), max)
  <1>1. PICK f \in [0 .. Len(os) -> Seq(S)] : Records(f, os, max)
    BY Zenon, RecordedRuns
  <1>2. PICK p \in [0 .. Len(os) -> Seq(S)] : Accepts(p, os)
    BY Zenon, AcceptedRuns
  <1>3. /\ Len(os) \in Nat /\ 0 \in 0 .. Len(os) /\ Len(os) \in 0 .. Len(os)
        /\ \A n \in 1 .. Len(os) : n \in 0 .. Len(os) /\ n - 1 \in 0 .. Len(os)
        /\ \A n \in 1 .. Len(os) : os[n] \in S
    BY LenProperties, ElementOfSeq
  <1> DEFINE T == {n \in 0 .. Len(os) : Latest(f[n], p[n], Len(p[n]), max)}
  <1>4. 0 \in T
    <2>1. Fit(0, max) = 0 /\ Len(<<>>) = 0 /\ 1 .. 0 = {}
      BY DEF Fit
    <2>2. f[0] = <<>> /\ p[0] = <<>>
      BY Zenon, <1>1, <1>2 DEF Records, Accepts
    <2> QED BY Zenon, <1>3, <2>1, <2>2 DEF Latest
  <1>5. ASSUME NEW n \in 1 .. Len(os), n - 1 \in T
        PROVE  n \in T
    <2>1. PICK w \in Seq(S), q \in Seq(S), x \in S :
            w = f[n - 1] /\ q = p[n - 1] /\ x = os[n] /\ Latest(w, q, Len(q), max)
      BY Zenon, <1>3, <1>5
    <2>2. /\ f[n] = Record(w, x, max)
          /\ p[n] = IF ValidObservation(x) THEN Append(q, x) ELSE q
      BY Zenon, <1>1, <1>2, <2>1 DEF Records, Accepts
    <2>3. /\ ~ ValidObservation(x) => Record(w, x, max) = w
          /\ ValidObservation(x) => Latest(Record(w, x, max), Append(q, x), Len(Append(q, x)), max)
      BY Zenon, <2>1, RecordNext
    <2>4. Latest(f[n], p[n], Len(p[n]), max)
      BY Zenon, <2>1, <2>2, <2>3
    <2> QED BY Zenon, <1>3, <2>4
  <1> HIDE DEF T
  <1>6. Len(os) \in T
    BY Zenon, <1>3, <1>4, <1>5, EveryTurn
  <1> QED BY Zenon, <1>1, <1>2, <1>3, <1>6 DEF Records, Accepts, T

\* A window of any size keeps the latest of any number of valid observations.
LEMMA RecordedLatest ==
  ASSUME NEW S, NEW all \in Seq(S), NEW max \in Nat \ {0}
  PROVE  LET os == Accepted(all)
         IN  Recorded(all, max) = SubSeq(os, IF Len(os) > max THEN Len(os) - max + 1 ELSE 1, Len(os))
  <1>1. PICK os \in Seq(S) : os = Accepted(all)
    BY Zenon, RecordedHolds
  <1>2. PICK n \in Nat : n = Len(os)
    BY LenProperties
  <1>3. PICK w \in Seq(S) : w = Recorded(all, max) /\ Latest(w, os, n, max)
    BY Zenon, <1>1, <1>2, RecordedHolds
  <1>4. PICK a \in 1 .. n + 1, c \in Nat :
          /\ a = IF n > max THEN n - max + 1 ELSE 1
          /\ c = Fit(n, max) /\ n \in a - 1 .. n
          /\ (n - a) + 1 = c /\ a - 1 = n - c
    BY Zenon, FitFacts
  <1>5. Len(w) = c /\ \A j \in 1 .. c : w[j] = os[(n - c) + j]
    <2>1. /\ Len(w) = Fit(n, max)
          /\ \A j \in 1 .. Fit(n, max) : w[j] = os[(n - Fit(n, max)) + j]
      BY Zenon, <1>3 DEF Latest
    <2> QED BY Zenon, <1>4, <2>1
  <1>6. a \in 1 .. Len(os) + 1 /\ n \in a - 1 .. Len(os)
    BY Zenon, <1>2, <1>4
  <1>7. /\ SubSeq(os, a, n) \in Seq(S)
         /\ Len(SubSeq(os, a, n)) = (n - a) + 1
         /\ \A j \in 1 .. (n - a) + 1 : SubSeq(os, a, n)[j] = os[(a - 1) + j]
    BY ZenonT(40), <1>6, SubSeqFacts
  <1>8. PICK t \in Seq(S) : /\ t = SubSeq(os, a, n) /\ Len(t) = c
                             /\ \A j \in 1 .. c : t[j] = os[(n - c) + j]
    <2>1. PICK t \in Seq(S) : /\ t = SubSeq(os, a, n) /\ Len(t) = (n - a) + 1
                              /\ \A j \in 1 .. (n - a) + 1 : t[j] = os[(a - 1) + j]
      BY Zenon, <1>7
    <2>2. Len(t) = c /\ \A j \in 1 .. c : t[j] = os[(n - c) + j]
      BY Zenon, <1>4, <2>1
    <2> QED BY Zenon, <2>1, <2>2
  <1>9. w = t
    BY Zenon, <1>5, <1>8, SeqEqual
  <1> QED BY Zenon, <1>1, <1>2, <1>3, <1>4, <1>8, <1>9

\* The indices of the failures from the first to the last of a range.
Failing(os, first, last) == {i \in first .. last : ~ os[i].success}

\* How they are counted: there are no more than indices, those of two adjacent
\* ranges add up, and those of a part are those of the whole, shifted.
LEMMA FailingFacts ==
  ASSUME NEW os, NEW m \in Nat, NEW n \in 0 .. m
  PROVE  /\ IsFiniteSet(Failing(os, 1, m)) /\ Cardinality(Failing(os, 1, m)) \in 0 .. m
         /\ Cardinality(Failing(os, 1, m))
              = Cardinality(Failing(os, 1, n)) + Cardinality(Failing(os, n + 1, m))
         /\ Cardinality(Failing(os, n + 1, m)) \in Nat
  <1>1. IsFiniteSet(1 .. m) /\ Cardinality(1 .. m) = m
    BY FS_Interval
  <1>2. \A T \in SUBSET (1 .. m) : IsFiniteSet(T) /\ Cardinality(T) <= Cardinality(1 .. m) /\ Cardinality(T) \in Nat
    BY Zenon, <1>1, FS_Subset, FS_CardinalityType
  <1> DEFINE A == Failing(os, 1, n)
             B == Failing(os, n + 1, m)
  <1>3. /\ \A i \in 1 .. n : i \in 1 .. m /\ i \notin n + 1 .. m
        /\ \A i \in n + 1 .. m : i \in 1 .. m
        /\ \A i \in 1 .. m : i \in 1 .. n \/ i \in n + 1 .. m
    OBVIOUS
  <1>4. /\ Failing(os, 1, m) \in SUBSET (1 .. m) /\ A \in SUBSET (1 .. m) /\ B \in SUBSET (1 .. m)
    BY Zenon, <1>3 DEF Failing
  <1>5. Failing(os, 1, m) = A \cup B /\ A \cap B = {}
    BY Zenon, <1>3 DEF Failing
  <1> HIDE DEF A, B
  <1>6. PICK a \in Nat, b \in Nat, c \in Nat :
          /\ a = Cardinality(A) /\ b = Cardinality(B) /\ c = Cardinality(Failing(os, 1, m)) /\ c <= m
    BY Zenon, <1>1, <1>2, <1>4
  <1>7. Cardinality(A \cup B) = Cardinality(A) + Cardinality(B) - Cardinality(A \cap B)
    BY Zenon, <1>2, <1>4, FS_Union
  <1>8. Cardinality(A \cap B) = 0
    BY Zenon, <1>5, FS_EmptySet
  <1>9. c = a + b - 0
    BY Zenon, <1>5, <1>6, <1>7, <1>8
  <1>10. c = a + b /\ c \in 0 .. m
    BY <1>6, <1>9
  <1> QED BY Zenon, <1>2, <1>4, <1>6, <1>10 DEF A, B

\* The failures of a part.
LEMMA FailuresOfPart ==
  ASSUME NEW S, NEW os \in Seq(S), NEW a \in 1 .. Len(os) + 1, NEW b \in a - 1 .. Len(os)
  PROVE  Failures(SubSeq(os, a, b)) = Cardinality(Failing(os, a, b))
  <1>1. PICK t \in Seq(S) : /\ t = SubSeq(os, a, b) /\ Len(t) = (b - a) + 1
                            /\ \A j \in 1 .. (b - a) + 1 : t[j] = os[(a - 1) + j]
    <2>1. /\ SubSeq(os, a, b) \in Seq(S)
          /\ Len(SubSeq(os, a, b)) = (b - a) + 1
          /\ \A j \in 1 .. (b - a) + 1 : SubSeq(os, a, b)[j] = os[(a - 1) + j]
      BY Zenon, SubSeqFacts
    <2> QED BY Zenon, <2>1
  <1>2. DOMAIN t = 1 .. Len(t) /\ Len(os) \in Nat
    BY LenProperties
  <1>3. PICK m \in Nat : m = (b - a) + 1
    BY <1>2
  <1> DEFINE F == {i \in 1 .. m : ~ t[i].success}
             G == Failing(os, a, b)
             h == [i \in F |-> (a - 1) + i]
  <1>4. Failures(t) = Cardinality(F)
    BY Zenon, <1>1, <1>2, <1>3 DEF Failures
  <1>5. /\ \A i \in 1 .. m : (a - 1) + i \in a .. b
        /\ \A i, j \in 1 .. m : (a - 1) + i = (a - 1) + j => i = j
        /\ \A k \in a .. b : \E i \in 1 .. m : k = (a - 1) + i
    <2>1. \A i \in 1 .. m : (a - 1) + i \in a .. b
      BY <1>2, <1>3
    <2>2. \A i, j \in 1 .. m : (a - 1) + i = (a - 1) + j => i = j
      BY <1>2, <1>3
    <2>3. ASSUME NEW k \in a .. b
          PROVE  \E i \in 1 .. m : k = (a - 1) + i
      <3>1. k - (a - 1) \in 1 .. m /\ k = (a - 1) + (k - (a - 1))
        BY <1>2, <1>3
      <3> QED BY Zenon, <3>1
    <2> QED BY Zenon, <2>1, <2>2, <2>3
  <1>6. \A i \in 1 .. m : t[i] = os[(a - 1) + i]
    BY Zenon, <1>1, <1>3
  <1>7. h \in [F -> G]
    BY Zenon, <1>5, <1>6 DEF Failing
  <1>8. \A k \in G : \E i \in F : h[i] = k
    BY Zenon, <1>5, <1>6 DEF Failing
  <1>9. \A i, j \in F : h[i] = h[j] => i = j
    BY Zenon, <1>5
  <1>10. IsFiniteSet(F)
    <2>1. IsFiniteSet(1 .. m)
      BY FS_Interval
    <2>2. F \in SUBSET (1 .. m)
      BY Zenon
    <2> QED BY Zenon, <2>1, <2>2, FS_Subset
  <1> HIDE DEF h, F, G
  <1>11. h \in Bijection(F, G)
    BY Zenon, <1>7, <1>8, <1>9 DEF Bijection, Injection, IsInjective, Surjection
  <1>12. Cardinality(G) = Cardinality(F)
    <2>1. ExistsBijection(F, G)
      BY Zenon, <1>11 DEF ExistsBijection
    <2> QED BY Zenon, <1>10, <2>1, FS_Bijection
  <1> QED BY Zenon, <1>1, <1>4, <1>12 DEF G

\* The failures of two parts of a sequence add up to its own.
LEMMA FailuresAddUp ==
  ASSUME NEW S, NEW os \in Seq(S), NEW n \in 0 .. Len(os)
  PROVE  /\ Failures(os) \in 0 .. Len(os)
         /\ Failures(SubSeq(os, 1, n)) \in 0 .. n
         /\ Failures(SubSeq(os, n + 1, Len(os))) \in 0 .. Len(os) - n
         /\ Failures(os) = Failures(SubSeq(os, 1, n)) + Failures(SubSeq(os, n + 1, Len(os)))
  <1>1. PICK m \in Nat : m = Len(os) /\ DOMAIN os = 1 .. m
    BY LenProperties
  <1>2. n \in 0 .. m /\ n \in Nat /\ n \in 0 .. n
    BY <1>1
  <1>3. Failures(os) = Cardinality(Failing(os, 1, m))
    BY Zenon, <1>1 DEF Failures, Failing
  <1>4. /\ 1 \in 1 .. Len(os) + 1 /\ n \in 1 - 1 .. Len(os)
        /\ n + 1 \in 1 .. Len(os) + 1 /\ Len(os) \in (n + 1) - 1 .. Len(os)
    BY <1>1
  <1>5. Failures(SubSeq(os, 1, n)) = Cardinality(Failing(os, 1, n))
    BY Zenon, <1>4, FailuresOfPart
  <1>6. Failures(SubSeq(os, n + 1, Len(os))) = Cardinality(Failing(os, n + 1, m))
    BY Zenon, <1>1, <1>4, FailuresOfPart
  <1>7. /\ Cardinality(Failing(os, 1, m)) \in 0 .. m
        /\ Cardinality(Failing(os, 1, m))
             = Cardinality(Failing(os, 1, n)) + Cardinality(Failing(os, n + 1, m))
    BY Zenon, <1>2, FailingFacts
  <1>8. Cardinality(Failing(os, 1, n)) \in 0 .. n
    BY Zenon, <1>2, FailingFacts
  <1>9. Cardinality(Failing(os, n + 1, m)) \in 0 .. m - n
    <2>1. IsFiniteSet(n + 1 .. m) /\ Cardinality(n + 1 .. m) = m - n
      <3>1. PICK k \in Int : k = n + 1 /\ (k > m => m - n = 0) /\ (~ (k > m) => m - k + 1 = m - n)
        BY <1>2
      <3>2. IsFiniteSet(k .. m) /\ Cardinality(k .. m) = IF k > m THEN 0 ELSE m - k + 1
        BY FS_Interval
      <3> QED BY Zenon, <3>1, <3>2
    <2>2. Failing(os, n + 1, m) \in SUBSET (n + 1 .. m)
      BY Zenon DEF Failing
    <2>3. PICK c \in Nat : c = Cardinality(Failing(os, n + 1, m)) /\ c <= Cardinality(n + 1 .. m)
      BY Zenon, <2>1, <2>2, FS_Subset, FS_CardinalityType
    <2>4. c \in 0 .. m - n
      BY <1>2, <2>1, <2>3
    <2> QED BY Zenon, <2>3, <2>4
  <1> QED BY Zenon, <1>1, <1>3, <1>5, <1>6, <1>7, <1>8, <1>9

\* The total of two.
LEMMA TotalOfTwo ==
  ASSUME NEW x \in Nat, NEW y \in Nat, NEW s \in Seq(Nat), Len(s) = 2, s[1] = x, s[2] = y
  PROVE  Total(s) = x + y
  <1>1. PICK f \in [0 .. Len(s) -> Nat] :
          /\ Total(s) = f[Len(s)] /\ f[0] = 0
          /\ \A n \in 1 .. Len(s) : f[n] = f[n - 1] + s[n]
    BY Zenon, TotalRuns
  <1>2. 1 \in 1 .. 2 /\ 2 \in 1 .. 2 /\ 1 - 1 = 0 /\ 2 - 1 = 1
    OBVIOUS
  <1>3. f[1] = 0 + x /\ f[2] = f[1] + y
    BY Zenon, <1>1, <1>2
  <1>4. 0 + x = x
    OBVIOUS
  <1> QED BY Zenon, <1>1, <1>3, <1>4

\* Two valid gates are combined by addition.
LEMMA TwoGates ==
  ASSUME NEW n \in Nat \ {0}, NEW f \in 0 .. n, NEW m \in Nat \ {0}, NEW g \in 0 .. m
  PROVE  AggregateHealth(<<[samples |-> n, failures |-> f], [samples |-> m, failures |-> g]>>)
           = [samples |-> n + m, failures |-> f + g]
  <1>1. PICK a, b : a = [samples |-> n, failures |-> f] /\ b = [samples |-> m, failures |-> g]
    BY Zenon
  <1>2. a.samples = n /\ a.failures = f /\ b.samples = m /\ b.failures = g
    BY Zenon, <1>1
  <1>3. PICK gates : gates = <<a, b>> /\ DOMAIN gates = 1 .. 2 /\ gates[1] = a /\ gates[2] = b /\ gates # <<>>
    <2>1. DOMAIN <<a, b>> = 1 .. 2
      OBVIOUS
    <2>2. <<a, b>>[1] = a /\ <<a, b>>[2] = b
      OBVIOUS
    <2>3. <<a, b>> # <<>>
      OBVIOUS
    <2> QED BY Zenon, <2>1, <2>2, <2>3
  <1>4. n >= 1 /\ f >= 0 /\ f <= n /\ m >= 1 /\ g >= 0 /\ g <= m
    OBVIOUS
  <1>5. ValidGate(a) /\ ValidGate(b)
    BY Zenon, <1>2, <1>4 DEF ValidGate
  <1>6. \A i \in 1 .. 2 : i = 1 \/ i = 2
    OBVIOUS
  <1>7. PICK s, t : s = [i \in DOMAIN gates |-> gates[i].samples] /\ t = [i \in DOMAIN gates |-> gates[i].failures]
    BY Zenon
  <1>8. AggregateHealth(gates) = [samples |-> Total(s), failures |-> Total(t)]
    <2>1. ~ (gates = <<>> \/ \E i \in DOMAIN gates : ~ ValidGate(gates[i]))
      BY Zenon, <1>3, <1>5, <1>6
    <2> QED BY Zenon, <1>7, <2>1 DEF AggregateHealth
  <1>9. n \in Nat /\ m \in Nat /\ f \in Nat /\ g \in Nat /\ 2 \in Nat /\ 1 \in 1 .. 2 /\ 2 \in 1 .. 2
    OBVIOUS
  <1>10. s[1] = n /\ s[2] = m /\ t[1] = f /\ t[2] = g
    BY Zenon, <1>2, <1>3, <1>7, <1>9
  <1>11. s \in [1 .. 2 -> Nat] /\ t \in [1 .. 2 -> Nat]
    <2>1. \A i \in 1 .. 2 : gates[i].samples \in Nat /\ gates[i].failures \in Nat
      BY Zenon, <1>2, <1>3, <1>6, <1>9
    <2> QED BY Zenon, <1>3, <1>7, <2>1
  <1>12. s \in Seq(Nat) /\ Len(s) = 2 /\ t \in Seq(Nat) /\ Len(t) = 2
    BY Zenon, <1>9, <1>11, FunctionIsSeq
  <1>13. Total(s) = n + m /\ Total(t) = f + g
    BY Zenon, <1>9, <1>10, <1>12, TotalOfTwo
  <1> QED BY Zenon, <1>3, <1>8, <1>13, <1>1

\* If a sum is greater than another, so is one of the summands.
LEMMA OneExceeds ==
  ASSUME NEW T \in Nat, NEW n \in Nat, NEW f \in Nat, NEW m \in Nat, NEW g \in Nat,
         (f + g) * 100 > T * (n + m)
  PROVE  f * 100 > T * n \/ g * 100 > T * m
  <1>1. PICK x \in Int, y \in Int : x = T * n /\ y = T * m
    OBVIOUS
  <1>2. T * (n + m) = T * n + T * m
    OBVIOUS
  <1>3. (f + g) * 100 > x + y
    BY Zenon, <1>1, <1>2
  <1>4. f * 100 > x \/ g * 100 > y
    BY <1>3
  <1> QED BY Zenon, <1>1, <1>4

\* The gate of a sequence cut in two is the combination of the two gates, and
\* exceeds the threshold only if one of them does.
LEMMA GatesCombine ==
  ASSUME NEW S, NEW own \in Seq(S), NEW n \in 1 .. Len(own) - 1
  PROVE  LET a == GateOf(SubSeq(own, 1, n))
             b == GateOf(SubSeq(own, n + 1, Len(own)))
         IN  /\ AggregateHealth(<<a, b>>) = GateOf(own)
             /\ Exceeds(GateOf(own), Threshold) => Exceeds(a, Threshold) \/ Exceeds(b, Threshold)
  <1>1. PICK l \in Nat : l = Len(own)
    BY LenProperties
  <1>2. PICK m \in Nat \ {0} : m = l - n /\ n + m = l
    <2>1. n \in 1 .. l - 1
      BY Zenon, <1>1
    <2>2. l - n \in Nat \ {0} /\ n + (l - n) = l
      BY <2>1
    <2> QED BY Zenon, <2>2
  <1>3. /\ n \in Nat \ {0} /\ n \in 0 .. Len(own) /\ Len(own) - n = m
        /\ (n - 1) + 1 = n /\ (l - (n + 1)) + 1 = m
        /\ 1 \in 1 .. Len(own) + 1 /\ n \in 1 - 1 .. Len(own)
        /\ n + 1 \in 1 .. Len(own) + 1 /\ Len(own) \in (n + 1) - 1 .. Len(own)
    BY <1>1, <1>2
  <1>4. \A a \in 1 .. Len(own) + 1 : \A b \in a - 1 .. Len(own) : Len(SubSeq(own, a, b)) = (b - a) + 1
    BY SubSeqFacts
  <1>5. Len(SubSeq(own, 1, n)) = (n - 1) + 1
    BY Zenon, <1>3, <1>4
  <1>6. Len(SubSeq(own, n + 1, Len(own))) = (Len(own) - (n + 1)) + 1
    BY Zenon, <1>3, <1>4
  <1>7. /\ Failures(SubSeq(own, 1, n)) \in 0 .. n
        /\ Failures(SubSeq(own, n + 1, Len(own))) \in 0 .. Len(own) - n
        /\ Failures(own) = Failures(SubSeq(own, 1, n)) + Failures(SubSeq(own, n + 1, Len(own)))
    BY Zenon, <1>3, FailuresAddUp
  <1>8. PICK f \in 0 .. n, g \in 0 .. m :
          /\ f = Failures(SubSeq(own, 1, n)) /\ g = Failures(SubSeq(own, n + 1, Len(own)))
          /\ Failures(own) = f + g
    BY Zenon, <1>3, <1>7
  <1>9. PICK a, b, c : /\ a = GateOf(SubSeq(own, 1, n)) /\ b = GateOf(SubSeq(own, n + 1, Len(own)))
                       /\ c = GateOf(own)
    BY Zenon
  <1>10. a = [samples |-> n, failures |-> f]
    BY Zenon, <1>3, <1>5, <1>8, <1>9 DEF GateOf
  <1>11. b = [samples |-> m, failures |-> g]
    BY Zenon, <1>1, <1>3, <1>6, <1>8, <1>9 DEF GateOf
  <1>12. c = [samples |-> n + m, failures |-> f + g]
    BY Zenon, <1>1, <1>2, <1>8, <1>9 DEF GateOf
  <1>13. AggregateHealth(<<a, b>>) = [samples |-> n + m, failures |-> f + g]
    <2>1. AggregateHealth(<<[samples |-> n, failures |-> f], [samples |-> m, failures |-> g]>>)
            = [samples |-> n + m, failures |-> f + g]
      BY Zenon, <1>3, TwoGates
    <2> QED BY Zenon, <1>10, <1>11, <2>1
  <1>14. ASSUME Exceeds(c, Threshold)
         PROVE  Exceeds(a, Threshold) \/ Exceeds(b, Threshold)
    <2>1. /\ a.samples = n /\ a.failures = f /\ b.samples = m /\ b.failures = g
          /\ c.samples = n + m /\ c.failures = f + g
      BY Zenon, <1>10, <1>11, <1>12
    <2>2. (f + g) * 100 > Threshold * (n + m)
      BY Zenon, <1>14, <2>1 DEF Exceeds
    <2>3. f \in Nat /\ g \in Nat /\ n \in Nat /\ m \in Nat /\ Threshold \in Nat
      BY ObservationAssumption
    <2>4. f * 100 > Threshold * n \/ g * 100 > Threshold * m
      BY ZenonT(40), <2>2, <2>3, OneExceeds
    <2> QED BY Zenon, <2>1, <2>4 DEF Exceeds
  <1> QED BY Zenon, <1>9, <1>12, <1>13, <1>14

\* What the window counts and ranks is the same unless an observation of the
\* release lies at the cut-off; without a cut-off and with nothing in the future
\* it is all observations of the release.
LEMMA CountedFacts ==
  ASSUME NEW os \in Seq(Observation), NEW r, NEW now \in Nat
  PROVE  /\ \A cutoff \in 0 .. now :
              (\A i \in {j \in DOMAIN os : os[j].release = r} : os[i].at # cutoff) =>
                Ranked(os, r, cutoff, now) = Counted(os, r, cutoff, now)
         /\ (\A i \in {j \in DOMAIN os : os[j].release = r} : os[i].at <= now) =>
              Counted(os, r, -1, now) = Own(os, r) /\ Ranked(os, r, -1, now) = Own(os, r)
  <1> DEFINE mine == {i \in DOMAIN os : os[i].release = r}
             C(cutoff) == {i \in DOMAIN os : /\ os[i].release = r
                                             /\ cutoff <= os[i].at /\ os[i].at <= now}
             K(cutoff) == {i \in DOMAIN os : /\ os[i].release = r
                                             /\ cutoff < os[i].at /\ os[i].at <= now}
  <1>1. \A i \in DOMAIN os : os[i].at \in Nat
    <2>1. \A i \in DOMAIN os : os[i] \in Observation
      BY LenProperties, ElementOfSeq
    <2> QED BY Zenon, <2>1, ObservationAssumption
  <1>2. \A c : Counted(os, r, c, now) = Picked(os, C(c)) /\ Ranked(os, r, c, now) = Picked(os, K(c))
    BY Zenon DEF Counted, Ranked
  <1>3. Own(os, r) = Picked(os, mine)
    BY Zenon DEF Own
  <1>4. ASSUME NEW cutoff \in 0 .. now, \A i \in mine : os[i].at # cutoff
        PROVE  K(cutoff) = C(cutoff)
    <2>1. \A t \in Nat : t # cutoff => (cutoff < t <=> cutoff <= t)
      OBVIOUS
    <2> QED BY Zenon, <1>1, <1>4, <2>1
  <1>5. ASSUME \A i \in mine : os[i].at <= now
        PROVE  C(-1) = mine /\ K(-1) = mine
    <2>1. \A t \in Nat : -1 < t /\ -1 <= t
      OBVIOUS
    <2> QED BY Zenon, <1>1, <1>5, <2>1
  <1> HIDE DEF C, K
  <1>6. ASSUME NEW cutoff \in 0 .. now, \A i \in mine : os[i].at # cutoff
        PROVE  Ranked(os, r, cutoff, now) = Counted(os, r, cutoff, now)
    BY Zenon, <1>2, <1>4, <1>6
  <1>7. ASSUME \A i \in mine : os[i].at <= now
        PROVE  Counted(os, r, -1, now) = Own(os, r) /\ Ranked(os, r, -1, now) = Own(os, r)
    BY Zenon, <1>2, <1>3, <1>5, <1>7
  <1> QED BY Zenon, <1>6, <1>7

\* The figures and the verdict of a release with nothing in the future.
LEMMA FiguresFacts ==
  ASSUME NEW os \in Seq(Observation), NEW i \in DOMAIN os, NEW now \in Nat,
         \A j \in {k \in DOMAIN os : os[k].release = os[i].release} : os[j].at <= now
  PROVE  LET r == os[i].release
             h == EvaluateHealth(os, r, -1, now, Threshold)
             m == Summaries(os)[r]
         IN  /\ h.samples = m.samples /\ h.failures = m.failures
             /\ h.p95 = m.p95 \div Millisecond
             /\ h.healthy <=> ~ Exceeds(GateOf(Own(os, r)), Threshold)
  <1>1. PICK r : r = os[i].release
    BY Zenon
  <1>2. PICK own : own = Own(os, r)
    BY Zenon
  <1>3. Counted(os, r, -1, now) = own /\ Ranked(os, r, -1, now) = own
    BY Zenon, <1>1, <1>2, CountedFacts
  <1>4. own \in Seq(Observation) /\ own # <<>>
    <2> DEFINE mine == {k \in DOMAIN os : os[k].release = r}
    <2>1. mine \in SUBSET (1 .. Len(os))
      BY LenProperties
    <2>2. i \in mine
      BY Zenon, <1>1
    <2>3. own = Picked(os, mine)
      BY Zenon, <1>2 DEF Own
    <2> HIDE DEF mine
    <2>4. /\ Picked(os, mine) \in Seq(Observation)
          /\ Len(Picked(os, mine)) = Cardinality(mine)
          /\ Range(Picked(os, mine)) = {os[k] : k \in mine}
          /\ \A k \in mine : (\A j \in mine : k <= j) =>
               Picked(os, mine) # <<>> /\ Head(Picked(os, mine)) = os[k]
      BY Zenon, <2>1, PickedFacts
    <2>5. os[i] \in Range(own)
      BY Zenon, <2>2, <2>3, <2>4
    <2>6. own # <<>>
      BY <2>5 DEF Range
    <2> QED BY Zenon, <2>3, <2>4, <2>6
  <1>5. PICK n \in Nat, f \in Nat : n = Len(own) /\ f = Failures(own)
    <2>1. Len(own) \in Nat /\ Len(own) \in 0 .. Len(own)
      BY <1>4, LenProperties
    <2>2. Failures(own) \in 0 .. Len(own)
      BY Zenon, <1>4, <2>1, FailuresAddUp
    <2>3. Failures(own) \in Nat
      BY <2>1, <2>2
    <2> QED BY Zenon, <2>1, <2>3
  <1>6. PICK p : p = Percentile(Latencies(own))
    BY Zenon
  <1>7. PICK h : h = EvaluateHealth(os, r, -1, now, Threshold)
    BY Zenon
  <1>8. /\ h.samples = n /\ h.failures = f /\ h.p95 = p \div Millisecond
        /\ h.healthy <=> f * 100 <= Threshold * n
    <2>1. h = [samples |-> n, failures |-> f, p95 |-> p \div Millisecond,
               healthy |-> own # <<>> /\ f * 100 <= Threshold * n]
      BY Zenon, <1>3, <1>4, <1>5, <1>6, <1>7 DEF EvaluateHealth
    <2> QED BY Zenon, <1>4, <2>1
  <1>9. Summaries(os)[r] = [samples |-> n, failures |-> f, p95 |-> p]
    <2>1. r \in {o.release : o \in Range(os)}
      BY Zenon, <1>1 DEF Range
    <2>2. Summaries(os)[r] = Aggregate(r, os)
      BY Zenon, <2>1 DEF Summaries
    <2>3. Aggregate(r, os) = [samples |-> n, failures |-> f, p95 |-> p]
      BY Zenon, <1>2, <1>4, <1>5, <1>6 DEF Aggregate
    <2> QED BY Zenon, <2>2, <2>3
  <1>10. Exceeds(GateOf(own), Threshold) <=> f * 100 > Threshold * n
    <2>1. PICK g : g = GateOf(own)
      BY Zenon
    <2>2. g.samples = n /\ g.failures = f
      BY Zenon, <1>5, <2>1 DEF GateOf
    <2> QED BY Zenon, <2>1, <2>2 DEF Exceeds
  <1>11. f * 100 <= Threshold * n <=> ~ (f * 100 > Threshold * n)
    <2>1. PICK x \in Int, y \in Int : x = f * 100 /\ y = Threshold * n
      BY ObservationAssumption
    <2>2. x <= y <=> ~ (x > y)
      OBVIOUS
    <2> QED BY Zenon, <2>1, <2>2
  <1>12. PICK m : m = Summaries(os)[r] /\ m.samples = n /\ m.failures = f /\ m.p95 = p
    <2>1. PICK m : m = [samples |-> n, failures |-> f, p95 |-> p]
      BY Zenon
    <2>2. m.samples = n /\ m.failures = f /\ m.p95 = p
      BY Zenon, <2>1
    <2> QED BY Zenon, <1>9, <2>1, <2>2
  <1>13. /\ h.samples = m.samples /\ h.failures = m.failures /\ h.p95 = m.p95 \div Millisecond
         /\ h.healthy <=> ~ Exceeds(GateOf(own), Threshold)
    BY Zenon, <1>8, <1>10, <1>11, <1>12
  <1> QED BY Zenon, <1>1, <1>2, <1>7, <1>12, <1>13

\* The health figures agree, whatever the number of observations.
THEOREM HealthFiguresDoAgree == Spec => []HealthFiguresAgree
  <1>1. ASSUME InputOK, input.kind = "health"
        PROVE  HealthFiguresAgree
    <2>1. PICK all \in Seq(Observation) : all = input.observations
      BY Zenon, <1>1 DEF InputOK
    <2>2. Room \in Nat \ {0}
      BY Zenon, ObservationAssumption
    <2>3. PICK os \in Seq(Observation) : os = Accepted(all)
      BY Zenon, <2>2, RecordedHolds
    <2>4. at \in Nat
      BY <1>1, TimeAssumption DEF InputOK
    <2>5. Recorded(all, Room)
            = SubSeq(os, IF Len(os) > Room THEN Len(os) - Room + 1 ELSE 1, Len(os))
      BY Zenon, <2>2, <2>3, RecordedLatest
    <2> DEFINE Agreed(r) ==
            LET mine == {j \in DOMAIN os : os[j].release = r}
                own == Own(os, r)
                h == EvaluateHealth(os, r, -1, at, Threshold)
                m == Summaries(os)[r]
            IN  /\ \A cutoff \in 0 .. at : (\A j \in mine : os[j].at # cutoff) =>
                     /\ ~ Panics(os, r, cutoff, at)
                     /\ Ranked(os, r, cutoff, at) = Counted(os, r, cutoff, at)
                /\ (\A j \in mine : os[j].at <= at) =>
                     /\ h.samples = m.samples /\ h.failures = m.failures
                     /\ h.p95 = m.p95 \div Millisecond
                     /\ h.healthy <=> ~ Exceeds(GateOf(own), Threshold)
                /\ \A n \in 1 .. Len(own) - 1 :
                     LET a == GateOf(SubSeq(own, 1, n))
                         b == GateOf(SubSeq(own, n + 1, Len(own)))
                     IN  /\ AggregateHealth(<<a, b>>) = GateOf(own)
                         /\ Exceeds(GateOf(own), Threshold) =>
                              Exceeds(a, Threshold) \/ Exceeds(b, Threshold)
    <2>6. ASSUME NEW i \in DOMAIN os, NEW r, r = os[i].release
          PROVE  Agreed(r)
      <3> DEFINE mine == {j \in DOMAIN os : os[j].release = r}
      <3>1. ASSUME NEW cutoff \in 0 .. at, \A j \in mine : os[j].at # cutoff
            PROVE  /\ ~ Panics(os, r, cutoff, at)
                   /\ Ranked(os, r, cutoff, at) = Counted(os, r, cutoff, at)
        <4>1. Ranked(os, r, cutoff, at) = Counted(os, r, cutoff, at)
          BY Zenon, <2>4, <3>1, CountedFacts
        <4> QED BY Zenon, <4>1 DEF Panics
      <3>2. ASSUME \A j \in mine : os[j].at <= at
            PROVE  LET h == EvaluateHealth(os, r, -1, at, Threshold)
                       m == Summaries(os)[r]
                   IN  /\ h.samples = m.samples /\ h.failures = m.failures
                       /\ h.p95 = m.p95 \div Millisecond
                       /\ h.healthy <=> ~ Exceeds(GateOf(Own(os, r)), Threshold)
        <4>1. \A j \in {k \in DOMAIN os : os[k].release = os[i].release} : os[j].at <= at
          BY Zenon, <2>6, <3>2
        <4>2. LET h == EvaluateHealth(os, os[i].release, -1, at, Threshold)
                  m == Summaries(os)[os[i].release]
              IN  /\ h.samples = m.samples /\ h.failures = m.failures
                  /\ h.p95 = m.p95 \div Millisecond
                  /\ h.healthy <=> ~ Exceeds(GateOf(Own(os, os[i].release)), Threshold)
          BY Zenon, <2>4, <4>1, FiguresFacts
        <4> QED BY Zenon, <2>6, <4>2
      <3>3. Own(os, r) \in Seq(Observation)
        <4>1. mine \in SUBSET (1 .. Len(os))
          BY LenProperties
        <4>2. Own(os, r) = Picked(os, mine)
          BY Zenon DEF Own
        <4> HIDE DEF mine
        <4>3. /\ Picked(os, mine) \in Seq(Observation)
              /\ Len(Picked(os, mine)) = Cardinality(mine)
              /\ Range(Picked(os, mine)) = {os[k] : k \in mine}
              /\ \A k \in mine : (\A j \in mine : k <= j) =>
                   Picked(os, mine) # <<>> /\ Head(Picked(os, mine)) = os[k]
          BY Zenon, <4>1, PickedFacts
        <4> QED BY Zenon, <4>2, <4>3
      <3>4. ASSUME NEW n \in 1 .. Len(Own(os, r)) - 1
            PROVE  LET own == Own(os, r)
                       a == GateOf(SubSeq(own, 1, n))
                       b == GateOf(SubSeq(own, n + 1, Len(own)))
                   IN  /\ AggregateHealth(<<a, b>>) = GateOf(own)
                       /\ Exceeds(GateOf(own), Threshold) =>
                            Exceeds(a, Threshold) \/ Exceeds(b, Threshold)
        BY Zenon, <3>3, GatesCombine
      <3> QED BY Zenon, <3>1, <3>2, <3>4
    <2> HIDE DEF Agreed
    <2>7. \A r \in {os[i].release : i \in DOMAIN os} : Agreed(r)
      BY Zenon, <2>6
    <2> QED BY ZenonT(40), <2>1, <2>5, <2>7, <2>3 DEF HealthFiguresAgree, Agreed
  <1>2. InputOK => HealthFiguresAgree
    BY Zenon, <1>1 DEF HealthFiguresAgree
  <1> QED BY <1>2, InputOKInvariant, PTL
=============================================================================
