------------------------ MODULE DependencyGraphProofs ------------------------
(***************************************************************************)
(* What the depth-first searches of internal/configdomain/graph.go find on *)
(* any graph.  HasCycle's calls in progress lie on one path of grey nodes  *)
(* (colour 1); what is black (colour 2) depends on black only, and holds   *)
(* no cycle.  Dependencies' result is part of every closed set, and closed *)
(* but for the calls in progress.                                          *)
(***************************************************************************)
EXTENDS Evaluation, FiniteSetTheorems, SequenceTheorems, TLAPS

FrameSet == [node: Names, next: Nat \ {0}]

Grey == {stack[i].node : i \in DOMAIN stack}

Black == {k \in Names : colour[k] = 2}

GraphOK ==
  /\ DOMAIN edges \in SUBSET Names /\ \A k \in DOMAIN edges : edges[k] \in Seq(Names)
  /\ key \in Names \cup {NoKey} /\ roots \in SUBSET DOMAIN edges
  /\ stack \in Seq(FrameSet) /\ colour \in [Names -> 0 .. 2]
  /\ cycle \in BOOLEAN /\ seen \in SUBSET Names /\ calls \in Nat

\* Each call but the innermost is in the one it has made, and no node is on the
\* path twice.
OnPath ==
  /\ \A k \in Names : colour[k] = 1 <=> k \in Grey
  /\ \A i, j \in DOMAIN stack : stack[i].node = stack[j].node => i = j
  /\ \A i \in DOMAIN stack : i + 1 \in DOMAIN stack =>
       /\ stack[i].next - 1 \in DOMAIN Edges(stack[i].node)
       /\ Edges(stack[i].node)[stack[i].next - 1] = stack[i + 1].node

\* What a call has looked at is black, or the call in progress.
LookedAt ==
  \A i \in DOMAIN stack : \A d \in DOMAIN Edges(stack[i].node) : d < stack[i].next =>
    LET n == Edges(stack[i].node)[d]
    IN  n \in Black \/ (i + 1 \in DOMAIN stack /\ n = stack[i + 1].node)

BlackClosed == \A k \in Black : Range(Edges(k)) \subseteq Black

NoBlackCycle ==
  \A S \in SUBSET (Black \cap DOMAIN edges) : S # {} => \E x \in S : Range(edges[x]) \cap S = {}

RootsMet == \A k \in DOMAIN edges : k \in roots \/ colour[k] # 0

\* The dependencies HasCycle has followed.
Followed ==
  {l \in Links : \/ l[1] \in Black
                 \/ \E i \in DOMAIN stack : stack[i].node = l[1] /\ l[2] < stack[i].next}

\* Some nodes all depend on one another.
Cyclic == \E S \in SUBSET DOMAIN edges : S # {} /\ \A x \in S : Range(edges[x]) \cap S # {}

\* What HasCycle relies on between two steps while it has found no cycle.
SearchOK == OnPath /\ LookedAt /\ BlackClosed /\ NoBlackCycle /\ RootsMet

\* HasCycle's count of calls: one for each root that has been taken and for each
\* dependency that has been followed.
CallsCounted == calls = Cardinality(DOMAIN edges \ roots) + Cardinality(Followed)

CallsBound == calls <= Cardinality(DOMAIN edges) + Cardinality(Links)

CycleInv ==
  key = NoKey => IF cycle THEN stack = <<>> /\ Cyclic /\ CallsBound
                          ELSE SearchOK /\ CallsCounted

Closed(S) == \A x \in S \cup {key} : Range(Edges(x)) \subseteq S

ReachInv ==
  key # NoKey =>
    /\ calls = 0
    /\ Grey \subseteq seen \cup {key}
    /\ \A k \in seen \cup {key} : k \in Grey \/ Range(Edges(k)) \subseteq seen
    /\ \A i \in DOMAIN stack : \A d \in DOMAIN Edges(stack[i].node) :
         d < stack[i].next => Edges(stack[i].node)[d] \in seen
    /\ \A T \in SUBSET Names : Closed(T) => seen \subseteq T

\* The call in progress, and the dependency it looks at.
Top == stack[Len(stack)].node

Turn == stack[Len(stack)].next

\* The innermost call and the calls below it on the stack.
LEMMA CallersFacts ==
  ASSUME stack \in Seq(FrameSet), stack # <<>>
  PROVE  /\ Len(stack) \in Nat \ {0} /\ DOMAIN stack = 1 .. Len(stack)
         /\ Innermost = stack[Len(stack)] /\ Innermost \in FrameSet
         /\ Callers \in Seq(FrameSet)
         /\ DOMAIN Callers = 1 .. Len(stack) - 1 /\ Len(Callers) = Len(stack) - 1
         /\ \A i \in 1 .. Len(stack) - 1 : Callers[i] = stack[i]
  <1>1. Len(stack) \in Nat \ {0} /\ DOMAIN stack = 1 .. Len(stack)
    BY LenProperties, EmptySeq
  <1>2. Innermost = stack[Len(stack)] /\ Innermost \in FrameSet
    BY <1>1, ElementOfSeq DEF Innermost
  <1>3. /\ Callers \in Seq(FrameSet) /\ Len(Callers) = Len(stack) - 1
        /\ \A i \in 1 .. Len(stack) - 1 : Callers[i] = stack[i]
    BY <1>1, SubSeqProperties DEF Callers
  <1>4. DOMAIN Callers = 1 .. Len(stack) - 1
    BY <1>3, LenProperties
  <1> QED BY Zenon, <1>1, <1>2, <1>3, <1>4

\* Append, element by element.
LEMMA AppendFacts ==
  ASSUME NEW S
  PROVE  \A s \in Seq(S), x \in S :
         /\ Append(s, x) \in Seq(S) /\ Append(s, x) # <<>>
         /\ Len(Append(s, x)) = Len(s) + 1 /\ Len(s) \in Nat
         /\ \A i \in 1 .. Len(s) : Append(s, x)[i] = s[i]
         /\ Append(s, x)[Len(s) + 1] = x
  BY AppendProperties, LenProperties

\* A call that has looked at a dependency is as before, but for next.
LEMMA FrameAdvances ==
  ASSUME NEW y \in FrameSet
  PROVE  LET z == [y EXCEPT !.next = @ + 1]
         IN  z \in FrameSet /\ z.node = y.node /\ z.next = y.next + 1
  BY DEF FrameSet

\* The stack when the innermost call has looked at a dependency.
LEMMA AdvancedFacts ==
  ASSUME stack \in Seq(FrameSet), stack # <<>>
  PROVE  /\ Len(stack) \in Nat \ {0} /\ DOMAIN stack = 1 .. Len(stack)
         /\ \A i \in 1 .. Len(stack) : stack[i].node \in Names /\ stack[i].next \in Nat \ {0}
         /\ Top \in Names /\ Turn \in Nat \ {0}
         /\ Advanced \in Seq(FrameSet) /\ Len(Advanced) = Len(stack)
         /\ DOMAIN Advanced = 1 .. Len(stack)
         /\ \A i \in 1 .. Len(stack) - 1 : Advanced[i] = stack[i]
         /\ Advanced[Len(stack)].node = Top /\ Advanced[Len(stack)].next = Turn + 1
  <1> DEFINE n == Len(stack)
             x == [Innermost EXCEPT !.next = @ + 1]
  <1>1. /\ n \in Nat \ {0} /\ DOMAIN stack = 1 .. n
        /\ Innermost = stack[n] /\ Innermost \in FrameSet
        /\ Callers \in Seq(FrameSet) /\ Len(Callers) = n - 1
        /\ \A i \in 1 .. n - 1 : Callers[i] = stack[i]
    BY Zenon, CallersFacts
  <1>2. \A i \in 1 .. n : stack[i] \in FrameSet
    BY Zenon, <1>1, ElementOfSeq
  <1>3. \A i \in 1 .. n : stack[i].node \in Names /\ stack[i].next \in Nat \ {0}
    BY <1>2 DEF FrameSet
  <1>4. Top = Innermost.node /\ Turn = Innermost.next
    BY Zenon, <1>1 DEF Top, Turn
  <1>5. Top \in Names /\ Turn \in Nat \ {0}
    BY <1>1, <1>4 DEF FrameSet
  <1>6. x \in FrameSet /\ x.node = Top /\ x.next = Turn + 1
    <2>1. PICK l \in FrameSet : l = Innermost /\ l.node = Top /\ l.next = Turn
      BY Zenon, <1>1, <1>4
    <2> QED BY Zenon, <2>1, FrameAdvances
  <1>7. Advanced = Append(Callers, x)
    BY Zenon DEF Advanced
  <1> HIDE DEF x
  <1>8. PICK f \in Seq(FrameSet) : f = Callers
    BY Zenon, <1>1
  <1>9. /\ Append(f, x) \in Seq(FrameSet) /\ Len(Append(f, x)) = Len(f) + 1
        /\ \A i \in 1 .. Len(f) : Append(f, x)[i] = f[i]
        /\ Append(f, x)[Len(f) + 1] = x
    <2>1. PICK y \in FrameSet : y = x
      BY Zenon, <1>6
    <2>2. /\ Append(f, y) \in Seq(FrameSet) /\ Len(Append(f, y)) = Len(f) + 1
          /\ \A i \in 1 .. Len(f) : Append(f, y)[i] = f[i]
          /\ Append(f, y)[Len(f) + 1] = y
      BY AppendFacts
    <2> QED BY Zenon, <2>1, <2>2
  <1>10. Len(f) = n - 1 /\ Len(f) + 1 = n /\ 1 .. Len(f) = 1 .. n - 1
    <2>1. PICK a, b : a \in Nat /\ a = n /\ b = Len(f) /\ b = a - 1
      BY Zenon, <1>1, <1>8
    <2>2. b + 1 = a
      BY <2>1
    <2> QED BY Zenon, <2>1, <2>2
  <1>11. /\ Advanced \in Seq(FrameSet) /\ Len(Advanced) = n
         /\ \A i \in 1 .. n - 1 : Advanced[i] = stack[i]
         /\ Advanced[n] = x
    BY Zenon, <1>1, <1>7, <1>8, <1>9, <1>10
  <1>12. DOMAIN Advanced = 1 .. n
    BY Zenon, <1>11, LenProperties
  <1> QED BY Zenon, <1>1, <1>3, <1>5, <1>6, <1>11, <1>12

\* The stack of a new call.
LEMMA PushFacts ==
  ASSUME NEW s \in Seq(FrameSet), NEW k \in Names
  PROVE  /\ Append(s, Frame(k)) \in Seq(FrameSet) /\ Len(s) \in Nat
         /\ DOMAIN Append(s, Frame(k)) = 1 .. Len(s) + 1
         /\ \A i \in 1 .. Len(s) : Append(s, Frame(k))[i] = s[i]
         /\ Append(s, Frame(k))[Len(s) + 1].node = k /\ Append(s, Frame(k))[Len(s) + 1].next = 1
  <1>1. Frame(k) \in FrameSet /\ Frame(k).node = k /\ Frame(k).next = 1
    BY DEF Frame, FrameSet
  <1>2. PICK x \in FrameSet : x = Frame(k)
    BY Zenon, <1>1
  <1>3. /\ Append(s, x) \in Seq(FrameSet) /\ Len(Append(s, x)) = Len(s) + 1 /\ Len(s) \in Nat
        /\ \A i \in 1 .. Len(s) : Append(s, x)[i] = s[i]
        /\ Append(s, x)[Len(s) + 1] = x
    BY AppendFacts
  <1>4. DOMAIN Append(s, x) = 1 .. Len(s) + 1
    BY <1>3, LenProperties
  <1> QED BY Zenon, <1>1, <1>2, <1>3, <1>4

\* The dependency looked at is one, and its node has dependencies.
LEMMA DependencyFacts ==
  ASSUME GraphOK, More
  PROVE  /\ stack # <<>> /\ Top \in DOMAIN edges /\ Edges(Top) = edges[Top]
         /\ Turn \in DOMAIN edges[Top] /\ Dependency = edges[Top][Turn] /\ Dependency \in Names
         /\ <<Top, Turn>> \in Links
  <1>1. stack # <<>> /\ stack \in Seq(FrameSet)
    BY Zenon DEF More, GraphOK
  <1>2. Turn \in Nat \ {0} /\ Top \in Names
    BY Zenon, <1>1, AdvancedFacts
  <1>3. Innermost.next = Turn /\ Innermost.node = Top
    BY Zenon DEF Innermost, Top, Turn
  <1>4. Turn <= Len(Edges(Top))
    BY Zenon, <1>3 DEF More
  <1>5. Top \in DOMAIN edges /\ Edges(Top) = edges[Top]
    <2>1. ASSUME Top \notin DOMAIN edges
          PROVE  FALSE
      <3>1. Edges(Top) = <<>>
        BY Zenon, <2>1 DEF Edges
      <3> QED BY <1>2, <1>4, <3>1
    <2> QED BY Zenon, <2>1 DEF Edges
  <1>6. PICK e \in Seq(Names) : e = edges[Top]
    BY Zenon, <1>5 DEF GraphOK
  <1>7. Turn \in DOMAIN e /\ e[Turn] \in Names
    BY <1>2, <1>4, <1>5, <1>6, LenProperties, ElementOfSeq
  <1>8. Dependency = e[Turn]
    BY Zenon, <1>3, <1>5, <1>6 DEF Dependency
  <1>9. <<Top, Turn>> \in Links
    <2>1. <<Top, Turn>> \in {Top} \X DOMAIN edges[Top]
      BY <1>6, <1>7
    <2> QED BY Zenon, <1>5, <2>1 DEF Links
  <1> QED BY Zenon, <1>1, <1>5, <1>6, <1>7, <1>8, <1>9

\* The three outcomes of visit.
LEMMA VisitOutcomes ==
  ASSUME GraphOK, NEW k \in Names, NEW rest, Visit(k, rest)
  PROVE  /\ edges' = edges /\ key' = key /\ seen' = seen /\ calls' = calls + 1
         /\ \/ /\ colour[k] = 0 /\ ~ cycle' /\ stack' = Append(rest, Frame(k))
               /\ colour' \in [Names -> 0 .. 2] /\ colour'[k] = 1
               /\ \A x \in Names \ {k} : colour'[x] = colour[x]
            \/ colour[k] = 1 /\ cycle' /\ stack' = <<>> /\ colour' = colour
            \/ colour[k] = 2 /\ ~ cycle' /\ stack' = rest /\ colour' = colour
  <1>1. colour \in [Names -> 0 .. 2] /\ colour[k] \in 0 .. 2
    BY Zenon DEF GraphOK
  <1>2. colour[k] = 0 \/ colour[k] = 1 \/ colour[k] = 2
    BY <1>1
  <1>3. /\ edges' = edges /\ key' = key /\ seen' = seen /\ calls' = calls + 1
        /\ cycle' = (colour[k] = 1)
        /\ colour' = IF colour[k] = 0 THEN [colour EXCEPT ![k] = 1] ELSE colour
    BY Zenon DEF Visit
  <1>4. stack' = CASE colour[k] = 0 -> Append(rest, Frame(k))
                   [] colour[k] = 1 -> <<>>
                   [] OTHER         -> rest
    BY Zenon DEF Visit
  <1>5. 0 # 1 /\ 0 # 2 /\ 1 # 2
    OBVIOUS
  <1>6. CASE colour[k] = 0
    <2>1. colour' = [colour EXCEPT ![k] = 1] /\ stack' = Append(rest, Frame(k)) /\ ~ cycle'
      BY Zenon, <1>3, <1>6, <1>4, <1>5
    <2>2. 1 \in 0 .. 2
      OBVIOUS
    <2> QED BY Zenon, <1>1, <1>3, <1>6, <2>1, <2>2
  <1>7. CASE colour[k] = 1
    <2>1. colour' = colour /\ stack' = <<>> /\ cycle'
      BY Zenon, <1>3, <1>7, <1>4, <1>5
    <2> QED BY Zenon, <1>3, <1>7, <2>1
  <1>8. CASE colour[k] = 2
    <2>1. colour' = colour /\ stack' = rest /\ ~ cycle'
      BY Zenon, <1>3, <1>8, <1>4, <1>5
    <2> QED BY Zenon, <1>3, <1>8, <2>1
  <1> QED BY Zenon, <1>2, <1>6, <1>7, <1>8

\* What Return does.
LEMMA ReturnOutcome ==
  ASSUME GraphOK, Return
  PROVE  /\ edges' = edges /\ key' = key /\ roots' = roots /\ cycle' = cycle
         /\ seen' = seen /\ calls' = calls /\ stack # <<>> /\ ~ More
         /\ Top \in Names /\ Turn \in Nat \ {0} /\ stack' = Callers
         /\ colour' \in [Names -> 0 .. 2] /\ colour'[Top] = 2
         /\ \A x \in Names \ {Top} : colour'[x] = colour[x]
  <1>1. /\ edges' = edges /\ key' = key /\ roots' = roots /\ cycle' = cycle
        /\ seen' = seen /\ calls' = calls /\ stack # <<>> /\ ~ More /\ stack' = Callers
        /\ colour' = [colour EXCEPT ![Top] = 2]
    BY Zenon DEF Return, Finish, Innermost, Top
  <1>2. Top \in Names /\ Turn \in Nat \ {0} /\ colour \in [Names -> 0 .. 2]
    BY Zenon, <1>1, AdvancedFacts DEF GraphOK
  <1>3. 2 \in 0 .. 2
    OBVIOUS
  <1> QED BY Zenon, <1>1, <1>2, <1>3

\* GraphOK is kept.
LEMMA GraphOKStep ==
  ASSUME GraphOK, [Next]_vars
  PROVE  GraphOK'
  <1>1. \/ UNCHANGED graph \/ VisitRoot \/ VisitNext \/ Return \/ Look \/ Leave
    BY Zenon DEF Next, Tick, Search, vars
  <1>2. CASE UNCHANGED graph
    <2>1. /\ edges' = edges /\ key' = key /\ roots' = roots /\ stack' = stack
          /\ colour' = colour /\ cycle' = cycle /\ seen' = seen /\ calls' = calls
      BY <1>2 DEF graph
    <2> QED BY Zenon, <2>1 DEF GraphOK
  <1>3. ASSUME NEW k \in Names, NEW rest \in Seq(FrameSet), Visit(k, rest),
               roots' \in SUBSET roots
        PROVE  GraphOK'
    <2>1. stack' \in Seq(FrameSet)
      <3>1. Append(rest, Frame(k)) \in Seq(FrameSet) /\ <<>> \in Seq(FrameSet)
        BY Zenon, PushFacts, EmptySeq
      <3> QED BY Zenon, <1>3, <3>1, VisitOutcomes
    <2>2. colour' \in [Names -> 0 .. 2] /\ edges' = edges /\ key' = key /\ seen' = seen
      BY Zenon, <1>3, VisitOutcomes DEF GraphOK
    <2>3. calls' \in Nat /\ cycle' \in BOOLEAN
      BY <1>3 DEF GraphOK, Visit
    <2> QED BY Zenon, <1>3, <2>1, <2>2, <2>3 DEF GraphOK
  <1>4. CASE VisitRoot
    <2>1. PICK k \in roots : roots' = roots \ {k} /\ Visit(k, <<>>)
      BY Zenon, <1>4 DEF VisitRoot
    <2>2. k \in Names /\ <<>> \in Seq(FrameSet)
      BY Zenon, EmptySeq DEF GraphOK
    <2> QED BY Zenon, <1>3, <2>1, <2>2
  <1>5. CASE VisitNext
    <2>1. Dependency \in Names /\ Advanced \in Seq(FrameSet)
      BY Zenon, <1>5, DependencyFacts, AdvancedFacts DEF VisitNext, GraphOK
    <2>2. Visit(Dependency, Advanced) /\ roots' = roots
      BY Zenon, <1>5 DEF VisitNext
    <2> QED BY Zenon, <1>3, <2>1, <2>2
  <1>6. CASE Return
    <2>1. Callers \in Seq(FrameSet)
      BY Zenon, <1>6, ReturnOutcome, CallersFacts DEF GraphOK
    <2> QED BY Zenon, <1>6, <2>1, ReturnOutcome DEF GraphOK
  <1>7. CASE Look
    <2>1. Dependency \in Names /\ Advanced \in Seq(FrameSet)
      BY Zenon, <1>7, DependencyFacts, AdvancedFacts DEF Look, GraphOK
    <2>2. stack' \in Seq(FrameSet)
      BY Zenon, <1>7, <2>1, PushFacts DEF Look
    <2>3. /\ edges' = edges /\ key' = key /\ roots' = roots /\ colour' = colour
          /\ cycle' = cycle /\ calls' = calls /\ seen' = seen \cup {Dependency}
      BY Zenon, <1>7 DEF Look
    <2>4. seen' \in SUBSET Names
      BY Zenon, <2>1, <2>3 DEF GraphOK
    <2> QED BY Zenon, <2>2, <2>3, <2>4 DEF GraphOK
  <1>8. CASE Leave
    <2>1. Callers \in Seq(FrameSet)
      BY Zenon, <1>8, CallersFacts DEF GraphOK, Leave
    <2>2. /\ edges' = edges /\ key' = key /\ roots' = roots /\ colour' = colour
          /\ cycle' = cycle /\ calls' = calls /\ seen' = seen /\ stack' = Callers
      BY Zenon, <1>8 DEF Leave
    <2> QED BY Zenon, <2>1, <2>2 DEF GraphOK
  <1> QED BY Zenon, <1>1, <1>2, <1>4, <1>5, <1>6, <1>7, <1>8

\* The dependencies of a name are names.
LEMMA EdgesFacts ==
  ASSUME GraphOK, NEW k
  PROVE  /\ Edges(k) \in Seq(Names) /\ DOMAIN Edges(k) = 1 .. Len(Edges(k)) /\ Len(Edges(k)) \in Nat
         /\ \A d \in DOMAIN Edges(k) : d \in Nat \ {0} /\ ~ (d < 1) /\ Edges(k)[d] \in Names
         /\ Range(Edges(k)) = {Edges(k)[d] : d \in DOMAIN Edges(k)}
  <1>1. Edges(k) \in Seq(Names)
    BY Zenon, EmptySeq DEF Edges, GraphOK
  <1>2. \A e \in Seq(Names) : /\ DOMAIN e = 1 .. Len(e) /\ Len(e) \in Nat
                              /\ \A d \in DOMAIN e : d \in Nat \ {0} /\ ~ (d < 1) /\ e[d] \in Names
    BY LenProperties, ElementOfSeq
  <1> QED BY Zenon, <1>1, <1>2 DEF Range

\* An innermost call that returns has looked at everything.
LEMMA AllLookedAt ==
  ASSUME GraphOK, stack # <<>>, ~ More, NEW d \in DOMAIN Edges(Top)
  PROVE  d < Turn
  <1>1. Turn \in Nat
    BY Zenon, AdvancedFacts DEF GraphOK
  <1>2. PICK l \in Nat : l = Len(Edges(Top)) /\ DOMAIN Edges(Top) = 1 .. l
    BY Zenon, EdgesFacts
  <1>3. ~ (Turn <= l)
    BY Zenon, <1>2 DEF More, Innermost, Top, Turn
  <1> QED BY <1>1, <1>2, <1>3

\* The calls in progress after one more dependency has been looked at: those
\* before, the innermost one a step further, and possibly a new one.
LEMMA FramesAfter ==
  ASSUME GraphOK, More, NEW k \in Names,
         stack' = Advanced \/ stack' = Append(Advanced, Frame(k))
  PROVE  /\ \A i \in DOMAIN stack' :
              \/ i \in 1 .. Len(stack) - 1 /\ stack'[i] = stack[i]
              \/ i = Len(stack) /\ stack'[i].node = Top /\ stack'[i].next = Turn + 1
              \/ /\ i = Len(stack) + 1 /\ stack'[i].node = k /\ stack'[i].next = 1
                 /\ stack' = Append(Advanced, Frame(k))
         /\ DOMAIN stack' = 1 .. Len(stack) + (IF stack' = Advanced THEN 0 ELSE 1)
         /\ \A i \in 1 .. Len(stack) - 1 : i \in DOMAIN stack' /\ stack'[i] = stack[i]
         /\ Len(stack) \in DOMAIN stack'
         /\ stack'[Len(stack)].node = Top /\ stack'[Len(stack)].next = Turn + 1
         /\ stack' = Append(Advanced, Frame(k)) =>
              /\ Len(stack) + 1 \in DOMAIN stack'
              /\ stack'[Len(stack) + 1].node = k /\ stack'[Len(stack) + 1].next = 1
         /\ Grey' = IF stack' = Advanced THEN Grey ELSE Grey \cup {k}
  <1>1. PICK n \in Nat \ {0} : n = Len(stack)
    BY Zenon, AdvancedFacts DEF GraphOK, More
  <1>2. /\ DOMAIN stack = 1 .. n /\ Advanced \in Seq(FrameSet) /\ Len(Advanced) = n
        /\ DOMAIN Advanced = 1 .. n
        /\ \A i \in 1 .. n - 1 : Advanced[i] = stack[i]
        /\ Advanced[n].node = Top /\ Advanced[n].next = Turn + 1
    BY Zenon, <1>1, AdvancedFacts DEF GraphOK, More
  <1>3. /\ n \in 1 .. n /\ n \in 1 .. n + 1 /\ n + 1 \in 1 .. n + 1
        /\ \A i \in 1 .. n : i \in 1 .. n - 1 \/ i = n
        /\ \A i \in 1 .. n + 1 : i \in 1 .. n \/ i = n + 1
        /\ \A i \in 1 .. n - 1 : i \in 1 .. n /\ i \in 1 .. n + 1
        /\ \A i \in 1 .. n : i \in 1 .. n + 1
        /\ n + 0 = n /\ 1 .. n # 1 .. n + 1
    BY <1>1
  <1>4. \A i \in 1 .. n : Advanced[i].node = stack[i].node
    BY Zenon, <1>1, <1>2, <1>3 DEF Top
  <1>5. CASE stack' = Advanced
    <2>1. stack' # Append(Advanced, Frame(k))
      <3>1. DOMAIN Append(Advanced, Frame(k)) = 1 .. n + 1
        BY Zenon, <1>2, PushFacts
      <3> QED BY Zenon, <1>2, <1>3, <1>5, <3>1
    <2>2. Grey' = Grey
      BY Zenon, <1>2, <1>4, <1>5 DEF Grey
    <2> QED BY Zenon, <1>1, <1>2, <1>3, <1>5, <2>1, <2>2
  <1>6. CASE stack' = Append(Advanced, Frame(k))
    <2>1. /\ DOMAIN stack' = 1 .. n + 1
          /\ \A i \in 1 .. n : stack'[i] = Advanced[i]
          /\ stack'[n + 1].node = k /\ stack'[n + 1].next = 1
      BY Zenon, <1>2, <1>6, PushFacts
    <2>2. stack' # Advanced
      BY Zenon, <1>2, <1>3, <2>1
    <2>3. \A i \in 1 .. n : stack'[i].node = stack[i].node
      BY Zenon, <1>4, <2>1
    <2>4. ASSUME NEW x \in Grey'
          PROVE  x \in Grey \cup {k}
      <3>1. PICK i \in 1 .. n + 1 : x = stack'[i].node
        BY Zenon, <2>1, <2>4 DEF Grey
      <3>2. i = n + 1 \/ i \in 1 .. n
        BY Zenon, <1>3
      <3> QED BY Zenon, <1>2, <2>1, <2>3, <3>1, <3>2 DEF Grey
    <2>5. ASSUME NEW x \in Grey
          PROVE  x \in Grey'
      <3>1. PICK i \in 1 .. n : x = stack[i].node
        BY Zenon, <1>2, <2>5 DEF Grey
      <3> QED BY Zenon, <1>3, <2>1, <2>3, <3>1 DEF Grey
    <2>6. k \in Grey'
      BY Zenon, <1>3, <2>1 DEF Grey
    <2>7. Grey' = Grey \cup {k}
      BY Zenon, <2>4, <2>5, <2>6
    <2> QED BY Zenon, <1>1, <1>2, <1>3, <1>6, <2>1, <2>2, <2>7
  <1> QED BY Zenon, <1>5, <1>6

\* The calls in progress after the innermost has returned.
LEMMA FramesBefore ==
  ASSUME GraphOK, stack # <<>>, stack' = Callers
  PROVE  /\ Len(stack) \in Nat \ {0} /\ DOMAIN stack = 1 .. Len(stack)
         /\ DOMAIN stack' = 1 .. Len(stack) - 1
         /\ \A i \in DOMAIN stack' : i \in DOMAIN stack /\ stack'[i] = stack[i]
         /\ Grey' \subseteq Grey /\ Grey = Grey' \cup {Top}
  <1>1. PICK n \in Nat \ {0} : n = Len(stack)
    BY Zenon, CallersFacts DEF GraphOK
  <1>2. /\ DOMAIN stack = 1 .. n /\ DOMAIN stack' = 1 .. n - 1
        /\ \A i \in 1 .. n - 1 : stack'[i] = stack[i]
    BY Zenon, <1>1, CallersFacts DEF GraphOK
  <1>3. /\ n \in 1 .. n /\ \A i \in 1 .. n - 1 : i \in 1 .. n
        /\ \A i \in 1 .. n : i \in 1 .. n - 1 \/ i = n
    BY <1>1
  <1>4. Grey' \subseteq Grey
    BY Zenon, <1>2, <1>3 DEF Grey
  <1>5. Top \in Grey
    BY Zenon, <1>1, <1>2, <1>3 DEF Grey, Top
  <1>6. Grey \subseteq Grey' \cup {Top}
    BY Zenon, <1>1, <1>2, <1>3 DEF Grey, Top
  <1> QED BY Zenon, <1>1, <1>2, <1>3, <1>4, <1>5, <1>6

\* The dependencies of a name stay what they are.
LEMMA EdgesStay ==
  ASSUME edges' = edges
  PROVE  \A k : Edges(k)' = Edges(k)
  BY Zenon DEF Edges

\* Dependencies' step to a dependency of the innermost call keeps ReachInv.
LEMMA LookReach ==
  ASSUME GraphOK, ReachInv, Look
  PROVE  ReachInv'
  <1>1. /\ key # NoKey /\ More /\ seen' = seen \cup {Dependency}
        /\ Dependency \in seen => stack' = Advanced
        /\ Dependency \notin seen => stack' = Append(Advanced, Frame(Dependency))
        /\ edges' = edges /\ key' = key /\ calls' = calls
    BY Zenon DEF Look
  <1>2. PICK k \in Names : k = Dependency
    BY Zenon, <1>1, DependencyFacts
  <1>3. /\ stack # <<>> /\ Turn \in DOMAIN Edges(Top) /\ k = Edges(Top)[Turn]
    BY Zenon, <1>1, <1>2, DependencyFacts
  <1>4. \A x : Edges(x)' = Edges(x)
    BY Zenon, <1>1, EdgesStay
  <1>5. /\ calls = 0 /\ Grey \subseteq seen \cup {key}
        /\ \A x \in seen \cup {key} : x \in Grey \/ Range(Edges(x)) \subseteq seen
        /\ \A i \in DOMAIN stack : \A d \in DOMAIN Edges(stack[i].node) :
             d < stack[i].next => Edges(stack[i].node)[d] \in seen
        /\ \A T \in SUBSET Names : Closed(T) => seen \subseteq T
    BY Zenon, <1>1 DEF ReachInv
  <1>6. /\ Turn \in Nat \ {0} /\ Len(stack) \in Nat \ {0} /\ DOMAIN stack = 1 .. Len(stack)
    BY Zenon, <1>3, AdvancedFacts DEF GraphOK
  <1>7. Len(stack) \in DOMAIN stack /\ \A i \in 1 .. Len(stack) - 1 : i \in DOMAIN stack
    <2>1. PICK n \in Nat \ {0} : n = Len(stack)
      BY Zenon, <1>6
    <2>2. n \in 1 .. n /\ \A i \in 1 .. n - 1 : i \in 1 .. n
      OBVIOUS
    <2> QED BY Zenon, <1>6, <2>1, <2>2
  <1>8. Top \in Grey
    BY Zenon, <1>7 DEF Grey, Top
  <1>9. /\ \A i \in DOMAIN stack' :
             \/ i \in 1 .. Len(stack) - 1 /\ stack'[i] = stack[i]
             \/ stack'[i].node = Top /\ stack'[i].next = Turn + 1
             \/ stack'[i].node = k /\ stack'[i].next = 1
        /\ Grey' = IF stack' = Advanced THEN Grey ELSE Grey \cup {k}
    BY Zenon, <1>1, <1>2, FramesAfter
  <1>10. Grey' \subseteq seen' \cup {key}
    BY Zenon, <1>1, <1>2, <1>5, <1>9
  <1>11. ASSUME NEW x \in seen' \cup {key}
         PROVE  x \in Grey' \/ Range(Edges(x)) \subseteq seen'
    <2>1. CASE x \in seen \cup {key}
      BY Zenon, <1>1, <1>5, <1>9, <2>1
    <2>2. CASE x \notin seen \cup {key}
      <3>1. x = k /\ Dependency \notin seen
        BY Zenon, <1>1, <1>2, <1>11, <2>2
      <3>2. Grey' = Grey \/ Grey' = Grey \cup {k}
        BY Zenon, <1>9
      <3>3. Len(stack) + 1 \in DOMAIN stack' /\ stack'[Len(stack) + 1].node = k
        BY Zenon, <1>1, <1>2, <3>1, FramesAfter
      <3>4. k \in Grey'
        BY Zenon, <3>3 DEF Grey
      <3> QED BY Zenon, <3>1, <3>4
    <2> QED BY Zenon, <2>1, <2>2
  <1>12. ASSUME NEW i \in DOMAIN stack', NEW d \in DOMAIN Edges(stack'[i].node),
                d < stack'[i].next
         PROVE  Edges(stack'[i].node)[d] \in seen'
    <2>1. CASE i \in 1 .. Len(stack) - 1 /\ stack'[i] = stack[i]
      BY Zenon, <1>1, <1>5, <1>7, <1>12, <2>1
    <2>2. CASE stack'[i].node = Top /\ stack'[i].next = Turn + 1
      <3>1. d \in DOMAIN Edges(Top) /\ d < Turn + 1 /\ d \in Nat
        BY Zenon, <1>12, <2>2, EdgesFacts
      <3>2. d < Turn \/ d = Turn
        BY <1>6, <3>1
      <3>3. CASE d < Turn
        BY Zenon, <1>1, <1>5, <1>7, <2>2, <3>1, <3>3 DEF Top, Turn
      <3>4. CASE d = Turn
        BY Zenon, <1>1, <1>2, <1>3, <2>2, <3>4
      <3> QED BY Zenon, <3>2, <3>3, <3>4
    <2>3. CASE stack'[i].node = k /\ stack'[i].next = 1
      BY Zenon, <1>12, <2>3, EdgesFacts
    <2> QED BY Zenon, <1>9, <2>1, <2>2, <2>3
  <1>13. ASSUME NEW T \in SUBSET Names, Closed(T)'
         PROVE  seen' \subseteq T
    <2>1. Closed(T)
      BY Zenon, <1>1, <1>4, <1>13 DEF Closed
    <2>2. seen \subseteq T /\ Top \in T \cup {key}
      BY Zenon, <1>5, <1>8, <2>1
    <2>3. k \in Range(Edges(Top))
      BY Zenon, <1>3 DEF Range
    <2> QED BY Zenon, <1>1, <1>2, <2>1, <2>2, <2>3 DEF Closed
  <1> QED BY Zenon, <1>1, <1>4, <1>5, <1>10, <1>11, <1>12, <1>13 DEF ReachInv

\* Dependencies' return from a call keeps ReachInv.
LEMMA LeaveReach ==
  ASSUME GraphOK, ReachInv, Leave
  PROVE  ReachInv'
  <1>1. /\ key # NoKey /\ stack # <<>> /\ ~ More /\ stack' = Callers /\ seen' = seen
        /\ edges' = edges /\ key' = key /\ calls' = calls
    BY Zenon DEF Leave
  <1>2. \A x : Edges(x)' = Edges(x)
    BY Zenon, <1>1, EdgesStay
  <1>3. /\ calls = 0 /\ Grey \subseteq seen \cup {key}
        /\ \A x \in seen \cup {key} : x \in Grey \/ Range(Edges(x)) \subseteq seen
        /\ \A i \in DOMAIN stack : \A d \in DOMAIN Edges(stack[i].node) :
             d < stack[i].next => Edges(stack[i].node)[d] \in seen
        /\ \A T \in SUBSET Names : Closed(T) => seen \subseteq T
    BY Zenon, <1>1 DEF ReachInv
  <1>4. /\ \A i \in DOMAIN stack' : i \in DOMAIN stack /\ stack'[i] = stack[i]
        /\ Grey' \subseteq Grey /\ Grey = Grey' \cup {Top}
        /\ Len(stack) \in Nat \ {0} /\ DOMAIN stack = 1 .. Len(stack)
    BY Zenon, <1>1, FramesBefore
  <1>5. Len(stack) \in DOMAIN stack
    BY <1>4
  <1>6. Range(Edges(Top)) \subseteq seen
    <2>1. \A d \in DOMAIN Edges(Top) : Edges(Top)[d] \in seen
      BY Zenon, <1>1, <1>3, <1>5, AllLookedAt DEF Top, Turn
    <2> QED BY Zenon, <2>1 DEF Range
  <1>7. \A x \in seen' \cup {key} : x \in Grey' \/ Range(Edges(x)) \subseteq seen'
    BY Zenon, <1>1, <1>3, <1>4, <1>6
  <1>8. Grey' \subseteq seen' \cup {key}
    BY Zenon, <1>1, <1>3, <1>4
  <1>9. \A i \in DOMAIN stack' : \A d \in DOMAIN Edges(stack'[i].node) :
          d < stack'[i].next => Edges(stack'[i].node)[d] \in seen'
    BY Zenon, <1>1, <1>3, <1>4
  <1>10. \A T \in SUBSET Names : Closed(T)' => seen' \subseteq T
    BY Zenon, <1>1, <1>2, <1>3 DEF Closed
  <1> QED BY Zenon, <1>1, <1>2, <1>3, <1>7, <1>8, <1>9, <1>10 DEF ReachInv

\* What is said of black nodes only stays as long as they do.
LEMMA BlackStays ==
  ASSUME edges' = edges, Black' = Black, BlackClosed, NoBlackCycle
  PROVE  BlackClosed' /\ NoBlackCycle'
  <1>1. \A x : Edges(x)' = Edges(x)
    BY Zenon, EdgesStay
  <1>2. BlackClosed'
    BY Zenon, <1>1 DEF BlackClosed
  <1>3. NoBlackCycle'
    BY Zenon DEF NoBlackCycle
  <1> QED BY Zenon, <1>2, <1>3

\* Entering a node makes nothing black.
LEMMA EnteringBlackens ==
  ASSUME NEW k \in Names, colour[k] = 0, colour'[k] = 1,
         \A x \in Names \ {k} : colour'[x] = colour[x]
  PROVE  Black' = Black
  <1>1. colour[k] # 2 /\ colour'[k] # 2
    OBVIOUS
  <1> QED BY Zenon, <1>1 DEF Black

\* visit at the start of a path.
LEMMA RootSearchOK ==
  ASSUME GraphOK, SearchOK, stack = <<>>, NEW k \in roots, roots' = roots \ {k}, Visit(k, <<>>)
  PROVE  ~ cycle' /\ SearchOK'
  <1>1. k \in Names
    BY Zenon DEF GraphOK
  <1>2. Grey = {}
    BY DEF Grey
  <1>3. colour[k] # 1
    BY Zenon, <1>1, <1>2 DEF SearchOK, OnPath
  <1>4. /\ edges' = edges
        /\ \/ /\ colour[k] = 0 /\ ~ cycle' /\ stack' = Append(<<>>, Frame(k))
              /\ colour' \in [Names -> 0 .. 2] /\ colour'[k] = 1
              /\ \A x \in Names \ {k} : colour'[x] = colour[x]
           \/ colour[k] = 2 /\ ~ cycle' /\ stack' = <<>> /\ colour' = colour
    BY Zenon, <1>1, <1>3, VisitOutcomes
  <1>5. CASE colour[k] = 2 /\ stack' = <<>> /\ colour' = colour
    <2>1. Black' = Black /\ Grey' = Grey
      BY Zenon, <1>5 DEF Black, Grey
    <2>2. DOMAIN stack' = {}
      BY <1>5
    <2>3. OnPath' /\ LookedAt'
      BY Zenon, <1>5, <2>1, <2>2 DEF SearchOK, OnPath, LookedAt
    <2>4. colour[k] # 0
      BY <1>5
    <2>5. RootsMet'
      BY Zenon, <1>4, <1>5, <2>4 DEF SearchOK, RootsMet
    <2> QED BY Zenon, <1>4, <1>5, <2>1, <2>3, <2>5, BlackStays DEF SearchOK
  <1>6. CASE /\ colour[k] = 0 /\ stack' = Append(<<>>, Frame(k)) /\ colour'[k] = 1
             /\ \A x \in Names \ {k} : colour'[x] = colour[x]
    <2>1. Black' = Black
      BY Zenon, <1>1, <1>6, EnteringBlackens
    <2>2. DOMAIN stack' = {1} /\ stack'[1].node = k /\ stack'[1].next = 1
      BY <1>6 DEF Frame
    <2>3. Grey' = {k}
      BY Zenon, <2>2 DEF Grey
    <2>4. \A x \in Names : colour'[x] = 1 <=> x \in Grey'
      BY Zenon, <1>2, <1>6, <2>3 DEF SearchOK, OnPath
    <2>5. \A i \in DOMAIN stack' : i + 1 \notin DOMAIN stack'
      BY <2>2
    <2>6. OnPath'
      BY Zenon, <2>2, <2>4, <2>5 DEF OnPath
    <2>7. \A x : Edges(x)' = Edges(x)
      BY Zenon, <1>4, EdgesStay
    <2>8. LookedAt'
      BY Zenon, <2>2, <2>7, EdgesFacts DEF LookedAt
    <2>9. colour'[k] # 0
      BY <1>6
    <2>10. RootsMet'
      BY Zenon, <1>4, <1>6, <2>9 DEF SearchOK, RootsMet, GraphOK
    <2> QED BY Zenon, <1>4, <2>1, <2>6, <2>8, <2>10, BlackStays DEF SearchOK
  <1> QED BY Zenon, <1>4, <1>5, <1>6

\* The nodes on the path, when the innermost call depends on one of them, all
\* depend on one another.
LEMMA PathIsCycle ==
  ASSUME GraphOK, OnPath, More, colour[Dependency] = 1
  PROVE  Cyclic
  <1>1. PICK n \in Nat \ {0} : n = Len(stack) /\ DOMAIN stack = 1 .. n
    BY Zenon, AdvancedFacts DEF GraphOK, More
  <1>2. /\ Top \in DOMAIN edges /\ Turn \in DOMAIN edges[Top]
        /\ Dependency = edges[Top][Turn] /\ Dependency \in Names
    BY Zenon, DependencyFacts
  <1>3. n \in 1 .. n /\ \A i \in 1 .. n : i = n \/ i + 1 \in 1 .. n
    BY <1>1
  <1>4. Dependency \in Grey /\ Top \in Grey
    BY Zenon, <1>1, <1>2, <1>3 DEF OnPath, Grey, Top
  <1>5. ASSUME NEW x \in Grey
        PROVE  x \in DOMAIN edges /\ Range(edges[x]) \cap Grey # {}
    <2>1. PICK i \in 1 .. n : x = stack[i].node
      BY Zenon, <1>1, <1>5 DEF Grey
    <2>2. CASE i = n
      <3>1. x = Top
        BY Zenon, <1>1, <2>1, <2>2 DEF Top
      <3> QED BY Zenon, <1>2, <1>4, <3>1 DEF Range
    <2>3. CASE i + 1 \in 1 .. n
      <3>1. PICK d \in DOMAIN Edges(x) : Edges(x)[d] = stack[i + 1].node
        BY Zenon, <1>1, <2>1, <2>3 DEF OnPath
      <3>2. x \in DOMAIN edges
        <4>1. ASSUME x \notin DOMAIN edges
              PROVE  FALSE
          <5>1. DOMAIN Edges(x) = DOMAIN <<>>
            BY Zenon, <4>1 DEF Edges
          <5>2. DOMAIN <<>> = {}
            OBVIOUS
          <5> QED BY Zenon, <3>1, <5>1, <5>2
        <4> QED BY Zenon, <4>1
      <3>3. d \in DOMAIN edges[x] /\ edges[x][d] = stack[i + 1].node
        BY Zenon, <3>1, <3>2 DEF Edges
      <3>4. stack[i + 1].node \in Grey
        BY Zenon, <1>1, <2>3 DEF Grey
      <3> QED BY Zenon, <3>2, <3>3, <3>4 DEF Range
    <2> QED BY Zenon, <1>3, <2>1, <2>2, <2>3
  <1> QED BY Zenon, <1>4, <1>5 DEF Cyclic

\* visit called from a call in progress, on a node that is not on the path.
LEMMA NextSearchOK ==
  ASSUME GraphOK, SearchOK, More, roots' = roots, Visit(Dependency, Advanced),
         colour[Dependency] # 1
  PROVE  ~ cycle' /\ SearchOK'
  <1>1. PICK k \in Names : k = Dependency
    BY Zenon, DependencyFacts
  <1>2. /\ edges' = edges /\ ~ cycle'
        /\ \/ /\ colour[k] = 0 /\ stack' = Append(Advanced, Frame(k)) /\ colour'[k] = 1
              /\ \A x \in Names \ {k} : colour'[x] = colour[x]
           \/ colour[k] = 2 /\ stack' = Advanced /\ colour' = colour
    BY Zenon, <1>1, VisitOutcomes
  <1>3. PICK n \in Nat \ {0} : n = Len(stack) /\ DOMAIN stack = 1 .. n
    BY Zenon, AdvancedFacts DEF GraphOK, More
  <1>4. /\ Turn \in DOMAIN Edges(Top) /\ Edges(Top)[Turn] = k /\ Turn \in Nat
    BY Zenon, <1>1, DependencyFacts, EdgesFacts
  <1>5. /\ n \in 1 .. n /\ n + 1 \notin 1 .. n
        /\ \A i \in 1 .. n : i = n \/ (i \in 1 .. n - 1 /\ i + 1 \in 1 .. n)
        /\ \A i \in 1 .. n - 1 : i + 1 \in 1 .. n - 1 \/ i + 1 = n
        /\ \A i \in 1 .. n - 1 : i \in 1 .. n /\ i # n
        /\ n + 1 # n /\ \A i \in 1 .. n - 1 : i # n + 1
        /\ (Turn + 1) - 1 = Turn
        /\ \A d \in Nat : d < Turn + 1 => d < Turn \/ d = Turn
    BY <1>3, <1>4
  <1>6. /\ \A i \in DOMAIN stack' :
             \/ i \in 1 .. n - 1 /\ stack'[i] = stack[i]
             \/ i = n /\ stack'[i].node = Top /\ stack'[i].next = Turn + 1
             \/ /\ i = n + 1 /\ stack'[i].node = k /\ stack'[i].next = 1
                /\ stack' = Append(Advanced, Frame(k))
        /\ \A i \in 1 .. n - 1 : i \in DOMAIN stack' /\ stack'[i] = stack[i]
        /\ n \in DOMAIN stack' /\ stack'[n].node = Top /\ stack'[n].next = Turn + 1
        /\ stack' = Append(Advanced, Frame(k)) =>
             n + 1 \in DOMAIN stack' /\ stack'[n + 1].node = k /\ stack'[n + 1].next = 1
        /\ Grey' = IF stack' = Advanced THEN Grey ELSE Grey \cup {k}
    BY Zenon, <1>1, <1>2, <1>3, FramesAfter
  <1>7. Top = stack[n].node /\ Turn = stack[n].next
    BY Zenon, <1>3 DEF Top, Turn
  <1>8. \A x : Edges(x)' = Edges(x)
    BY Zenon, <1>2, EdgesStay
  <1>9. Black' = Black
    <2>1. CASE colour' = colour
      BY Zenon, <2>1 DEF Black
    <2>2. CASE /\ colour[k] = 0 /\ colour'[k] = 1
               /\ \A x \in Names \ {k} : colour'[x] = colour[x]
      BY Zenon, <1>1, <2>2, EnteringBlackens
    <2> QED BY Zenon, <1>2, <2>1, <2>2
  <1>10. /\ \A x \in Names : colour[x] = 1 <=> x \in Grey
         /\ \A i, j \in 1 .. n : stack[i].node = stack[j].node => i = j
         /\ \A i \in 1 .. n : i + 1 \in 1 .. n =>
              /\ stack[i].next - 1 \in DOMAIN Edges(stack[i].node)
              /\ Edges(stack[i].node)[stack[i].next - 1] = stack[i + 1].node
    BY Zenon, <1>3 DEF SearchOK, OnPath
  <1>11. \A i \in 1 .. n : stack'[i].node = stack[i].node
    BY Zenon, <1>5, <1>6, <1>7
  <1>12. colour[k] = 0 => k \notin Grey
    <2>1. colour[k] = 0 => colour[k] # 1
      OBVIOUS
    <2> QED BY Zenon, <1>10, <2>1
  <1>13. \A x \in Names : colour'[x] = 1 <=> x \in Grey'
    <2>1. CASE colour[k] = 2 /\ stack' = Advanced /\ colour' = colour
      BY Zenon, <1>6, <1>10, <2>1
    <2>2. CASE /\ colour[k] = 0 /\ stack' = Append(Advanced, Frame(k)) /\ colour'[k] = 1
               /\ \A x \in Names \ {k} : colour'[x] = colour[x]
      <3>1. k \in Grey'
        BY Zenon, <1>6, <2>2 DEF Grey
      <3>2. Grey' = Grey \cup {k}
        BY Zenon, <1>6, <1>12, <2>2, <3>1
      <3> QED BY Zenon, <1>10, <2>2, <3>2
    <2> QED BY Zenon, <1>2, <2>1, <2>2
  <1>14. \A i \in DOMAIN stack' : i \in 1 .. n \/ (i = n + 1 /\ stack'[i].node \notin Grey)
    <2>1. ASSUME stack' = Append(Advanced, Frame(k))
          PROVE  k \notin Grey
      <3>1. DOMAIN Append(Advanced, Frame(k)) # DOMAIN Advanced
        <4>1. Advanced \in Seq(FrameSet) /\ DOMAIN Advanced = 1 .. n /\ Len(Advanced) = n
          BY Zenon, <1>3, AdvancedFacts DEF GraphOK, More
        <4>2. /\ DOMAIN Append(Advanced, Frame(k)) = 1 .. n + 1 /\ DOMAIN Advanced = 1 .. n
          BY Zenon, <1>1, <4>1, PushFacts
        <4>3. n + 1 \in 1 .. n + 1
          BY <1>3
        <4> QED BY Zenon, <1>5, <4>2, <4>3
      <3> QED BY Zenon, <1>2, <1>12, <2>1, <3>1
    <2> QED BY Zenon, <1>5, <1>6, <2>1
  <1>15. \A i \in 1 .. n : stack'[i].node \in Grey
    BY Zenon, <1>3, <1>11 DEF Grey
  <1>16. \A i, j \in DOMAIN stack' : stack'[i].node = stack'[j].node => i = j
    <2> SUFFICES ASSUME NEW i \in DOMAIN stack', NEW j \in DOMAIN stack',
                        stack'[i].node = stack'[j].node
                 PROVE  i = j
      BY Zenon
    <2>1. CASE i \in 1 .. n /\ j \in 1 .. n
      BY Zenon, <1>10, <1>11, <2>1
    <2>2. CASE ~ (i \in 1 .. n /\ j \in 1 .. n)
      BY Zenon, <1>14, <1>15, <2>2
    <2> QED BY Zenon, <2>1, <2>2
  <1>17. ASSUME NEW i \in DOMAIN stack', i + 1 \in DOMAIN stack'
         PROVE  /\ stack'[i].next - 1 \in DOMAIN Edges(stack'[i].node)
                /\ Edges(stack'[i].node)[stack'[i].next - 1] = stack'[i + 1].node
    <2>1. CASE i \in 1 .. n - 1 /\ stack'[i] = stack[i]
      <3>1. i \in 1 .. n /\ i + 1 \in 1 .. n
        BY Zenon, <1>5, <2>1
      <3> QED BY Zenon, <1>10, <1>11, <2>1, <3>1
    <2>2. CASE i = n /\ stack'[i].node = Top /\ stack'[i].next = Turn + 1
      <3>1. stack'[i + 1].node = k
        BY Zenon, <1>5, <1>6, <1>17, <2>2
      <3>2. stack'[i].next - 1 = Turn
        BY Zenon, <1>5, <2>2
      <3> QED BY Zenon, <1>4, <2>2, <3>1, <3>2
    <2>3. CASE i = n + 1
      <3>1. /\ \A j \in 1 .. n - 1 : j # (n + 1) + 1
            /\ (n + 1) + 1 # n /\ (n + 1) + 1 # n + 1
        BY <1>3
      <3> QED BY Zenon, <1>6, <1>17, <2>3, <3>1
    <2> QED BY Zenon, <1>6, <2>1, <2>2, <2>3
  <1>18. OnPath'
    BY Zenon, <1>8, <1>13, <1>16, <1>17 DEF OnPath
  <1>19. ASSUME NEW i \in DOMAIN stack', NEW d \in DOMAIN Edges(stack'[i].node), d < stack'[i].next
         PROVE  \/ Edges(stack'[i].node)[d] \in Black
                \/ i + 1 \in DOMAIN stack' /\ Edges(stack'[i].node)[d] = stack'[i + 1].node
    <2>1. CASE i \in 1 .. n - 1 /\ stack'[i] = stack[i]
      <3>1. i \in 1 .. n /\ i + 1 \in 1 .. n /\ i + 1 \in DOMAIN stack'
        BY Zenon, <1>5, <1>6, <2>1
      <3>2. \/ Edges(stack[i].node)[d] \in Black
            \/ Edges(stack[i].node)[d] = stack[i + 1].node
        BY Zenon, <1>3, <1>19, <2>1, <3>1 DEF SearchOK, LookedAt
      <3> QED BY Zenon, <1>11, <2>1, <3>1, <3>2
    <2>2. CASE i = n /\ stack'[i].node = Top /\ stack'[i].next = Turn + 1
      <3>1. d \in DOMAIN Edges(Top) /\ d < Turn + 1 /\ d \in Nat
        BY Zenon, <1>19, <2>2, EdgesFacts
      <3>2. d < Turn \/ d = Turn
        BY Zenon, <1>5, <3>1
      <3>3. CASE d < Turn
        BY Zenon, <1>3, <1>5, <1>7, <2>2, <3>1, <3>3 DEF SearchOK, LookedAt
      <3>4. CASE d = Turn
        BY Zenon, <1>1, <1>2, <1>4, <1>6, <2>2, <3>4 DEF Black
      <3> QED BY Zenon, <3>2, <3>3, <3>4
    <2>3. CASE stack'[i].next = 1
      BY Zenon, <1>19, <2>3, EdgesFacts
    <2> QED BY Zenon, <1>6, <2>1, <2>2, <2>3
  <1>20. LookedAt'
    BY Zenon, <1>8, <1>9, <1>19 DEF LookedAt
  <1>21. RootsMet'
    <2>1. colour'[k] = 1 => colour'[k] # 0
      OBVIOUS
    <2> QED BY Zenon, <1>2, <2>1 DEF SearchOK, RootsMet, GraphOK
  <1> QED BY Zenon, <1>2, <1>9, <1>18, <1>20, <1>21, BlackStays DEF SearchOK

\* The return of the innermost call: its node becomes black.
LEMMA ReturnSearchOK ==
  ASSUME GraphOK, SearchOK, Return
  PROVE  SearchOK' /\ Black' = Black \cup {Top}
  <1>1. /\ edges' = edges /\ roots' = roots /\ stack # <<>> /\ ~ More
        /\ Top \in Names /\ stack' = Callers /\ colour'[Top] = 2
        /\ \A x \in Names \ {Top} : colour'[x] = colour[x]
    BY Zenon, ReturnOutcome
  <1>2. PICK n \in Nat \ {0} : n = Len(stack) /\ DOMAIN stack = 1 .. n
    BY Zenon, <1>1, CallersFacts DEF GraphOK
  <1>3. /\ DOMAIN stack' = 1 .. n - 1
        /\ \A i \in DOMAIN stack' : i \in DOMAIN stack /\ stack'[i] = stack[i]
        /\ Grey' \subseteq Grey /\ Grey = Grey' \cup {Top}
    BY Zenon, <1>1, <1>2, FramesBefore
  <1>4. /\ n \in 1 .. n /\ n \notin 1 .. n - 1 /\ n + 1 \notin 1 .. n
        /\ \A i \in 1 .. n - 1 : i \in 1 .. n /\ i + 1 \in 1 .. n /\ (i + 1 \in 1 .. n - 1 \/ i + 1 = n)
    BY <1>2
  <1>5. Top = stack[n].node /\ Turn = stack[n].next
    BY Zenon, <1>2 DEF Top, Turn
  <1>6. \A x : Edges(x)' = Edges(x)
    BY Zenon, <1>1, EdgesStay
  <1>7. /\ \A x \in Names : colour[x] = 1 <=> x \in Grey
        /\ \A i, j \in 1 .. n : stack[i].node = stack[j].node => i = j
        /\ \A i \in 1 .. n : i + 1 \in 1 .. n =>
             /\ stack[i].next - 1 \in DOMAIN Edges(stack[i].node)
             /\ Edges(stack[i].node)[stack[i].next - 1] = stack[i + 1].node
    BY Zenon, <1>2 DEF SearchOK, OnPath
  <1>8. colour[Top] = 1 /\ Top \notin Black
    <2>1. colour[Top] = 1
      BY Zenon, <1>1, <1>3, <1>7
    <2>2. colour[Top] # 2
      BY <2>1
    <2> QED BY Zenon, <2>1, <2>2 DEF Black
  <1>9. Black' = Black \cup {Top}
    BY Zenon, <1>1 DEF Black
  <1>10. Top \notin Grey'
    <2>1. ASSUME Top \in Grey'
          PROVE  FALSE
      <3>1. PICK i \in 1 .. n - 1 : stack'[i].node = Top
        BY Zenon, <1>3, <2>1 DEF Grey
      <3>2. stack[i].node = stack[n].node /\ i \in 1 .. n
        BY Zenon, <1>3, <1>4, <1>5, <3>1
      <3>3. i = n
        BY Zenon, <1>4, <1>7, <3>2
      <3> QED BY Zenon, <1>4, <3>3
    <2> QED BY Zenon, <2>1
  <1>11. \A x \in Names : colour'[x] = 1 <=> x \in Grey'
    <2>1. colour'[Top] # 1
      BY <1>1
    <2> QED BY Zenon, <1>1, <1>3, <1>7, <1>10, <2>1
  <1>12. OnPath'
    <2>1. \A i, j \in DOMAIN stack' : stack'[i].node = stack'[j].node => i = j
      BY Zenon, <1>2, <1>3, <1>7
    <2>2. \A i \in DOMAIN stack' : i + 1 \in DOMAIN stack' =>
            /\ stack'[i].next - 1 \in DOMAIN Edges(stack'[i].node)
            /\ Edges(stack'[i].node)[stack'[i].next - 1] = stack'[i + 1].node
      BY Zenon, <1>2, <1>3, <1>7
    <2> QED BY Zenon, <1>6, <1>11, <2>1, <2>2 DEF OnPath
  <1>13. ASSUME NEW i \in DOMAIN stack', NEW d \in DOMAIN Edges(stack'[i].node), d < stack'[i].next
         PROVE  \/ Edges(stack'[i].node)[d] \in Black'
                \/ i + 1 \in DOMAIN stack' /\ Edges(stack'[i].node)[d] = stack'[i + 1].node
    <2>1. stack'[i] = stack[i] /\ i \in DOMAIN stack /\ i \in 1 .. n - 1
      BY Zenon, <1>3
    <2>2. Edges(stack[i].node)[d] \in Black \/ Edges(stack[i].node)[d] = stack[i + 1].node
      BY Zenon, <1>13, <2>1 DEF SearchOK, LookedAt
    <2>3. (i + 1 \in DOMAIN stack' /\ stack'[i + 1] = stack[i + 1]) \/ stack[i + 1].node = Top
      BY Zenon, <1>3, <1>4, <1>5, <2>1
    <2> QED BY Zenon, <1>9, <2>1, <2>2, <2>3
  <1>14. LookedAt'
    BY Zenon, <1>6, <1>13 DEF LookedAt
  <1>15. Range(Edges(Top)) \subseteq Black
    <2>1. ASSUME NEW d \in DOMAIN Edges(Top)
          PROVE  Edges(Top)[d] \in Black
      <3>1. d < Turn
        BY Zenon, <1>1, AllLookedAt
      <3> QED BY Zenon, <1>2, <1>4, <1>5, <3>1 DEF SearchOK, LookedAt
    <2> QED BY Zenon, <2>1 DEF Range
  <1>16. BlackClosed'
    BY Zenon, <1>6, <1>9, <1>15 DEF SearchOK, BlackClosed
  <1>17. ASSUME NEW S \in SUBSET (Black' \cap DOMAIN edges), S # {},
                \A x \in S : Range(edges[x]) \cap S # {}
         PROVE  FALSE
    <2>1. \A x \in DOMAIN edges : Edges(x) = edges[x]
      BY Zenon DEF Edges
    <2>2. CASE Top \notin S
      <3>1. S \in SUBSET (Black \cap DOMAIN edges)
        BY Zenon, <1>9, <2>2
      <3> QED BY Zenon, <1>17, <3>1 DEF SearchOK, NoBlackCycle
    <2>3. CASE Top \in S
      <3> DEFINE R == S \ {Top}
      <3>1. R \in SUBSET (Black \cap DOMAIN edges)
        BY Zenon, <1>9
      <3>2. PICK y : y \in Range(edges[Top]) /\ y \in S
        BY Zenon, <1>17, <2>3
      <3>3. y \in Black
        BY Zenon, <1>15, <2>1, <2>3, <3>2
      <3>4. R # {}
        <4>1. y \in R
          BY Zenon, <1>8, <3>2, <3>3
        <4> QED BY Zenon, <4>1
      <3>5. ASSUME NEW x \in R
            PROVE  Range(edges[x]) \cap R # {}
        <4>1. PICK z : z \in Range(edges[x]) /\ z \in S
          BY Zenon, <1>17
        <4>2. z \in Black
          BY Zenon, <2>1, <3>1, <4>1 DEF SearchOK, BlackClosed
        <4>3. z \in R
          BY Zenon, <1>8, <4>1, <4>2
        <4> QED BY Zenon, <4>1, <4>3
      <3> HIDE DEF R
      <3> QED BY Zenon, <3>1, <3>4, <3>5 DEF SearchOK, NoBlackCycle
    <2> QED BY Zenon, <2>2, <2>3
  <1>18. NoBlackCycle'
    BY Zenon, <1>1, <1>17 DEF NoBlackCycle
  <1>19. RootsMet'
    <2>1. 2 # 0
      OBVIOUS
    <2> QED BY Zenon, <1>1, <2>1 DEF SearchOK, RootsMet, GraphOK
  <1> QED BY Zenon, <1>9, <1>12, <1>14, <1>16, <1>18, <1>19 DEF SearchOK

\* There are finitely many nodes and dependencies.
LEMMA LinksFinite ==
  ASSUME GraphOK
  PROVE  IsFiniteSet(DOMAIN edges) /\ IsFiniteSet(Links)
  <1>1. IsFiniteSet(DOMAIN edges)
    BY Zenon, GraphAssumption, FS_Subset DEF GraphOK
  <1> DEFINE U == {{k} \X DOMAIN edges[k] : k \in DOMAIN edges}
             f == [k \in DOMAIN edges |-> {k} \X DOMAIN edges[k]]
  <1>2. f \in Surjection(DOMAIN edges, U)
    BY Zenon DEF Surjection
  <1>3. IsFiniteSet(U)
    <2> HIDE DEF U, f
    <2> QED BY Zenon, <1>1, <1>2, FS_Surjection
  <1>4. ASSUME NEW k \in DOMAIN edges
        PROVE  IsFiniteSet({k} \X DOMAIN edges[k])
    <2>1. PICK l \in Nat : DOMAIN edges[k] = 1 .. l
      <3>1. edges[k] \in Seq(Names)
        BY Zenon DEF GraphOK
      <3> QED BY Zenon, <3>1, LenProperties
    <2>2. IsFiniteSet(1 .. l)
      <3>1. 1 \in Int /\ l \in Int
        OBVIOUS
      <3> QED BY Zenon, <3>1, FS_Interval
    <2> QED BY Zenon, <2>1, <2>2, FS_Singleton, FS_Product
  <1>5. \A T \in U : IsFiniteSet(T)
    BY Zenon, <1>4
  <1>6. Links = UNION U
    BY Zenon DEF Links
  <1> HIDE DEF U
  <1>7. IsFiniteSet(UNION U)
    BY Zenon, <1>3, <1>5, FS_UNION
  <1> QED BY Zenon, <1>1, <1>6, <1>7

\* One element more.
LEMMA OneMore ==
  ASSUME NEW S, IsFiniteSet(S), NEW T \in SUBSET S, NEW x \in S \ T
  PROVE  /\ Cardinality(T) \in Nat /\ Cardinality(T \cup {x}) = Cardinality(T) + 1
         /\ Cardinality(T) + 1 <= Cardinality(S) /\ Cardinality(S) \in Nat
  <1>1. IsFiniteSet(T)
    BY Zenon, FS_Subset
  <1>2. Cardinality(T \cup {x}) = Cardinality(T) + 1
    BY Zenon, <1>1, FS_AddElement
  <1>3. T \cup {x} \in SUBSET S
    BY Zenon
  <1>4. Cardinality(T \cup {x}) <= Cardinality(S)
    BY Zenon, <1>3, FS_Subset
  <1> QED BY Zenon, <1>1, <1>2, <1>4, FS_CardinalityType

\* HasCycle calls visit not more than once for a root and for a dependency.
LEMMA CountBounds ==
  ASSUME GraphOK, CallsCounted
  PROVE  CallsBound
  <1>1. IsFiniteSet(DOMAIN edges) /\ IsFiniteSet(Links)
    BY Zenon, LinksFinite
  <1>2. DOMAIN edges \ roots \in SUBSET DOMAIN edges /\ Followed \in SUBSET Links
    BY Zenon DEF Followed
  <1>3. PICK a, b, c, d : /\ a = Cardinality(DOMAIN edges \ roots) /\ b = Cardinality(DOMAIN edges)
                          /\ c = Cardinality(Followed) /\ d = Cardinality(Links)
    BY Zenon
  <1>4. a <= b /\ c <= d
    BY Zenon, <1>1, <1>2, <1>3, FS_Subset
  <1>5. a \in Nat /\ b \in Nat /\ c \in Nat /\ d \in Nat
    BY Zenon, <1>1, <1>2, <1>3, FS_Subset, FS_CardinalityType
  <1>6. a + c <= b + d
    BY <1>4, <1>5
  <1> QED BY Zenon, <1>3, <1>6 DEF CallsCounted, CallsBound

\* Of a node that is taken as a root.
LEMMA RootCount ==
  ASSUME GraphOK, CallsCounted, stack = <<>>, NEW k \in roots, roots' = roots \ {k},
         edges' = edges, calls' = calls + 1, Black' = Black,
         \A i \in DOMAIN stack' : stack'[i].next = 1
  PROVE  CallsCounted'
  <1>1. Links' = Links
    BY Zenon DEF Links
  <1>2. DOMAIN stack = {}
    OBVIOUS
  <1>3. \A l \in Links : ~ (l[2] < 1)
    <2>1. ASSUME NEW l \in Links
          PROVE  ~ (l[2] < 1)
      <3>1. PICK x \in DOMAIN edges : l \in {x} \X DOMAIN edges[x]
        BY Zenon DEF Links
      <3>2. PICK e \in Seq(Names) : e = edges[x]
        BY Zenon DEF GraphOK
      <3>3. l[2] \in DOMAIN e
        BY <3>1, <3>2
      <3> QED BY <3>3, LenProperties
    <2> QED BY Zenon, <2>1
  <1>4. Followed' = Followed
    <2>1. Followed = {l \in Links : l[1] \in Black}
      BY Zenon, <1>2 DEF Followed
    <2>2. Followed' = {l \in Links : l[1] \in Black}
      BY Zenon, <1>1, <1>3 DEF Followed
    <2> QED BY Zenon, <2>1, <2>2
  <1>5. DOMAIN edges' \ roots' = (DOMAIN edges \ roots) \cup {k}
    BY Zenon DEF GraphOK
  <1>6. IsFiniteSet(DOMAIN edges) /\ IsFiniteSet(Links)
    BY Zenon, LinksFinite
  <1>7. PICK a \in Nat : /\ a = Cardinality(DOMAIN edges \ roots)
                         /\ Cardinality(DOMAIN edges' \ roots') = a + 1
    <2>1. DOMAIN edges \ roots \in SUBSET DOMAIN edges /\ k \in DOMAIN edges \ (DOMAIN edges \ roots)
      BY Zenon DEF GraphOK
    <2>2. PICK D : D = DOMAIN edges \ roots
      BY Zenon
    <2>3. Cardinality(D) \in Nat /\ Cardinality(D \cup {k}) = Cardinality(D) + 1
      BY Zenon, <1>6, <2>1, <2>2, OneMore
    <2> QED BY Zenon, <1>5, <2>2, <2>3
  <1>8. PICK c \in Nat : c = Cardinality(Followed)
    <2>1. Followed \in SUBSET Links
      BY Zenon DEF Followed
    <2> QED BY Zenon, <1>6, <2>1, FS_Subset, FS_CardinalityType
  <1>9. (a + c) + 1 = (a + 1) + c
    OBVIOUS
  <1> QED BY Zenon, <1>4, <1>7, <1>8, <1>9 DEF CallsCounted

\* The dependency that the innermost call looks at has not been followed.
LEMMA NotYetFollowed ==
  ASSUME GraphOK, SearchOK, More
  PROVE  /\ Cardinality(Followed) \in Nat /\ Cardinality(Links) \in Nat
         /\ Cardinality(Followed \cup {<<Top, Turn>>}) = Cardinality(Followed) + 1
         /\ Cardinality(Followed) + 1 <= Cardinality(Links)
  <1>1. <<Top, Turn>> \in Links
    BY Zenon, DependencyFacts
  <1>2. PICK n \in Nat \ {0} : n = Len(stack) /\ DOMAIN stack = 1 .. n
    BY Zenon, AdvancedFacts DEF GraphOK, More
  <1>3. Top = stack[n].node /\ Turn = stack[n].next /\ n \in 1 .. n
    BY <1>2 DEF Top, Turn
  <1>4. Turn \in Nat
    BY Zenon, AdvancedFacts DEF GraphOK, More
  <1>5. <<Top, Turn>> \notin Followed
    <2>1. Top \notin Black
      <3>1. Top \in Grey /\ Top \in Names
        BY Zenon, <1>2, <1>3, AdvancedFacts DEF Grey, GraphOK, More
      <3>2. colour[Top] = 1
        BY Zenon, <3>1 DEF SearchOK, OnPath
      <3>3. colour[Top] # 2
        BY <3>2
      <3> QED BY Zenon, <3>3 DEF Black
    <2>2. ~ (Turn < Turn)
      BY <1>4
    <2>3. \A i \in DOMAIN stack : stack[i].node = Top => i = n
      BY Zenon, <1>2, <1>3 DEF SearchOK, OnPath
    <2>4. ASSUME <<Top, Turn>> \in Followed
          PROVE  FALSE
      <3>1. PICK l \in Links : /\ l[1] = Top /\ l[2] = Turn /\ l \in Followed
        BY <1>1, <2>4
      <3> QED BY Zenon, <1>3, <2>1, <2>2, <2>3, <3>1 DEF Followed
    <2> QED BY Zenon, <2>4
  <1>6. \A F \in SUBSET Links, x \in Links : x \notin F =>
          /\ Cardinality(F) \in Nat /\ Cardinality(Links) \in Nat
          /\ Cardinality(F \cup {x}) = Cardinality(F) + 1
          /\ Cardinality(F) + 1 <= Cardinality(Links)
    <2>1. IsFiniteSet(Links)
      BY Zenon, LinksFinite
    <2> QED BY Zenon, <2>1, OneMore
  <1>7. Followed \in SUBSET Links
    BY Zenon DEF Followed
  <1> QED BY Zenon, <1>1, <1>5, <1>6, <1>7

\* Of a dependency that is followed to a node that is not on the path.
LEMMA NextCount ==
  ASSUME GraphOK, SearchOK, CallsCounted, More, edges' = edges, roots' = roots,
         calls' = calls + 1, Black' = Black, NEW k \in Names,
         stack' = Advanced \/ stack' = Append(Advanced, Frame(k))
  PROVE  CallsCounted'
  <1>1. Links' = Links /\ <<Top, Turn>> \in Links
    BY Zenon, DependencyFacts DEF Links
  <1>2. PICK n \in Nat \ {0} : n = Len(stack) /\ DOMAIN stack = 1 .. n
    BY Zenon, AdvancedFacts DEF GraphOK, More
  <1>3. /\ Top = stack[n].node /\ Turn = stack[n].next
        /\ n \in 1 .. n /\ \A i \in 1 .. n : i \in 1 .. n - 1 \/ i = n
        /\ \A i \in 1 .. n - 1 : i \in 1 .. n
    BY <1>2 DEF Top, Turn
  <1>4. /\ \A i \in DOMAIN stack' :
             \/ i \in 1 .. n - 1 /\ stack'[i] = stack[i]
             \/ i = n /\ stack'[i].node = Top /\ stack'[i].next = Turn + 1
             \/ stack'[i].next = 1
        /\ \A i \in 1 .. n - 1 : i \in DOMAIN stack' /\ stack'[i] = stack[i]
        /\ n \in DOMAIN stack' /\ stack'[n].node = Top /\ stack'[n].next = Turn + 1
    BY Zenon, <1>2, FramesAfter
  <1>5. Turn \in Nat
    BY Zenon, AdvancedFacts DEF GraphOK, More
  <1>6. ASSUME NEW l \in Links
        PROVE  /\ ~ (l[2] < 1)
               /\ l[2] < Turn + 1 <=> l[2] < Turn \/ l[2] = Turn
               /\ l = <<l[1], l[2]>>
    <2>1. PICK x \in DOMAIN edges : l \in {x} \X DOMAIN edges[x]
      BY Zenon DEF Links
    <2>2. PICK e \in Seq(Names) : e = edges[x]
      BY Zenon DEF GraphOK
    <2>3. l[2] \in DOMAIN e /\ l = <<l[1], l[2]>>
      BY <2>1, <2>2
    <2>4. l[2] \in Nat /\ ~ (l[2] < 1)
      BY <2>3, LenProperties
    <2> QED BY <1>5, <2>3, <2>4
  <1>7. /\ Cardinality(Followed) \in Nat
        /\ Cardinality(Followed \cup {<<Top, Turn>>}) = Cardinality(Followed) + 1
    BY Zenon, NotYetFollowed
  <1>8. Followed' = Followed \cup {<<Top, Turn>>}
    <2>1. ASSUME NEW l \in Followed'
          PROVE  l \in Followed \cup {<<Top, Turn>>}
      <3>1. l \in Links
        BY Zenon, <1>1, <2>1 DEF Followed
      <3>2. CASE l[1] \in Black
        BY Zenon, <3>1, <3>2 DEF Followed
      <3>3. CASE \E i \in DOMAIN stack' : stack'[i].node = l[1] /\ l[2] < stack'[i].next
        <4>1. PICK i \in DOMAIN stack' : stack'[i].node = l[1] /\ l[2] < stack'[i].next
          BY Zenon, <3>3
        <4>2. CASE i \in 1 .. n - 1 /\ stack'[i] = stack[i]
          BY Zenon, <1>2, <1>3, <3>1, <4>1, <4>2 DEF Followed
        <4>3. CASE i = n /\ stack'[i].node = Top /\ stack'[i].next = Turn + 1
          <5>1. l[1] = Top /\ (l[2] < Turn \/ l[2] = Turn)
            BY Zenon, <1>6, <3>1, <4>1, <4>3
          <5>2. CASE l[2] < Turn
            BY Zenon, <1>2, <1>3, <3>1, <5>1, <5>2 DEF Followed
          <5>3. CASE l[2] = Turn
            BY Zenon, <1>6, <3>1, <5>1, <5>3
          <5> QED BY Zenon, <5>1, <5>2, <5>3
        <4>4. CASE stack'[i].next = 1
          BY Zenon, <1>6, <3>1, <4>1, <4>4
        <4> QED BY Zenon, <1>4, <4>2, <4>3, <4>4
      <3> QED BY Zenon, <2>1, <3>2, <3>3 DEF Followed
    <2>2. ASSUME NEW l \in Followed
          PROVE  l \in Followed'
      <3>1. l \in Links
        BY Zenon, <2>2 DEF Followed
      <3>2. CASE l[1] \in Black
        BY Zenon, <1>1, <3>1, <3>2 DEF Followed
      <3>3. CASE \E i \in DOMAIN stack : stack[i].node = l[1] /\ l[2] < stack[i].next
        <4>1. PICK i \in 1 .. n : stack[i].node = l[1] /\ l[2] < stack[i].next
          BY Zenon, <1>2, <3>3
        <4>2. CASE i \in 1 .. n - 1
          BY Zenon, <1>1, <1>4, <3>1, <4>1, <4>2 DEF Followed
        <4>3. CASE i = n
          <5>1. l[1] = Top /\ l[2] < Turn + 1
            BY Zenon, <1>3, <1>6, <3>1, <4>1, <4>3
          <5> QED BY Zenon, <1>1, <1>4, <3>1, <5>1 DEF Followed
        <4> QED BY Zenon, <1>3, <4>2, <4>3
      <3> QED BY Zenon, <2>2, <3>2, <3>3 DEF Followed
    <2>3. <<Top, Turn>> \in Followed'
      <3>1. PICK l \in Links : l = <<Top, Turn>> /\ l[1] = Top /\ l[2] = Turn
        BY <1>1
      <3>2. Turn < Turn + 1
        BY <1>5
      <3> QED BY Zenon, <1>1, <1>4, <3>1, <3>2 DEF Followed
    <2> QED BY Zenon, <2>1, <2>2, <2>3
  <1>9. IsFiniteSet(DOMAIN edges) /\ IsFiniteSet(Links)
    BY Zenon, LinksFinite
  <1>10. PICK c \in Nat : c = Cardinality(Followed) /\ Cardinality(Followed') = c + 1
    BY Zenon, <1>7, <1>8
  <1>11. PICK a \in Nat : a = Cardinality(DOMAIN edges \ roots)
    BY Zenon, <1>9, FS_Difference, FS_CardinalityType
  <1>12. (a + c) + 1 = a + (c + 1)
    OBVIOUS
  <1> QED BY Zenon, <1>10, <1>11, <1>12 DEF CallsCounted

\* A return follows no dependency.
LEMMA ReturnCount ==
  ASSUME GraphOK, CallsCounted, Return, Black' = Black \cup {Top}
  PROVE  CallsCounted'
  <1>1. /\ edges' = edges /\ roots' = roots /\ calls' = calls /\ stack # <<>> /\ ~ More
        /\ stack' = Callers
    BY Zenon, ReturnOutcome
  <1>2. Links' = Links
    BY Zenon, <1>1 DEF Links
  <1>3. PICK n \in Nat \ {0} : n = Len(stack) /\ DOMAIN stack = 1 .. n
    BY Zenon, <1>1, CallersFacts DEF GraphOK
  <1>4. /\ DOMAIN stack' = 1 .. n - 1
        /\ \A i \in DOMAIN stack' : i \in DOMAIN stack /\ stack'[i] = stack[i]
    BY Zenon, <1>1, <1>3, FramesBefore
  <1>5. /\ Top = stack[n].node /\ Turn = stack[n].next /\ n \in 1 .. n
        /\ \A i \in 1 .. n : i \in 1 .. n - 1 \/ i = n
    BY <1>3 DEF Top, Turn
  <1>6. ASSUME NEW l \in Links, l[1] = Top
        PROVE  l[2] < Turn
    <2>1. PICK x \in DOMAIN edges : l \in {x} \X DOMAIN edges[x]
      BY Zenon DEF Links
    <2>2. l[1] = x /\ l[2] \in DOMAIN edges[x]
      BY <2>1
    <2>3. l[2] \in DOMAIN Edges(Top)
      BY Zenon, <1>6, <2>2 DEF Edges
    <2> QED BY Zenon, <1>1, <2>3, AllLookedAt
  <1>7. ASSUME NEW l \in Followed'
        PROVE  l \in Followed
    <2>1. l \in Links
      BY Zenon, <1>2, <1>7 DEF Followed
    <2>2. CASE l[1] \in Black
      BY Zenon, <2>1, <2>2 DEF Followed
    <2>3. CASE l[1] = Top
      BY Zenon, <1>3, <1>5, <1>6, <2>1, <2>3 DEF Followed
    <2>4. CASE \E i \in DOMAIN stack' : stack'[i].node = l[1] /\ l[2] < stack'[i].next
      BY Zenon, <1>4, <2>1, <2>4 DEF Followed
    <2> QED BY Zenon, <1>7, <2>2, <2>3, <2>4 DEF Followed
  <1>8. ASSUME NEW l \in Followed
        PROVE  l \in Followed'
    <2>1. l \in Links
      BY Zenon, <1>8 DEF Followed
    <2>2. CASE l[1] \in Black'
      BY Zenon, <1>2, <2>1, <2>2 DEF Followed
    <2>3. CASE \E i \in DOMAIN stack : stack[i].node = l[1] /\ l[2] < stack[i].next
      <3>1. PICK i \in 1 .. n : stack[i].node = l[1] /\ l[2] < stack[i].next
        BY Zenon, <1>3, <2>3
      <3>2. CASE i \in 1 .. n - 1
        BY Zenon, <1>2, <1>4, <2>1, <3>1, <3>2 DEF Followed
      <3>3. CASE i = n
        BY Zenon, <1>5, <2>2, <3>1, <3>3
      <3> QED BY Zenon, <1>5, <3>2, <3>3
    <2> QED BY Zenon, <1>8, <2>2, <2>3 DEF Followed
  <1>9. Followed' = Followed
    BY Zenon, <1>7, <1>8
  <1> QED BY Zenon, <1>1, <1>9 DEF CallsCounted

\* A step of HasCycle keeps CycleInv.
LEMMA CycleInvStep ==
  ASSUME GraphOK, CycleInv, VisitRoot \/ VisitNext \/ Return
  PROVE  CycleInv'
  <1>1. key = NoKey
    BY Zenon DEF VisitRoot, VisitNext, Return
  <1>2. ~ cycle
    BY Zenon, <1>1 DEF CycleInv, VisitRoot, VisitNext, Return, More
  <1>3. SearchOK /\ CallsCounted
    BY Zenon, <1>1, <1>2 DEF CycleInv
  <1>4. CASE VisitRoot
    <2>1. PICK k \in roots : stack = <<>> /\ roots' = roots \ {k} /\ Visit(k, <<>>)
      BY Zenon, <1>4 DEF VisitRoot
    <2>2. ~ cycle' /\ SearchOK'
      BY Zenon, <1>3, <2>1, RootSearchOK
    <2>3. k \in Names
      BY Zenon DEF GraphOK
    <2>4. /\ edges' = edges /\ calls' = calls + 1
          /\ \/ /\ colour[k] = 0 /\ stack' = Append(<<>>, Frame(k)) /\ colour'[k] = 1
                /\ \A x \in Names \ {k} : colour'[x] = colour[x]
             \/ stack' = <<>> /\ colour' = colour
      BY Zenon, <2>1, <2>3, VisitOutcomes
    <2>5. Black' = Black
      <3>1. CASE colour' = colour
        BY Zenon, <3>1 DEF Black
      <3>2. CASE /\ colour[k] = 0 /\ colour'[k] = 1
                 /\ \A x \in Names \ {k} : colour'[x] = colour[x]
        BY Zenon, <2>3, <3>2, EnteringBlackens
      <3> QED BY Zenon, <2>4, <3>1, <3>2
    <2>6. \A i \in DOMAIN stack' : stack'[i].next = 1
      <3>1. DOMAIN <<>> = {} /\ DOMAIN Append(<<>>, Frame(k)) = {1}
        OBVIOUS
      <3>2. Append(<<>>, Frame(k))[1].next = 1
        BY DEF Frame
      <3> QED BY Zenon, <2>4, <3>1, <3>2
    <2>7. CallsCounted'
      BY Zenon, <1>3, <2>1, <2>4, <2>5, <2>6, RootCount
    <2> QED BY Zenon, <2>2, <2>7 DEF CycleInv
  <1>5. CASE VisitNext
    <2>1. More /\ Visit(Dependency, Advanced) /\ roots' = roots
      BY Zenon, <1>5 DEF VisitNext
    <2>2. PICK k \in Names : k = Dependency
      BY Zenon, <2>1, DependencyFacts
    <2>3. /\ edges' = edges /\ key' = key /\ calls' = calls + 1
          /\ \/ /\ colour[k] = 0 /\ stack' = Append(Advanced, Frame(k)) /\ colour'[k] = 1
                /\ \A x \in Names \ {k} : colour'[x] = colour[x]
             \/ colour[k] = 1 /\ cycle' /\ stack' = <<>>
             \/ colour[k] = 2 /\ stack' = Advanced /\ colour' = colour
      BY Zenon, <2>1, <2>2, VisitOutcomes
    <2>4. Links' = Links
      BY Zenon, <2>3 DEF Links
    <2>5. CASE colour[k] = 1 /\ cycle' /\ stack' = <<>>
      <3>1. Cyclic
        BY Zenon, <1>3, <2>1, <2>2, <2>5, PathIsCycle DEF SearchOK
      <3>2. Cyclic'
        BY Zenon, <2>3, <3>1 DEF Cyclic
      <3>3. PICK c \in Nat, d \in Nat : c = Cardinality(Followed) /\ d = Cardinality(Links) /\ c + 1 <= d
        BY Zenon, <1>3, <2>1, NotYetFollowed
      <3>4. IsFiniteSet(DOMAIN edges) /\ DOMAIN edges \ roots \in SUBSET DOMAIN edges
        BY Zenon, LinksFinite
      <3>5. PICK a \in Nat, b \in Nat : /\ a = Cardinality(DOMAIN edges \ roots)
                                        /\ b = Cardinality(DOMAIN edges) /\ a <= b
        BY Zenon, <3>4, FS_Subset, FS_CardinalityType
      <3>6. (a + c) + 1 <= b + d
        BY <3>3, <3>5
      <3>7. CallsBound'
        BY Zenon, <1>3, <2>3, <2>4, <3>3, <3>5, <3>6 DEF CallsCounted, CallsBound
      <3> QED BY Zenon, <2>5, <3>2, <3>7 DEF CycleInv
    <2>6. CASE colour[k] # 1
      <3>1. ~ cycle' /\ SearchOK'
        BY Zenon, <1>3, <2>1, <2>2, <2>6, NextSearchOK
      <3>2. Black' = Black
        <4>1. CASE colour' = colour
          BY Zenon, <4>1 DEF Black
        <4>2. CASE /\ colour[k] = 0 /\ colour'[k] = 1
                   /\ \A x \in Names \ {k} : colour'[x] = colour[x]
          BY Zenon, <4>2, EnteringBlackens
        <4> QED BY Zenon, <2>3, <2>6, <4>1, <4>2
      <3>3. CallsCounted'
        BY Zenon, <1>3, <2>1, <2>3, <2>6, <3>2, NextCount
      <3> QED BY Zenon, <3>1, <3>3 DEF CycleInv
    <2>7. 0 # 1 /\ 2 # 1
      OBVIOUS
    <2> QED BY Zenon, <2>3, <2>5, <2>6, <2>7
  <1>6. CASE Return
    <2>1. SearchOK' /\ Black' = Black \cup {Top}
      BY Zenon, <1>3, <1>6, ReturnSearchOK
    <2>2. CallsCounted'
      BY Zenon, <1>3, <1>6, <2>1, ReturnCount
    <2>3. ~ cycle'
      BY Zenon, <1>2, <1>6, ReturnOutcome
    <2> QED BY Zenon, <2>1, <2>2, <2>3 DEF CycleInv
  <1> QED BY Zenon, <1>4, <1>5, <1>6

\* The searches' invariant.
SearchInv == GraphOK /\ CycleInv /\ ReachInv

\* It holds when a search starts.
LEMMA StartOK ==
  ASSUME NEW E, DOMAIN E \in SUBSET Names, \A n \in DOMAIN E : E[n] \in Seq(Names),
         NEW k \in Names \cup {NoKey}, NEW R \in SUBSET DOMAIN E, NEW s \in Seq(FrameSet),
         Start(E, k, R, s), k = NoKey => R = DOMAIN E /\ s = <<>>,
         k # NoKey => s = <<Frame(k)>>
  PROVE  SearchInv
  <1>1. /\ edges = E /\ key = k /\ roots = R /\ stack = s
        /\ colour = [n \in Names |-> 0] /\ cycle = FALSE /\ seen = {} /\ calls = 0
    BY Zenon DEF Start
  <1>2. 0 \in 0 .. 2 /\ 0 \in Nat /\ 0 # 1 /\ 0 # 2 /\ 0 = 0 + 0
    OBVIOUS
  <1>3. GraphOK
    BY Zenon, <1>1, <1>2 DEF GraphOK
  <1>4. ASSUME key = NoKey
        PROVE  SearchOK /\ CallsCounted
    <2>1. stack = <<>> /\ DOMAIN stack = {} /\ roots = DOMAIN edges
      BY <1>1, <1>4
    <2>2. Grey = {} /\ Black = {}
      BY Zenon, <1>1, <1>2, <2>1 DEF Grey, Black
    <2>3. OnPath /\ LookedAt
      BY Zenon, <1>1, <1>2, <2>1, <2>2 DEF OnPath, LookedAt
    <2>4. BlackClosed /\ NoBlackCycle /\ RootsMet
      BY Zenon, <2>1, <2>2 DEF BlackClosed, NoBlackCycle, RootsMet
    <2>5. Followed = {} /\ DOMAIN edges \ roots = {}
      BY Zenon, <2>1, <2>2 DEF Followed
    <2>6. CallsCounted
      BY Zenon, <1>1, <1>2, <2>5, FS_EmptySet DEF CallsCounted
    <2> QED BY Zenon, <2>3, <2>4, <2>6 DEF SearchOK
  <1>5. CycleInv
    BY Zenon, <1>1, <1>4 DEF CycleInv
  <1>6. ASSUME key # NoKey
        PROVE  ReachInv
    <2>1. stack = <<Frame(k)>>
      BY Zenon, <1>1, <1>6
    <2>2. DOMAIN stack = {1} /\ stack[1].node = k /\ stack[1].next = 1
      BY <2>1 DEF Frame
    <2>3. Grey = {k}
      BY Zenon, <2>2 DEF Grey
    <2>4. \A d \in DOMAIN Edges(k) : ~ (d < 1)
      BY Zenon, <1>3, EdgesFacts
    <2> QED BY Zenon, <1>1, <2>2, <2>3, <2>4 DEF ReachInv
  <1>7. ReachInv
    BY Zenon, <1>6 DEF ReachInv
  <1> QED BY Zenon, <1>3, <1>5, <1>7 DEF SearchInv

\* SearchInv is an invariant.
LEMMA SearchInvariant == Spec => []SearchInv
  <1>1. Init => SearchInv
    <2> SUFFICES ASSUME Init
                 PROVE  SearchInv
      OBVIOUS
    <2>1. <<>> \in Seq(FrameSet) /\ DOMAIN <<>> = {}
      BY EmptySeq
    <2>2. CASE Start(<<>>, NoKey, {}, <<>>)
      <3>1. PICK E : E = <<>> /\ DOMAIN E = {}
        BY Zenon, <2>1
      <3> QED BY Zenon, <2>1, <2>2, <3>1, StartOK
    <2>3. CASE \E E \in Graph : \/ StartHasCycle(E)
                                \/ \E k \in Names : StartDependencies(E, k)
      <3>1. PICK E \in Graph : \/ StartHasCycle(E)
                               \/ \E k \in Names : StartDependencies(E, k)
        BY Zenon, <2>3
      <3>2. DOMAIN E \in SUBSET Names /\ \A n \in DOMAIN E : E[n] \in Seq(Names)
        BY Zenon, GraphAssumption
      <3>3. CASE StartHasCycle(E)
        BY Zenon, <2>1, <3>2, <3>3, StartOK DEF StartHasCycle
      <3>4. CASE \E k \in Names : StartDependencies(E, k)
        <4>1. PICK k \in Names : StartDependencies(E, k)
          BY Zenon, <3>4
        <4>2. k # NoKey
          BY Zenon, GraphAssumption
        <4>3. <<Frame(k)>> \in Seq(FrameSet)
          BY DEF Frame, FrameSet
        <4> QED BY Zenon, <3>2, <4>1, <4>2, <4>3, StartOK DEF StartDependencies
      <3> QED BY Zenon, <3>1, <3>3, <3>4
    <2> QED BY Zenon, <2>2, <2>3 DEF Init
  <1>2. SearchInv /\ [Next]_vars => SearchInv'
    <2> SUFFICES ASSUME SearchInv, [Next]_vars
                 PROVE  SearchInv'
      OBVIOUS
    <2>1. GraphOK /\ CycleInv /\ ReachInv
      BY Zenon DEF SearchInv
    <2>2. GraphOK'
      BY Zenon, <2>1, GraphOKStep
    <2>3. \/ UNCHANGED graph \/ (VisitRoot \/ VisitNext \/ Return) \/ Look \/ Leave
      BY Zenon DEF Next, Tick, Search, vars
    <2>4. CASE UNCHANGED graph
      <3>1. /\ edges' = edges /\ key' = key /\ roots' = roots /\ stack' = stack
            /\ colour' = colour /\ cycle' = cycle /\ seen' = seen /\ calls' = calls
        BY Zenon, <2>4 DEF graph
      <3>2. Grey' = Grey /\ Black' = Black /\ Links' = Links
        BY Zenon, <3>1 DEF Grey, Black, Links
      <3>3. Followed' = Followed
        BY Zenon, <3>1, <3>2 DEF Followed
      <3>4. \A k : Edges(k)' = Edges(k)
        BY Zenon, <3>1, EdgesStay
      <3>5. OnPath => OnPath'
        BY Zenon, <3>1, <3>2, <3>4 DEF OnPath
      <3>6. LookedAt => LookedAt'
        BY Zenon, <3>1, <3>2, <3>4 DEF LookedAt
      <3>7. BlackClosed /\ NoBlackCycle => BlackClosed' /\ NoBlackCycle'
        BY Zenon, <3>1, <3>2, BlackStays
      <3>8. /\ (RootsMet => RootsMet') /\ (Cyclic => Cyclic')
            /\ (CallsCounted => CallsCounted') /\ (CallsBound => CallsBound')
        BY Zenon, <3>1, <3>2, <3>3 DEF RootsMet, Cyclic, CallsCounted, CallsBound
      <3>9. CycleInv'
        BY Zenon, <2>1, <3>1, <3>5, <3>6, <3>7, <3>8 DEF CycleInv, SearchOK
      <3>10. ReachInv'
        <4>1. \A T : Closed(T)' => Closed(T)
          BY Zenon, <3>1, <3>4 DEF Closed
        <4>2. \A T \in SUBSET Names : key # NoKey /\ Closed(T)' => seen' \subseteq T
          BY Zenon, <2>1, <3>1, <4>1 DEF ReachInv
        <4> QED BY Zenon, <2>1, <3>1, <3>2, <3>4, <4>2 DEF ReachInv
      <3> QED BY Zenon, <2>2, <3>9, <3>10 DEF SearchInv
    <2>5. CASE VisitRoot \/ VisitNext \/ Return
      <3>1. key' = NoKey
        BY Zenon, <2>5 DEF VisitRoot, VisitNext, Return, Visit
      <3>2. ReachInv'
        BY Zenon, <3>1 DEF ReachInv
      <3> QED BY Zenon, <2>1, <2>2, <2>5, <3>2, CycleInvStep DEF SearchInv
    <2>6. CASE Look \/ Leave
      <3>1. key' # NoKey
        BY Zenon, <2>6 DEF Look, Leave
      <3>2. CycleInv'
        BY Zenon, <3>1 DEF CycleInv
      <3> QED BY Zenon, <2>1, <2>2, <2>6, <3>2, LookReach, LeaveReach DEF SearchInv
    <2> QED BY Zenon, <2>3, <2>4, <2>5, <2>6
  <1> QED BY <1>1, <1>2, PTL DEF Spec

\* Both searches are right on every graph: when HasCycle has finished without
\* meeting a grey node, everything is black, and black nodes hold no cycle; when
\* Dependencies has finished, its result is closed and part of every closed set.
\* Neither calls visit more often than there are roots and dependencies.
THEOREM SearchesAreRight == Spec => []CyclesFound
  <1>1. ASSUME SearchInv
        PROVE  CyclesFound
    <2>1. GraphOK /\ CycleInv /\ ReachInv
      BY Zenon, <1>1 DEF SearchInv
    <2>2. CD!HasCycle([k \in DOMAIN edges |-> Range(edges[k])]) <=> Cyclic
      BY Zenon DEF CD!HasCycle, Cyclic
    <2>3. ASSUME HasCycleDone
          PROVE  cycle <=> Cyclic
      <3>1. key = NoKey /\ stack = <<>> /\ (cycle \/ roots = {})
        BY Zenon, <2>3 DEF HasCycleDone
      <3>2. CASE cycle
        BY Zenon, <2>1, <3>1, <3>2 DEF CycleInv
      <3>3. CASE ~ cycle
        <4>1. SearchOK /\ roots = {}
          BY Zenon, <2>1, <3>1, <3>3 DEF CycleInv
        <4>2. DOMAIN stack = {}
          BY <3>1
        <4>3. Grey = {}
          BY Zenon, <4>2 DEF Grey
        <4>4. \A k \in Names : colour[k] # 1 /\ colour[k] \in 0 .. 2
          BY Zenon, <2>1, <4>1, <4>3 DEF SearchOK, OnPath, GraphOK
        <4>5. \A c \in 0 .. 2 : c = 0 \/ c = 1 \/ c = 2
          OBVIOUS
        <4>6. DOMAIN edges \subseteq Black
          BY Zenon, <2>1, <4>1, <4>4, <4>5 DEF SearchOK, RootsMet, GraphOK, Black
        <4>7. ASSUME Cyclic
              PROVE  FALSE
          <5>1. PICK S \in SUBSET DOMAIN edges : S # {} /\ \A x \in S : Range(edges[x]) \cap S # {}
            BY Zenon, <4>7 DEF Cyclic
          <5>2. S \in SUBSET (Black \cap DOMAIN edges)
            BY Zenon, <4>6
          <5> QED BY Zenon, <4>1, <5>1, <5>2 DEF SearchOK, NoBlackCycle
        <4> QED BY Zenon, <3>3, <4>7
      <3> QED BY Zenon, <3>2, <3>3
    <2>4. ASSUME DependenciesDone
          PROVE  seen = Reachable(key)
      <3>1. key # NoKey /\ stack = <<>>
        BY Zenon, <2>4 DEF DependenciesDone
      <3>2. DOMAIN stack = {}
        BY <3>1
      <3>3. Grey = {}
        BY Zenon, <3>2 DEF Grey
      <3>4. /\ seen \in SUBSET Names /\ Closed(seen)
            /\ \A T \in SUBSET Names : Closed(T) => seen \subseteq T
        BY Zenon, <2>1, <3>1, <3>3 DEF ReachInv, GraphOK, Closed
      <3> DEFINE Least(S) == Closed(S) /\ \A T \in SUBSET Names : Closed(T) => S \subseteq T
      <3>5. PICK r : r = CHOOSE S \in SUBSET Names : Least(S)
        BY Zenon
      <3>6. r = Reachable(key)
        BY Zenon, <3>5 DEF Reachable, Closed
      <3>7. Least(seen)
        BY Zenon, <3>4
      <3>8. r \in SUBSET Names /\ Least(r)
        <4> HIDE DEF Least
        <4> QED BY Zenon, <3>4, <3>5, <3>7
      <3>9. r = seen
        BY Zenon, <3>4, <3>8
      <3> QED BY Zenon, <3>6, <3>9
    <2>5. calls <= Cardinality(DOMAIN edges) + Cardinality(Links)
      <3>1. CASE key = NoKey /\ cycle
        BY Zenon, <2>1, <3>1 DEF CycleInv, CallsBound
      <3>2. CASE key = NoKey /\ ~ cycle
        BY Zenon, <2>1, <3>2, CountBounds DEF CycleInv, CallsBound
      <3>3. CASE key # NoKey
        <4>1. PICK a \in Nat, b \in Nat : a = Cardinality(DOMAIN edges) /\ b = Cardinality(Links)
          BY Zenon, <2>1, LinksFinite, FS_CardinalityType
        <4>2. 0 <= a + b
          OBVIOUS
        <4> QED BY Zenon, <2>1, <3>3, <4>1, <4>2 DEF ReachInv
      <3> QED BY Zenon, <3>1, <3>2, <3>3
    <2> QED BY Zenon, <2>2, <2>3, <2>4, <2>5 DEF CyclesFound
  <1> QED BY <1>1, SearchInvariant, PTL
=============================================================================
