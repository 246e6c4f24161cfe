-------------------------- MODULE DependencyGraph --------------------------
(***************************************************************************)
(* The depth-first searches of internal/configdomain/graph.go, call by     *)
(* call.  stack holds the calls of visit in progress, the innermost last,  *)
(* each with its node and the dependency it looks at next.                 *)
(***************************************************************************)
EXTENDS Integers, Sequences, FiniteSetsExt

CONSTANTS
  Names,   \* the nodes, and the names that are none
  NoKey    \* the key of a search that is HasCycle's

VARIABLES
  edges,   \* Graph.Edges: the nodes with their sorted lists of dependencies
  key,     \* the argument of Dependencies
  roots,   \* the nodes HasCycle's range loop has not come to
  stack,
  colour,  \* HasCycle's state: 1 on entry, 2 when the dependencies are done
  cycle,   \* HasCycle has returned true
  seen,    \* the result of Dependencies
  calls    \* history: calls of HasCycle's visit

graph == <<edges, key, roots, stack, colour, cycle, seen, calls>>
-----------------------------------------------------------------------------
\* A name that is no node has no dependencies.
Edges(k) == IF k \in DOMAIN edges THEN edges[k] ELSE <<>>

Frame(k) == [node |-> k, next |-> 1]

\* The innermost call, and the calls it was made from.
Innermost == stack[Len(stack)]

Callers == SubSeq(stack, 1, Len(stack) - 1)

More == stack # <<>> /\ Innermost.next <= Len(Edges(Innermost.node))

\* What the innermost call looks at, and its stack when it has done so.
Dependency == Edges(Innermost.node)[Innermost.next]

Advanced == Append(Callers, [Innermost EXCEPT !.next = @ + 1])

Start(E, k, R, s) ==
  /\ edges = E /\ key = k /\ roots = R /\ stack = s
  /\ colour = [n \in Names |-> 0] /\ cycle = FALSE /\ seen = {} /\ calls = 0
-----------------------------------------------------------------------------
(***************************************************************************)
(* HasCycle.  Meeting a 1 is a cycle, and every call returns true.  The    *)
(* range over a map takes the nodes in any order.                          *)
(***************************************************************************)
StartHasCycle(E) == Start(E, NoKey, DOMAIN E, <<>>)

\* visit(k), called from the calls in rest.
Visit(k, rest) ==
  /\ calls' = calls + 1
  /\ cycle' = (colour[k] = 1)
  /\ colour' = IF colour[k] = 0 THEN [colour EXCEPT ![k] = 1] ELSE colour
  /\ stack' = CASE colour[k] = 0 -> Append(rest, Frame(k))
                [] colour[k] = 1 -> <<>>
                [] OTHER         -> rest
  /\ UNCHANGED <<edges, key, seen>>

VisitRoot == /\ key = NoKey /\ ~ cycle /\ stack = <<>>
             /\ \E k \in roots : roots' = roots \ {k} /\ Visit(k, <<>>)

VisitNext == /\ key = NoKey /\ More
             /\ Visit(Dependency, Advanced)
             /\ UNCHANGED roots

FinishUncoloured(k) == colour

Finish(k) == [colour EXCEPT ![k] = 2]

Return == /\ key = NoKey /\ stack # <<>> /\ ~ More
          /\ colour' = Finish(Innermost.node)
          /\ stack' = Callers
          /\ UNCHANGED <<edges, key, roots, cycle, seen, calls>>

HasCycleDone == key = NoKey /\ stack = <<>> /\ (cycle \/ roots = {})
-----------------------------------------------------------------------------
(***************************************************************************)
(* Dependencies, before the result is sorted.                              *)
(***************************************************************************)
StartDependencies(E, k) == Start(E, k, {}, <<Frame(k)>>)

Look == /\ key # NoKey /\ More
        /\ seen' = seen \cup {Dependency}
        /\ stack' = IF Dependency \in seen THEN Advanced
                                           ELSE Append(Advanced, Frame(Dependency))
        /\ UNCHANGED <<edges, key, roots, colour, cycle, calls>>

Leave == /\ key # NoKey /\ stack # <<>> /\ ~ More
         /\ stack' = Callers
         /\ UNCHANGED <<edges, key, roots, colour, cycle, seen, calls>>

DependenciesDone == key # NoKey /\ stack = <<>>

Search == VisitRoot \/ VisitNext \/ Return \/ Look \/ Leave
-----------------------------------------------------------------------------
\* What is reachable from k in one or more steps: the least set closed under
\* Edges that contains what k depends on.
Reachable(k) ==
  LET Closed(S) == \A x \in S \cup {k} : Range(Edges(x)) \subseteq S
  IN  CHOOSE S \in SUBSET Names :
        Closed(S) /\ \A T \in SUBSET Names : Closed(T) => S \subseteq T
=============================================================================
