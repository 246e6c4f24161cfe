-------------------------- MODULE ChangeFeedProofs --------------------------
(***************************************************************************)
(* What holds of ChangeFeed for any numbers of writers, clients and scopes *)
(* and any bounds: the log verifies, what is streamed is stored, no cursor *)
(* reaches a client twice and a buffer that is large enough loses nothing. *)
(***************************************************************************)
EXTENDS ChangeFeed, FiniteSetTheorems, SequenceTheorems, WellFoundedInduction, TLAPS

Idling == {Idle}
Appending == [pc: {"append"}, scope: Scope, at: 0 .. MaxTime, emits: BOOLEAN]
Drawing == [pc: {"draw"}, scope: Scope]
Emitting == [pc: {"add", "broadcast"}, event: Event]

Writer == Idling \cup Appending \cup Drawing \cup Emitting

Emits(f) == f.pc \in {"add", "broadcast"}

TypeOK == /\ now \in 0 .. MaxTime
          /\ sequence \in 0 .. MaxSequence
          /\ writer \in [Writers -> Writer]
          /\ outbox \in Seq(Event)
          /\ streams \in [Clients -> Seq(Event) \cup {NoStream}]
          /\ got \in [Clients -> Seq(Event)]
          /\ since \in [Clients -> SUBSET Event]

\* What Append does to the elements of a sequence.
LEMMA AppendRange ==
  ASSUME NEW S, NEW s \in Seq(S), NEW e \in S
  PROVE  /\ Append(s, e) \in Seq(S) /\ Len(Append(s, e)) = Len(s) + 1
         /\ Range(Append(s, e)) = Range(s) \cup {e}
  <1>1. Range(s) = {s[i] : i \in 1 .. Len(s)}
    BY Zenon, RangeEquality
  <1>2. Append(s, e) \in Seq(S) /\ Len(Append(s, e)) = Len(s) + 1
    BY Zenon, AppendProperties
  <1>3. Range(Append(s, e)) = {Append(s, e)[i] : i \in 1 .. Len(s) + 1}
    BY Zenon, <1>2, RangeEquality
  <1>4. /\ \A i \in 1 .. Len(s) : Append(s, e)[i] = s[i]
        /\ Append(s, e)[Len(s) + 1] = e
    BY AppendProperties
  <1>5. Len(s) \in Nat
    BY Zenon, LenProperties
  <1>6. 1 .. Len(s) + 1 = (1 .. Len(s)) \cup {Len(s) + 1}
    BY <1>5
  <1>7. ASSUME NEW x \in Range(Append(s, e))
        PROVE  x \in Range(s) \cup {e}
    BY Zenon, <1>1, <1>3, <1>4, <1>6, <1>7
  <1>8. ASSUME NEW x \in Range(s)
        PROVE  x \in Range(Append(s, e))
    <2>1. PICK i \in 1 .. Len(s) : x = s[i]
      BY Zenon, <1>1
    <2> QED BY Zenon, <1>3, <1>4, <1>6, <2>1
  <1>9. e \in Range(Append(s, e))
    BY Zenon, <1>3, <1>4, <1>6
  <1> QED BY Zenon, <1>2, <1>7, <1>8, <1>9

\* Head and Tail of a sequence.
LEMMA TailRange ==
  ASSUME NEW S, NEW s \in Seq(S), s # <<>>
  PROVE  /\ Head(s) \in S /\ Tail(s) \in Seq(S) /\ Len(Tail(s)) = Len(s) - 1
         /\ Range(s) = Range(Tail(s)) \cup {Head(s)}
  <1>1. Range(s) = {s[i] : i \in 1 .. Len(s)}
    BY Zenon, RangeEquality
  <1>2. /\ Head(s) \in S /\ Tail(s) \in Seq(S) /\ Len(Tail(s)) = Len(s) - 1
        /\ \A i \in 1 .. Len(Tail(s)) : Tail(s)[i] = s[i + 1]
    BY Zenon, HeadTailProperties
  <1>3. Range(Tail(s)) = {Tail(s)[i] : i \in 1 .. Len(Tail(s))}
    BY ZenonT(30), <1>2, RangeEquality
  <1>4. Len(s) \in Nat \ {0} /\ Head(s) = s[1]
    BY EmptySeq
  <1>5. \A i \in 1 .. Len(s) : i = 1 \/ i - 1 \in 1 .. Len(Tail(s))
    BY <1>2, <1>4
  <1>6. \A i \in 1 .. Len(Tail(s)) : i + 1 \in 1 .. Len(s)
    BY <1>2, <1>4
  <1>7. ASSUME NEW x \in Range(s)
        PROVE  x \in Range(Tail(s)) \cup {Head(s)}
    <2>1. PICK i \in 1 .. Len(s) : x = s[i]
      BY Zenon, <1>1
    <2>2. CASE i = 1
      BY Zenon, <2>1, <2>2, <1>4
    <2>3. CASE i - 1 \in 1 .. Len(Tail(s))
      <3>1. Tail(s)[i - 1] = s[(i - 1) + 1] /\ (i - 1) + 1 = i
        BY <1>2, <2>3
      <3> QED BY Zenon, <2>1, <2>3, <3>1, <1>3
    <2> QED BY Zenon, <2>2, <2>3, <1>5
  <1>8. ASSUME NEW x \in Range(Tail(s))
        PROVE  x \in Range(s)
    <2>1. PICK i \in 1 .. Len(Tail(s)) : x = Tail(s)[i]
      BY Zenon, <1>3
    <2> QED BY Zenon, <2>1, <1>1, <1>2, <1>6
  <1>9. Head(s) \in Range(s)
    BY <1>1, <1>4
  <1> QED BY Zenon, <1>2, <1>7, <1>8, <1>9

\* Sequences no two of whose events have the same cursor.
Distinct(s) == \A i, j \in 1 .. Len(s) : s[i].cursor = s[j].cursor => i = j

\* Appending a new cursor keeps a sequence distinct.
LEMMA AppendKeepsDistinct ==
  ASSUME NEW s \in Seq(Event), NEW e \in Event, Distinct(s), e.cursor \notin Cursors(s)
  PROVE  Distinct(Append(s, e))
  <1>1. /\ Len(Append(s, e)) = Len(s) + 1 /\ Len(s) \in Nat
        /\ \A i \in 1 .. Len(s) : Append(s, e)[i] = s[i]
        /\ Append(s, e)[Len(s) + 1] = e
    BY AppendProperties, LenProperties
  <1>2. Range(s) = {s[i] : i \in 1 .. Len(s)}
    BY Zenon, RangeEquality
  <1>3. \A i \in 1 .. Len(s) : s[i].cursor # e.cursor
    BY Zenon, <1>2 DEF Cursors
  <1>4. 1 .. Len(s) + 1 = (1 .. Len(s)) \cup {Len(s) + 1}
    BY <1>1
  <1> QED BY <1>1, <1>3, <1>4 DEF Distinct

\* So does dropping the head, whose cursor does not come again.
LEMMA TailKeepsDistinct ==
  ASSUME NEW s \in Seq(Event), s # <<>>, Distinct(s)
  PROVE  Distinct(Tail(s)) /\ Head(s).cursor \notin Cursors(Tail(s))
  <1>1. /\ Tail(s) \in Seq(Event) /\ Len(Tail(s)) = Len(s) - 1
        /\ \A i \in 1 .. Len(Tail(s)) : Tail(s)[i] = s[i + 1]
    BY Zenon, HeadTailProperties
  <1>2. Len(s) \in Nat \ {0} /\ Head(s) = s[1]
    BY EmptySeq
  <1>3. \A i \in 1 .. Len(Tail(s)) : i + 1 \in 1 .. Len(s) /\ i + 1 # 1
    BY <1>1, <1>2
  <1>4. ASSUME NEW i \in 1 .. Len(Tail(s)), NEW j \in 1 .. Len(Tail(s)),
               Tail(s)[i].cursor = Tail(s)[j].cursor
        PROVE  i = j
    <2>1. i + 1 = j + 1
      BY <1>1, <1>3, <1>4 DEF Distinct
    <2> QED BY <2>1
  <1>5. Range(Tail(s)) = {Tail(s)[i] : i \in 1 .. Len(Tail(s))}
    BY Zenon, <1>1, RangeEquality
  <1>6. 1 \in 1 .. Len(s)
    BY <1>2
  <1>7. \A i \in 1 .. Len(Tail(s)) : Tail(s)[i].cursor # Head(s).cursor
    BY Zenon, <1>1, <1>2, <1>3, <1>6 DEF Distinct
  <1> QED BY Zenon, <1>4, <1>5, <1>7 DEF Distinct, Cursors
-----------------------------------------------------------------------------
\* A writer's frame, by its place.
LEMMA WriterFields ==
  ASSUME NEW f \in Writer
  PROVE  /\ f.pc = "append" => f.scope \in Scope /\ f.at \in 0 .. MaxTime /\ f.emits \in BOOLEAN
         /\ f.pc = "draw" => f.scope \in Scope
         /\ Emits(f) => f.event \in Event /\ f \in Emitting
  <1>1. CASE f \in Idling
    BY <1>1 DEF Idling, Idle, Emits
  <1>2. CASE f \in Appending
    BY Zenon, <1>2 DEF Appending, Emits
  <1>3. CASE f \in Drawing
    BY Zenon, <1>3 DEF Drawing, Emits
  <1>4. CASE f \in Emitting
    BY Zenon, <1>4 DEF Emitting, Emits
  <1> QED BY Zenon, <1>1, <1>2, <1>3, <1>4 DEF Writer

\* The steps, by what they do to events in flight.
Calms(w, g) == /\ ~ Emits(g) /\ writer' = [writer EXCEPT ![w] = g]
               /\ sequence <= sequence' /\ UNCHANGED <<outbox, streams, got, since>>

Draws(w, g) == /\ g.pc = "add" /\ g.event.cursor = sequence' /\ sequence' = sequence + 1
               /\ writer' = [writer EXCEPT ![w] = g]
               /\ UNCHANGED <<outbox, streams, got, since>>

Stores(w, g) == /\ Emits(writer[w]) /\ g.pc = "broadcast" /\ g.event = writer[w].event
                /\ outbox' = Append(outbox, g.event)
                /\ writer' = [writer EXCEPT ![w] = g]
                /\ UNCHANGED <<sequence, streams, got, since>>

\* The steps of the writers, and the types of their frames.
LEMMA WriteEffect ==
  ASSUME TypeOK, NEW w \in Writers, Write(w)
  PROVE  \/ Broadcast(w)
         \/ \E g \in Writer : /\ Calms(w, g) \/ Draws(w, g) \/ Stores(w, g)
                              /\ now' = now /\ sequence' \in 0 .. MaxSequence
  <1>1. /\ writer[w] \in Writer /\ sequence \in 0 .. MaxSequence /\ now \in 0 .. MaxTime
        /\ MaxSequence \in Nat
    BY Zenon, FeedAssumption DEF TypeOK
  <1>2. Idle \in Writer /\ ~ Emits(Idle)
    BY Zenon DEF Writer, Idling, Idle, Emits
  <1>3. ASSUME NEW scope \in Scope, NEW emits \in BOOLEAN, StampAudit(w, scope, emits)
        PROVE  \E g \in Writer : Calms(w, g) /\ now' = now /\ sequence' \in 0 .. MaxSequence
    <2> DEFINE g == [pc |-> "append", scope |-> scope, at |-> now, emits |-> emits]
    <2>1. g \in Appending /\ ~ Emits(g)
      BY Zenon, <1>1 DEF Appending, Emits
    <2> HIDE DEF g
    <2>2. sequence <= sequence' /\ sequence' \in 0 .. MaxSequence /\ writer' = [writer EXCEPT ![w] = g]
      BY <1>1, <1>3 DEF StampAudit, Goto, g
    <2>3. Calms(w, g) /\ now' = now
      BY Zenon, <1>3, <2>1, <2>2 DEF Calms, StampAudit
    <2> QED BY Zenon, <2>1, <2>2, <2>3 DEF Writer
  <1>4. CASE AppendAudit(w)
    <2>1. writer[w].pc = "append" /\ writer[w].scope \in Scope
      BY Zenon, <1>1, <1>4, WriterFields DEF AppendAudit
    <2> DEFINE g == [pc |-> "draw", scope |-> writer[w].scope]
    <2>2. g \in Drawing /\ ~ Emits(g)
      BY Zenon, <2>1 DEF Drawing, Emits
    <2> HIDE DEF g
    <2>3. writer' = [writer EXCEPT ![w] = g] \/ writer' = [writer EXCEPT ![w] = Idle]
      BY Zenon, <1>4 DEF AppendAudit, Goto, g
    <2>4. UNCHANGED <<now, sequence, outbox, streams, got, since>> /\ sequence <= sequence'
      BY <1>1, <1>4 DEF AppendAudit
    <2>5. Calms(w, g) \/ Calms(w, Idle)
      BY Zenon, <1>2, <2>2, <2>3, <2>4 DEF Calms
    <2> QED BY Zenon, <1>1, <1>2, <2>2, <2>4, <2>5 DEF Writer
  <1>5. CASE DrawCursor(w)
    <2>1. /\ writer[w].scope \in Scope /\ sequence' = sequence + 1
          /\ sequence' \in 1 .. MaxSequence /\ sequence' \in 0 .. MaxSequence
      BY <1>1, <1>5, WriterFields DEF DrawCursor
    <2> DEFINE e == [cursor |-> sequence', scope |-> writer[w].scope, at |-> now]
               g == [pc |-> "add", event |-> e]
    <2>2. e \in Event /\ e.cursor = sequence'
      BY Zenon, <1>1, <2>1 DEF Event
    <2> HIDE DEF e
    <2>3. g \in Emitting /\ g.pc = "add" /\ g.event = e
      BY Zenon, <2>2 DEF Emitting
    <2>4. writer' = [writer EXCEPT ![w] = g]
      BY Zenon, <1>5 DEF DrawCursor, Goto, e
    <2> HIDE DEF g
    <2>5. Draws(w, g) /\ now' = now
      BY Zenon, <1>5, <2>1, <2>2, <2>3, <2>4 DEF Draws, DrawCursor
    <2> QED BY Zenon, <2>1, <2>3, <2>5 DEF Writer
  <1>6. CASE Add(w)
    <2> DEFINE g == [writer[w] EXCEPT !.pc = "broadcast"]
    <2>1. Emits(writer[w]) /\ writer[w] \in Emitting
      BY Zenon, <1>1, <1>6, WriterFields DEF Add, Emits
    <2>2. g \in Emitting /\ g.pc = "broadcast" /\ g.event = writer[w].event
      BY Zenon, <2>1 DEF Emitting
    <2>3. writer' = [writer EXCEPT ![w] = g] /\ outbox' = Append(outbox, writer[w].event)
      BY Zenon, <1>6 DEF Add, Goto
    <2> HIDE DEF g
    <2>4. Stores(w, g) /\ now' = now /\ sequence' = sequence
      BY Zenon, <1>6, <2>1, <2>2, <2>3 DEF Stores, Add
    <2> QED BY Zenon, <1>1, <2>2, <2>4 DEF Writer
  <1> QED BY Zenon, <1>3, <1>4, <1>5, <1>6 DEF Write

\* The steps of the others.
LEMMA OtherEffect ==
  ASSUME TypeOK, [Next]_vars, ~ \E w \in Writers : Write(w)
  PROVE  /\ UNCHANGED <<writer, sequence, audits, outbox>> /\ now' \in 0 .. MaxTime
         /\ \/ \E c \in Clients : Subscribe(c) \/ Send(c) \/ Cancel(c)
            \/ UNCHANGED <<streams, got, since>>
  <1>1. CASE Deliver
    BY Zenon, <1>1 DEF Deliver, Pending, MarkDelivered, TypeOK
  <1>2. CASE Tick
    BY <1>2, FeedAssumption DEF Tick, TypeOK
  <1>3. ASSUME NEW c \in Clients, Listen(c)
        PROVE  /\ UNCHANGED <<now, writer, sequence, audits, outbox>>
               /\ Subscribe(c) \/ Send(c) \/ Cancel(c)
    BY Zenon, <1>3 DEF Listen, Subscribe, Send, Cancel
  <1>4. CASE UNCHANGED vars
    BY Zenon, <1>4 DEF vars, TypeOK
  <1> QED BY Zenon, <1>1, <1>2, <1>3, <1>4 DEF Next, TypeOK

\* An open stream's buffer.
LEMMA OpenIsBuffer ==
  ASSUME TypeOK, NEW c \in Clients
  PROVE  Open(c) <=> streams[c] \in Seq(Event)
  BY Zenon, NoStreamAssumption DEF TypeOK, Open

\* Every variable keeps its type.
LEMMA TypeInv == Spec => []TypeOK
  <1>1. Init => TypeOK
    <2> SUFFICES ASSUME Init
                 PROVE  TypeOK
      BY Zenon
    <2>1. <<>> \in Seq(Event) /\ Idle \in Writer
      BY Zenon, EmptySeq DEF Writer, Idling
    <2> QED BY <2>1, FeedAssumption DEF Init, TypeOK
  <1>2. TypeOK /\ [Next]_vars => TypeOK'
    <2> SUFFICES ASSUME TypeOK, [Next]_vars
                 PROVE  TypeOK'
      BY Zenon
    <2>1. ASSUME NEW w \in Writers, Broadcast(w)
          PROVE  TypeOK'
      <3>1. Idle \in Writer
        BY Zenon DEF Writer, Idling
      <3>2. writer[w] \in Writer /\ Emits(writer[w])
        BY Zenon, <2>1 DEF Broadcast, Emits, TypeOK
      <3>3. writer[w].event \in Event
        BY Zenon, <3>2, WriterFields
      <3>4. \A c \in Clients : Open(c) => Append(streams[c], writer[w].event) \in Seq(Event)
        BY Zenon, <3>3, OpenIsBuffer, AppendProperties
      <3>5. streams' \in [Clients -> Seq(Event) \cup {NoStream}]
        BY Zenon, <2>1, <3>4 DEF Broadcast, TypeOK
      <3>6. since' \in [Clients -> SUBSET Event]
        BY Zenon, <2>1, <3>3 DEF Broadcast, TypeOK
      <3>7. writer' \in [Writers -> Writer]
        BY Zenon, <2>1, <3>1 DEF Broadcast, Goto, TypeOK
      <3> QED BY Zenon, <2>1, <3>5, <3>6, <3>7 DEF Broadcast, TypeOK
    <2>2. ASSUME NEW w \in Writers, NEW g \in Writer, Calms(w, g) \/ Draws(w, g) \/ Stores(w, g),
                 now' = now, sequence' \in 0 .. MaxSequence
          PROVE  TypeOK'
      <3>1. writer' \in [Writers -> Writer] /\ UNCHANGED <<streams, got, since>>
        BY Zenon, <2>2 DEF TypeOK, Calms, Draws, Stores
      <3>2. outbox' \in Seq(Event)
        <4>1. CASE Stores(w, g)
          <5>1. g.event \in Event
            BY Zenon, <4>1, WriterFields DEF Stores, Emits
          <5> QED BY Zenon, <4>1, <5>1, AppendProperties DEF Stores, TypeOK
        <4>2. CASE Calms(w, g) \/ Draws(w, g)
          BY Zenon, <4>2 DEF Calms, Draws, TypeOK
        <4> QED BY Zenon, <2>2, <4>1, <4>2
      <3> QED BY Zenon, <2>2, <3>1, <3>2 DEF TypeOK
    <2>3. ASSUME NEW c \in Clients, Subscribe(c)
          PROVE  TypeOK'
      <3>1. <<>> \in Seq(Event)
        BY Zenon, EmptySeq
      <3> QED BY Zenon, <2>3, <3>1 DEF Subscribe, TypeOK
    <2>4. ASSUME NEW c \in Clients, Send(c)
          PROVE  TypeOK'
      <3>1. streams[c] \in Seq(Event) /\ streams[c] # <<>>
        BY Zenon, <2>4, OpenIsBuffer DEF Send
      <3>2. Head(streams[c]) \in Event /\ Tail(streams[c]) \in Seq(Event)
        BY Zenon, <3>1, HeadTailProperties
      <3>3. Append(got[c], Head(streams[c])) \in Seq(Event)
        BY Zenon, <3>2, AppendProperties DEF TypeOK
      <3>4. got' \in [Clients -> Seq(Event)]
        BY Zenon, <2>4, <3>3 DEF Send, TypeOK
      <3>5. streams' \in [Clients -> Seq(Event) \cup {NoStream}]
        BY Zenon, <2>4, <3>2 DEF Send, TypeOK
      <3> QED BY Zenon, <2>4, <3>4, <3>5 DEF Send, TypeOK
    <2>5. ASSUME NEW c \in Clients, Cancel(c)
          PROVE  TypeOK'
      BY Zenon, <2>5 DEF Cancel, TypeOK
    <2>6. CASE \E w \in Writers : Write(w)
      BY Zenon, <2>1, <2>2, <2>6, WriteEffect
    <2>7. CASE ~ \E w \in Writers : Write(w)
      <3>1. CASE UNCHANGED <<streams, got, since>>
        BY Zenon, <2>7, <3>1, OtherEffect DEF TypeOK
      <3> QED BY Zenon, <2>3, <2>4, <2>5, <2>7, <3>1, OtherEffect
    <2> QED BY Zenon, <2>6, <2>7
  <1> QED BY <1>1, <1>2, PTL DEF Spec
-----------------------------------------------------------------------------
\* Sealing onto the last hash keeps a log verified.
LEMMA SealKeepsVerified ==
  ASSUME NEW S, NEW log \in Seq(S), Verify(log), NEW scope, NEW at
  PROVE  Verify(Append(log, Seal(scope, at, LastHash(log))))
  <1> DEFINE r == Seal(scope, at, LastHash(log))
             log2 == Append(log, r)
             Before(l, i) == IF i = 1 THEN NoHash ELSE l[i - 1].hash
  <1>1. r.scope = scope /\ r.at = at /\ r.hash = <<scope, at, LastHash(log)>>
    BY Zenon DEF Seal
  <1> HIDE DEF r
  <1>2. log \in Seq(S \cup {r}) /\ r \in S \cup {r}
    OBVIOUS
  <1>3. /\ Len(log2) = Len(log) + 1 /\ Len(log) \in Nat
        /\ \A i \in 1 .. Len(log) : log2[i] = log[i]
        /\ log2[Len(log) + 1] = r
    BY <1>2, AppendProperties, LenProperties
  <1>4. LastHash(log) = Before(log, Len(log) + 1)
    BY EmptySeq DEF LastHash
  <1> HIDE DEF log2
  <1>5. \A i \in 1 .. Len(log) + 1 : Before(log2, i) = Before(log, i)
    BY <1>3
  <1>6. \A i \in 1 .. Len(log) : log[i].hash = <<log[i].scope, log[i].at, Before(log, i)>>
    BY Zenon DEF Verify, Seal
  <1> HIDE DEF Before
  <1>7. ASSUME NEW i \in 1 .. Len(log2)
        PROVE  log2[i].hash = <<log2[i].scope, log2[i].at, Before(log2, i)>>
    <2>1. CASE i = Len(log) + 1
      BY Zenon, <1>1, <1>3, <1>4, <1>5, <2>1
    <2>2. CASE i \in 1 .. Len(log)
      BY Zenon, <1>3, <1>5, <1>6, <2>2
    <2> QED BY <1>3, <2>1, <2>2
  <1> QED BY Zenon, <1>7 DEF Verify, Seal, Before, log2, r

\* The log is a sequence, whatever its records are.
IsLog == \E S : audits \in Seq(S)

\* Memory.Append seals under the lock: whatever writers append at once, the
\* whole log verifies.
THEOREM LogVerifies == Spec => []AuditChain
  <1>1. Init => IsLog /\ Verify(audits)
    <2> SUFFICES ASSUME Init
                 PROVE  IsLog /\ Verify(audits)
      BY Zenon
    <2>1. audits \in Seq({}) /\ Len(audits) = 0
      BY Zenon, EmptySeq DEF Init
    <2> QED BY <2>1 DEF Verify, IsLog
  <1>2. TypeOK /\ IsLog /\ Verify(audits) /\ [Next]_vars => IsLog' /\ Verify(audits)'
    <2> SUFFICES ASSUME TypeOK, IsLog, Verify(audits), [Next]_vars
                 PROVE  IsLog' /\ Verify(audits)'
      BY Zenon
    <2>1. CASE audits' = audits
      BY Zenon, <2>1 DEF IsLog
    <2>2. ASSUME NEW w \in Writers, AppendAudit(w)
          PROVE  IsLog' /\ Verify(audits)'
      <3> DEFINE r == Seal(writer[w].scope, writer[w].at, LastHash(audits))
      <3>1. audits' = Append(audits, r)
        BY Zenon, <2>2 DEF AppendAudit
      <3>2. PICK S : audits \in Seq(S)
        BY Zenon DEF IsLog
      <3>3. Verify(audits)'
        BY Zenon, <3>1, <3>2, SealKeepsVerified
      <3> HIDE DEF r
      <3>4. audits \in Seq(S \cup {r}) /\ r \in S \cup {r}
        BY <3>2
      <3>5. audits' \in Seq(S \cup {r})
        BY Zenon, <3>1, <3>4, AppendProperties
      <3> QED BY Zenon, <3>3, <3>5 DEF IsLog
    <2>3. CASE \E w \in Writers : Write(w)
      BY Zenon, <2>1, <2>2, <2>3 DEF Write, StampAudit, DrawCursor, Add, Broadcast
    <2>4. CASE ~ \E w \in Writers : Write(w)
      BY Zenon, <2>1, <2>4, OtherEffect
    <2> QED BY Zenon, <2>3, <2>4
  <1> QED BY <1>1, <1>2, TypeInv, PTL DEF Spec, AuditChain
-----------------------------------------------------------------------------
(***************************************************************************)
(* The chain of a scope.  Loops(f, ...) says that f[n] is what QueryAudit's*)
(* loop has kept after the first n records; there is one such f, and it is *)
(* not changed by records appended later.                                  *)
(***************************************************************************)
Loops(f, log, scope, m) ==
  /\ f[0] = <<>>
  /\ \A n \in 1 .. m :
       f[n] = IF log[n].scope = scope THEN Append(f[n - 1], log[n]) ELSE f[n - 1]

\* A set of natural numbers has a least element.
LEMMA LeastNatural ==
  ASSUME NEW T, T \subseteq Nat, T # {}
  PROVE  \E x \in T : \A y \in T : x <= y
  <1> DEFINE Less == OpToRel(<, Nat)
  <1>1. Less = {ss \in Nat \X Nat : ss[1] < ss[2]}
    BY Zenon DEF OpToRel
  <1>2. IsWellFoundedOn(Less, Nat)
    BY Zenon, NatLessThanWellFounded
  <1> HIDE DEF Less
  <1>3. PICK x \in T : \A y \in T : ~ (<<y, x>> \in Less)
    BY ZenonT(30), <1>2, WFMin
  <1>4. \A y \in T : ~ (y < x)
    BY Zenon, <1>1, <1>3
  <1> QED BY <1>4

\* The loop runs to the end of any log.
LEMMA LoopRuns ==
  ASSUME NEW S, NEW log \in Seq(S), NEW scope, NEW m \in 0 .. Len(log)
  PROVE  \E f \in [0 .. m -> Seq(S)] : Loops(f, log, scope, m)
  <1> DEFINE Runs(k) == \E f \in [0 .. k -> Seq(S)] : Loops(f, log, scope, k)
             T == {k \in 0 .. Len(log) : ~ Runs(k)}
  <1>1. Len(log) \in Nat /\ \A k \in 1 .. Len(log) : log[k] \in S
    BY LenProperties, ElementOfSeq
  <1>2. Runs(0)
    <2>1. <<>> \in Seq(S)
      BY Zenon, EmptySeq
    <2> DEFINE f == [n \in 0 .. 0 |-> <<>>]
    <2>2. f \in [0 .. 0 -> Seq(S)] /\ f[0] = <<>>
      BY <2>1
    <2>3. Loops(f, log, scope, 0)
      BY <2>2 DEF Loops
    <2> QED BY Zenon, <2>2, <2>3
  <1>3. ASSUME NEW k \in 1 .. Len(log), Runs(k - 1)
        PROVE  Runs(k)
    <2>1. PICK f \in [0 .. k - 1 -> Seq(S)] : Loops(f, log, scope, k - 1)
      BY Zenon, <1>3
    <2> DEFINE last == IF log[k].scope = scope THEN Append(f[k - 1], log[k]) ELSE f[k - 1]
               g == [n \in 0 .. k |-> IF n = k THEN last ELSE f[n]]
    <2>2. k - 1 \in 0 .. k - 1
      BY <1>1
    <2>3. last \in Seq(S)
      <3>1. f[k - 1] \in Seq(S) /\ log[k] \in S
        BY Zenon, <1>1, <2>2
      <3> QED BY Zenon, <3>1, AppendProperties
    <2> HIDE DEF last
    <2>4. \A n \in 0 .. k : n = k \/ n \in 0 .. k - 1
      BY <1>1
    <2>5. g \in [0 .. k -> Seq(S)]
      BY Zenon, <2>3, <2>4
    <2>6. g[k] = last /\ \A n \in 0 .. k - 1 : g[n] = f[n]
      BY <1>1
    <2> HIDE DEF g
    <2>7. \A n \in 1 .. k : n - 1 \in 0 .. k - 1 /\ (n # k => n \in 0 .. k - 1 /\ n \in 1 .. k - 1)
      BY <1>1
    <2>8. 0 \in 0 .. k - 1
      BY <1>1
    <2>9. Loops(g, log, scope, k)
      <3>1. g[0] = <<>>
        BY Zenon, <2>1, <2>6, <2>8 DEF Loops
      <3>2. ASSUME NEW n \in 1 .. k
            PROVE  g[n] = IF log[n].scope = scope THEN Append(g[n - 1], log[n]) ELSE g[n - 1]
        <4>1. g[n - 1] = f[n - 1]
          BY Zenon, <2>6, <2>7
        <4>2. CASE n = k
          BY Zenon, <2>6, <4>1, <4>2 DEF last
        <4>3. CASE n # k
          <5>1. g[n] = f[n] /\ n \in 1 .. k - 1
            BY Zenon, <2>6, <2>7, <4>3
          <5> QED BY Zenon, <2>1, <4>1, <5>1 DEF Loops
        <4> QED BY Zenon, <4>2, <4>3
      <3> QED BY Zenon, <3>1, <3>2 DEF Loops
    <2> QED BY Zenon, <2>5, <2>9
  <1> HIDE DEF Runs
  <1>4. CASE T = {}
    BY Zenon, <1>4 DEF Runs
  <1>5. CASE T # {}
    <2>1. T \subseteq Nat
      BY <1>1
    <2>2. PICK k \in T : \A j \in T : k <= j
      BY Zenon, <1>5, <2>1, LeastNatural
    <2>3. k \in 1 .. Len(log)
      BY <1>1, <1>2, <2>2
    <2>4. k - 1 \in 0 .. Len(log) /\ ~ (k <= k - 1)
      BY <1>1, <2>3
    <2>5. Runs(k - 1)
      BY Zenon, <2>2, <2>4
    <2> QED BY Zenon, <1>3, <2>2, <2>3, <2>5
  <1> QED BY Zenon, <1>4, <1>5

\* Two runs of the loop over logs that agree keep the same records.
LEMMA LoopsAgree ==
  ASSUME NEW f, NEW g, NEW log, NEW log2, NEW scope, NEW m \in Nat, NEW m2 \in Nat, m <= m2,
         \A n \in 1 .. m : log2[n] = log[n],
         Loops(f, log, scope, m), Loops(g, log2, scope, m2)
  PROVE  f[m] = g[m]
  <1> DEFINE T == {k \in 0 .. m : f[k] # g[k]}
  <1>1. CASE T = {}
    <2>1. m \in 0 .. m
      OBVIOUS
    <2> QED BY Zenon, <1>1, <2>1
  <1>2. CASE T # {}
    <2>1. T \subseteq Nat
      OBVIOUS
    <2>2. PICK k \in T : \A j \in T : k <= j
      BY Zenon, <1>2, <2>1, LeastNatural
    <2>3. f[0] = g[0]
      BY Zenon DEF Loops
    <2>4. k \in 1 .. m /\ k \in 1 .. m2
      BY <2>2, <2>3
    <2>5. k - 1 \in 0 .. m /\ ~ (k <= k - 1)
      BY <2>4
    <2>6. f[k - 1] = g[k - 1]
      BY Zenon, <2>2, <2>5
    <2>7. f[k] = IF log[k].scope = scope THEN Append(f[k - 1], log[k]) ELSE f[k - 1]
      BY Zenon, <2>4 DEF Loops
    <2>8. g[k] = IF log2[k].scope = scope THEN Append(g[k - 1], log2[k]) ELSE g[k - 1]
      BY Zenon, <2>4 DEF Loops
    <2>9. f[k] = g[k]
      BY Zenon, <2>4, <2>6, <2>7, <2>8
    <2> QED BY Zenon, <2>2, <2>9
  <1> QED BY Zenon, <1>1, <1>2

\* What Kept computes.
LEMMA KeptLoops ==
  ASSUME NEW S, NEW log \in Seq(S), NEW scope
  PROVE  /\ Kept(log, scope)[Len(log)] \in Seq(S)
         /\ Loops(Kept(log, scope), log, scope, Len(log))
  <1>1. Len(log) \in Nat /\ Len(log) \in 0 .. Len(log)
    BY LenProperties
  <1>2. PICK f \in [0 .. Len(log) -> Seq(S)] : Loops(f, log, scope, Len(log))
    BY Zenon, <1>1, LoopRuns
  <1> DEFINE Body(h) == [n \in 0 .. Len(log) |->
                IF n = 0 THEN <<>>
                ELSE IF log[n].scope = scope THEN Append(h[n - 1], log[n]) ELSE h[n - 1]]
  <1>3. \A n \in 0 .. Len(log) : n = 0 \/ n \in 1 .. Len(log)
    BY <1>1
  <1>4. \A n \in 0 .. Len(log) : f[n] = Body(f)[n]
    BY Zenon, <1>2, <1>3 DEF Loops
  <1>5. f = Body(f)
    BY Zenon, <1>2, <1>4
  <1>6. Kept(log, scope) = CHOOSE h : h = Body(h)
    BY Zenon DEF Kept
  <1>7. PICK h : h = Kept(log, scope)
    BY Zenon
  <1> HIDE DEF Body
  <1>8. h = Body(h)
    BY Zenon, <1>5, <1>6, <1>7
  <1>9. Loops(h, log, scope, Len(log))
    <2>1. 0 \in 0 .. Len(log) /\ \A n \in 1 .. Len(log) : n \in 0 .. Len(log) /\ n # 0
      BY <1>1
    <2>2. \A n \in 0 .. Len(log) :
            h[n] = IF n = 0 THEN <<>>
                   ELSE IF log[n].scope = scope THEN Append(h[n - 1], log[n]) ELSE h[n - 1]
      BY Zenon, <1>8 DEF Body
    <2> QED BY Zenon, <2>1, <2>2 DEF Loops
  <1>10. h[Len(log)] = f[Len(log)]
    <2>1. Len(log) <= Len(log) /\ \A n \in 1 .. Len(log) : log[n] = log[n]
      BY <1>1
    <2> QED BY Zenon, <1>1, <1>2, <1>9, <2>1, LoopsAgree
  <1> QED BY Zenon, <1>1, <1>7, <1>9, <1>10

\* What an appended record does to the chain of a scope.
LEMMA KeptAppend ==
  ASSUME NEW S, NEW log \in Seq(S), NEW r \in S, NEW scope
  PROVE  Kept(Append(log, r), scope)[Len(Append(log, r))] =
           IF r.scope = scope THEN Append(Kept(log, scope)[Len(log)], r)
           ELSE Kept(log, scope)[Len(log)]
  <1> DEFINE log2 == Append(log, r)
             f == Kept(log, scope)
             g == Kept(log2, scope)
  <1>1. /\ log2 \in Seq(S) /\ Len(log2) = Len(log) + 1 /\ Len(log) \in Nat
        /\ \A i \in 1 .. Len(log) : log2[i] = log[i]
        /\ log2[Len(log) + 1] = r
    BY AppendProperties, LenProperties
  <1>2. Loops(f, log, scope, Len(log)) /\ Loops(g, log2, scope, Len(log2))
    BY Zenon, <1>1, KeptLoops
  <1> HIDE DEF log2, f, g
  <1>3. Len(log2) \in Nat /\ Len(log) <= Len(log2) /\ Len(log2) \in 1 .. Len(log2)
        /\ Len(log2) - 1 = Len(log)
    BY <1>1
  <1>4. f[Len(log)] = g[Len(log)]
    BY Zenon, <1>1, <1>2, <1>3, LoopsAgree
  <1>5. g[Len(log2)] = IF log2[Len(log2)].scope = scope
                       THEN Append(g[Len(log2) - 1], log2[Len(log2)]) ELSE g[Len(log2) - 1]
    BY Zenon, <1>2, <1>3 DEF Loops
  <1>6. g[Len(log2)] = IF r.scope = scope THEN Append(f[Len(log)], r) ELSE f[Len(log)]
    BY Zenon, <1>1, <1>3, <1>4, <1>5
  <1> QED BY Zenon, <1>6 DEF log2, f, g

\* A record sealed onto a hash extends a log that verifies exactly when the
\* hash is the log's last.
LEMMA VerifyAppend ==
  ASSUME NEW S, NEW log \in Seq(S), NEW scope, NEW at, NEW previous,
         Seal(scope, at, previous) \in S
  PROVE  Verify(Append(log, Seal(scope, at, previous)))
           <=> Verify(log) /\ previous = LastHash(log)
  <1> DEFINE r == Seal(scope, at, previous)
             log2 == Append(log, r)
             Before(l, i) == IF i = 1 THEN NoHash ELSE l[i - 1].hash
             Good(l, i) == l[i].hash = <<l[i].scope, l[i].at, Before(l, i)>>
  <1>1. r.scope = scope /\ r.at = at /\ r.hash = <<scope, at, previous>>
    BY Zenon DEF Seal
  <1>2. r \in S
    OBVIOUS
  <1>3. /\ Verify(log) <=> \A i \in 1 .. Len(log) : Good(log, i)
        /\ Verify(log2) <=> \A i \in 1 .. Len(log2) : Good(log2, i)
    BY Zenon DEF Verify, Seal
  <1> HIDE DEF r
  <1>4. /\ Len(log2) = Len(log) + 1 /\ Len(log) \in Nat
        /\ \A i \in 1 .. Len(log) : log2[i] = log[i]
        /\ log2[Len(log) + 1] = r
    BY <1>2, AppendProperties, LenProperties
  <1>5. LastHash(log) = Before(log, Len(log) + 1)
    BY EmptySeq DEF LastHash
  <1> HIDE DEF log2
  <1>6. \A i \in 1 .. Len(log) + 1 : Before(log2, i) = Before(log, i)
    BY <1>4
  <1> HIDE DEF Before
  <1>7. \A i \in 1 .. Len(log) : i \in 1 .. Len(log) + 1
    BY <1>4
  <1>8. Len(log) + 1 \in 1 .. Len(log) + 1
    BY <1>4
  <1>9. \A i \in 1 .. Len(log) : Good(log2, i) <=> Good(log, i)
    BY Zenon, <1>4, <1>6, <1>7
  <1>10. Good(log2, Len(log) + 1) <=> <<scope, at, previous>> = <<scope, at, LastHash(log)>>
    BY Zenon, <1>1, <1>4, <1>5, <1>6, <1>8
  <1>11. <<scope, at, previous>> = <<scope, at, LastHash(log)>> <=> previous = LastHash(log)
    OBVIOUS
  <1> HIDE DEF Good
  <1>12. 1 .. Len(log2) = (1 .. Len(log)) \cup {Len(log) + 1}
    BY <1>4
  <1>13. Verify(log2) <=> (\A i \in 1 .. Len(log) : Good(log2, i)) /\ Good(log2, Len(log) + 1)
    BY Zenon, <1>3, <1>12
  <1>14. Verify(log2) <=> Verify(log) /\ previous = LastHash(log)
    BY Zenon, <1>3, <1>9, <1>10, <1>11, <1>13
  <1> QED BY Zenon, <1>14 DEF log2, r

\* The inductive invariant of a scope's chain: whether it verifies, and what
\* its last hash is.
Unbroken(log, scope) ==
  \A j \in DOMAIN log : log[j].scope = scope => \A i \in 1 .. j : log[i].scope = scope

EndsIn(log, scope) == log = <<>> \/ log[Len(log)].scope = scope

ChainOf(log, scope) == Kept(log, scope)[Len(log)]

Chained(log, scope) ==
  /\ Verify(ChainOf(log, scope)) <=> Unbroken(log, scope)
  /\ LastHash(ChainOf(log, scope)) = LastHash(log) <=> EndsIn(log, scope)
  /\ \/ LastHash(ChainOf(log, scope)) = NoHash
     \/ \E at, h : LastHash(ChainOf(log, scope)) = <<scope, at, h>>

\* An appended record keeps a scope unbroken if it is of another scope, or if
\* no record is.
LEMMA UnbrokenAppend ==
  ASSUME NEW S, NEW log \in Seq(S), NEW r \in S, NEW scope
  PROVE  Unbroken(Append(log, r), scope)
           <=> Unbroken(log, scope) /\ (r.scope = scope => EndsIn(log, scope))
  <1> DEFINE log2 == Append(log, r)
  <1>1. /\ Len(log2) = Len(log) + 1 /\ Len(log) \in Nat
        /\ DOMAIN log = 1 .. Len(log) /\ DOMAIN log2 = 1 .. Len(log) + 1
        /\ \A i \in 1 .. Len(log) : log2[i] = log[i]
        /\ log2[Len(log) + 1] = r
    BY AppendProperties, LenProperties
  <1>2. log = <<>> <=> Len(log) = 0
    BY Zenon, EmptySeq
  <1> HIDE DEF log2
  <1>3. ASSUME Unbroken(log2, scope)
        PROVE  Unbroken(log, scope) /\ (r.scope = scope => EndsIn(log, scope))
    <2>1. Unbroken(log, scope)
      BY <1>1, <1>3 DEF Unbroken
    <2>2. ASSUME r.scope = scope, log # <<>>
          PROVE  log[Len(log)].scope = scope
      BY <1>1, <1>2, <1>3, <2>2 DEF Unbroken
    <2> QED BY Zenon, <2>1, <2>2 DEF EndsIn
  <1>4. ASSUME Unbroken(log, scope), r.scope = scope => EndsIn(log, scope)
        PROVE  Unbroken(log2, scope)
    <2> SUFFICES ASSUME NEW j \in 1 .. Len(log) + 1, log2[j].scope = scope,
                        NEW i \in 1 .. j
                 PROVE  log2[i].scope = scope
      BY Zenon, <1>1 DEF Unbroken
    <2>1. CASE j \in 1 .. Len(log)
      BY <1>1, <1>4, <2>1 DEF Unbroken
    <2>2. CASE j = Len(log) + 1 /\ i = j
      BY Zenon, <2>2
    <2>3. CASE j = Len(log) + 1 /\ i # j
      <3>1. i \in 1 .. Len(log) /\ Len(log) \in DOMAIN log /\ log # <<>>
        BY <1>1, <1>2, <2>3
      <3>2. log[Len(log)].scope = scope
        BY Zenon, <1>1, <1>4, <2>3, <3>1 DEF EndsIn
      <3>3. log[i].scope = scope
        BY Zenon, <1>4, <3>1, <3>2 DEF Unbroken
      <3> QED BY Zenon, <1>1, <3>1, <3>3
    <2> QED BY <1>1, <2>1, <2>2, <2>3
  <1> QED BY Zenon, <1>3, <1>4 DEF log2

\* Sealing a record onto the log keeps Chained, for every scope.
LEMMA SealKeepsChained ==
  ASSUME NEW S, NEW log \in Seq(S), NEW scope, NEW own, NEW at,
         Seal(own, at, LastHash(log)) \in S, Chained(log, scope)
  PROVE  Chained(Append(log, Seal(own, at, LastHash(log))), scope)
  <1> DEFINE r == Seal(own, at, LastHash(log))
             log2 == Append(log, r)
             chain == ChainOf(log, scope)
             chain2 == ChainOf(log2, scope)
  <1>1. r \in S /\ r.scope = own /\ r.hash = <<own, at, LastHash(log)>>
    BY Zenon DEF Seal
  <1>2. chain \in Seq(S)
    BY Zenon, KeptLoops DEF ChainOf
  <1>3. chain2 = IF own = scope THEN Append(chain, r) ELSE chain
    <2> HIDE DEF r
    <2>1. chain2 = IF r.scope = scope THEN Append(chain, r) ELSE chain
      BY Zenon, <1>1, KeptAppend DEF ChainOf
    <2> QED BY Zenon, <1>1, <2>1
  <1>4. \A l \in Seq(S) : /\ Append(l, r) # <<>> /\ Append(l, r)[Len(Append(l, r))] = r
                          /\ LastHash(Append(l, r)) = <<own, at, LastHash(log)>>
    <2> SUFFICES ASSUME NEW l \in Seq(S)
                 PROVE  /\ Append(l, r) # <<>> /\ Append(l, r)[Len(Append(l, r))] = r
                        /\ LastHash(Append(l, r)) = <<own, at, LastHash(log)>>
      BY Zenon
    <2> HIDE DEF r
    <2>1. /\ Append(l, r) \in Seq(S) /\ Len(Append(l, r)) = Len(l) + 1 /\ Len(l) \in Nat
          /\ Append(l, r)[Len(l) + 1] = r
      BY <1>1, AppendProperties, LenProperties
    <2>2. Len(Append(l, r)) # 0
      BY <2>1
    <2>3. Append(l, r) # <<>>
      BY Zenon, <2>1, <2>2, EmptySeq
    <2> QED BY Zenon, <1>1, <2>1, <2>3 DEF LastHash
  <1>5. Verify(Append(chain, r)) <=> Verify(chain) /\ LastHash(log) = LastHash(chain)
    BY Zenon, <1>1, <1>2, VerifyAppend
  <1> HIDE DEF r
  <1>6. Unbroken(log2, scope) <=> Unbroken(log, scope) /\ (own = scope => EndsIn(log, scope))
    BY Zenon, <1>1, UnbrokenAppend
  <1>7. EndsIn(log2, scope) <=> own = scope
    BY Zenon, <1>1, <1>4 DEF EndsIn
  <1>8. LastHash(log2) = <<own, at, LastHash(log)>>
    BY Zenon, <1>4
  <1> HIDE DEF log2, chain, chain2
  <1>9. /\ Verify(chain) <=> Unbroken(log, scope)
        /\ LastHash(chain) = LastHash(log) <=> EndsIn(log, scope)
        /\ LastHash(chain) = NoHash \/ \E a, h : LastHash(chain) = <<scope, a, h>>
    BY Zenon DEF Chained, chain
  <1>10. CASE own = scope
    <2>1. LastHash(chain2) = <<scope, at, LastHash(log)>>
      BY Zenon, <1>2, <1>3, <1>4, <1>10
    <2>2. Verify(chain2) <=> Unbroken(log2, scope)
      BY Zenon, <1>3, <1>5, <1>6, <1>9, <1>10
    <2> QED BY Zenon, <1>7, <1>8, <1>10, <2>1, <2>2 DEF Chained, chain2, log2, r
  <1>11. CASE own # scope
    <2>1. chain2 = chain
      BY Zenon, <1>3, <1>11
    <2>2. LastHash(chain) # <<own, at, LastHash(log)>>
      <3>1. NoHash # <<own, at, LastHash(log)>>
        BY DEF NoHash
      <3>2. \A a, h : <<scope, a, h>> # <<own, at, LastHash(log)>>
        BY <1>11
      <3> QED BY Zenon, <1>9, <3>1, <3>2
    <2>3. Verify(chain2) <=> Unbroken(log2, scope)
      BY Zenon, <1>6, <1>9, <1>11, <2>1
    <2> QED BY Zenon, <1>7, <1>8, <1>9, <1>11, <2>1, <2>2, <2>3 DEF Chained, chain2, log2, r
  <1> QED BY Zenon, <1>10, <1>11

\* Where ScopeChainsVerify fails: of an untampered log QueryAudit reports a
\* valid chain for exactly the scopes whose records have no record of another
\* scope before or between them.
ScopeChainsVerifyIfUnmixed ==
  \A scope \in Scope : ChainValid(scope) <=> Unbroken(audits, scope)

\* QueryAudit filters the log by scope before it verifies the hashes, each of
\* which covers the record before it in the whole log: how far chain_valid can
\* be relied on, whatever writers append at once.
THEOREM ScopedChains == Spec => []ScopeChainsVerifyIfUnmixed
  <1> DEFINE Inv == IsLog /\ \A scope \in Scope : Chained(audits, scope)
  <1>1. Init => Inv
    <2> SUFFICES ASSUME Init
                 PROVE  Inv
      BY Zenon
    <2>1. audits = <<>> /\ <<>> \in Seq({}) /\ Len(<<>>) = 0 /\ IsLog
      BY Zenon, EmptySeq DEF Init, IsLog
    <2>2. ASSUME NEW scope \in Scope
          PROVE  Chained(audits, scope)
      <3>1. Loops(Kept(<<>>, scope), <<>>, scope, Len(<<>>))
        BY Zenon, <2>1, KeptLoops
      <3>2. ChainOf(<<>>, scope) = <<>>
        BY Zenon, <2>1, <3>1 DEF ChainOf, Loops
      <3>3. Verify(<<>>) /\ Unbroken(<<>>, scope)
        BY DEF Verify, Unbroken
      <3> QED BY Zenon, <2>1, <3>2, <3>3 DEF Chained, LastHash, EndsIn
    <2> QED BY Zenon, <2>1, <2>2
  <1>2. TypeOK /\ Inv /\ [Next]_vars => Inv'
    <2> SUFFICES ASSUME TypeOK, Inv, [Next]_vars
                 PROVE  Inv'
      BY Zenon
    <2>1. CASE audits' = audits
      BY Zenon, <2>1 DEF IsLog
    <2>2. ASSUME NEW w \in Writers, AppendAudit(w)
          PROVE  Inv'
      <3>1. PICK own, at : own = writer[w].scope /\ at = writer[w].at
        BY Zenon
      <3> DEFINE r == Seal(own, at, LastHash(audits))
      <3>2. audits' = Append(audits, r)
        BY Zenon, <2>2, <3>1 DEF AppendAudit
      <3>3. PICK S : audits \in Seq(S)
        BY Zenon DEF IsLog
      <3> HIDE DEF r
      <3>4. audits \in Seq(S \cup {r}) /\ r \in S \cup {r}
        BY <3>3
      <3>5. audits' \in Seq(S \cup {r})
        BY Zenon, <3>2, <3>4, AppendProperties
      <3>6. ASSUME NEW scope \in Scope
            PROVE  Chained(Append(audits, r), scope)
        BY Zenon, <3>4, SealKeepsChained DEF r
      <3>7. IsLog'
        BY Zenon, <3>5 DEF IsLog
      <3>8. \A scope \in Scope : Chained(audits', scope)
        BY Zenon, <3>2, <3>6
      <3> QED BY Zenon, <3>7, <3>8
    <2>3. CASE \E w \in Writers : Write(w)
      BY Zenon, <2>1, <2>2, <2>3 DEF Write, StampAudit, DrawCursor, Add, Broadcast
    <2>4. CASE ~ \E w \in Writers : Write(w)
      BY Zenon, <2>1, <2>4, OtherEffect
    <2> QED BY Zenon, <2>3, <2>4
  <1>3. Inv => ScopeChainsVerifyIfUnmixed
    BY Zenon DEF Chained, ChainOf, ScopeChainsVerifyIfUnmixed, ChainValid, ScopedChain
  <1> HIDE DEF Inv
  <1> QED BY <1>1, <1>2, <1>3, TypeInv, PTL DEF Spec
-----------------------------------------------------------------------------
(***************************************************************************)
(* What a client has seen or may see, and the cursors in flight.           *)
(***************************************************************************)
Buffered(c) == IF Open(c) THEN Range(streams[c]) ELSE {}

Seen(c) == Range(got[c]) \cup Buffered(c) \cup since[c]

\* A cursor in flight is one writer's, and no client has it.
Flight ==
  /\ \A w \in Writers : Emits(writer[w]) => writer[w].event.cursor <= sequence
  /\ \A v, w \in Writers : /\ Emits(writer[v]) /\ Emits(writer[w])
                           /\ writer[v].event.cursor = writer[w].event.cursor
                           => v = w
  /\ \A c \in Clients : \A e \in Seen(c) : e.cursor <= sequence
  /\ \A c \in Clients, w \in Writers : \A e \in Seen(c) :
       Emits(writer[w]) => writer[w].event.cursor # e.cursor

\* What a stored event's writer broadcasts is stored.
Recorded == /\ StreamedIsStored
            /\ \A w \in Writers : writer[w].pc = "broadcast" => writer[w].event \in Range(outbox)

\* A client's own events are apart.
Apart ==
  \A c \in Clients :
    /\ Distinct(got[c])
    /\ Open(c) => /\ Distinct(streams[c])
                  /\ Cursors(streams[c]) \cap Cursors(got[c]) = {}

\* A buffer holds no more events than were broadcast.
Counted ==
  \A c \in Clients : /\ IsFiniteSet(since[c])
                     /\ Open(c) => Len(streams[c]) <= Cardinality(since[c])

\* Everything a client can see is an event.
LEMMA SeenEvents ==
  ASSUME TypeOK, NEW c \in Clients
  PROVE  /\ Seen(c) \subseteq Event
         /\ Cursors(got[c]) \subseteq {e.cursor : e \in Seen(c)}
         /\ Open(c) => Cursors(streams[c]) \subseteq {e.cursor : e \in Seen(c)}
  <1>1. got[c] \in Seq(Event) /\ since[c] \subseteq Event
    BY Zenon DEF TypeOK
  <1>2. Range(got[c]) \subseteq Event
    BY <1>1, RangeEquality
  <1>3. Buffered(c) \subseteq Event
    <2>1. CASE Open(c)
      <3>1. streams[c] \in Seq(Event)
        BY Zenon, <2>1, OpenIsBuffer
      <3>2. Range(streams[c]) \subseteq Event
        BY <3>1, RangeEquality
      <3> QED BY Zenon, <2>1, <3>2 DEF Buffered
    <2> QED BY Zenon, <2>1 DEF Buffered
  <1> QED BY Zenon, <1>1, <1>2, <1>3 DEF Seen, Buffered, Cursors

\* What a client sees grows by what is broadcast only.
LEMMA BroadcastEffect ==
  ASSUME TypeOK, NEW w \in Writers, Broadcast(w), NEW c \in Clients
  PROVE  LET e == writer[w].event
         IN  /\ e \in Event /\ Emits(writer[w])
             /\ got'[c] = got[c] /\ (Open(c)' <=> Open(c))
             /\ Open(c) => since'[c] = since[c] \cup {e}
             /\ ~ Open(c) => since'[c] = since[c]
             /\ Open(c) /\ HasRoom(streams[c]) =>
                  /\ streams'[c] = Append(streams[c], e)
                  /\ Range(streams'[c]) = Range(streams[c]) \cup {e}
                  /\ Len(streams'[c]) = Len(streams[c]) + 1
             /\ ~ (Open(c) /\ HasRoom(streams[c])) => streams'[c] = streams[c]
             /\ Seen(c)' \subseteq Seen(c) \cup {e}
  <1> DEFINE e == writer[w].event
  <1>1. Emits(writer[w]) /\ writer[w] \in Writer
    BY Zenon DEF Broadcast, Emits, TypeOK
  <1>2. e \in Event
    BY Zenon, <1>1, WriterFields
  <1> HIDE DEF e
  <1>3. /\ got'[c] = got[c]
        /\ streams'[c] = IF Open(c) /\ HasRoom(streams[c]) THEN Append(streams[c], e) ELSE streams[c]
        /\ since'[c] = IF Open(c) THEN since[c] \cup {e} ELSE since[c]
    BY Zenon DEF Broadcast, e
  <1>4. Open(c) => /\ Append(streams[c], e) \in Seq(Event)
                   /\ Len(Append(streams[c], e)) = Len(streams[c]) + 1
                   /\ Range(Append(streams[c], e)) = Range(streams[c]) \cup {e}
    BY <1>2, OpenIsBuffer, AppendRange
  <1>5. Open(c)' <=> Open(c)
    BY Zenon, <1>3, <1>4, NoStreamAssumption DEF Open
  <1>6. Buffered(c)' \subseteq Buffered(c) \cup {e}
    BY Zenon, <1>3, <1>4, <1>5 DEF Buffered
  <1>7. Seen(c)' \subseteq Seen(c) \cup {e}
    BY Zenon, <1>3, <1>6 DEF Seen
  <1> QED BY Zenon, <1>1, <1>2, <1>3, <1>4, <1>5, <1>7 DEF e

\* What one client's Send does.
LEMMA SendEffect ==
  ASSUME TypeOK, NEW c \in Clients, Send(c)
  PROVE  LET e == Head(streams[c])
         IN  /\ Open(c) /\ streams[c] \in Seq(Event) /\ streams[c] # <<>> /\ e \in Event
             /\ streams'[c] = Tail(streams[c]) /\ Open(c)' /\ streams'[c] \in Seq(Event)
             /\ Range(streams[c]) = Range(streams'[c]) \cup {e}
             /\ Len(streams'[c]) = Len(streams[c]) - 1
             /\ IF e.scope \in Wanted[c]
                THEN /\ got'[c] = Append(got[c], e)
                     /\ Range(got'[c]) = Range(got[c]) \cup {e}
                ELSE got'[c] = got[c]
             /\ \A d \in Clients : d # c => streams'[d] = streams[d] /\ got'[d] = got[d]
             /\ since' = since
             /\ \A d \in Clients : Seen(d)' \subseteq Seen(d) /\ (Open(d)' <=> Open(d))
  <1> DEFINE e == Head(streams[c])
  <1>1. Open(c) /\ streams[c] \in Seq(Event) /\ streams[c] # <<>>
    BY Zenon, OpenIsBuffer DEF Send
  <1>2. /\ e \in Event /\ Tail(streams[c]) \in Seq(Event)
        /\ Len(Tail(streams[c])) = Len(streams[c]) - 1
        /\ Range(streams[c]) = Range(Tail(streams[c])) \cup {e}
    BY Zenon, <1>1, TailRange
  <1>3. /\ streams'[c] = Tail(streams[c]) /\ since' = since
        /\ \A d \in Clients : d # c => streams'[d] = streams[d]
    BY Zenon DEF Send, TypeOK
  <1>4. Range(Append(got[c], e)) = Range(got[c]) \cup {e}
    BY <1>2, AppendRange DEF TypeOK
  <1> HIDE DEF e
  <1>5. /\ e.scope \in Wanted[c] => got'[c] = Append(got[c], e)
        /\ e.scope \notin Wanted[c] => got'[c] = got[c]
        /\ \A d \in Clients : d # c => got'[d] = got[d]
    BY Zenon DEF Send, TypeOK, e
  <1>6. Open(c)' /\ \A d \in Clients : Open(d)' <=> Open(d)
    BY ZenonT(30), <1>1, <1>2, <1>3, NoStreamAssumption DEF Open
  <1>7. ASSUME NEW d \in Clients
        PROVE  Seen(d)' \subseteq Seen(d)
    <2>1. CASE d = c
      <3>1. Buffered(c)' \cup {e} = Buffered(c) /\ e \in Buffered(c)
        BY Zenon, <1>1, <1>2, <1>3, <1>6 DEF Buffered
      <3>2. Range(got'[c]) \subseteq Range(got[c]) \cup {e}
        BY ZenonT(30), <1>4, <1>5
      <3> QED BY Zenon, <1>3, <2>1, <3>1, <3>2 DEF Seen
    <2>2. CASE d # c
      BY Zenon, <1>3, <1>5, <1>6, <2>2 DEF Seen, Buffered
    <2> QED BY Zenon, <2>1, <2>2
  <1> QED BY Zenon, <1>1, <1>2, <1>3, <1>4, <1>5, <1>6, <1>7 DEF e

\* Subscribe and Cancel empty a buffer.
LEMMA TurnEffect ==
  ASSUME TypeOK, NEW c \in Clients, Subscribe(c) \/ Cancel(c)
  PROVE  /\ got' = got
         /\ \A d \in Clients : d # c => streams'[d] = streams[d] /\ since'[d] = since[d]
         /\ Subscribe(c) => streams'[c] = <<>> /\ since'[c] = {}
         /\ ~ Subscribe(c) => ~ Open(c)' /\ since'[c] = since[c]
         /\ \A d \in Clients : Seen(d)' \subseteq Seen(d)
  <1>1. CASE Subscribe(c)
    <2>1. /\ got' = got /\ streams'[c] = <<>> /\ since'[c] = {}
          /\ \A d \in Clients : d # c => streams'[d] = streams[d] /\ since'[d] = since[d]
      BY Zenon, <1>1 DEF Subscribe, TypeOK
    <2>2. Range(<<>>) = {}
      BY DEF Range
    <2>3. \A d \in Clients : Seen(d)' \subseteq Seen(d)
      BY Zenon, <2>1, <2>2 DEF Seen, Buffered, Open
    <2> QED BY Zenon, <1>1, <2>1, <2>3
  <1>2. CASE Cancel(c) /\ ~ Subscribe(c)
    <2>1. /\ got' = got /\ streams'[c] = NoStream /\ since' = since
          /\ \A d \in Clients : d # c => streams'[d] = streams[d]
      BY Zenon, <1>2 DEF Cancel, TypeOK
    <2>2. \A d \in Clients : Seen(d)' \subseteq Seen(d)
      BY Zenon, <2>1 DEF Seen, Buffered, Open
    <2> QED BY Zenon, <1>2, <2>1, <2>2 DEF Open
  <1> QED BY Zenon, <1>1, <1>2
-----------------------------------------------------------------------------
\* A step of a writer that does not broadcast keeps cursors in flight apart.
LEMMA FlightOfWriter ==
  ASSUME TypeOK, Flight, NEW w \in Writers, NEW g \in Writer,
         Calms(w, g) \/ Draws(w, g) \/ Stores(w, g), sequence' \in 0 .. MaxSequence
  PROVE  Flight'
  <1>1. /\ writer \in [Writers -> Writer] /\ sequence \in Nat /\ sequence' \in Nat
    BY FeedAssumption DEF TypeOK
  <1>2. \A v \in Writers : writer'[v] = IF v = w THEN g ELSE writer[v]
    BY Zenon, <1>1 DEF Calms, Draws, Stores
  <1>3. \A c \in Clients : Seen(c)' = Seen(c)
    BY Zenon DEF Calms, Draws, Stores, Seen, Buffered, Open
  <1>4. \A e \in Event : e.cursor \in Nat
    BY SMTT(30), FeedAssumption DEF Event
  <1>5. \A c \in Clients : \A e \in Seen(c) : e.cursor \in Nat /\ e.cursor <= sequence
    BY ZenonT(30), <1>4, SeenEvents DEF Flight
  <1>6. \A v \in Writers : Emits(writer[v]) => /\ writer[v].event.cursor \in Nat
                                               /\ writer[v].event.cursor <= sequence
    BY Zenon, <1>1, <1>4, WriterFields DEF Flight
  <1>7. sequence <= sequence'
    BY <1>1 DEF Calms, Draws, Stores
  <1>8. /\ \A v \in Writers : Emits(writer[v]) => writer[v].event.cursor <= sequence'
        /\ \A c \in Clients : \A e \in Seen(c) : e.cursor <= sequence'
    BY <1>1, <1>5, <1>6, <1>7
  <1>9. CASE Calms(w, g)
    <2>1. ~ Emits(g)
      BY Zenon, <1>9 DEF Calms
    <2> QED BY Zenon, <1>2, <1>3, <1>8, <2>1 DEF Flight
  <1>10. CASE Draws(w, g)
    <2>1. g.event.cursor = sequence' /\ sequence' = sequence + 1
      BY Zenon, <1>10 DEF Draws
    <2>2. \A v \in Writers : Emits(writer[v]) => writer[v].event.cursor # g.event.cursor
      BY <1>1, <1>6, <2>1
    <2>3. \A c \in Clients : \A e \in Seen(c) : e.cursor # g.event.cursor
      BY <1>1, <1>5, <2>1
    <2>4. g.event.cursor <= sequence'
      BY SMTT(30), <1>1, <2>1
    <2> QED BY Zenon, <1>2, <1>3, <1>8, <2>2, <2>3, <2>4 DEF Flight
  <1>11. CASE Stores(w, g)
    <2>1. g.event = writer[w].event /\ Emits(writer[w])
      BY Zenon, <1>11 DEF Stores
    <2> QED BY Zenon, <1>2, <1>3, <1>8, <2>1 DEF Flight
  <1> QED BY Zenon, <1>9, <1>10, <1>11

\* Every step keeps the cursors in flight apart.
LEMMA FlightStep ==
  ASSUME TypeOK, Flight, [Next]_vars
  PROVE  Flight'
  <1>1. ASSUME NEW w \in Writers, Broadcast(w)
        PROVE  Flight'
    <2> DEFINE e == writer[w].event
    <2>1. sequence' = sequence /\ \A v \in Writers : writer'[v] = IF v = w THEN Idle ELSE writer[v]
      BY Zenon, <1>1 DEF Broadcast, Goto, TypeOK
    <2>2. ~ Emits(Idle)
      BY ZenonT(30) DEF Emits, Idle
    <2>3. Emits(writer[w]) /\ \A c \in Clients : Seen(c)' \subseteq Seen(c) \cup {e}
      BY ZenonT(30), <1>1, BroadcastEffect DEF Broadcast, Emits
    <2> HIDE DEF e
    <2>4. e.cursor <= sequence /\ \A v \in Writers : Emits(writer[v]) /\ v # w =>
                                     writer[v].event.cursor # e.cursor
      BY Zenon, <2>3 DEF Flight, e
    <2> QED BY Zenon, <2>1, <2>2, <2>3, <2>4 DEF Flight
  <1>2. CASE \E w \in Writers : Write(w)
    BY Zenon, <1>1, <1>2, WriteEffect, FlightOfWriter
  <1>3. CASE ~ \E w \in Writers : Write(w)
    <2>1. UNCHANGED <<writer, sequence>>
      BY Zenon, <1>3, OtherEffect
    <2>2. \A d \in Clients : Seen(d)' \subseteq Seen(d)
      <3>1. CASE UNCHANGED <<streams, got, since>>
        BY Zenon, <3>1 DEF Seen, Buffered, Open
      <3> QED BY Zenon, <1>3, <3>1, OtherEffect, SendEffect, TurnEffect
    <2> QED BY Zenon, <2>1, <2>2 DEF Flight
  <1> QED BY ZenonT(30), <1>2, <1>3

\* Every step keeps what is streamed stored.
LEMMA RecordedStep ==
  ASSUME TypeOK, Recorded, [Next]_vars
  PROVE  Recorded'
  <1>1. ASSUME NEW w \in Writers, Broadcast(w)
        PROVE  Recorded'
    <2> DEFINE e == writer[w].event
    <2>1. outbox' = outbox /\ \A v \in Writers : writer'[v] = IF v = w THEN Idle ELSE writer[v]
      BY Zenon, <1>1 DEF Broadcast, Goto, TypeOK
    <2>2. Idle.pc # "broadcast"
      BY ZenonT(30) DEF Idle
    <2>3. e \in Range(outbox)
      BY ZenonT(30), <1>1 DEF Broadcast, Recorded
    <2>4. ASSUME NEW c \in Clients
          PROVE  /\ Open(c)' => Range(streams'[c]) \subseteq Range(outbox)
                 /\ Range(got'[c]) \subseteq Range(outbox)
      BY <1>1, <2>3, BroadcastEffect DEF Recorded, StreamedIsStored
    <2>5. StreamedIsStored'
      BY Zenon, <2>1, <2>4 DEF StreamedIsStored
    <2> QED BY Zenon, <2>1, <2>2, <2>5 DEF Recorded
  <1>2. ASSUME NEW w \in Writers, NEW g \in Writer, Calms(w, g) \/ Draws(w, g) \/ Stores(w, g)
        PROVE  Recorded'
    <2>1. \A v \in Writers : writer'[v] = IF v = w THEN g ELSE writer[v]
      BY Zenon, <1>2 DEF Calms, Draws, Stores, TypeOK
    <2>2. UNCHANGED <<streams, got>>
      BY Zenon, <1>2 DEF Calms, Draws, Stores
    <2>3. /\ Range(outbox) \subseteq Range(outbox')
          /\ g.pc = "broadcast" => g.event \in Range(outbox')
      <3>1. CASE Stores(w, g)
        <4>1. g.event \in Event /\ outbox' = Append(outbox, g.event)
          BY Zenon, <3>1, WriterFields DEF Stores, Emits
        <4> QED BY <4>1, AppendRange DEF TypeOK
      <3>2. CASE Calms(w, g) \/ Draws(w, g)
        BY Zenon, <3>2 DEF Calms, Draws, Emits
      <3> QED BY Zenon, <1>2, <3>1, <3>2
    <2> QED BY Zenon, <2>1, <2>2, <2>3 DEF Recorded, StreamedIsStored, Open
  <1>3. CASE \E w \in Writers : Write(w)
    BY Zenon, <1>1, <1>2, <1>3, WriteEffect
  <1>4. CASE ~ \E w \in Writers : Write(w)
    <2>1. UNCHANGED <<writer, outbox>>
      BY Zenon, <1>4, OtherEffect
    <2>2. CASE UNCHANGED <<streams, got, since>>
      BY Zenon, <2>1, <2>2 DEF Recorded, StreamedIsStored, Open
    <2>3. ASSUME NEW c \in Clients, Send(c)
          PROVE  Recorded'
      <3>1. ASSUME NEW d \in Clients
            PROVE  /\ Open(d)' => Range(streams'[d]) \subseteq Range(outbox)
                   /\ Range(got'[d]) \subseteq Range(outbox)
        <4>1. CASE d = c
          <5> DEFINE e == Head(streams[c])
          <5>1. Open(c) /\ Range(streams[c]) = Range(streams'[c]) \cup {e}
            BY ZenonT(30), <2>3, SendEffect
          <5>2. Range(got'[c]) \subseteq Range(got[c]) \cup {e}
            BY ZenonT(30), <2>3, SendEffect
          <5> HIDE DEF e
          <5> QED BY ZenonT(30), <4>1, <5>1, <5>2 DEF Recorded, StreamedIsStored
        <4>2. CASE d # c
          <5>1. streams'[d] = streams[d] /\ got'[d] = got[d]
            BY Zenon, <2>3, <4>2, SendEffect
          <5> QED BY Zenon, <5>1 DEF Recorded, StreamedIsStored, Open
        <4> QED BY Zenon, <4>1, <4>2
      <3>2. StreamedIsStored'
        BY Zenon, <2>1, <3>1 DEF StreamedIsStored
      <3> QED BY Zenon, <2>1, <3>2 DEF Recorded
    <2>4. ASSUME NEW c \in Clients, Subscribe(c) \/ Cancel(c)
          PROVE  Recorded'
      <3>1. /\ got' = got /\ \A d \in Clients : d # c => streams'[d] = streams[d]
            /\ streams'[c] = <<>> \/ ~ Open(c)'
        BY Zenon, <2>4, TurnEffect
      <3>2. Range(<<>>) = {}
        BY DEF Range
      <3>3. StreamedIsStored'
        BY Zenon, <2>1, <3>1, <3>2 DEF Recorded, StreamedIsStored, Open
      <3> QED BY Zenon, <2>1, <3>3 DEF Recorded
    <2> QED BY Zenon, <1>4, <2>2, <2>3, <2>4, OtherEffect
  <1> QED BY Zenon, <1>3, <1>4

\* Service.emit stores before it broadcasts: what a client has received or has
\* buffered is in the outbox.
THEOREM StreamsAreStored == Spec => []StreamedIsStored
  <1>1. Init => Recorded
    <2>1. Range(<<>>) = {}
      BY DEF Range
    <2> QED BY <2>1 DEF Init, Recorded, StreamedIsStored, Open, Idle
  <1>2. TypeOK /\ Recorded /\ [Next]_vars => Recorded'
    BY Zenon, RecordedStep
  <1>3. Recorded => StreamedIsStored
    BY Zenon DEF Recorded
  <1> QED BY <1>1, <1>2, <1>3, TypeInv, PTL DEF Spec
-----------------------------------------------------------------------------
\* Cursors in flight are always apart.
LEMMA FlightInv == Spec => []Flight
  <1>1. Init => Flight
    <2>1. Range(<<>>) = {}
      BY DEF Range
    <2> QED BY <2>1 DEF Init, Flight, Seen, Buffered, Open, Emits, Idle
  <1> QED BY <1>1, FlightStep, TypeInv, PTL DEF Spec

\* Every step keeps a client's events apart.
LEMMA ApartStep ==
  ASSUME TypeOK, Flight, Apart, [Next]_vars
  PROVE  Apart'
  <1>1. ASSUME NEW w \in Writers, Broadcast(w), NEW c \in Clients
        PROVE  /\ Distinct(got'[c])
               /\ Open(c)' => /\ Distinct(streams'[c])
                              /\ Cursors(streams'[c]) \cap Cursors(got'[c]) = {}
    <2> DEFINE e == writer[w].event
    <2>1. /\ e \in Event /\ Emits(writer[w]) /\ got'[c] = got[c] /\ (Open(c)' <=> Open(c))
          /\ Open(c) /\ HasRoom(streams[c]) =>
               /\ streams'[c] = Append(streams[c], e)
               /\ Range(streams'[c]) = Range(streams[c]) \cup {e}
          /\ ~ (Open(c) /\ HasRoom(streams[c])) => streams'[c] = streams[c]
      BY Zenon, <1>1, BroadcastEffect
    <2>2. \A d \in Seen(c) : d.cursor # e.cursor
      BY Zenon, <2>1 DEF Flight
    <2> HIDE DEF e
    <2>3. e.cursor \notin Cursors(got[c]) /\ (Open(c) => e.cursor \notin Cursors(streams[c]))
      BY ZenonT(30), <2>2, SeenEvents
    <2>4. CASE Open(c) /\ HasRoom(streams[c])
      <3>1. Distinct(streams'[c])
        BY ZenonT(30), <2>1, <2>3, <2>4, OpenIsBuffer, AppendKeepsDistinct DEF Apart
      <3>2. Cursors(streams'[c]) = Cursors(streams[c]) \cup {e.cursor}
        BY Zenon, <2>1, <2>4 DEF Cursors
      <3> QED BY ZenonT(30), <2>1, <2>3, <2>4, <3>1, <3>2 DEF Apart
    <2>5. CASE ~ (Open(c) /\ HasRoom(streams[c]))
      BY ZenonT(30), <2>1, <2>5 DEF Apart
    <2> QED BY ZenonT(30), <2>4, <2>5
  <1>2. ASSUME NEW c \in Clients, Send(c)
        PROVE  /\ Distinct(got'[c])
               /\ Open(c)' => /\ Distinct(streams'[c])
                              /\ Cursors(streams'[c]) \cap Cursors(got'[c]) = {}
    <2> DEFINE e == Head(streams[c])
    <2>1. /\ Open(c) /\ streams[c] \in Seq(Event) /\ streams[c] # <<>> /\ e \in Event
          /\ streams'[c] = Tail(streams[c])
          /\ Range(streams[c]) = Range(streams'[c]) \cup {e}
          /\ \/ got'[c] = Append(got[c], e) /\ Range(got'[c]) = Range(got[c]) \cup {e}
             \/ got'[c] = got[c]
      BY ZenonT(30), <1>2, SendEffect
    <2>2. Distinct(streams'[c]) /\ e.cursor \notin Cursors(streams'[c])
      BY Zenon, <2>1, TailKeepsDistinct DEF Apart
    <2> HIDE DEF e
    <2>3. Cursors(streams[c]) = Cursors(streams'[c]) \cup {e.cursor}
      BY Zenon, <2>1 DEF Cursors
    <2>4. e.cursor \notin Cursors(got[c]) /\ Cursors(streams'[c]) \cap Cursors(got[c]) = {}
      BY ZenonT(30), <2>1, <2>3 DEF Apart
    <2>5. CASE got'[c] = got[c]
      BY Zenon, <2>2, <2>4, <2>5 DEF Apart
    <2>6. CASE got'[c] = Append(got[c], e) /\ Range(got'[c]) = Range(got[c]) \cup {e}
      <3>1. Distinct(got'[c])
        BY <2>1, <2>4, <2>6, AppendKeepsDistinct DEF Apart, TypeOK
      <3>2. Cursors(got'[c]) = Cursors(got[c]) \cup {e.cursor}
        BY Zenon, <2>6 DEF Cursors
      <3> QED BY Zenon, <2>2, <2>4, <3>1, <3>2
    <2> QED BY ZenonT(30), <2>1, <2>5, <2>6
  <1>3. CASE UNCHANGED <<streams, got>>
    BY Zenon, <1>3 DEF Apart, Open
  <1>4. ASSUME NEW c \in Clients, Subscribe(c) \/ Cancel(c)
        PROVE  Apart'
    <2>1. /\ got' = got /\ \A d \in Clients : d # c => streams'[d] = streams[d]
          /\ streams'[c] = <<>> \/ ~ Open(c)'
      BY Zenon, <1>4, TurnEffect
    <2>2. Distinct(<<>>) /\ Cursors(<<>>) = {}
      BY EmptySeq DEF Distinct, Cursors, Range
    <2> QED BY Zenon, <2>1, <2>2 DEF Apart, Open
  <1>5. CASE \E w \in Writers : Write(w)
    <2>1. ASSUME NEW w \in Writers, Broadcast(w)
          PROVE  Apart'
      BY Zenon, <1>1, <2>1 DEF Apart
    <2>2. ASSUME NEW w \in Writers, NEW g \in Writer, Calms(w, g) \/ Draws(w, g) \/ Stores(w, g)
          PROVE  Apart'
      BY Zenon, <1>3, <2>2 DEF Calms, Draws, Stores
    <2> QED BY ZenonT(30), <1>5, <2>1, <2>2, WriteEffect
  <1>6. CASE ~ \E w \in Writers : Write(w)
    <2>1. ASSUME NEW c \in Clients, Send(c)
          PROVE  Apart'
      <3>1. ASSUME NEW d \in Clients, d # c
            PROVE  /\ Distinct(got'[d])
                   /\ Open(d)' => /\ Distinct(streams'[d])
                                  /\ Cursors(streams'[d]) \cap Cursors(got'[d]) = {}
        <4>1. streams'[d] = streams[d] /\ got'[d] = got[d]
          BY Zenon, <2>1, <3>1, SendEffect
        <4> QED BY ZenonT(30), <4>1 DEF Apart, Open
      <3> QED BY ZenonT(30), <1>2, <2>1, <3>1 DEF Apart
    <2> QED BY ZenonT(30), <1>3, <1>4, <1>6, <2>1, OtherEffect
  <1> QED BY ZenonT(30), <1>5, <1>6

\* Service.emit and Server.stream: cursors are drawn once, so no client is
\* sent one twice, over any number of reconnections.
THEOREM CursorsAreDistinct == Spec => []CursorsDistinct
  <1>1. Init => Apart
    <2>1. Distinct(<<>>)
      BY EmptySeq DEF Distinct
    <2> QED BY Zenon, <2>1 DEF Init, Apart, Open
  <1>2. TypeOK /\ Flight /\ Apart /\ [Next]_vars => Apart'
    BY ZenonT(30), ApartStep
  <1>3. TypeOK /\ Apart => CursorsDistinct
    <2> SUFFICES ASSUME TypeOK, Apart, NEW c \in Clients
                 PROVE  \A i, j \in DOMAIN got[c] : got[c][i].cursor = got[c][j].cursor => i = j
      BY Zenon DEF CursorsDistinct
    <2>1. got[c] \in Seq(Event) /\ DOMAIN got[c] = 1 .. Len(got[c])
      BY DEF TypeOK
    <2> QED BY Zenon, <2>1 DEF Apart, Distinct
  <1> QED BY <1>1, <1>2, <1>3, TypeInv, FlightInv, PTL DEF Spec
-----------------------------------------------------------------------------
\* Every step keeps the buffers counted, and absorbing.
LEMMA AbsorbStep ==
  ASSUME TypeOK, Flight, Counted, BufferAbsorbs, [Next]_vars
  PROVE  Counted' /\ BufferAbsorbs'
  <1> DEFINE Fine(c) == /\ IsFiniteSet(since[c])
                        /\ Open(c) => Len(streams[c]) <= Cardinality(since[c])
                        /\ Open(c) /\ Cardinality(since[c]) <= Capacity =>
                             \A e \in since[c] : e.scope \in Wanted[c] =>
                               e \in Range(streams[c]) \cup Range(got[c])
  <1>1. \A c \in Clients : Fine(c)
    BY ZenonT(30) DEF Counted, BufferAbsorbs
  <1>2. (\A c \in Clients : Fine(c)') => Counted' /\ BufferAbsorbs'
    BY Zenon DEF Counted, BufferAbsorbs
  <1>3. ASSUME NEW c \in Clients, streams'[c] = streams[c], got'[c] = got[c], since'[c] = since[c]
        PROVE  Fine(c)'
    BY Zenon, <1>1, <1>3 DEF Open
  <1> HIDE DEF Fine
  <1>4. ASSUME NEW w \in Writers, Broadcast(w), NEW c \in Clients
        PROVE  Fine(c)'
    <2> DEFINE e == writer[w].event
    <2>1. /\ e \in Event /\ Emits(writer[w]) /\ got'[c] = got[c] /\ (Open(c)' <=> Open(c))
          /\ Open(c) => since'[c] = since[c] \cup {e}
          /\ ~ Open(c) => since'[c] = since[c]
          /\ Open(c) /\ HasRoom(streams[c]) =>
               /\ Range(streams'[c]) = Range(streams[c]) \cup {e}
               /\ Len(streams'[c]) = Len(streams[c]) + 1
          /\ ~ (Open(c) /\ HasRoom(streams[c])) => streams'[c] = streams[c]
      BY ZenonT(30), <1>4, BroadcastEffect
    <2>2. e \notin since[c]
      BY ZenonT(30), <2>1 DEF Flight, Seen
    <2> HIDE DEF e
    <2>3. CASE ~ Open(c)
      BY ZenonT(30), <1>3, <2>1, <2>3
    <2>4. CASE Open(c)
      <3>1. IsFiniteSet(since[c]) /\ Len(streams[c]) <= Cardinality(since[c])
        BY Zenon, <1>1, <2>4 DEF Fine
      <3>2. /\ Cardinality(since[c]) \in Nat /\ Len(streams[c]) \in Nat
            /\ Capacity \in Nat
        BY ZenonT(30), <2>4, <3>1, FS_CardinalityType, OpenIsBuffer, LenProperties, FeedAssumption
      <3>3. IsFiniteSet(since'[c]) /\ Cardinality(since'[c]) = Cardinality(since[c]) + 1
        BY SMTT(30), <2>1, <2>2, <2>4, <3>1, FS_AddElement
      <3>4. Len(streams'[c]) <= Cardinality(since'[c])
        BY SMTT(30), <2>1, <2>4, <3>1, <3>2, <3>3
      <3>5. ASSUME Cardinality(since'[c]) <= Capacity, NEW d \in since'[c], d.scope \in Wanted[c]
            PROVE  d \in Range(streams'[c]) \cup Range(got'[c])
        <4>1. HasRoom(streams[c]) /\ Cardinality(since[c]) <= Capacity
          BY SMTT(30), <3>1, <3>2, <3>3, <3>5 DEF HasRoom
        <4>2. CASE d = e
          BY Zenon, <2>1, <2>4, <4>1, <4>2
        <4>3. CASE d \in since[c]
          <5>1. d \in Range(streams[c]) \cup Range(got[c])
            BY ZenonT(30), <1>1, <2>4, <3>5, <4>1, <4>3 DEF Fine
          <5> QED BY ZenonT(30), <2>1, <2>4, <4>1, <5>1
        <4> QED BY Zenon, <2>1, <2>4, <3>5, <4>2, <4>3
      <3> QED BY Zenon, <3>3, <3>4, <3>5 DEF Fine
    <2> QED BY ZenonT(30), <2>3, <2>4
  <1>5. ASSUME NEW c \in Clients, Send(c)
        PROVE  Fine(c)'
    <2> DEFINE e == Head(streams[c])
    <2>1. /\ Open(c) /\ streams[c] \in Seq(Event)
          /\ Range(streams[c]) = Range(streams'[c]) \cup {e}
          /\ Len(streams'[c]) = Len(streams[c]) - 1
          /\ IF e.scope \in Wanted[c] THEN Range(got'[c]) = Range(got[c]) \cup {e}
                                      ELSE got'[c] = got[c]
          /\ since' = since
      BY ZenonT(30), <1>5, SendEffect
    <2> HIDE DEF e
    <2>2. IsFiniteSet(since[c]) /\ Len(streams[c]) <= Cardinality(since[c])
      BY ZenonT(30), <1>1, <2>1 DEF Fine
    <2>3. Cardinality(since[c]) \in Nat /\ Len(streams[c]) \in Nat
      BY Zenon, <2>1, <2>2, FS_CardinalityType, LenProperties
    <2>4. Len(streams'[c]) <= Cardinality(since[c])
      BY <2>1, <2>2, <2>3
    <2>5. ASSUME Cardinality(since[c]) <= Capacity, NEW d \in since[c], d.scope \in Wanted[c]
          PROVE  d \in Range(streams'[c]) \cup Range(got'[c])
      <3>1. d \in Range(streams[c]) \cup Range(got[c])
        BY Zenon, <1>1, <2>1, <2>5 DEF Fine
      <3> QED BY ZenonT(30), <2>1, <2>5, <3>1
    <2> QED BY ZenonT(30), <2>1, <2>2, <2>4, <2>5 DEF Fine
  <1>6. ASSUME NEW c \in Clients, Subscribe(c) \/ Cancel(c)
        PROVE  Fine(c)'
    <2>1. CASE Subscribe(c)
      <3>1. streams'[c] = <<>> /\ since'[c] = {}
        BY Zenon, <1>6, <2>1, TurnEffect
      <3>2. Len(<<>>) = 0 /\ Cardinality({}) = 0 /\ IsFiniteSet({})
        BY ZenonT(30), FS_EmptySet, EmptySeq
      <3> QED BY <3>1, <3>2 DEF Fine
    <2>2. CASE ~ Subscribe(c)
      <3>1. ~ Open(c)' /\ since'[c] = since[c] /\ IsFiniteSet(since[c])
        BY Zenon, <1>1, <1>6, <2>2, TurnEffect DEF Fine
      <3> QED BY ZenonT(30), <3>1 DEF Fine
    <2> QED BY Zenon, <2>1, <2>2
  <1>7. CASE \E w \in Writers : Write(w)
    <2>1. ASSUME NEW w \in Writers, NEW g \in Writer, Calms(w, g) \/ Draws(w, g) \/ Stores(w, g)
          PROVE  \A c \in Clients : Fine(c)'
      BY Zenon, <1>3, <2>1 DEF Calms, Draws, Stores
    <2> QED BY Zenon, <1>2, <1>4, <1>7, <2>1, WriteEffect
  <1>8. CASE ~ \E w \in Writers : Write(w)
    <2>1. CASE UNCHANGED <<streams, got, since>>
      BY Zenon, <1>2, <1>3, <2>1
    <2>2. ASSUME NEW c \in Clients, Send(c)
          PROVE  \A d \in Clients : Fine(d)'
      <3>1. \A d \in Clients : d # c => /\ streams'[d] = streams[d] /\ got'[d] = got[d]
                                        /\ since'[d] = since[d]
        BY ZenonT(30), <2>2, SendEffect
      <3> QED BY ZenonT(30), <1>3, <1>5, <2>2, <3>1
    <2>3. ASSUME NEW c \in Clients, Subscribe(c) \/ Cancel(c)
          PROVE  \A d \in Clients : Fine(d)'
      <3>1. \A d \in Clients : d # c => /\ streams'[d] = streams[d] /\ got'[d] = got[d]
                                        /\ since'[d] = since[d]
        BY Zenon, <2>3, TurnEffect
      <3> QED BY Zenon, <1>3, <1>6, <2>3, <3>1
    <2> QED BY Zenon, <1>2, <1>8, <2>1, <2>2, <2>3, OtherEffect
  <1> QED BY Zenon, <1>7, <1>8

\* Service.broadcast drops an event only when the buffer is full: a stream
\* that was sent no more events than its buffer holds has missed none.
THEOREM BuffersAbsorb == Spec => []BufferAbsorbs
  <1>1. Init => Counted /\ BufferAbsorbs
    BY Zenon, FS_EmptySet DEF Init, Counted, BufferAbsorbs, Open
  <1>2. TypeOK /\ Flight /\ Counted /\ BufferAbsorbs /\ [Next]_vars => Counted' /\ BufferAbsorbs'
    BY Zenon, AbsorbStep
  <1> QED BY <1>1, <1>2, TypeInv, FlightInv, PTL DEF Spec
=============================================================================
