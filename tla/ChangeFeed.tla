----------------------------- MODULE ChangeFeed -----------------------------
(***************************************************************************)
(* What follows every successful write: Service.audit appends a record to  *)
(* the hash-chained log, Service.emit stores an event in the outbox and    *)
(* broadcasts it to the SSE streams, and RunWorkers marks stored events    *)
(* delivered.                                                              *)
(*                                                                         *)
(* The log, the outbox and the set of streams have a lock each, taken once *)
(* per step.  The time and the cursor are drawn before the locks, so two   *)
(* writers may append, store and broadcast in another order than they drew.*)
(* A hash is the tuple of what it is computed from: SHA-256 is taken to be *)
(* injective.  Left out: actors, actions, payloads, heartbeats.            *)
(***************************************************************************)
EXTENDS Integers, Sequences, FiniteSets, Functions

CONSTANTS
  Writers,      \* goroutines that have just written
  Clients,      \* SSE clients
  Scope,        \* scope keys of the written resources
  NoStream,     \* the absence of a stream in Service.streams
  Wanted,       \* the scopes each client's namespace filter lets through
  Capacity,     \* buffer of a stream, 64 in the code
  Limit,        \* events RunWorkers lists at a time, 100 in the code
  MaxSequence,  \* bound on Service.sequence
  MaxTime       \* bound on the clock

ASSUME FeedAssumption == /\ Capacity \in Nat \ {0}
                         /\ Limit \in Nat \ {0}
                         /\ MaxSequence \in Nat
                         /\ MaxTime \in Nat
                         /\ Wanted \in [Clients -> SUBSET Scope]

VARIABLES
  now,        \* Service.clock
  sequence,   \* Service.sequence: identifiers and cursors
  writer,     \* what each writer is about to do
  audits,     \* Memory.audits
  outbox,     \* Memory.outbox, in the order of insertion
  attempts,   \* OutboxEvent.Attempts by cursor; delivered when positive
  todo,       \* the events RunWorkers has listed and not yet marked
  streams,    \* Service.streams: the buffer of each open stream
  got,        \* what each client has been sent, over all its connections
  since       \* what was broadcast since the client's last Subscribe

vars == <<now, sequence, writer, audits, outbox, attempts, todo, streams, got,
          since>>
-----------------------------------------------------------------------------
Event == [cursor: 1 .. MaxSequence, scope: Scope, at: 0 .. MaxTime]

ASSUME NoStreamAssumption == NoStream \notin Seq(Event)

Cursors(s) == {e.cursor : e \in Range(s)}

Open(c) == streams[c] # NoStream

Idle == [pc |-> "idle"]

Init == /\ now = 0
        /\ sequence = 0
        /\ writer = [w \in Writers |-> Idle]
        /\ audits = <<>>
        /\ outbox = <<>>
        /\ attempts = [n \in 1 .. MaxSequence |-> 0]
        /\ todo = {}
        /\ streams = [c \in Clients |-> NoStream]
        /\ got = [c \in Clients |-> <<>>]
        /\ since = [c \in Clients |-> {}]

Goto(w, f) == writer' = [writer EXCEPT ![w] = f]
-----------------------------------------------------------------------------
(***************************************************************************)
(* Service.audit and Memory.Append.  emits: a write of a configuration or  *)
(* a version goes on to emit, a write of a release does not.               *)
(***************************************************************************)
StampAudit(w, scope, emits) ==
  /\ writer[w] = Idle
  /\ sequence < MaxSequence
  /\ sequence' = sequence + 1
  /\ Goto(w, [pc |-> "append", scope |-> scope, at |-> now, emits |-> emits])
  /\ UNCHANGED <<now, audits, outbox, attempts, todo, streams, got, since>>

NoHash == <<>>

\* Record.Seal
Seal(scope, at, previous) ==
  [scope |-> scope, at |-> at, previous |-> previous,
   hash |-> <<scope, at, previous>>]

LastHashStale(log) == IF Len(log) < 2 THEN NoHash ELSE log[Len(log) - 1].hash

LastHash(log) == IF log = <<>> THEN NoHash ELSE log[Len(log)].hash

AppendAudit(w) ==
  LET f == writer[w]
  IN  /\ f.pc = "append"
      /\ audits' = Append(audits, Seal(f.scope, f.at, LastHash(audits)))
      /\ Goto(w, IF f.emits THEN [pc |-> "draw", scope |-> f.scope] ELSE Idle)
      /\ UNCHANGED <<now, sequence, outbox, attempts, todo, streams, got, since>>

\* audit.Verify
Verify(log) ==
  \A i \in 1 .. Len(log) :
    LET previous == IF i = 1 THEN NoHash ELSE log[i - 1].hash
    IN  log[i].hash = Seal(log[i].scope, log[i].at, previous).hash

\* The loop of QueryAudit that keeps a scope's records, after n records.
Kept(log, scope) ==
  LET K[n \in 0 .. Len(log)] ==
        IF n = 0 THEN <<>>
        ELSE IF log[n].scope = scope THEN Append(K[n - 1], log[n]) ELSE K[n - 1]
  IN  K

\* The chain QueryAudit verifies for a scope.
ScopedChain(scope) == Kept(audits, scope)[Len(audits)]

ChainValid(scope) == Verify(ScopedChain(scope))
-----------------------------------------------------------------------------
(***************************************************************************)
(* Service.emit: draw the cursor and the time, Memory.Add, broadcast.      *)
(***************************************************************************)
DrawCursorTwice(w) ==
  /\ writer[w].pc = "draw"
  /\ Goto(w, [pc |-> "add", event |-> [cursor |-> sequence, scope |-> writer[w].scope,
                                       at |-> now]])
  /\ UNCHANGED <<now, sequence, audits, outbox, attempts, todo, streams, got, since>>

DrawCursor(w) ==
  /\ writer[w].pc = "draw"
  /\ sequence < MaxSequence
  /\ sequence' = sequence + 1
  /\ Goto(w, [pc |-> "add", event |-> [cursor |-> sequence',
                                       scope |-> writer[w].scope, at |-> now]])
  /\ UNCHANGED <<now, audits, outbox, attempts, todo, streams, got, since>>

AddLost(w) ==
  /\ writer[w].pc = "add"
  /\ Goto(w, [writer[w] EXCEPT !.pc = "broadcast"])
  /\ UNCHANGED <<now, sequence, audits, outbox, attempts, todo, streams, got, since>>

Add(w) ==
  /\ writer[w].pc = "add"
  /\ outbox' = Append(outbox, writer[w].event)
  /\ Goto(w, [writer[w] EXCEPT !.pc = "broadcast"])
  /\ UNCHANGED <<now, sequence, audits, attempts, todo, streams, got, since>>

HasRoomOffByOne(buffer) == Len(buffer) + 1 < Capacity

HasRoom(buffer) == Len(buffer) < Capacity

\* A stream whose buffer is full misses the event.
Broadcast(w) ==
  LET e == writer[w].event
  IN  /\ writer[w].pc = "broadcast"
      /\ streams' = [c \in Clients |->
                       IF Open(c) /\ HasRoom(streams[c])
                       THEN Append(streams[c], e) ELSE streams[c]]
      /\ since' = [c \in Clients |-> IF Open(c) THEN since[c] \cup {e} ELSE since[c]]
      /\ Goto(w, Idle)
      /\ UNCHANGED <<now, sequence, audits, outbox, attempts, todo, got>>
-----------------------------------------------------------------------------
(***************************************************************************)
(* Server.stream: subscribe, pass on what the filter wants, and cancel     *)
(* when the client goes away, which drops what is buffered.  A client that *)
(* connects again starts with an empty buffer.                             *)
(***************************************************************************)
Subscribe(c) ==
  /\ ~ Open(c)
  /\ streams' = [streams EXCEPT ![c] = <<>>]
  /\ since' = [since EXCEPT ![c] = {}]
  /\ UNCHANGED <<now, sequence, writer, audits, outbox, attempts, todo, got>>

Send(c) ==
  /\ Open(c)
  /\ streams[c] # <<>>
  /\ streams' = [streams EXCEPT ![c] = Tail(@)]
  /\ got' = IF Head(streams[c]).scope \in Wanted[c]
            THEN [got EXCEPT ![c] = Append(@, Head(streams[c]))] ELSE got
  /\ UNCHANGED <<now, sequence, writer, audits, outbox, attempts, todo, since>>

Cancel(c) ==
  /\ Open(c)
  /\ streams' = [streams EXCEPT ![c] = NoStream]
  /\ UNCHANGED <<now, sequence, writer, audits, outbox, attempts, todo, got, since>>
-----------------------------------------------------------------------------
(***************************************************************************)
(* RunWorkers: list the oldest pending events, then mark one after the     *)
(* other.  Events of the same time come in any order.                      *)
(***************************************************************************)
Undelivered(e) == attempts[e.cursor] = 0

PendingEvents == {e \in Range(outbox) : Undelivered(e)}

\* The lists Memory.Pending may return.
Oldest(S) == /\ S \subseteq PendingEvents
             /\ \/ Cardinality(S) = Limit
                \/ Cardinality(S) < Limit /\ S = PendingEvents
             /\ \A e \in S, d \in PendingEvents \ S : e.at <= d.at

Pending ==
  /\ todo = {}
  /\ PendingEvents # {}
  /\ \E S \in SUBSET PendingEvents : Oldest(S) /\ todo' = S
  /\ UNCHANGED <<now, sequence, writer, audits, outbox, attempts, streams, got, since>>

MarkDeliveredCopy(e) ==
  /\ e \in todo
  /\ todo' = todo \ {e}
  /\ UNCHANGED <<now, sequence, writer, audits, outbox, attempts, streams, got, since>>

MarkDelivered(e) ==
  /\ e \in todo
  /\ \A d \in todo : e.at <= d.at
  /\ attempts' = [attempts EXCEPT ![e.cursor] = @ + 1]
  /\ todo' = todo \ {e}
  /\ UNCHANGED <<now, sequence, writer, audits, outbox, streams, got, since>>

Tick == /\ now < MaxTime
        /\ now' = now + 1
        /\ UNCHANGED <<sequence, writer, audits, outbox, attempts, todo, streams,
                       got, since>>
-----------------------------------------------------------------------------
Write(w) == \/ \E scope \in Scope, emits \in BOOLEAN : StampAudit(w, scope, emits)
            \/ AppendAudit(w)
            \/ DrawCursor(w)
            \/ Add(w)
            \/ Broadcast(w)

Listen(c) == Subscribe(c) \/ Send(c) \/ Cancel(c)

Deliver == Pending \/ \E e \in todo : MarkDelivered(e)

Next == \/ \E w \in Writers : Write(w)
        \/ \E c \in Clients : Listen(c)
        \/ Deliver
        \/ Tick

\* RunWorkers runs a pass every second and nothing in it blocks; writers and
\* clients may stop anywhere.
Spec == /\ Init
        /\ [][Next]_vars
        /\ WF_vars(Deliver)
-----------------------------------------------------------------------------
(***************************************************************************)
(* Properties.                                                             *)
(***************************************************************************)

\* The whole log verifies whatever writers append at once: the hash of the
\* last record is read under the lock under which the next one is appended,
\* although their times were read before it.
AuditChain == Verify(audits)

\* "QueryAudit provides a paginated, filterable view while checking the
\* complete chain for the selected scope" (operations.go:46): nobody tampers
\* with the log here, so chain_valid should be true for every scope.  It is
\* not once the records of two scopes alternate.
ScopeChainsVerify == \A scope \in Scope : ChainValid(scope)

\* Whatever a client has received or is about to receive is in the outbox:
\* emit stores an event before it broadcasts it.
StreamedIsStored ==
  \A c \in Clients : /\ Open(c) => Range(streams[c]) \subseteq Range(outbox)
                     /\ Range(got[c]) \subseteq Range(outbox)

\* No client is sent a cursor twice, over any number of reconnections and
\* although cursors are drawn, stored and broadcast by racing writers.
CursorsDistinct ==
  \A c \in Clients : \A i, j \in DOMAIN got[c] :
    got[c][i].cursor = got[c][j].cursor => i = j

\* An open stream misses an event only if more events than its buffer holds
\* were broadcast since it subscribed.
BufferAbsorbs ==
  \A c \in Clients : Open(c) /\ Cardinality(since[c]) <= Capacity =>
    \A e \in since[c] : e.scope \in Wanted[c] =>
      e \in Range(streams[c]) \cup Range(got[c])

\* Every stored event is eventually marked delivered: taking the oldest
\* events first, a bounded list starves none.
StoredIsDelivered ==
  \A n \in 1 .. MaxSequence : (n \in Cursors(outbox)) ~> (attempts[n] > 0)
=============================================================================
