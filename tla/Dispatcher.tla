----------------------------- MODULE Dispatcher -----------------------------
(***************************************************************************)
(* The webhook dispatcher of internal/notify: producers enqueue events     *)
(* into a bounded channel, a fixed pool of workers delivers them under     *)
(* RetryPolicy.Do and reports the outcomes on a second bounded channel.    *)
(*                                                                         *)
(* Enqueue holds the mutex while it waits for room in the queue.  Nobody   *)
(* has to read the results.  One HTTP delivery is a step with an arbitrary *)
(* outcome; the length of a backoff is left out.                           *)
(***************************************************************************)
EXTENDS Integers, Sequences, FiniteSets, Functions

CONSTANTS
  Producers, Workers,  \* goroutines
  Event,               \* delivery events, each enqueued at most once
  NoEvent, NoOne,      \* no event in hand; the mutex is free
  QueueSize,           \* capacity of Dispatcher.queue, 64 in the code
  ResultSize,          \* capacity of Dispatcher.results, 64 in the code
  MaxAttempts          \* RetryPolicy.MaxAttempts after normalized

ASSUME DispatcherAssumption == /\ QueueSize \in Nat \ {0}
                               /\ ResultSize \in Nat \ {0}
                               /\ MaxAttempts \in Nat \ {0}
                               /\ NoEvent \notin Event
                               /\ NoOne \notin Producers

VARIABLES
  mutex,      \* the producer that holds Dispatcher.mu, or NoOne
  sending,    \* the event each producer is sending
  closing,    \* Close has been called
  done,       \* Dispatcher.done
  queue,      \* Dispatcher.queue
  closed,     \* the queue is closed
  cancelled,  \* the context given to Start is cancelled
  worker,     \* state of each worker
  results,    \* Dispatcher.results
  accepted,   \* events Enqueue took
  collected,  \* results a caller has read
  tries       \* delivery attempts made for each event

vars == <<mutex, sending, closing, done, queue, closed, cancelled, worker, results,
          accepted, collected, tries>>
-----------------------------------------------------------------------------
\* The error of a DeliveryResult: nil, the last delivery's, the context's.
Outcome == {"ok", "failed", "cancelled"}

Result == [event: Event, err: Outcome]

\* pc: at the select, before an attempt, in Deliver, in the backoff, at the
\* send to results, gone.
Worker == [pc: {"select", "check", "deliver", "backoff", "report", "exit"},
           event: Event \cup {NoEvent},
           attempt: 0 .. MaxAttempts,
           err: Outcome]

Selecting == [pc |-> "select", event |-> NoEvent, attempt |-> 0, err |-> "ok"]

Init == /\ mutex = NoOne
        /\ sending = [p \in Producers |-> NoEvent]
        /\ closing = FALSE
        /\ done = FALSE
        /\ queue = <<>>
        /\ closed = FALSE
        /\ cancelled = FALSE
        /\ worker = [w \in Workers |-> Selecting]
        /\ results = <<>>
        /\ accepted = {}
        /\ collected = {}
        /\ tries = [e \in Event |-> 0]
-----------------------------------------------------------------------------
LockFreeAlways == TRUE

LockFree == mutex = NoOne

(***************************************************************************)
(* Enqueue: lock, refuse when done, send (waiting for room), unlock.  A    *)
(* refused call changes nothing.                                           *)
(***************************************************************************)
AcceptingUntilClosed == ~ closed

Accepting == ~ done

Enqueue(p, e) ==
  /\ sending[p] = NoEvent
  /\ e \notin accepted
  /\ LockFree
  /\ Accepting
  /\ mutex' = p
  /\ sending' = [sending EXCEPT ![p] = e]
  /\ accepted' = accepted \cup {e}
  /\ UNCHANGED <<closing, done, queue, closed, cancelled, worker, results, collected, tries>>

Send(p) ==
  /\ sending[p] # NoEvent
  /\ Len(queue) < QueueSize
  /\ queue' = Append(queue, sending[p])
  /\ sending' = [sending EXCEPT ![p] = NoEvent]
  /\ mutex' = NoOne
  /\ UNCHANGED <<closing, done, closed, cancelled, worker, results, accepted, collected, tries>>

\* Close: once called, set done under the mutex, then close the queue.
Close ==
  /\ ~ closing
  /\ closing' = TRUE
  /\ UNCHANGED <<mutex, sending, done, queue, closed, cancelled, worker, results,
                 accepted, collected, tries>>

CloseMark ==
  /\ closing
  /\ ~ done
  /\ LockFree
  /\ done' = TRUE
  /\ UNCHANGED <<mutex, sending, closing, queue, closed, cancelled, worker, results,
                 accepted, collected, tries>>

CloseQueue ==
  /\ done
  /\ ~ closed
  /\ closed' = TRUE
  /\ UNCHANGED <<mutex, sending, closing, done, queue, cancelled, worker, results,
                 accepted, collected, tries>>
-----------------------------------------------------------------------------
(***************************************************************************)
(* worker: the select picks either case when both are ready.               *)
(***************************************************************************)
Become(w, s) == worker' = [worker EXCEPT ![w] = s]

Take(w) ==
  /\ worker[w].pc = "select"
  /\ queue # <<>>
  /\ queue' = Tail(queue)
  /\ Become(w, [Selecting EXCEPT !.pc = "check", !.event = Head(queue)])
  /\ UNCHANGED <<mutex, sending, closing, done, closed, cancelled, results, accepted,
                 collected, tries>>

DrainedWhenClosed == closed

Drained == closed /\ queue = <<>>

Exit(w) ==
  /\ worker[w].pc = "select"
  /\ cancelled \/ Drained
  /\ Become(w, [Selecting EXCEPT !.pc = "exit"])
  /\ UNCHANGED <<mutex, sending, closing, done, queue, closed, cancelled, results, accepted,
                 collected, tries>>

Reporting(s, err) == [s EXCEPT !.pc = "report", !.err = err]

\* RetryPolicy.Do: the context is looked at before each attempt.
Check(w) ==
  /\ worker[w].pc = "check"
  /\ Become(w, IF cancelled THEN Reporting(worker[w], "cancelled")
                            ELSE [worker[w] EXCEPT !.pc = "deliver"])
  /\ UNCHANGED <<mutex, sending, closing, done, queue, closed, cancelled, results, accepted,
                 collected, tries>>

LastAttemptNext(s) == s.attempt = MaxAttempts

LastAttempt(s) == s.attempt = MaxAttempts - 1

Deliver(w, ok) ==
  LET s == worker[w]
  IN  /\ s.pc = "deliver"
      /\ tries' = [tries EXCEPT ![s.event] = @ + 1]
      /\ Become(w, CASE ok                   -> Reporting(s, "ok")
                     [] ~ ok /\ LastAttempt(s) -> Reporting(s, "failed")
                     [] OTHER                -> [s EXCEPT !.pc = "backoff"])
      /\ UNCHANGED <<mutex, sending, closing, done, queue, closed, cancelled, results,
                     accepted, collected>>

Abandon(s) == [Selecting EXCEPT !.pc = "exit"]

\* Cancellation during a backoff answers with the context's error.
Aborted(s) == Reporting(s, "cancelled")

Backoff(w) ==
  /\ worker[w].pc = "backoff"
  /\ \/ Become(w, [worker[w] EXCEPT !.pc = "check", !.attempt = @ + 1])
     \/ cancelled /\ Become(w, Aborted(worker[w]))
  /\ UNCHANGED <<mutex, sending, closing, done, queue, closed, cancelled, results, accepted,
                 collected, tries>>

\* The worker waits here while the results are full.
Report(w) ==
  /\ worker[w].pc = "report"
  /\ Len(results) < ResultSize
  /\ results' = Append(results, [event |-> worker[w].event, err |-> worker[w].err])
  /\ Become(w, Selecting)
  /\ UNCHANGED <<mutex, sending, closing, done, queue, closed, cancelled, accepted, collected,
                 tries>>
-----------------------------------------------------------------------------
\* The caller: reads results if it likes, and may cancel the context.
Collect ==
  /\ results # <<>>
  /\ results' = Tail(results)
  /\ collected' = collected \cup {Head(results)}
  /\ UNCHANGED <<mutex, sending, closing, done, queue, closed, cancelled, worker, accepted, tries>>

Cancel ==
  /\ ~ cancelled
  /\ cancelled' = TRUE
  /\ UNCHANGED <<mutex, sending, closing, done, queue, closed, worker, results, accepted,
                 collected, tries>>

Work(w) == \/ Take(w) \/ Exit(w) \/ Check(w) \/ Backoff(w) \/ Report(w)
           \/ \E ok \in BOOLEAN : Deliver(w, ok)

Next == \/ \E p \in Producers : Send(p) \/ \E e \in Event : Enqueue(p, e)
        \/ Close \/ CloseMark \/ CloseQueue
        \/ \E w \in Workers : Work(w)
        \/ Collect \/ Cancel

\* A goroutine that can go on does; nobody has to call, collect or cancel.
Spec == /\ Init
        /\ [][Next]_vars
        /\ \A p \in Producers : WF_vars(Send(p))
        /\ \A w \in Workers : WF_vars(Work(w))
        /\ WF_vars(CloseMark \/ CloseQueue)
-----------------------------------------------------------------------------
(***************************************************************************)
(* Properties.                                                             *)
(***************************************************************************)
TypeOK == /\ mutex \in Producers \cup {NoOne}
          /\ sending \in [Producers -> Event \cup {NoEvent}]
          /\ closing \in BOOLEAN
          /\ done \in BOOLEAN
          /\ queue \in Seq(Event)
          /\ closed \in BOOLEAN
          /\ cancelled \in BOOLEAN
          /\ worker \in [Workers -> Worker]
          /\ results \in Seq(Result)
          /\ accepted \subseteq Event
          /\ collected \subseteq Result
          /\ tries \in [Event -> Nat]

\* No producer is in the middle of a send when the queue is closed, which
\* would panic: Enqueue sends under the mutex Close needs to set done.
NoSendOnClosed == closed => \A p \in Producers : sending[p] = NoEvent

Reported == Range(results) \cup collected

\* Where an accepted event can be: with its producer, in the queue, with a
\* worker, or reported.
Places(e) ==
  Cardinality({p \in Producers : sending[p] = e})
    + Cardinality({i \in DOMAIN queue : queue[i] = e})
    + Cardinality({w \in Workers : worker[w].event = e})
    + Cardinality({r \in Reported : r.event = e})

\* No accepted event is lost or duplicated by close, cancellation or retries.
NothingLost == \A e \in Event : Places(e) = IF e \in accepted THEN 1 ELSE 0

\* A result says what happened: "failed" only after MaxAttempts attempts,
\* "cancelled" only after a cancellation, "ok" only after an attempt, and no
\* event is attempted more often than the policy allows.
ResultsTruthful ==
  /\ \A e \in Event : tries[e] <= MaxAttempts
  /\ \A r \in Reported : CASE r.err = "ok"        -> tries[r.event] > 0
                           [] r.err = "failed"    -> tries[r.event] = MaxAttempts
                           [] r.err = "cancelled" -> cancelled

AllExited == \A w \in Workers : worker[w].pc = "exit"

\* All workers are gone and, unless the context was cancelled, the queue is
\* closed and every accepted event has its result.
ShutDown ==
  /\ AllExited
  /\ cancelled \/ (closed /\ accepted = {r.event : r \in Reported})

\* "Workers already draining will finish the buffered events and exit", and
\* "result collection never backpressures the workers while they are still
\* draining" (dispatcher.go:98 and :17): once Close is called, the dispatcher
\* shuts down.  It need not: when nobody reads the results, the workers block
\* on them, an Enqueue blocks on the queue with the mutex, and Close waits for
\* the mutex.
CloseDrains == closing ~> ShutDown

\* What remains of it: a caller that goes on reading the results sees the
\* dispatcher shut down after Close, whoever was blocked when it was called.
DrainsIfRead == WF_vars(Collect) => CloseDrains

D == INSTANCE Delivery
       WITH NoOutcome <- NoEvent,
            open <- ~ done,
            outcome <- [e \in Event |->
                          IF \E r \in Reported : r.event = e
                          THEN (CHOOSE r \in Reported : r.event = e).err
                          ELSE NoEvent]

\* The dispatcher implements Delivery: every event gets at most one outcome,
\* and none is accepted once done is set.
DeliverySpec == D!Spec
=============================================================================
