-------------------------- MODULE DispatcherProofs --------------------------
(***************************************************************************)
(* The safety properties of Dispatcher, and that it implements Delivery,   *)
(* for any numbers of producers, workers, events and attempts and any      *)
(* sizes of the two channels.                                              *)
(***************************************************************************)
EXTENDS Dispatcher, FiniteSetTheorems, SequenceTheorems, TLAPS

\* What Append does to the elements of a sequence.
LEMMA AppendRange ==
  ASSUME NEW S, NEW s \in Seq(S), NEW e \in S
  PROVE  Range(Append(s, e)) = Range(s) \cup {e}
  <1>1. Range(s) = {s[i] : i \in 1 .. Len(s)}
    BY Zenon, RangeEquality
  <1>2. Append(s, e) \in Seq(S) /\ Len(Append(s, e)) = Len(s) + 1
    BY Zenon, AppendProperties
  <1>3. Range(Append(s, e)) = {Append(s, e)[i] : i \in 1 .. Len(s) + 1}
    BY ZenonT(30), <1>2, RangeEquality
  <1>4. /\ \A i \in 1 .. Len(s) : Append(s, e)[i] = s[i]
        /\ Append(s, e)[Len(s) + 1] = e
    BY AppendProperties
  <1>5. Len(s) \in Nat
    BY Zenon, LenProperties
  <1>6. 1 .. Len(s) + 1 = (1 .. Len(s)) \cup {Len(s) + 1}
    BY <1>5
  <1> QED BY Zenon, <1>1, <1>3, <1>4, <1>6

\* What Tail takes away.
LEMMA TailRange ==
  ASSUME NEW S, NEW s \in Seq(S), s # <<>>
  PROVE  Range(s) = Range(Tail(s)) \cup {Head(s)}
  <1>1. Range(s) = {s[i] : i \in 1 .. Len(s)}
    BY Zenon, RangeEquality
  <1>2. /\ Tail(s) \in Seq(S) /\ Len(Tail(s)) = Len(s) - 1
        /\ \A i \in 1 .. Len(Tail(s)) : Tail(s)[i] = s[i + 1]
    BY Zenon, HeadTailProperties
  <1>3. Range(Tail(s)) = {Tail(s)[i] : i \in 1 .. Len(Tail(s))}
    BY ZenonT(30), <1>2, RangeEquality
  <1>4. Len(s) \in Nat \ {0} /\ Head(s) = s[1]
    BY EmptySeq
  <1>5. \A i \in 1 .. Len(s) : i = 1 \/ i - 1 \in 1 .. Len(Tail(s))
    BY <1>2, <1>4
  <1>6. \A i \in 1 .. Len(Tail(s)) : i + 1 \in 1 .. Len(s)
    BY <1>2, <1>4
  <1>7. ASSUME NEW x \in Range(s)
        PROVE  x \in Range(Tail(s)) \cup {Head(s)}
    <2>1. PICK i \in 1 .. Len(s) : x = s[i]
      BY Zenon, <1>1
    <2>2. CASE i = 1
      BY Zenon, <2>1, <2>2, <1>4
    <2>3. CASE i - 1 \in 1 .. Len(Tail(s))
      <3>1. Tail(s)[i - 1] = s[(i - 1) + 1] /\ (i - 1) + 1 = i
        BY <1>2, <2>3
      <3> QED BY ZenonT(30), <2>1, <2>3, <3>1, <1>3
    <2> QED BY Zenon, <2>2, <2>3, <1>5
  <1>8. ASSUME NEW x \in Range(Tail(s))
        PROVE  x \in Range(s)
    <2>1. PICK i \in 1 .. Len(Tail(s)) : x = Tail(s)[i]
      BY Zenon, <1>3
    <2> QED BY Zenon, <2>1, <1>1, <1>2, <1>6
  <1>9. Head(s) \in Range(s)
    BY <1>1, <1>4
  <1> QED BY Zenon, <1>7, <1>8, <1>9
-----------------------------------------------------------------------------
\* A worker has an event in hand from Take to Report, and an attempt left
\* until it reports.
Sound(s) == /\ s.event = NoEvent <=> s.pc \in {"select", "exit"}
            /\ s.pc \in {"check", "deliver"} => s.attempt < MaxAttempts
            /\ s.pc = "backoff" => s.attempt + 1 < MaxAttempts

Hands == \A w \in Workers : Sound(worker[w])

\* The worker states the actions assign.
LEMMA WorkerFields ==
  /\ Selecting \in Worker
  /\ [Selecting EXCEPT !.pc = "exit"] \in Worker
  /\ \A e \in Event : LET t == [Selecting EXCEPT !.pc = "check", !.event = e]
                     IN  t \in Worker /\ t.pc = "check" /\ t.event = e /\ t.attempt = 0
  /\ \A s \in Worker, pc \in {"deliver", "backoff"} :
       LET t == [s EXCEPT !.pc = pc]
       IN  t \in Worker /\ t.pc = pc /\ t.event = s.event /\ t.attempt = s.attempt
  /\ \A s \in Worker : s.attempt + 1 <= MaxAttempts =>
       LET t == [s EXCEPT !.pc = "check", !.attempt = @ + 1]
       IN  t \in Worker /\ t.pc = "check" /\ t.event = s.event /\ t.attempt = s.attempt + 1
  /\ \A s \in Worker, err \in Outcome :
       LET t == Reporting(s, err)
       IN  t \in Worker /\ t.pc = "report" /\ t.event = s.event /\ t.err = err
  <1>1. 0 \in 0 .. MaxAttempts /\ "ok" \in Outcome
    BY DispatcherAssumption DEF Outcome
  <1>2. Selecting \in Worker
    BY Zenon, <1>1 DEF Selecting, Worker
  <1>3. [Selecting EXCEPT !.pc = "exit"] \in Worker
    BY Zenon, <1>2 DEF Worker
  <1>4. \A e \in Event : LET t == [Selecting EXCEPT !.pc = "check", !.event = e]
                       IN  t \in Worker /\ t.pc = "check" /\ t.event = e /\ t.attempt = 0
    BY ZenonT(30), <1>2 DEF Worker, Selecting
  <1>5. \A s \in Worker, pc \in {"deliver", "backoff"} :
          LET t == [s EXCEPT !.pc = pc]
          IN  t \in Worker /\ t.pc = pc /\ t.event = s.event /\ t.attempt = s.attempt
    BY Zenon DEF Worker
  <1>6. \A s \in Worker : s.attempt + 1 <= MaxAttempts =>
          LET t == [s EXCEPT !.pc = "check", !.attempt = @ + 1]
          IN  t \in Worker /\ t.pc = "check" /\ t.event = s.event /\ t.attempt = s.attempt + 1
    <2> SUFFICES ASSUME NEW s \in Worker, s.attempt + 1 <= MaxAttempts
                 PROVE  LET t == [s EXCEPT !.pc = "check", !.attempt = @ + 1]
                        IN  t \in Worker /\ t.pc = "check" /\ t.event = s.event
                              /\ t.attempt = s.attempt + 1
      BY Zenon
    <2> DEFINE n == s.attempt + 1
    <2>1. n \in 0 .. MaxAttempts
      BY DispatcherAssumption DEF Worker
    <2> HIDE DEF n
    <2>2. LET t == [s EXCEPT !.pc = "check", !.attempt = n]
          IN  t \in Worker /\ t.pc = "check" /\ t.event = s.event /\ t.attempt = n
      BY ZenonT(30), <2>1 DEF Worker
    <2> QED BY Zenon, <2>2 DEF n
  <1>7. \A s \in Worker, err \in Outcome :
          LET t == Reporting(s, err)
          IN  t \in Worker /\ t.pc = "report" /\ t.event = s.event /\ t.err = err
    BY ZenonT(30) DEF Worker, Reporting
  <1> QED BY <1>2, <1>3, <1>4, <1>5, <1>6, <1>7, Zenon

\* The kinds of steps of a worker that becomes s, by what they do to its event.
Takes(w, s) ==
  /\ worker[w].pc = "select" /\ queue # <<>>
  /\ queue' = Tail(queue)
  /\ s.pc = "check" /\ s.event = Head(queue) /\ s.attempt = 0
  /\ UNCHANGED <<results, tries>>

Leaves(w, s) ==
  /\ worker[w].event = NoEvent /\ s.event = NoEvent
  /\ UNCHANGED <<queue, results, tries>>

Waits(w, s) ==
  /\ s.event = worker[w].event /\ s.event \in Event
  /\ \/ worker[w].pc = "check" /\ s.pc = "deliver" /\ s.attempt = worker[w].attempt
     \/ worker[w].pc = "backoff" /\ s.pc = "check" /\ s.attempt = worker[w].attempt + 1
     \/ /\ worker[w].pc \in {"check", "backoff"} /\ cancelled
        /\ s.pc = "report" /\ s.err = "cancelled"
  /\ UNCHANGED <<queue, results, tries>>

Tries(w, s) ==
  /\ worker[w].pc = "deliver"
  /\ s.event = worker[w].event /\ s.event \in Event
  /\ tries' = [tries EXCEPT ![s.event] = @ + 1]
  /\ \/ s.pc = "report" /\ s.err = "ok"
     \/ s.pc = "report" /\ s.err = "failed" /\ worker[w].attempt = MaxAttempts - 1
     \/ s.pc = "backoff" /\ s.attempt = worker[w].attempt
  /\ UNCHANGED <<queue, results>>

Reports(w, s) ==
  /\ worker[w].pc = "report" /\ worker[w].event \in Event
  /\ s.event = NoEvent
  /\ results' = Append(results, [event |-> worker[w].event, err |-> worker[w].err])
  /\ UNCHANGED <<queue, tries>>

Outside == <<mutex, sending, closing, done, closed, cancelled, accepted, collected>>

\* Every step of a worker is of one of these kinds.
LEMMA WorkEffect ==
  ASSUME TypeOK, Hands, NEW w \in Workers, Work(w)
  PROVE  \E s \in Worker :
           /\ worker' = [worker EXCEPT ![w] = s] /\ Sound(s) /\ UNCHANGED Outside
           /\ Takes(w, s) \/ Leaves(w, s) \/ Waits(w, s) \/ Tries(w, s) \/ Reports(w, s)
  <1> DEFINE Good(s) ==
           /\ worker' = [worker EXCEPT ![w] = s] /\ Sound(s) /\ UNCHANGED Outside
           /\ Takes(w, s) \/ Leaves(w, s) \/ Waits(w, s) \/ Tries(w, s) \/ Reports(w, s)
  <1> SUFFICES \E s \in Worker : Good(s)
    BY Zenon
  <1> HIDE DEF Good
  <1>1. worker[w] \in Worker /\ Sound(worker[w])
    BY Zenon DEF TypeOK, Hands
  <1>2. worker[w].pc \notin {"select", "exit"} =>
          worker[w].event \in Event /\ worker[w].event # NoEvent
    BY Zenon, <1>1, DispatcherAssumption DEF Worker, Sound
  <1>3. worker[w].attempt \in 0 .. MaxAttempts /\ MaxAttempts \in Nat \ {0}
    BY Zenon, <1>1, DispatcherAssumption DEF Worker
  <1>4. CASE Take(w)
    <2> DEFINE s == [Selecting EXCEPT !.pc = "check", !.event = Head(queue)]
    <2>1. Head(queue) \in Event
      BY Zenon, <1>4, HeadTailProperties DEF Take, TypeOK
    <2>2. s \in Worker /\ s.pc = "check" /\ s.event = Head(queue) /\ s.attempt = 0
      BY ZenonT(30), <2>1, WorkerFields
    <2>3. worker' = [worker EXCEPT ![w] = s]
      BY Zenon, <1>4 DEF Take, Become
    <2> HIDE DEF s
    <2>4. Sound(s)
      BY <2>1, <2>2, DispatcherAssumption DEF Sound
    <2>5. Takes(w, s) /\ UNCHANGED Outside
      BY Zenon, <1>4, <2>2 DEF Take, Takes, Outside
    <2> QED BY Zenon, <2>2, <2>3, <2>4, <2>5 DEF Good
  <1>5. CASE Exit(w)
    <2> DEFINE s == [Selecting EXCEPT !.pc = "exit"]
    <2>1. s \in Worker /\ s.pc = "exit" /\ s.event = NoEvent
      BY ZenonT(30), WorkerFields DEF Selecting
    <2>2. worker' = [worker EXCEPT ![w] = s]
      BY Zenon, <1>5 DEF Exit, Become
    <2> HIDE DEF s
    <2>3. Sound(s)
      BY Zenon, <2>1 DEF Sound
    <2>4. Leaves(w, s) /\ UNCHANGED Outside
      BY Zenon, <1>1, <1>5, <2>1 DEF Exit, Leaves, Outside, Sound
    <2> QED BY Zenon, <2>1, <2>2, <2>3, <2>4 DEF Good
  <1>6. ASSUME NEW err \in Outcome, worker' = [worker EXCEPT ![w] = Reporting(worker[w], err)],
               worker[w].pc \notin {"select", "exit"}, UNCHANGED Outside,
               \/ /\ worker[w].pc \in {"check", "backoff"} /\ cancelled /\ err = "cancelled"
                  /\ UNCHANGED <<queue, results, tries>>
               \/ /\ worker[w].pc = "deliver"
                  /\ tries' = [tries EXCEPT ![worker[w].event] = @ + 1]
                  /\ err = "ok" \/ (err = "failed" /\ worker[w].attempt = MaxAttempts - 1)
                  /\ UNCHANGED <<queue, results>>
        PROVE  \E s \in Worker : Good(s)
    <2> DEFINE s == Reporting(worker[w], err)
    <2>1. s \in Worker /\ s.pc = "report" /\ s.event = worker[w].event /\ s.err = err
      <3>1. \A v \in Worker, e \in Outcome :
              LET t == Reporting(v, e)
              IN  t \in Worker /\ t.pc = "report" /\ t.event = v.event /\ t.err = e
        BY Zenon, WorkerFields
      <3> QED BY Zenon, <1>1, <3>1
    <2> HIDE DEF s
    <2>2. Sound(s)
      BY Zenon, <1>2, <1>6, <2>1 DEF Sound
    <2>3. Waits(w, s) \/ Tries(w, s)
      BY Zenon, <1>2, <1>6, <2>1 DEF Waits, Tries
    <2> QED BY Zenon, <1>6, <2>1, <2>2, <2>3 DEF Good, s
  <1>7. CASE Check(w)
    <2> DEFINE s == [worker[w] EXCEPT !.pc = "deliver"]
    <2>1. CASE cancelled
      BY Zenon, <1>6, <1>7, <2>1 DEF Check, Become, Outcome, Outside
    <2>2. CASE ~ cancelled
      <3>1. /\ s \in Worker /\ s.pc = "deliver" /\ s.event = worker[w].event
            /\ s.attempt = worker[w].attempt
        BY ZenonT(30), <1>1, WorkerFields
      <3>2. worker' = [worker EXCEPT ![w] = s]
        BY Zenon, <1>7, <2>2 DEF Check, Become
      <3> HIDE DEF s
      <3>3. worker[w].pc = "check" /\ UNCHANGED <<queue, results, tries>> /\ UNCHANGED Outside
        BY Zenon, <1>7 DEF Check, Outside
      <3>4. Sound(s) /\ Waits(w, s)
        BY Zenon, <1>1, <1>2, <3>1, <3>3 DEF Sound, Waits
      <3> QED BY ZenonT(30), <3>1, <3>2, <3>3, <3>4 DEF Good
    <2> QED BY Zenon, <2>1, <2>2
  <1>8. ASSUME NEW ok \in BOOLEAN, Deliver(w, ok)
        PROVE  \E s \in Worker : Good(s)
    <2> DEFINE s == [worker[w] EXCEPT !.pc = "backoff"]
    <2>1. /\ worker[w].pc = "deliver" /\ UNCHANGED <<queue, results>> /\ UNCHANGED Outside
          /\ tries' = [tries EXCEPT ![worker[w].event] = @ + 1]
      BY Zenon, <1>8 DEF Deliver, Outside
    <2>2. CASE ok
      <3>1. Become(w, Reporting(worker[w], "ok"))
        BY Zenon, <1>8, <2>2 DEF Deliver
      <3> DEFINE r == Reporting(worker[w], "ok")
      <3>2. r \in Worker /\ r.pc = "report" /\ r.event = worker[w].event /\ r.err = "ok"
        BY ZenonT(30), <1>1, WorkerFields DEF Outcome
      <3> HIDE DEF r
      <3>3. Sound(r) /\ Tries(w, r)
        BY Zenon, <1>2, <2>1, <3>2 DEF Sound, Tries
      <3>4. worker' = [worker EXCEPT ![w] = r]
        BY Zenon, <3>1 DEF Become, r
      <3> QED BY Zenon, <2>1, <3>2, <3>3, <3>4 DEF Good
    <2>3. CASE ~ ok /\ LastAttempt(worker[w])
      <3>1. Become(w, Reporting(worker[w], "failed"))
        BY Zenon, <1>8, <2>3 DEF Deliver
      <3> QED BY Zenon, <1>6, <2>1, <2>3, <3>1 DEF Become, Outcome, LastAttempt
    <2>4. CASE ~ ok /\ ~ LastAttempt(worker[w])
      <3>1. Become(w, s)
        BY Zenon, <1>8, <2>4 DEF Deliver
      <3>2. /\ s \in Worker /\ s.pc = "backoff" /\ s.event = worker[w].event
            /\ s.attempt = worker[w].attempt
        BY ZenonT(30), <1>1, WorkerFields
      <3> HIDE DEF s
      <3>3. s.attempt + 1 < MaxAttempts
        BY <1>1, <1>3, <2>1, <2>4, <3>2 DEF Sound, LastAttempt
      <3>4. Sound(s) /\ Tries(w, s)
        BY Zenon, <1>1, <1>2, <2>1, <3>2, <3>3 DEF Sound, Tries
      <3> QED BY Zenon, <2>1, <3>1, <3>2, <3>4 DEF Good, Become
    <2> QED BY Zenon, <2>2, <2>3, <2>4
  <1>9. CASE Backoff(w)
    <2> DEFINE s == [worker[w] EXCEPT !.pc = "check", !.attempt = @ + 1]
    <2>1. worker[w].pc = "backoff" /\ UNCHANGED <<queue, results, tries>> /\ UNCHANGED Outside
      BY Zenon, <1>9 DEF Backoff, Outside
    <2>2. CASE cancelled /\ Become(w, Aborted(worker[w]))
      BY Zenon, <1>6, <2>1, <2>2 DEF Become, Aborted, Outcome
    <2>3. CASE Become(w, s)
      <3>1. worker[w].attempt + 1 < MaxAttempts
        BY Zenon, <1>1, <2>1 DEF Sound
      <3>2. /\ s \in Worker /\ s.pc = "check" /\ s.event = worker[w].event
            /\ s.attempt = worker[w].attempt + 1
        <4>1. worker[w].attempt + 1 <= MaxAttempts
          BY <1>3, <3>1
        <4> QED BY <1>1, <4>1, WorkerFields, Zenon
      <3> HIDE DEF s
      <3>3. Sound(s) /\ Waits(w, s)
        BY Zenon, <1>1, <1>2, <2>1, <3>1, <3>2 DEF Sound, Waits
      <3> QED BY ZenonT(30), <2>1, <2>3, <3>2, <3>3 DEF Good, Become
    <2> QED BY Zenon, <1>9, <2>2, <2>3 DEF Backoff
  <1>10. CASE Report(w)
    <2>1. Selecting \in Worker /\ Selecting.event = NoEvent /\ Sound(Selecting)
      BY ZenonT(30), WorkerFields DEF Selecting, Sound
    <2>2. Reports(w, Selecting) /\ UNCHANGED Outside
      BY Zenon, <1>2, <1>10, <2>1 DEF Report, Reports, Outside
    <2> QED BY Zenon, <1>10, <2>1, <2>2 DEF Good, Report, Become
  <1> QED BY Zenon, <1>4, <1>5, <1>7, <1>8, <1>9, <1>10 DEF Work

\* The steps of the others, by what they do to the events.
LEMMA OtherEffect ==
  ASSUME TypeOK, [Next]_vars, ~ \E w \in Workers : Work(w)
  PROVE  /\ UNCHANGED <<worker, tries>>
         /\ \/ \E p \in Producers, e \in Event : Enqueue(p, e)
            \/ \E p \in Producers : Send(p)
            \/ Collect
            \/ /\ UNCHANGED <<mutex, sending, queue, results, accepted, collected>>
               /\ cancelled => cancelled'
               /\ \/ UNCHANGED <<done, closed>>
                  \/ LockFree /\ done' = TRUE /\ closed' = closed
                  \/ done /\ done' = done
  BY ZenonT(30) DEF Next, vars, Enqueue, Send, Collect, Close, CloseMark, CloseQueue, Cancel, TypeOK

\* Every variable keeps its type.
LEMMA TypeInv == Spec => [](TypeOK /\ Hands)
  <1>1. Init => TypeOK /\ Hands
    <2> SUFFICES ASSUME Init
                 PROVE  TypeOK /\ Hands
      BY Zenon
    <2>1. worker \in [Workers -> Worker]
      BY ZenonT(30), WorkerFields DEF Init
    <2>2. <<>> \in Seq(Event) /\ <<>> \in Seq(Result)
      BY Zenon, EmptySeq
    <2>3. Hands
      BY Zenon DEF Init, Hands, Sound, Selecting
    <2> QED BY Zenon, <2>1, <2>2, <2>3 DEF Init, TypeOK
  <1>2. TypeOK /\ Hands /\ [Next]_vars => TypeOK' /\ Hands'
    <2> SUFFICES ASSUME TypeOK, Hands, [Next]_vars
                 PROVE  TypeOK' /\ Hands'
      BY Zenon
    <2>1. ASSUME NEW w \in Workers, Work(w)
          PROVE  TypeOK' /\ Hands'
      <3>1. PICK s \in Worker :
              /\ worker' = [worker EXCEPT ![w] = s] /\ Sound(s) /\ UNCHANGED Outside
              /\ Takes(w, s) \/ Leaves(w, s) \/ Waits(w, s) \/ Tries(w, s) \/ Reports(w, s)
        BY Zenon, <2>1, WorkEffect
      <3>2. worker' \in [Workers -> Worker] /\ Hands'
        BY Zenon, <3>1 DEF TypeOK, Hands, Sound
      <3>3. queue' \in Seq(Event)
        BY ZenonT(30), <3>1, HeadTailProperties DEF TypeOK, Takes, Leaves, Waits, Tries, Reports
      <3>4. tries' \in [Event -> Nat]
        BY <3>1 DEF TypeOK, Takes, Leaves, Waits, Tries, Reports
      <3>5. results' \in Seq(Result)
        <4>1. CASE Reports(w, s)
          <5>1. [event |-> worker[w].event, err |-> worker[w].err] \in Result
            BY Zenon, <4>1 DEF Reports, Result, TypeOK, Worker
          <5> QED BY Zenon, <4>1, <5>1, AppendProperties DEF Reports, TypeOK
        <4> QED BY Zenon, <3>1, <4>1 DEF TypeOK, Takes, Leaves, Waits, Tries
      <3> QED BY Zenon, <3>1, <3>2, <3>3, <3>4, <3>5 DEF TypeOK, Outside
    <2>2. ASSUME NEW p \in Producers, NEW e \in Event, Enqueue(p, e)
          PROVE  TypeOK' /\ Hands'
      BY Zenon, <2>2 DEF Enqueue, TypeOK, Hands, Sound
    <2>3. ASSUME NEW p \in Producers, Send(p)
          PROVE  TypeOK' /\ Hands'
      <3>1. sending[p] \in Event
        BY Zenon, <2>3 DEF Send, TypeOK
      <3>2. queue' \in Seq(Event)
        BY Zenon, <2>3, <3>1, AppendProperties DEF Send, TypeOK
      <3> QED BY Zenon, <2>3, <3>2 DEF Send, TypeOK, Hands, Sound
    <2>4. CASE Close \/ CloseMark \/ CloseQueue \/ Cancel \/ UNCHANGED vars
      BY Zenon, <2>4 DEF Close, CloseMark, CloseQueue, Cancel, vars, TypeOK, Hands, Sound
    <2>5. CASE Collect
      <3>1. Head(results) \in Result /\ results' \in Seq(Result)
        BY Zenon, <2>5, HeadTailProperties DEF Collect, TypeOK
      <3> QED BY Zenon, <2>5, <3>1 DEF Collect, TypeOK, Hands, Sound
    <2> QED BY Zenon, <2>1, <2>2, <2>3, <2>4, <2>5 DEF Next
  <1> QED BY <1>1, <1>2, PTL DEF Spec
-----------------------------------------------------------------------------
\* Who holds the mutex is sending, and once done is set nobody is: why a
\* closed queue meets no sender.
Locking == /\ \A p \in Producers : sending[p] # NoEvent <=> mutex = p
           /\ done => mutex = NoOne
           /\ closed => done

\* The lock protects the queue.
LEMMA LockingInv == Spec => []Locking
  <1>1. Init => Locking
    BY Zenon, DispatcherAssumption DEF Init, Locking
  <1>2. TypeOK /\ Hands /\ Locking /\ [Next]_vars => Locking'
    <2> SUFFICES ASSUME TypeOK, Hands, Locking, [Next]_vars
                 PROVE  Locking'
      BY Zenon
    <2>1. ASSUME NEW w \in Workers, Work(w)
          PROVE  UNCHANGED <<mutex, sending, done, closed>>
      BY Zenon, <2>1, WorkEffect DEF Outside
    <2>2. ASSUME NEW p \in Producers, NEW e \in Event, Enqueue(p, e)
          PROVE  Locking'
      BY Zenon, <2>2, DispatcherAssumption DEF Enqueue, LockFree, Accepting, Locking, TypeOK
    <2>3. ASSUME NEW p \in Producers, Send(p)
          PROVE  Locking'
      BY Zenon, <2>3, DispatcherAssumption DEF Send, Locking, TypeOK
    <2>4. CASE CloseMark \/ CloseQueue
      BY Zenon, <2>4 DEF CloseMark, CloseQueue, LockFree, Locking, TypeOK
    <2>5. CASE Close \/ Collect \/ Cancel \/ UNCHANGED vars
      BY <2>5 DEF Close, Collect, Cancel, vars, Locking
    <2> QED BY Zenon, <2>1, <2>2, <2>3, <2>4, <2>5 DEF Next, Locking
  <1> QED BY <1>1, <1>2, TypeInv, PTL DEF Spec

\* Dispatcher.Enqueue and Dispatcher.Close: no producer is sending when the
\* queue is closed.
THEOREM ClosedQueueIsQuiet == Spec => []NoSendOnClosed
  <1>1. Locking => NoSendOnClosed
    BY Zenon, DispatcherAssumption DEF Locking, NoSendOnClosed
  <1> QED BY <1>1, LockingInv, PTL
-----------------------------------------------------------------------------
(***************************************************************************)
(* Where an event is.  The events of Places, without the counting.         *)
(***************************************************************************)
AtProducer(e) == \E p \in Producers : sending[p] = e
AtQueue(e) == e \in Range(queue)
AtWorker(e) == \E w \in Workers : worker[w].event = e
AtResult(e) == \E r \in Reported : r.event = e

\* An accepted event is in one place, the others are in none.
Located ==
  \A e \in Event :
    /\ e \in accepted <=> AtProducer(e) \/ AtQueue(e) \/ AtWorker(e) \/ AtResult(e)
    /\ ~ (AtProducer(e) /\ (AtQueue(e) \/ AtWorker(e) \/ AtResult(e)))
    /\ ~ (AtQueue(e) /\ (AtWorker(e) \/ AtResult(e)))
    /\ ~ (AtWorker(e) /\ AtResult(e))

\* And in that place once.
Single ==
  /\ \A i, j \in 1 .. Len(queue) : queue[i] = queue[j] => i = j
  /\ \A v, w \in Workers : worker[v].event = worker[w].event /\ worker[v].event # NoEvent => v = w
  /\ \A q, r \in Reported : q.event = r.event => q = r

\* The elements of a tail, by their positions.
LEMMA TailElements ==
  ASSUME NEW S, NEW q \in Seq(S), q # <<>>
  PROVE  Range(Tail(q)) = {Tail(q)[i] : i \in 1 .. Len(Tail(q))}
  <1>1. Tail(q) \in Seq(S)
    BY Zenon, HeadTailProperties
  <1> QED BY Zenon, <1>1, RangeEquality

\* Head and Tail of a sequence without repetitions.
LEMMA TailDistinct ==
  ASSUME NEW S, NEW q \in Seq(S), q # <<>>,
         \A i, j \in 1 .. Len(q) : q[i] = q[j] => i = j
  PROVE  /\ \A i, j \in 1 .. Len(Tail(q)) : Tail(q)[i] = Tail(q)[j] => i = j
         /\ \A e : e \in Range(Tail(q)) <=> e \in Range(q) /\ e # Head(q)
  <1>1. /\ Tail(q) \in Seq(S) /\ Len(Tail(q)) = Len(q) - 1
        /\ \A i \in 1 .. Len(Tail(q)) : Tail(q)[i] = q[i + 1]
    BY Zenon, HeadTailProperties
  <1>2. Len(q) \in Nat \ {0} /\ Head(q) = q[1]
    BY EmptySeq
  <1>3. \A i \in 1 .. Len(Tail(q)) : i + 1 \in 1 .. Len(q) /\ i + 1 # 1
    BY <1>1, <1>2
  <1>4. ASSUME NEW i \in 1 .. Len(Tail(q)), NEW j \in 1 .. Len(Tail(q)), Tail(q)[i] = Tail(q)[j]
        PROVE  i = j
    <2>1. q[i + 1] = q[j + 1]
      BY Zenon, <1>1, <1>4
    <2>2. i + 1 = j + 1
      BY Zenon, <1>3, <2>1
    <2> QED BY <2>2
  <1>5. Range(q) = Range(Tail(q)) \cup {Head(q)}
    BY Zenon, TailRange
  <1>6. Head(q) \notin Range(Tail(q))
    <2> SUFFICES ASSUME Head(q) \in Range(Tail(q))
                 PROVE  FALSE
      BY Zenon
    <2>1. Range(Tail(q)) = {Tail(q)[i] : i \in 1 .. Len(Tail(q))}
      BY TailElements
    <2>2. PICK i \in 1 .. Len(Tail(q)) : Tail(q)[i] = Head(q)
      BY Zenon, <2>1
    <2>3. q[i + 1] = q[1]
      BY Zenon, <1>1, <1>2, <2>2
    <2>4. 1 \in 1 .. Len(q)
      BY <1>2
    <2> QED BY Zenon, <1>3, <2>3, <2>4
  <1> QED BY Zenon, <1>4, <1>5, <1>6

\* Appending a new element.
LEMMA AppendDistinct ==
  ASSUME NEW S, NEW q \in Seq(S), NEW x \in S, x \notin Range(q),
         \A i, j \in 1 .. Len(q) : q[i] = q[j] => i = j
  PROVE  \A i, j \in 1 .. Len(Append(q, x)) : Append(q, x)[i] = Append(q, x)[j] => i = j
  <1>1. /\ Len(Append(q, x)) = Len(q) + 1
        /\ \A i \in 1 .. Len(q) : Append(q, x)[i] = q[i]
        /\ Append(q, x)[Len(q) + 1] = x
    BY AppendProperties
  <1>2. Len(q) \in Nat
    BY Zenon, LenProperties
  <1>3. \A i \in 1 .. Len(q) : q[i] # x
    BY RangeEquality
  <1>4. \A i \in 1 .. Len(q) + 1 : i \in 1 .. Len(q) \/ i = Len(q) + 1
    BY <1>2
  <1> QED BY Zenon, <1>1, <1>3, <1>4

\* Every step keeps an accepted event in exactly one place.
LEMMA LocatedStep ==
  ASSUME TypeOK, Hands, Locking, Located, Single, [Next]_vars
  PROVE  Located' /\ Single'
  <1>1. queue \in Seq(Event) /\ results \in Seq(Result)
    BY Zenon DEF TypeOK
  <1>2. ASSUME NEW p \in Producers, NEW x \in Event, Enqueue(p, x)
        PROVE  Located' /\ Single'
    <2>1. /\ accepted' = accepted \cup {x} /\ x \notin accepted
          /\ UNCHANGED <<queue, worker, results, collected>>
          /\ \A q \in Producers : sending[q] = NoEvent
          /\ sending' = [sending EXCEPT ![p] = x]
      BY Zenon, <1>2, DispatcherAssumption DEF Enqueue, LockFree, Locking
    <2>2. \A e \in Event : /\ AtProducer(e)' <=> e = x
                           /\ ~ AtProducer(e)
      BY Zenon, <2>1, DispatcherAssumption DEF AtProducer, TypeOK
    <2>3. \A e \in Event : /\ AtQueue(e)' <=> AtQueue(e)
                           /\ AtWorker(e)' <=> AtWorker(e)
                           /\ AtResult(e)' <=> AtResult(e)
      BY Zenon, <2>1 DEF AtQueue, AtWorker, AtResult, Reported
    <2>4. Located'
      BY Zenon, <2>1, <2>2, <2>3 DEF Located
    <2>5. Single'
      BY Zenon, <2>1 DEF Single, Reported
    <2> QED BY Zenon, <2>4, <2>5
  <1>3. ASSUME NEW p \in Producers, Send(p)
        PROVE  Located' /\ Single'
    <2> DEFINE x == sending[p]
    <2>1. /\ x \in Event /\ \A q \in Producers \ {p} : sending[q] = NoEvent
          /\ sending' = [sending EXCEPT ![p] = NoEvent]
          /\ queue' = Append(queue, x)
          /\ UNCHANGED <<worker, results, collected, accepted>>
      BY Zenon, <1>3 DEF Send, Locking, TypeOK
    <2>2. \A e \in Event : /\ ~ AtProducer(e)'
                           /\ AtProducer(e) <=> e = x
      BY Zenon, <2>1, DispatcherAssumption DEF AtProducer, TypeOK
    <2>3. \A e \in Event : /\ AtQueue(e)' <=> AtQueue(e) \/ e = x
                           /\ AtWorker(e)' <=> AtWorker(e)
                           /\ AtResult(e)' <=> AtResult(e)
      BY <2>1, <1>1, AppendRange DEF AtQueue, AtWorker, AtResult, Reported
    <2>4. Located'
      BY Zenon, <2>1, <2>2, <2>3 DEF Located
    <2>5. x \notin Range(queue)
      BY Zenon, <2>1, <2>2 DEF Located, AtQueue
    <2>6. \A i, j \in 1 .. Len(queue') : queue'[i] = queue'[j] => i = j
      BY <2>1, <2>5, <1>1, AppendDistinct DEF Single
    <2>7. Single'
      BY Zenon, <2>1, <2>6 DEF Single, Reported
    <2> QED BY Zenon, <2>4, <2>7
  <1>4. CASE Collect
    <2>1. /\ Range(results') \cup {Head(results)} = Range(results)
          /\ UNCHANGED <<sending, queue, worker, accepted>>
          /\ collected' = collected \cup {Head(results)}
      BY Zenon, <1>1, <1>4, TailRange DEF Collect
    <2>2. Reported' = Reported
      BY Zenon, <2>1 DEF Reported
    <2> QED BY Zenon, <2>1, <2>2 DEF Located, Single, AtProducer, AtQueue, AtWorker, AtResult
  <1>5. CASE UNCHANGED <<sending, queue, worker, results, collected, accepted>>
    BY Zenon, <1>5 DEF Located, Single, AtProducer, AtQueue, AtWorker, AtResult, Reported
  <1>6. ASSUME NEW w \in Workers, Work(w)
        PROVE  Located' /\ Single'
    <2>1. PICK s \in Worker :
            /\ worker' = [worker EXCEPT ![w] = s] /\ Sound(s) /\ UNCHANGED Outside
            /\ Takes(w, s) \/ Leaves(w, s) \/ Waits(w, s) \/ Tries(w, s) \/ Reports(w, s)
      BY Zenon, <1>6, WorkEffect
    <2>2. UNCHANGED <<sending, collected, accepted>> /\ worker \in [Workers -> Worker]
      BY Zenon, <2>1 DEF Outside, TypeOK
    <2>3. \A v \in Workers : worker'[v] = IF v = w THEN s ELSE worker[v]
      BY Zenon, <2>1, <2>2
    <2>4. \A e : AtProducer(e)' <=> AtProducer(e)
      BY ZenonT(30), <2>2 DEF AtProducer
    <2>5. CASE Takes(w, s)
      <3> DEFINE x == Head(queue)
      <3>1. /\ queue # <<>> /\ queue' = Tail(queue) /\ results' = results
            /\ s.event = x /\ worker[w].event = NoEvent
        BY Zenon, <2>5 DEF Takes, Hands, Sound
      <3>2. x \in Event
        BY Zenon, <1>1, <3>1, HeadTailProperties
      <3>3. /\ \A i, j \in 1 .. Len(queue') : queue'[i] = queue'[j] => i = j
            /\ \A e : AtQueue(e)' <=> AtQueue(e) /\ e # x
        BY SMTT(30), <1>1, <3>1, TailDistinct DEF Single, AtQueue
      <3>4. AtQueue(x)
        BY Zenon, <1>1, <3>1, TailRange DEF AtQueue
      <3>5. ~ AtWorker(x)
        BY Zenon, <3>2, <3>4 DEF Located
      <3>6. \A e \in Event : /\ AtWorker(e)' <=> AtWorker(e) \/ e = x
                             /\ AtResult(e)' <=> AtResult(e)
        BY Zenon, <2>2, <2>3, <3>1, DispatcherAssumption DEF AtWorker, AtResult, Reported
      <3>7. Located'
        BY Zenon, <2>2, <2>4, <3>2, <3>3, <3>4, <3>6 DEF Located
      <3>8. \A u, v \in Workers : worker'[u].event = worker'[v].event /\ worker'[u].event # NoEvent
                                   => u = v
        BY <2>3, <3>1, <3>5 DEF Single, AtWorker
      <3> QED BY Zenon, <2>2, <3>1, <3>3, <3>7, <3>8 DEF Single, Reported
    <2>6. CASE Leaves(w, s) \/ Waits(w, s) \/ Tries(w, s)
      <3>1. s.event = worker[w].event /\ UNCHANGED <<queue, results>>
        BY Zenon, <2>6 DEF Leaves, Waits, Tries
      <3>2. \A v \in Workers : worker'[v].event = worker[v].event
        BY Zenon, <2>3, <3>1
      <3> QED BY SMTT(30), <2>2, <2>4, <3>1, <3>2
              DEF Located, Single, AtQueue, AtWorker, AtResult, Reported
    <2>7. CASE Reports(w, s)
      <3> DEFINE x == worker[w].event
                 r == [event |-> worker[w].event, err |-> worker[w].err]
      <3>1. /\ queue' = queue /\ results' = Append(results, r)
            /\ s.event = NoEvent /\ x \in Event
        BY Zenon, <2>7 DEF Reports
      <3>2. r \in Result /\ r.event = x
        BY Zenon, <2>2, <3>1 DEF Result, Worker
      <3> HIDE DEF r
      <3>3. Reported' = Reported \cup {r}
        BY <1>1, <2>2, <3>1, <3>2, AppendRange DEF Reported
      <3>4. \A e \in Event : /\ AtQueue(e)' <=> AtQueue(e)
                             /\ AtResult(e)' <=> AtResult(e) \/ e = x
        BY Zenon, <3>1, <3>2, <3>3 DEF AtQueue, AtResult
      <3>5. \A e \in Event : AtWorker(e)' <=> AtWorker(e) /\ e # x
        BY <2>3, <3>1, DispatcherAssumption DEF AtWorker, Single
      <3>6. AtWorker(x) /\ ~ AtResult(x)
        BY Zenon, <3>1 DEF AtWorker, Located
      <3>7. Located'
        BY Zenon, <2>2, <2>4, <3>1, <3>4, <3>5, <3>6 DEF Located
      <3>8. \A u, v \in Workers : worker'[u].event = worker'[v].event /\ worker'[u].event # NoEvent
                                   => u = v
        BY Zenon, <2>3, <3>1 DEF Single
      <3>9. \A q \in Reported : q.event # x
        BY Zenon, <3>6 DEF AtResult
      <3>10. \A q, t \in Reported' : q.event = t.event => q = t
        BY Zenon, <3>2, <3>3, <3>9 DEF Single
      <3> QED BY Zenon, <3>1, <3>7, <3>8, <3>10 DEF Single
    <2> QED BY Zenon, <2>1, <2>5, <2>6, <2>7
  <1>7. CASE ~ \E w \in Workers : Work(w)
    BY Zenon, <1>2, <1>3, <1>4, <1>5, <1>7, OtherEffect
  <1> QED BY Zenon, <1>6, <1>7

\* An accepted event is always in exactly one place.
LEMMA LocatedInv == Spec => [](Located /\ Single)
  <1>1. Init => Located /\ Single
    <2> SUFFICES ASSUME Init
                 PROVE  Located /\ Single
      BY Zenon
    <2>1. Range(queue) = {} /\ Reported = {}
      BY DEF Init, Reported, Range
    <2>2. \A e \in Event : ~ AtProducer(e) /\ ~ AtWorker(e) /\ ~ AtQueue(e) /\ ~ AtResult(e)
      BY Zenon, <2>1, DispatcherAssumption DEF Init, AtProducer, AtWorker, AtQueue, AtResult, Selecting
    <2> QED BY <2>1, <2>2 DEF Init, Located, Single, Selecting
  <1>2. TypeOK /\ Hands /\ Locking /\ Located /\ Single /\ [Next]_vars => Located' /\ Single'
    BY Zenon, LocatedStep
  <1> QED BY <1>1, <1>2, TypeInv, LockingInv, PTL DEF Spec

\* A set with at most one element.
LEMMA AtMostOne ==
  ASSUME NEW S, \A x, y \in S : x = y
  PROVE  Cardinality(S) = IF S = {} THEN 0 ELSE 1
  <1>1. CASE S = {}
    BY Zenon, <1>1, FS_EmptySet
  <1>2. CASE S # {}
    <2>1. PICK x \in S : TRUE
      BY Zenon, <1>2
    <2>2. S = {x}
      BY Zenon, <2>1
    <2>3. Cardinality({x}) = 1
      BY Zenon, FS_Singleton
    <2> QED BY Zenon, <1>2, <2>2, <2>3
  <1> QED BY Zenon, <1>1, <1>2

\* Dispatcher.Enqueue, worker and Close: every accepted event is with its
\* producer, in the queue, with a worker or reported, once.
THEOREM EventsAreKept == Spec => []NothingLost
  <1>1. ASSUME TypeOK, Locking, Located, Single
        PROVE  NothingLost
    <2> SUFFICES ASSUME NEW e \in Event
                 PROVE  Places(e) = IF e \in accepted THEN 1 ELSE 0
      BY Zenon DEF NothingLost
    <2> DEFINE P == {p \in Producers : sending[p] = e}
               Q == {i \in DOMAIN queue : queue[i] = e}
               W == {w \in Workers : worker[w].event = e}
               R == {r \in Reported : r.event = e}
    <2>1. e # NoEvent
      BY Zenon, DispatcherAssumption
    <2>2. \A p, q \in P : p = q
      BY Zenon, <1>1, <2>1 DEF Locking
    <2>3. queue \in Seq(Event) /\ DOMAIN queue = 1 .. Len(queue)
      BY <1>1 DEF TypeOK
    <2>4. \A i, j \in Q : i = j
      BY Zenon, <1>1, <2>3 DEF Single
    <2>5. \A v, w \in W : v = w
      BY Zenon, <1>1, <2>1 DEF Single
    <2>6. \A q, r \in R : q = r
      BY Zenon, <1>1 DEF Single
    <2>7. (P # {} <=> AtProducer(e)) /\ (W # {} <=> AtWorker(e)) /\ (R # {} <=> AtResult(e))
      BY Zenon DEF AtProducer, AtWorker, AtResult
    <2>8. Q # {} <=> AtQueue(e)
      <3>1. Range(queue) = {queue[i] : i \in 1 .. Len(queue)}
        BY Zenon, <2>3, RangeEquality
      <3> QED BY Zenon, <2>3, <3>1 DEF AtQueue
    <2>9. Places(e) = Cardinality(P) + Cardinality(Q) + Cardinality(W) + Cardinality(R)
      BY Zenon DEF Places
    <2> HIDE DEF P, Q, W, R
    <2>10. Cardinality(P) = IF AtProducer(e) THEN 1 ELSE 0
      BY Zenon, <2>2, <2>7, AtMostOne
    <2>11. Cardinality(Q) = IF AtQueue(e) THEN 1 ELSE 0
      BY Zenon, <2>4, <2>8, AtMostOne
    <2>12. Cardinality(W) = IF AtWorker(e) THEN 1 ELSE 0
      BY Zenon, <2>5, <2>7, AtMostOne
    <2>13. Cardinality(R) = IF AtResult(e) THEN 1 ELSE 0
      BY Zenon, <2>6, <2>7, AtMostOne
    <2> QED BY <1>1, <2>9, <2>10, <2>11, <2>12, <2>13 DEF Located
  <1> QED BY <1>1, TypeInv, LockingInv, LocatedInv, PTL
-----------------------------------------------------------------------------
(***************************************************************************)
(* The attempts an event has had, as its worker knows them.                *)
(***************************************************************************)
Truth(n, err, c) == /\ n <= MaxAttempts
                    /\ err = "ok" => n > 0
                    /\ err = "failed" => n = MaxAttempts
                    /\ err = "cancelled" => c

Progress(s, n, c) == /\ s.pc \in {"check", "deliver"} => n = s.attempt
                     /\ s.pc = "backoff" => n = s.attempt + 1
                     /\ s.pc = "report" => Truth(n, s.err, c)

Counts ==
  /\ \A e \in Event : ~ AtWorker(e) /\ ~ AtResult(e) => tries[e] = 0
  /\ \A w \in Workers : worker[w].event # NoEvent =>
                          Progress(worker[w], tries[worker[w].event], cancelled)
  /\ \A r \in Reported : Truth(tries[r.event], r.err, cancelled)

\* Every step keeps the counts.
LEMMA CountsStep ==
  ASSUME TypeOK, Hands, Located, Single, Counts, [Next]_vars
  PROVE  Counts'
  <1>1. /\ queue \in Seq(Event) /\ results \in Seq(Result) /\ collected \subseteq Result
        /\ worker \in [Workers -> Worker] /\ tries \in [Event -> Nat]
        /\ cancelled \in BOOLEAN
    BY ZenonT(30) DEF TypeOK
  <1>2. CASE ~ \E w \in Workers : Work(w)
    <2>1. UNCHANGED <<worker, tries>>
      BY ZenonT(30), <1>2, OtherEffect
    <2>2. cancelled => cancelled'
      BY ZenonT(30), <1>2 DEF Next, vars, Enqueue, Send, Collect, Close, CloseMark, CloseQueue, Cancel
    <2>3. Reported' = Reported
      <3>1. CASE Collect
        <4>1. /\ Range(results') \cup {Head(results)} = Range(results)
              /\ collected' = collected \cup {Head(results)}
          BY Zenon, <1>1, <3>1, TailRange DEF Collect
        <4> QED BY Zenon, <4>1 DEF Reported
      <3>2. CASE UNCHANGED <<results, collected>>
        BY Zenon, <3>2 DEF Reported
      <3> QED BY Zenon, <1>2, <3>1, <3>2, OtherEffect DEF Enqueue, Send
    <2> QED BY Zenon, <2>1, <2>2, <2>3 DEF Counts, AtWorker, AtResult, Progress, Truth
  <1>3. ASSUME NEW w \in Workers, Work(w)
        PROVE  Counts'
    <2>1. PICK s \in Worker :
            /\ worker' = [worker EXCEPT ![w] = s] /\ Sound(s) /\ UNCHANGED Outside
            /\ Takes(w, s) \/ Leaves(w, s) \/ Waits(w, s) \/ Tries(w, s) \/ Reports(w, s)
      BY Zenon, <1>3, WorkEffect
    <2>2. UNCHANGED <<cancelled, collected>>
      BY Zenon, <2>1 DEF Outside
    <2>3. \A v \in Workers : worker'[v] = IF v = w THEN s ELSE worker[v]
      BY Zenon, <2>1, <1>1
    <2>4. /\ worker[w] \in Worker /\ Sound(worker[w])
          /\ worker[w].attempt \in Nat /\ s.attempt \in Nat /\ MaxAttempts \in Nat \ {0}
      BY SMTT(30), <1>1, DispatcherAssumption DEF Hands, Worker
    <2>5. CASE Takes(w, s)
      <3> DEFINE x == Head(queue)
      <3>1. /\ queue # <<>> /\ UNCHANGED <<results, tries>>
            /\ s.event = x /\ s.pc = "check" /\ s.attempt = 0 /\ worker[w].event = NoEvent
        BY Zenon, <2>4, <2>5 DEF Takes, Sound
      <3>2. x \in Event /\ AtQueue(x)
        BY ZenonT(30), <1>1, <3>1, TailRange, HeadTailProperties DEF AtQueue
      <3>3. tries[x] = 0
        BY Zenon, <3>2 DEF Located, Counts
      <3>4. \A e \in Event : AtWorker(e) => AtWorker(e)'
        BY Zenon, <2>3, <3>1, DispatcherAssumption DEF AtWorker
      <3>5. Reported' = Reported
        BY Zenon, <2>2, <3>1 DEF Reported
      <3>6. Progress(s, tries[x], cancelled)
        BY ZenonT(30), <3>1, <3>3 DEF Progress
      <3>7. \A v \in Workers : worker'[v].event # NoEvent =>
                                 Progress(worker'[v], tries[worker'[v].event], cancelled)
        BY ZenonT(30), <2>3, <3>1, <3>6 DEF Counts
      <3>8. \A e \in Event : ~ AtWorker(e)' /\ ~ AtResult(e)' => tries[e] = 0
        BY ZenonT(30), <3>4, <3>5 DEF Counts, AtResult
      <3> QED BY Zenon, <2>2, <3>1, <3>5, <3>7, <3>8 DEF Counts
    <2>6. CASE Leaves(w, s) \/ Waits(w, s)
      <3>1. UNCHANGED <<results, tries>> /\ s.event = worker[w].event
        BY Zenon, <2>6 DEF Leaves, Waits
      <3>2. \A e : AtWorker(e)' <=> AtWorker(e)
        BY Zenon, <2>3, <3>1 DEF AtWorker
      <3>3. Reported' = Reported
        BY ZenonT(30), <2>2, <3>1 DEF Reported
      <3>4. s.event # NoEvent => Progress(s, tries[s.event], cancelled)
        <4> SUFFICES ASSUME s.event # NoEvent
                     PROVE  Progress(s, tries[s.event], cancelled)
          BY Zenon
        <4>1. Waits(w, s)
          BY ZenonT(30), <2>6 DEF Leaves
        <4>2. Progress(worker[w], tries[s.event], cancelled)
          BY ZenonT(30), <3>1 DEF Counts
        <4> HIDE DEF Waits
        <4> QED BY <2>4, <4>1, <4>2 DEF Waits, Progress, Truth, Sound
      <3>5. \A v \in Workers : worker'[v].event # NoEvent =>
                                 Progress(worker'[v], tries[worker'[v].event], cancelled)
        BY ZenonT(30), <2>3, <3>4 DEF Counts
      <3>6. \A e \in Event : ~ AtWorker(e)' /\ ~ AtResult(e)' => tries[e] = 0
        BY ZenonT(30), <3>2, <3>3 DEF Counts, AtResult
      <3> QED BY ZenonT(30), <2>2, <3>1, <3>3, <3>5, <3>6 DEF Counts
    <2>7. CASE Tries(w, s)
      <3> DEFINE x == s.event
                 n == tries[x] + 1
      <3>1. /\ results' = results /\ x = worker[w].event /\ x \in Event
            /\ worker[w].pc = "deliver" /\ tries' = [tries EXCEPT ![x] = n]
        BY Zenon, <2>7 DEF Tries
      <3>2. x # NoEvent
        BY Zenon, <3>1, DispatcherAssumption
      <3>3. n = worker[w].attempt + 1 /\ n <= MaxAttempts /\ n > 0
        <4>1. tries[x] = worker[w].attempt
          BY Zenon, <3>1, <3>2 DEF Counts, Progress
        <4>2. worker[w].attempt < MaxAttempts
          BY Zenon, <2>4, <3>1 DEF Sound
        <4> QED BY SMTT(30), <2>4, <4>1, <4>2
      <3>4. tries'[x] = n /\ \A e \in Event : e # x => tries'[e] = tries[e]
        BY Zenon, <1>1, <3>1
      <3> HIDE DEF n
      <3>5. Progress(s, n, cancelled)
        BY <2>4, <2>7, <3>3 DEF Tries, Progress, Truth
      <3>6. Reported' = Reported
        BY Zenon, <2>2, <3>1 DEF Reported
      <3>7. \A e : AtWorker(e)' <=> AtWorker(e)
        BY ZenonT(30), <2>3, <3>1 DEF AtWorker
      <3>8. AtWorker(x) /\ ~ AtResult(x)
        BY Zenon, <3>1 DEF AtWorker, Located
      <3>9. \A e \in Event : ~ AtWorker(e)' /\ ~ AtResult(e)' => tries'[e] = 0
        BY Zenon, <3>4, <3>6, <3>7, <3>8 DEF Counts, AtResult
      <3>10. \A r \in Reported : tries'[r.event] = tries[r.event]
        <4>1. Reported \subseteq Result
          BY <1>1, RangeEquality DEF Reported
        <4>2. \A r \in Reported : r.event \in Event /\ r.event # x
          BY Zenon, <3>8, <4>1 DEF Result, AtResult
        <4> QED BY Zenon, <3>4, <4>2
      <3>11. ASSUME NEW v \in Workers, worker'[v].event # NoEvent
             PROVE  Progress(worker'[v], tries'[worker'[v].event], cancelled)
        <4>1. CASE v = w
          BY ZenonT(30), <2>3, <3>4, <3>5, <4>1
        <4>2. CASE v # w
          <5>1. worker'[v] = worker[v] /\ worker[v].event # x
            BY Zenon, <2>3, <3>1, <3>2, <4>2 DEF Single
          <5>2. worker[v].event \in Event
            BY ZenonT(30), <1>1, <3>11, <5>1 DEF Worker
          <5> QED BY Zenon, <3>4, <3>11, <5>1, <5>2 DEF Counts
        <4> QED BY Zenon, <4>1, <4>2
      <3> QED BY Zenon, <2>2, <3>6, <3>9, <3>10, <3>11 DEF Counts
    <2>8. CASE Reports(w, s)
      <3> DEFINE x == worker[w].event
                 r == [event |-> worker[w].event, err |-> worker[w].err]
      <3>1. /\ tries' = tries /\ results' = Append(results, r)
            /\ s.event = NoEvent /\ x \in Event /\ worker[w].pc = "report"
        BY ZenonT(30), <2>8 DEF Reports
      <3>2. r \in Result /\ r.event = x /\ r.err = worker[w].err
        BY ZenonT(30), <2>4, <3>1 DEF Result, Worker
      <3> HIDE DEF r
      <3>3. Reported' = Reported \cup {r}
        BY SMTT(30), <1>1, <2>2, <3>1, <3>2, AppendRange DEF Reported
      <3>4. x # NoEvent
        BY ZenonT(30), <3>1, DispatcherAssumption
      <3>5. Truth(tries[r.event], r.err, cancelled)
        BY Zenon, <3>1, <3>2, <3>4 DEF Counts, Progress
      <3>6. \A e \in Event : AtWorker(e) => AtWorker(e)' \/ e = x
        BY Zenon, <2>3 DEF AtWorker
      <3>7. \A e \in Event : AtResult(e)' <=> AtResult(e) \/ e = x
        BY ZenonT(30), <3>2, <3>3 DEF AtResult
      <3>8. \A e \in Event : ~ AtWorker(e)' /\ ~ AtResult(e)' => tries[e] = 0
        BY ZenonT(30), <3>6, <3>7 DEF Counts
      <3>9. \A v \in Workers : worker'[v].event # NoEvent =>
                                 Progress(worker'[v], tries[worker'[v].event], cancelled)
        BY Zenon, <2>3, <3>1 DEF Counts
      <3> QED BY ZenonT(30), <2>2, <3>1, <3>3, <3>5, <3>8, <3>9 DEF Counts
    <2> QED BY Zenon, <2>1, <2>5, <2>6, <2>7, <2>8
  <1> QED BY Zenon, <1>2, <1>3

\* The counts are always right.
LEMMA CountsInv == Spec => []Counts
  <1>1. Init => Counts
    <2> SUFFICES ASSUME Init
                 PROVE  Counts
      BY Zenon
    <2>1. Reported = {}
      BY DEF Init, Reported, Range
    <2> QED BY Zenon, <2>1 DEF Init, Counts, Selecting
  <1>2. TypeOK /\ Hands /\ Located /\ Single /\ Counts /\ [Next]_vars => Counts'
    BY Zenon, CountsStep
  <1> QED BY <1>1, <1>2, TypeInv, LocatedInv, PTL DEF Spec

\* RetryPolicy.Do and worker: a result says what happened to its event, and no
\* event is attempted more often than the policy allows.
THEOREM ResultsAreTrue == Spec => []ResultsTruthful
  <1>1. ASSUME TypeOK, Hands, Located, Counts
        PROVE  ResultsTruthful
    <2>1. Reported \subseteq Result
      BY <1>1, RangeEquality DEF Reported, TypeOK
    <2>2. ASSUME NEW e \in Event
          PROVE  tries[e] <= MaxAttempts
      <3>1. CASE AtWorker(e)
        <4>1. PICK w \in Workers : worker[w].event = e
          BY Zenon, <3>1 DEF AtWorker
        <4>2. worker[w] \in Worker /\ Sound(worker[w]) /\ e # NoEvent
          BY Zenon, <1>1, DispatcherAssumption DEF TypeOK, Hands
        <4>3. worker[w].pc \in {"check", "deliver", "backoff", "report"}
          BY Zenon, <4>1, <4>2 DEF Worker, Sound
        <4>4. worker[w].attempt \in 0 .. MaxAttempts /\ MaxAttempts \in Nat
          BY ZenonT(30), <4>2, DispatcherAssumption DEF Worker
        <4>5. Progress(worker[w], tries[e], cancelled)
          BY Zenon, <1>1, <4>1, <4>2 DEF Counts
        <4> QED BY <4>2, <4>3, <4>4, <4>5 DEF Progress, Truth, Sound
      <3>2. CASE AtResult(e)
        BY ZenonT(30), <1>1, <3>2 DEF Counts, AtResult, Truth
      <3>3. CASE ~ AtWorker(e) /\ ~ AtResult(e)
        BY <1>1, <3>3, DispatcherAssumption DEF Counts
      <3> QED BY Zenon, <3>1, <3>2, <3>3
    <2>3. ASSUME NEW r \in Reported
          PROVE  CASE r.err = "ok"        -> tries[r.event] > 0
                   [] r.err = "failed"    -> tries[r.event] = MaxAttempts
                   [] r.err = "cancelled" -> cancelled
      <3>1. r.err \in Outcome
        BY Zenon, <2>1 DEF Result
      <3>2. Truth(tries[r.event], r.err, cancelled)
        BY ZenonT(30), <1>1 DEF Counts
      <3> QED BY ZenonT(30), <3>1, <3>2 DEF Outcome, Truth
    <2> QED BY ZenonT(30), <2>2, <2>3 DEF ResultsTruthful
  <1> QED BY <1>1, TypeInv, LocatedInv, CountsInv, PTL
-----------------------------------------------------------------------------
(***************************************************************************)
(* The refinement.  Answers is the mapping of D.                           *)
(***************************************************************************)
AnswerIn(R, e) == IF \E r \in R : r.event = e
                  THEN (CHOOSE r \in R : r.event = e).err
                  ELSE NoEvent

Answers == [e \in Event |-> AnswerIn(Reported, e)]

\* A step that leaves the reported results and the accepted events alone, or
\* accepts one, or reports one, or sets done: all Delivery can see.
LEMMA StepVisible ==
  ASSUME TypeOK, Hands, Locking, Located, Single, [Next]_vars
  PROVE  \/ /\ UNCHANGED <<done, accepted>> /\ Reported' = Reported
         \/ /\ done' = TRUE /\ accepted' = accepted /\ Reported' = Reported
         \/ \E x \in Event : /\ ~ done /\ x \notin accepted /\ accepted' = accepted \cup {x}
                             /\ done' = done /\ Reported' = Reported
         \/ \E r \in Result : /\ r.event \in accepted /\ ~ AtResult(r.event)
                              /\ Reported' = Reported \cup {r}
                              /\ UNCHANGED <<done, accepted>>
  <1>1. queue \in Seq(Event) /\ results \in Seq(Result) /\ worker \in [Workers -> Worker]
    BY Zenon DEF TypeOK
  <1>2. ASSUME NEW w \in Workers, Work(w)
        PROVE  \/ UNCHANGED <<done, accepted>> /\ Reported' = Reported
               \/ \E r \in Result : /\ r.event \in accepted /\ ~ AtResult(r.event)
                                    /\ Reported' = Reported \cup {r}
                                    /\ UNCHANGED <<done, accepted>>
    <2>1. PICK s \in Worker :
            /\ UNCHANGED Outside
            /\ Takes(w, s) \/ Leaves(w, s) \/ Waits(w, s) \/ Tries(w, s) \/ Reports(w, s)
      BY Zenon, <1>2, WorkEffect
    <2>2. UNCHANGED <<done, accepted, collected>>
      BY Zenon, <2>1 DEF Outside
    <2>3. CASE Reports(w, s)
      <3> DEFINE x == worker[w].event
                 r == [event |-> worker[w].event, err |-> worker[w].err]
      <3>1. results' = Append(results, r) /\ x \in Event
        BY Zenon, <2>3 DEF Reports
      <3>2. r \in Result /\ r.event = x
        BY Zenon, <1>1, <3>1 DEF Result, Worker
      <3> HIDE DEF r
      <3>3. Reported' = Reported \cup {r}
        BY <1>1, <2>2, <3>1, <3>2, AppendRange DEF Reported
      <3>4. x \in accepted /\ ~ AtResult(x)
        BY Zenon, <3>1 DEF AtWorker, Located
      <3> QED BY Zenon, <2>2, <3>2, <3>3, <3>4
    <2>4. CASE Takes(w, s) \/ Leaves(w, s) \/ Waits(w, s) \/ Tries(w, s)
      <3>1. results' = results
        BY ZenonT(30), <2>4 DEF Takes, Leaves, Waits, Tries
      <3> QED BY ZenonT(30), <2>2, <3>1 DEF Reported
    <2> QED BY Zenon, <2>1, <2>3, <2>4
  <1>3. CASE Collect
    <2>1. /\ Range(results') \cup {Head(results)} = Range(results)
          /\ collected' = collected \cup {Head(results)}
          /\ UNCHANGED <<done, accepted>>
      BY Zenon, <1>1, <1>3, TailRange DEF Collect
    <2> QED BY Zenon, <2>1 DEF Reported
  <1>4. CASE \E p \in Producers, x \in Event : Enqueue(p, x)
    BY ZenonT(30), <1>4 DEF Enqueue, Accepting, Reported
  <1>5. CASE (\E p \in Producers : Send(p)) \/ Close \/ CloseMark \/ CloseQueue \/ Cancel \/ UNCHANGED vars
    BY Zenon, <1>5 DEF Send, Close, CloseMark, CloseQueue, Cancel, vars, Reported
  <1> QED BY ZenonT(30), <1>2, <1>3, <1>4, <1>5 DEF Next

\* What Answers becomes when one result is added.
LEMMA AnswersStep ==
  ASSUME NEW R, NEW r, \A q \in R : q.event # r.event, NEW e
  PROVE  AnswerIn(R \cup {r}, e) = IF e = r.event THEN r.err ELSE AnswerIn(R, e)
  <1>1. CASE e = r.event
    <2>1. \A q \in R \cup {r} : q.event = e <=> q = r
      BY Zenon, <1>1
    <2>2. (CHOOSE q \in R \cup {r} : q.event = e) = r
      BY Zenon, <2>1
    <2> QED BY Zenon, <1>1, <2>1, <2>2 DEF AnswerIn
  <1>2. CASE e # r.event
    <2>1. \A q : (q \in R \cup {r} /\ q.event = e) <=> (q \in R /\ q.event = e)
      BY Zenon, <1>2
    <2>2. (CHOOSE q \in R \cup {r} : q.event = e) = (CHOOSE q \in R : q.event = e)
      BY Zenon, <2>1
    <2> QED BY ZenonT(30), <1>2, <2>1, <2>2 DEF AnswerIn
  <1> QED BY Zenon, <1>1, <1>2

\* Dispatcher as seen by its callers: what Enqueue took before Close gets at
\* most one outcome, which never changes, and nothing is taken afterwards.
THEOREM ImplementsDelivery == Spec => DeliverySpec
  <1>1. Init => D!Init
    <2> SUFFICES ASSUME Init
                 PROVE  D!Init
      BY Zenon
    <2>1. Reported = {}
      BY DEF Init, Reported, Range
    <2> QED BY Zenon, <2>1 DEF Init, D!Init
  <1>2. ASSUME TypeOK, Hands, Locking, Located, Single, [Next]_vars
        PROVE  [D!Next]_<<~ done, accepted, Answers>>
    <2>1. CASE UNCHANGED <<done, accepted>> /\ Reported' = Reported
      BY Zenon, <2>1 DEF Answers
    <2>2. CASE done' = TRUE /\ accepted' = accepted /\ Reported' = Reported
      BY Zenon, <2>2 DEF D!Next, D!Shut
    <2>3. ASSUME NEW x \in Event, ~ done, x \notin accepted, accepted' = accepted \cup {x},
                 done' = done, Reported' = Reported
          PROVE  D!Next
      BY Zenon, <2>3 DEF D!Next, D!Accept
    <2>4. ASSUME NEW r \in Result, r.event \in accepted, ~ AtResult(r.event),
                 Reported' = Reported \cup {r}, UNCHANGED <<done, accepted>>
          PROVE  D!Next
      <3>1. \A q \in Reported : q.event # r.event
        BY Zenon, <2>4 DEF AtResult
      <3>2. \A e \in Event : AnswerIn(Reported', e) = IF e = r.event THEN r.err ELSE AnswerIn(Reported, e)
        BY Zenon, <2>4, <3>1, AnswersStep
      <3>3. r.event \in Event /\ r.err \in Outcome
        BY ZenonT(30) DEF Result
      <3>4. Answers' = [Answers EXCEPT ![r.event] = r.err] /\ Answers[r.event] = NoEvent
        BY ZenonT(30), <3>1, <3>2, <3>3 DEF Answers, AnswerIn
      <3>5. D!Resolve(r.event, r.err)
        BY Zenon, <2>4, <3>4 DEF D!Resolve, Answers, AnswerIn
      <3> QED BY Zenon, <3>3, <3>5 DEF D!Next
    <2> QED BY ZenonT(30), <1>2, <2>1, <2>2, <2>3, <2>4, StepVisible
  <1> QED BY <1>1, <1>2, TypeInv, LockingInv, LocatedInv, PTL
          DEF Spec, DeliverySpec, D!Spec, Answers, AnswerIn
=============================================================================
