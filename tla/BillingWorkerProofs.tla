------------------------ MODULE BillingWorkerProofs ------------------------
(***************************************************************************)
(* Proofs of the safety properties of module BillingWorker, for every set  *)
(* of events and callers, every size of a batch and number of retries.     *)
(***************************************************************************)
EXTENDS BillingWorker, SequenceTheorems, TLAPS

---------------------------------------------------------------------------
(* The elements of a queue                                                 *)

LEMMA EmptyFacts == Range(<<>>) = {} /\ IsInjective(<<>>) /\ Len(<<>>) = 0
  BY DEF Range, IsInjective

LEMMA AppendFacts ==
  ASSUME NEW S, NEW s \in Seq(S), NEW e \in S
  PROVE  /\ Append(s, e) \in Seq(S)
         /\ Append(s, e) # <<>>
         /\ Len(Append(s, e)) = Len(s) + 1
         /\ Range(Append(s, e)) = Range(s) \union {e}
         /\ IsInjective(s) /\ e \notin Range(s) => IsInjective(Append(s, e))
<1> DEFINE t == Append(s, e)
<1>1. t \in Seq(S) /\ t # <<>> /\ Len(t) = Len(s) + 1
  BY AppendProperties
<1>2. DOMAIN s = 1 .. Len(s) /\ DOMAIN t = 1 .. Len(s) + 1 /\ Len(s) \in Nat
  BY <1>1, LenProperties
<1>3. (\A i \in 1 .. Len(s) : t[i] = s[i]) /\ t[Len(s) + 1] = e
  BY AppendProperties
<1>4. Range(t) = Range(s) \union {e}
  BY <1>2, <1>3 DEF Range
<1>5. IsInjective(s) /\ e \notin Range(s) => IsInjective(t)
  BY <1>2, <1>3 DEF Range, IsInjective
<1> QED
  BY <1>1, <1>4, <1>5

LEMMA TailFacts ==
  ASSUME NEW S, NEW s \in Seq(S), s # <<>>
  PROVE  /\ Head(s) \in S
         /\ Tail(s) \in Seq(S)
         /\ Len(s) \in Nat \ {0}
         /\ Len(Tail(s)) = Len(s) - 1
         /\ Range(s) = {Head(s)} \union Range(Tail(s))
         /\ IsInjective(s) => IsInjective(Tail(s)) /\ Head(s) \notin Range(Tail(s))
<1> DEFINE t == Tail(s)
<1>1. Head(s) \in S /\ t \in Seq(S) /\ Len(t) = Len(s) - 1
  BY HeadTailProperties
<1>2. Len(s) \in Nat \ {0}
  BY EmptySeq
<1>3. DOMAIN s = 1 .. Len(s) /\ DOMAIN t = 1 .. Len(s) - 1
  BY <1>1, LenProperties
<1>4. Head(s) = s[1] /\ \A i \in 1 .. Len(s) - 1 : t[i] = s[i + 1]
  BY <1>1, HeadTailProperties
<1>5. Range(s) = {Head(s)} \union Range(t)
  <2>1. ASSUME NEW i \in 1 .. Len(s) PROVE s[i] \in {Head(s)} \union Range(t)
    <3>1. CASE i = 1
      BY <3>1, <1>4
    <3>2. CASE i # 1
      <4>1. i - 1 \in 1 .. Len(s) - 1 /\ s[i] = t[i - 1]
        BY <3>2, <1>2, <1>4
      <4> QED
        BY <4>1, <1>3 DEF Range
    <3> QED
      BY <3>1, <3>2
  <2>2. ASSUME NEW i \in 1 .. Len(s) - 1 PROVE t[i] \in Range(s)
    BY <1>2, <1>3, <1>4 DEF Range
  <2>3. Head(s) \in Range(s)
    BY <1>2, <1>3, <1>4 DEF Range
  <2> QED
    BY <2>1, <2>2, <2>3, <1>3 DEF Range
<1>6. IsInjective(s) => IsInjective(t) /\ Head(s) \notin Range(t)
  <2> SUFFICES ASSUME IsInjective(s) PROVE IsInjective(t) /\ Head(s) \notin Range(t)
    OBVIOUS
  <2>1. ASSUME NEW i \in 1 .. Len(s) - 1, NEW j \in 1 .. Len(s) - 1, t[i] = t[j]
        PROVE  i = j
    <3>1. i + 1 \in DOMAIN s /\ j + 1 \in DOMAIN s /\ s[i + 1] = s[j + 1]
      BY <2>1, <1>2, <1>3, <1>4
    <3> QED
      BY <3>1, <1>2 DEF IsInjective
  <2>2. ASSUME NEW i \in 1 .. Len(s) - 1 PROVE t[i] # Head(s)
    <3>1. i + 1 \in DOMAIN s /\ 1 \in DOMAIN s /\ t[i] = s[i + 1] /\ i + 1 # 1
      BY <1>2, <1>3, <1>4
    <3> QED
      BY <3>1, <1>4 DEF IsInjective
  <2> QED
    BY <2>1, <2>2, <1>3 DEF IsInjective, Range
<1> QED
  BY <1>1, <1>2, <1>5, <1>6

---------------------------------------------------------------------------
(* The inductive invariant                                                 *)

LEMMA InitKeeps == Init => IInv
<1> SUFFICES ASSUME Init PROVE IInv
  OBVIOUS
<1>1. TypeOK
  <2>1. queue \in Seq(Events) /\ batch \in Seq(Events)
    BY EmptySeq DEF Init
  <2>2. attempt \in 0 .. DefaultRetries /\ unfinished \in Nat
    BY WorkerAssumption DEF Init
  <2> QED
    BY <2>1, <2>2 DEF Init, TypeOK, Steps, Answers, Fates
<1>2. Accounted /\ Working /\ Drained
  BY EmptyFacts DEF Init, Accounted, Working, Drained
<1>3. Queueing
  <2>1. Queued = {} /\ Unsettled = {}
    BY EmptyFacts DEF Init, Queued, Unsettled
  <2> QED
    BY <2>1, EmptyFacts DEF Init, Queueing
<1>4. Owing
  BY DEF Init, Owing
<1> QED
  BY <1>1, <1>2, <1>3, <1>4 DEF IInv

\* A new event is in no queue and in no open batch.
LEMMA EmitKeeps ==
  ASSUME IInv, NEW e \in Events, Emit(e)
  PROVE  IInv'
<1>1. queue \in Seq(Events) /\ Len(queue) \in Nat /\ batch \in Seq(Events) /\ Len(batch) \in Nat
  BY LenProperties DEF IInv, TypeOK
<1>2. /\ queue' \in Seq(Events)
      /\ Len(queue') = Len(queue) + 1
      /\ Range(queue') = Range(queue) \union {e}
      /\ IsInjective(queue) /\ e \notin Range(queue) => IsInjective(queue')
  BY <1>1, AppendFacts DEF Emit
<1>3. e \notin Range(queue) /\ e \notin Unsettled
  BY DEF IInv, Queueing, Queued, Emit
<1>4. TypeOK'
  BY <1>2 DEF IInv, TypeOK, Emit, worker, Fates
<1>5. Accounted'
  BY <1>1, <1>2 DEF IInv, Accounted, Emit, worker
<1>6. Working'
  BY DEF IInv, Working, Emit, worker
<1>7. Queueing'
  <2>1. Unsettled' = Unsettled
    BY DEF Emit, worker, Unsettled
  <2>2. Queued' = Queued \union {e}
    BY DEF IInv, TypeOK, Emit, Queued
  <2> QED
    BY <2>1, <2>2, <1>2, <1>3 DEF IInv, Queueing
<1>8. Drained'
  BY <1>2 DEF IInv, Drained, Working, Emit, worker
<1>9. Owing'
  BY DEF IInv, TypeOK, Owing, Settled, Emit
<1> QED
  BY <1>4, <1>5, <1>6, <1>7, <1>8, <1>9 DEF IInv

LEMMA JoinKeeps ==
  ASSUME IInv, NEW c \in Callers, Flush(c) \/ Close(c)
  PROVE  IInv'
<1>1. TypeOK'
  BY DEF IInv, TypeOK, Flush, Close, Join, worker, Queued
<1>2. Accounted' /\ Queueing'
  BY DEF IInv, Accounted, Queueing, Queued, Unsettled, Flush, Close, Join, worker
<1>3. Working'
  BY DEF IInv, Working, Flush, Close, Join, worker
<1>4. Drained'
  BY DEF IInv, Drained, Flush, Close, Join, worker
<1>5. Owing'
  BY DEF IInv, TypeOK, Owing, Settled, Queued, Flush, Close, Join
<1> QED
  BY <1>1, <1>2, <1>3, <1>4, <1>5 DEF IInv

\* When nothing is unfinished, nothing is queued, so that nothing is owed.
LEMMA NothingQueued ==
  ASSUME IInv, unfinished = 0
  PROVE  Queued = {}
<1>1. Len(queue) \in Nat /\ Len(batch) \in Nat
  BY LenProperties DEF IInv, TypeOK
<1>2. Len(queue) = 0 /\ Len(batch) = 0
  BY <1>1 DEF IInv, Accounted
<1>3. queue = <<>> /\ batch = <<>>
  BY <1>2, EmptySeq DEF IInv, TypeOK
<1> QED
  BY <1>3, EmptyFacts DEF IInv, Queueing, Unsettled

LEMMA OwedSettled ==
  ASSUME IInv, unfinished = 0, NEW c \in Callers, NEW e \in owed[c]
  PROVE  Settled(e)
<1>1. e \in Events /\ fate[e] \in Fates /\ fate[e] # "new"
  BY DEF IInv, TypeOK, Owing
<1>2. fate[e] # "queued"
  BY <1>1, NothingQueued DEF Queued
<1> QED
  BY <1>1, <1>2 DEF Fates, Settled

LEMMA ReturnKeeps ==
  ASSUME IInv, NEW c \in Callers, Return(c)
  PROVE  IInv'
<1>1. TypeOK' /\ Accounted' /\ Working' /\ Queueing' /\ Drained'
  BY DEF IInv, TypeOK, Accounted, Working, Queueing, Queued, Unsettled, Drained,
         Return, worker, history
<1>2. Owing'
  <2>1. \A d \in Callers : d # c => waiting'[d] = waiting[d]
    BY DEF IInv, TypeOK, Return
  <2>2. \A e \in owed[c] : Settled(e)
    BY OwedSettled DEF Return
  <2> QED
    BY <2>1, <2>2 DEF IInv, Owing, Settled, Return, history
<1> QED
  BY <1>1, <1>2 DEF IInv

---------------------------------------------------------------------------
(* The steps of the worker                                                 *)

LEMMA CheckStopKeeps ==
  ASSUME IInv, CheckStop
  PROVE  IInv'
<1>1. TypeOK'
  BY DEF IInv, TypeOK, CheckStop, Steps, history
<1>2. batch = <<>> /\ (draining' => stopping)
  BY DEF IInv, TypeOK, Working, CheckStop
<1>3. Accounted' /\ Working'
  BY <1>2 DEF IInv, Accounted, Working, CheckStop, history
<1>4. Queueing' /\ Drained' /\ Owing'
  BY DEF IInv, Queueing, Queued, Unsettled, Drained, Owing, Settled, CheckStop, history
<1> QED
  BY <1>1, <1>3, <1>4 DEF IInv

\* An event goes from the queue into the batch.
LEMMA TakeKeeps ==
  ASSUME IInv, Take
  PROVE  IInv'
<1>1. /\ Head(queue) \in Events
      /\ queue' \in Seq(Events)
      /\ Len(queue) \in Nat \ {0}
      /\ Len(queue') = Len(queue) - 1
      /\ Range(queue) = {Head(queue)} \union Range(queue')
      /\ IsInjective(queue')
      /\ Head(queue) \notin Range(queue')
  BY TailFacts DEF IInv, TypeOK, Queueing, Take
<1>2. /\ batch' \in Seq(Events)
      /\ Len(batch) \in Nat
      /\ Len(batch') = Len(batch) + 1
      /\ Range(batch') = Range(batch) \union {Head(queue)}
  BY <1>1, AppendFacts, LenProperties DEF IInv, TypeOK, Take
<1>3. TypeOK'
  BY <1>1, <1>2 DEF IInv, TypeOK, Take, history
<1>4. Accounted'
  BY <1>1, <1>2 DEF IInv, Accounted, Take
<1>5. Working' /\ Drained' /\ Owing'
  BY DEF IInv, Working, Drained, Owing, Settled, Take, history
<1>6. Queueing'
  BY <1>1, <1>2 DEF IInv, Queueing, Queued, Unsettled, Take, history
<1> QED
  BY <1>3, <1>4, <1>5, <1>6 DEF IInv

LEMMA EndBatchKeeps ==
  ASSUME IInv, EndBatch
  PROVE  IInv'
<1>1. TypeOK'
  BY DEF IInv, TypeOK, EndBatch, Steps, history
<1>2. Accounted' /\ Working' /\ Queueing' /\ Owing'
  BY DEF IInv, Accounted, Working, Queueing, Queued, Unsettled, Owing, Settled, EndBatch, history
<1>3. Drained'
  BY EmptyFacts DEF IInv, Drained, EndBatch, history
<1> QED
  BY <1>1, <1>2, <1>3 DEF IInv

LEMMA PostKeeps ==
  ASSUME IInv, Post
  PROVE  IInv'
<1>1. Range(batch) \subseteq Events
  BY LenProperties DEF IInv, TypeOK, Range
<1>2. TypeOK'
  BY <1>1 DEF IInv, TypeOK, Post, Steps
<1>3. Accounted' /\ Working' /\ Queueing' /\ Drained' /\ Owing'
  BY DEF IInv, Accounted, Working, Queueing, Queued, Unsettled, Drained, Owing, Settled, Post
<1> QED
  BY <1>2, <1>3 DEF IInv

LEMMA RetryKeeps ==
  ASSUME IInv, Retry
  PROVE  IInv'
<1>1. TypeOK'
  BY WorkerAssumption DEF IInv, TypeOK, Retry, Steps, Answers, history
<1>2. Accounted' /\ Working' /\ Queueing' /\ Drained' /\ Owing'
  BY DEF IInv, Accounted, Working, Queueing, Queued, Unsettled, Drained, Owing, Settled, Retry,
         history
<1> QED
  BY <1>1, <1>2 DEF IInv

\* The events of the batch are no longer queued, those in the queue still are.
LEMMA SettleKeeps ==
  ASSUME IInv, NEW outcome \in {"delivered", "dropped"}, step = "react", Settle(outcome)
  PROVE  IInv'
<1>1. Unsettled = Range(batch) /\ batch # <<>> /\ Range(queue) \intersect Range(batch) = {}
  BY DEF IInv, Queueing, Working, Unsettled
<1>2. fate' \in [Events -> Fates]
      /\ \A e \in Events : fate'[e] = IF e \in Range(batch) THEN outcome ELSE fate[e]
  BY DEF IInv, TypeOK, Settle, Fates
<1>3. TypeOK'
  BY <1>2, WorkerAssumption DEF IInv, TypeOK, Settle, Steps, Answers
<1>4. Accounted' /\ Working' /\ Drained'
  BY <1>1 DEF IInv, Accounted, Working, Drained, Settle
<1>5. Queueing'
  <2>1. Queued' = Queued \ Range(batch)
    BY <1>2 DEF Queued
  <2> QED
    BY <2>1, <1>1 DEF IInv, Queueing, Unsettled, Settle
<1>6. Owing'
  BY <1>2 DEF IInv, TypeOK, Owing, Settled, Settle
<1> QED
  BY <1>3, <1>4, <1>5, <1>6 DEF IInv

LEMMA TaskDoneKeeps ==
  ASSUME IInv, TaskDone
  PROVE  IInv'
<1>1. batch # <<>>
  BY DEF IInv, Working, TaskDone
<1>2. batch' \in Seq(Events) /\ Len(batch) \in Nat \ {0} /\ Len(batch') = Len(batch) - 1
  BY <1>1, TailFacts DEF IInv, TypeOK, TaskDone
<1>3. Len(batch) > 1 <=> batch' # <<>>
  BY <1>2, EmptySeq
<1>4. Accounted'
  BY <1>2, LenProperties DEF IInv, TypeOK, Accounted, TaskDone
<1>5. TypeOK'
  <2>1. unfinished' \in Nat
    BY <1>2, LenProperties DEF IInv, TypeOK, Accounted, TaskDone
  <2> QED
    BY <2>1, <1>2 DEF IInv, TypeOK, TaskDone, Steps, history
<1>6. Working'
  BY <1>3 DEF IInv, Working, TaskDone
<1>7. Queueing'
  <2>1. Unsettled = {} /\ Unsettled' = {}
    BY <1>3, EmptyFacts DEF TaskDone, Unsettled
  <2> QED
    BY <2>1 DEF IInv, Queueing, Queued, TaskDone, history
<1>8. Drained' /\ Owing'
  BY DEF IInv, Drained, Owing, Settled, TaskDone, history
<1> QED
  BY <1>4, <1>5, <1>6, <1>7, <1>8 DEF IInv

LEMMA StepKeeps == IInv /\ [Next]_vars => IInv'
<1> SUFFICES ASSUME IInv, [Next]_vars PROVE IInv'
  OBVIOUS
<1>1. ASSUME NEW e \in Events, Emit(e) PROVE IInv'
  BY <1>1, EmitKeeps
<1>2. ASSUME NEW c \in Callers, Flush(c) \/ Close(c) PROVE IInv'
  BY <1>2, JoinKeeps
<1>3. ASSUME NEW c \in Callers, Return(c) PROVE IInv'
  BY <1>3, ReturnKeeps
<1>4. CASE CheckStop
  BY <1>4, CheckStopKeeps
<1>5. CASE Take
  BY <1>5, TakeKeeps
<1>6. CASE EndBatch
  BY <1>6, EndBatchKeeps
<1>7. CASE Post
  BY <1>7, PostKeeps
<1>8. CASE Accept
  BY <1>8, SettleKeeps DEF Accept
<1>9. CASE Retry
  BY <1>9, RetryKeeps
<1>10. CASE GiveUp
  BY <1>10, SettleKeeps DEF GiveUp
<1>11. CASE TaskDone
  BY <1>11, TaskDoneKeeps
<1>12. CASE UNCHANGED vars
  BY <1>12 DEF IInv, TypeOK, Accounted, Working, Queueing, Queued, Unsettled, Drained, Owing,
               Settled, vars, worker, history
<1> QED
  BY <1>1, <1>2, <1>3, <1>4, <1>5, <1>6, <1>7, <1>8, <1>9, <1>10, <1>11, <1>12 DEF Next, Worker

---------------------------------------------------------------------------
(* The theorems                                                            *)

\* The queue, the worker and the callers agree in every reachable state.
THEOREM Inductive == Spec => []IInv
  BY InitKeeps, StepKeeps, PTL DEF Spec

\* The types hold, and no batch is retried more than DefaultRetries times
\* (_with_retry).
THEOREM TypeCorrect == Spec => []TypeOK
<1>1. IInv => TypeOK
  BY DEF IInv
<1> QED
  BY <1>1, Inductive, PTL

\* A flush or close that returned left nothing unsettled that was queued when
\* it was called (flush, stop, task_done).
THEOREM FlushesSettle == Spec => []FlushSettles
<1>1. IInv => FlushSettles
  BY DEF IInv, Owing, FlushSettles
<1> QED
  BY <1>1, Inductive, PTL

\* What the ended worker left in the queue came after it was asked to stop
\* (run, stop).
THEOREM OnlyLateStranded == Spec => []StrandedAreLate
<1>1. IInv => StrandedAreLate
  BY DEF IInv, Working, Drained, StrandedAreLate
<1> QED
  BY <1>1, Inductive, PTL

---------------------------------------------------------------------------
(* The refinement                                                          *)

\* The events of a batch whose request is under way or answered are queued.
LEMMA BatchQueued ==
  ASSUME IInv, step # "settle"
  PROVE  Range(batch) \in SUBSET Promise!Queued
  BY DEF IInv, Queueing, Queued, Unsettled, Promise!Queued

LEMMA SettleRefines ==
  ASSUME IInv, NEW outcome \in {"delivered", "dropped"}, step = "react", Settle(outcome),
         outcome = "delivered" => answer = "accepted"
  PROVE  Promise!PromiseNext
<1>1. outcome = "delivered" => Range(batch) \subseteq stored
  BY DEF IInv, Working
<1>2. Promise!Settle(Range(batch), outcome)
  BY <1>1 DEF Promise!Settle, Settle
<1> QED
  BY <1>2, BatchQueued DEF Promise!PromiseNext

LEMMA StepRefines ==
  ASSUME IInv, [Next]_vars
  PROVE  [Promise!PromiseNext]_Promise!promiseVars
<1>1. ASSUME NEW e \in Events, Emit(e) PROVE Promise!PromiseNext
  BY <1>1 DEF Emit, Promise!EmitEvent, Promise!PromiseNext
<1>2. ASSUME NEW c \in Callers, Flush(c) \/ Close(c) PROVE Promise!PromiseNext
  <2>1. Promise!Call(c)
    BY <1>2 DEF Flush, Close, Join, Promise!Call, Queued, Promise!Queued
  <2> QED
    BY <2>1 DEF Promise!PromiseNext
<1>3. ASSUME NEW c \in Callers, Return(c) PROVE Promise!PromiseNext
  <2>1. \A e \in owed[c] : Settled(e)
    BY <1>3, OwedSettled DEF Return
  <2>2. Promise!Answer(c)
    BY <2>1, <1>3 DEF Return, history, Settled, Promise!Answer
  <2> QED
    BY <2>2 DEF Promise!PromiseNext
<1>4. CASE Post
  <2>1. \E S \in SUBSET Promise!Queued : Promise!Store(S)
    <3>1. Range(batch) \in SUBSET Promise!Queued
      BY <1>4, BatchQueued DEF Post
    <3>2. Promise!Store(Range(batch)) \/ Promise!Store({})
      BY <1>4 DEF Post, Promise!Store
    <3> QED
      BY <3>1, <3>2
  <2> QED
    BY <2>1 DEF Promise!PromiseNext
<1>5. CASE Accept
  BY <1>5, SettleRefines DEF Accept
<1>6. CASE GiveUp
  BY <1>6, SettleRefines DEF GiveUp
<1>7. CASE CheckStop \/ Take \/ EndBatch \/ Retry \/ TaskDone
  BY <1>7 DEF CheckStop, Take, EndBatch, Retry, TaskDone, history, Promise!promiseVars
<1>8. CASE UNCHANGED vars
  BY <1>8 DEF vars, history, Promise!promiseVars
<1> QED
  BY <1>1, <1>2, <1>3, <1>4, <1>5, <1>6, <1>7, <1>8 DEF Next, Worker

\* The worker keeps what module BillingPromise says of the SDK (emit, flush,
\* close, _send_batch).
THEOREM Refinement == Spec => KeepsPromise
<1>1. Init => Promise!PromiseInit
  BY DEF Init, Promise!PromiseInit
<1>2. IInv /\ [Next]_vars => [Promise!PromiseNext]_Promise!promiseVars
  BY StepRefines
<1> QED
  BY <1>1, <1>2, Inductive, PTL DEF Spec, KeepsPromise, Promise!PromiseSpec

---------------------------------------------------------------------------
(* How long the worker can take: the safety half of Settles and FlushEnds  *)

\* The steps the worker can still take for the batch in its hands: its
\* attempts, each a request and an answer, and a task_done for each event.
BatchLeft ==
  IF step = "done" \/ (step = "collect" /\ batch = <<>>) THEN 0
  ELSE IF step = "check" THEN 1
  ELSE Len(batch) +
    (IF step = "settle" THEN 1
     ELSE IF step = "collect" THEN 2 * DefaultRetries + 4
     ELSE 2 * (DefaultRetries - attempt) + (IF step = "post" THEN 3 ELSE 2))

\* At worst every event makes a batch of its own.
PerEvent == 2 * DefaultRetries + 6

Left == PerEvent * Len(queue) + BatchLeft

\* The worker looks for events and finds none.
Idle == step = "collect" /\ batch = <<>> /\ queue = <<>>

\* Every step of a worker that has something to do leaves it less to do, an
\* idle one has at most the look at the stop event before it, and of the other
\* threads only emit adds to it: what is left to Settles and FlushEnds is that
\* the worker is scheduled.
WorksOff ==
  /\ Left \in Nat
  /\ Worker => IF Idle THEN Left' <= 1 ELSE Left' < Left
  /\ \A e \in Events : Emit(e) => Left' = Left + PerEvent
  /\ \A c \in Callers : Flush(c) \/ Close(c) \/ Return(c) => Left' = Left
BacklogFalls == [][WorksOff]_vars

LEMMA Weights ==
  /\ PerEvent \in Nat /\ PerEvent = 2 * DefaultRetries + 6 /\ DefaultRetries \in Nat
  /\ \A n \in Nat : PerEvent * n \in Nat /\ PerEvent * (n + 1) = PerEvent * n + PerEvent
<1>1. DefaultRetries \in Nat
  BY WorkerAssumption
<1>2. PerEvent \in Nat /\ PerEvent = 2 * DefaultRetries + 6
  BY <1>1 DEF PerEvent
<1>3. ASSUME NEW k \in Nat, NEW n \in Nat PROVE k * n \in Nat /\ k * (n + 1) = k * n + k
  OBVIOUS
<1> QED
  BY <1>1, <1>2, <1>3

LEMMA Sizes ==
  ASSUME IInv
  PROVE  /\ Len(queue) \in Nat /\ Len(batch) \in Nat /\ DefaultRetries \in Nat
         /\ attempt \in 0 .. DefaultRetries /\ step \in Steps
         /\ queue = <<>> <=> Len(queue) = 0
         /\ batch = <<>> <=> Len(batch) = 0
         /\ step \in {"check", "done"} => batch = <<>>
         /\ step \in {"post", "react", "settle"} => batch # <<>>
  BY EmptySeq, LenProperties, WorkerAssumption DEF IInv, TypeOK, Working

LEMMA BatchLeftBounds ==
  ASSUME IInv
  PROVE  /\ BatchLeft \in Nat /\ PerEvent * Len(queue) \in Nat /\ Left \in Nat
         /\ Left = PerEvent * Len(queue) + BatchLeft
<1>1. BatchLeft \in Nat
  BY Sizes DEF BatchLeft
<1>2. PerEvent * Len(queue) \in Nat
  BY Sizes, Weights
<1> QED
  BY <1>1, <1>2 DEF Left

\* A step that leaves the queue alone.
LEMMA SameQueue ==
  ASSUME IInv, UNCHANGED queue, NEW b \in Nat, BatchLeft' = b
  PROVE  Left' = PerEvent * Len(queue) + b /\ (b < BatchLeft => Left' < Left)
<1>1. Left' = PerEvent * Len(queue) + b
  BY DEF Left, PerEvent
<1> QED
  BY <1>1, BatchLeftBounds

LEMMA TakeLessens ==
  ASSUME IInv, Take
  PROVE  Left' < Left
<1>1. batch \in Seq(Events) /\ queue \in Seq(Events) /\ queue # <<>> /\ step = "collect"
  BY DEF IInv, TypeOK, Take
<1>2. Head(queue) \in Events /\ Len(queue) \in Nat \ {0} /\ Len(queue') = Len(queue) - 1
  BY <1>1, TailFacts DEF Take
<1>3. Len(batch') = Len(batch) + 1 /\ batch' # <<>>
  BY <1>1, <1>2, AppendFacts DEF Take
<1>4. BatchLeft' = Len(batch) + 2 * DefaultRetries + 5 /\ BatchLeft' <= BatchLeft + 2 * DefaultRetries + 5
  <2>1. BatchLeft' = Len(batch') + (2 * DefaultRetries + 4)
    BY <1>1, <1>3 DEF BatchLeft, Take
  <2>2. BatchLeft >= Len(batch) /\ BatchLeft \in Nat
    BY <1>1, Sizes DEF BatchLeft
  <2> QED
    BY <2>1, <2>2, <1>3, Sizes
<1>5. PerEvent * Len(queue) = PerEvent * (Len(queue) - 1) + PerEvent
      /\ PerEvent * (Len(queue) - 1) \in Nat
  <2>1. Len(queue) - 1 \in Nat /\ (Len(queue) - 1) + 1 = Len(queue)
    BY <1>2
  <2> QED
    BY <2>1, Weights
<1>6. Left' = PerEvent * (Len(queue) - 1) + BatchLeft'
  BY <1>2 DEF Left, PerEvent
<1> QED
  BY <1>4, <1>5, <1>6, BatchLeftBounds, Weights, Sizes

LEMMA EndBatchLessens ==
  ASSUME IInv, EndBatch
  PROVE  IF Idle THEN Left' <= 1 ELSE Left' < Left
<1>1. CASE batch = <<>>
  <2>1. Idle /\ step' \in {"check", "done"} /\ UNCHANGED queue
    BY <1>1 DEF EndBatch, Idle
  <2>2. BatchLeft' \in {0, 1}
    BY <2>1 DEF BatchLeft
  <2>3. Left' = PerEvent * Len(queue) + BatchLeft'
    BY <2>1, <2>2, SameQueue
  <2>4. PerEvent * Len(queue) = 0
    BY <2>1, Sizes, Weights DEF Idle
  <2> QED
    BY <2>1, <2>2, <2>3, <2>4
<1>2. CASE batch # <<>>
  <2>1. ~Idle /\ step = "collect" /\ step' = "post" /\ UNCHANGED <<queue, batch, attempt>>
    BY <1>2 DEF EndBatch, Idle
  <2>2. BatchLeft = Len(batch) + 2 * DefaultRetries + 4
    BY <1>2, <2>1, Sizes DEF BatchLeft
  <2>3. BatchLeft' = Len(batch) + 2 * (DefaultRetries - attempt) + 3
    BY <2>1, Sizes DEF BatchLeft
  <2> QED
    BY <2>1, <2>2, <2>3, SameQueue, Sizes
<1> QED
  BY <1>1, <1>2

LEMMA WorkerLessens ==
  ASSUME IInv, Worker
  PROVE  IF Idle THEN Left' <= 1 ELSE Left' < Left
<1>1. CASE CheckStop
  <2>1. step = "check" /\ step' = "collect" /\ batch = <<>> /\ UNCHANGED <<queue, batch>>
    BY <1>1, Sizes DEF CheckStop
  <2>2. BatchLeft = 1 /\ BatchLeft' = 0 /\ ~Idle
    BY <2>1 DEF BatchLeft, Idle
  <2> QED
    BY <2>1, <2>2, SameQueue
<1>2. CASE Take
  BY <1>2, TakeLessens DEF Take, Idle
<1>3. CASE EndBatch
  BY <1>3, EndBatchLessens
<1>4. CASE Post
  <2>1. step = "post" /\ step' = "react" /\ UNCHANGED <<queue, batch, attempt>>
    BY <1>4 DEF Post
  <2>2. BatchLeft = Len(batch) + 2 * (DefaultRetries - attempt) + 3
        /\ BatchLeft' = Len(batch) + 2 * (DefaultRetries - attempt) + 2
    BY <2>1, Sizes DEF BatchLeft
  <2>3. BatchLeft' \in Nat /\ BatchLeft' < BatchLeft /\ ~Idle
    BY <2>1, <2>2, Sizes DEF Idle
  <2> QED
    BY <2>1, <2>3, SameQueue
<1>5. CASE Accept \/ GiveUp
  <2>1. step = "react" /\ step' = "settle" /\ UNCHANGED <<queue, batch>>
    BY <1>5 DEF Accept, GiveUp, Settle
  <2>2. BatchLeft = Len(batch) + 2 * (DefaultRetries - attempt) + 2 /\ BatchLeft' = Len(batch) + 1
    BY <2>1, Sizes DEF BatchLeft
  <2>3. BatchLeft' \in Nat /\ BatchLeft' < BatchLeft /\ ~Idle
    BY <2>1, <2>2, Sizes DEF Idle
  <2> QED
    BY <2>1, <2>3, SameQueue
<1>6. CASE Retry
  <2>1. /\ step = "react" /\ step' = "post" /\ UNCHANGED <<queue, batch>>
        /\ attempt < DefaultRetries /\ attempt' = attempt + 1
    BY <1>6 DEF Retry
  <2>2. BatchLeft = Len(batch) + 2 * (DefaultRetries - attempt) + 2
        /\ BatchLeft' = Len(batch) + 2 * (DefaultRetries - (attempt + 1)) + 3
    BY <2>1, Sizes DEF BatchLeft
  <2>3. Len(batch) \in Nat /\ DefaultRetries \in Nat /\ attempt \in Nat /\ attempt < DefaultRetries
    BY <2>1, Sizes
  <2>4. BatchLeft' \in Nat /\ BatchLeft' < BatchLeft
    BY <2>2, <2>3
  <2> QED
    BY <2>1, <2>4, SameQueue DEF Idle
<1>7. CASE TaskDone
  <2>1. step = "settle" /\ batch # <<>> /\ batch \in Seq(Events) /\ UNCHANGED queue
    BY <1>7, Sizes DEF IInv, TypeOK, TaskDone
  <2>2. Len(batch) \in Nat \ {0} /\ Len(batch') = Len(batch) - 1
    BY <1>7, <2>1, TailFacts DEF TaskDone
  <2>3. step' \in {"settle", "check", "done"} /\ BatchLeft = Len(batch) + 1
    BY <1>7, <2>1, Sizes DEF TaskDone, BatchLeft
  <2>4. BatchLeft' = (IF step' = "settle" THEN Len(batch) ELSE IF step' = "check" THEN 1 ELSE 0)
    BY <2>2, <2>3 DEF BatchLeft
  <2>5. BatchLeft' \in Nat /\ BatchLeft' < BatchLeft
    BY <2>2, <2>3, <2>4
  <2> QED
    BY <2>1, <2>5, SameQueue DEF Idle
<1> QED
  BY <1>1, <1>2, <1>3, <1>4, <1>5, <1>6, <1>7 DEF Worker

LEMMA EmitAdds ==
  ASSUME IInv, NEW e \in Events, Emit(e)
  PROVE  Left' = Left + PerEvent
<1>1. Len(queue') = Len(queue) + 1 /\ UNCHANGED <<step, batch, attempt>>
  BY AppendFacts DEF IInv, TypeOK, Emit, worker
<1>2. Left' = PerEvent * (Len(queue) + 1) + BatchLeft
  BY <1>1 DEF Left, PerEvent, BatchLeft
<1> QED
  BY <1>2, BatchLeftBounds, Weights, Sizes

\* The worker is done with what is queued after so many steps of its own,
\* whatever the service answers (run, _send_batch, _with_retry).
THEOREM BoundedBacklog == Spec => BacklogFalls
<1>1. ASSUME IInv, Next PROVE WorksOff
  <2>1. Left \in Nat /\ \A e \in Events : Emit(e) => Left' = Left + PerEvent
    BY <1>1, BatchLeftBounds, EmitAdds
  <2>2. ASSUME NEW c \in Callers, Flush(c) \/ Close(c) \/ Return(c) PROVE Left' = Left
    BY <2>2 DEF Flush, Close, Join, Return, worker, Left, PerEvent, BatchLeft
  <2> QED
    BY <1>1, <2>1, <2>2, WorkerLessens DEF WorksOff
<1>2. IInv /\ [Next]_vars => [WorksOff]_vars
  BY <1>1
<1> QED
  BY <1>2, Inductive, PTL DEF Spec, BacklogFalls
============================================================================
