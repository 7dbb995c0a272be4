--------------------------- MODULE BillingWorker ---------------------------
(***************************************************************************)
(* The background mode of the Python billing SDK (sdk/python/              *)
(* billing_sdk.py).                                                        *)
(*                                                                         *)
(* Any thread may emit an event: it is put into a queue.Queue.  One worker *)
(* thread takes events out in batches, posts each batch to the billing     *)
(* service, with retries, and marks its events as done.  flush waits until *)
(* the queue has no unfinished task; close asks the worker to stop, which  *)
(* makes it drain the queue once, and then waits as flush does.            *)
(*                                                                         *)
(* The billing service and the network are external: a request that fails  *)
(* may have been carried out.  Every request ends, by its timeout at the   *)
(* latest, and so does every pause between two attempts.  Events that are  *)
(* not valid are refused by emit at once and left out.  A program that     *)
(* ends without calling close takes the daemon thread with it; that is not *)
(* modelled.                                                               *)
(***************************************************************************)
EXTENDS Naturals, Sequences, Functions

CONSTANTS
  Events,          \* usage events that are emitted
  Callers,         \* threads that flush and close
  BatchSize,       \* most events in a batch of the running worker
  DefaultRetries,  \* attempts after the first, if nothing else is asked for: four
  MaxRetries       \* max_retries, which the program may ask for

ASSUME WorkerAssumption ==
  BatchSize \in Nat \ {0} /\ DefaultRetries \in Nat /\ MaxRetries \in Nat

\* A status below 300; 400 to 499; any other status; none that could be read
\* (no connection, a timeout, an answer that is not JSON).
Answers == {"accepted", "refused", "error", "none"}

Fates == {"new", "queued", "delivered", "dropped"}
Steps == {"check", "collect", "post", "react", "settle", "done"}

VARIABLES
  queue,       \* the queue
  unfinished,  \* its unfinished_tasks
  stopping,    \* _stop_event
  step,        \* what the worker does next
  draining,    \* the worker has left its loop and drains the queue
  batch,       \* the events it has taken and not yet marked as done
  attempt,     \* the retries of the current batch
  answer,      \* how its last request ended
  waiting,     \* waiting[c]: caller c is in flush or close
  \* For the properties only:
  fate,        \* fate[e]: what has become of event e
  stored,      \* events the billing service has
  late,        \* events emitted after the worker was asked to stop
  owed         \* owed[c]: events that were queued when c last called

worker  == <<step, draining, batch, attempt, answer>>
history == <<fate, stored, late, owed>>
vars    == <<queue, unfinished, stopping, worker, waiting, history>>

Init ==
  /\ queue = <<>>
  /\ unfinished = 0
  /\ stopping = FALSE
  /\ step = "check"
  /\ draining = FALSE
  /\ batch = <<>>
  /\ attempt = 0
  /\ answer = "none"
  /\ waiting = [c \in Callers |-> FALSE]
  /\ fate = [e \in Events |-> "new"]
  /\ stored = {}
  /\ late = {}
  /\ owed = [c \in Callers |-> {}]

Queued == {e \in Events : fate[e] = "queued"}

---------------------------------------------------------------------------
(* The threads of the program                                              *)

\* emit, also after close: nothing looks at whether the worker still runs.
Emit(e) ==
  /\ fate[e] = "new"
  /\ queue' = Append(queue, e)
  /\ unfinished' = unfinished + 1
  /\ fate' = [fate EXCEPT ![e] = "queued"]
  /\ late' = IF stopping THEN late \union {e} ELSE late
  /\ UNCHANGED <<stopping, worker, waiting, stored, owed>>

\* Both join the queue.
Join(c) ==
  /\ ~waiting[c]
  /\ waiting' = [waiting EXCEPT ![c] = TRUE]
  /\ owed' = [owed EXCEPT ![c] = Queued]
  /\ UNCHANGED <<queue, unfinished, worker, fate, stored, late>>

Flush(c) == Join(c) /\ UNCHANGED stopping
Close(c) == Join(c) /\ stopping' = TRUE

Return(c) ==
  /\ waiting[c]
  /\ unfinished = 0
  /\ waiting' = [waiting EXCEPT ![c] = FALSE]
  /\ UNCHANGED <<queue, unfinished, stopping, worker, history>>

---------------------------------------------------------------------------
(* _AsyncWorker.run                                                        *)

\* Mutant: the queue is not drained.
CheckStopAndLeave ==
  /\ step = "check"
  /\ step' = IF stopping THEN "done" ELSE "collect"
  /\ draining' = stopping
  /\ UNCHANGED <<queue, unfinished, stopping, batch, attempt, answer, waiting, history>>

\* The stop event is looked at between two batches only.
CheckStop ==
  /\ step = "check"
  /\ step' = "collect"
  /\ draining' = stopping
  /\ UNCHANGED <<queue, unfinished, stopping, batch, attempt, answer, waiting, history>>

\* Mutant: an event is done as soon as it is taken.
TakeAndFinish ==
  /\ step = "collect"
  /\ queue # <<>>
  /\ draining \/ Len(batch) < BatchSize
  /\ batch' = Append(batch, Head(queue))
  /\ queue' = Tail(queue)
  /\ unfinished' = unfinished - 1
  /\ UNCHANGED <<stopping, step, draining, attempt, answer, waiting, history>>

\* One get; the drain takes all there is, whatever the size of a batch.
Take ==
  /\ step = "collect"
  /\ queue # <<>>
  /\ draining \/ Len(batch) < BatchSize
  /\ batch' = Append(batch, Head(queue))
  /\ queue' = Tail(queue)
  /\ UNCHANGED <<unfinished, stopping, step, draining, attempt, answer, waiting, history>>

\* A batch ends when it is full or its interval is over, which it is without
\* an event only if the queue was empty; the drain ends with the queue.
EndBatch ==
  /\ step = "collect"
  /\ draining \/ batch = <<>> => queue = <<>>
  /\ step' = IF batch # <<>> THEN "post" ELSE IF draining THEN "done" ELSE "check"
  /\ UNCHANGED <<queue, unfinished, stopping, draining, batch, attempt, answer, waiting, history>>

---------------------------------------------------------------------------
(* _send_batch and _with_retry                                             *)

\* The service stores a batch it accepts, does not store one it refuses, and
\* may or may not have stored one whose request failed in another way.
Post ==
  /\ step = "post"
  /\ step' = "react"
  /\ \E a \in Answers :
       /\ answer' = a
       /\ \/ a # "refused" /\ stored' = stored \union Range(batch)
          \/ a # "accepted" /\ UNCHANGED stored
  /\ UNCHANGED <<queue, unfinished, stopping, draining, batch, attempt, waiting, fate, late, owed>>

\* The attempts and the answer are local to _with_retry.
Settle(outcome) ==
  /\ step' = "settle"
  /\ attempt' = 0
  /\ answer' = "none"
  /\ fate' = [e \in Events |-> IF e \in Range(batch) THEN outcome ELSE fate[e]]
  /\ UNCHANGED <<queue, unfinished, stopping, draining, batch, waiting, stored, late, owed>>

\* Mutant: the status of the answer is not looked at.
AcceptAnyStatus ==
  /\ step = "react"
  /\ answer # "none"
  /\ Settle("delivered")

Accept ==
  /\ step = "react"
  /\ answer = "accepted"
  /\ Settle("delivered")

\* Mutant: the last retry is followed by another.
RetryOnceMore ==
  /\ step = "react"
  /\ answer = "error"
  /\ attempt <= DefaultRetries
  /\ step' = "post"
  /\ attempt' = attempt + 1
  /\ answer' = "none"
  /\ UNCHANGED <<queue, unfinished, stopping, draining, batch, waiting, history>>

\* Only an answer with a status is a RuntimeError, which is what is caught.  The
\* worker is not told max_retries, and retries as often as is the default.
Retry ==
  /\ step = "react"
  /\ answer = "error"
  /\ attempt < DefaultRetries
  /\ step' = "post"
  /\ attempt' = attempt + 1
  /\ answer' = "none"
  /\ UNCHANGED <<queue, unfinished, stopping, draining, batch, waiting, history>>

\* Mutant: the events of a batch that failed are not marked as done.
GiveUpUnmarked ==
  /\ step = "react"
  /\ \/ answer \in {"refused", "none"}
     \/ answer = "error" /\ attempt = DefaultRetries
  /\ step' = IF draining THEN "done" ELSE "check"
  /\ batch' = <<>>
  /\ attempt' = 0
  /\ answer' = "none"
  /\ fate' = [e \in Events |-> IF e \in Range(batch) THEN "dropped" ELSE fate[e]]
  /\ UNCHANGED <<queue, unfinished, stopping, draining, waiting, stored, late, owed>>

\* Any other exception leaves _with_retry at once; _send_batch logs it.
GiveUp ==
  /\ step = "react"
  /\ \/ answer \in {"refused", "none"}
     \/ answer = "error" /\ attempt = DefaultRetries
  /\ Settle("dropped")

\* The finally clause: one task_done for each event, delivered or not.
TaskDone ==
  /\ step = "settle"
  /\ batch' = Tail(batch)
  /\ unfinished' = unfinished - 1
  /\ step' = IF Len(batch) > 1 THEN "settle" ELSE IF draining THEN "done" ELSE "check"
  /\ UNCHANGED <<queue, stopping, draining, attempt, answer, waiting, history>>

Worker ==
  CheckStop \/ Take \/ EndBatch \/ Post \/ Accept \/ Retry \/ GiveUp \/ TaskDone

Next ==
  \/ \E e \in Events : Emit(e)
  \/ \E c \in Callers : Flush(c) \/ Close(c) \/ Return(c)
  \/ Worker

\* The worker's thread runs while it can, and join wakes up its callers.
Fairness == WF_vars(Worker) /\ \A c \in Callers : WF_vars(Return(c))

Spec == Init /\ [][Next]_vars /\ Fairness

---------------------------------------------------------------------------
(* Properties                                                              *)

\* Every variable keeps its type: in particular no batch is retried more than
\* DefaultRetries times.  That is not max_retries, as the program is told
\* (billing_sdk.py:235): _send_batch does not pass it on.
TypeOK ==
  /\ queue \in Seq(Events)
  /\ unfinished \in Nat
  /\ stopping \in BOOLEAN
  /\ step \in Steps
  /\ draining \in BOOLEAN
  /\ batch \in Seq(Events)
  /\ attempt \in 0 .. DefaultRetries
  /\ answer \in Answers
  /\ waiting \in [Callers -> BOOLEAN]
  /\ fate \in [Events -> Fates]
  /\ stored \subseteq Events
  /\ late \subseteq Events
  /\ owed \in [Callers -> SUBSET Events]

Settled(e) == fate[e] \in {"delivered", "dropped"}

\* A flush or close that has returned has seen every event that was queued
\* when it was called delivered or given up: none was still in the queue, in
\* the worker's hands, or between two attempts (Queue.join, task_done).
FlushSettles ==
  \A c \in Callers : ~waiting[c] => \A e \in owed[c] : Settled(e)

\* What is left in the queue when the worker has ended was emitted after the
\* worker was asked to stop: stopping loses nothing that came before it, however
\* the two overlap (stop, run).
StrandedAreLate == step = "done" => Range(queue) \subseteq late

\* Every event that was emitted before the worker was asked to stop is
\* delivered or given up in the end (run, _with_retry).
Settles ==
  \A e \in Events : (fate[e] = "queued" /\ e \notin late) ~> Settled(e)

\* Every flush and close returns, unless an event has come too late for the
\* worker: then nothing ever takes it out of the queue, and they wait for ever
\* (enqueue, run, Queue.join).
Stranded == step = "done" /\ queue # <<>>

FlushEnds == \A c \in Callers : waiting[c] ~> (~waiting[c] \/ Stranded)

\* The SDK keeps the promise of module BillingPromise.
Promise == INSTANCE BillingPromise

KeepsPromise == Promise!PromiseSpec

\* "max_retries: Retry attempts on transient failures (default 4)"
\* (billing_sdk.py:235): a batch is given up after a failure that was not the
\* caller's only when all attempts have been made.
GivingUp == step = "react" /\ step' = "settle" /\ answer # "accepted"

TransientRetried == [][GivingUp /\ answer # "refused" => attempt = MaxRetries]_vars

---------------------------------------------------------------------------
(* The inductive invariant behind the safety properties                    *)

\* The queue counts what is in it and in the worker's hands.
Accounted == unfinished = Len(queue) + Len(batch)

\* The worker has a batch while it works on one, and leaves its loop to stop.
Working ==
  /\ step \in {"check", "done"} => batch = <<>>
  /\ step \in {"post", "react", "settle"} => batch # <<>>
  /\ draining => stopping
  /\ step = "done" => draining
  /\ step = "react" /\ answer = "accepted" => Range(batch) \subseteq stored

\* An event is queued while it is in the queue, once, or in a batch whose fate
\* is open, and not in both.
Unsettled == IF step = "settle" THEN {} ELSE Range(batch)

Queueing ==
  /\ IsInjective(queue)
  /\ Range(queue) \intersect Unsettled = {}
  /\ Queued = Range(queue) \union Unsettled

\* The drain ends with an empty queue; what comes afterwards comes late.
Drained ==
  draining /\ step \in {"post", "react", "settle", "done"} => Range(queue) \subseteq late

\* A caller waits for what has been emitted.
Owing ==
  \A c \in Callers : \A e \in owed[c] : fate[e] # "new" /\ (~waiting[c] => Settled(e))

IInv ==
  /\ TypeOK
  /\ Accounted
  /\ Working
  /\ Queueing
  /\ Drained
  /\ Owing
=============================================================================
