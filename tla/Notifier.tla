----------------------------- MODULE Notifier ------------------------------
(***************************************************************************)
(* The Slack and Discord notifiers                                         *)
(* (orcastackapi/internal/platform/slack/notifier.go and                   *)
(* orcastackapi/internal/platform/discord/webhook.go, which retry alike).  *)
(*                                                                         *)
(* SendAsync starts a goroutine that posts the message, up to MaxRetries   *)
(* times with a pause after each failure, and stops early when the context *)
(* of the caller is done.  The service and the network are external: a     *)
(* request may be lost, refused, or carried out while its answer is lost   *)
(* or comes after the client stopped waiting.  The client's ten second     *)
(* timeout ends every request.                                             *)
(*                                                                         *)
(* A client that is not enabled sends nothing and is left out, and so is a *)
(* message that cannot be marshalled, which none of the events is.  The    *)
(* services are taken to answer as they document, with a status other than *)
(* 200 (or 204), or with ok false and the error.                           *)
(***************************************************************************)
EXTENDS Naturals

CONSTANTS
  Messages,    \* notifications
  MaxRetries   \* maxRetries, three for both clients: attempts, the first included

ASSUME RetriesAssumption == MaxRetries \in Nat \ {0}

Outcomes == {"sent", "cancelled", "failed"}
Steps    == {"new", "check", "request", "backoff"} \union Outcomes

\* The request a sender is waiting for: not out yet, on its way, or judged.
Flights == {"none", "travelling", "posted", "refused"}

\* The caller's context: never done, not done yet, or done.
Contexts == {"background", "open", "done"}

VARIABLES
  ctx,      \* ctx[m]: the context SendAsync was given
  step,     \* step[m]: what the goroutine that sends m does next, or its outcome
  made,     \* made[m]: attempts that have failed
  flight,   \* flight[m]: the request it is waiting for
  late,     \* late[m]: requests on their way whose sender does not wait any more
  posted,   \* posted[m]: how often the service has posted m
  \* For the properties only:
  tries,    \* tries[m]: requests that have left
  lost      \* lost[m]: requests that were on their way or posted when given up

vars == <<ctx, step, made, flight, late, posted, tries, lost>>

Init ==
  /\ ctx \in [Messages -> {"background", "open"}]
  /\ step = [m \in Messages |-> "new"]
  /\ made = [m \in Messages |-> 0]
  /\ flight = [m \in Messages |-> "none"]
  /\ late = [m \in Messages |-> 0]
  /\ posted = [m \in Messages |-> 0]
  /\ tries = [m \in Messages |-> 0]
  /\ lost = [m \in Messages |-> 0]

---------------------------------------------------------------------------
(* The caller                                                              *)

\* SendAsync starts the goroutine; Send runs the same loop for its caller.
SendAsync(m) ==
  /\ step[m] = "new"
  /\ step' = [step EXCEPT ![m] = "check"]
  /\ UNCHANGED <<ctx, made, flight, late, posted, tries, lost>>

\* The context of a request is done when its handler returns, which is what the
\* handlers that call SendAsync do next, or when the client goes away.
CallerReturns(m) ==
  /\ ctx[m] = "open"
  /\ ctx' = [ctx EXCEPT ![m] = "done"]
  /\ UNCHANGED <<step, made, flight, late, posted, tries, lost>>

---------------------------------------------------------------------------
(* The loop of send                                                        *)

\* Mutant: the select has no default, and waits for the context.
CheckContextBlocking(m) ==
  /\ step[m] = "check"
  /\ ctx[m] = "done"
  /\ step' = [step EXCEPT ![m] = "cancelled"]
  /\ UNCHANGED <<ctx, made, flight, late, posted, tries, lost>>

\* The context is looked at before each attempt.
CheckContext(m) ==
  /\ step[m] = "check"
  /\ step' = [step EXCEPT ![m] = IF ctx[m] = "done" THEN "cancelled" ELSE "request"]
  /\ UNCHANGED <<ctx, made, flight, late, posted, tries, lost>>

\* sendRequest; a request whose context is done does not leave.
Transmit(m) ==
  /\ step[m] = "request"
  /\ flight[m] = "none"
  /\ ctx[m] # "done"
  /\ flight' = [flight EXCEPT ![m] = "travelling"]
  /\ tries' = [tries EXCEPT ![m] = @ + 1]
  /\ UNCHANGED <<ctx, step, made, late, posted, lost>>

\* Mutants: a success does not end the loop, or a refusal does.
SucceedAgain(m) ==
  /\ step[m] = "request"
  /\ flight[m] = "posted"
  /\ step' = [step EXCEPT ![m] = "check"]
  /\ flight' = [flight EXCEPT ![m] = "none"]
  /\ UNCHANGED <<ctx, made, late, posted, tries, lost>>
SucceedAnyStatus(m) ==
  /\ step[m] = "request"
  /\ flight[m] \in {"posted", "refused"}
  /\ step' = [step EXCEPT ![m] = "sent"]
  /\ flight' = [flight EXCEPT ![m] = "none"]
  /\ UNCHANGED <<ctx, made, late, posted, tries, lost>>

Succeed(m) ==
  /\ step[m] = "request"
  /\ flight[m] = "posted"
  /\ step' = [step EXCEPT ![m] = "sent"]
  /\ flight' = [flight EXCEPT ![m] = "none"]
  /\ UNCHANGED <<ctx, made, late, posted, tries, lost>>

\* Mutant: the last attempt is not counted as one.
AfterFailureOneMore(m) == IF made[m] + 1 <= MaxRetries THEN "backoff" ELSE "failed"

\* The pause is left out after the last attempt.
AfterFailure(m) == IF made[m] + 1 < MaxRetries THEN "backoff" ELSE "failed"

\* An error, from the service or on the way, or the timeout, or the context.
AttemptFails(m) ==
  /\ step[m] = "request"
  /\ step' = [step EXCEPT ![m] = AfterFailure(m)]
  /\ made' = [made EXCEPT ![m] = @ + 1]
  /\ late' = [late EXCEPT ![m] = IF flight[m] = "travelling" THEN @ + 1 ELSE @]
  /\ lost' = [lost EXCEPT ![m] = IF flight[m] \in {"travelling", "posted"} THEN @ + 1 ELSE @]
  /\ flight' = [flight EXCEPT ![m] = "none"]
  /\ UNCHANGED <<ctx, posted, tries>>

\* The timer of the backoff fires, or the context is done first.
Wake(m) ==
  /\ step[m] = "backoff"
  /\ step' = [step EXCEPT ![m] = "check"]
  /\ UNCHANGED <<ctx, made, flight, late, posted, tries, lost>>

Interrupt(m) ==
  /\ step[m] = "backoff"
  /\ ctx[m] = "done"
  /\ step' = [step EXCEPT ![m] = "cancelled"]
  /\ UNCHANGED <<ctx, made, flight, late, posted, tries, lost>>

---------------------------------------------------------------------------
(* The service                                                             *)

Judge(m) ==
  /\ flight[m] = "travelling"
  /\ \/ /\ flight' = [flight EXCEPT ![m] = "posted"]
        /\ posted' = [posted EXCEPT ![m] = @ + 1]
     \/ /\ flight' = [flight EXCEPT ![m] = "refused"]
        /\ UNCHANGED posted
  /\ UNCHANGED <<ctx, step, made, late, tries, lost>>

\* A request nobody waits for arrives, or does not.
JudgeLate(m) ==
  /\ late[m] > 0
  /\ late' = [late EXCEPT ![m] = @ - 1]
  /\ posted' = [posted EXCEPT ![m] = @ + 1] \/ UNCHANGED posted
  /\ UNCHANGED <<ctx, step, made, flight, tries, lost>>

Sender(m) ==
  CheckContext(m) \/ Transmit(m) \/ Succeed(m) \/ AttemptFails(m) \/ Wake(m) \/ Interrupt(m)

Next ==
  \E m \in Messages :
    SendAsync(m) \/ CallerReturns(m) \/ Sender(m) \/ Judge(m) \/ JudgeLate(m)

\* The runtime schedules the goroutine, the timer fires, and the timeout ends a
\* request nobody answers; neither callers nor services owe anything.
Fairness == \A m \in Messages : WF_vars(Sender(m))

Spec == Init /\ [][Next]_vars /\ Fairness

---------------------------------------------------------------------------
(* Properties                                                              *)

\* Every variable keeps its type: in particular no message is tried more than
\* MaxRetries times, the first attempt included (send).  The documents promise
\* one attempt more: "Attempt 4: 4 second delay (max 3 retries total)"
\* (Documents/integrations/discord.md:437).
TypeOK ==
  /\ ctx \in [Messages -> Contexts]
  /\ step \in [Messages -> Steps]
  /\ made \in [Messages -> 0 .. MaxRetries]
  /\ flight \in [Messages -> Flights]
  /\ late \in [Messages -> 0 .. MaxRetries]
  /\ posted \in [Messages -> 0 .. MaxRetries]
  /\ tries \in [Messages -> 0 .. MaxRetries]
  /\ lost \in [Messages -> 0 .. MaxRetries]

\* A message that is posted twice is one whose answer was lost or came too
\* late: no attempt follows an answer that said it was posted (send,
\* sendRequest).
DuplicatesAreLost ==
  \A m \in Messages :
    posted[m] <= lost[m] + (IF step[m] = "sent" \/ flight[m] = "posted" THEN 1 ELSE 0)

\* Every send ends, whatever the service does: attempts, pauses and waits are
\* all bounded (send, http.Client.Timeout).
Ends == \A m \in Messages : step[m] = "check" ~> step[m] \in Outcomes

\* No message is tried more than MaxRetries times, posted more often than it is
\* tried, or reported sent without having been posted: module NotifierPromise.
Outcome(m) ==
  CASE step[m] = "sent" -> "sent"
    [] step[m] \in {"cancelled", "failed"} -> "dropped"
    [] OTHER -> "open"

Promise == INSTANCE NotifierPromise WITH
  MaxTries <- MaxRetries, outcome <- [m \in Messages |-> Outcome(m)]

KeepsPromise == Promise!PromiseSpec

---------------------------------------------------------------------------
(* The inductive invariant behind the safety properties                    *)

Counted(m) ==
  /\ step[m] \in {"new", "check", "request", "backoff"} => made[m] < MaxRetries
  /\ step[m] # "request" => flight[m] = "none"
  /\ step[m] = "new" => made[m] = 0
  /\ tries[m] <= made[m] + (IF flight[m] # "none" \/ step[m] = "sent" THEN 1 ELSE 0)
  /\ step[m] = "sent" => made[m] < MaxRetries /\ posted[m] > 0
  /\ flight[m] = "posted" => posted[m] > 0
  /\ posted[m] + late[m] <= lost[m] + (IF step[m] = "sent" \/ flight[m] = "posted" THEN 1 ELSE 0)
  /\ posted[m] + late[m] + (IF flight[m] = "travelling" THEN 1 ELSE 0) <= tries[m]
  /\ lost[m] <= made[m]

IInv == TypeOK /\ \A m \in Messages : Counted(m)
=============================================================================
