--------------------------- MODULE ServicePromise ---------------------------
(***************************************************************************)
(* What the harness promises those who call a service and those who run    *)
(* it: a call is accepted only while the service is not being drained, a   *)
(* request until the calls are done; a process that is drained answers     *)
(* every call, and cuts requests only with an error; and only a process    *)
(* that was killed, or that never served, ends without being drained.      *)
(* Module ServiceLifecycle is shown to implement it.                       *)
(***************************************************************************)
CONSTANTS
  Requests,
  Calls

VARIABLES
  stage,       \* "down", "up", "draining" or "closing"
  request,     \* request[q]: an HTTP request
  call,        \* call[c]: a gRPC call
  status       \* how the last process ended

promiseVars == <<stage, request, call, status>>

Busy(c) == call[c] \in {"check", "watch"}

PromiseInit ==
  /\ stage = "down"
  /\ request = [q \in Requests |-> "none"]
  /\ call = [c \in Calls |-> "none"]
  /\ status = "none"

Begin == stage = "down" /\ stage' = "up" /\ UNCHANGED <<request, call, status>>

\* Calls are finished before requests are.
BeginDrain == stage = "up" /\ stage' = "draining" /\ UNCHANGED <<request, call, status>>

BeginClose ==
  /\ stage = "draining" /\ \A c \in Calls : ~Busy(c)
  /\ stage' = "closing"
  /\ UNCHANGED <<request, call, status>>

AcceptRequest(q) ==
  /\ stage \in {"up", "draining"} /\ request[q] # "open"
  /\ request' = [request EXCEPT ![q] = "open"]
  /\ UNCHANGED <<stage, call, status>>

AcceptCall(c, kind) ==
  /\ stage = "up" /\ ~Busy(c)
  /\ call' = [call EXCEPT ![c] = kind]
  /\ UNCHANGED <<stage, request, status>>

AnswerRequest(q) ==
  /\ request[q] = "open"
  /\ request' = [request EXCEPT ![q] = "answered"]
  /\ UNCHANGED <<stage, call, status>>

EndCall(c) ==
  /\ Busy(c)
  /\ call' = [call EXCEPT ![c] = "answered"]
  /\ UNCHANGED <<stage, request, status>>

Cut ==
  /\ request' = [q \in Requests |-> IF request[q] = "open" THEN "cut" ELSE request[q]]
  /\ call' = [c \in Calls |-> IF Busy(c) THEN "cut" ELSE call[c]]

\* What ends well has nothing left to do, what ends with an error has no call
\* left, and anything may be lost with a process that is killed.
End ==
  /\ stage # "down" /\ stage' = "down"
  /\ \/ stage = "closing" /\ status' = "ok" /\ UNCHANGED <<request, call>>
     \/ stage = "closing" /\ status' = "error" /\ UNCHANGED call /\ Cut
     \/ stage = "up" /\ status' = "error" /\ UNCHANGED <<request, call>>
     \/ status' = "killed" /\ Cut

\* The service is ordered to run once more.
Forget == stage = "down" /\ status' = "none" /\ UNCHANGED <<stage, request, call>>

PromiseNext ==
  \/ Begin \/ BeginDrain \/ BeginClose \/ End \/ Forget
  \/ \E q \in Requests : AcceptRequest(q) \/ AnswerRequest(q)
  \/ \E c \in Calls : AcceptCall(c, "check") \/ AcceptCall(c, "watch") \/ EndCall(c)

PromiseSpec == PromiseInit /\ [][PromiseNext]_promiseVars
=============================================================================
