---------------------------- MODULE SlackPromise ----------------------------
(***************************************************************************)
(* What Slack and the users of the integration can rely on: a delivery is  *)
(* processed at most once; an event that is acknowledged has been taken    *)
(* up, and a command that is answered has been carried out, by the service *)
(* or by its predecessor before a crash; and an attempt to send a callback's  *)
(* notification begins only while its request is being handled, a bounded  *)
(* number of times, and is carried out at any later time, once, or never.  *)
(* Module SlackEvents is shown to implement it.                            *)
(***************************************************************************)
EXTENDS Naturals

CONSTANTS
  Messages,
  Deliveries,
  MaxRetries

VARIABLES
  enabled,    \* notifications are enabled
  kind,       \* kind[m]: "event", "command" or "challenge"
  handling,   \* handling[m]: deliveries being handled
  started,    \* started[m]: deliveries whose callback was called
  finished,   \* finished[m]: deliveries whose callback returned
  told,       \* messages Slack knows to be answered
  tries,      \* tries[m][d]: attempts begun to send the notification of a callback
  posted      \* posted[m][d]: how often it was posted

promiseVars == <<enabled, kind, handling, started, finished, told, tries, posted>>

Nothing == [m \in Messages |-> {}]
Never   == [m \in Messages |-> [d \in Deliveries |-> 0]]

PromiseInit ==
  /\ enabled \in BOOLEAN
  /\ kind \in [Messages -> {"event", "command", "challenge"}]
  /\ handling = Nothing /\ started = Nothing /\ finished = Nothing
  /\ told = {}
  /\ tries = Never /\ posted = Never

\* A delivery is processed once, and challenges are not processed.
Take(m, d) ==
  /\ kind[m] # "challenge" /\ d \notin started[m]
  /\ started' = [started EXCEPT ![m] = @ \union {d}]
  /\ handling' = [handling EXCEPT ![m] = @ \union {d}]
  /\ UNCHANGED <<enabled, kind, finished, told, tries, posted>>

Finish(m, d) ==
  /\ d \in started[m]
  /\ finished' = [finished EXCEPT ![m] = @ \union {d}]
  /\ UNCHANGED <<enabled, kind, handling, started, told, tries, posted>>

\* A request is answered, a command after its callback.
Answer(m, d) ==
  /\ d \in handling[m]
  /\ kind[m] = "command" => d \in finished[m]
  /\ handling' = [handling EXCEPT ![m] = @ \ {d}]
  /\ UNCHANGED <<enabled, kind, started, finished, told, tries, posted>>

Tell(m) ==
  /\ kind[m] = "event" => started[m] # {}
  /\ kind[m] = "command" => finished[m] # {}
  /\ told' = told \union {m}
  /\ UNCHANGED <<enabled, kind, handling, started, finished, tries, posted>>

Try(m, d) ==
  /\ enabled /\ d \in handling[m]
  /\ tries[m][d] < MaxRetries
  /\ tries' = [tries EXCEPT ![m][d] = @ + 1]
  /\ UNCHANGED <<enabled, kind, handling, started, finished, told, posted>>

\* An attempt may be carried out long after its request was answered, and after
\* another one was.
Post(m, d) ==
  /\ posted[m][d] < tries[m][d]
  /\ posted' = [posted EXCEPT ![m][d] = @ + 1]
  /\ UNCHANGED <<enabled, kind, handling, started, finished, told, tries>>

Crash ==
  /\ handling' = Nothing
  /\ UNCHANGED <<enabled, kind, started, finished, told, tries, posted>>

PromiseNext ==
  \/ \E m \in Messages : Tell(m)
  \/ \E m \in Messages, d \in Deliveries :
       Take(m, d) \/ Finish(m, d) \/ Answer(m, d) \/ Try(m, d) \/ Post(m, d)
  \/ Crash

PromiseSpec == PromiseInit /\ [][PromiseNext]_promiseVars
=============================================================================
