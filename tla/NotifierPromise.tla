-------------------------- MODULE NotifierPromise --------------------------
(***************************************************************************)
(* What the Slack and Discord notifiers promise about a message: it is     *)
(* tried a bounded number of times, each try posts it at most once, now or *)
(* later, and "sent" is only reported of a message that has been posted.   *)
(* Module Notifier is shown to implement this specification.               *)
(***************************************************************************)
EXTENDS Naturals

CONSTANTS
  Messages,   \* notifications
  MaxTries    \* how often one is tried

VARIABLES
  outcome,    \* outcome[m]: "open", "sent" or "dropped"
  tries,      \* tries[m]: requests that have left
  posted      \* posted[m]: how often the service has posted the message

promiseVars == <<outcome, tries, posted>>

PromiseInit ==
  /\ outcome = [m \in Messages |-> "open"]
  /\ tries = [m \in Messages |-> 0]
  /\ posted = [m \in Messages |-> 0]

Try(m) ==
  /\ outcome[m] = "open"
  /\ tries[m] < MaxTries
  /\ tries' = [tries EXCEPT ![m] = @ + 1]
  /\ UNCHANGED <<outcome, posted>>

\* The service posts the message, perhaps long after the try was given up.
Post(m) ==
  /\ posted[m] < tries[m]
  /\ posted' = [posted EXCEPT ![m] = @ + 1]
  /\ UNCHANGED <<outcome, tries>>

Report(m) ==
  /\ outcome[m] = "open"
  /\ posted[m] > 0
  /\ outcome' = [outcome EXCEPT ![m] = "sent"]
  /\ UNCHANGED <<tries, posted>>

Drop(m) ==
  /\ outcome[m] = "open"
  /\ outcome' = [outcome EXCEPT ![m] = "dropped"]
  /\ UNCHANGED <<tries, posted>>

PromiseNext == \E m \in Messages : Try(m) \/ Post(m) \/ Report(m) \/ Drop(m)

PromiseSpec == PromiseInit /\ [][PromiseNext]_promiseVars
=============================================================================
