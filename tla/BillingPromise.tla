--------------------------- MODULE BillingPromise ---------------------------
(***************************************************************************)
(* What the billing SDK promises the programs that emit usage events in    *)
(* the background: an event that was emitted is settled once, it is only   *)
(* taken for delivered if the billing service has it, and a flush that     *)
(* returns has seen every event emitted before it settled.                 *)
(* Module BillingWorker is shown to implement this specification.          *)
(***************************************************************************)
CONSTANTS
  Events,    \* usage events
  Callers    \* threads that flush and close

VARIABLES
  fate,      \* fate[e]: "new", "queued", "delivered" or "dropped"
  stored,    \* events the billing service has
  waiting,   \* waiting[c]: caller c is in flush or close
  owed       \* owed[c]: events that were queued when it last called

promiseVars == <<fate, stored, waiting, owed>>

Queued == {e \in Events : fate[e] = "queued"}

PromiseInit ==
  /\ fate = [e \in Events |-> "new"]
  /\ stored = {}
  /\ waiting = [c \in Callers |-> FALSE]
  /\ owed = [c \in Callers |-> {}]

EmitEvent(e) ==
  /\ fate[e] = "new"
  /\ fate' = [fate EXCEPT ![e] = "queued"]
  /\ UNCHANGED <<stored, waiting, owed>>

\* The service may have an event long before it is known to be delivered, and
\* also if it is dropped in the end.
Store(S) ==
  /\ stored' = stored \union S
  /\ UNCHANGED <<fate, waiting, owed>>

Settle(S, outcome) ==
  /\ outcome = "delivered" => S \subseteq stored
  /\ fate' = [e \in Events |-> IF e \in S THEN outcome ELSE fate[e]]
  /\ UNCHANGED <<stored, waiting, owed>>

Call(c) ==
  /\ ~waiting[c]
  /\ waiting' = [waiting EXCEPT ![c] = TRUE]
  /\ owed' = [owed EXCEPT ![c] = Queued]
  /\ UNCHANGED <<fate, stored>>

Answer(c) ==
  /\ waiting[c]
  /\ \A e \in owed[c] : fate[e] \in {"delivered", "dropped"}
  /\ waiting' = [waiting EXCEPT ![c] = FALSE]
  /\ UNCHANGED <<fate, stored, owed>>

PromiseNext ==
  \/ \E e \in Events : EmitEvent(e)
  \/ \E S \in SUBSET Queued : Store(S) \/ \E o \in {"delivered", "dropped"} : Settle(S, o)
  \/ \E c \in Callers : Call(c) \/ Answer(c)

PromiseSpec == PromiseInit /\ [][PromiseNext]_promiseVars
=============================================================================
