-------------------------- MODULE AccountPromise --------------------------
(***************************************************************************)
(* What the account subsystem of the gateway promises, without handlers,   *)
(* tables or statements: an account is enrolled once, its standing changes *)
(* only by a verdict, and a session is opened, under a token never used    *)
(* before, only for somebody who has been admitted.  Module Accounts is    *)
(* shown to implement this specification.                                  *)
(***************************************************************************)
CONSTANTS
  Ids,         \* account identities
  Directory,   \* the holder of a session the external directory vouches for
  NoOne,       \* the holder of a token with no session
  Tokens       \* bearer tokens

VARIABLES
  standing,    \* standing[id]: "none" before enrolment, then the account's status
  admitted,    \* the ids that have been approved at some time
  holder,      \* holder[t]: whose session token t opens now
  spent        \* the tokens handed out so far

promiseVars == <<standing, admitted, holder, spent>>

Standings == {"none", "pending_review", "approved", "rejected"}

PromiseTypeOK ==
  /\ standing \in [Ids -> Standings]
  /\ admitted \subseteq Ids
  /\ holder \in [Tokens -> Ids \union {Directory, NoOne}]
  /\ spent \subseteq Tokens

PromiseInit ==
  /\ standing = [id \in Ids |-> "none"]
  /\ admitted = {}
  /\ holder = [t \in Tokens |-> NoOne]
  /\ spent = {}

\* The approved are admitted; being rejected later does not undo it.
Stand(id, status) ==
  /\ standing' = [standing EXCEPT ![id] = status]
  /\ admitted' = IF status = "approved" THEN admitted \union {id} ELSE admitted

Enrol(id) ==
  /\ standing[id] = "none"
  /\ \E status \in {"pending_review", "approved"} : Stand(id, status)
  /\ UNCHANGED <<holder, spent>>

Decide(id) ==
  /\ standing[id] # "none"
  /\ \E verdict \in {"approved", "rejected"} : Stand(id, verdict)
  /\ UNCHANGED <<holder, spent>>

OpenSession(t) ==
  /\ t \notin spent
  /\ \E who \in admitted \union {Directory} : holder' = [holder EXCEPT ![t] = who]
  /\ spent' = spent \union {t}
  /\ UNCHANGED <<standing, admitted>>

CloseSessions(closed) ==
  /\ holder' = [t \in Tokens |-> IF t \in closed THEN NoOne ELSE holder[t]]
  /\ UNCHANGED <<standing, admitted, spent>>

PromiseNext ==
  \/ \E id \in Ids : Enrol(id) \/ Decide(id)
  \/ \E t \in Tokens : OpenSession(t)
  \/ \E closed \in SUBSET Tokens : CloseSessions(closed)

PromiseSpec == PromiseInit /\ [][PromiseNext]_promiseVars
===========================================================================
