------------------------- MODULE RepositoryPromise -------------------------
(***************************************************************************)
(* What the repository store of the gateway promises about a name: it is   *)
(* free, or reserved by one request that is making the repository, or      *)
(* served; a repository that is served is served for ever, under what the  *)
(* request that made it was answered.  The promise is void for a name two  *)
(* requests have found free at the same time.  Module RepositoryStore is   *)
(* shown to implement this specification.                                  *)
(***************************************************************************)
CONSTANTS
  Names,      \* repository names
  Metadata,   \* what a repository is described by
  None        \* the description of a repository nobody has been answered about

VARIABLES
  phase,      \* phase[n]: "free", "reserved", "served" or "void"
  described   \* described[n]: what the answer to its creation said

promiseVars == <<phase, described>>

PromiseInit ==
  /\ phase = [n \in Names |-> "free"]
  /\ described = [n \in Names |-> None]

Reserve(n) ==
  /\ phase[n] = "free"
  /\ phase' = [phase EXCEPT ![n] = "reserved"]
  /\ UNCHANGED described

Release(n) ==
  /\ phase[n] = "reserved"
  /\ phase' = [phase EXCEPT ![n] = "free"]
  /\ UNCHANGED described

Serve(n, m) ==
  /\ phase[n] = "reserved"
  /\ phase' = [phase EXCEPT ![n] = "served"]
  /\ described' = [described EXCEPT ![n] = m]

Void(n) ==
  /\ phase[n] \in {"free", "reserved"}
  /\ phase' = [phase EXCEPT ![n] = "void"]
  /\ UNCHANGED described

\* A crash drops several requests at once.
ReleaseAll(dropped) ==
  /\ \A n \in dropped : phase[n] = "reserved"
  /\ phase' = [n \in Names |-> IF n \in dropped THEN "free" ELSE phase[n]]
  /\ UNCHANGED described

PromiseNext ==
  \/ \E n \in Names : Reserve(n) \/ Release(n) \/ Void(n)
  \/ \E n \in Names, m \in Metadata : Serve(n, m)
  \/ \E dropped \in SUBSET Names : ReleaseAll(dropped)

PromiseSpec == PromiseInit /\ [][PromiseNext]_promiseVars
=============================================================================
