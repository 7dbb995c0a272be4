-------------------------- MODULE DirectoryPolicy --------------------------
(***************************************************************************)
(* The directory policy every service enforces before it starts            *)
(* (orcastackapi/internal/platform/security), for the replicas of one      *)
(* component.                                                              *)
(*                                                                         *)
(* A replica that starts looks up the entries of its repository and of its *)
(* component, adds those it does not find if auto-registration is on,      *)
(* registers the identity of its process, which is new with every start,   *)
(* and looks for the role.  Any failure ends the process, and whatever     *)
(* supervises it starts it again.  Replicas share the directory, and so do *)
(* its operators, who register identities under names of their own, remove *)
(* entries and grant and revoke the role.                                  *)
(*                                                                         *)
(* The directory server is external.  It refuses to add a name that is     *)
(* there, and a search for one entry that matches two is an error.         *)
(***************************************************************************)
EXTENDS Naturals

CONSTANTS
  Replicas,      \* the replicas of the component
  Roles,         \* the entries under the base of roles that may match
  MaxChanges,    \* bound: changes the operators make
  MaxFailures    \* bound: calls that fail and processes that stop

ASSUME BoundsAssumption == MaxChanges \in Nat /\ MaxFailures \in Nat

Identities == {"repository", "component"}
Names      == {"runtime", "operator"}   \* cn=<uuid>, or a name an operator chose
Missing    == "missing"

VARIABLES
  autoRegister,  \* ORCASTACK_LDAP_AUTO_REGISTER
  entries,       \* entries[i]: the names under which identity i is registered
  role,          \* role[o]: the members and owners of role entry o
  step,          \* what a replica does next
  found,         \* found[r][i]: the name under which r found or added i
  audit,         \* replicas whose running process is registered
  changes,       \* changes made by operators
  failures       \* failures so far

config == <<autoRegister, role>>
bounds == <<changes, failures>>
vars   == <<config, entries, step, found, audit, bounds>>

Steps == {"down", "repository", "register_repository", "component",
          "register_component", "process", "role", "serving"}

NothingFound == [i \in Identities |-> Missing]

Init ==
  /\ autoRegister \in BOOLEAN
  /\ entries = [i \in Identities |-> {}]
  /\ role = [o \in Roles |-> {}]
  /\ step = [r \in Replicas |-> "down"]
  /\ found = [r \in Replicas |-> NothingFound]
  /\ audit = {}
  /\ changes = 0
  /\ failures = 0

\* What a search with a size limit of one answers without an error, unless it
\* finds nothing.
One(S) == \E x \in S : S = {x}

Goto(r, s) == step' = [step EXCEPT ![r] = s]

\* The process ends, and what it had found with it.
Exit(r) ==
  /\ Goto(r, "down")
  /\ found' = [found EXCEPT ![r] = NothingFound]
  /\ audit' = audit \ {r}

---------------------------------------------------------------------------
(* BuildRuntimePolicy, EnforceDirectoryPolicy                              *)

\* The identities are parsed, a new process identity is made, the directory
\* is dialed and the service account bound.
Start(r) ==
  /\ step[r] = "down"
  /\ Goto(r, "repository")
  /\ UNCHANGED <<config, entries, found, audit, bounds>>

Registering(i) == IF i = "repository" THEN "register_repository" ELSE "register_component"
After(i)       == IF i = "repository" THEN "component" ELSE "process"

\* Mutant: the identity is handed on instead of the name of its entry.
FindIdentity(r, i) ==
  /\ step[r] = i
  /\ One(entries[i])
  /\ found' = [found EXCEPT ![r][i] = i]
  /\ Goto(r, After(i))
  /\ UNCHANGED <<config, entries, audit, bounds>>

\* ensureDirectoryIdentity: the search, with a size limit of one.
Find(r, i) ==
  /\ step[r] = i
  /\ \E n \in entries[i] : entries[i] = {n} /\ found' = [found EXCEPT ![r][i] = n]
  /\ Goto(r, After(i))
  /\ UNCHANGED <<config, entries, audit, bounds>>

Absent(r, i) ==
  /\ step[r] = i
  /\ entries[i] = {}
  /\ IF autoRegister
     THEN Goto(r, Registering(i)) /\ UNCHANGED <<found, audit>>
     ELSE Exit(r)
  /\ UNCHANGED <<config, entries, bounds>>

Ambiguous(r, i) ==
  /\ step[r] = i
  /\ entries[i] # {} /\ ~One(entries[i])
  /\ Exit(r)
  /\ UNCHANGED <<config, entries, bounds>>

\* The add.
Register(r, i) ==
  /\ step[r] = Registering(i)
  /\ "runtime" \notin entries[i]
  /\ entries' = [entries EXCEPT ![i] = @ \union {"runtime"}]
  /\ found' = [found EXCEPT ![r][i] = "runtime"]
  /\ Goto(r, After(i))
  /\ UNCHANGED <<config, audit, bounds>>

\* Mutant: an add that failed is tried again.
TakenRetry(r, i) ==
  /\ step[r] = Registering(i)
  /\ "runtime" \in entries[i]
  /\ UNCHANGED vars

\* Another replica has added the name since the search.
Taken(r, i) ==
  /\ step[r] = Registering(i)
  /\ "runtime" \in entries[i]
  /\ Exit(r)
  /\ UNCHANGED <<config, entries, bounds>>

\* Nobody else knows the new process identity: its search finds nothing.
RegisterProcess(r) ==
  /\ step[r] = "process"
  /\ IF autoRegister
     THEN Goto(r, "role") /\ audit' = audit \union {r} /\ UNCHANGED found
     ELSE Exit(r)
  /\ UNCHANGED <<config, entries, bounds>>

---------------------------------------------------------------------------
(* enforceRBACMembership                                                   *)

\* The role entries whose members include the component's entry, or whose
\* owner is the repository's.
Granting(r) == {o \in Roles : \E i \in Identities : <<i, found[r][i]>> \in role[o]}

\* Mutant: nobody looks whether a role entry matched.
AuthorizeAny(r) ==
  /\ step[r] = "role"
  /\ Goto(r, "serving")
  /\ UNCHANGED <<config, entries, found, audit, bounds>>

Authorize(r) ==
  /\ step[r] = "role"
  /\ One(Granting(r))
  /\ Goto(r, "serving")
  /\ UNCHANGED <<config, entries, found, audit, bounds>>

\* No role entry matches, or more than the size limit.
Refuse(r) ==
  /\ step[r] = "role"
  /\ ~One(Granting(r))
  /\ Exit(r)
  /\ UNCHANGED <<config, entries, bounds>>

---------------------------------------------------------------------------
(* Failures and operators                                                  *)

\* A call fails, or the process stops, while it starts or while it serves.
Fail(r) ==
  /\ step[r] # "down"
  /\ failures < MaxFailures
  /\ failures' = failures + 1
  /\ Exit(r)
  /\ UNCHANGED <<config, entries, changes>>

\* The answer to an add is lost: the entry is there and the replica exits.
FailAfterAdd(r, i) ==
  /\ step[r] = Registering(i)
  /\ failures < MaxFailures
  /\ failures' = failures + 1
  /\ entries' = [entries EXCEPT ![i] = @ \union {"runtime"}]
  /\ Exit(r)
  /\ UNCHANGED <<config, changes>>

Change == changes < MaxChanges /\ changes' = changes + 1 /\ UNCHANGED failures

RegisterByHand(i) ==
  /\ Change
  /\ entries' = [entries EXCEPT ![i] = @ \union {"operator"}]
  /\ UNCHANGED <<config, step, found, audit>>

RemoveEntry(i, n) ==
  /\ Change
  /\ n \in entries[i]
  /\ entries' = [entries EXCEPT ![i] = @ \ {n}]
  /\ UNCHANGED <<config, step, found, audit>>

\* A role entry may name an entry before it exists or after it is gone.
Grant(o, m) ==
  /\ Change
  /\ role' = [role EXCEPT ![o] = @ \union {m}]
  /\ UNCHANGED <<autoRegister, entries, step, found, audit>>

Revoke(o, m) ==
  /\ Change
  /\ m \in role[o]
  /\ role' = [role EXCEPT ![o] = @ \ {m}]
  /\ UNCHANGED <<autoRegister, entries, step, found, audit>>

---------------------------------------------------------------------------
Replica(r) ==
  \/ Start(r)
  \/ \E i \in Identities :
       Find(r, i) \/ Absent(r, i) \/ Ambiguous(r, i) \/ Register(r, i) \/ Taken(r, i)
  \/ RegisterProcess(r) \/ Authorize(r) \/ Refuse(r)

Next ==
  \/ \E r \in Replicas : Replica(r) \/ Fail(r) \/ \E i \in Identities : FailAfterAdd(r, i)
  \/ \E i \in Identities : RegisterByHand(i) \/ \E n \in Names : RemoveEntry(i, n)
  \/ \E o \in Roles, m \in Identities \X Names : Grant(o, m) \/ Revoke(o, m)

\* A replica that is down is started, and one that starts goes on.
Fairness == \A r \in Replicas : WF_vars(Replica(r))

Spec == Init /\ [][Next]_vars /\ Fairness

---------------------------------------------------------------------------
(* Properties                                                              *)

\* Every variable keeps its type.
TypeOK ==
  /\ autoRegister \in BOOLEAN
  /\ entries \in [Identities -> SUBSET Names]
  /\ role \in [Roles -> SUBSET (Identities \X Names)]
  /\ step \in [Replicas -> Steps]
  /\ found \in [Replicas -> [Identities -> Names \union {Missing}]]
  /\ audit \subseteq Replicas
  /\ changes \in 0 .. MaxChanges
  /\ failures \in 0 .. MaxFailures

\* Whatever fails and whoever registers what meanwhile, a replica that serves
\* has left the identity of its process in the directory, and acts for entries
\* it found or added (EnforceDirectoryPolicy runs before anything is served).
Accountable ==
  \A r \in Replicas : step[r] = "serving" =>
    r \in audit /\ \A i \in Identities : found[r][i] # Missing

\* The operators have registered each identity once, and one role entry names
\* one of the two.
Prepared ==
  /\ \A i \in Identities : One(entries[i])
  /\ One({o \in Roles : \E i \in Identities : \E n \in entries[i] : <<i, n>> \in role[o]})

\* With auto-registration every replica serves again and again for as long as
\* the directory is in order: a replica that lost the race to add an entry, or
\* was refused, is started again and finds what it needs (ensureDirectoryIdentity,
\* enforceRBACMembership; a failed start ends the process).
Serves ==
  \A r \in Replicas : []<>(step[r] = "serving" \/ ~autoRegister \/ ~Prepared)

\* Auto-registration is optional (Documents/wiki/Security-Directive.md:63): what
\* the operators registered themselves serves as well.
ServesByHand ==
  \A r \in Replicas : []<>(step[r] = "serving" \/ ~Prepared)

\* Directory and replicas keep the promise of module DirectoryPromise.
Promise == INSTANCE DirectoryPromise WITH
  known   <- found,
  serving <- {r \in Replicas : step[r] = "serving"}

KeepsPromise == Promise!PromiseSpec
=============================================================================
