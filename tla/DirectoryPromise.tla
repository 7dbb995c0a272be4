-------------------------- MODULE DirectoryPromise --------------------------
(***************************************************************************)
(* What the directory policy promises the operators of the directory: only *)
(* they register names of their own, remove entries and decide on roles; a *)
(* replica adds nothing but the missing entry of an identity, and only     *)
(* with auto-registration; and it starts to serve when it has found both   *)
(* identities, its process is on record, and one role entry names what it  *)
(* found.  Module DirectoryPolicy is shown to implement it.                *)
(***************************************************************************)
CONSTANTS
  Replicas,
  Roles

VARIABLES
  autoRegister,  \* whether replicas may add entries
  entries,       \* entries[i]: the names under which identity i is registered
  role,          \* role[o]: the entries that role entry o names
  known,         \* known[r][i]: the name replica r has found for identity i
  audit,         \* replicas whose process is on record
  serving        \* replicas that serve

promiseVars == <<autoRegister, entries, role, known, audit, serving>>

Ids     == {"repository", "component"}
Unknown == [i \in Ids |-> "missing"]

PromiseInit ==
  /\ autoRegister \in BOOLEAN
  /\ entries = [i \in Ids |-> {}]
  /\ role = [o \in Roles |-> {}]
  /\ known = [r \in Replicas |-> Unknown]
  /\ audit = {}
  /\ serving = {}

\* The only entry there is, and for which the replica has asked.
LookUp(r, i, n) ==
  /\ r \notin serving
  /\ entries[i] = {n}
  /\ known' = [known EXCEPT ![r][i] = n]
  /\ UNCHANGED <<autoRegister, entries, role, audit, serving>>

Add(i) ==
  /\ autoRegister
  /\ entries' = [entries EXCEPT ![i] = @ \union {"runtime"}]
  /\ UNCHANGED <<autoRegister, role>>

AddMissing(r, i) ==
  /\ r \notin serving
  /\ "runtime" \notin entries[i]
  /\ Add(i)
  /\ known' = [known EXCEPT ![r][i] = "runtime"]
  /\ UNCHANGED <<audit, serving>>

Record(r) ==
  /\ autoRegister
  /\ audit' = audit \union {r}
  /\ UNCHANGED <<autoRegister, entries, role, known, serving>>

Serve(r) ==
  /\ r \in audit
  /\ \A i \in Ids : known[r][i] # "missing"
  /\ \E o \in Roles : {o} = {p \in Roles : \E i \in Ids : <<i, known[r][i]>> \in role[p]}
  /\ serving' = serving \union {r}
  /\ UNCHANGED <<autoRegister, entries, role, known, audit>>

\* A replica may stop at any time, after an add whose answer was lost as well.
Stop(r) ==
  /\ known' = [known EXCEPT ![r] = Unknown]
  /\ audit' = audit \ {r}
  /\ serving' = serving \ {r}
  /\ UNCHANGED <<autoRegister, role>>
  /\ \/ UNCHANGED entries
     \/ r \notin serving /\ \E i \in Ids : Add(i)

Operate ==
  /\ UNCHANGED <<autoRegister, known, audit, serving>>
  /\ \/ UNCHANGED role /\ \E i \in Ids :
          \/ entries' = [entries EXCEPT ![i] = @ \union {"operator"}]
          \/ \E n \in entries[i] : entries' = [entries EXCEPT ![i] = @ \ {n}]
     \/ UNCHANGED entries /\ \E o \in Roles : \E m \in Ids \X {"runtime", "operator"} :
          \/ role' = [role EXCEPT ![o] = @ \union {m}]
          \/ role' = [role EXCEPT ![o] = @ \ {m}]

PromiseNext ==
  \/ \E r \in Replicas : Record(r) \/ Serve(r) \/ Stop(r)
  \/ \E r \in Replicas, i \in Ids : AddMissing(r, i) \/ \E n \in entries[i] : LookUp(r, i, n)
  \/ Operate

PromiseSpec == PromiseInit /\ [][PromiseNext]_promiseVars
=============================================================================
