----------------------- MODULE DirectoryPolicyProofs -----------------------
(***************************************************************************)
(* Proofs about module DirectoryPolicy, for every set of replicas and of   *)
(* role entries.                                                           *)
(***************************************************************************)
EXTENDS DirectoryPolicy, TLAPS

\* What a replica has done by the time it is at a step: it adds entries only
\* with auto-registration, it knows both entries before it registers its
\* process, and its process is on record before its role is looked for.
Progress(r) ==
  /\ step[r] \in {"register_repository", "register_component"} => autoRegister
  /\ step[r] \in {"component", "register_component", "process", "role", "serving"}
       => found[r]["repository"] # Missing
  /\ step[r] \in {"process", "role", "serving"} => found[r]["component"] # Missing
  /\ step[r] \in {"role", "serving"} => r \in audit

IInv == TypeOK /\ \A r \in Replicas : Progress(r)

\* A step of one replica leaves the others alone.
Others(r) == \A q \in Replicas \ {r} :
               step'[q] = step[q] /\ found'[q] = found[q] /\ (q \in audit' <=> q \in audit)

LEMMA OthersKeep ==
  ASSUME IInv, NEW r \in Replicas, Others(r), autoRegister' = autoRegister,
         TypeOK', Progress(r)'
  PROVE  IInv'
<1>1. ASSUME NEW q \in Replicas, q # r PROVE Progress(q)'
  BY <1>1 DEF IInv, Others, Progress
<1> QED
  BY <1>1 DEF IInv

LEMMA NextStep == Next =>
  \/ \E r \in Replicas : Start(r) \/ RegisterProcess(r) \/ Authorize(r) \/ Refuse(r) \/ Fail(r)
  \/ \E r \in Replicas, i \in Identities :
       Find(r, i) \/ Absent(r, i) \/ Ambiguous(r, i) \/ Register(r, i) \/ Taken(r, i) \/ FailAfterAdd(r, i)
  \/ \E i \in Identities : RegisterByHand(i)
  \/ \E i \in Identities, n \in Names : RemoveEntry(i, n)
  \/ \E o \in Roles, m \in Identities \X Names : Grant(o, m) \/ Revoke(o, m)
  BY DEF Next, Replica

\* A replica that exits has nothing left to account for.
LEMMA ExitKeeps ==
  ASSUME IInv, NEW r \in Replicas, Exit(r),
         autoRegister' = autoRegister, role' = role,
         entries' \in [Identities -> SUBSET Names],
         changes' \in 0 .. MaxChanges, failures' \in 0 .. MaxFailures
  PROVE  IInv'
<1>1. TypeOK'
  BY DEF IInv, TypeOK, Exit, Goto, Steps, NothingFound
<1>2. Progress(r)'
  BY DEF IInv, TypeOK, Exit, Goto, Progress
<1>3. Others(r)
  BY DEF IInv, TypeOK, Exit, Goto, Others
<1> QED
  BY <1>1, <1>2, <1>3, OthersKeep

LEMMA Steady == ASSUME IInv PROVE
  /\ entries \in [Identities -> SUBSET Names]
  /\ changes \in 0 .. MaxChanges /\ failures \in 0 .. MaxFailures
  BY DEF IInv, TypeOK

\* Every step of a replica keeps the invariant.
LEMMA ReplicaKeeps ==
  ASSUME IInv, NEW r \in Replicas,
         Start(r) \/ RegisterProcess(r) \/ Authorize(r) \/ Refuse(r) \/ Fail(r)
  PROVE  IInv'
<1>1. CASE Start(r)
  <2>1. TypeOK'
    BY <1>1 DEF Start, IInv, TypeOK, Goto, Steps, config, bounds
  <2>2. Progress(r)' /\ Others(r)
    BY <1>1 DEF Start, IInv, TypeOK, Goto, config, Progress, Others
  <2> QED
    BY <1>1, <2>1, <2>2, OthersKeep DEF Start, config
<1>2. CASE RegisterProcess(r)
  <2>1. CASE autoRegister
    <3>1. TypeOK'
      BY <1>2, <2>1 DEF RegisterProcess, IInv, TypeOK, Goto, Steps, config, bounds
    <3>2. Progress(r)' /\ Others(r)
      BY <1>2, <2>1 DEF RegisterProcess, IInv, TypeOK, Goto, config, Progress, Others
    <3> QED
      BY <1>2, <3>1, <3>2, OthersKeep DEF RegisterProcess, config
  <2>2. CASE ~autoRegister
    BY <1>2, <2>2, ExitKeeps, Steady DEF RegisterProcess, config, bounds
  <2> QED
    BY <2>1, <2>2
<1>3. CASE Authorize(r)
  <2>1. TypeOK'
    BY <1>3 DEF Authorize, IInv, TypeOK, Goto, Steps, config, bounds
  <2>2. Progress(r)' /\ Others(r)
    BY <1>3 DEF Authorize, IInv, TypeOK, Goto, config, Progress, Others
  <2> QED
    BY <1>3, <2>1, <2>2, OthersKeep DEF Authorize, config
<1>4. CASE Refuse(r)
  BY <1>4, ExitKeeps, Steady DEF Refuse, config, bounds
<1>5. CASE Fail(r)
  <2>1. failures' \in 0 .. MaxFailures
    BY <1>5, Steady, BoundsAssumption DEF Fail
  <2> QED
    BY <1>5, <2>1, ExitKeeps, Steady DEF Fail, config
<1> QED
  BY <1>1, <1>2, <1>3, <1>4, <1>5

\* A replica that has found an entry goes on, and remembers the other one.
LEMMA FoundGoesOn ==
  ASSUME IInv, NEW r \in Replicas, NEW i \in Identities, NEW n \in Names,
         step[r] \in {i, Registering(i)}, Goto(r, After(i)),
         found' = [found EXCEPT ![r][i] = n], UNCHANGED config
  PROVE  Progress(r)'
<1>1. step'[r] = After(i)
  BY DEF IInv, TypeOK, Goto
<1>2. found'[r][i] = n /\ n # Missing
  BY DEF IInv, TypeOK, Names, Missing
<1>3. \A j \in Identities : j # i => found'[r][j] = found[r][j]
  BY DEF IInv, TypeOK
<1>4. CASE i = "repository"
  BY <1>1, <1>2, <1>4 DEF After, Progress
<1>5. CASE i = "component"
  <2>1. step'[r] = "process"
    BY <1>1, <1>5 DEF After
  <2>2. step[r] \in {"component", "register_component"}
    BY <1>5 DEF Registering
  <2>3. found[r]["repository"] # Missing
    BY <2>2 DEF IInv, Progress
  <2>4. found'[r]["repository"] # Missing
    BY <1>3, <1>5, <2>3 DEF Identities
  <2> QED
    BY <1>2, <1>5, <2>1, <2>4 DEF Progress
<1> QED
  BY <1>4, <1>5 DEF Identities

\* The steps that look up or add the entry of one identity.
LEMMA IdentityKeeps ==
  ASSUME IInv, NEW r \in Replicas, NEW i \in Identities,
         Find(r, i) \/ Absent(r, i) \/ Ambiguous(r, i) \/ Register(r, i) \/ Taken(r, i)
         \/ FailAfterAdd(r, i)
  PROVE  IInv'
<1>0. i \in {"repository", "component"} /\ "runtime" \in Names /\ Missing \notin Names
  BY DEF Identities, Names, Missing
<1>1. CASE Find(r, i)
  <2>1. PICK n \in entries[i] : found' = [found EXCEPT ![r][i] = n]
    BY <1>1 DEF Find
  <2>2. n \in Names
    BY <2>1, Steady
  <2>3. TypeOK'
    BY <1>1, <2>1, <2>2, <1>0 DEF Find, IInv, TypeOK, Goto, After, Steps, config, bounds
  <2>4. Progress(r)'
    BY <1>1, <2>1, <2>2, FoundGoesOn DEF Find, config
  <2>5. Others(r)
    BY <1>1, <2>1 DEF Find, IInv, TypeOK, Goto, Others
  <2> QED
    BY <1>1, <2>3, <2>4, <2>5, OthersKeep DEF Find, config
<1>2. CASE Absent(r, i)
  <2>1. CASE autoRegister
    <3>1. TypeOK'
      BY <1>2, <2>1 DEF Absent, IInv, TypeOK, Goto, Registering, Steps, config, bounds
    <3>2. Progress(r)' /\ Others(r)
      BY <1>0, <1>2, <2>1 DEF Absent, IInv, TypeOK, Goto, Registering, config, Progress, Others
    <3> QED
      BY <1>2, <3>1, <3>2, OthersKeep DEF Absent, config
  <2>2. CASE ~autoRegister
    BY <1>2, <2>2, ExitKeeps, Steady DEF Absent, config, bounds
  <2> QED
    BY <2>1, <2>2
<1>3. CASE Ambiguous(r, i)
  BY <1>3, ExitKeeps, Steady DEF Ambiguous, config, bounds
<1>4. CASE Register(r, i)
  <2>1. TypeOK'
    BY <1>4, <1>0 DEF Register, IInv, TypeOK, Goto, After, Steps, config, bounds
  <2>2. Progress(r)'
    BY <1>4, <1>0, FoundGoesOn DEF Register
  <2>3. Others(r)
    BY <1>4 DEF Register, IInv, TypeOK, Goto, Others
  <2> QED
    BY <1>4, <2>1, <2>2, <2>3, OthersKeep DEF Register, config
<1>5. CASE Taken(r, i)
  BY <1>5, ExitKeeps, Steady DEF Taken, config, bounds
<1>6. CASE FailAfterAdd(r, i)
  <2>1. failures' \in 0 .. MaxFailures
    BY <1>6, Steady, BoundsAssumption DEF FailAfterAdd
  <2>2. entries' \in [Identities -> SUBSET Names]
    BY <1>6, <1>0, Steady DEF FailAfterAdd
  <2> QED
    BY <1>6, <2>1, <2>2, ExitKeeps, Steady DEF FailAfterAdd, config
<1> QED
  BY <1>1, <1>2, <1>3, <1>4, <1>5, <1>6

\* Operators change what the replicas know nothing of yet.
LEMMA OperatorsKeep ==
  ASSUME IInv,
         UNCHANGED <<autoRegister, step, found, audit, failures>>,
         changes < MaxChanges, changes' = changes + 1,
         entries' \in [Identities -> SUBSET Names],
         role' \in [Roles -> SUBSET (Identities \X Names)]
  PROVE  IInv'
<1>1. TypeOK'
  BY BoundsAssumption DEF IInv, TypeOK
<1>2. ASSUME NEW r \in Replicas PROVE Progress(r)'
  BY <1>2 DEF IInv, Progress
<1> QED
  BY <1>1, <1>2 DEF IInv

LEMMA NextKeeps == IInv /\ [Next]_vars => IInv'
<1> SUFFICES ASSUME IInv, [Next]_vars PROVE IInv'
  OBVIOUS
<1>1. CASE UNCHANGED vars
  BY <1>1 DEF IInv, TypeOK, Progress, vars, config, bounds
<1>2. ASSUME NEW r \in Replicas,
             Start(r) \/ RegisterProcess(r) \/ Authorize(r) \/ Refuse(r) \/ Fail(r)
      PROVE  IInv'
  BY <1>2, ReplicaKeeps
<1>3. ASSUME NEW r \in Replicas, NEW i \in Identities,
             Find(r, i) \/ Absent(r, i) \/ Ambiguous(r, i) \/ Register(r, i)
             \/ Taken(r, i) \/ FailAfterAdd(r, i)
      PROVE  IInv'
  BY <1>3, IdentityKeeps
<1>4. ASSUME NEW i \in Identities, RegisterByHand(i) PROVE IInv'
  <2>1. entries' \in [Identities -> SUBSET Names]
    BY <1>4, Steady DEF RegisterByHand, Names
  <2> QED
    BY <1>4, <2>1, OperatorsKeep DEF RegisterByHand, Change, config, IInv, TypeOK
<1>5. ASSUME NEW i \in Identities, NEW n \in Names, RemoveEntry(i, n) PROVE IInv'
  <2>1. entries' \in [Identities -> SUBSET Names]
    BY <1>5, Steady DEF RemoveEntry
  <2> QED
    BY <1>5, <2>1, OperatorsKeep DEF RemoveEntry, Change, config, IInv, TypeOK
<1>6. ASSUME NEW o \in Roles, NEW m \in Identities \X Names, Grant(o, m) \/ Revoke(o, m)
      PROVE  IInv'
  <2>1. role' \in [Roles -> SUBSET (Identities \X Names)]
    BY <1>6 DEF Grant, Revoke, IInv, TypeOK
  <2> QED
    BY <1>6, <2>1, Steady, OperatorsKeep DEF Grant, Revoke, Change
<1> QED
  BY <1>1, <1>2, <1>3, <1>4, <1>5, <1>6, NextStep

LEMMA InitHolds == Init => IInv
  BY BoundsAssumption DEF Init, IInv, TypeOK, Progress, NothingFound, Steps

\* The types and what every step presupposes (ensureDirectoryIdentity,
\* enforceRBACMembership) hold throughout.
THEOREM Inductive == Spec => []IInv
  BY InitHolds, NextKeeps, PTL DEF Spec

\* Every variable keeps its type.
THEOREM TypeCorrect == Spec => []TypeOK
<1>1. IInv => TypeOK
  BY DEF IInv
<1> QED
  BY <1>1, Inductive, PTL

\* However many replicas start and fail, one that serves has registered its
\* process and knows both entries (EnforceDirectoryPolicy).
THEOREM AccountableServices == Spec => []Accountable
<1>1. IInv => Accountable
  BY DEF IInv, Progress, Accountable, Identities
<1> QED
  BY <1>1, Inductive, PTL

---------------------------------------------------------------------------
(* The refinement of DirectoryPromise                                      *)

Serving == {r \in Replicas : step[r] = "serving"}

LEMMA SameIdentities == Promise!Ids = Identities /\ Promise!Unknown = NothingFound
  BY DEF Promise!Ids, Promise!Unknown, Identities, NothingFound, Missing

\* A replica that moves between steps of its start does not begin to serve.
LEMMA NotYetServing ==
  ASSUME IInv, NEW r \in Replicas, NEW s \in Steps \ {"serving"},
         step[r] # "serving", Goto(r, s)
  PROVE  r \notin Serving /\ Serving' = Serving
  BY DEF IInv, TypeOK, Goto, Serving

LEMMA ExitStops ==
  ASSUME IInv, NEW r \in Replicas, Exit(r), UNCHANGED <<autoRegister, role, entries>>
  PROVE  Promise!Stop(r)
<1>1. Serving' = Serving \ {r}
  BY DEF IInv, TypeOK, Exit, Goto, Serving
<1> QED
  BY <1>1, SameIdentities DEF Exit, Promise!Stop, Serving

LEMMA IdentityStep ==
  ASSUME IInv, NEW r \in Replicas, NEW i \in Identities,
         Find(r, i) \/ Absent(r, i) \/ Ambiguous(r, i) \/ Register(r, i) \/ Taken(r, i)
         \/ FailAfterAdd(r, i)
  PROVE  Promise!PromiseNext \/ UNCHANGED Promise!promiseVars
<1>0. /\ i \in {"repository", "component"} /\ i \in Promise!Ids
      /\ After(i) \in Steps \ {"serving"} /\ Registering(i) \in Steps \ {"serving"}
      /\ i # "serving" /\ Registering(i) \in {"register_repository", "register_component"}
  BY SameIdentities DEF Identities, After, Registering, Steps
<1>1. CASE Find(r, i)
  <2>1. PICK n \in entries[i] : entries[i] = {n} /\ found' = [found EXCEPT ![r][i] = n]
    BY <1>1 DEF Find
  <2>2. r \notin Serving /\ Serving' = Serving
    BY <1>0, <1>1, NotYetServing DEF Find
  <2>3. Promise!LookUp(r, i, n)
    BY <1>1, <2>1, <2>2 DEF Find, config, Promise!LookUp, Serving
  <2> QED
    BY <1>0, <2>1, <2>3 DEF Promise!PromiseNext
<1>2. CASE Absent(r, i)
  <2>1. CASE autoRegister
    <3>1. Serving' = Serving
      BY <1>0, <1>2, <2>1, NotYetServing DEF Absent
    <3> QED
      BY <1>2, <2>1, <3>1 DEF Absent, config, Promise!promiseVars, Serving
  <2>2. CASE ~autoRegister
    BY <1>2, <2>2, ExitStops DEF Absent, config, Promise!PromiseNext
  <2> QED
    BY <2>1, <2>2
<1>3. CASE Ambiguous(r, i)
  BY <1>3, ExitStops DEF Ambiguous, config, Promise!PromiseNext
<1>4. CASE Register(r, i)
  <2>1. r \notin Serving /\ Serving' = Serving
    BY <1>0, <1>4, NotYetServing DEF Register
  <2>2. autoRegister
    BY <1>0, <1>4 DEF Register, IInv, Progress
  <2>3. Promise!AddMissing(r, i)
    BY <1>4, <2>1, <2>2 DEF Register, config, Promise!AddMissing, Promise!Add, Serving
  <2> QED
    BY <1>0, <2>3 DEF Promise!PromiseNext
<1>5. CASE Taken(r, i)
  BY <1>5, ExitStops DEF Taken, config, Promise!PromiseNext
<1>6. CASE FailAfterAdd(r, i)
  <2>1. r \notin Serving /\ Serving' = Serving \ {r}
    BY <1>0, <1>6 DEF FailAfterAdd, Exit, Goto, IInv, TypeOK, Serving
  <2>2. autoRegister
    BY <1>0, <1>6 DEF FailAfterAdd, IInv, Progress
  <2>3. Promise!Stop(r)
    BY <1>0, <1>6, <2>1, <2>2, SameIdentities
    DEF FailAfterAdd, config, Exit, Promise!Stop, Promise!Add, Serving
  <2> QED
    BY <2>3 DEF Promise!PromiseNext
<1> QED
  BY <1>1, <1>2, <1>3, <1>4, <1>5, <1>6

LEMMA ReplicaStep ==
  ASSUME IInv, NEW r \in Replicas,
         Start(r) \/ RegisterProcess(r) \/ Authorize(r) \/ Refuse(r) \/ Fail(r)
  PROVE  Promise!PromiseNext \/ UNCHANGED Promise!promiseVars
<1>1. CASE Start(r)
  <2>1. Serving' = Serving
    BY <1>1, NotYetServing DEF Start, Steps
  <2> QED
    BY <1>1, <2>1 DEF Start, config, Promise!promiseVars, Serving
<1>2. CASE RegisterProcess(r)
  <2>1. CASE autoRegister
    <3>1. Serving' = Serving
      BY <1>2, <2>1, NotYetServing DEF RegisterProcess, Steps
    <3>2. Promise!Record(r)
      BY <1>2, <2>1, <3>1 DEF RegisterProcess, config, Promise!Record, Serving
    <3> QED
      BY <3>2 DEF Promise!PromiseNext
  <2>2. CASE ~autoRegister
    BY <1>2, <2>2, ExitStops DEF RegisterProcess, config, Promise!PromiseNext
  <2> QED
    BY <2>1, <2>2
<1>3. CASE Authorize(r)
  <2>1. Serving' = Serving \union {r}
    BY <1>3 DEF Authorize, Goto, IInv, TypeOK, Serving
  <2>2. r \in audit /\ \A i \in Promise!Ids : found[r][i] # "missing"
    BY <1>3, SameIdentities DEF Authorize, IInv, Progress, Identities, Missing
  <2>3. Promise!Serve(r)
    BY <1>3, <2>1, <2>2, SameIdentities
    DEF Authorize, Granting, One, config, Promise!Serve, Serving
  <2> QED
    BY <2>3 DEF Promise!PromiseNext
<1>4. CASE Refuse(r)
  BY <1>4, ExitStops DEF Refuse, config, Promise!PromiseNext
<1>5. CASE Fail(r)
  BY <1>5, ExitStops DEF Fail, config, Promise!PromiseNext
<1> QED
  BY <1>1, <1>2, <1>3, <1>4, <1>5

LEMMA OperatorStep ==
  ASSUME IInv,
         \/ \E i \in Identities : RegisterByHand(i)
         \/ \E i \in Identities, n \in Names : RemoveEntry(i, n)
         \/ \E o \in Roles, m \in Identities \X Names : Grant(o, m) \/ Revoke(o, m)
  PROVE  Promise!PromiseNext
<1>0. Names = {"runtime", "operator"}
  BY DEF Names
<1>1. ASSUME NEW i \in Identities, RegisterByHand(i) PROVE Promise!Operate
  BY <1>1, SameIdentities DEF RegisterByHand, config, Promise!Operate
<1>2. ASSUME NEW i \in Identities, NEW n \in Names, RemoveEntry(i, n) PROVE Promise!Operate
  BY <1>2, SameIdentities DEF RemoveEntry, config, Promise!Operate
<1>3. ASSUME NEW o \in Roles, NEW m \in Identities \X Names, Grant(o, m) \/ Revoke(o, m)
      PROVE  Promise!Operate
  BY <1>0, <1>3, SameIdentities DEF Grant, Revoke, Promise!Operate
<1> QED
  BY <1>1, <1>2, <1>3 DEF Promise!PromiseNext

LEMMA PromiseStep == IInv /\ [Next]_vars => [Promise!PromiseNext]_(Promise!promiseVars)
<1> SUFFICES ASSUME IInv, [Next]_vars
             PROVE  Promise!PromiseNext \/ UNCHANGED Promise!promiseVars
  OBVIOUS
<1>1. CASE UNCHANGED vars
  BY <1>1 DEF vars, config, Promise!promiseVars
<1>2. CASE Next
  BY <1>2, NextStep, IdentityStep, ReplicaStep, OperatorStep
<1> QED
  BY <1>1, <1>2

LEMMA PromiseBegins == Init => Promise!PromiseInit
<1>1. Init => Serving = {}
  BY DEF Init, Serving
<1> QED
  BY <1>1, SameIdentities DEF Init, Promise!PromiseInit, Serving

\* The replicas add and serve as DirectoryPromise allows, for every number of
\* replicas and role entries.
THEOREM Refinement == Spec => KeepsPromise
  BY InitHolds, NextKeeps, PromiseBegins, PromiseStep, PTL
  DEF Spec, KeepsPromise, Promise!PromiseSpec

---------------------------------------------------------------------------
(* How long a start can take: the safety half of Serves                    *)

\* What a replica acts for is in the directory, and it is not about to add to it.
Clean(r) ==
  /\ step[r] \notin {"register_repository", "register_component"}
  /\ \A i \in Identities : found[r][i] = Missing \/ found[r][i] \in entries[i]

Place(s) ==
  IF s = "down" THEN 7
  ELSE IF s = "repository" THEN 6
  ELSE IF s = "register_repository" THEN 5
  ELSE IF s = "component" THEN 4
  ELSE IF s = "register_component" THEN 3
  ELSE IF s = "process" THEN 2
  ELSE IF s = "role" THEN 1
  ELSE 0

\* The steps a replica needs before it serves: those of this start, and those
\* of another one if this one has found what is no longer there.
StepsLeft(r) == Place(step[r]) + (IF Clean(r) THEN 0 ELSE 8)

Failing(r) == Fail(r) \/ \E i \in Identities : FailAfterAdd(r, i)

\* While the directory is in order, every step of a replica brings it nearer to
\* serving, and nothing but a failure of its own sets it back, whatever the
\* other replicas were about to add: what is left to Serves is that a replica
\* that is down is started and goes on.
Approach(r) ==
  /\ StepsLeft(r) \in 0 .. 15
  /\ autoRegister /\ Prepared /\ Prepared' =>
       /\ ~Failing(r) => StepsLeft(r)' <= StepsLeft(r)
       /\ Replica(r) => StepsLeft(r)' < StepsLeft(r)
DrawsToServing == [][\A r \in Replicas : Approach(r)]_vars

\* A directory in which each identity stays registered once has not changed.
LEMMA EntriesChange ==
  ASSUME Next
  PROVE  \/ UNCHANGED entries
         \/ \E i \in Identities : \E n :
              \/ entries' = [entries EXCEPT ![i] = @ \union {n}]
              \/ n \in entries[i] /\ entries' = [entries EXCEPT ![i] = @ \ {n}]
<1>1. ASSUME NEW r \in Replicas,
             Start(r) \/ RegisterProcess(r) \/ Authorize(r) \/ Refuse(r) \/ Fail(r)
      PROVE  UNCHANGED entries
  BY <1>1 DEF Start, RegisterProcess, Authorize, Refuse, Fail
<1>2. ASSUME NEW r \in Replicas, NEW i \in Identities,
             Find(r, i) \/ Absent(r, i) \/ Ambiguous(r, i) \/ Taken(r, i)
      PROVE  UNCHANGED entries
  BY <1>2 DEF Find, Absent, Ambiguous, Taken
<1>3. ASSUME NEW r \in Replicas, NEW i \in Identities, Register(r, i) \/ FailAfterAdd(r, i)
      PROVE  entries' = [entries EXCEPT ![i] = @ \union {"runtime"}]
  BY <1>3 DEF Register, FailAfterAdd
<1>4. ASSUME NEW i \in Identities, RegisterByHand(i)
      PROVE  entries' = [entries EXCEPT ![i] = @ \union {"operator"}]
  BY <1>4 DEF RegisterByHand
<1>5. ASSUME NEW i \in Identities, NEW n \in Names, RemoveEntry(i, n)
      PROVE  n \in entries[i] /\ entries' = [entries EXCEPT ![i] = @ \ {n}]
  BY <1>5 DEF RemoveEntry
<1>6. ASSUME NEW o \in Roles, NEW m \in Identities \X Names, Grant(o, m) \/ Revoke(o, m)
      PROVE  UNCHANGED entries
  BY <1>6 DEF Grant, Revoke
<1> QED
  BY <1>1, <1>2, <1>3, <1>4, <1>5, <1>6, NextStep

LEMMA OrderKept ==
  ASSUME IInv, Next, Prepared, Prepared'
  PROVE  UNCHANGED entries
<1>1. entries \in [Identities -> SUBSET Names]
  BY DEF IInv, TypeOK
<1>2. \A i \in Identities : One(entries[i]) /\ One(entries'[i])
  BY DEF Prepared, One
<1>3. ASSUME NEW i \in Identities, NEW n, entries' = [entries EXCEPT ![i] = @ \union {n}]
      PROVE  UNCHANGED entries
  <2>1. entries'[i] = entries[i] \union {n}
    BY <1>1, <1>3
  <2>2. entries'[i] = entries[i]
    BY <1>2, <2>1 DEF One
  <2> QED
    BY <1>1, <1>3, <2>1, <2>2
<1>4. ASSUME NEW i \in Identities, NEW n, n \in entries[i],
             entries' = [entries EXCEPT ![i] = @ \ {n}]
      PROVE  FALSE
  <2>1. entries'[i] = entries[i] \ {n}
    BY <1>1, <1>4
  <2> QED
    BY <1>2, <1>4, <2>1 DEF One
<1> QED
  BY <1>3, <1>4, EntriesChange

\* A step of another replica, or of an operator.
LEMMA NotInvolved ==
  ASSUME IInv, NEW r \in Replicas, Next, ~Replica(r), ~Failing(r)
  PROVE  step'[r] = step[r] /\ found'[r] = found[r]
<1>1. ASSUME NEW q \in Replicas, q # r, Replica(q) \/ Failing(q)
      PROVE  step'[r] = step[r] /\ found'[r] = found[r]
  <2> USE <1>1 DEF IInv, TypeOK, Goto, Exit
  <2>1. CASE Start(q) \/ RegisterProcess(q) \/ Authorize(q) \/ Refuse(q) \/ Fail(q)
    BY <2>1 DEF Start, RegisterProcess, Authorize, Refuse, Fail
  <2>2. ASSUME NEW i \in Identities,
               Find(q, i) \/ Absent(q, i) \/ Ambiguous(q, i) \/ Register(q, i) \/ Taken(q, i)
               \/ FailAfterAdd(q, i)
        PROVE  step'[r] = step[r] /\ found'[r] = found[r]
    BY <2>2 DEF Find, Absent, Ambiguous, Register, Taken, FailAfterAdd
  <2> QED
    BY <2>1, <2>2 DEF Replica, Failing
<1>2. CASE \/ \E i \in Identities : RegisterByHand(i) \/ \E n \in Names : RemoveEntry(i, n)
           \/ \E o \in Roles, m \in Identities \X Names : Grant(o, m) \/ Revoke(o, m)
  BY <1>2 DEF RegisterByHand, RemoveEntry, Grant, Revoke
<1> QED
  BY <1>1, <1>2 DEF Next, Failing

\* The role entry that names one of the operators' entries names what a clean
\* replica has found.
LEMMA CleanIsGranted ==
  ASSUME IInv, NEW r \in Replicas, step[r] = "role", Prepared, Clean(r)
  PROVE  One(Granting(r))
<1>1. \A i \in Identities : found[r][i] \in entries[i]
  BY DEF IInv, Progress, Clean, Identities
<1>2. ASSUME NEW i \in Identities, NEW n \in entries[i] PROVE n = found[r][i]
  BY <1>1 DEF Prepared, One
<1>3. Granting(r) = {o \in Roles : \E i \in Identities : \E n \in entries[i] : <<i, n>> \in role[o]}
  BY <1>1, <1>2 DEF Granting
<1> QED
  BY <1>3 DEF Prepared

LEMMA Places ==
  /\ \A s : Place(s) \in 0 .. 7
  /\ Place("down") = 7 /\ Place("repository") = 6 /\ Place("register_repository") = 5
  /\ Place("component") = 4 /\ Place("register_component") = 3 /\ Place("process") = 2
  /\ Place("role") = 1 /\ Place("serving") = 0
  BY DEF Place

LEMMA CleanDraws ==
  ASSUME IInv, NEW r \in Replicas, Replica(r), UNCHANGED entries, autoRegister, Prepared, Clean(r)
  PROVE  Clean(r)' /\ Place(step'[r]) < Place(step[r])
<1> USE Places
<1>1. CASE Start(r)
  BY <1>1 DEF Start, Goto, IInv, TypeOK, Clean
<1>2. ASSUME NEW i \in Identities, Find(r, i)
      PROVE  Clean(r)' /\ Place(step'[r]) < Place(step[r])
  <2>1. PICK n \in entries[i] : found' = [found EXCEPT ![r][i] = n]
    BY <1>2 DEF Find
  <2>2. \A j \in Identities : found'[r][j] = IF j = i THEN n ELSE found[r][j]
    BY <2>1 DEF IInv, TypeOK
  <2>3. step[r] = i /\ step'[r] = After(i)
    BY <1>2 DEF Find, Goto, IInv, TypeOK
  <2>4. Clean(r)'
    BY <2>1, <2>2, <2>3 DEF Clean, After, Identities
  <2>5. \/ step[r] = "repository" /\ step'[r] = "component"
        \/ step[r] = "component" /\ step'[r] = "process"
    BY <2>3 DEF After, Identities
  <2> QED
    BY <2>4, <2>5
<1>3. ASSUME NEW i \in Identities,
             Absent(r, i) \/ Ambiguous(r, i) \/ Register(r, i) \/ Taken(r, i)
      PROVE  FALSE
  BY <1>3 DEF Absent, Ambiguous, Register, Taken, Registering, Prepared, One, Clean
<1>4. CASE RegisterProcess(r)
  BY <1>4 DEF RegisterProcess, Goto, IInv, TypeOK, Clean
<1>5. CASE Authorize(r)
  BY <1>5 DEF Authorize, Goto, IInv, TypeOK, Clean
<1>6. CASE Refuse(r)
  BY <1>6, CleanIsGranted DEF Refuse
<1> QED
  BY <1>1, <1>2, <1>3, <1>4, <1>5, <1>6 DEF Replica

\* A replica that is not clean goes on, or ends and has found nothing.
LEMMA UncleanDraws ==
  ASSUME IInv, NEW r \in Replicas, Replica(r), autoRegister, Prepared
  PROVE  Place(step'[r]) < Place(step[r]) \/ (step'[r] = "down" /\ Clean(r)')
<1>1. ASSUME Exit(r) PROVE step'[r] = "down" /\ Clean(r)'
  BY <1>1 DEF Exit, Goto, IInv, TypeOK, Clean, NothingFound
<1>2. CASE Start(r) \/ RegisterProcess(r) \/ Authorize(r)
  <2>1. \/ step[r] = "down" /\ step'[r] = "repository"
        \/ step[r] = "process" /\ step'[r] = "role"
        \/ step[r] = "role" /\ step'[r] = "serving"
    BY <1>2 DEF Start, RegisterProcess, Authorize, Goto, IInv, TypeOK
  <2> QED
    BY <2>1, Places
<1>3. CASE Refuse(r)
  BY <1>1, <1>3 DEF Refuse
<1>4. ASSUME NEW i \in Identities, Find(r, i) \/ Register(r, i)
      PROVE  Place(step'[r]) < Place(step[r])
  <2>1. step[r] \in {i, Registering(i)} /\ step'[r] = After(i)
    BY <1>4 DEF Find, Register, Goto, IInv, TypeOK
  <2>2. \/ step[r] = "repository" /\ step'[r] = "component"
        \/ step[r] = "register_repository" /\ step'[r] = "component"
        \/ step[r] = "component" /\ step'[r] = "process"
        \/ step[r] = "register_component" /\ step'[r] = "process"
    BY <2>1 DEF Registering, After, Identities
  <2> QED
    BY <2>2, Places
<1>5. ASSUME NEW i \in Identities, Absent(r, i) \/ Ambiguous(r, i) PROVE FALSE
  BY <1>5 DEF Absent, Ambiguous, Prepared, One
<1>6. ASSUME NEW i \in Identities, Taken(r, i) PROVE step'[r] = "down" /\ Clean(r)'
  BY <1>1, <1>6 DEF Taken
<1> QED
  BY <1>1, <1>2, <1>3, <1>4, <1>5, <1>6 DEF Replica

\* Once the directory is in order a replica that does not fail serves after at
\* most 15 steps of its own (EnforceDirectoryPolicy).
THEOREM BoundedStart == Spec => DrawsToServing
<1>1. ASSUME IInv, Next, NEW r \in Replicas PROVE Approach(r)
  <2>1. StepsLeft(r) \in 0 .. 15
    BY Places DEF StepsLeft
  <2>2. ASSUME autoRegister, Prepared, Prepared', Replica(r)
        PROVE  StepsLeft(r)' \in Nat /\ StepsLeft(r)' < StepsLeft(r)
    <3>1. UNCHANGED entries
      BY <1>1, <2>2, OrderKept
    <3>2. StepsLeft(r)' = Place(step'[r]) + (IF Clean(r)' THEN 0 ELSE 8)
          /\ Place(step'[r]) \in 0 .. 7 /\ Place(step[r]) \in 0 .. 7
      BY Places DEF StepsLeft
    <3>3. CASE Clean(r)
      BY <1>1, <2>2, <3>1, <3>2, <3>3, CleanDraws DEF StepsLeft
    <3>4. CASE ~Clean(r)
      BY <1>1, <2>2, <3>2, <3>4, UncleanDraws, Places DEF StepsLeft
    <3> QED
      BY <3>3, <3>4
  <2>3. ASSUME autoRegister, Prepared, Prepared', ~Replica(r), ~Failing(r)
        PROVE  StepsLeft(r)' = StepsLeft(r)
    <3>1. UNCHANGED entries /\ step'[r] = step[r] /\ found'[r] = found[r]
      BY <1>1, <2>3, OrderKept, NotInvolved
    <3> QED
      BY <3>1 DEF StepsLeft, Clean
  <2> QED
    BY <2>1, <2>2, <2>3 DEF Approach
<1>2. IInv /\ [Next]_vars => [\A r \in Replicas : Approach(r)]_vars
  BY <1>1
<1> QED
  BY <1>2, Inductive, PTL DEF Spec, DrawsToServing
=============================================================================
