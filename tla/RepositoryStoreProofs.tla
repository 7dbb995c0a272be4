----------------------- MODULE RepositoryStoreProofs -----------------------
(***************************************************************************)
(* Proofs of the safety properties of module RepositoryStore, for every    *)
(* set of names, branches, requests and concurrent handlers.               *)
(***************************************************************************)
EXTENDS RepositoryStore, TLAPS

\* What kind of job a step names.
LEMMA JobKinds ==
  ASSUME TypeOK, NEW p \in Procs
  PROVE  /\ job[p].step \in {"init", "clone", "cloning", "config", "metadata"} => job[p] \in MakeJob
         /\ job[p].step = "write" => job[p] \in WriteJob
         /\ job[p].step = "list" => job[p] \in ListJob
  BY DEF TypeOK, Job, Idle, MakeJob, WriteJob, ListJob

\* An assignment to one job leaves the others alone.
LEMMA OneJob ==
  ASSUME TypeOK, NEW p \in Procs, NEW j, job' = [job EXCEPT ![p] = j]
  PROVE  job'[p] = j /\ \A q \in Procs : q # p => job'[q] = job[q]
  BY DEF TypeOK

\* A request that has been answered is idle.
LEMMA Finished ==
  ASSUME TypeOK, NEW p \in Procs, Finish(p)
  PROVE  job'[p].step = "idle" /\ \A q \in Procs : q # p => job'[q] = job[q]
<1>1. job' = [job EXCEPT ![p] = Idle]
  BY DEF Finish
<1>2. job'[p] = Idle /\ \A q \in Procs : q # p => job'[q] = job[q]
  BY <1>1, OneJob
<1> QED
  BY <1>2 DEF Idle

\* Moving to the next call keeps what the request is about.
LEMMA Advanced ==
  ASSUME TypeOK, NEW p \in Procs, job[p] \in MakeJob, NEW step, Advance(p, step)
  PROVE  /\ job'[p].step = step
         /\ job'[p].name = job[p].name /\ job'[p].kind = job[p].kind
         /\ job'[p].branch = job[p].branch
         /\ \A q \in Procs : q # p => job'[q] = job[q]
<1>1. job' = [job EXCEPT ![p] = [job[p] EXCEPT !.step = step]]
  BY DEF Advance, Continue
<1>2. job'[p] = [job[p] EXCEPT !.step = step] /\ \A q \in Procs : q # p => job'[q] = job[q]
  BY <1>1, OneJob
<1> QED
  BY <1>2 DEF MakeJob

\* A listing is all a request that lists does.
LEMMA ListerJob ==
  ASSUME TypeOK, NEW p \in Procs, ListBegin(p) \/ ListRead(p) \/ ListEnd(p)
  PROVE  /\ job[p].step \in {"idle", "list"} /\ job'[p].step \in {"idle", "list"}
         /\ \A q \in Procs : q # p => job'[q] = job[q]
<1>1. CASE ListBegin(p)
  <2>1. job[p].step = "idle"
    BY <1>1 DEF ListBegin, Idle
  <2>2. job'[p].step = "list" /\ \A q \in Procs : q # p => job'[q] = job[q]
    BY <1>1 DEF ListBegin, Continue, TypeOK
  <2> QED
    BY <2>1, <2>2
<1>2. CASE ListRead(p)
  <2>1. job[p] \in ListJob /\ job[p].step = "list"
    BY <1>2, JobKinds DEF ListRead
  <2>2. PICK n \in job[p].todo :
          Finish(p) \/ job' = [job EXCEPT ![p] = [job[p] EXCEPT !.todo = @ \ {n}, !.shown[n] = Shown(n)]]
    BY <1>2 DEF ListRead, Continue
  <2>3. CASE Finish(p)
    BY <2>1, <2>3, Finished
  <2>4. CASE job' = [job EXCEPT ![p] = [job[p] EXCEPT !.todo = @ \ {n}, !.shown[n] = Shown(n)]]
    BY <2>1, <2>4, OneJob DEF ListJob
  <2> QED
    BY <2>2, <2>3, <2>4
<1>3. CASE ListEnd(p)
  BY <1>3, Finished DEF ListEnd
<1> QED
  BY <1>1, <1>2, <1>3

\* What an assignment to a job, or to a directory, must show of the new value.
LEMMA JobType ==
  ASSUME TypeOK, NEW p \in Procs, NEW j \in Job, Continue(p, j)
  PROVE  job' \in [Procs -> Job]
  BY DEF TypeOK, Continue

LEMMA FinishType ==
  ASSUME TypeOK, NEW p \in Procs, Finish(p)
  PROVE  job' \in [Procs -> Job]
<1>1. Idle \in Job
  BY DEF Job
<1> QED
  BY <1>1 DEF TypeOK, Finish

LEMMA AdvanceType ==
  ASSUME TypeOK, NEW p \in Procs, job[p] \in MakeJob,
         NEW step \in {"cloning", "config", "metadata"}, Advance(p, step),
         step = "cloning" => job[p].kind = "imported"
  PROVE  job' \in [Procs -> Job]
<1>1. [job[p] EXCEPT !.step = step] \in MakeJob
  BY DEF MakeJob
<1>2. [job[p] EXCEPT !.step = step] \in Job
  BY <1>1 DEF Job
<1> QED
  BY <1>2, JobType DEF Advance

LEMMA DirsType ==
  ASSUME TypeOK, NEW n \in Names, NEW d \in Directory \union {None}, dirs' = [dirs EXCEPT ![n] = d]
  PROVE  dirs' \in [Names -> Directory \union {None}]
  BY DEF TypeOK

LEMMA BareType ==
  ASSUME NEW head \in Branches, NEW origin \in Kinds
  PROVE  Bare(head, origin) \in Directory
  BY DEF Bare, Directory, Files

LEMMA FieldTypes ==
  ASSUME NEW d \in Directory
  PROVE  /\ \A head \in Branches : [d EXCEPT !.head = head] \in Directory
         /\ [d EXCEPT !.push = TRUE] \in Directory
         /\ \A file \in Files : [d EXCEPT !.file = file] \in Directory
  BY DEF Directory

LEMMA FirstJob ==
  ASSUME NEW n \in Names, NEW step, NEW kind \in Kinds, NEW branch \in Branches \union {None},
         kind = "created" => branch # None,
         \/ step = "init" /\ kind = "created"
         \/ step = "clone" /\ kind = "imported"
  PROVE  [step |-> step, name |-> n, kind |-> kind, branch |-> branch] \in Job
<1>1. [step |-> step, name |-> n, kind |-> kind, branch |-> branch] \in MakeJob
  BY DEF MakeJob
<1> QED
  BY <1>1 DEF Job

\* Every step keeps the types.
LEMMA TypeStep == TypeOK /\ Grounded /\ [Next]_vars => TypeOK'
<1> SUFFICES ASSUME TypeOK, Grounded, [Next]_vars PROVE TypeOK'
  OBVIOUS
<1>1. ASSUME NEW p \in Procs, StatDirectory(p) PROVE TypeOK'
  <2>1. PICK n \in Names, request \in Requests :
          Continue(p, [step |-> FirstStep(request), name |-> n, kind |-> request.kind,
                       branch |-> BranchFor(request)])
    BY <1>1 DEF StatDirectory
  <2>2. /\ request.kind \in Kinds /\ BranchFor(request) \in Branches \union {None}
        /\ request.kind = "created" => BranchFor(request) # None
        /\ \/ FirstStep(request) = "init" /\ request.kind = "created"
           \/ FirstStep(request) = "clone" /\ request.kind = "imported"
    <3>1. request \in [kind : Kinds, branch : Branches \union {None}]
      BY StoreAssumption
    <3>2. MainBranch \in Branches /\ None \notin Branches
      BY StoreAssumption
    <3> QED
      BY <3>1, <3>2 DEF FirstStep, BranchFor, Kinds
  <2>3. [step |-> FirstStep(request), name |-> n, kind |-> request.kind,
         branch |-> BranchFor(request)] \in Job
    BY <2>2, FirstJob
  <2>4. job' \in [Procs -> Job]
    BY <2>1, <2>3, JobType
  <2> QED
    BY <1>1, <2>4 DEF StatDirectory, TypeOK
<1>2. ASSUME NEW p \in Procs, InitBare(p) PROVE TypeOK'
  <2>1. job[p] \in MakeJob
    BY <1>2, JobKinds DEF InitBare
  <2>2. job' \in [Procs -> Job]
    BY <1>2, <2>1, FinishType, AdvanceType DEF InitBare
  <2>3. Bare(job[p].branch, "created") \in Directory
    BY <1>2, <2>1, BareType DEF InitBare, MakeJob, Kinds
  <2>4. dirs' \in [Names -> Directory \union {None}]
    BY <1>2, <2>1, <2>3 DEF InitBare, TypeOK, MakeJob
  <2> QED
    BY <1>2, <2>2, <2>4 DEF InitBare, TypeOK
<1>3. ASSUME NEW p \in Procs, CloneBegin(p) PROVE TypeOK'
  <2>1. job[p] \in MakeJob
    BY <1>3, JobKinds DEF CloneBegin
  <2>2. job' \in [Procs -> Job]
    BY <1>3, <2>1, FinishType, AdvanceType DEF CloneBegin, MakeJob
  <2>3. Bare(MainBranch, "imported") \in Directory
    BY BareType, StoreAssumption DEF Kinds
  <2>4. dirs' \in [Names -> Directory \union {None}]
    BY <1>3, <2>3, <2>1 DEF CloneBegin, TypeOK, MakeJob
  <2> QED
    BY <1>3, <2>2, <2>4 DEF CloneBegin, TypeOK
<1>4. ASSUME NEW p \in Procs, CloneEnd(p) PROVE TypeOK'
  <2>1. job[p] \in MakeJob /\ job[p].name \in Names
    BY <1>4, JobKinds DEF CloneEnd, MakeJob
  <2>2. \A q \in Procs : job[q].step = "write" => [job[q] EXCEPT !.linked = FALSE] \in Job
    BY JobKinds DEF Job, WriteJob
  <2>3. Unlink(p, job[p].name) => job' \in [Procs -> Job]
    BY <2>2 DEF Unlink, TypeOK, Job
  <2>4. job' \in [Procs -> Job]
    BY <1>4, <2>1, <2>3, AdvanceType DEF CloneEnd
  <2>5. dirs' \in [Names -> Directory \union {None}]
    <3>1. CASE dirs' = [dirs EXCEPT ![job[p].name] = None]
      BY <2>1, <3>1 DEF TypeOK
    <3>2. ASSUME NEW head \in Branches, dirs' = [dirs EXCEPT ![job[p].name].head = head]
          PROVE  dirs' \in [Names -> Directory \union {None}]
      <4>1. dirs[job[p].name] \in Directory
        BY <1>4, <2>1 DEF CloneEnd, Grounded, TypeOK
      <4>2. [dirs[job[p].name] EXCEPT !.head = head] \in Directory
        BY <4>1, FieldTypes
      <4> QED
        BY <2>1, <3>2, <4>2, DirsType
    <3> QED
      BY <1>4, <3>1, <3>2 DEF CloneEnd
  <2> QED
    BY <1>4, <2>4, <2>5 DEF CloneEnd, TypeOK
<1>5. ASSUME NEW p \in Procs, EnableHTTP(p) PROVE TypeOK'
  <2>1. job[p] \in MakeJob /\ job[p].name \in Names
    BY <1>5, JobKinds DEF EnableHTTP, MakeJob
  <2>2. job' \in [Procs -> Job]
    BY <1>5, <2>1, FinishType, AdvanceType DEF EnableHTTP
  <2>3. dirs[job[p].name] # None => [dirs[job[p].name] EXCEPT !.push = TRUE] \in Directory
    BY <2>1, FieldTypes DEF TypeOK
  <2>4. dirs' \in [Names -> Directory \union {None}]
    BY <1>5, <2>1, <2>3, DirsType DEF EnableHTTP, TypeOK
  <2> QED
    BY <1>5, <2>2, <2>4 DEF EnableHTTP, TypeOK
<1>6. ASSUME NEW p \in Procs, OpenMetadata(p) PROVE TypeOK'
  <2>1. job[p] \in MakeJob /\ job[p].name \in Names
    BY <1>6, JobKinds DEF OpenMetadata, MakeJob
  <2>2. CASE Finish(p) /\ UNCHANGED dirs
    BY <1>6, <2>2, FinishType DEF OpenMetadata, TypeOK
  <2>3. ASSUME dirs[job[p].name] # None,
               dirs' = [dirs EXCEPT ![job[p].name].file = Empty],
               NEW branch \in BranchesOf(job[p].branch, dirs[job[p].name].head),
               Continue(p, [step |-> "write", name |-> job[p].name, linked |-> TRUE,
                            meta |-> Described(job[p].kind, branch)])
        PROVE  TypeOK'
    <3>1. dirs[job[p].name] \in Directory
      BY <2>1, <2>3 DEF TypeOK
    <3>2. branch \in Branches
      BY <2>1, <3>1, StoreAssumption DEF MakeJob, Directory, BranchesOf
    <3>3. Described(job[p].kind, branch) \in Metadata
      BY <2>1, <3>2 DEF MakeJob, Described, Metadata
    <3>4. [step |-> "write", name |-> job[p].name, linked |-> TRUE,
           meta |-> Described(job[p].kind, branch)] \in Job
      BY <2>1, <3>3 DEF Job, WriteJob
    <3>5. job' \in [Procs -> Job]
      BY <2>3, <3>4, JobType
    <3>6. [dirs[job[p].name] EXCEPT !.file = Empty] \in Directory
      BY <3>1, FieldTypes DEF Files
    <3>7. dirs' \in [Names -> Directory \union {None}]
      BY <2>1, <2>3, <3>6, DirsType
    <3> QED
      BY <1>6, <3>5, <3>7 DEF OpenMetadata, TypeOK
  <2> QED
    BY <1>6, <2>2, <2>3 DEF OpenMetadata
<1>7. ASSUME NEW p \in Procs, WriteMetadata(p) PROVE TypeOK'
  <2>1. job[p] \in WriteJob /\ job[p].name \in Names /\ job[p].meta \in Metadata
    BY <1>7, JobKinds DEF WriteMetadata, WriteJob
  <2>2. job' \in [Procs -> Job]
    BY <1>7, FinishType DEF WriteMetadata
  <2>3. \A file : Overwritten(file, job[p].meta) \in Files
    BY <2>1 DEF Overwritten, Files
  <2>4. dirs' \in [Names -> Directory \union {None}]
    <3>1. CASE dirs[job[p].name] # None
      <4>1. \A file \in Files : [dirs[job[p].name] EXCEPT !.file = file] \in Directory
        BY <2>1, <3>1, FieldTypes DEF TypeOK
      <4> QED
        BY <1>7, <2>1, <2>3, <4>1, DirsType DEF WriteMetadata, TypeOK
    <3>2. CASE dirs[job[p].name] = None
      BY <1>7, <3>2 DEF WriteMetadata, Grounded, TypeOK
    <3> QED
      BY <3>1, <3>2
  <2>5. answered' \in [Names -> 0 .. 2] /\ described' \in [Names -> Metadata \union {None}]
    BY <1>7, <2>1 DEF WriteMetadata, TypeOK
  <2> QED
    BY <1>7, <2>2, <2>4, <2>5 DEF WriteMetadata, TypeOK
<1>8. ASSUME NEW p \in Procs, ListBegin(p) PROVE TypeOK'
  <2> DEFINE j == [step |-> "list", todo |-> {n \in Names : dirs[n] # None},
                   shown |-> [n \in Names |-> None], owed |-> {n \in Names : answered[n] > 0}]
  <2>1. j \in Job
    BY DEF Job, ListJob
  <2>2. job' \in [Procs -> Job]
    BY <1>8, <2>1, JobType DEF ListBegin
  <2> QED
    BY <1>8, <2>2 DEF ListBegin, TypeOK
<1>9. ASSUME NEW p \in Procs, ListRead(p) PROVE TypeOK'
  <2>1. job[p] \in ListJob
    BY <1>9, JobKinds DEF ListRead
  <2>2. PICK n \in job[p].todo :
          IF dirs[n] # None /\ Torn(dirs[n].file) THEN Finish(p)
          ELSE Continue(p, [job[p] EXCEPT !.todo = @ \ {n}, !.shown[n] = Shown(n)])
    BY <1>9 DEF ListRead
  <2>3. CASE dirs[n] # None /\ Torn(dirs[n].file)
    <3>1. job' \in [Procs -> Job]
      BY <2>2, <2>3, FinishType
    <3> QED
      BY <1>9, <3>1 DEF ListRead, TypeOK
  <2>4. CASE ~(dirs[n] # None /\ Torn(dirs[n].file))
    <3>1. n \in Names
      BY <2>1 DEF ListJob
    <3>2. Described("created", MainBranch) \in Metadata
      BY StoreAssumption DEF Described, Metadata, Kinds
    <3>3. dirs[n] # None => dirs[n].file \in Files
      BY <3>1 DEF TypeOK, Directory
    <3>4. Shown(n) \in Metadata
      BY <2>4, <3>2, <3>3 DEF Shown, Torn, Files
    <3>5. [job[p] EXCEPT !.todo = @ \ {n}, !.shown[n] = Shown(n)] \in Job
      BY <2>1, <3>1, <3>4 DEF Job, ListJob
    <3>6. job' \in [Procs -> Job]
      BY <2>2, <2>4, <3>5, JobType
    <3> QED
      BY <1>9, <3>6 DEF ListRead, TypeOK
  <2> QED
    BY <2>3, <2>4
<1>10. ASSUME NEW p \in Procs, ListEnd(p) PROVE TypeOK'
  BY <1>10, FinishType DEF ListEnd, TypeOK
<1>11. ASSUME NEW n \in Names, Push(n) PROVE TypeOK'
  BY <1>11 DEF Push, TypeOK
<1>12. CASE Restart
  BY <1>12 DEF Restart, TypeOK, Job
<1>13. CASE UNCHANGED vars
  BY <1>13 DEF vars, TypeOK
<1> QED
  BY <1>1, <1>2, <1>3, <1>4, <1>5, <1>6, <1>7, <1>8, <1>9, <1>10, <1>11, <1>12, <1>13 DEF Next

---------------------------------------------------------------------------
(* Clones and open files have their directory                              *)

\* A directory stays where it is as long as none is deleted, and an update of
\* one of its fields does not delete it.
LEMMA StillThere ==
  ASSUME TypeOK, NEW n \in Names, NEW d, dirs' = [dirs EXCEPT ![n] = d], d # None
  PROVE  dirs'[n] = d /\ \A m \in Names : dirs[m] # None => dirs'[m] # None
  BY DEF TypeOK

LEMMA Updated ==
  ASSUME TypeOK, NEW n \in Names, dirs[n] # None
  PROVE  /\ \A head \in Branches : [dirs[n] EXCEPT !.head = head] # None
         /\ [dirs[n] EXCEPT !.push = TRUE] # None
         /\ \A file \in Files : [dirs[n] EXCEPT !.file = file] # None
<1>1. dirs[n] \in Directory
  BY DEF TypeOK
<1> QED
  BY <1>1, FieldTypes, StoreAssumption

\* A step of one request that deletes nothing keeps this, if the request does
\* not go on to clone or to write.
LEMMA KeepGround ==
  ASSUME TypeOK, Grounded, NEW p \in Procs,
         \A m \in Names : dirs[m] # None => dirs'[m] # None,
         \A q \in Procs : q # p => job'[q] = job[q],
         job'[p].step \notin {"cloning", "write"}
  PROVE  Grounded'
<1>1. \A q \in Procs : job[q].step \in {"cloning", "write"} => job[q].name \in Names
  BY JobKinds DEF MakeJob, WriteJob
<1>2. \A q \in Procs : job'[q].step \in {"cloning", "write"} => q # p /\ job'[q] = job[q]
  OBVIOUS
<1> QED
  BY <1>1, <1>2 DEF Grounded

LEMMA GroundedStep == TypeOK /\ Grounded /\ [Next]_vars => Grounded'
<1> SUFFICES ASSUME TypeOK, Grounded, [Next]_vars PROVE Grounded'
  OBVIOUS
<1>1. ASSUME NEW p \in Procs, StatDirectory(p) PROVE Grounded'
  <2>1. PICK n \in Names, request \in Requests :
          job' = [job EXCEPT ![p] = [step |-> FirstStep(request), name |-> n,
                                     kind |-> request.kind, branch |-> BranchFor(request)]]
    BY <1>1 DEF StatDirectory, Continue
  <2>2. /\ job'[p] = [step |-> FirstStep(request), name |-> n,
                      kind |-> request.kind, branch |-> BranchFor(request)]
        /\ \A q \in Procs : q # p => job'[q] = job[q]
    BY <2>1, OneJob
  <2>3. job'[p].step \notin {"cloning", "write"}
    BY <2>2 DEF FirstStep
  <2> QED
    BY <1>1, <2>2, <2>3, KeepGround DEF StatDirectory
<1>2. ASSUME NEW p \in Procs, InitBare(p) PROVE Grounded'
  <2>1. job[p] \in MakeJob /\ job[p].name \in Names
    BY <1>2, JobKinds DEF InitBare, MakeJob
  <2>2. job'[p].step \notin {"cloning", "write"} /\ \A q \in Procs : q # p => job'[q] = job[q]
    BY <1>2, <2>1, Finished, Advanced DEF InitBare
  <2>3. \A m \in Names : dirs[m] # None => dirs'[m] # None
    BY <1>2, <2>1 DEF InitBare, TypeOK
  <2> QED
    BY <2>2, <2>3, KeepGround
<1>3. ASSUME NEW p \in Procs, CloneBegin(p) PROVE Grounded'
  <2>1. job[p] \in MakeJob /\ job[p].name \in Names
    BY <1>3, JobKinds DEF CloneBegin, MakeJob
  <2>2. CASE Finish(p) /\ UNCHANGED dirs
    BY <2>2, Finished, KeepGround
  <2>3. CASE /\ dirs[job[p].name] = None
             /\ dirs' = [dirs EXCEPT ![job[p].name] = Bare(MainBranch, "imported")]
             /\ Advance(p, "cloning")
    <3>1. Bare(MainBranch, "imported") # None
      BY BareType, StoreAssumption DEF Kinds
    <3>2. dirs'[job[p].name] # None /\ \A m \in Names : dirs[m] # None => dirs'[m] # None
      BY <2>1, <2>3, <3>1, StillThere
    <3>3. /\ job'[p].step = "cloning" /\ job'[p].name = job[p].name
          /\ \A q \in Procs : q # p => job'[q] = job[q]
      BY <2>1, <2>3, Advanced
    <3>4. \A q \in Procs : job[q].step \in {"cloning", "write"} => job[q].name \in Names
      BY JobKinds DEF MakeJob, WriteJob
    <3>5. \A q \in Procs : job[q].step = "cloning" => job[q].name # job[p].name
      BY <2>3 DEF Grounded
    <3> QED
      BY <3>2, <3>3, <3>4, <3>5 DEF Grounded
  <2> QED
    BY <1>3, <2>2, <2>3 DEF CloneBegin
<1>4. ASSUME NEW p \in Procs, CloneEnd(p) PROVE Grounded'
  <2>1. job[p] \in MakeJob /\ job[p].name \in Names /\ job[p].step = "cloning"
    BY <1>4, JobKinds DEF CloneEnd, MakeJob
  <2>2. dirs[job[p].name] # None
    BY <2>1 DEF Grounded
  <2>3. ASSUME NEW head \in Branches, dirs' = [dirs EXCEPT ![job[p].name].head = head],
               Advance(p, "config")
        PROVE  Grounded'
    <3>1. \A m \in Names : dirs[m] # None => dirs'[m] # None
      BY <2>1, <2>2, <2>3, Updated, StillThere
    <3>2. job'[p].step = "config" /\ \A q \in Procs : q # p => job'[q] = job[q]
      BY <2>1, <2>3, Advanced
    <3> QED
      BY <3>1, <3>2, KeepGround
  <2>4. CASE dirs' = [dirs EXCEPT ![job[p].name] = None] /\ Unlink(p, job[p].name)
    <3>1. \A m \in Names : m # job[p].name => dirs'[m] = dirs[m]
      BY <2>4 DEF TypeOK
    <3>2. job'[p].step = "idle"
      BY <2>4 DEF Unlink, Idle
    <3>3. ASSUME NEW q \in Procs, q # p, job[q].step = "write", job[q].name = job[p].name
          PROVE  job'[q].step = "write" /\ ~job'[q].linked
      <4>1. job[q] \in WriteJob
        BY <3>3, JobKinds
      <4> QED
        BY <2>4, <3>3, <4>1 DEF Unlink, WriteJob
    <3>4. \A q \in Procs : q # p /\ ~(job[q].step = "write" /\ job[q].name = job[p].name)
                            => job'[q] = job[q]
      BY <2>4 DEF Unlink
    <3>5. \A q \in Procs : q # p /\ job[q].step = "cloning" => job[q].name # job[p].name
      BY <2>1 DEF Grounded
    <3>6. \A q \in Procs : job[q].step \in {"cloning", "write"} => job[q].name \in Names
      BY JobKinds DEF MakeJob, WriteJob
    <3>7. \A q \in Procs :
            job'[q].step = "cloning" \/ (job'[q].step = "write" /\ job'[q].linked)
              => q # p /\ job'[q] = job[q] /\ job[q].name # job[p].name
      BY <3>2, <3>3, <3>4, <3>5
    <3> QED
      BY <3>1, <3>6, <3>7 DEF Grounded
  <2> QED
    BY <1>4, <2>3, <2>4 DEF CloneEnd
<1>5. ASSUME NEW p \in Procs, EnableHTTP(p) PROVE Grounded'
  <2>1. job[p] \in MakeJob /\ job[p].name \in Names
    BY <1>5, JobKinds DEF EnableHTTP, MakeJob
  <2>2. job'[p].step \notin {"cloning", "write"} /\ \A q \in Procs : q # p => job'[q] = job[q]
    BY <1>5, <2>1, Finished, Advanced DEF EnableHTTP
  <2>3. CASE dirs[job[p].name] # None /\ dirs' = [dirs EXCEPT ![job[p].name].push = TRUE]
    <3>1. \A m \in Names : dirs[m] # None => dirs'[m] # None
      BY <2>1, <2>3, Updated, StillThere
    <3> QED
      BY <2>2, <3>1, KeepGround
  <2>4. CASE UNCHANGED dirs
    BY <2>2, <2>4, KeepGround
  <2> QED
    BY <1>5, <2>3, <2>4 DEF EnableHTTP
<1>6. ASSUME NEW p \in Procs, OpenMetadata(p) PROVE Grounded'
  <2>1. job[p] \in MakeJob /\ job[p].name \in Names
    BY <1>6, JobKinds DEF OpenMetadata, MakeJob
  <2>2. CASE Finish(p) /\ UNCHANGED dirs
    BY <2>2, Finished, KeepGround
  <2>3. ASSUME NEW m, dirs[job[p].name] # None,
               dirs' = [dirs EXCEPT ![job[p].name].file = Empty],
               job' = [job EXCEPT ![p] = [step |-> "write", name |-> job[p].name,
                                          linked |-> TRUE, meta |-> m]]
        PROVE  Grounded'
    <3>1. [dirs[job[p].name] EXCEPT !.file = Empty] # None
      BY <2>1, <2>3, Updated DEF Files
    <3>2. dirs'[job[p].name] # None /\ \A n \in Names : dirs[n] # None => dirs'[n] # None
      BY <2>1, <2>3, <3>1, StillThere
    <3>3. job'[p] = [step |-> "write", name |-> job[p].name, linked |-> TRUE, meta |-> m]
          /\ \A q \in Procs : q # p => job'[q] = job[q]
      BY <2>3, OneJob
    <3>4. job'[p].step = "write" /\ job'[p].name = job[p].name
      BY <3>3
    <3>5. \A q \in Procs : job[q].step \in {"cloning", "write"} => job[q].name \in Names
      BY JobKinds DEF MakeJob, WriteJob
    <3>6. \A q \in Procs : job'[q].step = "cloning" => q # p
      BY <3>4
    <3>7. \A q \in Procs : q # p => job'[q] = job[q]
      BY <3>3
    <3> QED
      BY <3>2, <3>4, <3>5, <3>6, <3>7 DEF Grounded
  <2> QED
    BY <1>6, <2>2, <2>3 DEF OpenMetadata, Continue
<1>7. ASSUME NEW p \in Procs, WriteMetadata(p) PROVE Grounded'
  <2>1. job[p] \in WriteJob /\ job[p].name \in Names /\ job[p].meta \in Metadata
        /\ job[p].step = "write"
    BY <1>7, JobKinds DEF WriteMetadata, WriteJob
  <2>2. job'[p].step = "idle" /\ \A q \in Procs : q # p => job'[q] = job[q]
    BY <1>7, Finished DEF WriteMetadata
  <2>3. CASE /\ job[p].linked
             /\ dirs' = [dirs EXCEPT ![job[p].name].file =
                           Overwritten(dirs[job[p].name].file, job[p].meta)]
    <3>1. Overwritten(dirs[job[p].name].file, job[p].meta) \in Files
      BY <2>1 DEF Overwritten, Files
    <3>2. dirs[job[p].name] # None
      BY <2>1, <2>3 DEF Grounded
    <3>3. \A m \in Names : dirs[m] # None => dirs'[m] # None
      BY <2>1, <2>3, <3>1, <3>2, Updated, StillThere
    <3> QED
      BY <2>2, <3>3, KeepGround
  <2>4. CASE UNCHANGED dirs
    BY <2>2, <2>4, KeepGround
  <2> QED
    BY <1>7, <2>3, <2>4 DEF WriteMetadata
<1>8. ASSUME NEW p \in Procs, ListBegin(p) \/ ListRead(p) \/ ListEnd(p) PROVE Grounded'
  BY <1>8, ListerJob, KeepGround DEF ListBegin, ListRead, ListEnd
<1>9. ASSUME NEW n \in Names, Push(n) PROVE Grounded'
  BY <1>9 DEF Push, Grounded
<1>10. CASE Restart
  BY <1>10 DEF Restart, Grounded, Idle
<1>11. CASE UNCHANGED vars
  BY <1>11 DEF vars, Grounded
<1> QED
  BY <1>1, <1>2, <1>3, <1>4, <1>5, <1>6, <1>7, <1>8, <1>9, <1>10, <1>11 DEF Next

---------------------------------------------------------------------------
(* The inductive step                                                      *)

\* What a call of a request that makes n may touch: n and the request.
MakerOf(p, n) ==
  /\ Making(p, n)
  /\ UNCHANGED <<pushed, contested>>
  /\ \A m \in Names : m # n =>
       dirs'[m] = dirs[m] /\ answered'[m] = answered[m] /\ described'[m] = described[m]
  /\ \A q \in Procs : q # p =>
       \/ job'[q] = job[q]
       \/ /\ job[q].step = "write" /\ job'[q].step = "write"
          /\ job[q].name = n /\ job'[q].name = n
  /\ job'[p].step = "idle" \/ Making(p, n)'
  /\ \/ answered'[n] = answered[n] /\ described'[n] = described[n]
     \/ n \notin contested /\ answered'[n] = 1 /\ described'[n] \in Metadata

\* Of n it must leave what the invariant says of it.
LEMMA MakerStep ==
  ASSUME IInv, TypeOK', Grounded', NEW p \in Procs, NEW n \in Names, MakerOf(p, n),
         n \notin contested =>
           /\ Sound(n)'
           /\ answered'[n] < 2
           /\ Making(p, n)' => answered'[n] = 0 /\ Progress(p, n)' /\ Fitting(p, n)'
  PROVE  IInv'
<1> USE DEF MakerOf
<1>1. ServedOnce'
  BY DEF IInv, ServedOnce
<1>2. ASSUME NEW m \in Names \ contested', m # n
      PROVE  Sound(m)' /\ OneMaker(m)'
  <2>1. Sound(m) /\ OneMaker(m)
    BY <1>2 DEF IInv
  <2>2. Sound(m)'
    BY <1>2, <2>1 DEF Sound
  <2>3. \A q \in Procs : Making(q, m)' => Making(q, m) /\ job'[q] = job[q]
    BY <1>2 DEF Making
  <2>4. OneMaker(m)'
    BY <1>2, <2>1, <2>3 DEF OneMaker, Progress, Fitting
  <2> QED
    BY <2>2, <2>4
<1>3. ASSUME n \notin contested'
      PROVE  Sound(n)' /\ OneMaker(n)'
  <2>1. \A q \in Procs : Making(q, n) => q = p
    BY <1>3 DEF IInv, OneMaker
  <2>2. \A q \in Procs : Making(q, n)' => q = p
    BY <2>1 DEF Making
  <2> QED
    BY <1>3, <2>2 DEF OneMaker
<1>4. ASSUME NEW q \in Procs PROVE Listing(q)'
  <2>1. job'[q].step = "list" => job'[q] = job[q]
    BY DEF Making
  <2>2. n \notin contested => answered[n] = 0
    BY DEF IInv, OneMaker
  <2>3. job[q].step = "list" => job[q].owed \subseteq Names
    BY JobKinds DEF IInv, ListJob
  <2> QED
    BY <2>1, <2>2, <2>3 DEF IInv, Listing
<1> QED
  BY <1>1, <1>2, <1>3, <1>4 DEF IInv

LEMMA InitBareStep ==
  ASSUME IInv, TypeOK', Grounded', NEW p \in Procs, InitBare(p)
  PROVE  IInv' /\ \E n \in Names : MakerOf(p, n)
<1>1. PICK n \in Names : n = job[p].name /\ job[p].step = "init" /\ Making(p, n)
  BY JobKinds DEF IInv, InitBare, MakeJob, Making
<1>2. job[p] \in MakeJob
  BY <1>1, JobKinds DEF IInv
<1>3. UNCHANGED <<answered, described, pushed, contested>>
  BY DEF InitBare
<1>4. /\ \A q \in Procs : q # p => job'[q] = job[q]
      /\ \/ job'[p].step = "idle"
         \/ /\ job'[p].step = "config" /\ job'[p].name = n
            /\ job'[p].kind = job[p].kind /\ job'[p].branch = job[p].branch
            /\ dirs' = IF dirs[n] = None
                       THEN [dirs EXCEPT ![n] = Bare(job[p].branch, "created")] ELSE dirs
  BY <1>1, <1>2, Finished, Advanced DEF IInv, InitBare
<1>5. \/ dirs' = dirs
      \/ dirs[n] = None /\ dirs' = [dirs EXCEPT ![n] = Bare(job[p].branch, "created")]
  BY <1>1 DEF InitBare
<1>6. \A m \in Names : m # n => dirs'[m] = dirs[m]
  BY <1>5 DEF IInv, TypeOK
<1>7. ASSUME n \notin contested
      PROVE  /\ Sound(n)'
             /\ answered'[n] < 2
             /\ Making(p, n)' => answered'[n] = 0 /\ Progress(p, n)' /\ Fitting(p, n)'
  <2>1. dirs[n] = None /\ answered[n] = 0 /\ job[p].kind = "created" /\ Sound(n)
    BY <1>1, <1>2, <1>7 DEF IInv, OneMaker, Progress, MakeJob
  <2>2. n \notin pushed /\ described[n] = None
    BY <2>1 DEF Sound
  <2>3. \/ dirs'[n] = None /\ job'[p].step = "idle"
        \/ dirs'[n] = Bare(job[p].branch, "created")
    BY <1>4, <1>5, <2>1 DEF IInv, TypeOK
  <2>4. dirs'[n] # None =>
          /\ dirs'[n].head = job[p].branch /\ ~dirs'[n].push
          /\ dirs'[n].file = Absent /\ dirs'[n].origin = "created"
    BY <2>3 DEF Bare
  <2>5. Sound(n)'
    BY <1>3, <2>1, <2>2, <2>4, StoreAssumption DEF Sound
  <2>6. Making(p, n)' => dirs'[n] # None
    <3>1. Bare(job[p].branch, "created") \in Directory
      BY <1>2, <2>1, BareType DEF MakeJob, Kinds
    <3> QED
      BY <2>3, <3>1, StoreAssumption DEF Making
  <2>7. Making(p, n)' =>
          job'[p].step = "config" /\ job'[p].kind = "created" /\ job'[p].branch = job[p].branch
    BY <1>4, <2>1 DEF Making
  <2>8. Making(p, n)' => Progress(p, n)' /\ Fitting(p, n)'
    BY <2>1, <2>4, <2>6, <2>7 DEF Progress, Fitting
  <2> QED
    BY <1>3, <2>1, <2>5, <2>8
<1>8. MakerOf(p, n)
  BY <1>1, <1>3, <1>4, <1>6 DEF MakerOf, Making
<1> QED
  BY <1>7, <1>8, MakerStep

LEMMA CloneBeginStep ==
  ASSUME IInv, TypeOK', Grounded', NEW p \in Procs, CloneBegin(p)
  PROVE  IInv' /\ \E n \in Names : MakerOf(p, n)
<1>1. PICK n \in Names : n = job[p].name /\ job[p].step = "clone" /\ Making(p, n)
  BY JobKinds DEF IInv, CloneBegin, MakeJob, Making
<1>2. job[p] \in MakeJob /\ job[p].kind = "imported"
  BY <1>1, JobKinds DEF IInv, MakeJob
<1>3. UNCHANGED <<answered, described, pushed, contested>>
  BY DEF CloneBegin
<1>4. /\ \A q \in Procs : q # p => job'[q] = job[q]
      /\ \/ job'[p].step = "idle" /\ dirs' = dirs
         \/ /\ job'[p].step = "cloning" /\ job'[p].name = n /\ job'[p].kind = "imported"
            /\ dirs[n] = None /\ dirs' = [dirs EXCEPT ![n] = Bare(MainBranch, "imported")]
  BY <1>1, <1>2, Finished, Advanced DEF IInv, CloneBegin
<1>5. \A m \in Names : m # n => dirs'[m] = dirs[m]
  BY <1>4 DEF IInv, TypeOK
<1>6. ASSUME n \notin contested
      PROVE  /\ Sound(n)'
             /\ answered'[n] < 2
             /\ Making(p, n)' => answered'[n] = 0 /\ Progress(p, n)' /\ Fitting(p, n)'
  <2>1. dirs[n] = None /\ answered[n] = 0 /\ Sound(n)
    BY <1>1, <1>6 DEF IInv, OneMaker, Progress
  <2>2. n \notin pushed /\ described[n] = None
    BY <2>1 DEF Sound
  <2>3. CASE job'[p].step = "idle" /\ dirs' = dirs
    BY <1>3, <2>1, <2>2, <2>3 DEF Sound, Making
  <2>4. CASE /\ job'[p].step = "cloning" /\ job'[p].kind = "imported"
             /\ dirs' = [dirs EXCEPT ![n] = Bare(MainBranch, "imported")]
    <3>1. dirs'[n] = Bare(MainBranch, "imported")
      BY <2>4 DEF IInv, TypeOK
    <3>2. Bare(MainBranch, "imported") # None
      BY BareType, StoreAssumption DEF Kinds
    <3>3. /\ dirs'[n] # None /\ ~dirs'[n].push /\ dirs'[n].file = Absent
          /\ dirs'[n].origin = "imported"
      BY <3>1, <3>2 DEF Bare
    <3>4. Sound(n)'
      BY <1>3, <2>1, <2>2, <3>3, StoreAssumption DEF Sound
    <3> QED
      BY <1>3, <2>1, <2>4, <3>3, <3>4 DEF Progress, Fitting
  <2> QED
    BY <1>4, <2>3, <2>4
<1>7. MakerOf(p, n)
  BY <1>1, <1>3, <1>4, <1>5 DEF MakerOf, Making
<1> QED
  BY <1>6, <1>7, MakerStep

LEMMA CloneEndStep ==
  ASSUME IInv, TypeOK', Grounded', NEW p \in Procs, CloneEnd(p)
  PROVE  IInv' /\ \E n \in Names : MakerOf(p, n)
<1>1. PICK n \in Names : n = job[p].name /\ job[p].step = "cloning" /\ Making(p, n)
  BY JobKinds DEF IInv, CloneEnd, MakeJob, Making
<1>2. job[p] \in MakeJob
  BY <1>1, JobKinds DEF IInv
<1>3. UNCHANGED <<answered, described, pushed, contested>>
  BY DEF CloneEnd
<1>4. dirs[n] \in Directory
  BY <1>1 DEF IInv, Grounded, TypeOK
<1>5. ASSUME n \notin contested
      PROVE  /\ dirs[n].file = Absent /\ ~dirs[n].push /\ answered[n] = 0 /\ Sound(n)
             /\ n \notin pushed /\ dirs[n].origin = job[p].kind /\ job[p].kind = "imported"
  <2>1. dirs[n].file = Absent /\ ~dirs[n].push /\ answered[n] = 0 /\ Sound(n)
        /\ dirs[n].origin = job[p].kind
    BY <1>1, <1>5 DEF IInv, OneMaker, Progress, Fitting
  <2>2. n \notin pushed
    BY <2>1 DEF Sound
  <2> QED
    BY <1>1, <1>2, <2>1, <2>2 DEF MakeJob
<1>6. ASSUME NEW head \in Branches, dirs' = [dirs EXCEPT ![n].head = head], Advance(p, "config")
      PROVE  IInv' /\ MakerOf(p, n)
  <2>1. /\ job'[p].step = "config" /\ job'[p].name = n /\ job'[p].kind = job[p].kind
        /\ \A q \in Procs : q # p => job'[q] = job[q]
    BY <1>1, <1>2, <1>6, Advanced DEF IInv
  <2>2. /\ dirs'[n] = [dirs[n] EXCEPT !.head = head]
        /\ \A m \in Names : m # n => dirs'[m] = dirs[m]
    BY <1>6 DEF IInv, TypeOK
  <2>3. /\ dirs'[n] # None /\ dirs'[n].file = dirs[n].file
        /\ dirs'[n].push = dirs[n].push /\ dirs'[n].origin = dirs[n].origin
    BY <1>4, <2>2, FieldTypes, StoreAssumption DEF Directory
  <2>4. ASSUME n \notin contested
        PROVE  /\ Sound(n)'
               /\ answered'[n] < 2
               /\ Making(p, n)' => answered'[n] = 0 /\ Progress(p, n)' /\ Fitting(p, n)'
    <3>1. Sound(n)'
      BY <1>3, <1>5, <2>3, <2>4, StoreAssumption DEF Sound
    <3> QED
      BY <1>3, <1>5, <2>1, <2>3, <2>4, <3>1 DEF Progress, Fitting
  <2>5. MakerOf(p, n)
    BY <1>1, <1>3, <2>1, <2>2 DEF MakerOf, Making
  <2> QED
    BY <2>4, <2>5, MakerStep
<1>7. CASE dirs' = [dirs EXCEPT ![n] = None] /\ Unlink(p, n)
  <2>1. job'[p].step = "idle"
    BY <1>7 DEF Unlink, Idle
  <2>2. \A q \in Procs : q # p =>
          \/ job'[q] = job[q]
          \/ /\ job[q].step = "write" /\ job'[q].step = "write"
             /\ job[q].name = n /\ job'[q].name = n
    <3> SUFFICES ASSUME NEW q \in Procs, q # p, job[q].step = "write", job[q].name = n
                 PROVE  job'[q].step = "write" /\ job'[q].name = n
      BY <1>7 DEF Unlink
    <3>1. job[q] \in WriteJob
      BY JobKinds DEF IInv
    <3> QED
      BY <1>7, <3>1 DEF Unlink, WriteJob
  <2>3. dirs'[n] = None /\ \A m \in Names : m # n => dirs'[m] = dirs[m]
    BY <1>7 DEF IInv, TypeOK
  <2>4. ASSUME n \notin contested
        PROVE  Sound(n)' /\ answered'[n] < 2
    BY <1>3, <1>5, <2>3, <2>4 DEF Sound
  <2>5. ~Making(p, n)'
    BY <2>1 DEF Making
  <2>6. MakerOf(p, n)
    BY <1>1, <1>3, <2>1, <2>2, <2>3 DEF MakerOf
  <2> QED
    BY <2>4, <2>5, <2>6, MakerStep
<1> QED
  BY <1>1, <1>6, <1>7 DEF CloneEnd

LEMMA EnableHTTPStep ==
  ASSUME IInv, TypeOK', Grounded', NEW p \in Procs, EnableHTTP(p)
  PROVE  IInv' /\ \E n \in Names : MakerOf(p, n)
<1>1. PICK n \in Names : n = job[p].name /\ job[p].step = "config" /\ Making(p, n)
  BY JobKinds DEF IInv, EnableHTTP, MakeJob, Making
<1>2. job[p] \in MakeJob
  BY <1>1, JobKinds DEF IInv
<1>3. UNCHANGED <<answered, described, pushed, contested>>
  BY DEF EnableHTTP
<1>4. \A q \in Procs : q # p => job'[q] = job[q]
  BY <1>2, Finished, Advanced DEF IInv, EnableHTTP
<1>5. \/ job'[p].step = "idle" /\ dirs' = dirs
      \/ /\ dirs[n] # None /\ dirs' = [dirs EXCEPT ![n].push = TRUE]
         /\ \/ job'[p].step = "idle"
            \/ /\ job'[p].step = "metadata" /\ job'[p].name = n
               /\ job'[p].kind = job[p].kind /\ job'[p].branch = job[p].branch
  BY <1>1, <1>2, Finished, Advanced DEF IInv, EnableHTTP
<1>6. \A m \in Names : m # n => dirs'[m] = dirs[m]
  BY <1>5 DEF IInv, TypeOK
<1>7. ASSUME n \notin contested
      PROVE  /\ Sound(n)'
             /\ answered'[n] < 2
             /\ Making(p, n)' => answered'[n] = 0 /\ Progress(p, n)' /\ Fitting(p, n)'
  <2>1. /\ dirs[n].file = Absent /\ answered[n] = 0 /\ Sound(n)
        /\ dirs[n].origin = job[p].kind
        /\ job[p].kind = "created" => dirs[n].head = job[p].branch
    BY <1>1, <1>7 DEF IInv, OneMaker, Progress, Fitting
  <2>2. CASE job'[p].step = "idle" /\ dirs' = dirs
    BY <1>3, <2>1, <2>2 DEF Sound, Making
  <2>3. CASE dirs[n] # None /\ dirs' = [dirs EXCEPT ![n].push = TRUE]
    <3>1. dirs'[n] = [dirs[n] EXCEPT !.push = TRUE] /\ dirs[n] \in Directory
      BY <2>3 DEF IInv, TypeOK
    <3>2. /\ dirs'[n] # None /\ dirs'[n].push /\ dirs'[n].file = Absent
          /\ dirs'[n].origin = dirs[n].origin /\ dirs'[n].head = dirs[n].head
      BY <2>1, <3>1, FieldTypes, StoreAssumption DEF Directory
    <3>3. Sound(n)'
      BY <1>3, <2>1, <3>2, StoreAssumption DEF Sound
    <3>4. Making(p, n)' => Progress(p, n)' /\ Fitting(p, n)'
      BY <1>5, <2>1, <3>2 DEF Making, Progress, Fitting
    <3> QED
      BY <1>3, <2>1, <3>3, <3>4
  <2> QED
    BY <1>5, <2>2, <2>3
<1>8. MakerOf(p, n)
  BY <1>1, <1>3, <1>4, <1>5, <1>6 DEF MakerOf, Making
<1> QED
  BY <1>7, <1>8, MakerStep

LEMMA OpenMetadataStep ==
  ASSUME IInv, TypeOK', Grounded', NEW p \in Procs, OpenMetadata(p)
  PROVE  IInv' /\ \E n \in Names : MakerOf(p, n)
<1>1. PICK n \in Names : n = job[p].name /\ job[p].step = "metadata" /\ Making(p, n)
  BY JobKinds DEF IInv, OpenMetadata, MakeJob, Making
<1>2. job[p] \in MakeJob
  BY <1>1, JobKinds DEF IInv
<1>3. UNCHANGED <<answered, described, pushed, contested>>
  BY DEF OpenMetadata
<1>4. CASE Finish(p) /\ UNCHANGED dirs
  <2>1. job'[p].step = "idle" /\ \A q \in Procs : q # p => job'[q] = job[q]
    BY <1>4, Finished DEF IInv
  <2>2. ~Making(p, n)'
    BY <2>1 DEF Making
  <2>3. n \notin contested => Sound(n)' /\ answered'[n] < 2
    BY <1>3, <1>4 DEF IInv, Sound, ServedOnce
  <2>4. MakerOf(p, n)
    BY <1>1, <1>3, <1>4, <2>1 DEF MakerOf
  <2> QED
    BY <2>2, <2>3, <2>4, MakerStep
<1>5. ASSUME NEW branch \in BranchesOf(job[p].branch, dirs[n].head), dirs[n] # None, dirs' = [dirs EXCEPT ![n].file = Empty],
             job' = [job EXCEPT ![p] = [step |-> "write", name |-> n, linked |-> TRUE,
                                        meta |-> Described(job[p].kind, branch)]]
      PROVE  IInv' /\ MakerOf(p, n)
  <2>1. /\ job'[p] = [step |-> "write", name |-> n, linked |-> TRUE,
                      meta |-> Described(job[p].kind, branch)]
        /\ \A q \in Procs : q # p => job'[q] = job[q]
    BY <1>5, OneJob DEF IInv
  <2>2. /\ job'[p].step = "write" /\ job'[p].name = n /\ job'[p].linked
        /\ job'[p].meta.kind = job[p].kind /\ job'[p].meta.branch = branch
    BY <2>1 DEF Described
  <2>3. /\ dirs'[n] = [dirs[n] EXCEPT !.file = Empty] /\ dirs[n] \in Directory
        /\ \A m \in Names : m # n => dirs'[m] = dirs[m]
    BY <1>5 DEF IInv, TypeOK
  <2>4. [dirs[n] EXCEPT !.file = Empty] # None
    BY <1>5, Updated DEF IInv, Files
  <2>5. /\ dirs'[n] # None /\ dirs'[n].file = Empty /\ dirs'[n].push = dirs[n].push
        /\ dirs'[n].origin = dirs[n].origin /\ dirs'[n].head = dirs[n].head
    BY <2>3, <2>4 DEF Directory
  <2>6. ASSUME n \notin contested
        PROVE  /\ Sound(n)'
               /\ answered'[n] < 2
               /\ Making(p, n)' => answered'[n] = 0 /\ Progress(p, n)' /\ Fitting(p, n)'
    <3>1. /\ dirs[n].push /\ answered[n] = 0 /\ Sound(n) /\ dirs[n].origin = job[p].kind
          /\ job[p].kind = "created" => dirs[n].head = job[p].branch
      BY <1>1, <2>6 DEF IInv, OneMaker, Progress, Fitting
    <3>2. Sound(n)'
      BY <1>3, <2>5, <3>1, StoreAssumption DEF Sound
    <3>3. job[p].kind = "created" => branch = job[p].branch
      BY <1>2, <1>5 DEF MakeJob, BranchesOf
    <3> QED
      BY <1>3, <2>2, <2>5, <3>1, <3>2, <3>3 DEF Progress, Fitting
  <2>7. MakerOf(p, n)
    BY <1>1, <1>3, <2>1, <2>2, <2>3 DEF MakerOf, Making
  <2> QED
    BY <2>6, <2>7, MakerStep
<1> QED
  BY <1>1, <1>4, <1>5 DEF OpenMetadata, Continue

LEMMA WriteMetadataStep ==
  ASSUME IInv, TypeOK', Grounded', NEW p \in Procs, WriteMetadata(p)
  PROVE  IInv' /\ \E n \in Names : MakerOf(p, n)
<1>1. PICK n \in Names : n = job[p].name /\ job[p].step = "write" /\ Making(p, n)
  BY JobKinds DEF IInv, WriteMetadata, WriteJob, Making
<1>2. job[p] \in WriteJob
  BY <1>1, JobKinds DEF IInv
<1>3. PICK meta \in Metadata : meta = job[p].meta
  BY <1>2 DEF WriteJob
<1>4. UNCHANGED <<pushed, contested>>
  BY DEF WriteMetadata
<1>5. job'[p].step = "idle" /\ ~Making(p, n)' /\ \A q \in Procs : q # p => job'[q] = job[q]
  BY Finished DEF IInv, WriteMetadata, Making
<1>6. /\ \/ UNCHANGED dirs
         \/ job[p].linked /\ dirs' = [dirs EXCEPT ![n].file = Overwritten(dirs[n].file, meta)]
      /\ \/ UNCHANGED <<answered, described>>
         \/ /\ n \notin contested
            /\ job[p].linked =>
                 dirs' = [dirs EXCEPT ![n].file = Overwritten(dirs[n].file, meta)]
            /\ answered' = [answered EXCEPT ![n] = IF @ = 0 THEN 1 ELSE 2]
            /\ described' = [described EXCEPT ![n] = meta]
  BY <1>1, <1>3 DEF WriteMetadata
<1>7. /\ \A m \in Names : m # n =>
           dirs'[m] = dirs[m] /\ answered'[m] = answered[m] /\ described'[m] = described[m]
      /\ n \in contested => answered'[n] = answered[n] /\ described'[n] = described[n]
  BY <1>6 DEF IInv, TypeOK
<1>8. ASSUME n \notin contested
      PROVE  /\ Sound(n)' /\ answered'[n] < 2
             /\ \/ answered'[n] = answered[n] /\ described'[n] = described[n]
                \/ answered'[n] = 1 /\ described'[n] \in Metadata
  <2>1. /\ dirs[n] # None /\ dirs[n].file = Empty /\ dirs[n].push /\ job[p].linked
        /\ answered[n] = 0 /\ described[n] = None /\ Sound(n) /\ dirs[n].origin = meta.kind
        /\ meta.kind = "created" => dirs[n].head = meta.branch
    BY <1>1, <1>3, <1>8 DEF IInv, OneMaker, Progress, Fitting, Sound
  <2>2. CASE UNCHANGED <<dirs, answered, described>>
    BY <1>4, <2>1, <2>2 DEF Sound
  <2>3. CASE dirs' = [dirs EXCEPT ![n].file = Overwritten(dirs[n].file, meta)]
    <3>1. Overwritten(dirs[n].file, meta) = meta
      BY <2>1, StoreAssumption DEF Overwritten
    <3>2. dirs'[n] = [dirs[n] EXCEPT !.file = meta] /\ dirs[n] \in Directory
      BY <2>1, <2>3, <3>1 DEF IInv, TypeOK
    <3>3. [dirs[n] EXCEPT !.file = meta] # None
      BY <2>1, Updated DEF IInv, Files
    <3>4. /\ dirs'[n] # None /\ dirs'[n].file = meta /\ dirs'[n].push
          /\ dirs'[n].origin = dirs[n].origin /\ dirs'[n].head = dirs[n].head
      BY <2>1, <3>2, <3>3 DEF Directory
    <3>5. \/ answered'[n] = 0 /\ described'[n] = None
          \/ answered'[n] = 1 /\ described'[n] = meta
      BY <1>6, <2>1 DEF IInv, TypeOK
    <3> QED
      BY <1>4, <2>1, <3>4, <3>5 DEF Sound
  <2> QED
    BY <1>6, <2>1, <2>2, <2>3
<1>9. MakerOf(p, n)
  BY <1>1, <1>4, <1>5, <1>7, <1>8 DEF MakerOf
<1> QED
  BY <1>5, <1>8, <1>9, MakerStep

\* Finding a name free makes it this request's alone, or contested.
LEMMA StatDirectoryStep ==
  ASSUME IInv, TypeOK', Grounded', NEW p \in Procs, StatDirectory(p)
  PROVE  IInv'
<1>1. UNCHANGED <<dirs, answered, described, pushed>>
  BY DEF StatDirectory
<1>2. PICK n \in Names, request \in Requests :
        /\ dirs[n] = None
        /\ contested' = IF \E q \in Procs : Making(q, n) THEN contested \union {n} ELSE contested
        /\ job' = [job EXCEPT ![p] = [step |-> FirstStep(request), name |-> n, kind |-> request.kind,
                                      branch |-> BranchFor(request)]]
  BY DEF StatDirectory, Continue
<1>3. /\ job'[p].step \in {"init", "clone"} /\ job'[p].name = n
      /\ \A q \in Procs : q # p => job'[q] = job[q]
  <2>1. /\ job'[p] = [step |-> FirstStep(request), name |-> n, kind |-> request.kind,
                      branch |-> BranchFor(request)]
        /\ \A q \in Procs : q # p => job'[q] = job[q]
    BY <1>2, OneJob DEF IInv
  <2> QED
    BY <2>1 DEF FirstStep
<1>4. contested \subseteq contested'
  BY <1>2
<1>5. ASSUME NEW m \in Names \ contested' PROVE Sound(m)' /\ OneMaker(m)'
  <2>1. Sound(m) /\ OneMaker(m)
    BY <1>4, <1>5 DEF IInv
  <2>2. Sound(m)'
    BY <1>1, <2>1 DEF Sound
  <2>3. CASE m # n
    <3>1. \A q \in Procs : Making(q, m)' => q # p /\ job'[q] = job[q] /\ Making(q, m)
      BY <1>3, <2>3 DEF Making
    <3> QED
      BY <1>1, <2>1, <2>2, <3>1 DEF OneMaker, Progress, Fitting
  <2>4. CASE m = n
    <3>1. \A q \in Procs : ~Making(q, n)
      BY <1>2, <1>5, <2>4
    <3>2. \A q \in Procs : Making(q, n)' => q = p
      BY <1>3, <3>1 DEF Making
    <3>3. answered[n] = 0
      BY <1>2, <2>1, <2>4 DEF Sound, IInv, TypeOK
    <3>4. Progress(p, n)' /\ Fitting(p, n)'
      BY <1>1, <1>2, <1>3 DEF Progress, Fitting
    <3>5. OneMaker(n)'
      BY <1>1, <3>2, <3>3, <3>4 DEF OneMaker
    <3> QED
      BY <2>2, <2>4, <3>5
  <2> QED
    BY <2>3, <2>4
<1>6. ASSUME NEW q \in Procs PROVE Listing(q)'
  <2>1. job'[q].step = "list" => q # p /\ job'[q] = job[q]
    BY <1>3
  <2> QED
    BY <1>1, <1>4, <2>1 DEF IInv, Listing
<1>7. ServedOnce'
  BY <1>1 DEF IInv, ServedOnce
<1> QED
  BY <1>5, <1>6, <1>7 DEF IInv

\* A listing changes nothing but itself.
LEMMA ListerStep ==
  ASSUME IInv, TypeOK', Grounded', NEW p \in Procs,
         UNCHANGED <<dirs, answered, described, pushed, contested>>,
         \A q \in Procs : q # p => job'[q] = job[q],
         job'[p].step \in {"idle", "list"}, Listing(p)'
  PROVE  IInv'
<1>1. ASSUME NEW m \in Names \ contested' PROVE Sound(m)' /\ OneMaker(m)'
  <2>1. Sound(m) /\ OneMaker(m)
    BY <1>1 DEF IInv
  <2>2. Sound(m)'
    BY <2>1 DEF Sound
  <2>3. \A q \in Procs : Making(q, m)' => job'[q] = job[q] /\ Making(q, m)
    BY DEF Making
  <2> QED
    BY <2>1, <2>2, <2>3 DEF OneMaker, Progress, Fitting
<1>2. ASSUME NEW q \in Procs, q # p PROVE Listing(q)'
  BY <1>2 DEF IInv, Listing
<1>3. ServedOnce'
  BY DEF IInv, ServedOnce
<1> QED
  BY <1>1, <1>2, <1>3 DEF IInv

LEMMA ListBeginStep ==
  ASSUME IInv, TypeOK', Grounded', NEW p \in Procs, ListBegin(p)
  PROVE  IInv'
<1>1. UNCHANGED <<dirs, answered, described, pushed, contested>>
  BY DEF ListBegin
<1>2. /\ job'[p] = [step |-> "list", todo |-> {n \in Names : dirs[n] # None},
                    shown |-> [n \in Names |-> None], owed |-> {n \in Names : answered[n] > 0}]
      /\ \A q \in Procs : q # p => job'[q] = job[q]
  BY OneJob DEF IInv, ListBegin, Continue
<1>3. /\ job'[p].step = "list" /\ job'[p].todo = {n \in Names : dirs[n] # None}
      /\ job'[p].owed = {n \in Names : answered[n] > 0}
  BY <1>2
<1>4. \A n \in Names \ contested : answered[n] > 0 => dirs[n] # None
  BY DEF IInv, Sound
<1>5. Listing(p)'
  BY <1>1, <1>3, <1>4 DEF Listing
<1> QED
  BY <1>1, <1>2, <1>3, <1>5, ListerStep

LEMMA ListReadStep ==
  ASSUME IInv, TypeOK', Grounded', NEW p \in Procs, ListRead(p)
  PROVE  IInv'
<1>1. UNCHANGED <<dirs, answered, described, pushed, contested>> /\ job[p].step = "list"
  BY DEF ListRead
<1>2. job[p] \in ListJob
  BY <1>1, JobKinds DEF IInv
<1>3. PICK n \in job[p].todo :
        \/ Finish(p)
        \/ /\ ~(dirs[n] # None /\ Torn(dirs[n].file))
           /\ job' = [job EXCEPT ![p] = [job[p] EXCEPT !.todo = @ \ {n}, !.shown[n] = Shown(n)]]
  BY DEF ListRead, Continue
<1>4. CASE Finish(p)
  <2>1. job'[p].step = "idle" /\ \A q \in Procs : q # p => job'[q] = job[q]
    BY <1>4, Finished DEF IInv
  <2> QED
    BY <1>1, <2>1, ListerStep DEF Listing
<1>5. CASE job' = [job EXCEPT ![p] = [job[p] EXCEPT !.todo = @ \ {n}, !.shown[n] = Shown(n)]]
  <2>1. /\ job'[p] = [job[p] EXCEPT !.todo = @ \ {n}, !.shown[n] = Shown(n)]
        /\ \A q \in Procs : q # p => job'[q] = job[q]
    BY <1>5, OneJob DEF IInv
  <2>2. /\ job'[p].step = "list" /\ job'[p].owed = job[p].owed
        /\ job'[p].todo = job[p].todo \ {n}
        /\ job'[p].shown[n] = Shown(n)
        /\ \A m \in Names : m # n => job'[p].shown[m] = job[p].shown[m]
    BY <1>1, <1>2, <2>1 DEF ListJob
  <2>3. n \notin contested /\ answered[n] > 0 => Shown(n) = described[n]
    <3>1. ASSUME n \notin contested, answered[n] > 0 PROVE Shown(n) = described[n]
      <4>1. n \in Names
        BY <1>2 DEF ListJob
      <4>2. dirs[n] # None /\ dirs[n].file = described[n] /\ described[n] \in Metadata
        <5>1. dirs[n] # None /\ dirs[n].file = described[n]
          BY <3>1, <4>1 DEF IInv, Sound
        <5>2. dirs[n].file \in Files /\ described[n] \in Metadata \union {None}
          BY <4>1, <5>1 DEF IInv, TypeOK, Directory
        <5>3. None \notin Metadata /\ None \notin {Absent, Empty, Garbled}
          BY StoreAssumption
        <5>4. dirs[n].file # None
          BY <5>2, <5>3 DEF Files
        <5> QED
          BY <5>1, <5>2, <5>4
      <4>3. dirs[n].file # Absent
        BY <4>2, StoreAssumption
      <4> QED
        BY <4>2, <4>3 DEF Shown
    <3> QED
      BY <3>1
  <2>4. \A m \in job[p].owed \ contested :
          answered[m] > 0 /\ (m \in job[p].todo \/ job[p].shown[m] = described[m])
    BY <1>1 DEF IInv, Listing
  <2>5. job[p].owed \subseteq Names
    BY <1>2 DEF ListJob
  <2>6. Listing(p)'
    BY <1>1, <2>2, <2>3, <2>4, <2>5 DEF Listing
  <2> QED
    BY <1>1, <2>1, <2>2, <2>6, ListerStep
<1> QED
  BY <1>3, <1>4, <1>5

LEMMA ListEndStep ==
  ASSUME IInv, TypeOK', Grounded', NEW p \in Procs, ListEnd(p)
  PROVE  IInv'
<1>1. job'[p].step = "idle" /\ \A q \in Procs : q # p => job'[q] = job[q]
  BY Finished DEF IInv, ListEnd
<1> QED
  BY <1>1, ListerStep DEF ListEnd, Listing

LEMMA PushStep ==
  ASSUME IInv, TypeOK', Grounded', NEW n \in Names, Push(n)
  PROVE  IInv'
<1>1. UNCHANGED <<dirs, job, answered, described, contested>>
  BY DEF Push
<1>2. \A m \in Names : m \in pushed' => m \in pushed \/ (dirs[m] # None /\ dirs[m].push)
  BY DEF Push
<1>3. ASSUME NEW m \in Names \ contested' PROVE Sound(m)' /\ OneMaker(m)'
  <2>1. Sound(m) /\ OneMaker(m)
    BY <1>1, <1>3 DEF IInv
  <2>2. Sound(m)'
    BY <1>1, <1>2, <2>1 DEF Sound
  <2> QED
    BY <1>1, <2>1, <2>2 DEF OneMaker, Making, Progress, Fitting
<1>4. (\A p \in Procs : Listing(p)') /\ ServedOnce'
  BY <1>1 DEF IInv, Listing, ServedOnce
<1> QED
  BY <1>3, <1>4 DEF IInv

\* What a crash deletes nobody had been answered about.
LEMMA RestartStep ==
  ASSUME IInv, TypeOK', Grounded', Restart
  PROVE  IInv'
<1>1. UNCHANGED <<answered, described, pushed, contested>>
  BY DEF Restart
<1>2. \A p \in Procs : job'[p].step = "idle"
  BY DEF Restart, Idle
<1>3. \A n \in Names :
        \/ dirs'[n] = dirs[n]
        \/ dirs'[n] = None /\ \E p \in Procs : job[p].step = "cloning" /\ Making(p, n)
  BY DEF Restart, Making
<1>4. ASSUME NEW n \in Names \ contested' PROVE Sound(n)' /\ OneMaker(n)'
  <2>1. Sound(n) /\ OneMaker(n)
    BY <1>1, <1>4 DEF IInv
  <2>2. CASE dirs'[n] = dirs[n]
    BY <1>1, <1>2, <2>1, <2>2 DEF Sound, OneMaker, Making
  <2>3. ASSUME dirs'[n] = None, NEW p \in Procs, job[p].step = "cloning", Making(p, n)
        PROVE  Sound(n)' /\ OneMaker(n)'
    <3>1. answered[n] = 0 /\ ~dirs[n].push
      BY <2>1, <2>3 DEF OneMaker, Progress
    <3> QED
      BY <1>1, <1>2, <2>1, <2>3, <3>1 DEF Sound, OneMaker, Making
  <2> QED
    BY <1>3, <2>2, <2>3
<1>5. (\A p \in Procs : Listing(p)') /\ ServedOnce'
  BY <1>1, <1>2 DEF IInv, Listing, ServedOnce
<1> QED
  BY <1>4, <1>5 DEF IInv

LEMMA InvInit == Init => IInv
<1> SUFFICES ASSUME Init PROVE IInv
  OBVIOUS
<1>1. TypeOK
  BY DEF Init, TypeOK, Job
<1>2. \A p \in Procs : job[p].step = "idle"
  BY DEF Init, Idle
<1>3. Grounded /\ ServedOnce
  BY <1>2 DEF Init, Grounded, ServedOnce
<1>4. ASSUME NEW n \in Names PROVE Sound(n) /\ OneMaker(n)
  <2>1. dirs[n] = None /\ answered[n] = 0 /\ described[n] = None /\ n \notin pushed
    BY DEF Init
  <2>2. Sound(n)
    BY <2>1 DEF Sound
  <2>3. OneMaker(n)
    BY <1>2 DEF OneMaker, Making
  <2> QED
    BY <2>2, <2>3
<1>5. \A p \in Procs : Listing(p)
  BY <1>2 DEF Listing
<1> QED
  BY <1>1, <1>3, <1>4, <1>5 DEF IInv

LEMMA InvStep == IInv /\ [Next]_vars => IInv'
<1> SUFFICES ASSUME IInv, [Next]_vars PROVE IInv'
  OBVIOUS
<1>1. TypeOK' /\ Grounded'
  BY TypeStep, GroundedStep DEF IInv
<1>2. CASE UNCHANGED vars
  BY <1>2 DEF vars, IInv, TypeOK, Grounded, ServedOnce, Sound, OneMaker, Making, Progress,
              Fitting, Listing
<1>3. CASE Next
  BY <1>1, <1>3, StatDirectoryStep, InitBareStep, CloneBeginStep, CloneEndStep, EnableHTTPStep,
     OpenMetadataStep, WriteMetadataStep, ListBeginStep, ListReadStep, ListEndStep, PushStep,
     RestartStep DEF Next
<1> QED
  BY <1>2, <1>3

---------------------------------------------------------------------------
(* The theorems                                                            *)

\* The inductive invariant holds in every state of the store, whatever its
\* handlers, their failures and its restarts do (createRepository,
\* importRepository, listRepositoryMetadata).
THEOREM Inductive == Spec => []IInv
<1>1. Init => IInv
  BY InvInit
<1>2. IInv /\ [Next]_vars => IInv'
  BY InvStep
<1> QED
  BY <1>1, <1>2, PTL DEF Spec

\* The variables keep their types, and a listing shows metadata only
\* (readRepositoryMetadata).
THEOREM TypeCorrect == Spec => []TypeOK
<1>1. IInv => TypeOK
  BY DEF IInv
<1> QED
  BY <1>1, Inductive, PTL

\* What has been answered 201 without a rival stays, takes pushes and is
\* described as answered (createRepository, importRepository).
THEOREM Intact == Spec => []ServedIntact
<1>1. IInv => ServedIntact
  BY DEF IInv, ServedIntact, Sound
<1> QED
  BY <1>1, Inductive, PTL

\* No name is answered 201 twice unless two requests found it free together
\* (os.Stat before git init or clone).
THEOREM Once == Spec => []ServedOnce
<1>1. IInv => ServedOnce
  BY DEF IInv
<1> QED
  BY <1>1, Inductive, PTL

\* A repository that took a push without a rival is never deleted
\* (serveGitHTTP, runGit clone).
THEOREM Kept == Spec => []PushesKept
<1>1. IInv => PushesKept
  <2> SUFFICES ASSUME IInv, NEW n \in pushed \ contested PROVE dirs[n] # None
    BY DEF PushesKept
  <2>1. n \in Names
    BY DEF IInv, TypeOK
  <2> QED
    BY <2>1 DEF IInv, Sound
<1> QED
  BY <1>1, Inductive, PTL

\* The metadata of a repository made without a rival tells its origin and, of a
\* local one, its branch (writeRepositoryMetadata).
THEOREM Truthful == Spec => []TrueMetadata
<1>1. IInv => TrueMetadata
  BY DEF IInv, TrueMetadata, Sound
<1> QED
  BY <1>1, Inductive, PTL

\* A listing is complete, whatever changes while it reads
\* (listRepositoryMetadata).
THEOREM Complete == Spec => []ListingComplete
<1>1. IInv => ListingComplete
  BY DEF IInv, ListingComplete, Listing
<1> QED
  BY <1>1, Inductive, PTL

---------------------------------------------------------------------------
(* Steps: whole files, and the promise                                     *)

\* A request does not touch a whole file of a name that is its alone: before
\* each of its calls the directory is missing, or its file is.
LEMMA WholeStep == IInv /\ [Next]_vars => WholeFilesKept \/ UNCHANGED dirs
<1> SUFFICES ASSUME IInv, [Next]_vars PROVE WholeFilesKept \/ UNCHANGED dirs
  OBVIOUS
<1>1. TypeOK' /\ Grounded'
  BY TypeStep, GroundedStep DEF IInv
<1>2. ASSUME NEW p \in Procs, \E n \in Names : MakerOf(p, n) PROVE WholeFilesKept
  <2>1. PICK n \in Names : MakerOf(p, n)
    BY <1>2
  <2>2. n \notin contested /\ dirs[n] # None => dirs[n].file \in {Absent, Empty}
    BY <2>1 DEF MakerOf, IInv, OneMaker, Making, Progress
  <2> QED
    BY <2>1, <2>2, StoreAssumption DEF MakerOf, WholeFilesKept
<1>3. CASE Restart
  <2>1. UNCHANGED contested
    BY <1>3 DEF Restart
  <2>2. \A n \in Names : \/ dirs'[n] = dirs[n]
                         \/ \E p \in Procs : job[p].step = "cloning" /\ Making(p, n)
    BY <1>3 DEF Restart, Making
  <2>3. \A n \in Names \ contested, p \in Procs :
          job[p].step = "cloning" /\ Making(p, n) => dirs[n].file = Absent
    BY DEF IInv, OneMaker, Progress
  <2> QED
    BY <2>1, <2>2, <2>3, StoreAssumption DEF WholeFilesKept
<1> QED
  BY <1>1, <1>2, <1>3, InitBareStep, CloneBeginStep, CloneEndStep, EnableHTTPStep,
     OpenMetadataStep, WriteMetadataStep
  DEF Next, StatDirectory, ListBegin, ListRead, ListEnd, Push, vars

\* A step that touches no directory and no answer, and neither begins nor ends
\* the making of a repository, leaves the promise as it was.
LEMMA PromiseKept ==
  ASSUME UNCHANGED <<dirs, answered, described, contested>>,
         \A q \in Procs, n \in Names : Making(q, n)' <=> Making(q, n)
  PROVE  UNCHANGED Promise!promiseVars
<1>1. \A n \in Names : Phase(n)' = Phase(n)
  BY DEF Phase
<1> QED
  BY <1>1 DEF Promise!promiseVars

\* A call of a request that makes n serves n, gives it up or leaves it reserved.
LEMMA PromiseOfMaker ==
  ASSUME IInv, IInv', NEW p \in Procs, NEW n \in Names, MakerOf(p, n)
  PROVE  Promise!PromiseNext \/ UNCHANGED Promise!promiseVars
<1>1. UNCHANGED contested /\ Making(p, n)
  BY DEF MakerOf
<1>2. ASSUME NEW m \in Names, m # n PROVE Phase(m)' = Phase(m) /\ described'[m] = described[m]
  <2>1. \A q \in Procs : Making(q, m)' <=> Making(q, m)
    BY <1>2 DEF MakerOf, Making
  <2> QED
    BY <1>2, <2>1 DEF MakerOf, Phase
<1>3. CASE n \in contested
  <2>1. Phase(n)' = Phase(n)
    BY <1>1, <1>3 DEF Phase
  <2> QED
    BY <1>1, <1>2, <1>3, <2>1 DEF Promise!promiseVars
<1>4. CASE n \notin contested
  <2>1. answered[n] = 0
    BY <1>1, <1>4 DEF IInv, OneMaker
  <2>2. Phase(n) = "reserved"
    BY <1>1, <1>4, <2>1 DEF Phase
  <2>3. CASE answered'[n] = answered[n] /\ described'[n] = described[n]
    <3>1. Phase(n)' \in {"reserved", "free"}
      BY <1>1, <1>4, <2>1, <2>3 DEF Phase
    <3>2. [m \in Names |-> IF m \in contested THEN None ELSE described[m]]'
            = [m \in Names |-> IF m \in contested THEN None ELSE described[m]]
      BY <1>1, <1>2, <2>3
    <3>3. CASE Phase(n)' = "reserved"
      BY <1>2, <2>2, <3>2, <3>3 DEF Promise!promiseVars
    <3>4. CASE Phase(n)' = "free"
      <4>1. [m \in Names |-> Phase(m)]' = [[m \in Names |-> Phase(m)] EXCEPT ![n] = "free"]
        BY <1>2, <3>4
      <4>2. Promise!Release(n)
        BY <2>2, <3>2, <4>1 DEF Promise!Release
      <4> QED
        BY <4>2 DEF Promise!PromiseNext
    <3> QED
      BY <3>1, <3>3, <3>4
  <2>4. CASE answered'[n] = 1 /\ described'[n] \in Metadata
    <3>1. Phase(n)' = "served"
      BY <1>1, <1>4, <2>4 DEF Phase
    <3>2. [m \in Names |-> Phase(m)]' = [[m \in Names |-> Phase(m)] EXCEPT ![n] = "served"]
      BY <1>2, <3>1
    <3>3. [m \in Names |-> IF m \in contested THEN None ELSE described[m]]'
            = [[m \in Names |-> IF m \in contested THEN None ELSE described[m]]
                EXCEPT ![n] = described'[n]]
      BY <1>1, <1>2, <1>4
    <3>4. PICK m \in Metadata : m = described'[n]
      BY <2>4
    <3>5. Promise!Serve(n, m)
      BY <2>2, <3>2, <3>3, <3>4 DEF Promise!Serve
    <3> QED
      BY <3>5 DEF Promise!PromiseNext
  <2> QED
    BY <2>3, <2>4 DEF MakerOf
<1> QED
  BY <1>3, <1>4

\* Finding a name free reserves it, or voids the promise for it.
LEMMA PromiseOfStat ==
  ASSUME IInv, NEW p \in Procs, StatDirectory(p)
  PROVE  Promise!PromiseNext \/ UNCHANGED Promise!promiseVars
<1>1. UNCHANGED <<dirs, answered, described>> /\ job[p].step = "idle"
  BY DEF StatDirectory, Idle
<1>2. PICK n \in Names, request \in Requests :
        /\ dirs[n] = None
        /\ contested' = IF \E q \in Procs : Making(q, n) THEN contested \union {n} ELSE contested
        /\ job' = [job EXCEPT ![p] = [step |-> FirstStep(request), name |-> n, kind |-> request.kind,
                                      branch |-> BranchFor(request)]]
  BY DEF StatDirectory, Continue
<1>3. Making(p, n)' /\ job'[p].name = n /\ \A q \in Procs : q # p => job'[q] = job[q]
  <2>1. /\ job'[p] = [step |-> FirstStep(request), name |-> n, kind |-> request.kind,
                      branch |-> BranchFor(request)]
        /\ \A q \in Procs : q # p => job'[q] = job[q]
    BY <1>2, OneJob DEF IInv
  <2> QED
    BY <2>1 DEF FirstStep, Making
<1>4. ASSUME NEW m \in Names, m # n PROVE Phase(m)' = Phase(m) /\ (m \in contested' <=> m \in contested)
  <2>1. \A q \in Procs : Making(q, m)' <=> Making(q, m)
    BY <1>1, <1>3, <1>4 DEF Making
  <2>2. m \in contested' <=> m \in contested
    BY <1>2, <1>4
  <2> QED
    BY <1>1, <2>1, <2>2 DEF Phase
<1>5. CASE n \in contested
  <2>1. n \in contested' /\ Phase(n)' = Phase(n)
    BY <1>2, <1>5 DEF Phase
  <2> QED
    BY <1>1, <1>4, <1>5, <2>1 DEF Promise!promiseVars
<1>6. CASE n \notin contested
  <2>1. answered[n] = 0 /\ described[n] = None
    BY <1>2, <1>6 DEF IInv, TypeOK, Sound
  <2>2. [m \in Names |-> IF m \in contested THEN None ELSE described[m]]'
          = [m \in Names |-> IF m \in contested THEN None ELSE described[m]]
    BY <1>1, <1>4, <1>6, <2>1
  <2>3. CASE \E q \in Procs : Making(q, n)
    <3>1. Phase(n) = "reserved" /\ Phase(n)' = "void"
      BY <1>2, <1>6, <2>1, <2>3 DEF Phase
    <3>2. [m \in Names |-> Phase(m)]' = [[m \in Names |-> Phase(m)] EXCEPT ![n] = "void"]
      BY <1>4, <3>1
    <3>3. Promise!Void(n)
      BY <2>2, <3>1, <3>2 DEF Promise!Void
    <3> QED
      BY <3>3 DEF Promise!PromiseNext
  <2>4. CASE ~\E q \in Procs : Making(q, n)
    <3>1. Phase(n) = "free"
      BY <1>2, <1>6, <2>1, <2>4 DEF Phase
    <3>2. Phase(n)' = "reserved"
      BY <1>1, <1>2, <1>3, <1>6, <2>1, <2>4 DEF Phase
    <3>3. [m \in Names |-> Phase(m)]' = [[m \in Names |-> Phase(m)] EXCEPT ![n] = "reserved"]
      BY <1>4, <3>2
    <3>4. Promise!Reserve(n)
      BY <2>2, <3>1, <3>3 DEF Promise!Reserve
    <3> QED
      BY <3>4 DEF Promise!PromiseNext
  <2> QED
    BY <2>3, <2>4
<1> QED
  BY <1>5, <1>6

\* A crash gives up what was being made and left no directory.
LEMMA PromiseOfRestart ==
  ASSUME IInv, Restart
  PROVE  Promise!PromiseNext
<1>1. UNCHANGED <<answered, described, contested>>
  BY DEF Restart
<1>2. \A n \in Names : dirs[n] = None => dirs'[n] = None
  BY DEF Restart
<1>3. \A p \in Procs, n \in Names : ~Making(p, n)'
  BY DEF Restart, Idle, Making
<1>4. PICK dropped \in SUBSET Names :
        dropped = {n \in Names : Phase(n) = "reserved" /\ Phase(n)' = "free"}
  OBVIOUS
<1>5. \A n \in Names : Phase(n)' = IF n \in dropped THEN "free" ELSE Phase(n)
  BY <1>1, <1>2, <1>3, <1>4 DEF Phase
<1>6. Promise!ReleaseAll(dropped)
  BY <1>1, <1>4, <1>5 DEF Promise!ReleaseAll
<1> QED
  BY <1>6 DEF Promise!PromiseNext

LEMMA PromiseStep ==
  IInv /\ [Next]_vars => [Promise!PromiseNext]_(Promise!promiseVars)
<1> SUFFICES ASSUME IInv, [Next]_vars
             PROVE  Promise!PromiseNext \/ UNCHANGED Promise!promiseVars
  OBVIOUS
<1>1. TypeOK' /\ Grounded' /\ IInv'
  BY TypeStep, GroundedStep, InvStep DEF IInv
<1>2. ASSUME NEW p \in Procs, \E n \in Names : MakerOf(p, n)
      PROVE  Promise!PromiseNext \/ UNCHANGED Promise!promiseVars
  BY <1>1, <1>2, PromiseOfMaker
<1>3. ASSUME NEW p \in Procs, ListBegin(p) \/ ListRead(p) \/ ListEnd(p)
      PROVE  UNCHANGED Promise!promiseVars
  <2>1. /\ job[p].step \in {"idle", "list"} /\ job'[p].step \in {"idle", "list"}
        /\ \A q \in Procs : q # p => job'[q] = job[q]
    BY <1>1, <1>3, ListerJob DEF IInv
  <2>2. \A q \in Procs, n \in Names : Making(q, n)' <=> Making(q, n)
    BY <2>1 DEF Making
  <2> QED
    BY <1>3, <2>2, PromiseKept DEF ListBegin, ListRead, ListEnd
<1>4. ASSUME NEW n \in Names, Push(n) PROVE UNCHANGED Promise!promiseVars
  BY <1>4, PromiseKept DEF Push, Making
<1>5. CASE UNCHANGED vars
  BY <1>5, PromiseKept DEF vars, Making
<1> QED
  BY <1>1, <1>2, <1>3, <1>4, <1>5, InitBareStep, CloneBeginStep, CloneEndStep, EnableHTTPStep,
     OpenMetadataStep, WriteMetadataStep, PromiseOfStat, PromiseOfRestart DEF Next

\* Each call is about a name some request is making, or about one whose directory
\* is missing; a restart deletes only what was being cloned.
LEMMA SettledStep ==
  ASSUME IInv, [Next]_vars, NEW n \in Names, Unattended(n)
  PROVE  LeftAlone(n)
<1>1. TypeOK /\ TypeOK' /\ Grounded'
  BY TypeStep, GroundedStep DEF IInv
<1>2. dirs[n] # None /\ \A p \in Procs : ~Making(p, n)
  BY DEF Unattended
<1>3. ASSUME NEW p \in Procs, \E m \in Names : MakerOf(p, m) PROVE LeftAlone(n)
  <2>1. PICK m \in Names : MakerOf(p, m)
    BY <1>3
  <2>2. m # n /\ dirs'[n] = dirs[n] /\ answered'[n] = answered[n]
    BY <1>2, <2>1 DEF MakerOf
  <2>3. \A q \in Procs : ~Making(q, n)'
    BY <1>2, <2>1, <2>2 DEF MakerOf, Making
  <2> QED
    BY <1>2, <2>2, <2>3 DEF Unattended, LeftAlone
<1>4. ASSUME NEW p \in Procs, StatDirectory(p) PROVE LeftAlone(n)
  <2>1. PICK m \in Names, request \in Requests :
          /\ dirs[m] = None
          /\ job' = [job EXCEPT ![p] = [step |-> FirstStep(request), name |-> m,
                                        kind |-> request.kind, branch |-> BranchFor(request)]]
    BY <1>4 DEF StatDirectory, Continue
  <2>2. /\ job'[p] = [step |-> FirstStep(request), name |-> m, kind |-> request.kind,
                      branch |-> BranchFor(request)]
        /\ \A q \in Procs : q # p => job'[q] = job[q]
    BY <1>1, <2>1, OneJob
  <2>3. \A q \in Procs : ~Making(q, n)'
    BY <1>2, <2>1, <2>2 DEF Making
  <2> QED
    BY <1>2, <1>4, <2>3 DEF StatDirectory, Unattended, LeftAlone
<1>5. ASSUME NEW p \in Procs, ListBegin(p) \/ ListRead(p) \/ ListEnd(p) PROVE LeftAlone(n)
  <2>1. job'[p].step \in {"idle", "list"} /\ \A q \in Procs : q # p => job'[q] = job[q]
    BY <1>1, <1>5, ListerJob
  <2>2. \A q \in Procs : ~Making(q, n)'
    BY <1>2, <2>1 DEF Making
  <2> QED
    BY <1>2, <1>5, <2>2 DEF ListBegin, ListRead, ListEnd, Unattended, LeftAlone
<1>6. CASE Restart
  <2>1. \A q \in Procs : ~Making(q, n)'
    BY <1>6 DEF Restart, Idle, Making
  <2>2. dirs'[n] = dirs[n] /\ answered'[n] = answered[n]
    BY <1>2, <1>6 DEF Restart, Making
  <2> QED
    BY <1>2, <2>1, <2>2 DEF Unattended, LeftAlone
<1>7. CASE (\E m \in Names : Push(m)) \/ UNCHANGED vars
  BY <1>2, <1>7 DEF Push, vars, Making, Unattended, LeftAlone
<1> QED
  BY <1>1, <1>3, <1>4, <1>5, <1>6, <1>7, InitBareStep, CloneBeginStep, CloneEndStep,
     EnableHTTPStep, OpenMetadataStep, WriteMetadataStep DEF Next

\* Nothing touches the metadata file of a repository made without a rival once
\* it is whole (writeRepositoryMetadata).
THEOREM WholeFiles == Spec => WholeFilesStay
<1>1. IInv /\ [Next]_vars => [WholeFilesKept]_dirs
  BY WholeStep
<1> QED
  BY <1>1, Inductive, PTL DEF Spec, WholeFilesStay

\* What no request is at work on stays as it is for ever, contested or not: a
\* failed creation costs the name (createRepository, importRepository).
THEOREM SettledStay == Spec => SettledNames
<1>1. IInv /\ [Next]_vars => [\A n \in Names : Unattended(n) => LeftAlone(n)]_vars
  BY SettledStep
<1> QED
  BY <1>1, Inductive, PTL DEF Spec, SettledNames

\* The store implements the promise of RepositoryPromise: from free to reserved
\* to served, for ever (createRepository, importRepository).
THEOREM Refinement == Spec => KeepsPromise
<1>1. Init => Promise!PromiseInit
  BY DEF Init, Promise!PromiseInit, Phase, Making, Idle
<1> QED
  BY <1>1, PromiseStep, Inductive, PTL DEF Spec, KeepsPromise, Promise!PromiseSpec

---------------------------------------------------------------------------
(* What a listing says of where a repository comes from                    *)

\* A name that is still to be read is not shown yet.
Unread(p) ==
  job[p].step = "list" => \A n \in job[p].todo : n \in Names /\ job[p].shown[n] = None

UnreadNames == \A p \in Procs : Unread(p)

\* Only its own steps change a listing, and they read a name once.
LEMMA UnreadStep ==
  ASSUME IInv, \A p \in Procs : Unread(p), [Next]_vars, NEW p \in Procs
  PROVE  Unread(p)'
<1>1. TypeOK /\ TypeOK' /\ Grounded'
  BY TypeStep, GroundedStep DEF IInv
<1>2. CASE job'[p] = job[p]
  BY <1>2 DEF Unread
<1>3. CASE job'[p].step # "list"
  BY <1>3 DEF Unread
<1>4. ASSUME NEW q \in Procs, \E n \in Names : MakerOf(q, n)
      PROVE  job'[p] = job[p] \/ job'[p].step # "list"
  BY <1>4 DEF MakerOf, Making
<1>5. ASSUME NEW q \in Procs, StatDirectory(q)
      PROVE  job'[p] = job[p] \/ job'[p].step # "list"
  <2>1. PICK n \in Names, request \in Requests :
          job' = [job EXCEPT ![q] = [step |-> FirstStep(request), name |-> n,
                                     kind |-> request.kind, branch |-> BranchFor(request)]]
    BY <1>5 DEF StatDirectory, Continue
  <2>2. /\ job'[q] = [step |-> FirstStep(request), name |-> n, kind |-> request.kind,
                      branch |-> BranchFor(request)]
        /\ \A r \in Procs : r # q => job'[r] = job[r]
    BY <1>1, <2>1, OneJob
  <2> QED
    BY <2>2 DEF FirstStep
<1>6. ASSUME ListBegin(p) PROVE Unread(p)'
  <2> DEFINE j == [step |-> "list", todo |-> {n \in Names : dirs[n] # None},
                   shown |-> [n \in Names |-> None], owed |-> {n \in Names : answered[n] > 0}]
  <2>1. job'[p] = j
    BY <1>1, <1>6, OneJob DEF ListBegin, Continue
  <2> QED
    BY <2>1 DEF Unread
<1>7. ASSUME ListRead(p) PROVE Unread(p)'
  <2>1. job[p] \in ListJob /\ job[p].step = "list" /\ Unread(p)
    BY <1>1, <1>7, JobKinds DEF ListRead
  <2>2. PICK n \in job[p].todo :
          Finish(p) \/ job' = [job EXCEPT ![p] = [job[p] EXCEPT !.todo = @ \ {n}, !.shown[n] = Shown(n)]]
    BY <1>7 DEF ListRead, Continue
  <2>3. CASE Finish(p)
    BY <1>1, <2>3, Finished DEF Unread
  <2>4. CASE job' = [job EXCEPT ![p] = [job[p] EXCEPT !.todo = @ \ {n}, !.shown[n] = Shown(n)]]
    <3>1. job'[p] = [job[p] EXCEPT !.todo = @ \ {n}, !.shown[n] = Shown(n)]
      BY <1>1, <2>4, OneJob
    <3>2. /\ job'[p].todo = job[p].todo \ {n}
          /\ \A m \in Names : m # n => job'[p].shown[m] = job[p].shown[m]
      BY <2>1, <3>1 DEF ListJob
    <3> QED
      BY <2>1, <3>2 DEF Unread
  <2> QED
    BY <2>2, <2>3, <2>4
<1>8. ASSUME ListEnd(p) PROVE job'[p].step # "list"
  BY <1>1, <1>8, Finished DEF ListEnd
<1>9. ASSUME NEW q \in Procs, q # p, ListBegin(q) \/ ListRead(q) \/ ListEnd(q)
      PROVE  job'[p] = job[p]
  BY <1>1, <1>9, ListerJob
<1>10. CASE Restart
  BY <1>10, <1>3 DEF Restart, Idle
<1>11. CASE (\E n \in Names : Push(n)) \/ UNCHANGED vars
  BY <1>2, <1>11 DEF Push, vars
<1> QED
  BY <1>1, <1>2, <1>3, <1>4, <1>5, <1>6, <1>7, <1>8, <1>9, <1>10, <1>11, InitBareStep, CloneBeginStep,
     CloneEndStep, EnableHTTPStep, OpenMetadataStep, WriteMetadataStep DEF Next

\* What HostedLocally says, of the repositories whose creation had been answered
\* when the listing began.
AnsweredHosted ==
  \A p \in Procs : job[p].step = "list" =>
    \A n \in job[p].owed \ contested :
      job[p].shown[n] # None /\ job[p].shown[n].kind = "created" => dirs[n].origin = "created"

\* The overview counts an import as hosted locally only if its creation was not
\* answered when the listing began, or two requests were making it: "created
\* directly inside the orcastack repo store" is true of everything a user was
\* told is there (overviewData, listRepositoryMetadata).
THEOREM AnsweredAreHosted == Spec => []AnsweredHosted
<1>1. Init => UnreadNames
  <2>1. Init => \A p \in Procs : job[p].step # "list"
    BY DEF Init, Idle
  <2> QED
    BY <2>1 DEF UnreadNames, Unread
<1>2. IInv /\ UnreadNames /\ [Next]_vars => UnreadNames'
  BY UnreadStep DEF UnreadNames
<1>3. IInv /\ UnreadNames => AnsweredHosted
  <2> SUFFICES ASSUME IInv, UnreadNames, NEW p \in Procs, job[p].step = "list",
                      NEW n \in job[p].owed \ contested, job[p].shown[n] # None,
                      job[p].shown[n].kind = "created"
               PROVE  dirs[n].origin = "created"
    BY DEF AnsweredHosted
  <2>1. job[p] \in ListJob /\ n \in Names
    BY JobKinds DEF IInv, ListJob
  <2>2. answered[n] > 0 /\ job[p].shown[n] = described[n]
    BY DEF IInv, Listing, UnreadNames, Unread
  <2>3. dirs[n] # None /\ dirs[n].file = described[n] /\ described[n] \in Metadata
    BY <2>1, <2>2 DEF IInv, Sound, TypeOK
  <2> QED
    BY <2>1, <2>2, <2>3 DEF IInv, Sound
<1> QED
  BY <1>1, <1>2, <1>3, Inductive, PTL DEF Spec
=============================================================================
