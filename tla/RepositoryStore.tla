-------------------------- MODULE RepositoryStore --------------------------
(***************************************************************************)
(* The repository store of the gateway                                     *)
(* (orcastackapi/internal/gatewayapi/projects.go).                         *)
(*                                                                         *)
(* A repository is a bare git directory with a metadata file in it.  The   *)
(* handlers that create, import and list repositories take no lock: each   *)
(* stats the directory, runs git as a child process several times and      *)
(* writes the file, and what they do is interleaved at those calls.  Any   *)
(* call may fail, with or without effect, and the process may be killed    *)
(* between any two.                                                        *)
(*                                                                         *)
(* git is external, and modelled by what it does to the directory: init    *)
(* keeps the HEAD of a repository that is there, clone refuses a           *)
(* destination that is there and deletes the one it made when it fails,    *)
(* and the HTTP backend takes pushes once http.receivepack is set.         *)
(* Requests without a name or an address are refused at once and left out. *)
(***************************************************************************)
EXTENDS Naturals

CONSTANTS
  Names,        \* sanitized repository names
  Branches,     \* branch names
  MainBranch,   \* the branch a request that names none gets
  Procs,        \* requests the gateway serves at the same time
  Requests,     \* what is asked for: the kind and, or not, the branch
  Size,         \* Size[m]: length of metadata m as JSON
  None,         \* no directory; no branch asked for; nothing answered; nothing read
  Absent, Empty, Garbled   \* the metadata files that hold none

\* provider_id "orcastack" and last_action "created", or another and "imported".
Kinds    == {"created", "imported"}
Metadata == [kind : Kinds, branch : Branches]

\* A metadata file: not there, truncated, left with the tail of a longer text,
\* or whole.
Files == {Absent, Empty, Garbled} \union Metadata
Torn(file) == file \in {Empty, Garbled}

\* A directory; origin, for the properties only, is the command that made it.
Directory == [head : Branches, push : BOOLEAN, file : Files, origin : Kinds]

\* What a handler does next, with the local variables it needs for it.
Idle     == [step |-> "idle"]
MakeJob  == {j \in [step : {"init", "clone", "cloning", "config", "metadata"},
                   name : Names, kind : Kinds, branch : Branches \union {None}] :
               /\ j.step = "init" => j.kind = "created"
               /\ j.step \in {"clone", "cloning"} => j.kind = "imported"
               /\ j.kind = "created" => j.branch # None}
WriteJob == [step : {"write"}, name : Names, meta : Metadata, linked : BOOLEAN]
ListJob  == [step : {"list"}, todo : SUBSET Names,
             shown : [Names -> Metadata \union {None}], owed : SUBSET Names]
Job      == {Idle} \union MakeJob \union WriteJob \union ListJob

ASSUME StoreAssumption ==
  /\ MainBranch \in Branches
  /\ Requests \subseteq [kind : Kinds, branch : Branches \union {None}]
  /\ Size \in [Metadata -> Nat]
  /\ None \notin Directory \union Branches \union Metadata \union {Absent, Empty, Garbled}
  /\ Metadata \intersect {Absent, Empty, Garbled} = {}
  /\ Absent \notin {Empty, Garbled}

VARIABLES
  dirs,        \* dirs[n]: the directory n.git under the repository root
  job,         \* job[p]: what request p is doing
  \* What has happened, for the properties only:
  contested,   \* names two requests have been making at the same time
  answered,    \* answered[n]: how often 201 was answered for n, uncontested; 2 is "more than once"
  described,   \* described[n]: what the last of these answers said
  pushed       \* names that have taken a push, uncontested

vars == <<dirs, job, answered, described, pushed, contested>>

Init ==
  /\ dirs = [n \in Names |-> None]
  /\ job = [p \in Procs |-> Idle]
  /\ answered = [n \in Names |-> 0]
  /\ described = [n \in Names |-> None]
  /\ pushed = {}
  /\ contested = {}

---------------------------------------------------------------------------
(* Shared operators                                                        *)

Finish(p)      == job' = [job EXCEPT ![p] = Idle]
Continue(p, j) == job' = [job EXCEPT ![p] = j]
Advance(p, step) == Continue(p, [job[p] EXCEPT !.step = step])

\* p is making n: it has found the name free and has not answered yet.
Making(p, n) ==
  /\ job[p].step \in {"init", "clone", "cloning", "config", "metadata", "write"}
  /\ job[p].name = n

\* A directory git has just made: no metadata, no pushes over HTTP.
Bare(head, origin) == [head |-> head, push |-> FALSE, file |-> Absent, origin |-> origin]

\* What the file holds when m is written from its start over what is there.
Overwritten(file, m) ==
  IF file \in Metadata /\ Size[m] < Size[file] THEN Garbled ELSE m

Described(kind, branch) == [kind |-> kind, branch |-> branch]

FirstStep(request) == IF request.kind = "created" THEN "init" ELSE "clone"

\* A creation that names no branch gets "main"; an import asks HEAD later.
BranchFor(request) ==
  IF request.kind = "created" /\ request.branch = None THEN MainBranch ELSE request.branch

---------------------------------------------------------------------------
(* createRepository and importRepository, one action per call              *)

\* Mutant: the directory is not looked for.
StatNothing(p) ==
  /\ job[p] = Idle
  /\ \E n \in Names, request \in Requests :
       /\ contested' = IF \E q \in Procs : Making(q, n) THEN contested \union {n} ELSE contested
       /\ Continue(p, [step |-> FirstStep(request), name |-> n, kind |-> request.kind,
                       branch |-> BranchFor(request)])
  /\ UNCHANGED <<dirs, answered, described, pushed>>

\* The name is free; a taken one is refused (409), which changes nothing.
StatDirectory(p) ==
  /\ job[p] = Idle
  /\ \E n \in Names, request \in Requests :
       /\ dirs[n] = None
       /\ contested' = IF \E q \in Procs : Making(q, n) THEN contested \union {n} ELSE contested
       /\ Continue(p, [step |-> FirstStep(request), name |-> n, kind |-> request.kind,
                       branch |-> BranchFor(request)])
  /\ UNCHANGED <<dirs, answered, described, pushed>>

\* Mutant: git init chooses the branch.
InitBareOnMain(p) ==
  /\ job[p].step = "init"
  /\ LET n == job[p].name IN
     /\ dirs' = IF dirs[n] = None
                THEN [dirs EXCEPT ![n] = Bare(MainBranch, "created")] ELSE dirs
     /\ Advance(p, "config") \/ Finish(p)
  /\ UNCHANGED <<answered, described, pushed, contested>>

\* git init --bare --initial-branch, which leaves a repository that is there alone.
InitBare(p) ==
  /\ job[p].step = "init"
  /\ LET n == job[p].name IN
     \/ /\ dirs' = IF dirs[n] = None
                   THEN [dirs EXCEPT ![n] = Bare(job[p].branch, "created")] ELSE dirs
        /\ Advance(p, "config") \/ Finish(p)
     \/ /\ Finish(p)
        /\ UNCHANGED dirs
  /\ UNCHANGED <<answered, described, pushed, contested>>

\* git clone --mirror: it starts by making the directory, and refuses one that
\* is there.
CloneBegin(p) ==
  /\ job[p].step = "clone"
  /\ LET n == job[p].name IN
     \/ /\ dirs[n] = None
        /\ dirs' = [dirs EXCEPT ![n] = Bare(MainBranch, "imported")]
        /\ Advance(p, "cloning")
     \/ /\ Finish(p)
        /\ UNCHANGED dirs
  /\ UNCHANGED <<answered, described, pushed, contested>>

\* The files open under a directory that is deleted are unlinked with it.
Unlink(p, n) ==
  job' = [q \in Procs |->
            IF q = p THEN Idle
            ELSE IF job[q].step = "write" /\ job[q].name = n
                 THEN [job[q] EXCEPT !.linked = FALSE] ELSE job[q]]

\* It ends with the HEAD of the source, or fails and deletes the directory.
CloneEnd(p) ==
  /\ job[p].step = "cloning"
  /\ LET n == job[p].name IN
     \/ /\ \E head \in Branches : dirs' = [dirs EXCEPT ![n].head = head]
        /\ Advance(p, "config")
     \/ /\ dirs' = [dirs EXCEPT ![n] = None]
        /\ Unlink(p, n)
  /\ UNCHANGED <<answered, described, pushed, contested>>

\* Mutant: the error of git config is not looked at.
EnableHTTPUnchecked(p) ==
  /\ job[p].step = "config"
  /\ LET n == job[p].name IN
     \/ /\ dirs[n] # None
        /\ dirs' = [dirs EXCEPT ![n].push = TRUE]
     \/ UNCHANGED dirs
  /\ Advance(p, "metadata")
  /\ UNCHANGED <<answered, described, pushed, contested>>

\* enableRepositoryHTTPAccess: git config fails when the directory is gone, or
\* for another reason.
EnableHTTP(p) ==
  /\ job[p].step = "config"
  /\ LET n == job[p].name IN
     \/ /\ dirs[n] # None
        /\ dirs' = [dirs EXCEPT ![n].push = TRUE]
        /\ Advance(p, "metadata") \/ Finish(p)
     \/ /\ Finish(p)
        /\ UNCHANGED dirs
  /\ UNCHANGED <<answered, described, pushed, contested>>

\* The branch that was asked for, or the one HEAD is on, or "main" if git does
\* not tell.
BranchesOf(asked, head) == IF asked = None THEN {head, MainBranch} ELSE {asked}

\* Mutant: a request whose metadata fails removes the directory it has made.
OpenMetadataTidy(p) ==
  /\ job[p].step = "metadata"
  /\ LET n == job[p].name IN
     \/ /\ dirs[n] # None
        /\ dirs' = [dirs EXCEPT ![n].file = Empty]
        /\ \E branch \in BranchesOf(job[p].branch, dirs[n].head) :
             Continue(p, [step |-> "write", name |-> n, linked |-> TRUE,
                          meta |-> Described(job[p].kind, branch)])
     \/ /\ Finish(p)
        /\ dirs' = [dirs EXCEPT ![n] = None]
  /\ UNCHANGED <<answered, described, pushed, contested>>

\* writeRepositoryMetadata opens and truncates the file; an import that was
\* asked for no branch has inspected the repository first.
OpenMetadata(p) ==
  /\ job[p].step = "metadata"
  /\ LET n == job[p].name IN
     \/ /\ dirs[n] # None
        /\ dirs' = [dirs EXCEPT ![n].file = Empty]
        /\ \E branch \in BranchesOf(job[p].branch, dirs[n].head) :
             Continue(p, [step |-> "write", name |-> n, linked |-> TRUE,
                          meta |-> Described(job[p].kind, branch)])
     \/ /\ Finish(p)
        /\ UNCHANGED dirs
  /\ UNCHANGED <<answered, described, pushed, contested>>

\* Then it writes it, and the request is answered 201; a write that fails
\* answers 500, and the answer may be lost with the process.
WriteMetadata(p) ==
  /\ job[p].step = "write"
  /\ LET n == job[p].name  meta == job[p].meta IN
     \/ /\ dirs' = IF job[p].linked
                   THEN [dirs EXCEPT ![n].file = Overwritten(dirs[n].file, meta)] ELSE dirs
        /\ \/ /\ n \notin contested
              /\ answered' = [answered EXCEPT ![n] = IF @ = 0 THEN 1 ELSE 2]
              /\ described' = [described EXCEPT ![n] = meta]
           \/ UNCHANGED <<answered, described>>
     \/ UNCHANGED <<dirs, answered, described>>
  /\ Finish(p)
  /\ UNCHANGED <<pushed, contested>>

---------------------------------------------------------------------------
(* listRepositoryMetadata, behind every GET                                *)

\* os.ReadDir takes the names; the directories are then read one by one.
ListBegin(p) ==
  /\ job[p] = Idle
  /\ Continue(p, [step |-> "list", todo |-> {n \in Names : dirs[n] # None},
                  shown |-> [n \in Names |-> None],
                  owed |-> {n \in Names : answered[n] > 0}])
  /\ UNCHANGED <<dirs, answered, described, pushed, contested>>

\* Mutants: a missing file is not told from a bad one, and the file is not read.
ShownAsItIs(n) ==
  IF dirs[n] = None THEN Described("created", MainBranch) ELSE dirs[n].file
ShownByName(n) == Described("created", MainBranch)

\* readRepositoryMetadata: without a file, and without a directory too, a local
\* repository on the main branch is made up.
Shown(n) ==
  IF dirs[n] = None \/ dirs[n].file = Absent
  THEN Described("created", MainBranch) ELSE dirs[n].file

ListRead(p) ==
  /\ job[p].step = "list"
  /\ \E n \in job[p].todo :
       IF dirs[n] # None /\ Torn(dirs[n].file)
       THEN Finish(p)          \* the whole listing fails (500)
       ELSE Continue(p, [job[p] EXCEPT !.todo = @ \ {n}, !.shown[n] = Shown(n)])
  /\ UNCHANGED <<dirs, answered, described, pushed, contested>>

ListEnd(p) ==
  /\ job[p].step = "list"
  /\ job[p].todo = {}
  /\ Finish(p)
  /\ UNCHANGED <<dirs, answered, described, pushed, contested>>

---------------------------------------------------------------------------
(* The world outside                                                       *)

\* serveGitHTTP: git http-backend takes a push.
Push(n) ==
  /\ dirs[n] # None
  /\ dirs[n].push
  /\ pushed' = pushed \union ({n} \ contested)
  /\ UNCHANGED <<dirs, job, answered, described, contested>>

\* The gateway is killed and starts again.  A clone that was running may have
\* had the time to delete its directory.
Restart ==
  /\ job' = [p \in Procs |-> Idle]
  /\ \E deleted \in SUBSET {n \in Names : \E p \in Procs : job[p].step = "cloning" /\ job[p].name = n} :
       dirs' = [n \in Names |-> IF n \in deleted THEN None ELSE dirs[n]]
  /\ UNCHANGED <<answered, described, pushed, contested>>

Next ==
  \/ \E p \in Procs :
       \/ StatDirectory(p) \/ InitBare(p) \/ CloneBegin(p) \/ CloneEnd(p)
       \/ EnableHTTP(p) \/ OpenMetadata(p) \/ WriteMetadata(p)
       \/ ListBegin(p) \/ ListRead(p) \/ ListEnd(p)
  \/ \E n \in Names : Push(n)
  \/ Restart

Spec == Init /\ [][Next]_vars

---------------------------------------------------------------------------
(* Properties                                                              *)

\* Every variable keeps its type: in particular a listing only ever shows
\* metadata, whatever was in the directories it read.
TypeOK ==
  /\ dirs \in [Names -> Directory \union {None}]
  /\ job \in [Procs -> Job]
  /\ answered \in [Names -> 0 .. 2]
  /\ described \in [Names -> Metadata \union {None}]
  /\ pushed \subseteq Names
  /\ contested \subseteq Names

\* A repository whose creation or import was answered 201 is there, takes
\* pushes and is described by what the answer said: no failure, no crash and no
\* request for it that comes later undoes that (createRepository,
\* importRepository).
ServedIntact ==
  \A n \in Names \ contested : answered[n] > 0 =>
    /\ dirs[n] # None
    /\ dirs[n].push
    /\ dirs[n].file = described[n]

\* Two requests are told they have made the same repository only if both found
\* the name free before either had made the directory (os.Stat, 409).
ServedOnce == \A n \in Names : answered[n] < 2

\* The repository a push went into is not deleted: git removes the directory
\* of a failed mirror clone only while it takes no pushes (runGit clone,
\* enableRepositoryHTTPAccess).
PushesKept == \A n \in pushed \ contested : dirs[n] # None

\* The metadata tells where a repository comes from, and the default branch of
\* a local one is the branch its HEAD is on (git init --initial-branch,
\* writeRepositoryMetadata; several calls apart).
TrueMetadata ==
  \A n \in Names \ contested : dirs[n] # None /\ dirs[n].file \in Metadata =>
    /\ dirs[n].file.kind = dirs[n].origin
    /\ dirs[n].file.kind = "created" => dirs[n].head = dirs[n].file.branch

\* A listing that does not fail shows every repository answered 201 before it
\* began, as it was answered, although it reads one directory after the other
\* while others are being made (listRepositoryMetadata).
ListingComplete ==
  \A p \in Procs : job[p].step = "list" =>
    \A n \in job[p].owed \ contested :
      n \in job[p].todo \/ job[p].shown[n] = described[n]

\* Once it is whole, the metadata file of a repository stays as it is: it is
\* written in place, and nothing truncates it a second time
\* (writeRepositoryMetadata).
WholeFilesKept ==
  \A n \in Names \ contested' :
    dirs[n] # None /\ dirs[n].file \in Metadata =>
      dirs'[n] # None /\ dirs'[n].file = dirs[n].file

WholeFilesStay == [][WholeFilesKept]_dirs

\* A directory no request is at work on, contested or not.
Unattended(n) == dirs[n] # None /\ \A p \in Procs : ~Making(p, n)

\* Such a directory stays exactly as it is, and its name is never answered again:
\* neither a request for the name nor a failing clone, and no restart, touches a
\* repository another request has finished with.  So a name whose creation failed
\* or was interrupted after git had made the directory is lost, and what a rival
\* left is never mended (os.Stat, 409; writeRepositoryMetadata).
LeftAlone(n) == Unattended(n)' /\ dirs'[n] = dirs[n] /\ answered'[n] = answered[n]

SettledNames == [][\A n \in Names : Unattended(n) => LeftAlone(n)]_vars

\* The store keeps the promise of module RepositoryPromise: from free to
\* reserved to served, and served for ever.
Phase(n) ==
  IF n \in contested THEN "void"
  ELSE IF answered[n] > 0 THEN "served"
  ELSE IF dirs[n] # None \/ \E p \in Procs : Making(p, n) THEN "reserved"
  ELSE "free"

Promise == INSTANCE RepositoryPromise WITH
  phase     <- [n \in Names |-> Phase(n)],
  described <- [n \in Names |-> IF n \in contested THEN None ELSE described[n]]

KeepsPromise == Promise!PromiseSpec

\* "Hosted locally": "Bare repositories created directly inside the orcastack
\* repo store." (overviewData, projects.go:661), counted from what a listing
\* shows.
HostedLocally ==
  \A p \in Procs : job[p].step = "list" =>
    \A n \in Names :
      job[p].shown[n] # None /\ job[p].shown[n].kind = "created" /\ dirs[n] # None
        => dirs[n].origin = "created"

---------------------------------------------------------------------------
(* The inductive invariant behind the safety properties, name by name      *)

\* What is true of the directory of an uncontested name, whoever is at work.
Sound(n) ==
  /\ answered[n] > 0 => dirs[n] # None /\ dirs[n].push /\ dirs[n].file = described[n]
  /\ answered[n] = 0 => described[n] = None
  /\ n \in pushed => dirs[n] # None /\ dirs[n].push
  /\ dirs[n] # None /\ dirs[n].file \in Metadata =>
       /\ dirs[n].file.kind = dirs[n].origin
       /\ dirs[n].file.kind = "created" => dirs[n].head = dirs[n].file.branch

\* How far the request that makes it has brought it.
Progress(p, n) ==
  /\ job[p].step \in {"init", "clone"} => dirs[n] = None
  /\ job[p].step \in {"cloning", "config"} =>
       dirs[n] # None /\ dirs[n].file = Absent /\ ~dirs[n].push
  /\ job[p].step = "metadata" =>
       dirs[n] # None /\ dirs[n].file = Absent /\ dirs[n].push
  /\ job[p].step = "write" =>
       dirs[n] # None /\ dirs[n].file = Empty /\ dirs[n].push /\ job[p].linked

\* What that request will write fits the directory it has made.
Fitting(p, n) ==
  /\ job[p].step \in {"cloning", "config", "metadata"} =>
       /\ dirs[n].origin = job[p].kind
       /\ job[p].kind = "created" => dirs[n].head = job[p].branch
  /\ job[p].step = "write" =>
       /\ dirs[n].origin = job[p].meta.kind
       /\ job[p].meta.kind = "created" => dirs[n].head = job[p].meta.branch

\* There is one such request, and nothing has been answered yet.
OneMaker(n) ==
  \A p \in Procs : Making(p, n) =>
    /\ \A q \in Procs : Making(q, n) => q = p
    /\ answered[n] = 0
    /\ Progress(p, n)
    /\ Fitting(p, n)

\* A listing owes what has been answered, and has it or will still read it.
Listing(p) ==
  job[p].step = "list" =>
    \A n \in job[p].owed \ contested :
      answered[n] > 0 /\ (n \in job[p].todo \/ job[p].shown[n] = described[n])

\* A clone under way, of which a name has one, and a file open for writing
\* have their directory under them, contested or not.
Grounded ==
  \A p \in Procs :
    /\ job[p].step = "cloning" => dirs[job[p].name] # None
    /\ job[p].step = "write" /\ job[p].linked => dirs[job[p].name] # None
    /\ job[p].step = "cloning" =>
         \A q \in Procs : job[q].step = "cloning" /\ job[q].name = job[p].name => q = p

IInv ==
  /\ TypeOK
  /\ Grounded
  /\ ServedOnce
  /\ \A n \in Names \ contested : Sound(n) /\ OneMaker(n)
  /\ \A p \in Procs : Listing(p)
=============================================================================
