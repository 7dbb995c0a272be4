----------------------- MODULE ServiceLifecycleProofs -----------------------
(***************************************************************************)
(* Proofs about module ServiceLifecycle, for any number of requests and    *)
(* calls and for every bound.                                              *)
(***************************************************************************)
EXTENDS ServiceLifecycle, TLAPS

Failed == http = "failed" \/ grpc = "failed"

\* Requests are open only while there is a process with listeners.
Traffic ==
  /\ phase \in Accepting \/ OpenCalls = {}
  /\ phase \in Accepting \union {"closing"} \/ Open = {}

\* A process is drained, and ends well, because it was told to stop or has
\* lost a listener; once it drains it takes no calls.
Causes ==
  /\ signalled => ~wanted /\ phase \in Catching
  /\ phase \in {"draining", "closing"} => ~wanted \/ Failed
  /\ phase \in {"draining", "closing"} => grpc # "up"
  /\ phase = "down" /\ status = "ok" => ~wanted \/ Failed

IInv == TypeOK /\ Traffic /\ Causes

USE DEF Goto

LEMMA InitHolds == Init => IInv
<1> SUFFICES ASSUME Init PROVE IInv
  OBVIOUS
<1>1. PICK k \in 0 .. MaxKeys : file = [h \in Halves |-> k] /\ pairs = k
  BY DEF Init
<1>2. file \in [Halves -> 0 .. MaxKeys] /\ pairs \in 0 .. MaxKeys
  BY <1>1
<1>3. 0 \in 0 .. MaxKeys /\ 0 \in 0 .. MaxFaults /\ 0 \in 0 .. MaxStops
  BY BoundsAssumption
<1>4. TypeOK
  BY <1>2, <1>3 DEF Init, TypeOK, Phases, Listener, Tool, Statuses, Torn
<1>5. Traffic /\ Causes
  BY DEF Init, Traffic, Causes, Catching, Open, OpenCalls, Checks, Watches
<1> QED
  BY <1>4, <1>5 DEF IInv

\* An exit cuts what is open, so that nothing is open afterwards.
LEMMA ExitFacts ==
  ASSUME IInv, NEW s \in Statuses, Exit(s)
  PROVE  /\ phase' \in Phases /\ loaded' \in 0 .. MaxKeys
         /\ http' \in Listener /\ grpc' \in Listener /\ signalled' \in BOOLEAN
         /\ status' \in Statuses
         /\ request' \in [Requests -> {"none", "open", "answered", "cut"}]
         /\ call' \in [Calls -> {"none", "check", "watch", "answered", "cut"}]
         /\ Open' = {} /\ OpenCalls' = {}
         /\ phase' = "down" /\ ~signalled' /\ Failed' = Failed
<1>1. Open' = {}
  BY DEF Exit, Open
<1>2. OpenCalls' = {}
  BY DEF Exit, OpenCalls, Checks, Watches
<1>3. /\ request' \in [Requests -> {"none", "open", "answered", "cut"}]
      /\ call' \in [Calls -> {"none", "check", "watch", "answered", "cut"}]
  BY DEF IInv, TypeOK, Exit
<1>4. loaded' \in 0 .. MaxKeys
  BY BoundsAssumption DEF Exit, Torn
<1>5. http' \in Listener /\ grpc' \in Listener /\ Failed' = Failed
  BY DEF IInv, TypeOK, Exit, Failed
<1>6. phase' \in Phases /\ phase' = "down" /\ signalled' = FALSE /\ status' = s
  BY DEF Exit, Phases
<1> QED
  BY <1>1, <1>2, <1>3, <1>4, <1>5, <1>6

\* An exit keeps the invariant unless it is a good end without a cause.
LEMMA ExitKeeps ==
  ASSUME IInv, NEW s \in Statuses, Exit(s),
         s = "ok" => ~wanted' \/ Failed,
         config' = config, file' = file, tool' = tool, pairs' = pairs,
         wanted' \in BOOLEAN, faults' \in 0 .. MaxFaults, stops' \in 0 .. MaxStops
  PROVE  IInv'
<1>1. TypeOK'
  BY ExitFacts DEF IInv, TypeOK, config
<1>2. Traffic'
  BY ExitFacts DEF Traffic
<1>3. status' = s
  BY DEF Exit
<1>4. Causes'
  BY <1>3, ExitFacts DEF Causes, Catching
<1> QED
  BY <1>1, <1>2, <1>4 DEF IInv

LEMMA FaultFacts == ASSUME IInv, Fault PROVE faults' \in 0 .. MaxFaults
  BY BoundsAssumption DEF IInv, TypeOK, Fault

LEMMA Steady ==
  ASSUME IInv
  PROVE  faults \in 0 .. MaxFaults /\ stops \in 0 .. MaxStops /\ wanted \in BOOLEAN
  BY DEF IInv, TypeOK

\* Steps about the key files change nothing else.
LEMMA FilesKeep ==
  ASSUME IInv, UNCHANGED <<config, process, traffic, orders>>,
         file' \in [Halves -> 0 .. MaxKeys], pairs' \in 0 .. MaxKeys, tool' \in Tool,
         faults' \in 0 .. MaxFaults
  PROVE  IInv'
<1>1. TypeOK'
  BY DEF IInv, TypeOK, config, process, traffic, orders
<1>2. Traffic'
  BY DEF IInv, Traffic, Open, OpenCalls, Checks, Watches, process, traffic
<1>3. Causes'
  BY DEF IInv, Causes, Catching, Failed, process, orders
<1> QED
  BY <1>1, <1>2, <1>3 DEF IInv

LEMMA ToolKeeps == ASSUME IInv, GenKeys \/ ToolFails PROVE IInv'
<1>0. /\ file \in [Halves -> 0 .. MaxKeys] /\ pairs \in 0 .. MaxKeys /\ tool \in Tool
      /\ faults \in 0 .. MaxFaults /\ Torn \in 0 .. MaxKeys
  BY BoundsAssumption DEF IInv, TypeOK, Torn
<1>1. CASE Generate
  <2>0. pairs < MaxKeys /\ pairs' = pairs + 1
    BY <1>1 DEF Generate
  <2>1. pairs' \in 0 .. MaxKeys
    BY <1>0, <2>0, BoundsAssumption
  <2>2. tool' \in Tool /\ file' = file /\ faults' = faults /\ UNCHANGED <<config, process, traffic, orders>>
    BY <1>1 DEF Generate, Tool
  <2> QED
    BY <1>0, <2>1, <2>2, FilesKeep
<1>2. ASSUME NEW h \in Halves, CreateFile(h) \/ WriteFile(h) PROVE IInv'
  <2>1. file' \in [Halves -> 0 .. MaxKeys] /\ tool' \in Tool
    BY <1>0, <1>2 DEF CreateFile, WriteFile, Tool
  <2> QED
    BY <1>0, <1>2, <2>1, FilesKeep DEF CreateFile, WriteFile
<1>3. CASE ToolFails
  BY <1>0, <1>3, FaultFacts, FilesKeep DEF ToolFails, Tool
<1> QED
  BY <1>1, <1>2, <1>3 DEF GenKeys

\* The steps of a start.
LEMMA StartKeeps ==
  ASSUME IInv, Start \/ LoadPrivate \/ LoadPublic \/ Admit \/ Bind \/ Refused
  PROVE  IInv'
<1> USE DEF IInv, TypeOK, Traffic, Causes, Catching, Failed, Open, OpenCalls, Checks, Watches, Accepting,
            config, keys, traffic, orders, Phases, Listener
<1>0. "error" \in Statuses /\ "error" # "ok"
  BY DEF Statuses
<1>1. CASE Start
  BY <1>1 DEF Start
<1>2. CASE LoadPrivate
  <2>1. CASE file["private"] = Torn
    BY <1>0, <1>2, <2>1, ExitKeeps, Steady DEF LoadPrivate
  <2>2. CASE file["private"] # Torn
    BY <1>2, <2>2 DEF LoadPrivate, Halves
  <2> QED
    BY <2>1, <2>2
<1>3. CASE LoadPublic
  <2>1. CASE file["public"] # loaded
    BY <1>0, <1>3, <2>1, ExitKeeps, Steady DEF LoadPublic
  <2>2. CASE file["public"] = loaded
    BY <1>3, <2>2 DEF LoadPublic
  <2> QED
    BY <2>1, <2>2
<1>4. CASE Admit
  BY <1>4 DEF Admit
<1>5. CASE Bind
  BY <1>5 DEF Bind
<1>6. CASE Refused
  BY <1>0, <1>6, ExitKeeps, FaultFacts, Steady DEF Refused
<1> QED
  BY <1>1, <1>2, <1>3, <1>4, <1>5, <1>6

\* The steps of a process that has listeners.
LEMMA ServeKeeps ==
  ASSUME IInv,
         HttpListens \/ AwaitSignal \/ HttpRefused \/ HttpFails \/ GrpcFails \/ Drain \/ Drained
         \/ Closed \/ CloseTimeout
  PROVE  IInv'
<1> USE DEF IInv, TypeOK, Traffic, Causes, Catching, Failed, Open, OpenCalls, Checks, Watches, Accepting,
            config, keys, traffic, orders, Phases, Listener
<1>0. "error" \in Statuses /\ "error" # "ok" /\ "ok" \in Statuses
  BY DEF Statuses
<1>1. CASE HttpListens
  BY <1>1 DEF HttpListens
<1>2. CASE AwaitSignal
  BY <1>2 DEF AwaitSignal
<1>3. CASE HttpRefused
  BY <1>3, FaultFacts DEF HttpRefused
<1>4. CASE HttpFails
  BY <1>4, FaultFacts DEF HttpFails
<1>5. CASE GrpcFails
  BY <1>5, FaultFacts DEF GrpcFails
<1>6. CASE Drain
  BY <1>6 DEF Drain
<1>7. CASE Drained
  BY <1>7 DEF Drained
<1>8. CASE Closed
  BY <1>0, <1>8, ExitKeeps, Steady DEF Closed
<1>9. CASE CloseTimeout
  BY <1>0, <1>9, ExitKeeps, Steady DEF CloseTimeout
<1> QED
  BY <1>1, <1>2, <1>3, <1>4, <1>5, <1>6, <1>7, <1>8, <1>9

\* Requests and calls.
LEMMA TrafficKeeps ==
  ASSUME IInv,
         \/ \E q \in Requests : OpenRequest(q) \/ AnswerRequest(q)
         \/ \E c \in Calls : OpenCall(c, "check") \/ OpenCall(c, "watch") \/ AnswerCheck(c) \/ HangUp(c)
  PROVE  IInv'
<1> USE DEF config, keys, process, orders, IInv, TypeOK
<1>1. ASSUME NEW q \in Requests, OpenRequest(q) PROVE IInv'
  BY <1>1 DEF OpenRequest, Traffic, Causes, Catching, Failed, Open, OpenCalls, Checks, Watches, Accepting
<1>2. ASSUME NEW q \in Requests, AnswerRequest(q) PROVE IInv'
  BY <1>2 DEF AnswerRequest, Traffic, Causes, Catching, Failed, Open, OpenCalls, Checks, Watches, Accepting
<1>3. ASSUME NEW c \in Calls, OpenCall(c, "check") \/ OpenCall(c, "watch") PROVE IInv'
  BY <1>3 DEF OpenCall, Traffic, Causes, Catching, Failed, Open, OpenCalls, Checks, Watches, Accepting
<1>4. ASSUME NEW c \in Calls, AnswerCheck(c) \/ HangUp(c) PROVE IInv'
  BY <1>4 DEF AnswerCheck, HangUp, Traffic, Causes, Catching, Failed, Open, OpenCalls, Checks, Watches, Accepting
<1> QED
  BY <1>1, <1>2, <1>3, <1>4

\* The supervisor.
LEMMA SupervisorKeeps ==
  ASSUME IInv, Stop \/ Resume \/ Kill
  PROVE  IInv'
<1>0. "killed" \in Statuses /\ "none" \in Statuses
  BY DEF Statuses
<1>1. CASE Stop
  <2>1. stops' \in 0 .. MaxStops /\ wanted' = FALSE /\ faults' = faults
    BY <1>1, BoundsAssumption DEF Stop, IInv, TypeOK
  <2>2. CASE Exit("killed") /\ UNCHANGED <<config, keys>>
    BY <1>0, <2>1, <2>2, ExitKeeps, Steady DEF keys
  <2>3. CASE phase \in Catching /\ signalled' = TRUE
             /\ UNCHANGED <<config, keys, phase, loaded, http, grpc, status, traffic>>
    BY <2>1, <2>3 DEF IInv, TypeOK, Traffic, Causes, Catching, Failed, Open, OpenCalls, Checks, Watches,
                      config, keys, traffic
  <2>4. CASE phase = "down" /\ UNCHANGED <<config, keys, process, traffic>>
    BY <2>1, <2>4 DEF IInv, TypeOK, Traffic, Causes, Catching, Failed, Open, OpenCalls, Checks, Watches,
                      config, keys, process, traffic
  <2> QED
    BY <1>1, <2>2, <2>3, <2>4 DEF Stop
<1>2. CASE Resume
  BY <1>0, <1>2 DEF Resume, IInv, TypeOK, Traffic, Causes, Catching, Failed, Open, OpenCalls, Checks, Watches,
                    config, keys, traffic
<1>3. CASE Kill
  BY <1>0, <1>3, ExitKeeps, FaultFacts, Steady DEF Kill, keys, orders
<1> QED
  BY <1>1, <1>2, <1>3

LEMMA NextStep == Next =>
  \/ GenKeys \/ ToolFails
  \/ Start \/ LoadPrivate \/ LoadPublic \/ Admit \/ Bind \/ Refused
  \/ HttpListens \/ AwaitSignal \/ HttpRefused \/ HttpFails \/ GrpcFails \/ Drain \/ Drained
  \/ Closed \/ CloseTimeout
  \/ \E q \in Requests : OpenRequest(q) \/ AnswerRequest(q)
  \/ \E c \in Calls : OpenCall(c, "check") \/ OpenCall(c, "watch") \/ AnswerCheck(c) \/ HangUp(c)
  \/ Stop \/ Resume \/ Kill
  BY DEF Next, Run

LEMMA NextKeeps == IInv /\ [Next]_vars => IInv'
<1> SUFFICES ASSUME IInv, [Next]_vars PROVE IInv'
  OBVIOUS
<1>1. CASE UNCHANGED vars
  BY <1>1 DEF vars, config, keys, process, traffic, orders, IInv, TypeOK, Traffic, Causes, Catching, Failed,
              Open, OpenCalls, Checks, Watches
<1>2. CASE Next
  BY <1>2, NextStep, ToolKeeps, StartKeeps, ServeKeeps, TrafficKeeps, SupervisorKeeps
<1> QED
  BY <1>1, <1>2

\* What holds in every state of a service, whatever fails and whoever calls.
THEOREM Inductive == Spec => []IInv
  BY InitHolds, NextKeeps, PTL DEF Spec

\* Every variable keeps its type.
THEOREM TypeCorrect == Spec => []TypeOK
<1>1. IInv => TypeOK
  BY DEF IInv
<1> QED
  BY <1>1, Inductive, PTL

\* A service that is wanted and has ended well has lost a listener (the result
\* of Run is that of Shutdown).
THEOREM OnlyListenersFailSilently == Spec => []SilentStop
<1>1. IInv => SilentStop
  BY DEF IInv, Causes, Failed, SilentStop, SilentlyStopped
<1> QED
  BY <1>1, Inductive, PTL

\* What a process does when it ends.
LEMMA Ends ==
  ASSUME IInv, Next, phase # "down", phase' = "down"
  PROVE  \/ Closed
         \/ /\ status' = "error" /\ OpenCalls = {} /\ Exit("error")
            /\ phase = "closing" \/ Open = {}
         \/ status' = "killed" /\ Exit("killed")
<1> USE DEF Exit
<1>0. phase \notin Accepting => OpenCalls = {}
  BY DEF IInv, Traffic
<1>1. phase \notin Accepting \union {"closing"} => Open = {}
  BY DEF IInv, Traffic
<1>2. \/ LoadPrivate \/ LoadPublic \/ Refused \/ Closed \/ CloseTimeout \/ Stop \/ Kill
  BY NextStep
  DEF GenKeys, Generate, CreateFile, WriteFile, ToolFails, Start, Admit, Bind, HttpListens, AwaitSignal,
      HttpRefused, HttpFails, GrpcFails, Drain, Drained, OpenRequest, AnswerRequest, OpenCall, AnswerCheck,
      HangUp, Resume, process
<1>3. CASE LoadPrivate \/ LoadPublic \/ Refused
  <2>1. phase \in {"private_key", "public_key", "policy", "bind"}
    BY <1>3 DEF LoadPrivate, LoadPublic, Refused
  <2>2. Exit("error")
    BY <1>3 DEF LoadPrivate, LoadPublic, Refused
  <2> QED
    BY <1>0, <1>1, <2>1, <2>2 DEF Accepting
<1>4. CASE CloseTimeout
  BY <1>0, <1>4 DEF CloseTimeout, Accepting
<1>5. CASE Stop
  BY <1>5 DEF Stop
<1>6. CASE Kill
  BY <1>6 DEF Kill
<1> QED
  BY <1>2, <1>3, <1>4, <1>5, <1>6

\* A process that ends well leaves no request and no call behind (GracefulStop
\* waits for the calls, Shutdown for the requests).
THEOREM NothingCut == Spec => CleanExit
<1>1. IInv /\ [Next]_vars =>
        [phase # "down" /\ phase' = "down" /\ status' = "ok" => Open = {} /\ OpenCalls = {}]_vars
  <2> SUFFICES ASSUME IInv, Next, phase # "down", phase' = "down", status' = "ok"
               PROVE  Open = {} /\ OpenCalls = {}
    OBVIOUS
  <2>1. Closed
    BY Ends
  <2> QED
    BY <2>1 DEF Closed, IInv, Traffic, Accepting
<1> QED
  BY <1>1, InitHolds, NextKeeps, PTL DEF Spec, CleanExit

---------------------------------------------------------------------------
(* The refinement of ServicePromise                                        *)

\* The promise's calls under way are the model's.
LEMMA BusyCalls ==
  /\ \A c \in Calls : Promise!Busy(c) <=> c \in OpenCalls
  /\ \A q \in Requests : request[q] = "open" <=> q \in Open
  BY DEF Promise!Busy, OpenCalls, Checks, Watches, Open

LEMMA ExitCuts == ASSUME NEW s, Exit(s) PROVE Promise!Cut
  BY BusyCalls DEF Exit, Promise!Cut

LEMMA NothingToCut ==
  ASSUME IInv, NEW s, Exit(s)
  PROVE  /\ OpenCalls = {} => call' = call
         /\ Open = {} => request' = request
  BY DEF Exit, IInv, TypeOK

\* A process ends as the promise says.
LEMMA EndStep ==
  ASSUME IInv, Next, phase # "down", phase' = "down"
  PROVE  Promise!End
<1>1. Stage' = "down" /\ Stage # "down"
  BY DEF Stage
<1>2. CASE Closed
  <2>1. Stage = "closing" /\ Exit("ok") /\ Open = {} /\ OpenCalls = {}
    BY <1>2 DEF Closed, Stage, IInv, Traffic, Accepting
  <2>2. status' = "ok" /\ request' = request /\ call' = call
    BY <2>1, NothingToCut DEF Exit
  <2> QED
    BY <1>1, <2>1, <2>2 DEF Promise!End
<1>3. CASE status' = "error" /\ OpenCalls = {} /\ Exit("error") /\ phase = "closing"
  <2>1. Stage = "closing"
    BY <1>3 DEF Stage
  <2>2. call' = call /\ Promise!Cut
    BY <1>3, ExitCuts, NothingToCut
  <2> QED
    BY <1>1, <1>3, <2>1, <2>2 DEF Promise!End
<1>4. CASE status' = "error" /\ OpenCalls = {} /\ Open = {} /\ Exit("error") /\ phase # "closing"
  <2>1. phase # "draining"
    BY <1>4, NextStep
    DEF GenKeys, Generate, CreateFile, WriteFile, ToolFails, Start, LoadPrivate, LoadPublic, Admit, Bind,
        Refused, HttpListens, AwaitSignal, HttpRefused, HttpFails, GrpcFails, Drain, Drained, Closed,
        CloseTimeout, OpenRequest, AnswerRequest, OpenCall, AnswerCheck, HangUp, Stop, Resume, Kill, Exit,
        process
  <2>2. Stage = "up"
    BY <1>1, <1>4, <2>1 DEF Stage
  <2>3. request' = request /\ call' = call
    BY <1>4, NothingToCut
  <2> QED
    BY <1>1, <1>4, <2>2, <2>3 DEF Promise!End
<1>5. CASE status' = "killed" /\ Exit("killed")
  BY <1>1, <1>5, ExitCuts DEF Promise!End
<1> QED
  BY <1>2, <1>3, <1>4, <1>5, Ends

\* A step that neither starts nor ends a process.
LEMMA OtherStep ==
  ASSUME IInv, Next, phase = "down" \/ phase' # "down"
  PROVE  Promise!PromiseNext \/ UNCHANGED Promise!promiseVars
<1> USE DEF Promise!PromiseNext, Promise!promiseVars, Stage
<1>1. CASE GenKeys \/ ToolFails
  BY <1>1 DEF GenKeys, Generate, CreateFile, WriteFile, ToolFails, process, traffic
<1>2. CASE Start
  BY <1>2 DEF Start, traffic, Promise!Begin
<1>3. CASE LoadPrivate \/ LoadPublic \/ Admit \/ Bind \/ Refused
  BY <1>3 DEF LoadPrivate, LoadPublic, Admit, Bind, Refused, traffic, Exit
<1>4. CASE HttpListens \/ AwaitSignal \/ HttpRefused \/ HttpFails \/ GrpcFails
  BY <1>4 DEF HttpListens, AwaitSignal, HttpRefused, HttpFails, GrpcFails, traffic
<1>5. CASE Drain
  BY <1>5 DEF Drain, traffic, Promise!BeginDrain
<1>6. CASE Drained
  BY <1>6, BusyCalls DEF Drained, traffic, Promise!BeginClose
<1>7. CASE Closed \/ CloseTimeout \/ Kill
  BY <1>7 DEF Closed, CloseTimeout, Kill, Exit
<1>8. ASSUME NEW q \in Requests, OpenRequest(q) PROVE Promise!AcceptRequest(q)
  BY <1>8 DEF OpenRequest, process, Accepting, Promise!AcceptRequest
<1>9. ASSUME NEW q \in Requests, AnswerRequest(q) PROVE Promise!AnswerRequest(q)
  BY <1>9 DEF AnswerRequest, process, Promise!AnswerRequest
<1>10. ASSUME NEW c \in Calls, NEW kind \in {"check", "watch"}, OpenCall(c, kind)
       PROVE  Promise!AcceptCall(c, kind)
  <2>1. phase \in {"starting", "serving"}
    BY <1>10 DEF OpenCall, Accepting, IInv, Causes
  <2> QED
    BY <1>10, <2>1 DEF OpenCall, process, Promise!AcceptCall, Promise!Busy
<1>11. ASSUME NEW c \in Calls, AnswerCheck(c) \/ HangUp(c) PROVE Promise!EndCall(c)
  BY <1>11 DEF AnswerCheck, HangUp, process, Promise!EndCall, Promise!Busy
<1>12. CASE Stop
  BY <1>12 DEF Stop, process, traffic, Exit, Catching
<1>13. CASE Resume
  BY <1>13 DEF Resume, traffic, Promise!Forget
<1> QED
  BY <1>1, <1>2, <1>3, <1>4, <1>5, <1>6, <1>7, <1>8, <1>9, <1>10, <1>11, <1>12, <1>13, NextStep

LEMMA PromiseStep == IInv /\ [Next]_vars => [Promise!PromiseNext]_(Promise!promiseVars)
<1> SUFFICES ASSUME IInv, [Next]_vars
             PROVE  Promise!PromiseNext \/ UNCHANGED Promise!promiseVars
  OBVIOUS
<1>1. CASE UNCHANGED vars
  BY <1>1 DEF vars, process, traffic, Promise!promiseVars, Stage
<1>2. CASE Next /\ phase # "down" /\ phase' = "down"
  BY <1>2, EndStep DEF Promise!PromiseNext
<1>3. CASE Next /\ (phase = "down" \/ phase' # "down")
  BY <1>3, OtherStep
<1> QED
  BY <1>1, <1>2, <1>3

LEMMA PromiseBegins == Init => Promise!PromiseInit
  BY DEF Init, Promise!PromiseInit, Stage

\* Every behaviour of the service is one that ServicePromise allows.
THEOREM Refinement == Spec => KeepsPromise
  BY InitHolds, NextKeeps, PromiseBegins, PromiseStep, PTL
  DEF Spec, KeepsPromise, Promise!PromiseSpec

---------------------------------------------------------------------------
(* The key files                                                           *)

\* What a run of genkeys has done to the files so far; between runs they hold
\* halves of one pair, unless a run was cut short.
Written ==
  /\ tool \in {"create_public", "write_public"} => file["private"] = pairs
  /\ tool = "idle" /\ faults = 0 => file["private"] = file["public"]

LEMMA FaultsCount == ASSUME IInv, Fault PROVE faults' # 0
<1>1. faults \in 0 .. MaxFaults /\ faults' = faults + 1
  BY DEF IInv, TypeOK, Fault
<1> QED
  BY <1>1, BoundsAssumption

LEMMA WrittenStep == IInv /\ Written /\ [Next]_vars => Written'
<1> SUFFICES ASSUME IInv, Written, [Next]_vars PROVE Written'
  OBVIOUS
<1>0. DOMAIN file = Halves /\ "private" \in Halves /\ "public" \in Halves /\ "private" # "public"
  BY DEF IInv, TypeOK, Halves
<1>1. CASE Generate
  BY <1>1 DEF Generate, Written
<1>2. ASSUME NEW h \in Halves, CreateFile(h) PROVE Written'
  BY <1>0, <1>2 DEF CreateFile, Written, Halves
<1>3. CASE WriteFile("private")
  BY <1>0, <1>3 DEF WriteFile, Written, IInv, TypeOK
<1>4. CASE WriteFile("public")
  <2>1. /\ tool = "write_public" /\ tool' = "idle" /\ pairs' = pairs
        /\ file' = [file EXCEPT !["public"] = pairs]
    BY <1>0, <1>4 DEF WriteFile
  <2>2. file'["public"] = pairs /\ file'["private"] = file["private"] /\ file["private"] = pairs
    BY <1>0, <2>1 DEF Written, IInv, TypeOK
  <2> QED
    BY <2>1, <2>2 DEF Written
<1>5. CASE ToolFails
  BY <1>5, FaultsCount DEF ToolFails, Written
<1>6. CASE UNCHANGED keys /\ (faults' = faults \/ Fault)
  BY <1>6, FaultsCount DEF keys, Written
<1>7. \/ GenKeys \/ ToolFails
      \/ UNCHANGED keys /\ (faults' = faults \/ Fault)
  BY NextStep DEF vars, Start, LoadPrivate, LoadPublic, Admit, Bind, Refused, HttpListens, AwaitSignal,
     HttpRefused, HttpFails, GrpcFails, Drain, Drained, Closed, CloseTimeout, OpenRequest, AnswerRequest,
     OpenCall, AnswerCheck, HangUp, Stop, Resume, Kill
<1> QED
  BY <1>1, <1>2, <1>3, <1>4, <1>5, <1>6, <1>7 DEF GenKeys, Halves

\* The halves in the two files belong together unless genkeys is at work or was
\* cut short.
KeysTogether == file["private"] # file["public"] => tool # "idle" \/ faults > 0

\* A run of genkeys that is not cut short leaves both halves of its pair, whatever
\* an earlier one has left.
KeysReplaced ==
  [][tool # "idle" /\ tool' = "idle" => faults' # faults \/ \A h \in Halves : file'[h] = pairs]_vars

\* A service that refuses to start because its keys do not fit together waits for
\* a genkeys that is at work or was cut short (writeKey, LoadKeys).
THEOREM KeysFit == Spec => []KeysTogether
<1>1. Init => Written
  BY DEF Init, Written, Halves
<1>2. IInv /\ Written => KeysTogether
  <2> SUFFICES ASSUME IInv, Written, file["private"] # file["public"], tool = "idle"
               PROVE  faults > 0
    BY DEF KeysTogether
  <2>1. faults \in 0 .. MaxFaults /\ faults # 0
    BY DEF Written, IInv, TypeOK
  <2> QED
    BY <2>1, BoundsAssumption
<1> QED
  BY <1>1, <1>2, WrittenStep, Inductive, PTL DEF Spec

\* It is repaired by running genkeys again to its end: no torn or foreign half
\* outlives that (writeKey).
THEOREM KeysRepaired == Spec => KeysReplaced
<1>1. Init => Written
  BY DEF Init, Written, Halves
<1>2. IInv /\ Written /\ [Next]_vars =>
        [tool # "idle" /\ tool' = "idle" => faults' # faults \/ \A h \in Halves : file'[h] = pairs]_vars
  <2> SUFFICES ASSUME IInv, Written, Next, tool # "idle", tool' = "idle", faults' = faults, NEW h \in Halves
               PROVE  file'[h] = pairs
    OBVIOUS
  <2>1. DOMAIN file = Halves /\ "private" \in Halves /\ "public" \in Halves /\ "private" # "public"
    BY DEF IInv, TypeOK, Halves
  <2>2. ~ToolFails
    <3>1. faults \in 0 .. MaxFaults
      BY DEF IInv, TypeOK
    <3>2. faults' # faults + 1
      BY <3>1, BoundsAssumption
    <3> QED
      BY <3>2 DEF ToolFails, Fault
  <2>3. WriteFile("public")
    BY <2>1, <2>2, NextStep DEF GenKeys, Generate, CreateFile, WriteFile, Halves, keys, Start, LoadPrivate,
       LoadPublic, Admit, Bind, Refused, HttpListens, AwaitSignal, HttpRefused, HttpFails, GrpcFails, Drain,
       Drained, Closed, CloseTimeout, OpenRequest, AnswerRequest, OpenCall, AnswerCheck, HangUp, Stop,
       Resume, Kill
  <2>4. tool = "write_public" /\ file' = [file EXCEPT !["public"] = pairs]
    BY <2>1, <2>3 DEF WriteFile
  <2> QED
    BY <2>1, <2>4 DEF Written, Halves, IInv, TypeOK
<1> QED
  BY <1>1, <1>2, WrittenStep, Inductive, PTL DEF Spec, KeysReplaced

---------------------------------------------------------------------------
(* How long a recovery can take: the safety half of Settles                *)

\* A process that is still getting ready has no listener yet and reads keys only
\* to sign; one that runs although it is not wanted was signalled and will notice.
Ordered ==
  /\ phase \in {"private_key", "public_key"} => signing
  /\ phase \in {"private_key", "public_key", "policy", "bind"} => http = "closed" /\ grpc = "closed"
  /\ ~wanted /\ phase # "down" => signalled /\ phase \in Catching

KeysReady == signing => tool = "idle" /\ ~Unsigned

\* The steps to a service that serves.
ToServing(p) ==
  IF p = "private_key" THEN 6
  ELSE IF p = "public_key" THEN 5
  ELSE IF p = "policy" THEN 4
  ELSE IF p = "bind" THEN 3
  ELSE IF p = "starting" THEN 1
  ELSE IF p = "serving" THEN 0
  ELSE IF p = "draining" THEN 9
  ELSE IF p = "closing" THEN 8
  ELSE 7

\* Those of one that has lost a listener, or has loaded a key that was replaced
\* since: it ends and starts again.
Detour ==
  IF phase \in {"starting", "serving"} /\ Failed THEN 11
  ELSE IF phase = "public_key" /\ loaded # file["public"] THEN 3
  ELSE 0

\* The steps to the end of one that was told to stop.
ToDown(p) ==
  IF p = "serving" THEN 4
  ELSE IF p = "draining" THEN 2
  ELSE IF p = "closing" THEN 1
  ELSE 0

\* The goroutine of the HTTP server may have to be waited for as well.
Listening == IF phase \in Accepting /\ http = "closed" THEN 1 ELSE 0

StepsLeft == (IF wanted THEN ToServing(phase) + Detour ELSE ToDown(phase)) + Listening

\* Between two faults and two orders, and while the keys fit, every step of the
\* process and of its supervisor brings the service nearer to where it is meant
\* to be, and no client and no handler sets it back; nor does a client open a
\* call that a process which drains has to wait for.  What is left to Settles is
\* that these steps are taken and that the calls end.
Recovers ==
  /\ StepsLeft \in 0 .. 13 /\ (StepsLeft = 0 => AtRest)
  /\ phase = "draining" => OpenCalls' \subseteq OpenCalls
  /\ UNCHANGED <<wanted, faults>> /\ KeysReady /\ KeysReady' =>
       /\ StepsLeft' <= StepsLeft
       /\ Start \/ Run => StepsLeft' < StepsLeft
DrawsToRest == [][Recovers]_vars

LEMMA OrderedStep == IInv /\ Ordered /\ [Next]_vars => Ordered'
<1> SUFFICES ASSUME IInv, Ordered, [Next]_vars PROVE Ordered'
  OBVIOUS
<1>0. wanted \in BOOLEAN /\ phase \in Phases
  BY DEF IInv, TypeOK
<1>1. CASE phase' = "down" /\ signing' = signing
  BY <1>1 DEF Ordered
<1>2. CASE Start
  BY <1>2 DEF Start, MayStart, Ordered, config, orders
<1>3. CASE LoadPrivate \/ LoadPublic \/ Admit
  BY <1>1, <1>3 DEF LoadPrivate, LoadPublic, Admit, Exit, Ordered, Catching, config, orders
<1>4. CASE \/ Bind \/ HttpListens \/ AwaitSignal \/ HttpRefused \/ HttpFails \/ GrpcFails
           \/ Drain \/ Drained
  BY <1>4 DEF Bind, HttpListens, AwaitSignal, HttpRefused, HttpFails, GrpcFails, Drain, Drained,
              Ordered, Accepting, Catching, config, orders
<1>5. CASE Stop
  BY <1>1, <1>5 DEF Stop, Exit, Ordered, Catching, config, process
<1>6. CASE UNCHANGED <<config, process, orders>>
  BY <1>6 DEF Ordered, Catching, config, process, orders
<1>7. CASE Refused \/ Closed \/ CloseTimeout \/ Resume \/ Kill
  BY <1>1, <1>7 DEF Refused, Closed, CloseTimeout, Resume, Kill, Exit, config
<1>8. CASE \/ GenKeys \/ ToolFails \/ UNCHANGED vars
           \/ \E q \in Requests : OpenRequest(q) \/ AnswerRequest(q)
           \/ \E c \in Calls : OpenCall(c, "check") \/ OpenCall(c, "watch") \/ AnswerCheck(c) \/ HangUp(c)
  BY <1>6, <1>8 DEF GenKeys, Generate, CreateFile, WriteFile, ToolFails, OpenRequest, AnswerRequest,
                    OpenCall, AnswerCheck, HangUp, vars
<1> QED
  BY <1>2, <1>3, <1>4, <1>5, <1>7, <1>8, NextStep

LEMMA Places ==
  /\ \A p : ToServing(p) \in 0 .. 9 /\ ToDown(p) \in 0 .. 4
  /\ ToServing("down") = 7 /\ ToServing("private_key") = 6 /\ ToServing("public_key") = 5
  /\ ToServing("policy") = 4 /\ ToServing("bind") = 3 /\ ToServing("starting") = 1
  /\ ToServing("serving") = 0 /\ ToServing("draining") = 9 /\ ToServing("closing") = 8
  /\ ToDown("serving") = 4 /\ ToDown("draining") = 2 /\ ToDown("closing") = 1 /\ ToDown("down") = 0
BY DEF ToServing, ToDown

LEMMA StepsBound == IInv /\ Ordered => StepsLeft \in 0 .. 13 /\ (StepsLeft = 0 => AtRest)
<1> SUFFICES ASSUME IInv, Ordered PROVE StepsLeft \in 0 .. 13 /\ (StepsLeft = 0 => AtRest)
  OBVIOUS
<1>1. wanted \in BOOLEAN /\ phase \in Phases
  BY DEF IInv, TypeOK
<1>2. CASE wanted
  BY <1>1, <1>2, Places DEF StepsLeft, Detour, Listening, AtRest, Phases, Accepting
<1>3. CASE ~wanted
  BY <1>1, <1>3, Places DEF StepsLeft, Detour, Listening, AtRest, Ordered, Catching, Accepting
<1> QED
  BY <1>1, <1>2, <1>3

\* GracefulStop waits for the calls there are, and for no others.
LEMMA NoMoreCalls ==
  ASSUME IInv, [Next]_vars, phase = "draining"
  PROVE  OpenCalls' \subseteq OpenCalls
<1>1. ASSUME NEW s, Exit(s) PROVE OpenCalls' = {}
  BY <1>1 DEF Exit, OpenCalls, Checks, Watches
<1>2. ASSUME NEW c \in Calls, NEW kind, OpenCall(c, kind) PROVE FALSE
  BY <1>2 DEF OpenCall, IInv, Causes
<1>3. ASSUME NEW c \in Calls, AnswerCheck(c) \/ HangUp(c) PROVE OpenCalls' \subseteq OpenCalls
  BY <1>3 DEF AnswerCheck, HangUp, OpenCalls, Checks, Watches, IInv, TypeOK
<1>4. CASE UNCHANGED call
  BY <1>4 DEF OpenCalls, Checks, Watches
<1>5. \/ UNCHANGED call \/ (\E s \in Statuses : Exit(s))
      \/ \E c \in Calls : OpenCall(c, "check") \/ OpenCall(c, "watch") \/ AnswerCheck(c) \/ HangUp(c)
  BY NextStep
  DEF vars, traffic, process, GenKeys, Generate, CreateFile, WriteFile, ToolFails, Start, LoadPrivate,
      LoadPublic, Admit, Bind, Refused, HttpListens, AwaitSignal, HttpRefused, HttpFails, GrpcFails,
      Drain, Drained, Closed, CloseTimeout, OpenRequest, AnswerRequest, Stop, Resume, Kill, Statuses
<1> QED
  BY <1>1, <1>2, <1>3, <1>4, <1>5

\* What the steps of a process and of its supervisor do to the measure.
LEMMA RunDraws ==
  ASSUME IInv, Ordered, KeysReady, KeysReady', Start \/ Run
  PROVE  StepsLeft' < StepsLeft /\ StepsLeft' <= StepsLeft
<1> USE Places DEF StepsLeft, Detour, Listening, Failed, Accepting
<1>0. wanted \in BOOLEAN /\ signing \in BOOLEAN /\ http \in Listener /\ grpc \in Listener
  BY DEF IInv, TypeOK
<1>1. CASE Start
  BY <1>0, <1>1 DEF Start, MayStart, orders, Listener
<1>2. CASE LoadPrivate
  BY <1>0, <1>2 DEF LoadPrivate, Ordered, KeysReady, Unsigned, Exit, Catching, keys, orders, config
<1>3. CASE LoadPublic
  BY <1>0, <1>3 DEF LoadPublic, Ordered, Exit, Catching, keys, orders
<1>4. CASE Admit \/ Bind \/ AwaitSignal
  BY <1>0, <1>4 DEF Admit, Bind, AwaitSignal, Ordered, Catching, orders
<1>5. CASE HttpListens
  BY <1>0, <1>5 DEF HttpListens, keys, orders
<1>6. CASE Drain
  BY <1>0, <1>6 DEF Drain, IInv, Causes, orders
<1>7. CASE Drained \/ Closed \/ CloseTimeout
  BY <1>0, <1>7 DEF Drained, Closed, CloseTimeout, Exit, orders
<1> QED
  BY <1>1, <1>2, <1>3, <1>4, <1>5, <1>6, <1>7 DEF Run

\* Nothing else raises it as long as nothing fails and the orders stand.
LEMMA OthersLeave ==
  ASSUME IInv, Ordered, [Next]_vars, KeysReady, KeysReady', UNCHANGED <<wanted, faults>>, ~(Start \/ Run)
  PROVE  StepsLeft' <= StepsLeft
<1> USE Places DEF StepsLeft, Detour, Listening, Failed, Accepting
<1>0. wanted \in BOOLEAN /\ signing \in BOOLEAN /\ faults \in 0 .. MaxFaults
  BY DEF IInv, TypeOK
<1>1. ~Fault
  BY <1>0, BoundsAssumption DEF Fault
<1>2. CASE UNCHANGED process /\ (phase = "public_key" => UNCHANGED file)
  BY <1>2 DEF process
<1>3. CASE GenKeys
  <2>1. signing => UNCHANGED file
    BY <1>0, <1>3 DEF GenKeys, Generate, CreateFile, WriteFile, KeysReady, config, Halves
  <2> QED
    BY <1>2, <1>3, <2>1 DEF GenKeys, Generate, CreateFile, WriteFile, Ordered
<1>4. CASE Kill
  BY <1>0, <1>1, <1>4 DEF Kill, Exit
<1>5. ~Stop /\ ~Resume
  BY <1>0 DEF Stop, Resume
<1>6. (UNCHANGED process /\ UNCHANGED keys) \/ GenKeys \/ Kill
  BY <1>1, <1>5, NextStep
  DEF vars, process, keys, Run, ToolFails, Refused, HttpRefused, HttpFails, GrpcFails, OpenRequest,
      AnswerRequest, OpenCall, AnswerCheck, HangUp
<1> QED
  BY <1>2, <1>3, <1>4, <1>6 DEF keys

\* A service is where it is meant to be after at most 13 steps of the process and
\* its supervisor, counted from the last fault, order or new key; a Watch is the
\* one thing such a step may have to wait for without a bound
\* (Run, LoadKeys, GracefulStop, Shutdown).
THEOREM BoundedRecovery == Spec => DrawsToRest
<1>1. Init => Ordered
  BY DEF Init, Ordered
<1>2. IInv /\ Ordered /\ [Next]_vars => Recovers
  <2> SUFFICES ASSUME IInv, Ordered, [Next]_vars PROVE Recovers
    OBVIOUS
  <2>1. ASSUME UNCHANGED <<wanted, faults>>, KeysReady, KeysReady'
        PROVE  StepsLeft' <= StepsLeft /\ (Start \/ Run => StepsLeft' < StepsLeft)
    BY <2>1, RunDraws, OthersLeave
  <2> QED
    BY <2>1, StepsBound, NoMoreCalls DEF Recovers
<1>3. IInv /\ Ordered /\ [Next]_vars => [Recovers]_vars
  BY <1>2
<1>4. Spec => []Ordered
  BY <1>1, OrderedStep, Inductive, PTL DEF Spec
<1> QED
  BY <1>3, <1>4, Inductive, PTL DEF Spec, DrawsToRest
=============================================================================
