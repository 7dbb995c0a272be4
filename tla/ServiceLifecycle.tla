-------------------------- MODULE ServiceLifecycle --------------------------
(***************************************************************************)
(* The life of one service: the harness every service runs in              *)
(* (orcastackapi/internal/platform/app/service.go, Run), the signing keys  *)
(* it loads (internal/platform/security/crypto.go), the tool that writes   *)
(* them (cmd/orcastack-secctl, genkeys) and what supervises the process.   *)
(*                                                                         *)
(* Run loads and checks the keys, enforces the directory policy, opens two *)
(* listeners and waits for a signal or for a listener that fails.  It then *)
(* waits for the gRPC calls, without a bound, and after them for the HTTP  *)
(* requests, for five seconds.  main exits 1 if Run returned an error.     *)
(*                                                                         *)
(* External are the supervisor, which restarts the process always          *)
(* (Kubernetes) or after a failure (packaging/systemd/orcastack.service),  *)
(* the clients, and net/http and grpc-go as Run uses them: the only gRPC   *)
(* service is health, whose Check is short and whose Watch lasts until the *)
(* client hangs up.                                                        *)
(***************************************************************************)
EXTENDS Naturals

CONSTANTS
  Requests,    \* HTTP requests that may be under way at the same time
  Calls,       \* gRPC calls that may be under way at the same time
  MaxKeys,     \* bound: key pairs that are generated
  MaxFaults,   \* bound: failures, crashes and kills
  MaxStops     \* bound: orders to stop the service

ASSUME BoundsAssumption == MaxKeys \in Nat /\ MaxFaults \in Nat /\ MaxStops \in Nat

Policies == {"always", "on_failure"}
Halves   == {"private", "public"}
Torn     == 0      \* a key file that is missing or empty

VARIABLES
  restarts,    \* when the supervisor restarts the process
  signing,     \* ORCASTACK_ENFORCE_SIGNING
  file,        \* file[h]: the key pair whose half is in the file
  tool,        \* what genkeys does next
  pairs,       \* key pairs generated so far
  phase,       \* where Run is
  loaded,      \* the private key Run has loaded
  http, grpc,  \* the listeners
  signalled,   \* a signal waits to be noticed
  request,     \* request[q]: an HTTP request
  call,        \* call[c]: a gRPC call
  status,      \* how the process ended last
  wanted,      \* the service is meant to run
  faults,      \* faults so far
  stops        \* orders to stop so far

config  == <<restarts, signing>>
keys    == <<file, tool, pairs>>
process == <<phase, loaded, http, grpc, signalled, status>>
traffic == <<request, call>>
orders  == <<wanted, stops>>
vars    == <<config, keys, process, traffic, orders, faults>>

Phases == {"down", "private_key", "public_key", "policy", "bind", "starting",
           "serving", "draining", "closing"}
Accepting == {"starting", "serving", "draining"}   \* Run has started its listeners
Catching  == {"serving", "draining", "closing"}    \* signals do not kill the process
Listener  == {"closed", "up", "failed"}
Tool      == {"idle", "create_private", "write_private", "create_public", "write_public"}
Statuses  == {"none", "ok", "error", "killed"}

Init ==
  /\ restarts \in Policies
  /\ signing \in BOOLEAN
  /\ \E k \in {Torn, 1} \cap (0 .. MaxKeys) : file = [h \in Halves |-> k] /\ pairs = k
  /\ tool = "idle"
  /\ phase = "down"
  /\ loaded = Torn
  /\ http = "closed" /\ grpc = "closed"
  /\ signalled = FALSE
  /\ request = [q \in Requests |-> "none"]
  /\ call = [c \in Calls |-> "none"]
  /\ status = "none"
  /\ wanted = TRUE
  /\ faults = 0 /\ stops = 0

Open      == {q \in Requests : request[q] = "open"}
Checks    == {c \in Calls : call[c] = "check"}
Watches   == {c \in Calls : call[c] = "watch"}
OpenCalls == Checks \union Watches

Fault == faults < MaxFaults /\ faults' = faults + 1

\* The process ends, and everything that was open is cut.
Exit(s) ==
  /\ phase' = "down"
  /\ status' = s
  /\ loaded' = Torn
  /\ signalled' = FALSE
  /\ request' = [q \in Requests |-> IF q \in Open THEN "cut" ELSE request[q]]
  /\ call' = [c \in Calls |-> IF c \in OpenCalls THEN "cut" ELSE call[c]]
  /\ UNCHANGED <<http, grpc>>

Goto(p) == phase' = p

---------------------------------------------------------------------------
(* orcastack-secctl genkeys                                                *)

Generate ==
  /\ tool = "idle" /\ pairs < MaxKeys
  /\ pairs' = pairs + 1
  /\ tool' = "create_private"
  /\ UNCHANGED <<config, file, process, traffic, orders, faults>>

\* os.Create truncates the file of a key that may be in use.
CreateFile(h) ==
  /\ tool = IF h = "private" THEN "create_private" ELSE "create_public"
  /\ file' = [file EXCEPT ![h] = Torn]
  /\ tool' = IF h = "private" THEN "write_private" ELSE "write_public"
  /\ UNCHANGED <<config, pairs, process, traffic, orders, faults>>

WriteFile(h) ==
  /\ tool = IF h = "private" THEN "write_private" ELSE "write_public"
  /\ file' = [file EXCEPT ![h] = pairs]
  /\ tool' = IF h = "private" THEN "create_public" ELSE "idle"
  /\ UNCHANGED <<config, pairs, process, traffic, orders, faults>>

\* A write fails, or the tool is killed, and leaves the files as they are.
ToolFails ==
  /\ tool # "idle"
  /\ Fault
  /\ tool' = "idle"
  /\ UNCHANGED <<config, file, pairs, process, traffic, orders>>

---------------------------------------------------------------------------
(* Run, up to the listeners                                                *)

MayStart == wanted /\ (status = "ok" => restarts = "always")

Start ==
  /\ phase = "down" /\ MayStart
  /\ Goto(IF signing THEN "private_key" ELSE "policy")
  /\ http' = "closed" /\ grpc' = "closed"
  /\ UNCHANGED <<config, keys, loaded, signalled, status, traffic, orders, faults>>

\* LoadKeys.
LoadPrivate ==
  /\ phase = "private_key"
  /\ IF file["private"] = Torn
     THEN Exit("error")
     ELSE /\ loaded' = file["private"]
          /\ Goto("public_key")
          /\ UNCHANGED <<http, grpc, signalled, status, traffic>>
  /\ UNCHANGED <<config, keys, orders, faults>>

\* LoadKeys, SignAttestation, VerifyAttestation: what the private key signs
\* verifies with the public key of the same pair.
LoadPublic ==
  /\ phase = "public_key"
  /\ IF file["public"] # loaded
     THEN Exit("error")
     ELSE Goto("policy") /\ UNCHANGED <<loaded, http, grpc, signalled, status, traffic>>
  /\ UNCHANGED <<config, keys, orders, faults>>

\* The rest of the policy is in order: see module DirectoryPolicy.
Admit ==
  /\ phase = "policy"
  /\ Goto("bind")
  /\ UNCHANGED <<config, keys, loaded, http, grpc, signalled, status, traffic, orders, faults>>

\* The gRPC port is bound, and both servers are started in goroutines.
Bind ==
  /\ phase = "bind"
  /\ Goto("starting")
  /\ grpc' = "up"
  /\ UNCHANGED <<config, keys, loaded, http, signalled, status, traffic, orders, faults>>

\* Mutant: a failed start is logged and not returned.
RefusedQuietly ==
  /\ phase \in {"policy", "bind"}
  /\ Fault
  /\ Exit("ok")
  /\ UNCHANGED <<config, keys, orders>>

\* The policy is refused, or the gRPC port is taken.
Refused ==
  /\ phase \in {"policy", "bind"}
  /\ Fault
  /\ Exit("error")
  /\ UNCHANGED <<config, keys, orders>>

---------------------------------------------------------------------------
(* Run, from the listeners on                                              *)

HttpListens ==
  /\ phase \in Accepting /\ http = "closed"
  /\ http' = "up"
  /\ UNCHANGED <<config, keys, phase, loaded, grpc, signalled, status, traffic, orders, faults>>

\* signal.NotifyContext; until then a signal kills the process.
AwaitSignal ==
  /\ phase = "starting"
  /\ Goto("serving")
  /\ UNCHANGED <<config, keys, loaded, http, grpc, signalled, status, traffic, orders, faults>>

\* The HTTP port is taken.
HttpRefused ==
  /\ phase \in Accepting /\ http = "closed"
  /\ Fault
  /\ http' = "failed"
  /\ UNCHANGED <<config, keys, phase, loaded, grpc, signalled, status, traffic, orders>>

\* A listener fails; what it has accepted goes on.
HttpFails ==
  /\ phase \in Accepting /\ http = "up"
  /\ Fault
  /\ http' = "failed"
  /\ UNCHANGED <<config, keys, phase, loaded, grpc, signalled, status, traffic, orders>>

GrpcFails ==
  /\ phase \in Accepting /\ grpc = "up"
  /\ Fault
  /\ grpc' = "failed"
  /\ UNCHANGED <<config, keys, phase, loaded, http, signalled, status, traffic, orders>>

\* The select, ready = 0 and the beginning of GracefulStop, which closes the
\* gRPC listener.  HTTP requests are still accepted.
Drain ==
  /\ phase = "serving"
  /\ signalled \/ http = "failed" \/ grpc = "failed"
  /\ Goto("draining")
  /\ grpc' = IF grpc = "failed" THEN grpc ELSE "closed"
  /\ UNCHANGED <<config, keys, loaded, http, signalled, status, traffic, orders, faults>>

\* Mutant: Stop in the place of GracefulStop.
DrainedAtOnce ==
  /\ phase = "draining"
  /\ Goto("closing")
  /\ http' = IF http = "failed" THEN http ELSE "closed"
  /\ UNCHANGED <<config, keys, loaded, grpc, signalled, status, traffic, orders, faults>>

\* GracefulStop returns, and Shutdown closes the HTTP listener.
Drained ==
  /\ phase = "draining" /\ OpenCalls = {}
  /\ Goto("closing")
  /\ http' = IF http = "failed" THEN http ELSE "closed"
  /\ UNCHANGED <<config, keys, loaded, grpc, signalled, status, traffic, orders, faults>>

\* Mutant: the server is closed and not shut down.
Close ==
  /\ phase = "closing"
  /\ Exit("ok")
  /\ UNCHANGED <<config, keys, orders, faults>>

\* Shutdown finds no request under way, and Run returns nil whatever ended it.
Closed ==
  /\ phase = "closing" /\ Open = {}
  /\ Exit("ok")
  /\ UNCHANGED <<config, keys, orders, faults>>

\* Mutant: Shutdown has no deadline.
CloseWaits ==
  /\ phase = "closing" /\ Open # {}
  /\ UNCHANGED vars

\* Mutant: main exits with a status of its own.
CloseUnknown ==
  /\ phase = "closing" /\ Open # {}
  /\ Exit("deadline exceeded")
  /\ UNCHANGED <<config, keys, orders, faults>>

\* The five seconds are over, Run returns the error of the context and main
\* calls log.Fatal.
CloseTimeout ==
  /\ phase = "closing" /\ Open # {}
  /\ Exit("error")
  /\ UNCHANGED <<config, keys, orders, faults>>

---------------------------------------------------------------------------
(* Clients and supervisor                                                  *)

OpenRequest(q) ==
  /\ request[q] # "open" /\ http = "up" /\ phase \in Accepting
  /\ request' = [request EXCEPT ![q] = "open"]
  /\ UNCHANGED <<config, keys, process, call, orders, faults>>

\* withMetrics and withCORS pass the request on; its handler may take its time.
AnswerRequest(q) ==
  /\ request[q] = "open"
  /\ request' = [request EXCEPT ![q] = "answered"]
  /\ UNCHANGED <<config, keys, process, call, orders, faults>>

OpenCall(c, kind) ==
  /\ call[c] \notin {"check", "watch"} /\ grpc = "up" /\ phase \in Accepting
  /\ call' = [call EXCEPT ![c] = kind]
  /\ UNCHANGED <<config, keys, process, request, orders, faults>>

AnswerCheck(c) ==
  /\ call[c] = "check"
  /\ call' = [call EXCEPT ![c] = "answered"]
  /\ UNCHANGED <<config, keys, process, request, orders, faults>>

\* The client of a Watch hangs up.
HangUp(c) ==
  /\ call[c] = "watch"
  /\ call' = [call EXCEPT ![c] = "answered"]
  /\ UNCHANGED <<config, keys, process, request, orders, faults>>

\* The supervisor sends SIGTERM.
Stop ==
  /\ wanted /\ stops < MaxStops
  /\ wanted' = FALSE /\ stops' = stops + 1
  /\ \/ /\ phase \in Catching
        /\ signalled' = TRUE
        /\ UNCHANGED <<phase, loaded, http, grpc, status, traffic>>
     \/ phase = "down" /\ UNCHANGED <<process, traffic>>
     \/ phase \notin Catching \union {"down"} /\ Exit("killed")
  /\ UNCHANGED <<config, keys, faults>>

\* The service is ordered to run again.
Resume ==
  /\ ~wanted /\ phase = "down"
  /\ wanted' = TRUE
  /\ status' = "none"
  /\ UNCHANGED <<config, keys, phase, loaded, http, grpc, signalled, traffic, stops, faults>>

\* SIGKILL when a stop takes too long, or a crash.
Kill ==
  /\ phase # "down"
  /\ \/ ~wanted /\ UNCHANGED faults
     \/ Fault
  /\ Exit("killed")
  /\ UNCHANGED <<config, keys, orders>>

---------------------------------------------------------------------------
Run == LoadPrivate \/ LoadPublic \/ Admit \/ Bind \/ HttpListens \/ AwaitSignal
         \/ Drain \/ Drained \/ Closed \/ CloseTimeout

GenKeys == Generate \/ \E h \in Halves : CreateFile(h) \/ WriteFile(h)

Next ==
  \/ GenKeys \/ ToolFails
  \/ Start \/ Run \/ Refused \/ HttpRefused \/ HttpFails \/ GrpcFails
  \/ \E q \in Requests : OpenRequest(q) \/ AnswerRequest(q)
  \/ \E c \in Calls : OpenCall(c, "check") \/ OpenCall(c, "watch") \/ AnswerCheck(c) \/ HangUp(c)
  \/ Stop \/ Resume \/ Kill

\* The process runs, the supervisor starts it, genkeys finishes what it began,
\* and a Check is answered.  Nothing is assumed of the handlers of HTTP
\* requests, of the clients of a Watch and of a supervisor's patience.
Fairness ==
  /\ WF_vars(Run)
  /\ WF_vars(HttpListens)
  /\ WF_vars(Start)
  /\ WF_vars(\E h \in Halves : CreateFile(h) \/ WriteFile(h))
  /\ \A c \in Calls : WF_vars(AnswerCheck(c))

Spec == Init /\ [][Next]_vars /\ Fairness

---------------------------------------------------------------------------
(* Properties                                                              *)

\* Every variable keeps its type.
TypeOK ==
  /\ restarts \in Policies /\ signing \in BOOLEAN
  /\ file \in [Halves -> 0 .. MaxKeys] /\ pairs \in 0 .. MaxKeys /\ tool \in Tool
  /\ phase \in Phases /\ loaded \in 0 .. MaxKeys
  /\ http \in Listener /\ grpc \in Listener
  /\ signalled \in BOOLEAN
  /\ request \in [Requests -> {"none", "open", "answered", "cut"}]
  /\ call \in [Calls -> {"none", "check", "watch", "answered", "cut"}]
  /\ status \in Statuses
  /\ wanted \in BOOLEAN
  /\ faults \in 0 .. MaxFaults /\ stops \in 0 .. MaxStops

\* A process that ended well although nobody had asked it to stop has lost a
\* listener: nothing else makes a service that is wanted disappear without an
\* error its supervisor sees (the result of Run is the result of Shutdown).
SilentlyStopped == wanted /\ phase = "down" /\ status = "ok"

SilentStop == SilentlyStopped => http = "failed" \/ grpc = "failed"

\* A process that ends well has answered every request and every call it had
\* accepted, those it accepted while it was draining as well (GracefulStop
\* before Shutdown).
CleanExit ==
  [][phase # "down" /\ phase' = "down" /\ status' = "ok" => Open = {} /\ OpenCalls = {}]_vars

\* The service is where it is meant to be, as far as keys and supervisor let it.
Unsigned == signing /\ (file["private"] = Torn \/ file["private"] # file["public"])
AtRest ==
  IF wanted
  THEN phase = "serving" \/ Unsigned \/ (SilentlyStopped /\ restarts = "on_failure")
  ELSE phase = "down"

\* Unless a client keeps a Watch open, a service that is told to stop stops
\* without being killed, and one that is wanted serves again: after a failure,
\* a crash, and a start that read one key file before and the other one after
\* genkeys wrote it.
Settles == []<>(AtRest \/ Watches # {})

\* The service keeps the promise of module ServicePromise.
Stage == IF phase \in {"down", "draining", "closing"} THEN phase ELSE "up"

Promise == INSTANCE ServicePromise WITH stage <- Stage

KeepsPromise == Promise!PromiseSpec
=============================================================================
