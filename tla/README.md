# OrcaStack in TLA+

OrcaStack is a self-hosted development platform: a Go gateway and a handful of Go
services, a Ruby portal, a React client, a billing SDK, and the configuration that
deploys them. This directory holds TLA+ specifications of the parts of it whose
correctness depends on the order in which things happen, the TLC configurations that
check them on small instances, and proofs, checked by TLAPS, that some of the results
hold for every instance.

Run everything from this directory: `tlc -config Accounts.cfg MCAccounts.tla` checks a
run, `tlapm AccountsProofs.tla` checks a module of proofs.

## 1. Inventory

| Component (under `src/`) | State | Operations | Interacts with | What makes it hard | What makes it correct |
|---|---|---|---|---|---|
| **Accounts, reviews, sessions** `orcastackapi/internal/gatewayapi` (`api.go`, `local_auth.go`, `signup_requests.go`, `auth_ldap.go`) | tables `local_auth_accounts`, `signup_requests`; sessions in memory | signup, review, login (with seeding of the administrator and LDAP), session, logout | PostgreSQL, LDAP, the portal (same table) | two tables, one statement at a time, no transaction; handlers overlap; statements time out with or without effect; restarts drop sessions | what was acknowledged exists in both tables; only the admitted hold sessions; the tables agree; one administrator |
| **Repository store** `gatewayapi/projects.go` | a directory per repository, with a metadata file | create, import, list, git over HTTP | git child processes, the filesystem | stat-then-make without a lock, several git calls per request, failed clones that delete, truncate-then-write | a repository that was answered stays and is what the answer said |
| **Notifiers** `platform/slack/notifier.go`, `platform/discord/webhook.go` | a goroutine per message | send with attempts, pauses, context, timeout | Slack, Discord, the handlers that notify | lost and late answers, a context that ends with its handler | bounded attempts, no needless duplicates, "sent" is true, every goroutine ends |
| **Slack events** `platform/slack/handlers.go`, `verifier.go` | a goroutine per event | verify, answer, process afterwards | Slack, callbacks, the notifier | answers before it processes, in a context that ends with the answer; redeliveries nobody recognises | an event is processed again only if Slack missed an answer; nothing is left running |
| **Notification managers and events** `platform/slack`, `platform/discord` | one lazily made global each | notify | the notifiers | notifications outlive the handler that sent them | a notification is sent only while they are enabled |
| **Service harness** `platform/app/service.go`, `security/crypto.go`, `cmd/orcastack-secctl` | two listeners, error channel, ready flag, two key files | load keys, listen, fail, drain, stop, generate keys | systemd or Kubernetes, clients, the directory | failure and signal race; unbounded graceful stop; keys are written while services start | a clean exit cuts nothing; a service that is wanted serves again |
| **Directory policy** `platform/security` | entries in LDAP | register identities, check the role | LDAP, its operators, the service manager | search-then-add by several replicas; operators change entries meanwhile | a replica serves only on record; every replica that may start does |
| **Live overview** `gatewayapi/cloud_live.go` | none | fetch and merge snapshots | Rancher, OpenStack | one source of several fails | a failing source is shown as degraded |
| **Git access** `services/ruby-app` (`authorize_ssh`), `internal/gitapi`, `infra/git/ssh` | projects, repositories, keys; signed tokens | create a project, authorize, verify | SSH, git | tokens outlive what they were issued for; two inserts per project | a token allows the command it was issued for |
| **Portal webhooks** `services/ruby-app` | `outbound_webhooks`, a Sidekiq queue | queue, deliver | Redis, Sidekiq | row and queue are written separately | a queued webhook is delivered |
| **Web client** `orcastackweb/src` | token, session, dashboard | login, logout, reload, review | the gateway | effects, aborts and answers out of order, retries at the next address | the parts of a tab agree when it rests; a session is given up only for a reason |
| **Billing SDK** `sdk/python`, `sdk/nodejs` | a queue and a worker | enqueue, batch, retry, flush, stop | the billing service | stop races enqueue; failed batches | every event is settled once; a flush that returns has seen it |
| **Governance policy** `infra/policy/opa` | none | decide | - | two rules about the same approval | allow and deny exclude each other |
| Runner, device and automation services | fixed lists | list | - | - | - |
| Security command line, deployment, CI | files | - | - | - | - |

`PROJECT.json` lists the hazards of this code, line by line, and the properties that
cover them. A hazard no property covers carries a note that says why: most often it is what the
code does, the model shows it, and the properties have to except it.

## 2. What is modelled

Every component has one module with its state as variables and one action per atomic
step of the code, a promise (an abstract specification of what its clients may rely on,
which it is shown to implement; the web client, which serves nobody but its user, has
none), an `MC` module that instantiates it for TLC, and a module of proofs.

| Component | Model | Promise | Instance | Proofs |
|---|---|---|---|---|
| Accounts | `Accounts` | `AccountPromise` | `MCAccounts` | `AccountsProofs` |
| Repository store | `RepositoryStore` | `RepositoryPromise` | `MCRepositoryStore` | `RepositoryStoreProofs` |
| Notifiers | `Notifier` | `NotifierPromise` | `MCNotifier` | `NotifierProofs` |
| Billing SDK (Python) | `BillingWorker` | `BillingPromise` | `MCBillingWorker` | `BillingWorkerProofs` |
| Directory policy | `DirectoryPolicy` | `DirectoryPromise` | `MCDirectoryPolicy` | `DirectoryPolicyProofs` |
| Service harness, `genkeys` | `ServiceLifecycle` | `ServicePromise` | `MCServiceLifecycle` | `ServiceLifecycleProofs` |
| Slack events and the manager | `SlackEvents` | `SlackPromise` | `MCSlackEvents` | `SlackEventsProofs` |
| Web client | `WebSession` | - | `MCWebSession` | `WebSessionProofs` |

Where components meet, one of them appears in the other's model by what it does to it:
`ServiceLifecycle` takes the whole of `DirectoryPolicy` as one step (`Admit`, `Refused`),
`SlackEvents` takes a send of `Notifier` by what its promise says of it (`Try`, `Post`,
`Report`, `Drop`), and `WebSession` takes from `Accounts` the sessions a gateway knows. In `Accounts` itself the gateway and the portal
share a table. A composition in full would multiply the states without adding an
interaction: nothing but those steps connects the two sides.

### 2.1 Accounts

*State.* `accounts` and `requests` are the two tables by primary key; `sessions` is
`authSessions.store`; `issued` the tokens generated so far; `autoApprove` the setting
`ORCASTACK_AUTH_LOCAL_AUTO_APPROVE`, which a restart may change; `job[p]` what the
`p`th concurrent request has read and which statement it issues next. Four history
variables (`acked`, `decided`, `admitted`, `disputed`) exist only for the properties.

*Actions.* One per SQL statement or access to the session map:

| Code | Actions |
|---|---|
| `handleSignup` | `SignupAccount`, `SignupRequest` |
| `handleSignupRequestReview` behind `requireAuth` | `ReviewAdmit`, `ReviewRequest`, `ReviewAccount` |
| `handleLogin` | `LoginBegin`, `SeedAdmin`, `Authenticate`, `StoreSession` |
| `handleLogout`, `lookupSession`, the twelve-hour lifetime | `DropSession`, `Expire` |
| the portal's `signup` | `PortalSignup` |
| the process | `Restart` |

A statement may succeed, fail, or take effect while its answer is lost (each handler
gives up after five seconds); all three are disjuncts. `handleSession` and
`handleSignupRequests` only read. A session found expired is read and deleted under two
locks, merged here because a deleted token is never issued again. A statement that was
given up takes effect at once or never; one that takes effect later is not modelled.
The deployment that authenticates with LDAP alone (local accounts off) and the text
columns `note` and `reviewed_at` are not modelled; the portal's own sessions in Redis
are written by the portal and read by nobody.

*Properties.*
- `SignupAcknowledged`: a signup answered 202 has left both rows.
- `SessionBacked`: a session belongs to an account with that role which is approved, or
  has been rejected on record since. (A rejection does not close sessions: they last up
  to twelve hours.)
- `SingleAdministrator`: concurrent first logins seed one administrator, whom no review
  reaches.
- `ReviewAgreement`: the tables agree except for accounts whose last review was
  overtaken by another or cut short. This exception is real: two administrators who
  review the same request with opposite verdicts can leave it approved in one table and
  rejected in the other, because the two updates are not in one transaction.
- `ReviewedByAdministrator`: the reviewer on record is an administrator.
- `StandingByReview` (action property): the row of an account changes only in its
  status, and only to a verdict already on record for it.
- `KeepsPromise`: `Accounts` implements `AccountPromise`.
- `AcknowledgedCanSignIn` is violated (run `accounts_signin`): somebody who signs up
  with the default administrator's email, before the first login, is told "You can sign
  in now", and from then on every login answers 503, since the insert that seeds the
  administrator ignores conflicts on the username only. The theorem
  `SignInLostByEnrolment` says that this is the only way to get there: signing in with a
  local account becomes impossible in a step that enrols an account under that email before
  the administrator is seeded, and in no other, whatever fails or restarts.

### 2.2 Repository store

*State.* `dirs[n]` is the directory `n.git`: its HEAD, whether it takes pushes over HTTP,
its metadata file (absent, truncated, garbled, or whole) and, for the properties, the
command that made it. `job[p]` is a request between two calls. `answered`, `described`,
`pushed` and `contested` are history.

*Actions.* `StatDirectory`, `InitBare`, `CloneBegin`, `CloneEnd`, `EnableHTTP`,
`OpenMetadata` and `WriteMetadata` are the calls of `createRepository` and
`importRepository` in their order; `ListBegin`, `ListRead` and `ListEnd` are
`listRepositoryMetadata`; `Push` is a push through `serveGitHTTP`; `Restart` kills the
gateway between any two calls. `os.WriteFile` is two steps, truncate and write. The two
`git config` calls are one step: only the one that enables pushes is told apart by the
properties. `readRepositoryMetadata` of a directory without a file makes up a local
repository on `main` (`Shown`), and so does one of a directory that has gone.

git is external and modelled by what it does to the directory; git children die with the
gateway, as they do in the containers and under the service manager it is deployed
with, and a clone that is killed may or may not have deleted its directory.

*Contested names.* Two requests that find a name free at the same time can both be
answered 201, write over each other's metadata, and one's failed clone can delete what
the other announced; such names are recorded in `contested` and the properties promise
nothing about them except what `TypeOK` and the theorem `Once` say. Neither the code
nor the documents promise more.

*Properties.*
- `ServedIntact`: a repository answered 201 is there, takes pushes, and its metadata says
  what the answer said, whatever fails afterwards.
- `PushesKept`: the repository a push went into is not deleted.
- `TrueMetadata`: metadata tells the origin of the repository and the branch its HEAD
  is on.
- `ListingComplete`: a listing that does not fail shows everything answered before it
  began, as it was answered.
- `SettledNames` (action property): a directory that no request is at work on stays as it
  is, and its name is not answered again; contested names included. It is what protects a
  repository from later requests, failing clones and restarts, and it is also why a
  name whose creation failed halfway is lost: every retry is refused with 409 until an
  operator removes the directory.
- `KeepsPromise`: `RepositoryStore` implements `RepositoryPromise`.
- `HostedLocally` is violated (run `repository_listing`): an import under way, or cut
  short, is listed and counted as created locally. The theorem `AnsweredAreHosted` says how
  far the claim does hold: for every repository that had been answered when the listing
  began and whose name nobody contested.

Two smaller properties are proved and not in the run: `ServedOnce` (201 is answered twice
for a name only if two requests raced for it) and `WholeFilesStay` (a whole metadata file
is not touched again).

### 2.3 Notifiers

*State.* For each message, the context its sender was given, the step of the loop, the
attempts that have failed, the request under way, and what the service has posted;
`late` counts requests still on their way after the client stopped waiting.

*Actions.* `SendAsync`; `CheckContext`, `Transmit`, `Succeed`, `AttemptFails`, `Wake` and
`Interrupt` are the loop of `send` with `sendRequest` in it; `CallerReturns` ends the
context; `Judge` and `JudgeLate` are the service and the network: a request arrives in
time, late, or never, and its answer may be lost. The loops of the two clients are the
same; the differences in what they take for a success are not modelled, the services
being taken to answer as they document.

*Properties.*
- `TypeOK` bounds the attempts, the first included, and what the service posts, by
  `MaxRetries`, which is three in both clients.
- `DuplicatesAreLost`: a second copy is posted only when an earlier answer was lost or
  late.
- `Ends`: the goroutine of every send ends, whatever the service does. `BoundedSend` gives
  the bound: at most four steps for each attempt and four more.
- `KeepsPromise`: `Notifier` implements `NotifierPromise`.

The bound in `TypeOK` is the code's, not the documents', which promise a fourth
attempt after a pause of four seconds ("max 3 retries total",
`Documents/integrations/discord.md:437`; also "1s, 2s, 4s" at `discord/webhook.go:119` and
"1s → 2s → 4s" at `Documents/integrations/slack.md:120`). The loop counts the first attempt
as one of the three and does not pause after the last, in every run alike, so no run looks for
it.

A notification that was started with the context of a request is given up when the
handler returns, whatever is left of its three attempts. `KeepsPromise` allows for that,
and section 2.7 has the case in which it happens to nearly all of them.

### 2.4 Billing SDK

*State.* `queue` and `unfinished` are the `queue.Queue` and its count of tasks; `stopping`
is `_stop_event`; `step`, `draining`, `batch`, `attempt` and `answer` are the worker
thread; `waiting[c]` says that thread `c` is in `flush` or `close`. `fate`, `stored`,
`late` and `owed` are history: what became of an event, what the service has, what was
emitted after the worker was asked to stop, what a caller waits for.

*Actions.* `Emit` is `emit` with its `enqueue` (several threads may emit, each put is
atomic); `Flush`, `Close` and `Return` are a caller entering and leaving `join`. The
worker's loop is `CheckStop`, `Take` (one `get`) and `EndBatch`; `_send_batch` with
`_with_retry` is `Post`, `Accept`, `Retry` and `GiveUp`; `TaskDone` is one turn of the
loop in its `finally`. The worker retries `DefaultRetries` times (four): `_send_batch` calls
`_with_retry` without the `max_retries` the program asked for, which is `MaxRetries` here and
appears only in the properties about it. A request is accepted, refused (4xx), answered with another
status, or not answered in a way that can be read; in the last two cases the service may
have stored the batch. A batch ends without an event only if the queue was empty at its
last `get`: its interval (two seconds) is not over before the first one.

The default mode, in which `emit` itself sends one request, keeps no state and is not
modelled. Nor is a program that ends without `close`: its worker is a daemon thread and
is lost with what it holds. The Node SDK does the same over timers (see section 6).

*Properties.*
- `FlushSettles`: a flush or close that returned has seen everything that was queued when
  it was called delivered or given up. It does not say delivered: a batch whose attempts
  failed is logged, dropped and marked done, so that "Block until all async-queued events
  have been delivered" (`flush`) is not true of it.
- `Settles`: every event that did not come late is settled in the end. What the worker
  leaves behind when it ends came after it was asked to stop (`StrandedAreLate`, proved as
  `OnlyLateStranded`), and every step until then leaves it less to do (`BoundedBacklog`).
- `FlushEnds`: every flush and close returns, unless an event has been left behind. That
  exception is real: nothing refuses an `emit` after (or during) `close`, and then its
  task is never done, and every `flush` and `close` waits for ever, the one that asked
  the worker to stop included.
- `KeepsPromise`: `BillingWorker` implements `BillingPromise`: an event is settled once,
  and taken for delivered only if the service has it.
- `TransientRetried` is violated (run `billing_retries`): timeouts and connections that
  fail are not retried.

The bound in `TypeOK` is `DefaultRetries` and not `max_retries`: "max_retries: Retry attempts on
transient failures (default 4)" (`billing_sdk.py:235`) is true of the synchronous calls of `emit`
and `emit_batch` only (lines 290 and 311). The worker is not given the number (line 210) and
retries four times, whatever the program asked for. Where the two differ the documentation is
wrong without any interleaving, so no run looks for it.

### 2.5 Directory policy

*State.* `entries[i]` holds the names under which identity `i` (the repository's or the
component's) is registered, `role[o]` the entries a role names; `step[r]`, `found[r]` and
`audit` are where replica `r` is in `EnforceDirectoryPolicy`, the distinguished names it
will look for in roles, and the replicas whose process identity is registered.
`autoRegister` is fixed. A distinguished name is a pair of an identity and one of two
names: the one the code derives, or one an operator chose.

*Actions.* `Start` is `BuildRuntimePolicy` with the dial and the bind. For each identity,
`Find`, `Absent` and `Ambiguous` are the search of `ensureDirectoryIdentity` and its
outcomes (its size limit is one, so two entries make it fail), `Register` and `Taken` its
add. `RegisterProcess` is the same for the identity of the process, which is a new random
one with every start and therefore never found. `Authorize` and `Refuse` are
`enforceRBACMembership`. `Fail` is any call that fails and any process that stops,
`FailAfterAdd` an add whose answer is lost. `RegisterByHand`, `RemoveEntry`, `Grant` and
`Revoke` are the operators. A replica that is down is started again.

*Properties.*
- `Serves`: with auto-registration, and as long as the directory is in order (each identity
  registered once, one role for them), every replica serves again and again; the one that
  lost the race to add an entry fails, is restarted and finds it. `BoundedStart` counts the steps: as long as the directory
  stays in order a replica that does not fail is at most fifteen steps from serving, and
  no other replica sets it back.
- `KeepsPromise`: `DirectoryPolicy` implements `DirectoryPromise`. In particular a replica
  that serves has registered its process and acts for entries it found or added, however
  many replicas race to add them (`Accountable`, proved as `AccountableServices`).
- `ServesByHand` is violated (run `directory_by_hand`): without auto-registration, which
  is documented as optional and is off by default, no replica ever starts.

Two things the model shows that no document denies: what a replica found is not looked at
again before it serves, nor while it serves, so an entry removed or a role revoked since
holds only from its next start on; and an operator who registers an identity a replica
has added makes every later start ambiguous until one of the two entries is removed.

### 2.6 Service harness

*State.* `file[h]` is the key pair whose half is in the file (0 when the file is missing
or empty), `tool` and `pairs` are `genkeys`; `phase`, `loaded`, `http`, `grpc`,
`signalled` and `status` are the process, from the loading of its keys to its exit;
`request[q]` and `call[c]` are what clients have under way; `wanted` is the order the
supervisor was given.

*Actions.* `Generate`, `CreateFile` and `WriteFile` are `genkeys`, which truncates and
writes the private key and then the public key. `LoadPrivate` and `LoadPublic` are
`LoadKeys` and the check that what one half signs verifies with the other. `Admit` or
`Refused` is the rest of the policy; `Bind`, `HttpListens`, `AwaitSignal`, `Drain`,
`Drained`, `Closed` and `CloseTimeout` are the lines of `Run` from the listeners to the end.
`HttpRefused`, `HttpFails` and `GrpcFails` fill the error channel. The clients open and end
requests and calls (a health check, or a watch that lasts as long as its client likes).
`Start`, `Stop`, `Resume` and `Kill` are the supervisor: `on_failure` is
`packaging/systemd/orcastack.service`, `always` is Kubernetes.

The ready flag and the health status are read by probes only and are left out. (The
health service goes on to report SERVING while the process drains; `ready` does not.)

*Properties.*
- `SilentStop`: a process that ended well without having been told to has lost a listener.
  The exception is real: `Run` returns the result of `Shutdown`, so the error of a failed
  listener becomes exit status 0, and a supervisor told to restart on failure does not.
- `CleanExit` (action property): a process that exits with 0 has answered every request
  and call it accepted, those it accepted while draining included.
- `Settles`: again and again the service serves if it is wanted and is down if it is not,
  whatever the order of failures, stops and key generation. The exceptions are the silent
  stop above, key files that do not match, and a client that keeps a watch open:
  `GracefulStop` waits for it without a bound, and until then the process neither serves
  nor ends. Key files that do not match are the work of a `genkeys` that is running or was
  cut short (theorem `KeysFit`), and one that runs to its end mends them, whatever it
  found (`KeysRepaired`). Without them, `BoundedRecovery` counts at most thirteen steps from
  the last fault or order to where the service is meant to be, and a process that drains
  is given no further call to wait for.
- `KeepsPromise`: `ServiceLifecycle` implements `ServicePromise`.

### 2.7 Slack events

*State.* `slack`, `sent` and `missed` are what Slack knows of a message, how often it has
delivered it, and which deliveries it did not see answered; `way[m][d]` is where delivery
`d` and its answer are, `work[m][d]` its callback, `note[m][d]` the notification the
callback sent, `tries[m][d]` and `posted[m][d]` how many attempts to send it have begun and
how many of them Slack has carried out.

*Actions.* `Refuse` is the age check of `VerifyRequest` and the refusal of a body that
cannot be parsed, `Echo` the challenge, `Accept` and `Return` the two ends of
`HandleEvents` and `HandleCommand`. `Notify` is the manager with its switch. A send is
taken from `NotifierPromise`: `Try` begins an attempt, which the client does only while the
context lives; `Post` is Slack carrying one out, at any later time: after the request was
answered, after the client stopped waiting and made another attempt, after it gave up, after
a crash; `Report` is the answer that reaches the client, `Drop` its giving up, because the
context has ended or the attempts are used up. So a notification may be posted late, twice,
or although it was dropped.
`Send`, `Miss`, `Lose`, `Age`, `AnswerArrives` and `RefusalArrives` are Slack and the
network; `Crash` loses what was being handled. Signatures are taken to be right; the
secret is checked by library code.

A command may be refused for no other reason than being one: Slack sends commands as a
form, the handler parses JSON. Both the refusal and the path behind it are modelled. The
OAuth handlers keep no state: the token they fetch is discarded, as a TODO says.

*Properties.*
- `RepeatNeedsMiss`: nothing looks at `event_id`, so an event may be processed more than
  once, but only if Slack saw the answer to none of the earlier deliveries.
- `Settles`: Slack learns what became of a message or gives it up, and no handler,
  callback or notification is left behind. `BoundedDelivery` counts the steps to there,
  which no loss, retry or crash adds to.
- `KeepsPromise`: `SlackEvents` implements `SlackPromise`: an event that is acknowledged
  was taken up, a command that is answered was carried out, and an attempt to send a
  notification begins only while its request is handled, three times at most. What has begun
  may be posted at any later time, once for each attempt, or never.

What the promise cannot say more of: the context given to the callback of an event is
derived from the request's, which ends when the handler returns, right after it has
started the goroutine. A notification sent from such a callback can be posted only if its
first attempt begins before that, and is not repeated afterwards.

### 2.8 Web client

*State.* `tab` is the state of the component (`token`, `session`, the dashboard and for
whom it was loaded, `loading`, `checking`), `view` the state last rendered, on which the
user acts, `stored` the token in the browser's storage; `watched`, `check` and `load`
are the effects and their requests, `calls[c]` the logins, logouts and reviews under way;
`served`, `issued` and `reviewed` are the gateway's side. `entered` and `overlap` exist
for the properties.

*Actions.* `Render` and `RunEffects` are React's: the effects of a rendering run some time
after it, the cleanup of one aborts its request, and the handlers of an aborted request
run behind them. `CheckPassed`, `CheckFailed`, `LoadArrives` and `LoadFailed` are the
handlers of the two effects; `SubmitLogin`, `ClickLogout` and `ClickReview` what the user
may do given `view`; `LoginAnswered`, `LoginFailed`, `LogoutEnded`, `ReviewAnswered` and
`ReviewFailed` the rest of those handlers; `Repeat` and `GiveUp` are `requestJSON`, which
makes a call again at the next address when it was refused, or no answer came. The body of a
good answer is read outside its loop: if it cannot be read the call ends at once (`GiveUp`).
`ServeCheck`, `ServeLoad`,
`ServeLogin`, `ServeLogout`, `ServeReview` and `Expire` are the gateway. The signup form
keeps nothing but its own fields and is not modelled. One signup request stands for the
list of them.

*Properties.*
- `Settles`: whatever the order of renderings, effects, aborts and answers, the tab comes
  to rest again and again, and then storage, token and session agree and the form can be
  used.
- `RestsInAgreement`: there is no other rest. Also after overlapping logins no rest leaves a
  session without its token, a check that is over but still shown, or a form that stays
  disabled after a session. `BoundedUnrest` counts the steps to the next one: every step of
  the tab or of a call draws it nearer, and only the user and the answers to calls set it
  back.
- `Kept` (action property): a stored session is given up only because a logout ended,
  because its own check failed, or because the login form was submitted again before the
  first answer was rendered (`overlap`).
- `TypeOK` bounds the repetitions of a call by the number of addresses.

What the exceptions stand for, and what else the model shows that no document denies:
- `loading` starts true when there is a stored token and is reset by a dashboard only. If
  the check of that token fails, the sign-in button stays disabled until the page is
  loaded again.
- The answer to a logout clears whatever session the tab has by then, also one that was
  opened since.
- A check or load that is answered between a logout and the effects it causes can leave a
  dashboard in the state of a tab that is signed out. It is not shown.
- A dashboard load that read the list before a review shows the request as pending again.
- The dashboard a tab shows at rest need not have been loaded for its session: a check that
  is answered after a logout sets a session without a token for a moment, and the load it
  starts may arrive in the session opened next.
- Calls that change state are repeated like others: a login whose answer was lost
  leaves a session nobody uses at the gateway, and a review may be made twice.
- The double run of effects in React's development mode aborts the first check. The build
  that is deployed does not do it, and it is not modelled.


## 3. Runs and bounds

| Run | Instance | Distinct states | Shows |
|---|---|---|---|
| `accounts` | two keys, two tokens, two concurrent requests, two forms (one at the administrator's address), a directory user | 414 212 | the properties of 2.1 |
| `accounts_signin` | one request at a time, no directory | counterexample | `AcknowledgedCanSignIn` |
| `repository_store` | two names, two concurrent requests, two branches, both kinds with and without a branch | 381 775 | the properties of 2.2 |
| `repository_listing` | the same | counterexample | `HostedLocally` |
| `notifier` | one message, three attempts | 567 | the properties of 2.3 |
| `billing_worker` | three events, two callers, batches of two, one retry | 725 484 | the properties of 2.4 |
| `billing_retries` | the same | counterexample | `TransientRetried` |
| `directory` | two replicas, two role entries, three changes by operators, one failure | 94 447 | the properties of 2.5 |
| `directory_by_hand` | the same | counterexample | `ServesByHand` |
| `service` | one request, one call, two key pairs, three faults, one stop | 400 255 | the properties of 2.6 |
| `slack_app` | one message of any kind, two deliveries, three attempts for each notification, one crash | 159 677 | the properties of 2.7 |
| `web_session` | three sessions, three calls, one reload, two addresses | 167 372 | the properties of 2.8 |

Every race in the gateway is between two requests about one row or one name, so two of
each are where the interesting cases happen: two reviews of one request, two first
logins, a review during a login, two creations of one name, a listing during an import.
The second key or name lets a step about one be seen to leave the other alone. `accounts`
was also checked with three keys (one form and no directory user: 1.06 million states;
two forms: 2.15 million). One message is enough for the notifiers and for Slack, whose
senders share nothing that changes; three is the number of attempts both clients are built
with. Two deliveries have a first and a repeated one, which is also the last; with three, and
attempts counted, the run takes too long, and the theorems hold for any number. Three events let a
batch of two leave one behind and the drain take more than a batch, while two callers let
a flush wait during a close; one retry has a first, a last and a next attempt (the code's
default of four adds only more of the same, and `BillingWorkerProofs` is about any number). Two
replicas are what a race to add an entry needs, and two role entries what an ambiguous
search needs. Three changes register both identities under other names and grant a role,
or remove what the replicas added. Two key pairs give a service that starts between the
writes of one a private and a public key that do not match. Three faults let both
listeners fail and a later start be refused. Three sessions are a stored one and those of
two overlapping logins. `web_session` was also checked with four calls, which it takes for
TLC to see a session lost by overlapping logins (one address: 345 956 states; two
addresses and no reload: 843 168).

Sets of interchangeable values are declared symmetric in `accounts` and
`repository_store`, which state no liveness property. The bounds that are not the code's
own are named as constants and tested by guards: `MaxChanges` and `MaxFailures`
(`DirectoryPolicy`), `MaxKeys`, `MaxFaults` and `MaxStops` (`ServiceLifecycle`),
`MaxDeliveries` (Slack's own number is three) and `MaxCrashes` (`SlackEvents`),
`MaxTokens`, `MaxCalls`, `MaxReloads` and `Candidates` (`WebSession`). Other counters are
bounded by the code itself (`MaxRetries` of `Notifier` and `SlackEvents`, `DefaultRetries` of
`BillingWorker`), or saturate (`answered` counts to "more than
once").

The theorems of section 4 hold for all values of these bounds and for all sets of keys,
tokens, forms, names, branches, messages, events, callers, replicas, roles, requests and
calls, so the instances above only bound what is not proved.

*Deadlock* is checked in the runs of `Accounts` and `RepositoryStore`. In the others the
system may rest: every send has ended (`Notifier`), callers wait for ever because an event
was left behind (`BillingWorker`; `FlushEnds` says that they do so in no other case), or the
operators, faults, deliveries or calls the bounds allow are used up and everything serves,
is settled or is idle (the other four; their liveness properties say that they rest in no
other state).

*Fairness.* Weak fairness of what the program and those who run it do, and of nothing else:

- *Notifiers:* the sender's own steps. The Go runtime schedules every goroutine that can
  run, the backoff timer fires, and `http.Client.Timeout` (ten seconds) ends a request
  nobody answers, so a sender always has a step and takes it.
- *Billing SDK:* the worker takes a step while it has one (a started Python thread is
  scheduled, `urlopen` has a timeout and `time.sleep` ends), and a caller whose `join` may
  return does (`task_done` notifies all waiters when the count reaches zero).
- *Directory policy:* the steps of each replica. The directory answers or the connection
  breaks (the dial has a timeout, the calls have none: a directory that stays connected and
  never answers holds up a start, which is not modelled), and the supervisors restart a
  process that fails.
- *Service harness:* the steps of `Run` and, apart from them, the goroutine that listens
  for HTTP; the supervisor's start; the writes of `genkeys`; the answer to a health check.
  Nothing is assumed of the handlers of requests: `CloseTimeout` ends the process when one
  does not answer. Nothing is assumed of the client of a watch, which is why `Settles`
  excepts it.
- *Slack events:* handlers run, callbacks return, sends end (`Ends` of `Notifier`), an answer
  that is on its way arrives (or is lost), and Slack's three seconds end. No notification has to
  be posted.
- *Web client:* React renders and runs effects, and requests end, with an answer or an
  error.

Nothing else is assumed of users, operators, the network or the services called. `Accounts` and
`RepositoryStore` state no liveness property: a client may stop asking and a database may
refuse every statement.

## 4. Theorems

| Module | Theorem | States |
|---|---|---|
| `AccountsProofs` | `Inductive`, `TypeCorrect`, `AcknowledgedSignups`, `OneAdministrator`, `AdministratorsReview`, `BackedSessions`, `AgreeingTables`, `OnRecord`, `SignInLostByEnrolment`, `Refinement` | every invariant of 2.1, `StandingByReview`, what alone can make signing in impossible, and that `Accounts` implements `AccountPromise` |
| `RepositoryStoreProofs` | `Inductive`, `TypeCorrect`, `Intact`, `Once`, `Kept`, `Truthful`, `Complete`, `WholeFiles`, `SettledStay`, `AnsweredAreHosted`, `Refinement` | every invariant of 2.2, `SettledNames`, `ServedOnce`, `WholeFilesStay`, how far `HostedLocally` holds, and that `RepositoryStore` implements `RepositoryPromise` |
| `NotifierProofs` | `Inductive`, `TypeCorrect`, `LostDuplicates`, `BoundedSend`, `Refinement` | the safety properties of 2.3, the bound on the steps of a send, and that `Notifier` implements `NotifierPromise` |
| `BillingWorkerProofs` | `Inductive`, `TypeCorrect`, `FlushesSettle`, `OnlyLateStranded`, `BoundedBacklog`, `Refinement` | the safety properties of 2.4, `StrandedAreLate`, the bound on the work of the worker, and that `BillingWorker` implements `BillingPromise` |
| `DirectoryPolicyProofs` | `Inductive`, `TypeCorrect`, `AccountableServices`, `BoundedStart`, `Refinement` | `Accountable`, the bound on the steps of a start, and that `DirectoryPolicy` implements `DirectoryPromise` |
| `ServiceLifecycleProofs` | `Inductive`, `TypeCorrect`, `OnlyListenersFailSilently`, `NothingCut`, `KeysFit`, `KeysRepaired`, `BoundedRecovery`, `Refinement` | `SilentStop`, `CleanExit`, when the key files fit together, the bound on the steps of a recovery, and that `ServiceLifecycle` implements `ServicePromise` |
| `SlackEventsProofs` | `Inductive`, `TypeCorrect`, `RepeatsNeedMiss`, `BoundedDelivery`, `Refinement` | `RepeatNeedsMiss`, the bound on the steps of a message, and that `SlackEvents` implements `SlackPromise` |
| `WebSessionProofs` | `Inductive`, `TypeCorrect`, `SessionsKept`, `RestAgrees`, `BoundedUnrest` | the types with the bound on repeated calls, `Kept`, `RestsInAgreement`, and the bound on the steps to a rest |

None of the properties is inductive: each is about what is stored or shown, and holds
because of what the steps that have not been taken yet will do. The invariant `IInv` of each
module adds just that.

- *Accounts.* A signup between its inserts has its account as it inserted it, and no
  request (`SignupsUnderWay`); a review between its updates has its verdict on record
  and acts for an administrator (`ReviewsUnderWay`); of an id that is not disputed there
  is at most one such review, and the request shows its verdict (`Undisputed`); a login
  that is about to store a session has an account that was approved when it was read
  (`LetIn`, `Backed`); the administrator's row is the seeded one (`SeededRows`).
- *Repository store.* Of a name that is not contested there is at most one maker
  (`OneMaker`); the directory is as far as the maker's next step says (`Progress`) and
  fits what it is going to write (`Fitting`); what a listing owes was answered
  (`Listing`); open files and running clones have a directory (`Grounded`).
- *Notifiers.* `Counted` relates the counters of a message to each other: requests posted
  or on their way are among those that left, and those are at most the failed attempts
  and the one under way.
- *Billing SDK.* The count is the length of the queue and of the worker's batch
  (`Accounted`); the queued events are those in the queue, each once, and in a batch whose
  fate is open (`Queueing`), so that nothing is queued when the count is zero; from the
  end of the drain on, the queue holds late events only (`Drained`). Lemmas about `Append`
  and `Tail` say what they do to the elements of a queue.
- *Directory policy.* `Progress`: what a replica has found, and whether it is on record,
  is what its next step presupposes, and it adds entries with auto-registration only. A
  step of one replica leaves the others alone (`OthersKeep`).
- *Service harness.* Requests and calls are open only while there is a process with
  listeners, and no call is left once it closes (`Traffic`); a process that drains or has
  ended well was told to stop or has lost a listener (`Causes`).
- *Slack events.* `Delivery` says which callback and which notification go with each place
  a delivery may be; `Sender` what Slack knows of the deliveries before the last. One lemma
  says what a step about one delivery leaves as it was, and the steps follow from it.
- *Web client.* Storage and tab have the same token (`Tokened`). Unless logins have
  overlapped, a token without a session is being checked (`Checking`), what was rendered
  or is checked is the token of the tab or the tab has none (`Current`), and a login that is
  under way is the only one, in a tab that is signed out and rendered so (`LoginAlone`).

Some theorems need more than `IInv` and add it next to it:

- `AnsweredAreHosted`: a listing shows nothing of a name it has not read yet (`Unread`), so
  that what it shows of an answered repository is what its metadata says.
- `KeysFit`: the files are as far as the next write of `genkeys` says (`Written`), as long
  as there was no fault.
- `BoundedRecovery`: a process that runs although it is not wanted has a signal to notice, and
  one that gets ready has no listeners yet (`Ordered`).
- `RestAgrees`: `Rests`, an invariant without the exception for overlapping logins. Whatever
  disagrees in a tab has a step before it that will mend it: a check that is shown has a
  request or an effect due (`CheckShown`); a token without its session is being checked or
  will be, and a session without its token still has the cleanup of its effect to come
  (`SessionFollows`); a form that is disabled has a login or the load of a dashboard to come,
  or is that of a tab as it was loaded (`LoadEnds`).

*Measures.* Six theorems are the safety halves of liveness properties. Each defines the steps
that are left, bounds the number, and shows that every step of the program lowers it and
that nobody else raises it, except where the definition says so:

| Theorem | Measure | Lowered by | Raised by | Half of |
|---|---|---|---|---|
| `BoundedSend` | `Rank(m)`: four for each attempt left and the place in the loop | every step of the send | nothing | `Ends` |
| `BoundedBacklog` | `Left`: a weight for each queued event, the batch with its attempts (`DefaultRetries`) | every step of a worker that has work | `Emit`, and an idle worker's look at the stop event | `Settles`, `FlushEnds` |
| `BoundedStart` | `StepsLeft(r)`: the steps to serving, and those of another start if the replica acts for an entry that has gone or is about to add one | every step of the replica | its own failures; all of it while the directory is in order | `Serves` |
| `BoundedDelivery` | `SlackLeft(m)`, the deliveries left; `StepsLeft(m, d)`, the places left to delivery, callback and notification, and the attempts left to begin and to post | every step of Slack, the network, handler, callback and notification about them | nothing, crashes included | `Settles` |
| `BoundedRecovery` | `StepsLeft`: the steps to serving, or to the end if that is what is wanted, a restart included where one is due | every step of `Run` and every start | faults, orders, and key files that are being written | `Settles` |
| `BoundedUnrest` | `TabLeft`: what is still to be rendered, checked and loaded, each weighed with what follows from it; `CallLeft(c)`: two steps for each address left | every step of the tab, and every step of a call | the user, and (`TabLeft`) the answer to a call | `Settles` |

What remains of these properties is that the steps are scheduled: the fairness of section 3,
and that a sender, worker, replica, delivery, service or tab that is not done has a step it can
take (`ENABLED`), which TLC checks. `BoundedRecovery` and `BoundedUnrest` also say that nothing
left to do is being at rest.

A proof has one lemma per action, the actions that cannot disturb a part of the invariant
being dealt with together. The assumptions are those on the constants (`AccountsAssumption`,
`StoreAssumption`, `RetriesAssumption`, `WorkerAssumption`, and `BoundsAssumption` in the
other four): special values differ from ordinary ones, forms and branches are drawn from
their types, bounds are natural numbers. TLC evaluates them in every run.

What stays with TLC: the liveness properties (`Ends`, `Serves`, `FlushEnds` and the `Settles` of
four modules), since liveness under fairness is out of the prover's reach, and the four
violations, which are counterexamples. Of the `Settles` of the web client both safety halves
are proved: `RestAgrees` and `BoundedUnrest`.

## 5. Plan

The plan was `Accounts`, `RepositoryStore`, `Notifier`, `BillingWorker`, `ServiceLifecycle`,
`WebSession`, `DirectoryPolicy`, `SlackEvents`: all of it is done, with its promises and
proofs. What could follow, in this order, and what it would add:

1. `NodeBillingWorker` (`sdk/nodejs/billing_sdk.js`): the promise of `BillingPromise` kept by
   callbacks in place of a thread; batches overlap, and after `stop` an event waits for a
   whole batch.
2. `GitAccess` (`authorize_ssh`, `handleVerifyToken`, the SSH command): a token is checked
   against a clock and a key, no state refers to it, and what it allows is what it says.
3. The portal's webhooks (`queue_webhook`, `WebhookDeliveryJob`): a row that stays queued when
   the job cannot be enqueued. The rest is Sidekiq's queue and its retries.

## 6. Not modelled

- *Live overview* (`cloud_live.go`). It keeps no state. A call without a body gives
  `http.NewRequest` a nil `*strings.Reader` (`cloud_live.go:454`), which panics, so what
  would be merged is not reached in a running system.
- *Git access tokens.* Signed strings that no state refers to (see the plan).
- *Portal.* Wiki, billing and preference operations are single statements on a table each;
  its sessions are written and never read; of its webhooks see the plan. Its signups are in
  `Accounts`.
- *Node SDK.* See the plan; the Python SDK has the same design and real threads.
- *Discord's manager and `integration_examples.go`.* The first is the Slack manager over the
  other client and has no request handlers; the second shows how to call both.
- *`attest`.* It reads keys as a service does, and writes a file nothing reads.
- *Governance policy.* A pure decision over one request, evaluated by OPA, without a state
  or an order.
- *Runner, device and automation services* answer fixed lists. Message formatting and the
  pages of the web client show state and change none. Keys, hashes and signatures are
  library code. Terraform, Ansible, Kubernetes and CI configuration are read by other tools.
