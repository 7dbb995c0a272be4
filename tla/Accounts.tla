----------------------------- MODULE Accounts -----------------------------
(***************************************************************************)
(* Accounts, signup requests and sessions of the gateway                   *)
(* (orcastackapi/internal/gatewayapi).                                     *)
(*                                                                         *)
(* Two PostgreSQL tables, local_auth_accounts and signup_requests, are     *)
(* written by concurrent HTTP handlers, one statement at a time and in no  *)
(* transaction; the sessions live in the memory of the process.  A handler *)
(* is a job: what it has read and the statement it will issue next.  Any   *)
(* statement may fail, or take effect and lose its answer (the handlers    *)
(* give up on it after five seconds), and the process may crash between    *)
(* any two of them.                                                        *)
(*                                                                         *)
(* The deployment is the one docker-compose.yml configures: local accounts *)
(* enabled, with or without automatic approval, and the LDAP directory as  *)
(* a fallback (external: an identifier it accepts or not).  Requests a     *)
(* handler refuses before its first statement change nothing and are left  *)
(* out.                                                                    *)
(***************************************************************************)
EXTENDS FiniteSets

CONSTANTS
  Ids,          \* uuids: the primary keys of both tables
  Tokens,       \* session tokens
  Procs,        \* requests the gateway serves at the same time
  Idents,       \* the strings one signs up and logs in with
  Fold,         \* Fold[i]: identifier i in lower case
  Forms,        \* the signup forms that pass validation
  AdminForm,    \* username and email of the default administrator
  LdapUsers,    \* the identifiers the LDAP directory accepts
  LdapRoles,    \* the roles its groups map to
  Directory,    \* the account of a session LDAP vouches for
  Null,         \* no row under a key; no reviewer in a column
  NoSession     \* a token with no session

Form     == [username : Idents, email : Idents]
Statuses == {"pending_review", "approved", "rejected"}
Roles    == {"platform-operator", "platform-admin"} \union LdapRoles
Account  == [username : Idents, email : Idents, role : Roles, status : Statuses]
User     == [id : Ids \union {Directory}, role : Roles]
Request  == [username : Idents, email : Idents, status : Statuses,
             reviewedBy : User \union {Null}]
Session  == [user : User, expired : BOOLEAN]

\* The decisions handleSignupRequestReview accepts.
AnyVerdict == {"approved", "rejected", "on_hold"}   \* mutant: status not validated
Verdicts   == {"approved", "rejected"}

\* What a handler is about to do, with the local variables it needs for it.
Idle       == [step |-> "idle"]
SignupJob  == [step : {"signup_request"}, id : Ids, form : Forms]
ReviewJob  == [step : {"review_request", "review_account"},
               id : Ids, verdict : Verdicts, by : User]
LoginJob   == [step : {"seed_admin", "authenticate"}]
SessionJob == [step : {"store_session"}, user : User]
Job        == {Idle} \union SignupJob \union ReviewJob \union LoginJob \union SessionJob

ASSUME AccountsAssumption ==
  /\ Fold \in [Idents -> Idents]
  /\ Forms \subseteq Form
  /\ AdminForm \in Form
  /\ LdapUsers \subseteq Idents
  /\ Directory \notin Ids
  /\ Null \notin Account \union Request \union User
  /\ NoSession \notin Session \union Ids \union {Directory}

VARIABLES
  accounts,     \* local_auth_accounts, by id
  requests,     \* signup_requests, by id
  sessions,     \* authSessions.store
  issued,       \* the tokens generated so far
  autoApprove,  \* ORCASTACK_AUTH_LOCAL_AUTO_APPROVE of the running process
  job,          \* job[p]: what request p is doing
  \* What has happened, for the properties only:
  acked,        \* signups answered 202
  decided,      \* <<id, verdict>>: verdicts written to a signup request
  admitted,     \* accounts that have been approved at some time
  disputed      \* ids whose last review was overtaken or cut short

tables  == <<accounts, requests>>
memory  == <<sessions, issued, autoApprove>>
history == <<acked, decided, admitted, disputed>>
vars    == <<tables, memory, job, history>>

Init ==
  /\ accounts = [id \in Ids |-> Null]
  /\ requests = [id \in Ids |-> Null]
  /\ sessions = [t \in Tokens |-> NoSession]
  /\ issued = {}
  /\ autoApprove \in BOOLEAN
  /\ job = [p \in Procs |-> Idle]
  /\ acked = {} /\ decided = {} /\ admitted = {} /\ disputed = {}

---------------------------------------------------------------------------
(* Shared operators                                                        *)

\* uuid.NewString: a key no row and no running request has.
Fresh(id) ==
  /\ accounts[id] = Null
  /\ requests[id] = Null
  /\ \A p \in Procs : job[p].step \in {"signup_request", "review_request"} => job[p].id # id

AccountRows == {id \in Ids : accounts[id] # Null}
RequestRows == {id \in Ids : requests[id] # Null}

\* The unique columns of local_auth_accounts.
UsernameTaken(name) == \E id \in AccountRows : accounts[id].username = name
EmailTaken(email)   == \E id \in AccountRows : accounts[id].email = email

\* The partial unique index of signup_requests: one pending request per email.
PendingEmailTaken(email) ==
  \E id \in RequestRows :
    requests[id].email = email /\ requests[id].status = "pending_review"

\* The rows loadLocalAuthAccount's query selects; it scans whichever is first.
Matching(ident) ==
  {id \in AccountRows :
     Fold[ident] \in {Fold[accounts[id].username], Fold[accounts[id].email]}}

Finish(p)       == job' = [job EXCEPT ![p] = Idle]
Continue(p, j)  == job' = [job EXCEPT ![p] = j]

\* p is between the two updates of a review of id.
Reviewing(p, id) == job[p].step = "review_account" /\ job[p].id = id

Live(t)      == sessions[t] # NoSession /\ ~sessions[t].expired
IsAdmin(user) == user.role = "platform-admin"

SignupStatus == IF autoApprove THEN "approved" ELSE "pending_review"

InsertAccount(id, form, role, status) ==
  /\ accounts' = [accounts EXCEPT ![id] =
       [username |-> form.username, email |-> form.email, role |-> role, status |-> status]]
  /\ admitted' = IF status = "approved" THEN admitted \union {id} ELSE admitted

InsertRequest(id, form, status) ==
  requests' = [requests EXCEPT ![id] =
    [username |-> form.username, email |-> form.email, status |-> status,
     reviewedBy |-> Null]]

---------------------------------------------------------------------------
(* Signup: handleSignup, one action per statement                          *)

\* createLocalAuthAccount inserts the account.  A duplicate is refused (409)
\* and changes nothing; a failed insert ends the request (500), also when the
\* row is there and only the answer was lost.
SignupAccount(p) ==
  /\ job[p] = Idle
  /\ \E id \in Ids, form \in Forms :
       /\ Fresh(id)
       /\ ~UsernameTaken(form.username)
       /\ ~EmailTaken(form.email)
       /\ InsertAccount(id, form, "platform-operator", SignupStatus)
       /\ \/ Continue(p, [step |-> "signup_request", id |-> id, form |-> form])
          \/ UNCHANGED job
  /\ UNCHANGED <<requests, memory, acked, decided, disputed>>

\* Mutant: the error of the second insert is not looked at.
SignupRequestAlwaysAcked(p) ==
  /\ job[p].step = "signup_request"
  /\ LET id == job[p].id  form == job[p].form IN
     IF SignupStatus = "pending_review" /\ PendingEmailTaken(form.email)
     THEN /\ acked' = acked \union {id}
          /\ UNCHANGED requests
     ELSE /\ InsertRequest(id, form, SignupStatus)
          /\ acked' = acked \union {id}
  /\ Finish(p)
  /\ UNCHANGED <<accounts, memory, decided, admitted, disputed>>

\* createSignupRequestRecord inserts the request; 202 only if that succeeds.
\* The account stays when it does not.
SignupRequest(p) ==
  /\ job[p].step = "signup_request"
  /\ LET id == job[p].id  form == job[p].form IN
     \/ /\ SignupStatus = "pending_review" => ~PendingEmailTaken(form.email)
        /\ InsertRequest(id, form, SignupStatus)
        /\ acked' = acked \union {id}
     \/ /\ SignupStatus = "pending_review" => ~PendingEmailTaken(form.email)
        /\ InsertRequest(id, form, SignupStatus)
        /\ UNCHANGED acked
     \/ UNCHANGED <<requests, acked>>
  /\ Finish(p)
  /\ UNCHANGED <<accounts, memory, decided, admitted, disputed>>

\* The portal's signup (services/ruby-app) writes a request and no account.
PortalSignup ==
  /\ \E id \in Ids, form \in Forms :
       /\ Fresh(id)
       /\ ~PendingEmailTaken(form.email)
       /\ InsertRequest(id, form, "pending_review")
  /\ UNCHANGED <<accounts, memory, job, history>>

---------------------------------------------------------------------------
(* Review: handleSignupRequestReview behind requireAuth                    *)

\* Mutant: the administrator check is dropped.
ReviewAdmitAnyone(p) ==
  /\ job[p] = Idle
  /\ \E t \in Tokens, id \in Ids, verdict \in Verdicts :
       /\ Live(t)
       /\ Continue(p, [step |-> "review_request", id |-> id, verdict |-> verdict,
                       by |-> sessions[t].user])
  /\ UNCHANGED <<tables, memory, history>>

\* requireAuth looks the session up and isAdminSession judges the copy: from
\* here on the request runs to its end whatever happens to the session.
ReviewAdmit(p) ==
  /\ job[p] = Idle
  /\ \E t \in Tokens, id \in Ids, verdict \in Verdicts :
       /\ Live(t)
       /\ IsAdmin(sessions[t].user)
       /\ Continue(p, [step |-> "review_request", id |-> id, verdict |-> verdict,
                       by |-> sessions[t].user])
  /\ UNCHANGED <<tables, memory, history>>

\* reviewSignupRequestRecord updates the row whatever its status is; no such
\* row is 404, a failed statement 500.
ReviewRequest(p) ==
  /\ job[p].step = "review_request"
  /\ LET id == job[p].id  verdict == job[p].verdict IN
     \/ /\ requests[id] # Null
        /\ requests' = [requests EXCEPT ![id].status = verdict,
                                        ![id].reviewedBy = job[p].by]
        /\ decided' = decided \union {<<id, verdict>>}
        /\ \/ /\ Continue(p, [job[p] EXCEPT !.step = "review_account"])
              /\ disputed' = IF \E q \in Procs : Reviewing(q, id)
                             THEN disputed \union {id} ELSE disputed \ {id}
           \/ /\ Finish(p)
              /\ disputed' = disputed \union {id}
     \/ /\ Finish(p)
        /\ UNCHANGED <<requests, decided, disputed>>
  /\ UNCHANGED <<accounts, memory, acked, admitted>>

\* Mutant: every review opens the account.
ReviewAccountApproves(p) ==
  /\ job[p].step = "review_account"
  /\ LET id == job[p].id IN
     /\ accounts' = IF id \in AccountRows
                    THEN [accounts EXCEPT ![id].status = "approved"] ELSE accounts
     /\ admitted' = IF id \in AccountRows THEN admitted \union {id} ELSE admitted
  /\ Finish(p)
  /\ UNCHANGED <<requests, memory, acked, decided, disputed>>

\* Mutant: a rejection is not carried over to the account.
ReviewAccountApprovalsOnly(p) ==
  /\ job[p].step = "review_account"
  /\ LET id == job[p].id  open == id \in AccountRows /\ job[p].verdict = "approved" IN
     /\ accounts' = IF open THEN [accounts EXCEPT ![id].status = "approved"] ELSE accounts
     /\ admitted' = IF open THEN admitted \union {id} ELSE admitted
  /\ Finish(p)
  /\ UNCHANGED <<requests, memory, acked, decided, disputed>>

\* syncLocalAuthAccountReview updates the account with the same id, if there
\* is one; it may fail, or succeed and lose its answer.
ReviewAccount(p) ==
  /\ job[p].step = "review_account"
  /\ LET id == job[p].id  verdict == job[p].verdict IN
     \/ /\ accounts' = IF id \in AccountRows
                       THEN [accounts EXCEPT ![id].status = verdict] ELSE accounts
        /\ admitted' = IF id \in AccountRows /\ verdict = "approved"
                       THEN admitted \union {id} ELSE admitted
        /\ UNCHANGED disputed
     \/ /\ disputed' = disputed \union {id}
        /\ UNCHANGED <<accounts, admitted>>
  /\ Finish(p)
  /\ UNCHANGED <<requests, memory, acked, decided>>

---------------------------------------------------------------------------
(* Login: handleLogin                                                      *)

\* ensureDefaultLocalAdminAccount looks for the administrator's username; a
\* failed query answers 503 and changes nothing.
LoginBegin(p) ==
  /\ job[p] = Idle
  /\ Continue(p, [step |-> IF Matching(AdminForm.username) = {}
                           THEN "seed_admin" ELSE "authenticate"])
  /\ UNCHANGED <<tables, memory, history>>

\* Mutant: the insert ignores the row a concurrent login has seeded.
SeedAdminBlindly(p) ==
  /\ job[p].step = "seed_admin"
  /\ \E id \in Ids :
       /\ Fresh(id)
       /\ InsertAccount(id, AdminForm, "platform-admin", "approved")
  /\ Continue(p, [step |-> "authenticate"])
  /\ UNCHANGED <<requests, memory, acked, decided, disputed>>

\* The insert does nothing on a username conflict; an email conflict, or a
\* statement that fails with or without effect, answers 503.
SeedAdmin(p) ==
  /\ job[p].step = "seed_admin"
  /\ \/ /\ UsernameTaken(AdminForm.username)
        /\ Continue(p, [step |-> "authenticate"])
        /\ UNCHANGED <<accounts, admitted>>
     \/ /\ ~UsernameTaken(AdminForm.username)
        /\ ~EmailTaken(AdminForm.email)
        /\ \E id \in Ids :
             /\ Fresh(id)
             /\ InsertAccount(id, AdminForm, "platform-admin", "approved")
        /\ Continue(p, [step |-> "authenticate"]) \/ Finish(p)
     \/ /\ Finish(p)
        /\ UNCHANGED <<accounts, admitted>>
  /\ UNCHANGED <<requests, memory, acked, decided, disputed>>

\* Mutant: the status is not looked at.
LocalUserAnyStatus(ident) ==
  {[id |-> id, role |-> accounts[id].role] : id \in Matching(ident)}

\* authenticateUser refuses a local account that is not approved (503), takes
\* one whose password is right, and tries LDAP for the rest.
LocalUser(ident) ==
  {[id |-> id, role |-> accounts[id].role] :
     id \in {i \in Matching(ident) : accounts[i].status = "approved"}}

\* No row matches, or the row's password is another one.
AsksDirectory(ident) ==
  \/ Matching(ident) = {}
  \/ \E id \in Matching(ident) : accounts[id].status = "approved"

LdapUser(ident) ==
  {[id |-> Directory, role |-> role] :
     role \in IF ident \in LdapUsers /\ AsksDirectory(ident) THEN LdapRoles ELSE {}}

Authenticate(p) ==
  /\ job[p].step = "authenticate"
  /\ \/ \E ident \in Idents : \E user \in LocalUser(ident) \union LdapUser(ident) :
          Continue(p, [step |-> "store_session", user |-> user])
     \/ Finish(p)
  /\ UNCHANGED <<tables, memory, history>>

\* Mutant: a token that is free again is handed out again.
StoreSessionOver(p) ==
  /\ job[p].step = "store_session"
  /\ \E t \in Tokens :
       /\ sessions[t] = NoSession
       /\ sessions' = [sessions EXCEPT ![t] = [user |-> job[p].user, expired |-> FALSE]]
       /\ issued' = issued \union {t}
  /\ Finish(p)
  /\ UNCHANGED <<tables, autoApprove, history>>

\* A random token, and the session under it.  The account may have been
\* rejected since it was read.
StoreSession(p) ==
  /\ job[p].step = "store_session"
  /\ \E t \in Tokens \ issued :
       /\ sessions' = [sessions EXCEPT ![t] = [user |-> job[p].user, expired |-> FALSE]]
       /\ issued' = issued \union {t}
  /\ Finish(p)
  /\ UNCHANGED <<tables, autoApprove, history>>

---------------------------------------------------------------------------
(* The life of a session, and of the process                               *)

\* Twelve hours go by.
Expire(t) ==
  /\ Live(t)
  /\ sessions' = [sessions EXCEPT ![t].expired = TRUE]
  /\ UNCHANGED <<tables, issued, autoApprove, job, history>>

\* handleLogout of any token, and lookupSession of an expired one.
DropSession(t) ==
  /\ sessions[t] # NoSession
  /\ sessions' = [sessions EXCEPT ![t] = NoSession]
  /\ UNCHANGED <<tables, issued, autoApprove, job, history>>

\* The process dies between any two steps and starts again, perhaps with the
\* other approval setting; tables survive, sessions and running requests do not.
Restart ==
  /\ sessions' = [t \in Tokens |-> NoSession]
  /\ job' = [p \in Procs |-> Idle]
  /\ autoApprove' \in BOOLEAN
  /\ disputed' = disputed \union {id \in Ids : \E p \in Procs : Reviewing(p, id)}
  /\ UNCHANGED <<tables, issued, acked, decided, admitted>>

Next ==
  \/ \E p \in Procs :
       \/ SignupAccount(p) \/ SignupRequest(p)
       \/ ReviewAdmit(p) \/ ReviewRequest(p) \/ ReviewAccount(p)
       \/ LoginBegin(p) \/ SeedAdmin(p) \/ Authenticate(p) \/ StoreSession(p)
  \/ \E t \in Tokens : Expire(t) \/ DropSession(t)
  \/ PortalSignup
  \/ Restart

Spec == Init /\ [][Next]_vars

---------------------------------------------------------------------------
(* Properties                                                              *)

\* Every variable keeps its type: in particular a job carries what its next
\* statement needs, and no status outside the three is ever stored.
TypeOK ==
  /\ accounts \in [Ids -> Account \union {Null}]
  /\ requests \in [Ids -> Request \union {Null}]
  /\ sessions \in [Tokens -> Session \union {NoSession}]
  /\ issued \subseteq Tokens
  /\ autoApprove \in BOOLEAN
  /\ job \in [Procs -> Job]
  /\ acked \subseteq Ids
  /\ decided \subseteq Ids \X Verdicts
  /\ admitted \subseteq Ids
  /\ disputed \subseteq Ids

\* A signup answered 202 has left both rows behind, about the same person,
\* although they are written by two statements of which either may fail
\* (handleSignup): somebody told to wait can be reviewed and can sign in.
SignupAcknowledged ==
  \A id \in acked :
    /\ id \in AccountRows \intersect RequestRows
    /\ accounts[id].username = requests[id].username
    /\ accounts[id].email = requests[id].email

\* Whoever holds a session of a local account was let in under the role the
\* account has, and if the account is not approved now, an administrator has
\* rejected it (handleLogin reads the account and stores the session in
\* separate steps, and a rejection does not close sessions).
SessionBacked ==
  \A t \in Tokens :
    sessions[t] # NoSession /\ sessions[t].user.id # Directory =>
      LET user == sessions[t].user IN
      /\ user.id \in AccountRows
      /\ accounts[user.id].role = user.role
      /\ accounts[user.id].status # "approved" => <<user.id, "rejected">> \in decided

\* However many logins seed the default administrator at the same time, there
\* is one, no review can reach it, and it stays approved
\* (ensureDefaultLocalAdminAccount, syncLocalAuthAccountReview).
AdminRows == {id \in AccountRows : accounts[id].role = "platform-admin"}

SingleAdministrator ==
  /\ \A i, j \in AdminRows : i = j
  /\ \A id \in AdminRows : id \notin RequestRows /\ accounts[id].status = "approved"

\* The two tables agree on every reviewed account unless a review of it is
\* between its two updates, or the last one was overtaken by another or cut
\* short: reviews that do not overlap and do not fail cannot make the list the
\* administrator sees and the account that signs in diverge, and one such
\* review repairs what went wrong before (handleSignupRequestReview).
ReviewAgreement ==
  \A id \in AccountRows \intersect RequestRows :
    \/ id \in disputed
    \/ \E p \in Procs : Reviewing(p, id)
    \/ accounts[id].status = requests[id].status

\* The reviewer a request names is an administrator: one of the directory's,
\* or the local one (requireAuth, isAdminSession: the session may be gone when
\* the statement runs).
ReviewedByAdministrator ==
  \A id \in RequestRows :
    LET by == requests[id].reviewedBy IN
    by # Null => IsAdmin(by) /\ (by.id = Directory \/ by.id \in AdminRows)

\* An account, once there, changes only in its status, and only to a verdict
\* already written to its signup request: neither a late signup, nor seeding,
\* nor a review of something else touches it.
JudgedOnRecord ==
  \A id \in AccountRows : accounts'[id] # accounts[id] =>
    /\ <<id, accounts'[id].status>> \in decided
    /\ accounts'[id] = [accounts[id] EXCEPT !.status = accounts'[id].status]

StandingByReview == [][JudgedOnRecord]_accounts

\* The whole keeps the promise of module AccountPromise: accounts are enrolled
\* once and judged afterwards, and a token never used before opens a session
\* only for somebody who has been admitted.
Standing(id) == IF accounts[id] = Null THEN "none" ELSE accounts[id].status
Holder(t)    == IF sessions[t] = NoSession THEN NoSession ELSE sessions[t].user.id

Promise == INSTANCE AccountPromise WITH
  standing <- [id \in Ids |-> Standing(id)],
  holder   <- [t \in Tokens |-> Holder(t)],
  spent    <- issued,
  NoOne    <- NoSession

KeepsPromise == Promise!PromiseSpec

---------------------------------------------------------------------------
(* The inductive invariant behind the safety properties.  Its parts say    *)
(* what a handler between two statements may rely on.                      *)

\* What the session of a user, or a login about to store it, stands on.
Backed(user) ==
  user.id # Directory =>
    /\ user.id \in AccountRows
    /\ user.id \in admitted
    /\ accounts[user.id].role = user.role
    /\ accounts[user.id].status # "approved" => <<user.id, "rejected">> \in decided

LetIn ==
  /\ \A t \in Tokens : sessions[t] # NoSession => t \in issued /\ Backed(sessions[t].user)
  /\ \A p \in Procs : job[p].step = "store_session" => Backed(job[p].user)
  /\ \A id \in AccountRows : accounts[id].status = "approved" => id \in admitted
  /\ admitted \subseteq AccountRows

\* A signup between its two inserts has its account, of its own and as it
\* inserted it, and no request yet.
SignupsUnderWay ==
  \A p \in Procs : job[p].step = "signup_request" =>
    LET id == job[p].id IN
    /\ accounts[id] = [username |-> job[p].form.username, email |-> job[p].form.email,
                       role |-> "platform-operator", status |-> SignupStatus]
    /\ requests[id] = Null
    /\ \A q \in Procs : job[q].step = "signup_request" /\ job[q].id = id => q = p

\* Every administrator's row is the seeded one, out of every request's reach.
SeededRows ==
  \A id \in AdminRows :
    /\ accounts[id].username = AdminForm.username
    /\ accounts[id].status = "approved"
    /\ requests[id] = Null

\* A review acts for an administrator, and past its first update it has a
\* request to act on and its verdict on record.
ByAdministrator(user) == IsAdmin(user) /\ (user.id = Directory \/ user.id \in AdminRows)

ReviewsUnderWay ==
  \A p \in Procs :
    /\ job[p].step \in {"review_request", "review_account"} => ByAdministrator(job[p].by)
    /\ job[p].step = "review_account" =>
         requests[job[p].id] # Null /\ <<job[p].id, job[p].verdict>> \in decided

\* Of an undisputed id there is at most one review between its updates; the
\* request shows that review's verdict, or else what the account shows.
Undisputed ==
  \A id \in Ids \ disputed :
    /\ \A p, q \in Procs : Reviewing(p, id) /\ Reviewing(q, id) => p = q
    /\ \A p \in Procs : Reviewing(p, id) => requests[id].status = job[p].verdict
    /\ id \in AccountRows \intersect RequestRows =>
         \/ \E p \in Procs : Reviewing(p, id)
         \/ accounts[id].status = requests[id].status

IInv ==
  /\ TypeOK
  /\ SignupAcknowledged
  /\ SingleAdministrator
  /\ ReviewedByAdministrator
  /\ LetIn
  /\ SignupsUnderWay
  /\ SeededRows
  /\ ReviewsUnderWay
  /\ Undisputed

\* "Account created. You can sign in now.": what handleSignup tells whoever
\* signs up under automatic approval (api.go:417).  A login can get past
\* seeding if the administrator is there or can be inserted.
SeedingPossible ==
  Matching(AdminForm.username) # {} \/ ~EmailTaken(AdminForm.email)

ToldToSignIn == {id \in acked : requests[id].status = "approved" /\ requests[id].reviewedBy = Null}

AcknowledgedCanSignIn == ToldToSignIn # {} => SeedingPossible
===========================================================================
