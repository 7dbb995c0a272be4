-------------------------- MODULE AccountsProofs --------------------------
(***************************************************************************)
(* Proofs of the safety properties of module Accounts, for every set of    *)
(* keys, tokens, concurrent requests, identifiers and forms.               *)
(***************************************************************************)
EXTENDS Accounts, TLAPS

\* The parts of a type-correct state that the type proof of an action needs:
\* what kind of job a step names.
LEMMA JobKinds ==
  ASSUME TypeOK, NEW p \in Procs
  PROVE  /\ job[p].step = "signup_request" => job[p] \in SignupJob
         /\ job[p].step \in {"review_request", "review_account"} => job[p] \in ReviewJob
         /\ job[p].step = "store_session" => job[p] \in SessionJob
  BY DEF TypeOK, Job, Idle, SignupJob, ReviewJob, LoginJob, SessionJob

\* Every step keeps the types.
LEMMA TypeStep == TypeOK /\ [Next]_vars => TypeOK'
<1> SUFFICES ASSUME TypeOK, [Next]_vars PROVE TypeOK'
  OBVIOUS
<1> USE AccountsAssumption
<1> USE DEF TypeOK, tables, memory, history, Finish, Continue, Account, Request, User,
            Statuses, Roles, Form, Idle, Job
<1>1. ASSUME NEW p \in Procs, SignupAccount(p) PROVE TypeOK'
  BY <1>1 DEF SignupAccount, InsertAccount, SignupStatus, SignupJob, AccountRows
<1>2. ASSUME NEW p \in Procs, SignupRequest(p) PROVE TypeOK'
  BY <1>2, JobKinds DEF SignupRequest, InsertRequest, SignupStatus, SignupJob
<1>3. ASSUME NEW p \in Procs, ReviewAdmit(p) PROVE TypeOK'
  BY <1>3 DEF ReviewAdmit, ReviewJob, Live, Session
<1>4. ASSUME NEW p \in Procs, ReviewRequest(p) PROVE TypeOK'
  BY <1>4, JobKinds DEF ReviewRequest, ReviewJob, Verdicts
<1>5. ASSUME NEW p \in Procs, ReviewAccount(p) PROVE TypeOK'
  BY <1>5, JobKinds DEF ReviewAccount, ReviewJob, Verdicts, AccountRows
<1>6. ASSUME NEW p \in Procs, LoginBegin(p) PROVE TypeOK'
  BY <1>6 DEF LoginBegin, LoginJob
<1>7. ASSUME NEW p \in Procs, SeedAdmin(p) PROVE TypeOK'
  BY <1>7 DEF SeedAdmin, InsertAccount, LoginJob
<1>8. ASSUME NEW p \in Procs, Authenticate(p) PROVE TypeOK'
  BY <1>8 DEF Authenticate, LocalUser, LdapUser, Matching, AccountRows, SessionJob
<1>9. ASSUME NEW p \in Procs, StoreSession(p) PROVE TypeOK'
  BY <1>9, JobKinds DEF StoreSession, SessionJob, Session
<1>10. ASSUME NEW t \in Tokens, Expire(t) PROVE TypeOK'
  BY <1>10 DEF Expire, Live, Session
<1>11. ASSUME NEW t \in Tokens, DropSession(t) PROVE TypeOK'
  BY <1>11 DEF DropSession
<1>12. CASE PortalSignup
  BY <1>12 DEF PortalSignup, InsertRequest
<1>13. CASE Restart
  BY <1>13 DEF Restart
<1>14. CASE UNCHANGED vars
  BY <1>14 DEF vars
<1> QED
  BY <1>1, <1>2, <1>3, <1>4, <1>5, <1>6, <1>7, <1>8, <1>9, <1>10, <1>11, <1>12, <1>13,
     <1>14 DEF Next

---------------------------------------------------------------------------
(* The inductive step, one lemma per action.  Each first states what the   *)
(* action does to the tables and the jobs, row by row, and then goes       *)
(* through the parts of the invariant.                                     *)

\* An assignment to one job leaves the others alone.
LEMMA OneJob ==
  ASSUME TypeOK, NEW p \in Procs, NEW j, job' = [job EXCEPT ![p] = j]
  PROVE  job'[p] = j /\ \A q \in Procs : q # p => job'[q] = job[q]
  BY DEF TypeOK

\* A request that has been answered is idle.
LEMMA Finished ==
  ASSUME TypeOK, NEW p \in Procs, Finish(p)
  PROVE  job'[p] = Idle /\ job'[p].step = "idle" /\ \A q \in Procs : q # p => job'[q] = job[q]
<1>1. job' = [job EXCEPT ![p] = Idle]
  BY DEF Finish
<1>2. job'[p] = Idle /\ \A q \in Procs : q # p => job'[q] = job[q]
  BY <1>1, OneJob
<1> QED
  BY <1>2 DEF Idle

\* A key generated fresh is in neither table and in no running signup or review.
LEMMA FreshKey ==
  ASSUME TypeOK, ReviewsUnderWay, NEW id \in Ids, Fresh(id)
  PROVE  /\ id \notin AccountRows /\ id \notin RequestRows
         /\ \A q \in Procs : job[q].step = "signup_request" => job[q].id # id
         /\ \A q \in Procs : ~Reviewing(q, id)
  BY DEF Fresh, ReviewsUnderWay, Reviewing, AccountRows, RequestRows

\* A step that leaves the tables alone keeps the invariant if the sessions it
\* leaves and the jobs it starts stand on what they must.
LEMMA MemoryStep ==
  ASSUME IInv, TypeOK',
         UNCHANGED <<accounts, requests, autoApprove, acked, decided, admitted, disputed>>,
         \A t \in Tokens :
           sessions'[t] # NoSession => t \in issued' /\ Backed(sessions'[t].user),
         \A q \in Procs :
           \/ job'[q] = job[q]
           \/ /\ job[q].step # "review_account"
              /\ job'[q].step \notin {"signup_request", "review_account"}
              /\ job'[q].step = "review_request" => ByAdministrator(job'[q].by)
              /\ job'[q].step = "store_session" => Backed(job'[q].user)
  PROVE  IInv'
<1>1. RequestRows' = RequestRows /\ AccountRows' = AccountRows /\ AdminRows' = AdminRows
  BY DEF RequestRows, AdminRows, AccountRows
<1>2. SignupAcknowledged' /\ SingleAdministrator' /\ ReviewedByAdministrator' /\ SeededRows'
  BY <1>1 DEF IInv, SignupAcknowledged, SingleAdministrator, ReviewedByAdministrator, SeededRows,
              IsAdmin
<1>3. LetIn'
  BY <1>1 DEF IInv, LetIn, Backed
<1>4. SignupsUnderWay'
  BY DEF IInv, SignupsUnderWay, SignupStatus
<1>5. ReviewsUnderWay'
  BY <1>1 DEF IInv, ReviewsUnderWay, ByAdministrator, IsAdmin
<1>6. Undisputed'
  <2>1. \A q \in Procs, i \in Ids : Reviewing(q, i)' => Reviewing(q, i) /\ job'[q] = job[q]
    BY DEF Reviewing
  <2>2. \A q \in Procs, i \in Ids : Reviewing(q, i) => Reviewing(q, i)'
    BY DEF Reviewing
  <2> QED
    BY <1>1, <2>1, <2>2 DEF IInv, Undisputed
<1> QED
  BY <1>2, <1>3, <1>4, <1>5, <1>6 DEF IInv

\* A row inserted under a fresh key joins the table and changes no other row.
LEMMA NewAccount ==
  ASSUME TypeOK, NEW id \in Ids, NEW form \in Form, NEW role \in Roles, NEW status \in Statuses,
         InsertAccount(id, form, role, status)
  PROVE  /\ accounts'[id] = [username |-> form.username, email |-> form.email,
                             role |-> role, status |-> status]
         /\ \A i \in Ids : i # id => accounts'[i] = accounts[i]
         /\ AccountRows' = AccountRows \union {id}
         /\ admitted' = IF status = "approved" THEN admitted \union {id} ELSE admitted
<1> DEFINE row == [username |-> form.username, email |-> form.email, role |-> role, status |-> status]
<1>1. row \in Account
  BY DEF Account, Form
<1>2. row # Null
  BY <1>1, AccountsAssumption
<1>3. accounts'[id] = row /\ \A i \in Ids : i # id => accounts'[i] = accounts[i]
  BY DEF TypeOK, InsertAccount
<1> HIDE DEF row
<1>4. AccountRows' = AccountRows \union {id}
  BY <1>2, <1>3 DEF AccountRows
<1> QED
  BY <1>3, <1>4 DEF row, InsertAccount

LEMMA NewRequest ==
  ASSUME TypeOK, NEW id \in Ids, NEW form \in Form, NEW status \in Statuses,
         InsertRequest(id, form, status)
  PROVE  /\ requests'[id] = [username |-> form.username, email |-> form.email,
                             status |-> status, reviewedBy |-> Null]
         /\ \A i \in Ids : i # id => requests'[i] = requests[i]
         /\ RequestRows' = RequestRows \union {id}
<1> DEFINE row == [username |-> form.username, email |-> form.email, status |-> status,
                   reviewedBy |-> Null]
<1>1. row \in Request
  BY DEF Request, Form
<1>2. row # Null
  BY <1>1, AccountsAssumption
<1>3. requests'[id] = row /\ \A i \in Ids : i # id => requests'[i] = requests[i]
  BY DEF TypeOK, InsertRequest
<1> HIDE DEF row
<1>4. RequestRows' = RequestRows \union {id}
  BY <1>2, <1>3 DEF RequestRows
<1> QED
  BY <1>3, <1>4 DEF row

LEMMA SignupAccountStep ==
  ASSUME IInv, TypeOK', NEW p \in Procs, SignupAccount(p)
  PROVE  IInv'
<1>1. PICK id \in Ids, form \in Forms :
        /\ Fresh(id)
        /\ InsertAccount(id, form, "platform-operator", SignupStatus)
        /\ \/ Continue(p, [step |-> "signup_request", id |-> id, form |-> form])
           \/ UNCHANGED job
  BY DEF SignupAccount
<1>2. /\ job[p] = Idle
      /\ UNCHANGED <<requests, sessions, issued, autoApprove, acked, decided, disputed>>
  BY DEF SignupAccount, memory
<1>3. SignupStatus \in {"approved", "pending_review"} /\ SignupStatus' = SignupStatus
  BY <1>2 DEF SignupStatus
<1>9. form \in Form /\ "platform-operator" \in Roles /\ SignupStatus \in Statuses
  BY <1>3, AccountsAssumption DEF Roles, Statuses
<1>4. /\ accounts'[id] = [username |-> form.username, email |-> form.email,
                          role |-> "platform-operator", status |-> SignupStatus]
      /\ \A i \in Ids : i # id => accounts'[i] = accounts[i]
      /\ AccountRows' = AccountRows \union {id}
      /\ admitted' = IF SignupStatus = "approved" THEN admitted \union {id} ELSE admitted
  BY ONLY IInv, <1>1, <1>9, NewAccount DEF IInv
<1>5. /\ id \notin AccountRows /\ id \notin RequestRows /\ requests[id] = Null
      /\ \A q \in Procs : job[q].step = "signup_request" => job[q].id # id
      /\ \A q \in Procs : ~Reviewing(q, id)
  BY <1>1, FreshKey DEF IInv, Fresh
<1>6. /\ \A q \in Procs : q # p => job'[q] = job[q]
      /\ \/ job'[p] = [step |-> "signup_request", id |-> id, form |-> form]
         \/ job'[p] = [step |-> "idle"]
  BY <1>1, <1>2, OneJob DEF IInv, Continue, Idle
<1>7. RequestRows' = RequestRows /\ AdminRows' = AdminRows
  BY <1>2, <1>4, <1>5 DEF RequestRows, AdminRows, AccountRows
<1>8. admitted \subseteq admitted' /\ admitted' \subseteq admitted \union {id}
  BY <1>4
<1>a. SignupAcknowledged'
  BY <1>2, <1>4, <1>5, <1>7 DEF IInv, SignupAcknowledged, TypeOK
<1>b. SingleAdministrator'
  BY <1>2, <1>4, <1>5, <1>7 DEF IInv, SingleAdministrator, AdminRows, AccountRows
<1>c. ReviewedByAdministrator'
  BY <1>2, <1>7 DEF IInv, ReviewedByAdministrator, IsAdmin
<1>d. LetIn'
  BY <1>2, <1>4, <1>5, <1>6, <1>8 DEF IInv, LetIn, Backed, AccountRows, TypeOK
<1>e. SignupsUnderWay'
  BY <1>2, <1>3, <1>4, <1>5, <1>6, JobKinds DEF IInv, SignupsUnderWay, SignupJob
<1>f. SeededRows'
  BY <1>2, <1>4, <1>5, <1>7 DEF IInv, SeededRows, AdminRows, AccountRows
<1>g. ReviewsUnderWay'
  BY <1>2, <1>6, <1>7 DEF IInv, ReviewsUnderWay, ByAdministrator, IsAdmin
<1>h. Undisputed'
  BY <1>2, <1>4, <1>5, <1>6, <1>7 DEF IInv, Undisputed, Reviewing, AccountRows, RequestRows, Idle
<1> QED
  BY <1>a, <1>b, <1>c, <1>d, <1>e, <1>f, <1>g, <1>h DEF IInv

LEMMA SignupRequestStep ==
  ASSUME IInv, TypeOK', NEW p \in Procs, SignupRequest(p)
  PROVE  IInv'
<1> DEFINE id == job[p].id
           form == job[p].form
<1>1. job[p].step = "signup_request" /\ id \in Ids /\ form \in Form
  BY JobKinds, AccountsAssumption DEF IInv, SignupRequest, SignupJob
<1>2. UNCHANGED <<accounts, sessions, issued, autoApprove, decided, admitted, disputed>>
  BY DEF SignupRequest, memory
<1>3. job'[p].step = "idle" /\ \A q \in Procs : q # p => job'[q] = job[q]
  <2>1. Finish(p)
    BY DEF SignupRequest
  <2> QED
    BY ONLY IInv, <2>1, Finished DEF IInv
<1>4. \/ InsertRequest(id, form, SignupStatus) /\ acked' \subseteq acked \union {id}
      \/ UNCHANGED <<requests, acked>>
  BY DEF SignupRequest
<1>5. CASE UNCHANGED <<requests, acked>>
  <2>1. \A t \in Tokens : sessions'[t] # NoSession => t \in issued' /\ Backed(sessions'[t].user)
    BY <1>2 DEF IInv, LetIn
  <2> QED
    BY <1>1, <1>2, <1>3, <1>5, <2>1, MemoryStep
<1>6. CASE InsertRequest(id, form, SignupStatus) /\ acked' \subseteq acked \union {id}
  <2>1. /\ accounts[id] = [username |-> form.username, email |-> form.email,
                           role |-> "platform-operator", status |-> SignupStatus]
        /\ requests[id] = Null
        /\ \A q \in Procs : job[q].step = "signup_request" /\ job[q].id = id => q = p
    BY <1>1 DEF IInv, SignupsUnderWay
  <2>2. SignupStatus \in Statuses /\ SignupStatus' = SignupStatus
    BY <1>2 DEF SignupStatus, Statuses
  <2>3. /\ requests'[id] = [username |-> form.username, email |-> form.email,
                            status |-> SignupStatus, reviewedBy |-> Null]
        /\ \A i \in Ids : i # id => requests'[i] = requests[i]
        /\ RequestRows' = RequestRows \union {id}
    BY <1>1, <1>6, <2>2, NewRequest DEF IInv
  <2>4. AccountRows' = AccountRows /\ AdminRows' = AdminRows
    BY <1>2 DEF AccountRows, AdminRows
  <2>5. id \in AccountRows /\ id \notin AdminRows
    <3>1. accounts[id] # Null
      BY <1>1, <2>1, <2>2, AccountsAssumption DEF Account, Roles, Form
    <3> QED
      BY <1>1, <2>1, <3>1 DEF AccountRows, AdminRows
  <2>6. \A q \in Procs : ~Reviewing(q, id)
    BY <2>1 DEF IInv, ReviewsUnderWay, Reviewing
  <2>a. SignupAcknowledged'
    BY <1>1, <1>2, <1>6, <2>1, <2>3, <2>4, <2>5 DEF IInv, SignupAcknowledged, TypeOK
  <2>b. SingleAdministrator'
    BY <1>2, <2>3, <2>4, <2>5 DEF IInv, SingleAdministrator
  <2>c. ReviewedByAdministrator'
    BY <1>1, <2>3, <2>4 DEF IInv, ReviewedByAdministrator, IsAdmin, RequestRows
  <2>d. LetIn'
    BY <1>2, <1>3, <2>4 DEF IInv, LetIn, Backed
  <2>e. SignupsUnderWay'
    BY <1>1, <1>2, <1>3, <2>1, <2>2, <2>3, JobKinds DEF IInv, SignupsUnderWay, SignupJob
  <2>f. SeededRows'
    BY <1>2, <2>3, <2>4, <2>5 DEF IInv, SeededRows, AdminRows, AccountRows
  <2>g. ReviewsUnderWay'
    BY <1>1, <1>2, <1>3, <2>1, <2>3, <2>4, JobKinds
       DEF IInv, ReviewsUnderWay, ByAdministrator, IsAdmin, ReviewJob
  <2>h. Undisputed'
    BY <1>1, <1>2, <1>3, <2>1, <2>3, <2>4, <2>5, <2>6 DEF IInv, Undisputed, Reviewing
  <2> QED
    BY <2>a, <2>b, <2>c, <2>d, <2>e, <2>f, <2>g, <2>h DEF IInv
<1> QED
  BY <1>4, <1>5, <1>6

LEMMA PortalSignupStep ==
  ASSUME IInv, TypeOK', PortalSignup
  PROVE  IInv'
<1>1. PICK id \in Ids, form \in Forms : Fresh(id) /\ InsertRequest(id, form, "pending_review")
  BY DEF PortalSignup
<1>2. UNCHANGED <<accounts, sessions, issued, autoApprove, job, acked, decided, admitted, disputed>>
  BY DEF PortalSignup, memory, history
<1>3. form \in Form /\ "pending_review" \in Statuses
  BY AccountsAssumption DEF Statuses
<1>4. /\ requests'[id] = [username |-> form.username, email |-> form.email,
                          status |-> "pending_review", reviewedBy |-> Null]
      /\ \A i \in Ids : i # id => requests'[i] = requests[i]
      /\ RequestRows' = RequestRows \union {id}
  BY ONLY IInv, <1>1, <1>3, NewRequest DEF IInv
<1>5. /\ id \notin AccountRows /\ id \notin RequestRows
      /\ \A q \in Procs : job[q].step = "signup_request" => job[q].id # id
      /\ \A q \in Procs : ~Reviewing(q, id)
  BY <1>1, FreshKey DEF IInv
<1>6. AccountRows' = AccountRows /\ AdminRows' = AdminRows /\ id \notin AdminRows
  BY <1>2, <1>5 DEF AccountRows, AdminRows
<1>a. SignupAcknowledged'
  BY <1>2, <1>4, <1>5, <1>6 DEF IInv, SignupAcknowledged, TypeOK
<1>b. SingleAdministrator'
  BY <1>2, <1>4, <1>6 DEF IInv, SingleAdministrator
<1>c. ReviewedByAdministrator'
  BY <1>4, <1>6 DEF IInv, ReviewedByAdministrator, IsAdmin, RequestRows
<1>d. LetIn'
  BY <1>2, <1>6 DEF IInv, LetIn, Backed
<1>e. SignupsUnderWay'
  BY <1>2, <1>4, <1>5, JobKinds DEF IInv, SignupsUnderWay, SignupStatus, SignupJob
<1>f. SeededRows'
  BY <1>2, <1>4, <1>6 DEF IInv, SeededRows, AdminRows, AccountRows
<1>g. ReviewsUnderWay'
  BY <1>2, <1>4, <1>5, <1>6, JobKinds
     DEF IInv, ReviewsUnderWay, ByAdministrator, IsAdmin, Reviewing, ReviewJob
<1>h. Undisputed'
  BY <1>2, <1>4, <1>5, <1>6 DEF IInv, Undisputed, Reviewing
<1> QED
  BY <1>a, <1>b, <1>c, <1>d, <1>e, <1>f, <1>g, <1>h DEF IInv

LEMMA ReviewAdmitStep ==
  ASSUME IInv, TypeOK', NEW p \in Procs, ReviewAdmit(p)
  PROVE  IInv'
<1>1. PICK t \in Tokens, id \in Ids, verdict \in Verdicts :
        /\ sessions[t] # NoSession
        /\ IsAdmin(sessions[t].user)
        /\ job' = [job EXCEPT ![p] = [step |-> "review_request", id |-> id, verdict |-> verdict,
                                      by |-> sessions[t].user]]
  BY DEF ReviewAdmit, Live, Continue
<1>2. job[p].step = "idle" /\ UNCHANGED <<tables, memory, history>>
  BY DEF ReviewAdmit, Idle
<1>3. /\ job'[p] = [step |-> "review_request", id |-> id, verdict |-> verdict,
                    by |-> sessions[t].user]
      /\ \A q \in Procs : q # p => job'[q] = job[q]
  BY <1>1, OneJob DEF IInv
<1>4. ByAdministrator(sessions[t].user)
  BY <1>1 DEF IInv, LetIn, Backed, ByAdministrator, IsAdmin, AdminRows
<1>5. \A u \in Tokens : sessions'[u] # NoSession => u \in issued' /\ Backed(sessions'[u].user)
  BY <1>2 DEF IInv, LetIn, memory
<1>6. \A q \in Procs :
        \/ job'[q] = job[q]
        \/ /\ job[q].step # "review_account"
           /\ job'[q].step = "review_request"
           /\ ByAdministrator(job'[q].by)
  BY <1>2, <1>3, <1>4
<1> QED
  BY <1>2, <1>5, <1>6, MemoryStep DEF tables, memory, history

LEMMA ReviewRequestStep ==
  ASSUME IInv, TypeOK', NEW p \in Procs, ReviewRequest(p)
  PROVE  IInv'
<1>1. PICK id \in Ids, verdict \in Verdicts, by \in User :
        /\ job[p] \in ReviewJob /\ job[p].step = "review_request"
        /\ id = job[p].id /\ verdict = job[p].verdict /\ by = job[p].by
        /\ ByAdministrator(by)
  BY JobKinds DEF IInv, ReviewRequest, ReviewJob, ReviewsUnderWay
<1>2. UNCHANGED <<accounts, sessions, issued, autoApprove, acked, admitted>>
  BY DEF ReviewRequest, memory
<1>3. \/ Finish(p) /\ UNCHANGED <<requests, decided, disputed>>
      \/ /\ requests[id] # Null
         /\ requests' = [requests EXCEPT ![id].status = verdict, ![id].reviewedBy = by]
         /\ decided' = decided \union {<<id, verdict>>}
         /\ \/ /\ Continue(p, [job[p] EXCEPT !.step = "review_account"])
               /\ disputed' = IF \E q \in Procs : Reviewing(q, id)
                              THEN disputed \union {id} ELSE disputed \ {id}
            \/ Finish(p) /\ disputed' = disputed \union {id}
  BY <1>1 DEF ReviewRequest
<1>4. CASE Finish(p) /\ UNCHANGED <<requests, decided, disputed>>
  <2>1. \A t \in Tokens : sessions'[t] # NoSession => t \in issued' /\ Backed(sessions'[t].user)
    BY <1>2 DEF IInv, LetIn
  <2>2. job'[p].step = "idle" /\ \A q \in Procs : q # p => job'[q] = job[q]
    BY ONLY IInv, <1>4, Finished DEF IInv
  <2> QED
    BY <1>1, <1>2, <1>4, <2>1, <2>2, MemoryStep
<1>5. CASE /\ requests[id] # Null
           /\ requests' = [requests EXCEPT ![id].status = verdict, ![id].reviewedBy = by]
           /\ decided' = decided \union {<<id, verdict>>}
           /\ \/ /\ Continue(p, [job[p] EXCEPT !.step = "review_account"])
                 /\ disputed' = IF \E q \in Procs : Reviewing(q, id)
                                THEN disputed \union {id} ELSE disputed \ {id}
              \/ Finish(p) /\ disputed' = disputed \union {id}
  <2>1. /\ requests'[id].username = requests[id].username
        /\ requests'[id].email = requests[id].email
        /\ requests'[id].status = verdict
        /\ requests'[id].reviewedBy = by
        /\ requests'[id] # Null
        /\ \A i \in Ids : i # id => requests'[i] = requests[i]
    <3>1. requests[id] \in Request
      BY <1>1, <1>5 DEF IInv, TypeOK
    <3>2. requests'[id] = [requests[id] EXCEPT !.status = verdict, !.reviewedBy = by]
      BY <1>1, <1>5 DEF IInv, TypeOK
    <3>3. requests'[id] \in Request
      BY <1>1, <3>1, <3>2 DEF Request, Statuses, Verdicts
    <3>4. \A i \in Ids : i # id => requests'[i] = requests[i]
      BY <1>1, <1>5 DEF IInv, TypeOK
    <3> QED
      BY <3>1, <3>2, <3>3, <3>4, AccountsAssumption DEF Request
  <2>2. RequestRows' = RequestRows /\ AccountRows' = AccountRows /\ AdminRows' = AdminRows
    BY <1>2, <1>5, <2>1 DEF RequestRows, AccountRows, AdminRows
  <2>3. \/ /\ job'[p] = [job[p] EXCEPT !.step = "review_account"]
           /\ disputed' = IF \E q \in Procs : Reviewing(q, id)
                          THEN disputed \union {id} ELSE disputed \ {id}
        \/ job'[p].step = "idle" /\ disputed' = disputed \union {id}
    BY <1>5, OneJob, Finished DEF IInv, Continue
  <2>4. \A q \in Procs : q # p => job'[q] = job[q]
    BY <1>5, OneJob, Finished DEF IInv, Continue
  <2>5. /\ job'[p].step \in {"review_account", "idle"}
        /\ job'[p].step = "review_account" =>
             job'[p].id = id /\ job'[p].verdict = verdict /\ job'[p].by = by
    BY <1>1, <2>3 DEF ReviewJob
  <2>a. SignupAcknowledged'
    BY <1>2, <2>1, <2>2 DEF IInv, SignupAcknowledged, TypeOK
  <2>b. SingleAdministrator'
    BY <1>2, <2>2 DEF IInv, SingleAdministrator
  <2>c. ReviewedByAdministrator'
    BY <1>1, <2>1, <2>2 DEF IInv, ReviewedByAdministrator, ByAdministrator, IsAdmin, RequestRows
  <2>d. LetIn'
    BY <1>2, <1>5, <2>2, <2>4, <2>5 DEF IInv, LetIn, Backed
  <2>e. SignupsUnderWay'
    <3>1. \A q \in Procs : job[q].step = "signup_request" =>
            job[q].id # id /\ requests'[job[q].id] = requests[job[q].id]
      BY <1>5, <2>1, JobKinds DEF IInv, SignupsUnderWay, SignupJob
    <3>2. \A q \in Procs : job'[q].step = "signup_request" =>
            q # p /\ job'[q] = job[q]
      BY <2>4, <2>5
    <3> QED
      BY <1>2, <3>1, <3>2 DEF IInv, SignupsUnderWay, SignupStatus
  <2>f. SeededRows'
    BY <1>2, <1>5, <2>1, <2>2 DEF IInv, SeededRows, AdminRows, AccountRows
  <2>g. ReviewsUnderWay'
    <3>1. ByAdministrator(by)'
      BY <1>1, <2>2 DEF ByAdministrator, IsAdmin
    <3>2. requests'[id] # Null /\ <<id, verdict>> \in decided'
      BY <1>5, <2>1
    <3>3. \A q \in Procs : job[q].step = "review_account" =>
            requests'[job[q].id] # Null /\ <<job[q].id, job[q].verdict>> \in decided'
      BY <1>5, <2>1, JobKinds DEF IInv, ReviewsUnderWay, ReviewJob
    <3> QED
      BY <2>2, <2>4, <2>5, <3>1, <3>2, <3>3
         DEF IInv, ReviewsUnderWay, ByAdministrator, IsAdmin
  <2>h. Undisputed'
    <3> SUFFICES ASSUME NEW i \in Ids \ disputed'
                 PROVE  /\ \A q, r \in Procs : Reviewing(q, i)' /\ Reviewing(r, i)' => q = r
                        /\ \A q \in Procs : Reviewing(q, i)' => requests'[i].status = job'[q].verdict
                        /\ i \in AccountRows \intersect RequestRows =>
                             \/ \E q \in Procs : Reviewing(q, i)'
                             \/ accounts[i].status = requests'[i].status
      BY <1>2, <2>2 DEF Undisputed, Reviewing
    <3>1. CASE i # id
      BY <1>1, <2>1, <2>3, <2>4, <2>5, <3>1 DEF IInv, Undisputed, Reviewing
    <3>2. CASE i = id
      <4>1. job'[p] = [job[p] EXCEPT !.step = "review_account"]
            /\ \A q \in Procs : ~Reviewing(q, id)
        BY <2>3, <3>2
      <4>2. Reviewing(p, id)' /\ \A q \in Procs : Reviewing(q, id)' => q = p
        BY <1>1, <2>4, <2>5, <4>1 DEF Reviewing, ReviewJob
      <4> QED
        BY <1>1, <2>1, <2>5, <3>2, <4>2 DEF Reviewing
    <3> QED
      BY <3>1, <3>2
  <2> QED
    BY <2>a, <2>b, <2>c, <2>d, <2>e, <2>f, <2>g, <2>h DEF IInv
<1> QED
  BY <1>3, <1>4, <1>5

LEMMA ReviewAccountStep ==
  ASSUME IInv, TypeOK', NEW p \in Procs, ReviewAccount(p)
  PROVE  IInv'
<1>1. PICK id \in Ids, verdict \in Verdicts :
        /\ job[p].step = "review_account"
        /\ id = job[p].id /\ verdict = job[p].verdict
        /\ requests[id] # Null /\ <<id, verdict>> \in decided
  BY JobKinds DEF IInv, ReviewAccount, ReviewJob, ReviewsUnderWay
<1>2. UNCHANGED <<requests, sessions, issued, autoApprove, acked, decided>>
  BY DEF ReviewAccount, memory
<1>3. Finish(p)
  BY <1>1 DEF ReviewAccount
<1>4. job'[p].step = "idle" /\ \A q \in Procs : q # p => job'[q] = job[q]
  BY ONLY IInv, <1>3, Finished DEF IInv
<1>5. \/ id \in AccountRows /\ accounts' = [accounts EXCEPT ![id].status = verdict]
      \/ accounts' = accounts
  BY <1>1 DEF ReviewAccount
<1>6. /\ accounts' # accounts => disputed' = disputed
      /\ \/ id \in disputed'
         \/ id \in AccountRows => accounts' = [accounts EXCEPT ![id].status = verdict]
      /\ \A i \in Ids : i # id => (i \in disputed' <=> i \in disputed)
      /\ disputed \subseteq disputed'
  BY <1>1 DEF ReviewAccount
<1>7. /\ admitted \subseteq admitted' /\ admitted' \subseteq admitted \union {id}
      /\ id \in admitted' /\ id \notin admitted => id \in AccountRows
      /\ id \in AccountRows /\ verdict = "approved" /\ accounts' # accounts => id \in admitted'
  BY <1>1 DEF ReviewAccount
<1>8. /\ \A i \in Ids : i # id => accounts'[i] = accounts[i]
      /\ id \in AccountRows =>
           /\ accounts'[id] # Null
           /\ accounts'[id].username = accounts[id].username
           /\ accounts'[id].email = accounts[id].email
           /\ accounts'[id].role = accounts[id].role
           /\ accounts'[id].status = verdict \/ accounts'[id] = accounts[id]
      /\ id \notin AccountRows => accounts' = accounts
  <2>1. CASE accounts' = accounts
    BY <2>1 DEF AccountRows
  <2>2. CASE id \in AccountRows /\ accounts' = [accounts EXCEPT ![id].status = verdict]
    <3>1. accounts[id] \in Account
      BY <1>1, <2>2 DEF IInv, TypeOK, AccountRows
    <3>2. accounts'[id] = [accounts[id] EXCEPT !.status = verdict]
          /\ \A i \in Ids : i # id => accounts'[i] = accounts[i]
      BY <1>1, <2>2 DEF IInv, TypeOK
    <3>3. accounts'[id] \in Account
      BY <1>1, <3>1, <3>2 DEF Account, Statuses, Verdicts
    <3> QED
      BY <2>2, <3>1, <3>2, <3>3, AccountsAssumption DEF Account
  <2> QED
    BY <1>5, <2>1, <2>2
<1>9. AccountRows' = AccountRows /\ RequestRows' = RequestRows /\ AdminRows' = AdminRows
  BY <1>1, <1>2, <1>8 DEF AccountRows, RequestRows, AdminRows
<1>10. id \notin AdminRows
  BY <1>1 DEF IInv, SeededRows
<1>a. SignupAcknowledged'
  BY <1>2, <1>8, <1>9 DEF IInv, SignupAcknowledged, TypeOK
<1>b. SingleAdministrator'
  BY <1>8, <1>9, <1>10 DEF IInv, SingleAdministrator, AdminRows, AccountRows
<1>c. ReviewedByAdministrator'
  BY <1>2, <1>9 DEF IInv, ReviewedByAdministrator, IsAdmin
<1>d. LetIn'
  <2>1. \A user : Backed(user) => Backed(user)'
    BY <1>1, <1>2, <1>7, <1>8, <1>9 DEF Backed, Verdicts, AccountRows
  <2>2. \A i \in AccountRows : accounts'[i].status = "approved" => i \in admitted'
    BY <1>5, <1>7, <1>8, <1>9 DEF IInv, LetIn, AccountRows
  <2> QED
    BY <1>2, <1>4, <1>7, <1>9, <2>1, <2>2 DEF IInv, LetIn
<1>e. SignupsUnderWay'
  BY <1>1, <1>2, <1>4, <1>8, JobKinds DEF IInv, SignupsUnderWay, SignupStatus, SignupJob
<1>f. SeededRows'
  BY <1>2, <1>8, <1>9, <1>10 DEF IInv, SeededRows, AdminRows, AccountRows
<1>g. ReviewsUnderWay'
  BY <1>2, <1>4, <1>9 DEF IInv, ReviewsUnderWay, ByAdministrator, IsAdmin
<1>h. Undisputed'
  <2> SUFFICES ASSUME NEW i \in Ids \ disputed'
               PROVE  /\ \A q, r \in Procs : Reviewing(q, i)' /\ Reviewing(r, i)' => q = r
                      /\ \A q \in Procs : Reviewing(q, i)' => requests[i].status = job'[q].verdict
                      /\ i \in AccountRows \intersect RequestRows =>
                           \/ \E q \in Procs : Reviewing(q, i)'
                           \/ accounts'[i].status = requests[i].status
    BY <1>2, <1>9 DEF Undisputed, Reviewing
  <2>1. i \notin disputed
    BY <1>6
  <2>2. \A q \in Procs : Reviewing(q, i)' => Reviewing(q, i) /\ job'[q] = job[q]
    BY <1>4 DEF Reviewing
  <2>3. CASE i # id
    <3>1. \A q \in Procs : Reviewing(q, i) => Reviewing(q, i)'
      BY <1>1, <1>4, <2>3 DEF Reviewing
    <3> QED
      BY <1>8, <2>1, <2>2, <2>3, <3>1 DEF IInv, Undisputed
  <2>4. CASE i = id
    <3>1. Reviewing(p, i)
      BY <1>1, <2>4 DEF Reviewing
    <3>2. requests[i].status = verdict
      BY <1>1, <2>1, <3>1 DEF IInv, Undisputed
    <3>3. i \in AccountRows => accounts'[i].status = verdict
      <4>1. i \in AccountRows => accounts' = [accounts EXCEPT ![id].status = verdict]
        BY <1>6, <2>4
      <4>2. i \in AccountRows => accounts[i] \in Account
        BY DEF IInv, TypeOK, AccountRows
      <4> QED
        BY <2>4, <4>1, <4>2 DEF IInv, TypeOK, Account
    <3> QED
      BY <2>1, <2>2, <3>2, <3>3 DEF IInv, Undisputed
  <2> QED
    BY <2>3, <2>4
<1> QED
  BY <1>a, <1>b, <1>c, <1>d, <1>e, <1>f, <1>g, <1>h DEF IInv

LEMMA LoginBeginStep ==
  ASSUME IInv, TypeOK', NEW p \in Procs, LoginBegin(p)
  PROVE  IInv'
<1>1. job[p].step = "idle" /\ UNCHANGED <<tables, memory, history>>
  BY DEF LoginBegin, Idle
<1>2. PICK step \in {"seed_admin", "authenticate"} : job' = [job EXCEPT ![p] = [step |-> step]]
  BY DEF LoginBegin, Continue
<1>3. job'[p] = [step |-> step] /\ \A q \in Procs : q # p => job'[q] = job[q]
  BY <1>2, OneJob DEF IInv
<1>4. \A t \in Tokens : sessions'[t] # NoSession => t \in issued' /\ Backed(sessions'[t].user)
  BY <1>1 DEF IInv, LetIn, memory
<1> QED
  BY <1>1, <1>3, <1>4, MemoryStep DEF tables, memory, history

LEMMA SeedAdminStep ==
  ASSUME IInv, TypeOK', NEW p \in Procs, SeedAdmin(p)
  PROVE  IInv'
<1>1. /\ job[p].step = "seed_admin"
      /\ UNCHANGED <<requests, sessions, issued, autoApprove, acked, decided, disputed>>
  BY DEF SeedAdmin, memory
<1>2. Continue(p, [step |-> "authenticate"]) \/ Finish(p)
  BY DEF SeedAdmin
<1>3. job'[p].step \in {"authenticate", "idle"} /\ \A q \in Procs : q # p => job'[q] = job[q]
  <2>1. CASE Finish(p)
    BY ONLY IInv, <2>1, Finished DEF IInv
  <2>2. CASE job' = [job EXCEPT ![p] = [step |-> "authenticate"]]
    <3>1. job'[p] = [step |-> "authenticate"] /\ \A q \in Procs : q # p => job'[q] = job[q]
      BY <2>2, OneJob DEF IInv
    <3> QED
      BY <3>1
  <2> QED
    BY <1>2, <2>1, <2>2 DEF Continue
<1>4. CASE UNCHANGED <<accounts, admitted>>
  <2>1. \A t \in Tokens : sessions'[t] # NoSession => t \in issued' /\ Backed(sessions'[t].user)
    BY <1>1 DEF IInv, LetIn
  <2> QED
    BY <1>1, <1>3, <1>4, <2>1, MemoryStep
<1>5. CASE /\ ~UsernameTaken(AdminForm.username)
           /\ \E id \in Ids :
                Fresh(id) /\ InsertAccount(id, AdminForm, "platform-admin", "approved")
  <2>1. PICK id \in Ids :
          Fresh(id) /\ InsertAccount(id, AdminForm, "platform-admin", "approved")
    BY <1>5
  <2>2. AdminForm \in Form /\ "platform-admin" \in Roles /\ "approved" \in Statuses
    BY AccountsAssumption DEF Roles, Statuses
  <2>3. /\ accounts'[id] = [username |-> AdminForm.username, email |-> AdminForm.email,
                            role |-> "platform-admin", status |-> "approved"]
        /\ \A i \in Ids : i # id => accounts'[i] = accounts[i]
        /\ AccountRows' = AccountRows \union {id}
        /\ admitted' = admitted \union {id}
    BY ONLY IInv, <2>1, <2>2, NewAccount DEF IInv
  <2>4. /\ id \notin AccountRows /\ id \notin RequestRows /\ requests[id] = Null
        /\ \A q \in Procs : job[q].step = "signup_request" => job[q].id # id
        /\ \A q \in Procs : ~Reviewing(q, id)
    BY <2>1, FreshKey DEF IInv, Fresh
  \* The seeded username is free, so there is no administrator yet.
  <2>5. AdminRows = {}
    BY <1>5 DEF IInv, SeededRows, UsernameTaken, AdminRows
  <2>6. RequestRows' = RequestRows /\ AdminRows' = {id}
    <3>1. RequestRows' = RequestRows
      BY <1>1 DEF RequestRows
    <3>2. \A i \in Ids : i \in AccountRows' /\ accounts'[i].role = "platform-admin" <=> i = id
      BY <2>3, <2>5 DEF AdminRows, AccountRows
    <3> QED
      BY <3>1, <3>2 DEF AdminRows, AccountRows
  <2>a. SignupAcknowledged'
    BY <1>1, <2>3, <2>4, <2>6 DEF IInv, SignupAcknowledged, TypeOK
  <2>b. SingleAdministrator'
    BY <2>3, <2>4, <2>6 DEF IInv, SingleAdministrator
  <2>c. ReviewedByAdministrator'
    BY <1>1, <2>5, <2>6 DEF IInv, ReviewedByAdministrator, IsAdmin
  <2>d. LetIn'
    BY <1>1, <1>3, <2>3, <2>4 DEF IInv, LetIn, Backed, AccountRows, TypeOK
  <2>e. SignupsUnderWay'
    BY <1>1, <1>3, <2>3, <2>4, JobKinds DEF IInv, SignupsUnderWay, SignupStatus, SignupJob
  <2>f. SeededRows'
    BY <1>1, <2>3, <2>4, <2>6 DEF IInv, SeededRows
  <2>g. ReviewsUnderWay'
    BY <1>1, <1>3, <2>5, <2>6 DEF IInv, ReviewsUnderWay, ByAdministrator, IsAdmin
  <2>h. Undisputed'
    <3>1. \A q \in Procs, i \in Ids : Reviewing(q, i)' <=> Reviewing(q, i)
      BY <1>1, <1>3 DEF Reviewing
    <3>2. \A q \in Procs, i \in Ids : Reviewing(q, i) => job'[q] = job[q]
      BY <1>1, <1>3 DEF Reviewing
    <3> QED
      BY <1>1, <2>3, <2>4, <2>6, <3>1, <3>2 DEF IInv, Undisputed, AccountRows
  <2> QED
    BY <2>a, <2>b, <2>c, <2>d, <2>e, <2>f, <2>g, <2>h DEF IInv
<1> QED
  BY <1>4, <1>5 DEF SeedAdmin

LEMMA AuthenticateStep ==
  ASSUME IInv, TypeOK', NEW p \in Procs, Authenticate(p)
  PROVE  IInv'
<1>1. job[p].step = "authenticate" /\ UNCHANGED <<tables, memory, history>>
  BY DEF Authenticate
<1>2. \A t \in Tokens : sessions'[t] # NoSession => t \in issued' /\ Backed(sessions'[t].user)
  BY <1>1 DEF IInv, LetIn, memory
<1>3. CASE Finish(p)
  <2>1. job'[p].step = "idle" /\ \A q \in Procs : q # p => job'[q] = job[q]
    BY ONLY IInv, <1>3, Finished DEF IInv
  <2> QED
    BY <1>1, <1>2, <2>1, MemoryStep DEF tables, memory, history
<1>4. CASE \E ident \in Idents : \E user \in LocalUser(ident) \union LdapUser(ident) :
             Continue(p, [step |-> "store_session", user |-> user])
  <2>1. PICK ident \in Idents : \E user \in LocalUser(ident) \union LdapUser(ident) :
          job' = [job EXCEPT ![p] = [step |-> "store_session", user |-> user]]
    BY <1>4 DEF Continue
  <2>5. PICK user \in LocalUser(ident) \union LdapUser(ident) :
          job' = [job EXCEPT ![p] = [step |-> "store_session", user |-> user]]
    BY <2>1
  <2>2. job'[p] = [step |-> "store_session", user |-> user]
        /\ \A q \in Procs : q # p => job'[q] = job[q]
    BY <2>5, OneJob DEF IInv
  <2>3. Backed(user)
    <3>1. CASE user \in LocalUser(ident)
      BY <3>1 DEF IInv, LetIn, LocalUser, Matching, Backed
    <3>2. CASE user \in LdapUser(ident)
      BY <3>2 DEF LdapUser, Backed
    <3> QED
      BY <3>1, <3>2
  <2>4. job'[p].step = "store_session" /\ job'[p].user = user
    BY <2>2
  <2> QED
    BY <1>1, <1>2, <2>2, <2>3, <2>4, MemoryStep DEF tables, memory, history
<1> QED
  BY <1>3, <1>4 DEF Authenticate

LEMMA StoreSessionStep ==
  ASSUME IInv, TypeOK', NEW p \in Procs, StoreSession(p)
  PROVE  IInv'
<1>1. job[p].step = "store_session" /\ UNCHANGED <<tables, autoApprove, history>>
  BY DEF StoreSession
<1>2. Finish(p)
  BY DEF StoreSession
<1>3. job'[p].step = "idle" /\ \A q \in Procs : q # p => job'[q] = job[q]
  BY ONLY IInv, <1>2, Finished DEF IInv
<1>4. Backed(job[p].user)
  BY <1>1 DEF IInv, LetIn
<1>5. \A t \in Tokens : sessions'[t] # NoSession => t \in issued' /\ Backed(sessions'[t].user)
  BY <1>4 DEF StoreSession, IInv, LetIn, TypeOK
<1> QED
  BY <1>1, <1>3, <1>5, MemoryStep DEF tables, history

LEMMA ExpireStep ==
  ASSUME IInv, TypeOK', NEW t \in Tokens, Expire(t)
  PROVE  IInv'
<1>1. UNCHANGED <<tables, issued, autoApprove, job, history>>
  BY DEF Expire
<1>2. sessions[t] \in Session
  BY DEF Expire, Live, IInv, TypeOK
<1>3. sessions'[t].user = sessions[t].user /\ \A u \in Tokens : u # t => sessions'[u] = sessions[u]
  BY <1>2 DEF Expire, IInv, TypeOK, Session
<1>4. \A u \in Tokens : sessions'[u] # NoSession => u \in issued' /\ Backed(sessions'[u].user)
  BY <1>1, <1>3 DEF Expire, Live, IInv, LetIn
<1> QED
  BY <1>1, <1>4, MemoryStep DEF tables, history

LEMMA DropSessionStep ==
  ASSUME IInv, TypeOK', NEW t \in Tokens, DropSession(t)
  PROVE  IInv'
<1>1. UNCHANGED <<tables, issued, autoApprove, job, history>>
  BY DEF DropSession
<1>2. \A u \in Tokens : sessions'[u] # NoSession => u \in issued' /\ Backed(sessions'[u].user)
  BY <1>1 DEF DropSession, IInv, LetIn, TypeOK
<1> QED
  BY <1>1, <1>2, MemoryStep DEF tables, history

\* A restart ends every job, signups included, so that it may change the
\* approval setting; the reviews it cuts short become disputed.
LEMMA RestartStep ==
  ASSUME IInv, TypeOK', Restart
  PROVE  IInv'
<1>1. /\ UNCHANGED <<accounts, requests, issued, acked, decided, admitted>>
      /\ \A t \in Tokens : sessions'[t] = NoSession
      /\ \A q \in Procs : job'[q].step = "idle"
      /\ disputed' = disputed \union {id \in Ids : \E q \in Procs : Reviewing(q, id)}
  BY DEF Restart, tables, Idle
<1>2. RequestRows' = RequestRows /\ AccountRows' = AccountRows /\ AdminRows' = AdminRows
  BY <1>1 DEF RequestRows, AdminRows, AccountRows
<1>a. SignupAcknowledged' /\ SingleAdministrator' /\ ReviewedByAdministrator' /\ SeededRows'
  BY <1>1, <1>2 DEF IInv, SignupAcknowledged, SingleAdministrator, ReviewedByAdministrator,
                    SeededRows, IsAdmin
<1>b. LetIn'
  BY <1>1, <1>2 DEF IInv, LetIn
<1>c. SignupsUnderWay' /\ ReviewsUnderWay'
  BY <1>1 DEF SignupsUnderWay, ReviewsUnderWay
<1>d. Undisputed'
  <2>1. \A q \in Procs, i \in Ids : ~Reviewing(q, i)'
    BY <1>1 DEF Reviewing
  <2>2. \A i \in Ids \ disputed' : i \notin disputed /\ \A q \in Procs : ~Reviewing(q, i)
    BY <1>1
  <2> QED
    BY <1>1, <1>2, <2>1, <2>2 DEF IInv, Undisputed
<1> QED
  BY <1>a, <1>b, <1>c, <1>d DEF IInv

---------------------------------------------------------------------------
(* The invariance theorems                                                 *)

LEMMA InvInit == Init => IInv
<1> SUFFICES ASSUME Init PROVE IInv
  OBVIOUS
<1>1. /\ \A id \in Ids : accounts[id] = Null /\ requests[id] = Null
      /\ \A t \in Tokens : sessions[t] = NoSession
      /\ \A p \in Procs : job[p].step = "idle"
      /\ acked = {} /\ admitted = {}
  BY DEF Init, Idle
<1>2. AccountRows = {} /\ RequestRows = {} /\ AdminRows = {}
  BY <1>1 DEF AccountRows, RequestRows, AdminRows
<1>3. TypeOK
  BY DEF Init, TypeOK, Job
<1>4. SignupAcknowledged /\ SingleAdministrator /\ ReviewedByAdministrator /\ SeededRows
  BY <1>1, <1>2 DEF SignupAcknowledged, SingleAdministrator, ReviewedByAdministrator, SeededRows
<1>5. LetIn /\ SignupsUnderWay /\ ReviewsUnderWay
  BY <1>1, <1>2 DEF LetIn, SignupsUnderWay, ReviewsUnderWay
<1>6. Undisputed
  BY <1>1, <1>2 DEF Undisputed, Reviewing
<1> QED
  BY <1>3, <1>4, <1>5, <1>6 DEF IInv

LEMMA InvStep == IInv /\ [Next]_vars => IInv'
<1> SUFFICES ASSUME IInv, [Next]_vars PROVE IInv'
  OBVIOUS
<1>1. TypeOK'
  BY TypeStep DEF IInv
<1>2. CASE UNCHANGED vars
  <2>1. \A t \in Tokens : sessions'[t] # NoSession => t \in issued' /\ Backed(sessions'[t].user)
    BY <1>2 DEF IInv, LetIn, vars, memory
  <2> QED
    BY <1>1, <1>2, <2>1, MemoryStep DEF vars, tables, memory, history
<1>3. CASE Next
  BY <1>1, <1>3, SignupAccountStep, SignupRequestStep, PortalSignupStep, ReviewAdmitStep,
     ReviewRequestStep, ReviewAccountStep, LoginBeginStep, SeedAdminStep, AuthenticateStep,
     StoreSessionStep, ExpireStep, DropSessionStep, RestartStep DEF Next
<1> QED
  BY <1>2, <1>3

\* The invariant holds in every reachable state of a gateway of any size.
THEOREM Inductive == Spec => []IInv
  BY InvInit, InvStep, PTL DEF Spec

\* Every variable keeps its type.
THEOREM TypeCorrect == Spec => []TypeOK
<1>1. IInv => TypeOK
  BY DEF IInv
<1> QED
  BY <1>1, Inductive, PTL

\* A signup answered 202 has left both its rows behind.
THEOREM AcknowledgedSignups == Spec => []SignupAcknowledged
<1>1. IInv => SignupAcknowledged
  BY DEF IInv
<1> QED
  BY <1>1, Inductive, PTL

\* There is one default administrator, approved, out of every review's reach.
THEOREM OneAdministrator == Spec => []SingleAdministrator
<1>1. IInv => SingleAdministrator
  BY DEF IInv
<1> QED
  BY <1>1, Inductive, PTL

\* Only administrators' names stand under a review.
THEOREM AdministratorsReview == Spec => []ReviewedByAdministrator
<1>1. IInv => ReviewedByAdministrator
  BY DEF IInv
<1> QED
  BY <1>1, Inductive, PTL

\* A session has the role of its account, which is approved or was rejected by
\* an administrator.
THEOREM BackedSessions == Spec => []SessionBacked
<1>1. IInv => SessionBacked
  BY DEF IInv, LetIn, Backed, SessionBacked
<1> QED
  BY <1>1, Inductive, PTL

\* Reviews that neither overlap nor fail keep the two tables in agreement.
THEOREM AgreeingTables == Spec => []ReviewAgreement
<1>1. IInv => ReviewAgreement
  BY DEF IInv, Undisputed, ReviewAgreement, AccountRows
<1> QED
  BY <1>1, Inductive, PTL

---------------------------------------------------------------------------
(* What the steps do to an account                                         *)

\* The only two things that happen to the accounts table.
Enrolled(id) ==
  /\ accounts[id] = Null
  /\ accounts'[id] # Null
  /\ accounts'[id].status \in {"pending_review", "approved"}
  /\ \A i \in Ids : i # id => accounts'[i] = accounts[i]
  /\ admitted' = IF accounts'[id].status = "approved" THEN admitted \union {id} ELSE admitted
  /\ UNCHANGED <<sessions, issued>>

Judged(id) ==
  /\ accounts[id] # Null
  /\ accounts'[id] # Null
  /\ accounts'[id] = [accounts[id] EXCEPT !.status = accounts'[id].status]
  /\ accounts'[id].status \in Verdicts
  /\ <<id, accounts'[id].status>> \in decided
  /\ \A i \in Ids : i # id => accounts'[i] = accounts[i]
  /\ admitted' = IF accounts'[id].status = "approved" THEN admitted \union {id} ELSE admitted
  /\ UNCHANGED <<sessions, issued>>

\* Every step enrols one account, judges one, or leaves all of them alone.
LEMMA AccountSteps ==
  ASSUME IInv, [Next]_vars
  PROVE  \/ \E id \in Ids : Enrolled(id) \/ Judged(id)
         \/ UNCHANGED <<accounts, admitted>>
<1> USE DEF IInv
<1>1. ASSUME NEW p \in Procs, SignupAccount(p)
      PROVE  \E id \in Ids : Enrolled(id)
  <2>1. PICK id \in Ids, form \in Forms :
          Fresh(id) /\ InsertAccount(id, form, "platform-operator", SignupStatus)
    BY <1>1 DEF SignupAccount
  <2>2. form \in Form /\ "platform-operator" \in Roles /\ SignupStatus \in Statuses
    BY AccountsAssumption DEF Roles, Statuses, SignupStatus
  <2>3. /\ accounts'[id] = [username |-> form.username, email |-> form.email,
                            role |-> "platform-operator", status |-> SignupStatus]
        /\ \A i \in Ids : i # id => accounts'[i] = accounts[i]
        /\ AccountRows' = AccountRows \union {id}
        /\ admitted' = IF SignupStatus = "approved" THEN admitted \union {id} ELSE admitted
    BY ONLY TypeOK, <2>1, <2>2, NewAccount
  <2>4. accounts'[id] # Null /\ accounts'[id].status = SignupStatus
    BY <2>3 DEF AccountRows
  <2> QED
    BY <1>1, <2>1, <2>3, <2>4 DEF SignupAccount, Fresh, Enrolled, SignupStatus, memory
<1>2. ASSUME NEW p \in Procs, SeedAdmin(p)
      PROVE  (\E id \in Ids : Enrolled(id)) \/ UNCHANGED <<accounts, admitted>>
  <2>1. SUFFICES ASSUME NEW id \in Ids,
                        Fresh(id), InsertAccount(id, AdminForm, "platform-admin", "approved")
                 PROVE  Enrolled(id)
    BY <1>2 DEF SeedAdmin
  <2>2. AdminForm \in Form /\ "platform-admin" \in Roles /\ "approved" \in Statuses
    BY AccountsAssumption DEF Roles, Statuses
  <2>3. /\ accounts'[id] = [username |-> AdminForm.username, email |-> AdminForm.email,
                            role |-> "platform-admin", status |-> "approved"]
        /\ \A i \in Ids : i # id => accounts'[i] = accounts[i]
        /\ AccountRows' = AccountRows \union {id}
        /\ admitted' = admitted \union {id}
    BY ONLY TypeOK, <2>1, <2>2, NewAccount
  <2>4. accounts'[id] # Null /\ accounts'[id].status = "approved"
    BY <2>3 DEF AccountRows
  <2> QED
    BY <1>2, <2>1, <2>3, <2>4 DEF SeedAdmin, Fresh, Enrolled, memory
<1>3. ASSUME NEW p \in Procs, ReviewAccount(p)
      PROVE  (\E id \in Ids : Judged(id)) \/ UNCHANGED <<accounts, admitted>>
  <2>1. PICK id \in Ids, verdict \in Verdicts :
          /\ id = job[p].id /\ verdict = job[p].verdict
          /\ <<id, verdict>> \in decided
    BY <1>3, JobKinds DEF ReviewAccount, ReviewJob, ReviewsUnderWay
  <2>2. SUFFICES ASSUME id \in AccountRows,
                        accounts' = [accounts EXCEPT ![id].status = verdict],
                        admitted' = IF verdict = "approved" THEN admitted \union {id} ELSE admitted
                 PROVE  Judged(id)
    BY <1>3, <2>1 DEF ReviewAccount
  <2>3. accounts[id] \in Account /\ accounts[id] # Null
    BY <2>2 DEF TypeOK, AccountRows
  <2>4. /\ accounts'[id] = [accounts[id] EXCEPT !.status = verdict]
        /\ \A i \in Ids : i # id => accounts'[i] = accounts[i]
    BY <2>2 DEF TypeOK
  <2>5. accounts'[id] \in Account /\ accounts'[id].status = verdict
    BY <2>3, <2>4 DEF Account, Statuses, Verdicts
  <2>6. accounts'[id] # Null
    BY <2>5, AccountsAssumption
  <2> QED
    BY <1>3, <2>1, <2>2, <2>3, <2>4, <2>5, <2>6 DEF ReviewAccount, Judged, memory
<1>4. CASE PortalSignup \/ Restart \/ (\E t \in Tokens : Expire(t) \/ DropSession(t))
  BY <1>4 DEF PortalSignup, Restart, Expire, DropSession, tables, history
<1>5. ASSUME NEW p \in Procs,
             \/ SignupRequest(p) \/ ReviewAdmit(p) \/ ReviewRequest(p)
             \/ LoginBegin(p) \/ Authenticate(p) \/ StoreSession(p)
      PROVE  UNCHANGED <<accounts, admitted>>
  BY <1>5 DEF SignupRequest, ReviewAdmit, ReviewRequest, LoginBegin, Authenticate, StoreSession,
              tables, history
<1>6. CASE UNCHANGED vars
  BY <1>6 DEF vars, tables, history
<1> QED
  BY <1>1, <1>2, <1>3, <1>4, <1>5, <1>6 DEF Next

\* An account changes only in its status, and only to a verdict on record.
THEOREM OnRecord == Spec => StandingByReview
<1>1. IInv /\ [Next]_vars => [JudgedOnRecord]_accounts
  <2> SUFFICES ASSUME IInv, [Next]_vars PROVE [JudgedOnRecord]_accounts
    OBVIOUS
  <2>1. ASSUME NEW id \in Ids, Enrolled(id) PROVE JudgedOnRecord
    BY <2>1 DEF Enrolled, JudgedOnRecord, AccountRows
  <2>2. ASSUME NEW id \in Ids, Judged(id) PROVE JudgedOnRecord
    BY <2>2 DEF Judged, JudgedOnRecord, AccountRows
  <2> QED
    BY <2>1, <2>2, AccountSteps
<1> QED
  BY <1>1, Inductive, PTL DEF Spec, StandingByReview

---------------------------------------------------------------------------
(* What makes signing in impossible for everybody                          *)

\* A judged account is found under the same names as before, and so is every
\* other one when an account is enrolled.
LEMMA StillMatching ==
  ASSUME IInv, [Next]_vars
  PROVE  /\ Matching(AdminForm.username) \subseteq Matching(AdminForm.username)'
         /\ EmailTaken(AdminForm.email)' =>
              \/ EmailTaken(AdminForm.email)
              \/ \E id \in Ids : Enrolled(id) /\ accounts'[id].email = AdminForm.email
<1>1. TypeOK
  BY DEF IInv
<1>2. CASE UNCHANGED accounts
  BY <1>2 DEF Matching, AccountRows, EmailTaken
<1>3. ASSUME NEW id \in Ids, Judged(id)
      PROVE  \A i \in Ids : /\ i \in AccountRows' <=> i \in AccountRows
                            /\ i \in AccountRows =>
                                 /\ accounts'[i].username = accounts[i].username
                                 /\ accounts'[i].email = accounts[i].email
  <2>1. accounts[id] \in Account
    BY <1>1, <1>3 DEF Judged, TypeOK
  <2>2. accounts'[id].username = accounts[id].username /\ accounts'[id].email = accounts[id].email
    BY <1>3, <2>1 DEF Judged, Account
  <2> QED
    BY <1>3, <2>2 DEF Judged, AccountRows
<1>4. ASSUME NEW id \in Ids, Enrolled(id)
      PROVE  /\ Matching(AdminForm.username) \subseteq Matching(AdminForm.username)'
             /\ EmailTaken(AdminForm.email)' =>
                  EmailTaken(AdminForm.email) \/ accounts'[id].email = AdminForm.email
  <2>1. \A i \in AccountRows : i \in AccountRows' /\ accounts'[i] = accounts[i]
    BY <1>4 DEF Enrolled, AccountRows
  <2>2. \A i \in AccountRows' : i = id \/ i \in AccountRows
    BY <1>4 DEF Enrolled, AccountRows
  <2> QED
    BY <2>1, <2>2 DEF Matching, EmailTaken
<1>5. (\E id \in Ids : Judged(id)) =>
        /\ Matching(AdminForm.username) \subseteq Matching(AdminForm.username)'
        /\ EmailTaken(AdminForm.email)' => EmailTaken(AdminForm.email)
  BY <1>3 DEF Matching, EmailTaken, AccountRows
<1> QED
  BY <1>2, <1>4, <1>5, AccountSteps

\* A step after which no login can get past seeding any more.
SignInLost == SeedingPossible /\ ~SeedingPossible'

\* It enrols the administrator's address for somebody else, before the
\* administrator is there: nothing else ends it, and once he is there nothing
\* does.
LostByEnrolment ==
  SignInLost =>
    /\ Matching(AdminForm.username) = {}
    /\ \E id \in Ids : /\ accounts[id] = Null /\ accounts'[id] # Null
                       /\ accounts'[id].email = AdminForm.email
                       /\ Fold[accounts'[id].username] # Fold[AdminForm.username]

LostOnlyByEnrolment == [][LostByEnrolment]_accounts

\* Signing in becomes impossible for everybody only when an account takes the
\* default administrator's address before he is seeded; no review, failure or
\* restart does it, and after the seeding no signup either
\* (ensureDefaultLocalAdminAccount, handleSignup).
THEOREM SignInLostByEnrolment == Spec => LostOnlyByEnrolment
<1>1. IInv /\ [Next]_vars => [LostByEnrolment]_accounts
  <2> SUFFICES ASSUME IInv, [Next]_vars, SignInLost
               PROVE  /\ Matching(AdminForm.username) = {}
                      /\ \E id \in Ids : /\ accounts[id] = Null /\ accounts'[id] # Null
                                         /\ accounts'[id].email = AdminForm.email
                                         /\ Fold[accounts'[id].username] # Fold[AdminForm.username]
    BY DEF LostByEnrolment
  <2>1. /\ Matching(AdminForm.username)' = {} /\ EmailTaken(AdminForm.email)'
        /\ Matching(AdminForm.username) # {} \/ ~EmailTaken(AdminForm.email)
    BY DEF SignInLost, SeedingPossible
  <2>2. Matching(AdminForm.username) = {} /\ ~EmailTaken(AdminForm.email)
    BY <2>1, StillMatching
  <2>3. PICK id \in Ids : Enrolled(id) /\ accounts'[id].email = AdminForm.email
    BY <2>1, <2>2, StillMatching
  <2>4. id \in AccountRows' /\ accounts[id] = Null /\ accounts'[id] # Null
    BY <2>3 DEF Enrolled, AccountRows
  <2>5. Fold[accounts'[id].username] # Fold[AdminForm.username]
    BY <2>1, <2>4 DEF Matching
  <2> QED
    BY <2>2, <2>3, <2>4, <2>5
<1> QED
  BY <1>1, Inductive, PTL DEF Spec, LostOnlyByEnrolment

---------------------------------------------------------------------------
(* Accounts implements AccountPromise                                      *)

LEMMA PromiseStep ==
  IInv /\ [Next]_vars => [Promise!PromiseNext]_(Promise!promiseVars)
<1> SUFFICES ASSUME IInv, [Next]_vars
             PROVE  Promise!PromiseNext \/ UNCHANGED Promise!promiseVars
  OBVIOUS
<1>1. ASSUME NEW id \in Ids, Enrolled(id) PROVE Promise!Enrol(id)
  <2>1. Standing(id) = "none" /\ Standing(id)' = accounts'[id].status
    BY <1>1 DEF Enrolled, Standing
  <2>2. \A i \in Ids : i # id => Standing(i)' = Standing(i)
    BY <1>1 DEF Enrolled, Standing
  <2>3. Promise!Stand(id, accounts'[id].status)
    BY <1>1, <2>1, <2>2 DEF Enrolled, Promise!Stand
  <2>4. UNCHANGED <<[t \in Tokens |-> Holder(t)], issued>>
    BY <1>1 DEF Enrolled, Holder
  <2> QED
    BY <1>1, <2>1, <2>3, <2>4 DEF Enrolled, Promise!Enrol
<1>2. ASSUME NEW id \in Ids, Judged(id) PROVE Promise!Decide(id)
  <2>1. Standing(id) # "none" /\ Standing(id)' = accounts'[id].status
    <3>1. accounts[id] \in Account
      BY <1>2 DEF Judged, IInv, TypeOK
    <3> QED
      BY <1>2, <3>1 DEF Judged, Standing, Account, Statuses
  <2>2. \A i \in Ids : i # id => Standing(i)' = Standing(i)
    BY <1>2 DEF Judged, Standing
  <2>3. Promise!Stand(id, accounts'[id].status)
    BY <1>2, <2>1, <2>2 DEF Judged, Promise!Stand
  <2>4. UNCHANGED <<[t \in Tokens |-> Holder(t)], issued>>
    BY <1>2 DEF Judged, Holder
  <2> QED
    BY <1>2, <2>1, <2>3, <2>4 DEF Judged, Verdicts, Promise!Decide
<1>3. CASE UNCHANGED <<accounts, admitted>>
  <2>1. UNCHANGED <<[id \in Ids |-> Standing(id)], admitted>>
    BY <1>3 DEF Standing
  <2>2. CASE UNCHANGED <<sessions, issued>>
    BY <2>1, <2>2 DEF Promise!promiseVars, Holder
  <2>3. ASSUME NEW p \in Procs, StoreSession(p) PROVE \E t \in Tokens : Promise!OpenSession(t)
    <3>1. PICK t \in Tokens \ issued :
            /\ sessions' = [sessions EXCEPT ![t] = [user |-> job[p].user, expired |-> FALSE]]
            /\ issued' = issued \union {t}
      BY <2>3 DEF StoreSession
    <3>2. job[p].user \in User /\ Backed(job[p].user)
      BY <2>3, JobKinds DEF StoreSession, IInv, LetIn, SessionJob
    <3>3. job[p].user.id \in admitted \union {Directory}
      BY <3>2 DEF Backed
    <3>4. Holder(t)' = job[p].user.id
      <4>1. sessions'[t] = [user |-> job[p].user, expired |-> FALSE]
        BY <3>1 DEF IInv, TypeOK
      <4>2. sessions'[t] \in Session
        BY <3>2, <4>1 DEF Session
      <4>3. sessions'[t] # NoSession
        BY <4>2, AccountsAssumption
      <4>4. sessions'[t].user = job[p].user
        BY <4>1
      <4> QED
        BY <4>3, <4>4 DEF Holder
    <3>5. \A u \in Tokens : u # t => Holder(u)' = Holder(u)
      BY <3>1 DEF IInv, TypeOK, Holder
    <3>6. [u \in Tokens |-> Holder(u)]' =
            [[u \in Tokens |-> Holder(u)] EXCEPT ![t] = job[p].user.id]
      BY <3>4, <3>5
    <3> QED
      BY <2>1, <3>1, <3>3, <3>6 DEF Promise!OpenSession
  <2>4. ASSUME NEW t \in Tokens, Expire(t) PROVE UNCHANGED Promise!promiseVars
    <3>1. sessions[t] \in Session
      BY <2>4 DEF Expire, Live, IInv, TypeOK
    <3>2. sessions'[t] = [sessions[t] EXCEPT !.expired = TRUE]
          /\ \A u \in Tokens : u # t => sessions'[u] = sessions[u]
      BY <2>4 DEF Expire, IInv, TypeOK
    <3>3. sessions'[t] \in Session /\ sessions'[t].user = sessions[t].user
      BY <3>1, <3>2 DEF Session
    <3>4. \A u \in Tokens : Holder(u)' = Holder(u)
      BY <3>1, <3>2, <3>3, AccountsAssumption DEF Holder
    <3> QED
      BY <2>1, <2>4, <3>4 DEF Expire, Promise!promiseVars
  <2>5. ASSUME NEW t \in Tokens, DropSession(t) PROVE Promise!CloseSessions({t})
    <3>1. \A u \in Tokens : Holder(u)' = IF u \in {t} THEN NoSession ELSE Holder(u)
      BY <2>5 DEF DropSession, IInv, TypeOK, Holder
    <3> QED
      BY <2>1, <2>5, <3>1 DEF DropSession, Promise!CloseSessions
  <2>6. CASE Restart
    <3>1. \A u \in Tokens : Holder(u)' = IF u \in Tokens THEN NoSession ELSE Holder(u)
      BY <2>6 DEF Restart, Holder
    <3>2. Promise!CloseSessions(Tokens)
      BY <2>1, <2>6, <3>1 DEF Restart, Promise!CloseSessions
    <3> QED
      BY <3>2 DEF Promise!PromiseNext
  <2>7. \/ UNCHANGED <<sessions, issued>>
        \/ \E p \in Procs : StoreSession(p)
        \/ \E t \in Tokens : Expire(t) \/ DropSession(t)
        \/ Restart
    BY DEF Next, SignupAccount, SignupRequest, PortalSignup, ReviewAdmit, ReviewRequest,
           ReviewAccount, LoginBegin, SeedAdmin, Authenticate, vars, memory
  <2> QED
    BY <2>2, <2>3, <2>4, <2>5, <2>6, <2>7 DEF Promise!PromiseNext
<1> QED
  BY <1>1, <1>2, <1>3, AccountSteps DEF Promise!PromiseNext

\* The handlers, statement by statement, keep the promise of AccountPromise.
THEOREM Refinement == Spec => KeepsPromise
<1>1. Init => Promise!PromiseInit
  BY DEF Init, Promise!PromiseInit, Standing, Holder
<1> QED
  BY <1>1, PromiseStep, Inductive, PTL DEF Spec, KeepsPromise, Promise!PromiseSpec
===========================================================================
