----------------------------- MODULE WebSession -----------------------------
(***************************************************************************)
(* One browser tab of the web client (orcastackweb/src): the session, the  *)
(* dashboard and the forms of App.tsx, and the calls of api/client.ts that *)
(* are under way.                                                          *)
(*                                                                         *)
(* Handlers set the state of the component.  React renders it some time    *)
(* later and runs, some time after that, the effects whose dependencies    *)
(* changed; the user acts on what was rendered.  An effect's cleanup       *)
(* aborts its request, and the catch and finally handlers of an aborted    *)
(* request run as soon as the effects have.  The other calls are not       *)
(* aborted: their handlers run whatever has happened meanwhile.            *)
(*                                                                         *)
(* React, the browser and the gateway (module Accounts) are external.      *)
(***************************************************************************)
EXTENDS Naturals

CONSTANTS
  MaxTokens,    \* bound: sessions opened
  MaxCalls,     \* bound: calls the user makes
  MaxReloads,   \* bound: reloads of the tab
  Candidates    \* addresses tried for a call

ASSUME BoundsAssumption ==
  /\ MaxTokens \in Nat \ {0} /\ MaxCalls \in Nat \ {0}
  /\ MaxReloads \in Nat /\ Candidates \in Nat \ {0}

None   == 0
Tokens == 1 .. MaxTokens
Calls  == 1 .. MaxCalls

VARIABLES
  served,    \* the sessions the gateway knows
  issued,    \* sessions opened so far
  reviewed,  \* the gateway has the review of the one signup request
  stored,    \* the token in localStorage
  tab,       \* the state of the component
  view,      \* the state last rendered
  watched,   \* the token the session effect last ran for
  check,     \* its request: "none", "sent", "valid" or "invalid"
  load,      \* the request of the dashboard effect and the token it is made for
  calls,     \* calls[c]: a login, logout or review
  made,      \* calls made
  entered,   \* auxiliary: there was a session since the tab was loaded
  overlap,   \* auxiliary: a login was submitted before another was answered and rendered
  reloads    \* reloads so far

gateway == <<served, issued, reviewed>>
aux     == <<overlap, reloads>>
effects == <<watched, check, load>>
vars    == <<gateway, stored, tab, view, effects, calls, made, entered, aux>>

\* A dashboard: the session it was loaded for, and whether it shows the signup
\* request as reviewed.
Boards == [of : Tokens \union {None}, reviewed : BOOLEAN]
Empty  == [of |-> None, reviewed |-> FALSE]

\* The state of the component; "again" says that the session was set since the
\* last time it was rendered.
TabStates ==
  [token : Tokens \union {None}, session : Tokens \union {None}, again : BOOLEAN,
   board : Boards, loading : BOOLEAN, checking : BOOLEAN]

Idle   == [for |-> None, phase |-> "none", reviewed |-> FALSE]
Unused == [op |-> "none", token |-> None, phase |-> "none", tries |-> 0]

Opened(t) ==
  [token |-> t, session |-> None, again |-> FALSE, board |-> Empty,
   loading |-> t # None, checking |-> t # None]

Init ==
  /\ stored \in {None, 1}
  /\ served \in SUBSET ({stored} \ {None}) /\ issued = stored /\ reviewed = FALSE
  /\ tab = Opened(stored) /\ view = Opened(stored)
  /\ watched = None /\ check = "none" /\ load = Idle
  /\ calls = [c \in Calls |-> Unused] /\ made = 0
  /\ entered = FALSE /\ overlap = FALSE /\ reloads = 0

InFlight(c) == calls[c] # Unused

---------------------------------------------------------------------------
(* Changes of the state                                                    *)

NoSession(s) == [s EXCEPT !.session = None, !.again = @ \/ s.session # None]

\* The session is given up: the catch handler of the check, and logout.
Cleared(s) == [NoSession(s) EXCEPT !.token = None, !.board = Empty]

SetSession(s, t) == [s EXCEPT !.session = t, !.again = TRUE]

---------------------------------------------------------------------------
(* React                                                                   *)

EffectsDue == watched # view.token \/ view.again

\* The effects of the last rendering run first.
Render ==
  /\ ~EffectsDue /\ view # tab
  /\ view' = tab
  /\ tab' = [tab EXCEPT !.again = FALSE]
  /\ UNCHANGED <<gateway, stored, effects, calls, made, entered, aux>>

\* Mutant: without a token the session is left as it is.
SessionEffectLeft(s) ==
  IF view.token = None
  THEN [s EXCEPT !.checking = FALSE, !.board = Empty]
  ELSE [s EXCEPT !.checking = TRUE]

\* The body of the session effect, of the dashboard effect, and the handlers
\* of the requests their cleanups abort.
SessionEffect(s) ==
  IF view.token = None
  THEN [NoSession(s) EXCEPT !.checking = FALSE, !.board = Empty]
  ELSE [s EXCEPT !.checking = TRUE]

DashboardEffect(s) == [s EXCEPT !.loading = @ \/ view.session # None]

CheckAborted(s) == [Cleared(s) EXCEPT !.checking = FALSE]

\* Mutant: the handlers of an aborted load return early.
LoadIgnored(s) == s

LoadAborted(s) == [s EXCEPT !.loading = FALSE]

\* The effects that are due, from state s on.
Effects(s) ==
  LET rechecks == watched # view.token
      aborts   == rechecks /\ check # "none"
      s1 == IF rechecks THEN SessionEffect(s) ELSE s
      s2 == IF view.again THEN DashboardEffect(s1) ELSE s1
      s3 == IF aborts THEN CheckAborted(s2) ELSE s2
  IN
  /\ tab' = IF view.again /\ load.phase # "none" THEN LoadAborted(s3) ELSE s3
  /\ stored' = IF aborts THEN None ELSE stored
  /\ watched' = view.token
  /\ check' = IF ~rechecks THEN check ELSE IF view.token = None THEN "none" ELSE "sent"
  /\ load' = IF ~view.again THEN load
             ELSE IF view.session = None THEN Idle
             ELSE [Idle EXCEPT !.for = view.session, !.phase = "sent"]

RunEffects ==
  /\ EffectsDue
  /\ Effects(tab)
  /\ view' = [view EXCEPT !.again = FALSE]
  /\ UNCHANGED <<gateway, calls, made, entered, aux>>

---------------------------------------------------------------------------
(* The session check and the dashboard                                     *)

ServeCheck ==
  /\ check = "sent"
  /\ check' = IF watched \in served THEN "valid" ELSE "invalid"
  /\ UNCHANGED <<gateway, stored, tab, view, watched, load, calls, made, entered, aux>>

CheckPassed ==
  /\ check = "valid"
  /\ check' = "none"
  /\ tab' = [SetSession(tab, watched) EXCEPT !.checking = FALSE]
  /\ entered' = TRUE
  /\ UNCHANGED <<gateway, stored, view, watched, load, calls, made, aux>>

\* Refused, or no address can be reached.
CheckFailed ==
  /\ check # "none"
  /\ check' = "none"
  /\ tab' = [Cleared(tab) EXCEPT !.checking = FALSE]
  /\ stored' = None
  /\ UNCHANGED <<gateway, view, watched, load, calls, made, entered, aux>>

\* The list of signup requests is read.
ServeLoad ==
  /\ load.phase = "sent" /\ load.for \in served
  /\ load' = [load EXCEPT !.phase = "read", !.reviewed = reviewed]
  /\ UNCHANGED <<gateway, stored, tab, view, watched, check, calls, made, entered, aux>>

LoadArrives ==
  /\ load.phase = "read"
  /\ load' = Idle
  /\ tab' = [tab EXCEPT !.board = [of |-> load.for, reviewed |-> load.reviewed], !.loading = FALSE]
  /\ UNCHANGED <<gateway, stored, view, watched, check, calls, made, entered, aux>>

\* Mutant: a dashboard that cannot be loaded ends the session.
LoadFailedSignsOut ==
  /\ load.phase # "none"
  /\ load' = Idle
  /\ tab' = [Cleared(tab) EXCEPT !.loading = FALSE]
  /\ stored' = None
  /\ UNCHANGED <<gateway, view, watched, check, calls, made, entered, aux>>

\* One of the six requests failed.
LoadFailed ==
  /\ load.phase # "none"
  /\ load' = Idle
  /\ tab' = [tab EXCEPT !.loading = FALSE]
  /\ UNCHANGED <<gateway, stored, view, watched, check, calls, made, entered, aux>>

---------------------------------------------------------------------------
(* The user                                                                *)

InWorkspace == view.token # None /\ view.session # None

\* The form is not shown while a session is restored, its button is disabled
\* while the tab is loading or checking.
CanSignIn == ~InWorkspace /\ ~view.loading /\ ~view.checking

Call(op, t) ==
  /\ made < MaxCalls
  /\ made' = made + 1
  /\ calls' = [calls EXCEPT ![made + 1] = [op |-> op, token |-> t, phase |-> "sent", tries |-> 1]]

\* What a handler sets at once is rendered before the next click, and the
\* effects that are due run before.
SubmitLogin ==
  /\ CanSignIn
  /\ Call("login", None)
  /\ Effects([tab EXCEPT !.loading = TRUE])
  /\ view' = [view EXCEPT !.again = FALSE, !.loading = TRUE]
  /\ overlap' = (overlap \/ tab.token # None \/ \E c \in Calls : InFlight(c) /\ calls[c].op = "login")
  /\ UNCHANGED <<gateway, entered, reloads>>

\* Nothing is set before the answer.
ClickLogout ==
  /\ InWorkspace
  /\ Call("logout", view.session)
  /\ UNCHANGED <<gateway, stored, tab, view, effects, entered, aux>>

\* The buttons of a request under review are disabled.
ClickReview ==
  /\ InWorkspace /\ view.board.of # None /\ ~view.board.reviewed
  /\ ~\E c \in Calls : InFlight(c) /\ calls[c].op = "review"
  /\ Call("review", view.session)
  /\ Effects(tab)
  /\ view' = [view EXCEPT !.again = FALSE]
  /\ UNCHANGED <<gateway, entered, aux>>

\* The browser drops what is under way.
Reload ==
  /\ reloads < MaxReloads
  /\ reloads' = reloads + 1
  /\ tab' = Opened(stored) /\ view' = Opened(stored)
  /\ watched' = None /\ check' = "none" /\ load' = Idle
  /\ calls' = [c \in Calls |-> Unused]
  /\ entered' = FALSE
  /\ UNCHANGED <<gateway, stored, made, overlap>>

---------------------------------------------------------------------------
(* The gateway                                                             *)

Reply(c, phase, t) == calls' = [calls EXCEPT ![c].phase = phase, ![c].token = t]

ServeLogin(c) ==
  /\ calls[c].op = "login" /\ calls[c].phase = "sent" /\ issued < MaxTokens
  /\ issued' = issued + 1
  /\ served' = served \union {issued + 1}
  /\ Reply(c, "done", issued + 1)
  /\ UNCHANGED <<reviewed, stored, tab, view, effects, made, entered, aux>>

ServeLogout(c) ==
  /\ calls[c].op = "logout" /\ calls[c].phase = "sent"
  /\ served' = served \ {calls[c].token}
  /\ Reply(c, "done", calls[c].token)
  /\ UNCHANGED <<issued, reviewed, stored, tab, view, effects, made, entered, aux>>

ServeReview(c) ==
  /\ calls[c].op = "review" /\ calls[c].phase = "sent" /\ calls[c].token \in served
  /\ reviewed' = TRUE
  /\ Reply(c, "done", calls[c].token)
  /\ UNCHANGED <<served, issued, stored, tab, view, effects, made, entered, aux>>

\* A session expires, or the gateway is restarted.
Expire(t) ==
  /\ t \in served
  /\ served' = served \ {t}
  /\ UNCHANGED <<issued, reviewed, stored, tab, view, effects, calls, made, entered, aux>>

---------------------------------------------------------------------------
(* The handlers of the calls                                               *)

Over(c) == calls' = [calls EXCEPT ![c] = Unused]

LoginAnswered(c) ==
  /\ calls[c].op = "login" /\ calls[c].phase = "done"
  /\ Over(c)
  /\ stored' = calls[c].token
  /\ tab' = [SetSession(tab, calls[c].token) EXCEPT !.token = calls[c].token, !.loading = FALSE]
  /\ entered' = TRUE
  /\ UNCHANGED <<gateway, view, effects, made, aux>>

LoginFailed(c) ==
  /\ calls[c].op = "login"
  /\ Over(c)
  /\ tab' = [tab EXCEPT !.loading = FALSE]
  /\ UNCHANGED <<gateway, stored, view, effects, made, entered, aux>>

\* A logout clears the tab, whatever its outcome.
LogoutEnded(c) ==
  /\ calls[c].op = "logout"
  /\ Over(c)
  /\ stored' = None
  /\ tab' = Cleared(tab)
  /\ UNCHANGED <<gateway, view, effects, made, entered, aux>>

\* The answer is merged into the dashboard that is there now.
ReviewAnswered(c) ==
  /\ calls[c].op = "review" /\ calls[c].phase = "done"
  /\ Over(c)
  /\ tab' = [tab EXCEPT !.board.reviewed = @ \/ tab.board.of # None]
  /\ UNCHANGED <<gateway, stored, view, effects, made, entered, aux>>

ReviewFailed(c) ==
  /\ calls[c].op = "review"
  /\ Over(c)
  /\ UNCHANGED <<gateway, stored, tab, view, effects, made, entered, aux>>

\* Mutant: one address too many.
RepeatMore(c) ==
  /\ InFlight(c) /\ calls[c].tries <= Candidates
  /\ calls' = [calls EXCEPT ![c].phase = "sent", ![c].tries = @ + 1]
  /\ UNCHANGED <<gateway, stored, tab, view, effects, made, entered, aux>>

\* The call is refused, or the connection broke, perhaps after it was served,
\* before an answer came: it is made again at the next address.
Repeat(c) ==
  /\ InFlight(c) /\ calls[c].tries < Candidates
  /\ calls' = [calls EXCEPT ![c].phase = "sent", ![c].tries = @ + 1,
                           ![c].token = IF calls[c].op = "login" THEN None ELSE @]
  /\ UNCHANGED <<gateway, stored, tab, view, effects, made, entered, aux>>

\* The last address failed; or the body of a good answer cannot be read, which is
\* waited for outside the loop and ends the call at once.
GiveUp(c) ==
  /\ InFlight(c)
  /\ calls[c].tries = Candidates \/ calls[c].phase = "done"
  /\ LoginFailed(c) \/ LogoutEnded(c) \/ ReviewFailed(c)

Answer(c) ==
  \/ LoginAnswered(c) \/ ReviewAnswered(c)
  \/ calls[c].phase = "done" /\ LogoutEnded(c)

---------------------------------------------------------------------------
Next ==
  \/ Render \/ RunEffects
  \/ ServeCheck \/ CheckPassed \/ CheckFailed
  \/ ServeLoad \/ LoadArrives \/ LoadFailed
  \/ SubmitLogin \/ ClickLogout \/ ClickReview \/ Reload
  \/ \E t \in Tokens : Expire(t)
  \/ \E c \in Calls :
       \/ ServeLogin(c) \/ ServeLogout(c) \/ ServeReview(c)
       \/ Answer(c) \/ Repeat(c) \/ GiveUp(c)

\* React renders and runs effects, and requests end.
Fairness ==
  /\ WF_vars(Render) /\ WF_vars(RunEffects)
  /\ WF_vars(CheckPassed \/ CheckFailed)
  /\ WF_vars(LoadArrives \/ LoadFailed)
  /\ \A c \in Calls : WF_vars(Answer(c) \/ Repeat(c) \/ GiveUp(c))

Spec == Init /\ [][Next]_vars /\ Fairness

---------------------------------------------------------------------------
(* Properties                                                              *)

\* Every variable keeps its type.
TypeOK ==
  /\ served \subseteq Tokens /\ issued \in 0 .. MaxTokens /\ reviewed \in BOOLEAN
  /\ stored \in Tokens \union {None}
  /\ tab \in TabStates /\ view \in TabStates
  /\ watched \in Tokens \union {None}
  /\ check \in {"none", "sent", "valid", "invalid"}
  /\ load \in [for : Tokens \union {None}, phase : {"none", "sent", "read"}, reviewed : BOOLEAN]
  /\ calls \in [Calls -> [op : {"none", "login", "logout", "review"}, token : Tokens \union {None},
                          phase : {"none", "sent", "done"}, tries : 0 .. Candidates]]
  /\ made \in 0 .. MaxCalls
  /\ entered \in BOOLEAN /\ overlap \in BOOLEAN /\ reloads \in 0 .. MaxReloads

\* Nothing is under way and everything is rendered.
AtRest ==
  /\ view = tab /\ ~EffectsDue
  /\ check = "none" /\ load.phase = "none"
  /\ \A c \in Calls : ~InFlight(c)

\* The parts of the tab agree on the session, and the form can be used, unless
\* the tab was loaded with a token that was then refused: "loading" is never
\* reset in that case.
Agree ==
  /\ stored = tab.token /\ tab.session = tab.token
  /\ ~tab.checking
  /\ tab.loading => ~entered

\* Whatever the order in which renderings, effects, aborts and answers happen,
\* the tab comes to rest with its parts in agreement.
Settles == []<>(AtRest /\ Agree)

\* Every such rest is one in agreement: whatever happened before, also with
\* logins that overlapped, no rest leaves a session without its token, a check
\* that is over but still shown, or a form that stays disabled after a session.
RestsInAgreement == AtRest => Agree

\* A session is given up only when a logout ends, which may be that of an earlier
\* session, when its own check fails, or when the login form was submitted
\* again before the answer to the first was rendered.
Kept ==
  [][stored # None /\ stored' = None =>
       \/ \E c \in Calls : InFlight(c) /\ calls[c].op = "logout" /\ calls'[c] = Unused
       \/ watched = stored /\ check # "none" /\ check' = "none"
       \/ overlap]_vars
=============================================================================
