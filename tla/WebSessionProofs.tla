-------------------------- MODULE WebSessionProofs --------------------------
(***************************************************************************)
(* Proofs about module WebSession, for every bound.                        *)
(***************************************************************************)
EXTENDS WebSession, TLAPS

Login(c) == calls[c].op = "login"

\* Storage and state agree on the token, and a check is of a token.
Tokened ==
  /\ stored = tab.token
  /\ check # "none" => watched # None

\* As long as no login overlaps another session, a token without a session is
\* being checked.
Checking(s) == s.token # None /\ s.session = None => s.checking

\* What was rendered or is checked is the token the tab has, or the tab has none;
\* when a rendering without a token waits for its effects, the tab has none.
Current ==
  /\ view.token # None /\ tab.token # None => view.token = tab.token
  /\ check # "none" /\ tab.token # None => watched = tab.token
  /\ view.token = None /\ watched # None => tab.token = None

\* A login that is under way is the only one, in a tab that is signed out and
\* has been rendered so.
LoginAlone ==
  \A c \in Calls : Login(c) =>
    /\ \A d \in Calls : Login(d) => c = d
    /\ tab.token = None /\ view.token = None
    /\ watched = None /\ check = "none"

Alone == Checking(tab) /\ Checking(view) /\ Current /\ LoginAlone

Core == TypeOK /\ Tokened /\ (overlap \/ Alone)

\* The answer to a login has a token.
Answered == \A c \in Calls : Login(c) /\ calls[c].phase = "done" => calls[c].token # None

IInv == Core /\ Answered

---------------------------------------------------------------------------
(* The changes of the state                                                *)

\* The changes a handler or an effect makes keep the type of the state.
LEMMA ChangesTyped ==
  ASSUME NEW s \in TabStates
  PROVE  /\ NoSession(s) \in TabStates /\ Cleared(s) \in TabStates
         /\ \A t \in Tokens : SetSession(s, t) \in TabStates
         /\ \A b \in BOOLEAN : [s EXCEPT !.loading = b] \in TabStates
         /\ \A b \in BOOLEAN : [s EXCEPT !.checking = b] \in TabStates
         /\ \A b \in BOOLEAN : [s EXCEPT !.again = b] \in TabStates
<1>1. Empty \in Boards
  BY DEF Empty, Boards
<1>2. NoSession(s) \in TabStates
  BY DEF NoSession, TabStates
<1>3. Cleared(s) \in TabStates
  BY <1>1, <1>2 DEF Cleared, TabStates
<1>4. \A t \in Tokens : SetSession(s, t) \in TabStates
  BY DEF SetSession, TabStates
<1>5. \A b \in BOOLEAN : [s EXCEPT !.loading = b] \in TabStates
  BY DEF TabStates
<1>6. \A b \in BOOLEAN : [s EXCEPT !.checking = b] \in TabStates
  BY DEF TabStates
<1>7. \A b \in BOOLEAN : [s EXCEPT !.again = b] \in TabStates
  BY DEF TabStates
<1> QED
  BY <1>2, <1>3, <1>4, <1>5, <1>6, <1>7

\* The token of a session that is given up, and of one that is not.
LEMMA ChangesTokens ==
  ASSUME NEW s \in TabStates
  PROVE  /\ NoSession(s).token = s.token /\ NoSession(s).session = None
         /\ NoSession(s).checking = s.checking
         /\ Cleared(s).token = None /\ Cleared(s).session = None
         /\ \A t \in Tokens : /\ SetSession(s, t).token = s.token
                               /\ SetSession(s, t).session = t
                               /\ SetSession(s, t).checking = s.checking
BY DEF NoSession, Cleared, SetSession, TabStates

LEMMA InitHolds == Init => Core
<1> SUFFICES ASSUME Init PROVE Core
  OBVIOUS
<1>1. None \notin Tokens /\ 1 \in Tokens
  BY BoundsAssumption DEF None, Tokens
<1>2. stored \in Tokens \union {None} /\ issued \in 0 .. MaxTokens
  BY <1>1, BoundsAssumption DEF Init, None
<1>3. Opened(stored) \in TabStates
  BY <1>2 DEF Opened, TabStates, Boards, Empty
<1>4. calls \in [Calls -> [op : {"none", "login", "logout", "review"}, token : Tokens \union {None},
                          phase : {"none", "sent", "done"}, tries : 0 .. Candidates]]
  BY BoundsAssumption DEF Init, Unused
<1>5. load \in [for : Tokens \union {None}, phase : {"none", "sent", "read"}, reviewed : BOOLEAN]
  BY DEF Init, Idle
<1>6. served \subseteq Tokens
  BY <1>2 DEF Init
<1>7. TypeOK
  <2>1. made \in 0 .. MaxCalls /\ reloads \in 0 .. MaxReloads
    BY BoundsAssumption DEF Init
  <2>2. /\ reviewed \in BOOLEAN /\ entered \in BOOLEAN /\ overlap \in BOOLEAN
        /\ tab \in TabStates /\ view \in TabStates
        /\ watched \in Tokens \union {None} /\ check \in {"none", "sent", "valid", "invalid"}
    BY <1>3 DEF Init
  <2> QED
    BY <1>2, <1>4, <1>5, <1>6, <2>1, <2>2 DEF TypeOK
<1>8. Tokened
  BY DEF Init, Tokened, Opened
<1>9. Checking(tab) /\ Checking(view) /\ Current
  BY DEF Init, Checking, Current, Opened
<1>10. LoginAlone
  BY DEF Init, LoginAlone, Login, Unused
<1> QED
  BY <1>7, <1>8, <1>9, <1>10 DEF Core, Alone

---------------------------------------------------------------------------
(* Effects                                                                 *)

\* What the effects of a rendering leave, from a state s that differs from the
\* tab in nothing the session depends on.
LEMMA EffectsFacts ==
  ASSUME Core, NEW s \in TabStates, Effects(s),
         s.token = tab.token, s.session = tab.session, s.checking = tab.checking
  PROVE  /\ tab' \in TabStates /\ stored' \in Tokens \union {None}
         /\ watched' = view.token /\ check' \in {"none", "sent", "valid", "invalid"}
         /\ load' \in [for : Tokens \union {None}, phase : {"none", "sent", "read"}, reviewed : BOOLEAN]
         /\ stored' = tab'.token
         /\ check' # "none" => watched' # None
         /\ Alone => Checking(tab') /\ tab'.token \in {tab.token, None}
         /\ Alone /\ stored # None => stored' # None
<1> USE DEF Core
<1> DEFINE rechecks == watched # view.token
           aborts   == rechecks /\ check # "none"
           s1 == IF rechecks THEN SessionEffect(s) ELSE s
           s2 == IF view.again THEN DashboardEffect(s1) ELSE s1
           s3 == IF aborts THEN CheckAborted(s2) ELSE s2
<1>1. /\ tab' = IF view.again /\ load.phase # "none" THEN LoadAborted(s3) ELSE s3
      /\ stored' = IF aborts THEN None ELSE stored
      /\ watched' = view.token
      /\ check' = IF ~rechecks THEN check ELSE IF view.token = None THEN "none" ELSE "sent"
      /\ load' = IF ~view.again THEN load
                 ELSE IF view.session = None THEN Idle
                 ELSE [Idle EXCEPT !.for = view.session, !.phase = "sent"]
  BY DEF Effects
<1>2. /\ tab \in TabStates /\ view \in TabStates /\ stored = tab.token
      /\ watched \in Tokens \union {None} /\ check \in {"none", "sent", "valid", "invalid"}
      /\ check # "none" => watched # None
  BY DEF TypeOK, Tokened
<1>3. s1 \in TabStates /\ s1.token = s.token
  <2>1. CASE ~rechecks
    BY <2>1
  <2>2. CASE rechecks /\ view.token # None
    BY <2>2 DEF SessionEffect, TabStates
  <2>3. CASE rechecks /\ view.token = None
    <3>1. NoSession(s) \in TabStates /\ NoSession(s).token = s.token
      BY ChangesTyped, ChangesTokens
    <3>2. SessionEffect(s) = [NoSession(s) EXCEPT !.checking = FALSE, !.board = Empty]
      BY <2>3 DEF SessionEffect
    <3>3. Empty \in Boards
      BY DEF Empty, Boards
    <3> HIDE DEF s1
    <3>4. s1 = SessionEffect(s)
      BY <2>3 DEF s1
    <3> QED
      BY <3>1, <3>2, <3>3, <3>4 DEF TabStates
  <2> QED
    BY <2>1, <2>2, <2>3
<1>4. s2 \in TabStates /\ s2.token = s1.token /\ s2.session = s1.session /\ s2.checking = s1.checking
  <2> HIDE DEF s1
  <2> QED
    BY <1>3 DEF DashboardEffect, TabStates
<1>5. /\ s3 \in TabStates
      /\ aborts => s3.token = None
      /\ ~aborts => s3 = s2
  <2> HIDE DEF s2
  <2>1. Cleared(s2) \in TabStates /\ Cleared(s2).token = None
    BY <1>4, ChangesTyped, ChangesTokens
  <2>2. CheckAborted(s2) \in TabStates /\ CheckAborted(s2).token = None
    BY <2>1 DEF CheckAborted, TabStates
  <2> QED
    BY <1>4, <2>2
<1>6. tab' \in TabStates /\ tab'.token = s3.token /\ tab'.session = s3.session /\ tab'.checking = s3.checking
  <2> HIDE DEF s3
  <2> QED
    BY <1>1, <1>5 DEF LoadAborted, TabStates
<1>7. load' \in [for : Tokens \union {None}, phase : {"none", "sent", "read"}, reviewed : BOOLEAN]
  <2>1. view.session \in Tokens \union {None}
    BY <1>2 DEF TabStates
  <2> QED
    BY <1>1, <2>1 DEF TypeOK, Idle
<1>8. stored' = tab'.token
  <2> HIDE DEF s1, s2, s3
  <2> QED
    BY <1>1, <1>2, <1>3, <1>4, <1>5, <1>6
<1>9. check' # "none" => watched' # None
  BY <1>1, <1>2
<1>10. ASSUME Alone
       PROVE  /\ Checking(tab') /\ tab'.token \in {tab.token, None}
              /\ stored # None => stored' # None
  <2>1. aborts => tab.token = None
    BY <1>2, <1>10 DEF Alone, Current
  <2>2. ~aborts => Checking(s1)
    <3>1. CASE ~rechecks
      BY <3>1, <1>10 DEF Alone, Checking
    <3>2. CASE rechecks /\ view.token # None
      BY <3>2 DEF SessionEffect, TabStates, Checking
    <3>3. CASE rechecks /\ view.token = None
      BY <3>3, <1>3, <1>10 DEF Alone, Current, Checking
    <3> QED
      BY <3>1, <3>2, <3>3
  <2> HIDE DEF s1, s2, s3
  <2>3. Checking(tab')
    BY <2>2, <1>4, <1>5, <1>6 DEF Checking
  <2>4. tab'.token \in {tab.token, None}
    BY <1>3, <1>4, <1>5, <1>6
  <2> QED
    BY <1>1, <1>2, <2>1, <2>3, <2>4
<1> HIDE DEF Core
<1>11. stored' \in Tokens \union {None}
  BY <1>6, <1>8 DEF TabStates
<1> QED
  BY <1>1, <1>2, <1>6, <1>7, <1>8, <1>9, <1>10, <1>11

---------------------------------------------------------------------------
(* The steps                                                               *)

CallType == [op : {"none", "login", "logout", "review"}, token : Tokens \union {None},
             phase : {"none", "sent", "done"}, tries : 0 .. Candidates]

\* A step that leaves the session alone and starts no login keeps what is said
\* of one.
LEMMA AloneKept ==
  ASSUME Alone, UNCHANGED <<tab, view, watched, check>>,
         \A c \in Calls : Login(c)' => Login(c)
  PROVE  Alone'
BY DEF Alone, Checking, Current, LoginAlone

\* A call that is answered, or made again, stays a call.
LEMMA ReplyTyped ==
  ASSUME calls \in [Calls -> CallType], NEW c \in Calls,
         NEW p \in {"none", "sent", "done"}, NEW t \in Tokens \union {None}, Reply(c, p, t)
  PROVE  calls' \in [Calls -> CallType]
<1> DEFINE k == [calls[c] EXCEPT !.phase = p, !.token = t]
<1>1. k \in CallType
  BY DEF CallType
<1>2. calls' = [calls EXCEPT ![c] = k]
  BY DEF Reply
<1> QED
  BY <1>1, <1>2

\* Gateway and failing calls.
LEMMA QuietSteps ==
  ASSUME Core, NEW c \in Calls, NEW t \in Tokens,
         \/ ServeLogin(c) \/ ServeLogout(c) \/ ServeReview(c) \/ Expire(t)
         \/ Repeat(c) \/ ReviewFailed(c)
  PROVE  Core'
<1> USE DEF Core, TypeOK
<1>1. CASE ServeLogin(c)
  <2>1. issued + 1 \in Tokens /\ issued' \in 0 .. MaxTokens
    BY <1>1, BoundsAssumption DEF ServeLogin, Tokens
  <2>0. Reply(c, "done", issued + 1)
    BY <1>1 DEF ServeLogin
  <2>2. calls' \in [Calls -> CallType]
    BY <2>0, <2>1, ReplyTyped DEF CallType
  <2>3. \A d \in Calls : Login(d)' => Login(d)
    BY <1>1 DEF ServeLogin, Reply, Login
  <2>4. TypeOK'
    BY <1>1, <2>1, <2>2 DEF ServeLogin, gateway, effects, aux, CallType
  <2> QED
    BY <1>1, <2>3, <2>4, AloneKept DEF ServeLogin, effects, aux, Tokened
<1>2. CASE ServeLogout(c)
  <2>0. Reply(c, "done", calls[c].token) /\ calls[c].token \in Tokens \union {None}
    BY <1>2 DEF ServeLogout
  <2>2. calls' \in [Calls -> CallType]
    BY <2>0, ReplyTyped DEF CallType
  <2>3. \A d \in Calls : Login(d)' => Login(d)
    BY <1>2 DEF ServeLogout, Reply, Login
  <2>4. TypeOK'
    BY <1>2, <2>2 DEF ServeLogout, effects, aux, CallType
  <2> QED
    BY <1>2, <2>3, <2>4, AloneKept DEF ServeLogout, effects, aux, Tokened
<1>3. CASE ServeReview(c)
  <2>0. Reply(c, "done", calls[c].token) /\ calls[c].token \in Tokens \union {None}
    BY <1>3 DEF ServeReview
  <2>2. calls' \in [Calls -> CallType]
    BY <2>0, ReplyTyped DEF CallType
  <2>3. \A d \in Calls : Login(d)' => Login(d)
    BY <1>3 DEF ServeReview, Reply, Login
  <2>4. TypeOK'
    BY <1>3, <2>2 DEF ServeReview, effects, aux, CallType
  <2> QED
    BY <1>3, <2>3, <2>4, AloneKept DEF ServeReview, effects, aux, Tokened
<1>4. CASE Expire(t)
  <2>1. TypeOK'
    BY <1>4 DEF Expire, effects, aux
  <2>2. \A d \in Calls : Login(d)' => Login(d)
    BY <1>4 DEF Expire, Login
  <2> QED
    BY <1>4, <2>1, <2>2, AloneKept DEF Expire, effects, aux, Tokened
<1>5. CASE Repeat(c)
  <2>0. calls[c].tries \in 0 .. Candidates /\ calls[c].tries < Candidates
    BY <1>5 DEF Repeat
  <2>1. calls[c].tries + 1 \in 0 .. Candidates
    BY <2>0, BoundsAssumption
  <2>2. calls' \in [Calls -> CallType]
    BY <1>5, <2>1 DEF Repeat, CallType
  <2>3. \A d \in Calls : Login(d)' => Login(d)
    BY <1>5 DEF Repeat, Login
  <2>4. TypeOK'
    BY <1>5, <2>2 DEF Repeat, gateway, effects, aux, CallType
  <2> QED
    BY <1>5, <2>3, <2>4, AloneKept DEF Repeat, effects, aux, Tokened
<1>6. CASE ReviewFailed(c)
  <2>1. Unused \in CallType
    BY BoundsAssumption DEF Unused, CallType
  <2>2. calls' \in [Calls -> CallType]
    BY <1>6, <2>1 DEF ReviewFailed, Over, CallType
  <2>3. \A d \in Calls : Login(d)' => Login(d)
    BY <1>6 DEF ReviewFailed, Over, Login, Unused
  <2>4. TypeOK'
    BY <1>6, <2>2 DEF ReviewFailed, gateway, effects, aux, CallType
  <2> QED
    BY <1>6, <2>3, <2>4, AloneKept DEF ReviewFailed, effects, aux, Tokened
<1> QED
  BY <1>1, <1>2, <1>3, <1>4, <1>5, <1>6

\* Rendering and the requests of the effects.
LEMMA TabSteps ==
  ASSUME Core,
         \/ Render \/ ServeCheck \/ CheckPassed \/ CheckFailed
         \/ ServeLoad \/ LoadArrives \/ LoadFailed
  PROVE  Core'
<1> USE DEF Core
<1>0. /\ tab \in TabStates /\ view \in TabStates
      /\ watched \in Tokens \union {None}
  BY DEF TypeOK
<1>1. CASE Render
  <2>1. [tab EXCEPT !.again = FALSE] \in TabStates
    BY <1>0, ChangesTyped
  <2>2. TypeOK'
    BY <1>1, <1>0, <2>1 DEF Render, TypeOK, gateway, effects, aux
  <2>3. tab'.token = tab.token /\ tab'.session = tab.session /\ tab'.checking = tab.checking
    BY <1>1, <1>0 DEF Render, TabStates
  <2>4. Tokened'
    BY <1>1, <2>3 DEF Render, Tokened, effects
  <2>5. Alone => Alone'
    BY <1>1, <2>3 DEF Render, effects, Alone, Checking, Current, LoginAlone, Login
  <2> QED
    BY <1>1, <2>2, <2>4, <2>5 DEF Render, aux
<1>2. CASE ServeCheck
  <2>1. TypeOK'
    BY <1>2 DEF ServeCheck, TypeOK, gateway, aux
  <2>2. Tokened' /\ (Alone => Alone')
    BY <1>2 DEF ServeCheck, Tokened, Alone, Checking, Current, LoginAlone, Login
  <2> QED
    BY <1>2, <2>1, <2>2 DEF ServeCheck, aux
<1>3. CASE CheckPassed
  <2>1. watched \in Tokens
    BY <1>3, <1>0 DEF CheckPassed, Tokened
  <2>2. SetSession(tab, watched) \in TabStates
    BY <1>0, <2>1, ChangesTyped
  <2>3. tab' \in TabStates
    BY <1>3, <2>2, ChangesTyped DEF CheckPassed
  <2>4. None \notin Tokens
    BY DEF None, Tokens
  <2>5. tab'.token = tab.token /\ tab'.session # None
    BY <1>3, <1>0, <2>1, <2>2, <2>4, ChangesTokens DEF CheckPassed, TabStates
  <2>6. TypeOK'
    BY <1>3, <2>3 DEF CheckPassed, TypeOK, gateway, aux
  <2>7. Tokened' /\ (Alone => Alone')
    BY <1>3, <2>5 DEF CheckPassed, Tokened, Alone, Checking, Current, LoginAlone, Login
  <2> QED
    BY <1>3, <2>6, <2>7 DEF CheckPassed, aux
<1>4. CASE CheckFailed
  <2>1. Cleared(tab) \in TabStates
    BY <1>0, ChangesTyped
  <2>2. tab' \in TabStates
    BY <1>4, <2>1, ChangesTyped DEF CheckFailed
  <2>3. tab'.token = None
    BY <1>4, <1>0, <2>1, ChangesTokens DEF CheckFailed, TabStates
  <2>4. TypeOK'
    BY <1>4, <2>2 DEF CheckFailed, TypeOK, gateway, aux
  <2>5. Tokened' /\ (Alone => Alone')
    BY <1>4, <2>3 DEF CheckFailed, Tokened, Alone, Checking, Current, LoginAlone, Login
  <2> QED
    BY <1>4, <2>4, <2>5 DEF CheckFailed, aux
<1>5. CASE ServeLoad \/ LoadArrives \/ LoadFailed
  <2>1. Idle \in [for : Tokens \union {None}, phase : {"none", "sent", "read"}, reviewed : BOOLEAN]
    BY DEF Idle
  <2>2. /\ load' \in [for : Tokens \union {None}, phase : {"none", "sent", "read"}, reviewed : BOOLEAN]
        /\ tab' \in TabStates
        /\ tab'.token = tab.token /\ tab'.session = tab.session /\ tab'.checking = tab.checking
    <3>1. CASE ServeLoad
      BY <3>1, <1>0 DEF ServeLoad, TypeOK
    <3>2. CASE LoadArrives
      BY <3>2, <1>0, <2>1 DEF LoadArrives, TypeOK, TabStates, Boards
    <3>3. CASE LoadFailed
      BY <3>3, <1>0, <2>1 DEF LoadFailed, TabStates
    <3> QED
      BY <1>5, <3>1, <3>2, <3>3
  <2>3. UNCHANGED <<gateway, stored, view, watched, check, calls, made, entered, aux>>
    BY <1>5 DEF ServeLoad, LoadArrives, LoadFailed
  <2>4. TypeOK'
    BY <2>2, <2>3 DEF TypeOK, gateway, aux
  <2>5. Tokened' /\ (Alone => Alone')
    BY <2>2, <2>3 DEF Tokened, Alone, Checking, Current, LoginAlone, Login
  <2> QED
    BY <2>3, <2>4, <2>5 DEF aux
<1> QED
  BY <1>1, <1>2, <1>3, <1>4, <1>5

\* A session that ends, and the answers to the calls.
LEMMA AnswerSteps ==
  ASSUME Core, Answered, NEW c \in Calls,
         LoginAnswered(c) \/ LoginFailed(c) \/ LogoutEnded(c) \/ ReviewAnswered(c)
  PROVE  Core'
<1> USE DEF Core
<1>1. /\ tab \in TabStates /\ view \in TabStates /\ calls \in [Calls -> CallType]
      /\ watched \in Tokens \union {None}
  BY DEF TypeOK, CallType
<1>2. Unused \in CallType /\ Unused.op = "none"
  BY BoundsAssumption DEF Unused, CallType
<1>3. Over(c)
  BY DEF LoginAnswered, LoginFailed, LogoutEnded, ReviewAnswered
<1>4. calls' \in [Calls -> CallType] /\ ~Login(c)'
      /\ \A d \in Calls : Login(d)' => Login(d)
  BY <1>1, <1>2, <1>3 DEF Over, Login
<1>5. CASE LoginAnswered(c)
  <2>1. calls[c].token \in Tokens /\ Login(c)
    BY <1>1, <1>5 DEF LoginAnswered, Answered, Login, CallType
  <2> DEFINE t == calls[c].token
             s == SetSession(tab, t)
  <2>2. t \in Tokens /\ t # None
    BY <2>1 DEF None, Tokens
  <2> HIDE DEF t
  <2>3. s \in TabStates /\ s.session = t
    BY <1>1, <2>2, ChangesTyped, ChangesTokens
  <2>4. tab' = [s EXCEPT !.token = t, !.loading = FALSE] /\ stored' = t
    BY <1>5 DEF LoginAnswered, t
  <2> HIDE DEF s
  <2>5. tab' \in TabStates /\ tab'.token = t /\ tab'.session = t
    BY <2>2, <2>3, <2>4 DEF TabStates
  <2>6. TypeOK'
    BY <1>4, <1>5, <2>2, <2>4, <2>5 DEF LoginAnswered, TypeOK, gateway, effects, aux, CallType
  <2>7. Tokened'
    BY <1>5, <2>4, <2>5 DEF LoginAnswered, effects, Tokened
  <2>8. ASSUME Alone PROVE Alone'
    <3>1. view.token = None /\ watched = None /\ check = "none" /\ \A d \in Calls : Login(d) => c = d
      BY <2>1, <2>8 DEF Alone, LoginAlone
    <3>2. Checking(tab') /\ Checking(view)' /\ Current'
      BY <1>5, <2>2, <2>5, <2>8, <3>1 DEF LoginAnswered, effects, Alone, Checking, Current
    <3>3. LoginAlone'
      BY <1>4, <3>1 DEF LoginAlone
    <3> QED
      BY <3>2, <3>3 DEF Alone, Checking
  <2> QED
    BY <1>5, <2>6, <2>7, <2>8 DEF LoginAnswered, aux
<1>6. CASE LoginFailed(c)
  <2>1. tab' \in TabStates
    BY <1>1, <1>6, ChangesTyped DEF LoginFailed
  <2>2. tab'.token = tab.token /\ tab'.session = tab.session /\ tab'.checking = tab.checking
    BY <1>1, <1>6 DEF LoginFailed, TabStates
  <2>3. TypeOK'
    BY <1>4, <1>6, <2>1 DEF LoginFailed, TypeOK, gateway, effects, aux, CallType
  <2>4. Tokened' /\ (Alone => Alone')
    BY <1>4, <1>6, <2>2 DEF LoginFailed, effects, Tokened, Alone, Checking, Current, LoginAlone
  <2> QED
    BY <1>6, <2>3, <2>4 DEF LoginFailed, aux
<1>7. CASE LogoutEnded(c)
  <2>1. tab' \in TabStates /\ tab'.token = None /\ stored' = None
    BY <1>1, <1>7, ChangesTyped, ChangesTokens DEF LogoutEnded
  <2>2. TypeOK'
    BY <1>4, <1>7, <2>1 DEF LogoutEnded, TypeOK, gateway, effects, aux, CallType
  <2>3. Tokened' /\ (Alone => Alone')
    BY <1>4, <1>7, <2>1 DEF LogoutEnded, effects, Tokened, Alone, Checking, Current, LoginAlone
  <2> QED
    BY <1>7, <2>2, <2>3 DEF LogoutEnded, aux
<1>8. CASE ReviewAnswered(c)
  <2>1. tab' \in TabStates
    BY <1>1, <1>8 DEF ReviewAnswered, TabStates, Boards
  <2>2. tab'.token = tab.token /\ tab'.session = tab.session /\ tab'.checking = tab.checking
    BY <1>1, <1>8 DEF ReviewAnswered, TabStates
  <2>3. TypeOK'
    BY <1>4, <1>8, <2>1 DEF ReviewAnswered, TypeOK, gateway, effects, aux, CallType
  <2>4. Tokened' /\ (Alone => Alone')
    BY <1>4, <1>8, <2>2 DEF ReviewAnswered, effects, Tokened, Alone, Checking, Current, LoginAlone
  <2> QED
    BY <1>8, <2>3, <2>4 DEF ReviewAnswered, aux
<1> QED
  BY <1>5, <1>6, <1>7, <1>8

\* What the user does.  A click runs the effects that are due.
LEMMA ClickSteps ==
  ASSUME Core, ClickLogout \/ ClickReview \/ SubmitLogin \/ RunEffects \/ Reload
  PROVE  Core'
<1> USE DEF Core
<1>1. /\ tab \in TabStates /\ view \in TabStates /\ calls \in [Calls -> CallType]
      /\ stored \in Tokens \union {None} /\ made \in 0 .. MaxCalls
  BY DEF TypeOK, CallType
<1>2. ASSUME NEW op \in {"login", "logout", "review"}, NEW t \in Tokens \union {None}, Call(op, t)
      PROVE  /\ calls' \in [Calls -> CallType] /\ made' \in 0 .. MaxCalls
             /\ made + 1 \in Calls
             /\ calls' = [calls EXCEPT ![made + 1] = [op |-> op, token |-> t, phase |-> "sent", tries |-> 1]]
  <2>1. made' \in 0 .. MaxCalls /\ made + 1 \in Calls
    BY <1>1, <1>2, BoundsAssumption DEF Call, Calls
  <2>2. [op |-> op, token |-> t, phase |-> "sent", tries |-> 1] \in CallType
    BY <1>2, BoundsAssumption DEF CallType
  <2> QED
    BY <1>1, <1>2, <2>1, <2>2 DEF Call
<1>3. view.session \in Tokens \union {None}
  BY <1>1 DEF TabStates
<1>4. CASE ClickLogout
  <2>1. /\ calls' \in [Calls -> CallType] /\ made' \in 0 .. MaxCalls
        /\ calls' = [calls EXCEPT ![made + 1] = [op |-> "logout", token |-> view.session, phase |-> "sent", tries |-> 1]]
    BY <1>2, <1>3, <1>4 DEF ClickLogout
  <2>2. \A c \in Calls : Login(c)' => Login(c)
    BY <1>1, <2>1 DEF Login
  <2>3. TypeOK'
    BY <1>4, <2>1 DEF ClickLogout, TypeOK, gateway, effects, aux, CallType
  <2> QED
    BY <1>4, <2>2, <2>3, AloneKept DEF ClickLogout, effects, aux, Tokened
\* Effects that run leave the token alone, or clear it.
<1>5. ASSUME NEW s \in TabStates, Effects(s), view' \in TabStates,
             s.token = tab.token, s.session = tab.session, s.checking = tab.checking,
             view'.token = view.token, view'.session = view.session, view'.checking = view.checking
      PROVE  /\ Tokened'
             /\ tab' \in TabStates /\ view' \in TabStates /\ stored' \in Tokens \union {None}
             /\ watched' \in Tokens \union {None} /\ check' \in {"none", "sent", "valid", "invalid"}
             /\ load' \in [for : Tokens \union {None}, phase : {"none", "sent", "read"}, reviewed : BOOLEAN]
             /\ Alone => /\ Checking(tab)' /\ Checking(view)' /\ Current'
                         /\ tab.token = None => tab'.token = None
                         /\ view.token = None => watched' = None /\ check' = "none"
  <2>1. /\ watched' = view.token /\ stored' = tab'.token /\ (check' # "none" => watched' # None)
        /\ Alone => Checking(tab') /\ tab'.token \in {tab.token, None}
        /\ tab' \in TabStates /\ stored' \in Tokens \union {None}
        /\ check' \in {"none", "sent", "valid", "invalid"}
        /\ load' \in [for : Tokens \union {None}, phase : {"none", "sent", "read"}, reviewed : BOOLEAN]
    BY <1>5, EffectsFacts
  <2>2. view.token \in Tokens \union {None}
    BY <1>1 DEF TabStates
  <2> QED
    BY <1>5, <2>1, <2>2 DEF Tokened, Alone, Checking, Current
<1>6. [view EXCEPT !.again = FALSE] \in TabStates
  BY <1>1, ChangesTyped
<1>7. CASE RunEffects
  <2>1. /\ view' \in TabStates /\ view'.token = view.token /\ view'.session = view.session
        /\ view'.checking = view.checking
    BY <1>1, <1>6, <1>7 DEF RunEffects, TabStates
  <2>2. TypeOK'
    BY <1>1, <1>5, <1>7, <2>1 DEF RunEffects, TypeOK, gateway, aux
  <2>3. Tokened' /\ (Alone => Checking(tab)' /\ Checking(view)' /\ Current')
    BY <1>1, <1>5, <1>7, <2>1 DEF RunEffects
  <2>4. Alone => LoginAlone'
    BY <1>1, <1>5, <1>7, <2>1 DEF RunEffects, Alone, LoginAlone, Login
  <2> QED
    BY <1>7, <2>2, <2>3, <2>4 DEF RunEffects, aux, Alone
<1>8. CASE ClickReview
  <2>1. /\ view' \in TabStates /\ view'.token = view.token /\ view'.session = view.session
        /\ view'.checking = view.checking
    BY <1>1, <1>6, <1>8 DEF ClickReview, TabStates
  <2>2. /\ calls' \in [Calls -> CallType] /\ made' \in 0 .. MaxCalls
        /\ calls' = [calls EXCEPT ![made + 1] = [op |-> "review", token |-> view.session, phase |-> "sent", tries |-> 1]]
    BY <1>2, <1>3, <1>8 DEF ClickReview
  <2>3. \A c \in Calls : Login(c)' => Login(c)
    BY <1>1, <2>2 DEF Login
  <2>4. TypeOK'
    BY <1>1, <1>5, <1>8, <2>1, <2>2 DEF ClickReview, TypeOK, gateway, aux, CallType
  <2>5. Tokened' /\ (Alone => Checking(tab)' /\ Checking(view)' /\ Current')
    BY <1>1, <1>5, <1>8, <2>1 DEF ClickReview
  <2>6. Alone => LoginAlone'
    BY <1>1, <1>5, <1>8, <2>1, <2>3 DEF ClickReview, Alone, LoginAlone
  <2> QED
    BY <1>8, <2>4, <2>5, <2>6 DEF ClickReview, aux, Alone
<1>9. CASE SubmitLogin
  <2> DEFINE s == [tab EXCEPT !.loading = TRUE]
  <2>1. /\ s \in TabStates /\ s.token = tab.token /\ s.session = tab.session /\ s.checking = tab.checking
        /\ Effects(s)
    BY <1>1, <1>9, ChangesTyped DEF SubmitLogin, TabStates
  <2> HIDE DEF s
  <2>2. /\ view' \in TabStates /\ view'.token = view.token /\ view'.session = view.session
        /\ view'.checking = view.checking
    BY <1>1, <1>9 DEF SubmitLogin, TabStates
  <2>3. /\ calls' \in [Calls -> CallType] /\ made' \in 0 .. MaxCalls /\ made + 1 \in Calls
        /\ calls' = [calls EXCEPT ![made + 1] = [op |-> "login", token |-> None, phase |-> "sent", tries |-> 1]]
    BY <1>2, <1>9 DEF SubmitLogin
  <2>4. overlap' \in BOOLEAN
    BY <1>9 DEF SubmitLogin, TypeOK
  <2>5. TypeOK'
    BY <1>5, <1>9, <2>1, <2>2, <2>3, <2>4 DEF SubmitLogin, TypeOK, gateway, CallType
  <2>6. Tokened' /\ (Alone => Checking(tab)' /\ Checking(view)' /\ Current')
    BY <1>5, <2>1, <2>2
  <2>7. ASSUME ~overlap' PROVE Alone'
    <3>1. Alone /\ tab.token = None /\ \A c \in Calls : ~Login(c)
      <4>1. ~(overlap \/ tab.token # None \/ \E c \in Calls : InFlight(c) /\ calls[c].op = "login")
        BY <1>9, <2>7 DEF SubmitLogin
      <4>2. \A c \in Calls : Login(c) => InFlight(c)
        BY DEF Login, InFlight, Unused
      <4> QED
        BY <4>1, <4>2 DEF Login
    <3>2. view.token = None
      BY <1>9, <3>1 DEF SubmitLogin, CanSignIn, InWorkspace, Alone, Checking
    <3>3. tab'.token = None /\ view'.token = None /\ watched' = None /\ check' = "none"
      BY <1>5, <2>1, <2>2, <3>1, <3>2
    <3>4. \A c \in Calls : Login(c)' => c = made + 1
      BY <1>1, <2>3, <3>1 DEF Login
    <3> QED
      BY <2>6, <3>1, <3>3, <3>4 DEF Alone, LoginAlone
  <2> QED
    BY <2>5, <2>6, <2>7
<1>10. CASE Reload
  <2>1. Opened(stored) \in TabStates
    BY <1>1 DEF Opened, TabStates, Boards, Empty
  <2>2. Unused \in CallType
    BY BoundsAssumption DEF Unused, CallType
  <2>3. calls' \in [Calls -> CallType]
    BY <1>10, <2>2 DEF Reload
  <2>4. reloads' \in 0 .. MaxReloads
    BY <1>10, BoundsAssumption DEF Reload, TypeOK
  <2>5. TypeOK'
    BY <1>10, <2>1, <2>3, <2>4 DEF Reload, TypeOK, gateway, Idle, CallType
  <2>6. Tokened'
    BY <1>10 DEF Reload, Tokened, Opened
  <2>7. Alone'
    BY <1>10 DEF Reload, Alone, Checking, Current, LoginAlone, Login, Opened, Unused
  <2> QED
    BY <2>5, <2>6, <2>7
<1> QED
  BY <1>4, <1>7, <1>8, <1>9, <1>10

\* Only ServeLogin answers a login, with a new token.
LEMMA AnsweredKept ==
  ASSUME TypeOK, Answered, [Next]_vars
  PROVE  Answered'
<1> USE DEF Answered, Login
<1>0. calls \in [Calls -> CallType]
  BY DEF TypeOK, CallType
<1>1. CASE UNCHANGED calls
  BY <1>1
<1>2. ASSUME NEW op, NEW t, Call(op, t)
      PROVE  Answered'
  <2> DEFINE new == [op |-> op, token |-> t, phase |-> "sent", tries |-> 1]
  <2>1. calls' = [calls EXCEPT ![made + 1] = new] /\ new.phase = "sent"
    BY <1>2 DEF Call
  <2> HIDE DEF new
  <2>2. \A c \in Calls : calls'[c] = calls[c] \/ calls'[c] = new
    BY <1>0, <2>1
  <2> QED
    BY <2>1, <2>2
<1>3. ASSUME NEW c \in Calls, Over(c)
      PROVE  Answered'
  BY <1>0, <1>3 DEF Over, Unused
<1>4. ASSUME NEW c \in Calls, ServeLogin(c)
      PROVE  Answered'
  <2>1. issued + 1 # None
    BY DEF TypeOK, None
  <2> QED
    BY <1>0, <1>4, <2>1 DEF ServeLogin, Reply
<1>5. ASSUME NEW c \in Calls, ServeLogout(c) \/ ServeReview(c)
      PROVE  Answered'
  <2>1. calls[c].op # "login" /\ Reply(c, "done", calls[c].token)
    BY <1>5 DEF ServeLogout, ServeReview
  <2>2. \A d \in Calls : calls'[d].op = calls[d].op /\ (d # c => calls'[d] = calls[d])
    BY <1>0, <2>1 DEF Reply, CallType
  <2> QED
    BY <2>1, <2>2
<1>6. ASSUME NEW c \in Calls, Repeat(c)
      PROVE  Answered'
  BY <1>0, <1>6 DEF Repeat
<1>7. CASE Reload
  BY <1>7 DEF Reload, Unused
<1>8. CASE UNCHANGED vars
  BY <1>1, <1>8 DEF vars
<1>9. ASSUME NEW c \in Calls, Answer(c) \/ GiveUp(c)
      PROVE  Answered'
  BY <1>3, <1>9 DEF Answer, GiveUp, LoginAnswered, LoginFailed, LogoutEnded, ReviewAnswered, ReviewFailed
<1>10. CASE SubmitLogin \/ ClickLogout \/ ClickReview
  BY <1>2, <1>10 DEF SubmitLogin, ClickLogout, ClickReview
<1>11. CASE \/ Render \/ RunEffects \/ ServeCheck \/ CheckPassed \/ CheckFailed
            \/ ServeLoad \/ LoadArrives \/ LoadFailed
  BY <1>1, <1>11 DEF Render, RunEffects, ServeCheck, CheckPassed, CheckFailed, ServeLoad, LoadArrives, LoadFailed
<1>12. ASSUME NEW t \in Tokens, Expire(t)
       PROVE  Answered'
  BY <1>1, <1>12 DEF Expire
<1> QED
  BY <1>4, <1>5, <1>6, <1>7, <1>8, <1>9, <1>10, <1>11, <1>12 DEF Next

LEMMA StutterKeeps == Core /\ UNCHANGED vars => Core'
BY DEF Core, vars, gateway, effects, aux, TypeOK, Tokened, Alone, Checking, Current, LoginAlone, Login

LEMMA StepsKeep == IInv /\ [Next]_vars => IInv'
<1> SUFFICES ASSUME IInv, [Next]_vars PROVE Core'
  BY AnsweredKept DEF IInv, Core
<1> USE DEF IInv
<1>1. ASSUME NEW c \in Calls, Answer(c) \/ GiveUp(c)
      PROVE  Core'
  <2>1. CASE ReviewFailed(c)
    <3>1. 1 \in Tokens
      BY BoundsAssumption DEF Tokens
    <3> QED
      BY <2>1, <3>1, QuietSteps
  <2> QED
    BY <1>1, <2>1, AnswerSteps DEF Answer, GiveUp
<1>2. ASSUME NEW c \in Calls, ServeLogin(c) \/ ServeLogout(c) \/ ServeReview(c) \/ Repeat(c)
      PROVE  Core'
  <2>1. 1 \in Tokens
    BY BoundsAssumption DEF Tokens
  <2> QED
    BY <1>2, <2>1, QuietSteps
<1>3. ASSUME NEW t \in Tokens, Expire(t)
      PROVE  Core'
  <2>1. 1 \in Calls
    BY BoundsAssumption DEF Calls
  <2> QED
    BY <1>3, <2>1, QuietSteps
<1> QED
  BY <1>1, <1>2, <1>3, StutterKeeps, TabSteps, ClickSteps DEF Next

---------------------------------------------------------------------------
(* Theorems                                                                *)

\* The strengthened invariant of the tab holds in every reachable state.
THEOREM Inductive == Spec => []IInv
<1>1. Init => IInv
  BY InitHolds DEF IInv, Answered, Init, Login, Unused
<1> QED
  BY <1>1, StepsKeep, PTL DEF Spec

\* The types of the tab, its calls and the gateway hold, and no call is made
\* more often than there are addresses (requestJSON).
THEOREM TypeCorrect == Spec => []TypeOK
<1>1. IInv => TypeOK
  BY DEF IInv, Core
<1> QED
  BY <1>1, Inductive, PTL

\* A token is given up only by the end of a logout, by the failure of its own
\* check, or after logins that overlapped (the cleanup and the catch handler of
\* the session effect, handleLogout).
LEMMA StepsGiveReasons ==
  ASSUME IInv, [Next]_vars, stored # None, stored' = None, ~overlap
  PROVE  \/ \E c \in Calls : InFlight(c) /\ calls[c].op = "logout" /\ calls'[c] = Unused
         \/ watched = stored /\ check # "none" /\ check' = "none"
<1> USE DEF IInv, Core
<1>1. stored' # stored /\ Alone /\ stored = tab.token /\ tab \in TabStates
  BY DEF Tokened, TypeOK
<1>2. CASE CheckFailed
  BY <1>1, <1>2 DEF CheckFailed, Alone, Current
<1>3. ASSUME NEW c \in Calls, LogoutEnded(c)
      PROVE  \E d \in Calls : InFlight(d) /\ calls[d].op = "logout" /\ calls'[d] = Unused
  <2>1. InFlight(c) /\ calls[c].op = "logout"
    BY <1>3 DEF LogoutEnded, InFlight, Unused
  <2>2. calls'[c] = Unused
    BY <1>3 DEF LogoutEnded, Over, TypeOK
  <2> QED
    BY <2>1, <2>2
<1>4. ASSUME NEW s \in TabStates, Effects(s),
             s.token = tab.token, s.session = tab.session, s.checking = tab.checking
      PROVE  FALSE
  BY <1>1, <1>4, EffectsFacts
<1>5. CASE RunEffects \/ ClickReview
  BY <1>1, <1>4, <1>5 DEF RunEffects, ClickReview
<1>6. CASE SubmitLogin
  <2> DEFINE s == [tab EXCEPT !.loading = TRUE]
  <2>1. /\ s \in TabStates /\ s.token = tab.token /\ s.session = tab.session /\ s.checking = tab.checking
        /\ Effects(s)
    BY <1>1, <1>6, ChangesTyped DEF SubmitLogin, TabStates
  <2> HIDE DEF s
  <2> QED
    BY <1>4, <2>1
<1>7. ASSUME NEW c \in Calls, LoginAnswered(c)
      PROVE  FALSE
  BY <1>7 DEF LoginAnswered, Answered, Login
<1>8. ASSUME NEW c \in Calls, Answer(c) \/ GiveUp(c)
      PROVE  \E d \in Calls : InFlight(d) /\ calls[d].op = "logout" /\ calls'[d] = Unused
  BY <1>1, <1>3, <1>7, <1>8 DEF Answer, GiveUp, LoginFailed, ReviewAnswered, ReviewFailed
<1>9. CASE \/ Render \/ ServeCheck \/ CheckPassed \/ ServeLoad \/ LoadArrives \/ LoadFailed
           \/ ClickLogout \/ Reload \/ UNCHANGED vars
  BY <1>1, <1>9 DEF Render, ServeCheck, CheckPassed, ServeLoad, LoadArrives, LoadFailed, ClickLogout, Reload, vars
<1>10. ASSUME NEW c \in Calls, ServeLogin(c) \/ ServeLogout(c) \/ ServeReview(c) \/ Repeat(c)
       PROVE  FALSE
  BY <1>1, <1>10 DEF ServeLogin, ServeLogout, ServeReview, Repeat
<1>11. ASSUME NEW t \in Tokens, Expire(t)
       PROVE  FALSE
  BY <1>1, <1>11 DEF Expire
<1> QED
  BY <1>2, <1>5, <1>6, <1>8, <1>9, <1>10, <1>11 DEF Next

\* Whatever the order of renderings, effects, aborts and answers, a session is
\* given up only for one of the reasons Kept lists.
THEOREM SessionsKept == Spec => Kept
<1> DEFINE Reason ==
      stored # None /\ stored' = None =>
        \/ \E c \in Calls : InFlight(c) /\ calls[c].op = "logout" /\ calls'[c] = Unused
        \/ watched = stored /\ check # "none" /\ check' = "none"
        \/ overlap
<1>1. IInv /\ [Next]_vars => [Reason]_vars
  BY StepsGiveReasons
<1> HIDE DEF Reason
<1>2. Spec => [][Reason]_vars
  BY <1>1, Inductive, PTL DEF Spec
<1> QED
  BY <1>2 DEF Kept, Reason

---------------------------------------------------------------------------
(* Rest                                                                    *)

\* A check is shown only while one is under way or due.
CheckShown == tab.checking => check # "none" \/ watched # view.token

\* A session without its token, and a token without its session, have an effect
\* or a check before them.
SessionFollows ==
  /\ tab.token = None /\ tab.session # None => watched # None
  /\ tab.token # None /\ tab.session # tab.token /\ watched = tab.token => check # "none"

\* A tab that was loaded with a token and has not rendered a session yet: there
\* was none, and the check is on its way or has failed, or it is to be rendered.
NotEntered ==
  /\ ~entered /\ tab.session = None
  /\ \/ tab.token = view.token /\ (check # "none" => watched = view.token)
     \/ tab.token = None /\ check = "none" /\ watched = view.token

JustEntered == tab.session # None /\ tab.again /\ check = "none" /\ watched = view.token

Fresh ==
  /\ view.session = None /\ view.loading /\ load.phase = "none"
  /\ \A c \in Calls : ~InFlight(c)
  /\ NotEntered \/ JustEntered

DashboardDue == view.again /\ view.session # None

\* "loading" is reset by a load or a login that is on its way, or will be sent;
\* it is left to itself only in a tab as it was loaded.
LoadEnds ==
  tab.loading => load.phase # "none" \/ DashboardDue \/ (\E c \in Calls : Login(c)) \/ Fresh

\* The calls that have not been made yet are not under way.
Allotted == \A c \in Calls : InFlight(c) => c <= made

Rests == CheckShown /\ SessionFollows /\ LoadEnds /\ Allotted

\* The other fields of the states that handlers make.
LEMMA ChangesRest ==
  ASSUME NEW s \in TabStates
  PROVE  /\ NoSession(s).loading = s.loading /\ Cleared(s).loading = s.loading
         /\ Cleared(s).checking = s.checking
         /\ \A t \in Tokens : SetSession(s, t).loading = s.loading /\ SetSession(s, t).again
BY DEF NoSession, Cleared, SetSession, TabStates

\* What the effects of a rendering leave of the state s they start from.
LEMMA EffectsLeave ==
  ASSUME TypeOK, NEW s \in TabStates, Effects(s)
  PROVE  /\ watched' = view.token
         /\ check' = IF watched = view.token THEN check
                     ELSE IF view.token = None THEN "none" ELSE "sent"
         /\ load'.phase = IF ~view.again THEN load.phase
                          ELSE IF view.session = None THEN "none" ELSE "sent"
         /\ watched = view.token =>
              tab'.token = s.token /\ tab'.session = s.session /\ tab'.checking = s.checking
         /\ watched # view.token /\ view.token = None => tab'.session = None /\ ~tab'.checking
         /\ watched # view.token /\ check # "none" => tab'.token = None /\ tab'.session = None
         /\ watched # view.token /\ check = "none" => tab'.token = s.token
         /\ watched # view.token /\ check = "none" /\ view.token # None => tab'.session = s.session
         /\ s.session = None => tab'.session = None
         /\ view.again /\ load.phase # "none" => ~tab'.loading
         /\ tab'.loading => s.loading \/ DashboardDue
         /\ watched = view.token => tab'.again = s.again
<1> DEFINE rechecks == watched # view.token
           aborts   == rechecks /\ check # "none"
           s1 == IF rechecks THEN SessionEffect(s) ELSE s
           s2 == IF view.again THEN DashboardEffect(s1) ELSE s1
           s3 == IF aborts THEN CheckAborted(s2) ELSE s2
<1>1. /\ tab' = IF view.again /\ load.phase # "none" THEN LoadAborted(s3) ELSE s3
      /\ watched' = view.token
      /\ check' = IF ~rechecks THEN check ELSE IF view.token = None THEN "none" ELSE "sent"
      /\ load' = IF ~view.again THEN load
                 ELSE IF view.session = None THEN Idle
                 ELSE [Idle EXCEPT !.for = view.session, !.phase = "sent"]
  BY DEF Effects
<1>2. NoSession(s) \in TabStates /\ NoSession(s).token = s.token /\ NoSession(s).session = None
      /\ NoSession(s).loading = s.loading
  BY ChangesTyped, ChangesTokens, ChangesRest
<1>3. Empty \in Boards
  BY DEF Empty, Boards
<1>4. /\ s1 \in TabStates /\ s1.token = s.token /\ s1.loading = s.loading
      /\ s.session = None => s1.session = None
      /\ ~rechecks => s1 = s
      /\ rechecks /\ view.token = None => s1.session = None /\ ~s1.checking
      /\ rechecks /\ view.token # None => s1.session = s.session
  <2>1. CASE ~rechecks
    BY <2>1
  <2>2. CASE rechecks /\ view.token # None
    BY <2>2 DEF SessionEffect, TabStates
  <2>3. CASE rechecks /\ view.token = None
    <3>1. SessionEffect(s) = [NoSession(s) EXCEPT !.checking = FALSE, !.board = Empty]
      BY <2>3 DEF SessionEffect
    <3> HIDE DEF s1
    <3>2. s1 = SessionEffect(s)
      BY <2>3 DEF s1
    <3> QED
      BY <1>2, <1>3, <2>3, <3>1, <3>2 DEF TabStates
  <2> QED
    BY <2>1, <2>2, <2>3
<1> HIDE DEF s1
<1>5. /\ s2 \in TabStates /\ s2.token = s1.token /\ s2.session = s1.session
      /\ s2.checking = s1.checking /\ s2.again = s1.again
      /\ s2.loading => s1.loading \/ DashboardDue
  BY <1>4 DEF DashboardEffect, TabStates, DashboardDue
<1> HIDE DEF s2
<1>6. Cleared(s2) \in TabStates /\ Cleared(s2).token = None /\ Cleared(s2).session = None
      /\ Cleared(s2).loading = s2.loading
  BY <1>5, ChangesTyped, ChangesTokens, ChangesRest
<1>7. /\ s3 \in TabStates
      /\ s3.loading = s2.loading
      /\ aborts => s3.token = None /\ s3.session = None /\ ~s3.checking
      /\ ~aborts => s3 = s2
  BY <1>5, <1>6 DEF CheckAborted, TabStates
<1> HIDE DEF s3
<1>8. /\ tab'.token = s3.token /\ tab'.session = s3.session /\ tab'.checking = s3.checking
      /\ tab'.again = s3.again
      /\ tab'.loading => s3.loading
      /\ view.again /\ load.phase # "none" => ~tab'.loading
  BY <1>1, <1>7 DEF LoadAborted, TabStates
<1>9. load'.phase = IF ~view.again THEN load.phase
                    ELSE IF view.session = None THEN "none" ELSE "sent"
  BY <1>1 DEF Idle
<1> QED
  BY <1>1, <1>4, <1>5, <1>7, <1>8, <1>9

\* A tab as it is loaded is fresh.
LEMMA InitRests == Init => Rests
<1> SUFFICES ASSUME Init PROVE Rests
  OBVIOUS
<1>1. /\ tab = Opened(stored) /\ view = tab /\ watched = None /\ check = "none"
      /\ load.phase = "none" /\ ~entered /\ \A c \in Calls : ~InFlight(c)
  BY DEF Init, Idle, InFlight
<1> QED
  BY <1>1 DEF Rests, CheckShown, SessionFollows, LoadEnds, Fresh, NotEntered, Opened, Allotted

\* A call that is of some kind is under way.
LEMMA OpsInFlight ==
  ASSUME NEW c \in Calls, calls[c].op # "none"
  PROVE  InFlight(c)
BY DEF InFlight, Unused

\* A new call takes the place of none that is under way.
LEMMA CallMade ==
  ASSUME TypeOK, Allotted, NEW op \in {"login", "logout", "review"}, NEW t, Call(op, t)
  PROVE  /\ Allotted'
         /\ \A c \in Calls : Login(c) => Login(c)'
         /\ op = "login" => \E c \in Calls : Login(c)'
<1> DEFINE new == [op |-> op, token |-> t, phase |-> "sent", tries |-> 1]
<1>1. made \in 0 .. MaxCalls /\ made' = made + 1 /\ made + 1 \in Calls
  BY BoundsAssumption DEF Call, TypeOK, Calls
<1>2. calls' = [calls EXCEPT ![made + 1] = new] /\ new.op = op
  BY DEF Call
<1> HIDE DEF new
<1>3. calls'[made + 1] = new /\ \A c \in Calls : c # made + 1 => calls'[c] = calls[c]
  BY <1>1, <1>2 DEF TypeOK
<1>4. ~InFlight(made + 1)
  BY <1>1 DEF Allotted
<1>5. \A c \in Calls : Login(c) => Login(c)'
  BY <1>3, <1>4, OpsInFlight DEF Login
<1>6. Allotted'
  BY <1>1, <1>3 DEF Allotted, InFlight, Calls
<1>7. calls'[made + 1].op = op
  BY <1>2, <1>3
<1> QED
  BY <1>1, <1>5, <1>6, <1>7 DEF Login

\* A step of one call, which is under way before it: the others stay as they are.
LEMMA CallMoves ==
  ASSUME TypeOK, NEW c \in Calls, InFlight(c), NEW k, calls' = [calls EXCEPT ![c] = k],
         made' = made, Allotted
  PROVE  /\ Allotted' /\ ~Fresh
         /\ calls'[c] = k /\ \A d \in Calls : d # c => calls'[d] = calls[d]
<1>1. calls'[c] = k /\ \A d \in Calls : d # c => calls'[d] = calls[d]
  BY DEF TypeOK
<1>2. Allotted'
  BY <1>1 DEF Allotted, InFlight
<1> QED
  BY <1>1, <1>2 DEF Fresh

\* Steps that leave the tab and its effects alone, and neither end a call nor
\* make one in a fresh tab.
LEMMA RestsKept ==
  ASSUME Rests, Allotted', UNCHANGED <<tab, view, watched, entered>>,
         check' # "none" <=> check # "none", load'.phase # "none" <=> load.phase # "none",
         \A c \in Calls : Login(c) => Login(c)',
         Fresh => \A c \in Calls : ~InFlight(c)'
  PROVE  Rests'
<1>1. CheckShown' /\ SessionFollows'
  BY DEF Rests, CheckShown, SessionFollows
<1>2. Fresh => Fresh'
  BY DEF Fresh, NotEntered, JustEntered
<1>3. LoadEnds'
  BY <1>2 DEF Rests, LoadEnds, DashboardDue
<1> QED
  BY <1>1, <1>3 DEF Rests

\* The gateway, and calls that are made or repeated.
LEMMA QuietRests ==
  ASSUME TypeOK, Rests,
         \/ ServeCheck \/ ServeLoad \/ ClickLogout
         \/ (\E t \in Tokens : Expire(t))
         \/ (\E c \in Calls : \/ ServeLogin(c) \/ ServeLogout(c) \/ ServeReview(c)
                              \/ Repeat(c) \/ ReviewFailed(c))
  PROVE  Rests'
<1>0. calls \in [Calls -> CallType] /\ Allotted
  BY DEF TypeOK, CallType, Rests
<1>1. ASSUME UNCHANGED <<calls, made, tab, view, watched, entered>>,
             check' # "none" <=> check # "none", load'.phase # "none" <=> load.phase # "none"
      PROVE  Rests'
  BY <1>0, <1>1, RestsKept DEF Login, Fresh, InFlight, Allotted
<1>2. CASE ServeCheck
  BY <1>1, <1>2 DEF ServeCheck
<1>3. CASE ServeLoad
  <2>1. load.phase # "none" /\ load'.phase # "none"
    BY <1>3 DEF ServeLoad, TypeOK
  <2> QED
    BY <1>1, <1>3, <2>1 DEF ServeLoad
<1>4. CASE \E t \in Tokens : Expire(t)
  BY <1>1, <1>4 DEF Expire, effects
<1>5. CASE ClickLogout
  <2>1. UNCHANGED <<tab, view, watched, check, load, entered>> /\ ~Fresh
    BY <1>5 DEF ClickLogout, InWorkspace, Fresh, effects
  <2>2. Allotted' /\ \A c \in Calls : Login(c) => Login(c)'
    BY <1>0, <1>5, CallMade DEF ClickLogout
  <2> QED
    BY <2>1, <2>2, RestsKept
<1>6. ASSUME NEW c \in Calls, NEW k, calls' = [calls EXCEPT ![c] = k], InFlight(c),
             Login(c) => k.op = "login", UNCHANGED <<made, tab, view, watched, check, load, entered>>
      PROVE  Rests'
  BY <1>0, <1>6, CallMoves, RestsKept DEF Login
<1>7. ASSUME NEW c \in Calls, NEW phase, NEW t, Reply(c, phase, t), calls[c].op # "none",
             UNCHANGED <<made, tab, view, watched, check, load, entered>>
      PROVE  Rests'
  <2> DEFINE k == [calls[c] EXCEPT !.phase = phase, !.token = t]
  <2>1. calls' = [calls EXCEPT ![c] = k] /\ k.op = calls[c].op
    BY <1>0, <1>7 DEF Reply, CallType
  <2> HIDE DEF k
  <2> QED
    BY <1>6, <1>7, <2>1, OpsInFlight DEF Login
<1>8. ASSUME NEW c \in Calls, ServeLogin(c) \/ ServeLogout(c) \/ ServeReview(c)
      PROVE  Rests'
  BY <1>7, <1>8 DEF ServeLogin, ServeLogout, ServeReview, effects
<1>9. ASSUME NEW c \in Calls, Repeat(c)
      PROVE  Rests'
  <2> DEFINE k == [calls[c] EXCEPT !.phase = "sent", !.tries = @ + 1,
                                   !.token = IF calls[c].op = "login" THEN None ELSE @]
  <2>1. calls' = [calls EXCEPT ![c] = k] /\ k.op = calls[c].op
    BY <1>0, <1>9 DEF Repeat, CallType
  <2> HIDE DEF k
  <2> QED
    BY <1>6, <1>9, <2>1 DEF Repeat, Login, effects
<1>10. ASSUME NEW c \in Calls, ReviewFailed(c)
       PROVE  Rests'
  BY <1>6, <1>10, OpsInFlight DEF ReviewFailed, Over, Login, effects
<1> QED
  BY <1>2, <1>3, <1>4, <1>5, <1>8, <1>9, <1>10

\* Rendering, and the ends of the requests of the effects.
LEMMA TabRests ==
  ASSUME TypeOK, Tokened, Rests,
         Render \/ CheckPassed \/ CheckFailed \/ LoadArrives \/ LoadFailed
  PROVE  Rests'
<1>0. /\ tab \in TabStates /\ view \in TabStates
      /\ watched \in Tokens \union {None} /\ None \notin Tokens
  BY DEF TypeOK, None, Tokens
<1>1. Allotted' /\ (\A c \in Calls : Login(c)' <=> Login(c)) /\ (\A c \in Calls : InFlight(c)' <=> InFlight(c))
  BY DEF Render, CheckPassed, CheckFailed, LoadArrives, LoadFailed, Login, InFlight, Rests, Allotted
<1>2. CASE Render
  <2>1. /\ view' = tab /\ ~view.again /\ watched = view.token
        /\ UNCHANGED <<watched, check, load, entered>>
    BY <1>2 DEF Render, EffectsDue, effects
  <2>2. /\ tab'.token = tab.token /\ tab'.session = tab.session /\ tab'.checking = tab.checking
        /\ tab'.loading = tab.loading
    BY <1>0, <1>2 DEF Render, TabStates
  <2>3. CheckShown'
    BY <2>1, <2>2 DEF Rests, CheckShown
  <2>4. SessionFollows'
    BY <2>1, <2>2 DEF Rests, SessionFollows
  <2>5. ASSUME tab.loading, Fresh PROVE DashboardDue' \/ Fresh'
    <3>1. CASE NotEntered
      BY <1>1, <2>1, <2>2, <2>5, <3>1 DEF Fresh, NotEntered
    <3>2. CASE JustEntered
      BY <2>1, <3>2 DEF JustEntered, DashboardDue
    <3> QED
      BY <2>5, <3>1, <3>2 DEF Fresh
  <2>6. LoadEnds'
    BY <1>1, <2>1, <2>2, <2>5 DEF Rests, LoadEnds, DashboardDue
  <2> QED
    BY <1>1, <2>3, <2>4, <2>6 DEF Rests
<1>3. CASE CheckPassed
  <2>1. /\ check # "none" /\ check' = "none" /\ watched # None /\ watched \in Tokens
        /\ UNCHANGED <<view, watched, load>>
    BY <1>0, <1>3 DEF CheckPassed, Tokened
  <2>2. SetSession(tab, watched) \in TabStates
    BY <1>0, <2>1, ChangesTyped
  <2>3. /\ tab'.token = tab.token /\ tab'.session = watched /\ ~tab'.checking
        /\ tab'.loading = tab.loading /\ tab'.again
    BY <1>0, <1>3, <2>1, <2>2, ChangesTokens, ChangesRest DEF CheckPassed, TabStates
  <2>4. CheckShown' /\ SessionFollows'
    BY <2>1, <2>3 DEF CheckShown, SessionFollows
  <2>5. Fresh => Fresh'
    BY <1>1, <2>1, <2>3 DEF Fresh, NotEntered, JustEntered
  <2>6. LoadEnds'
    BY <1>1, <2>1, <2>3, <2>5 DEF Rests, LoadEnds, DashboardDue
  <2> QED
    BY <1>1, <2>4, <2>6 DEF Rests
<1>4. CASE CheckFailed
  <2>1. check # "none" /\ check' = "none" /\ UNCHANGED <<view, watched, load, entered>>
    BY <1>4 DEF CheckFailed
  <2>2. Cleared(tab) \in TabStates
    BY <1>0, ChangesTyped
  <2>3. /\ tab'.token = None /\ tab'.session = None /\ ~tab'.checking
        /\ tab'.loading = tab.loading
    BY <1>0, <1>4, <2>2, ChangesTokens, ChangesRest DEF CheckFailed, TabStates
  <2>4. CheckShown' /\ SessionFollows'
    BY <2>1, <2>3 DEF CheckShown, SessionFollows
  <2>5. Fresh => Fresh'
    BY <1>1, <2>1, <2>3 DEF Fresh, NotEntered, JustEntered
  <2>6. LoadEnds'
    BY <1>1, <2>1, <2>3, <2>5 DEF Rests, LoadEnds, DashboardDue
  <2> QED
    BY <1>1, <2>4, <2>6 DEF Rests
<1>5. CASE LoadArrives \/ LoadFailed
  <2>1. UNCHANGED <<view, watched, check>>
    BY <1>5 DEF LoadArrives, LoadFailed
  <2>2. /\ tab'.token = tab.token /\ tab'.session = tab.session /\ tab'.checking = tab.checking
        /\ ~tab'.loading
    BY <1>0, <1>5 DEF LoadArrives, LoadFailed, TabStates
  <2>3. CheckShown' /\ SessionFollows' /\ LoadEnds'
    BY <2>1, <2>2 DEF Rests, CheckShown, SessionFollows, LoadEnds
  <2> QED
    BY <1>1, <2>3 DEF Rests
<1> QED
  BY <1>2, <1>3, <1>4, <1>5

\* The answers to the calls.
LEMMA AnswerRests ==
  ASSUME TypeOK, Tokened, Answered, Rests, NEW c \in Calls,
         LoginAnswered(c) \/ LoginFailed(c) \/ LogoutEnded(c) \/ ReviewAnswered(c)
  PROVE  Rests'
<1>0. /\ tab \in TabStates /\ view \in TabStates /\ Allotted
      /\ watched \in Tokens \union {None} /\ calls \in [Calls -> CallType]
  BY DEF TypeOK, CallType, Rests
<1>1. /\ calls' = [calls EXCEPT ![c] = Unused] /\ InFlight(c)
      /\ UNCHANGED <<view, watched, check, load, made>>
  BY OpsInFlight DEF LoginAnswered, LoginFailed, LogoutEnded, ReviewAnswered, Over, effects
<1>2. Allotted' /\ ~Fresh /\ \A d \in Calls : d # c => calls'[d] = calls[d]
  BY <1>0, <1>1, CallMoves
<1>3. CASE LoginAnswered(c) \/ LoginFailed(c)
  <2>1. ~tab'.loading
    <3>1. CASE LoginAnswered(c)
      <4>1. calls[c].token \in Tokens
        BY <1>0, <3>1 DEF LoginAnswered, Answered, Login, CallType
      <4>2. SetSession(tab, calls[c].token) \in TabStates
        BY <1>0, <4>1, ChangesTyped
      <4> QED
        BY <3>1, <4>2 DEF LoginAnswered, TabStates
    <3>2. CASE LoginFailed(c)
      BY <1>0, <3>2 DEF LoginFailed, TabStates
    <3> QED
      BY <1>3, <3>1, <3>2
  <2>2. CheckShown' /\ SessionFollows'
    <3>1. CASE LoginAnswered(c)
      <4>1. calls[c].token \in Tokens /\ calls[c].token # None
        BY <1>0, <3>1 DEF LoginAnswered, Answered, Login, CallType
      <4> DEFINE t == calls[c].token
                 s == SetSession(tab, t)
      <4> HIDE DEF t
      <4>2. s \in TabStates /\ s.session = t /\ s.checking = tab.checking /\ t \in Tokens /\ t # None
        BY <1>0, <4>1, ChangesTyped, ChangesTokens DEF t
      <4>3. tab' = [s EXCEPT !.token = t, !.loading = FALSE]
        BY <3>1 DEF LoginAnswered, t
      <4> HIDE DEF s
      <4>4. tab'.token = t /\ tab'.session = t /\ tab'.checking = tab.checking
        BY <4>2, <4>3 DEF TabStates
      <4> QED
        BY <1>1, <4>2, <4>4 DEF Rests, CheckShown, SessionFollows
    <3>2. CASE LoginFailed(c)
      <4>1. tab'.token = tab.token /\ tab'.session = tab.session /\ tab'.checking = tab.checking
        BY <1>0, <3>2 DEF LoginFailed, TabStates
      <4> QED
        BY <1>1, <4>1 DEF Rests, CheckShown, SessionFollows
    <3> QED
      BY <1>3, <3>1, <3>2
  <2> QED
    BY <1>2, <2>1, <2>2 DEF Rests, LoadEnds
<1>4. CASE LogoutEnded(c) \/ ReviewAnswered(c)
  <2>1. ~Login(c)
    BY <1>4 DEF LogoutEnded, ReviewAnswered, Login
  <2>2. /\ tab'.loading = tab.loading /\ tab'.checking = tab.checking
        /\ \/ tab'.token = None /\ tab'.session = None
           \/ tab'.token = tab.token /\ tab'.session = tab.session
    <3>1. CASE LogoutEnded(c)
      BY <1>0, <3>1, ChangesTokens, ChangesRest DEF LogoutEnded
    <3>2. CASE ReviewAnswered(c)
      BY <1>0, <3>2 DEF ReviewAnswered, TabStates
    <3> QED
      BY <1>4, <3>1, <3>2
  <2>3. CheckShown' /\ SessionFollows'
    BY <1>1, <2>2 DEF Rests, CheckShown, SessionFollows
  <2>4. LoadEnds'
    BY <1>1, <1>2, <2>1, <2>2 DEF Rests, LoadEnds, DashboardDue, Login
  <2> QED
    BY <1>2, <2>3, <2>4 DEF Rests
<1> QED
  BY <1>3, <1>4

\* Effects that run, for the tab as it is or with its "loading" set by a login.
LEMMA EffectsRest ==
  ASSUME TypeOK, Tokened, Rests, NEW s \in TabStates, Effects(s),
         s.token = tab.token, s.session = tab.session, s.checking = tab.checking,
         view'.token = view.token
  PROVE  CheckShown' /\ SessionFollows'
<1>1. watched' = view.token
  BY EffectsLeave
<1>2. CASE watched = view.token
  BY <1>1, <1>2, EffectsLeave DEF Rests, CheckShown, SessionFollows
<1>3. CASE watched # view.token /\ view.token = None
  <2>1. check' = "none" /\ tab'.session = None /\ ~tab'.checking
    BY <1>3, EffectsLeave
  <2> QED
    BY <1>1, <1>3, <2>1 DEF CheckShown, SessionFollows
<1>4. CASE watched # view.token /\ view.token # None
  <2>1. check' = "sent"
    BY <1>4, EffectsLeave
  <2> QED
    BY <1>1, <1>4, <2>1 DEF CheckShown, SessionFollows
<1> QED
  BY <1>2, <1>3, <1>4

\* A fresh tab whose effects run stays fresh.
LEMMA FreshEffects ==
  ASSUME TypeOK, Tokened, Fresh, Effects(tab), view' = [view EXCEPT !.again = FALSE],
         UNCHANGED <<calls, entered>>
  PROVE  Fresh'
<1>1. tab \in TabStates /\ view \in TabStates
  BY DEF TypeOK
<1>2. /\ view'.token = view.token /\ view'.session = None /\ view'.loading
      /\ ~DashboardDue
  BY <1>1 DEF Fresh, TabStates, DashboardDue
<1>3. watched' = view.token /\ load'.phase = "none"
  BY <1>1, EffectsLeave DEF Fresh
<1>4. \A c \in Calls : ~InFlight(c)'
  BY DEF Fresh, InFlight
<1>5. CASE NotEntered
  <2>1. ~entered' /\ tab'.session = None
    BY <1>1, <1>5, EffectsLeave DEF NotEntered
  <2>2. CASE watched = view.token
    <3>1. tab'.token = tab.token /\ check' = check
      BY <1>1, <2>2, EffectsLeave
    <3> QED
      BY <1>2, <1>3, <1>4, <1>5, <2>1, <2>2, <3>1 DEF Fresh, NotEntered
  <2>3. CASE watched # view.token
    <3>1. check = "none" /\ tab.token = view.token
      BY <1>5, <2>3 DEF NotEntered
    <3>2. tab'.token = tab.token
      BY <1>1, <2>3, <3>1, EffectsLeave
    <3> QED
      BY <1>2, <1>3, <1>4, <2>1, <3>1, <3>2 DEF Fresh, NotEntered
  <2> QED
    BY <2>2, <2>3
<1>6. CASE JustEntered
  <2>1. watched = view.token /\ check = "none"
    BY <1>6 DEF JustEntered
  <2>2. tab'.session = tab.session /\ tab'.again = tab.again /\ check' = check
    BY <1>1, <1>2, <2>1, EffectsLeave
  <2> QED
    BY <1>2, <1>3, <1>4, <1>6, <2>1, <2>2 DEF Fresh, JustEntered
<1> QED
  BY <1>5, <1>6 DEF Fresh

\* "loading" after effects that run in a tab that is not fresh.
LEMMA EffectsLoad ==
  ASSUME TypeOK, Rests, Effects(tab), tab'.loading,
         \A c \in Calls : Login(c) => Login(c)'
  PROVE  load'.phase # "none" \/ (\E c \in Calls : Login(c)') \/ Fresh
<1>1. tab \in TabStates
  BY DEF TypeOK
<1>2. tab.loading \/ DashboardDue
  BY <1>1, EffectsLeave
<1>3. ~(view.again /\ load.phase # "none")
  BY <1>1, EffectsLeave
<1>4. CASE DashboardDue
  BY <1>1, <1>4, EffectsLeave DEF DashboardDue
<1>5. CASE load.phase # "none"
  BY <1>1, <1>3, <1>5, EffectsLeave
<1> QED
  BY <1>2, <1>4, <1>5 DEF Rests, LoadEnds

\* What the user does.
LEMMA ClickRests ==
  ASSUME TypeOK, Tokened, Rests, ClickReview \/ SubmitLogin \/ RunEffects \/ Reload
  PROVE  Rests'
<1>0. tab \in TabStates /\ view \in TabStates /\ Allotted
  BY DEF TypeOK, Rests
<1>1. view.session \in Tokens \union {None}
  BY <1>0 DEF TabStates
<1>2. CASE RunEffects
  <2>1. Effects(tab) /\ view' = [view EXCEPT !.again = FALSE] /\ UNCHANGED <<calls, made, entered>>
    BY <1>2 DEF RunEffects
  <2>2. CheckShown' /\ SessionFollows'
    <3>1. view'.token = view.token
      BY <1>0, <2>1 DEF TabStates
    <3> QED
      BY <1>0, <2>1, <3>1, EffectsRest
  <2>3. \A c \in Calls : Login(c)' <=> Login(c)
    BY <2>1 DEF Login
  <2>4. Fresh => Fresh'
    BY <2>1, FreshEffects
  <2>5. LoadEnds'
    BY <2>1, <2>3, <2>4, EffectsLoad DEF LoadEnds
  <2>6. Allotted'
    BY <1>0, <2>1 DEF Allotted, InFlight
  <2> QED
    BY <2>2, <2>5, <2>6 DEF Rests
<1>3. CASE ClickReview
  <2>1. /\ Effects(tab) /\ view' = [view EXCEPT !.again = FALSE]
        /\ Call("review", view.session) /\ ~Fresh
    BY <1>3 DEF ClickReview, InWorkspace, Fresh
  <2>2. CheckShown' /\ SessionFollows'
    <3>1. view'.token = view.token
      BY <1>0, <2>1 DEF TabStates
    <3> QED
      BY <1>0, <2>1, <3>1, EffectsRest
  <2>3. Allotted' /\ \A c \in Calls : Login(c) => Login(c)'
    BY <1>0, <2>1, CallMade
  <2>4. LoadEnds'
    BY <2>1, <2>3, EffectsLoad DEF LoadEnds
  <2> QED
    BY <2>2, <2>3, <2>4 DEF Rests
<1>4. CASE SubmitLogin
  <2> DEFINE s == [tab EXCEPT !.loading = TRUE]
  <2>1. /\ s \in TabStates /\ s.token = tab.token /\ s.session = tab.session /\ s.checking = tab.checking
        /\ Effects(s)
    BY <1>0, <1>4, ChangesTyped DEF SubmitLogin, TabStates
  <2> HIDE DEF s
  <2>2. view'.token = view.token
    BY <1>0, <1>4 DEF SubmitLogin, TabStates
  <2>3. CheckShown' /\ SessionFollows'
    BY <2>1, <2>2, EffectsRest
  <2>4. Allotted' /\ \E c \in Calls : Login(c)'
    BY <1>0, <1>4, CallMade DEF SubmitLogin
  <2>5. LoadEnds'
    BY <2>4 DEF LoadEnds
  <2> QED
    BY <2>3, <2>4, <2>5 DEF Rests
<1>5. CASE Reload
  <2>1. /\ tab' = Opened(stored) /\ view' = Opened(stored) /\ watched' = None /\ check' = "none"
        /\ load'.phase = "none" /\ ~entered' /\ \A c \in Calls : ~InFlight(c)'
    BY <1>5 DEF Reload, Idle, InFlight
  <2> QED
    BY <2>1 DEF Rests, CheckShown, SessionFollows, LoadEnds, Fresh, NotEntered, Opened, Allotted
<1> QED
  BY <1>2, <1>3, <1>4, <1>5

LEMMA RestsStep == IInv /\ Rests /\ [Next]_vars => Rests'
<1> SUFFICES ASSUME IInv, Rests, [Next]_vars PROVE Rests'
  OBVIOUS
<1>0. TypeOK /\ Tokened /\ Answered
  BY DEF IInv, Core
<1>1. ASSUME NEW c \in Calls, Answer(c) \/ GiveUp(c)
      PROVE  Rests'
  BY <1>0, <1>1, AnswerRests, QuietRests DEF Answer, GiveUp
<1>2. CASE UNCHANGED vars
  BY <1>2 DEF vars, effects, Rests, CheckShown, SessionFollows, LoadEnds, Allotted, Fresh, NotEntered,
              JustEntered, DashboardDue, InFlight, Login
<1> QED
  BY <1>0, <1>1, <1>2, QuietRests, TabRests, ClickRests DEF Next

\* At every rest of the tab its parts agree, whatever came before, overlapping
\* logins included (the two effects with their cleanups, handleSignIn,
\* handleLogout).
THEOREM RestAgrees == Spec => []RestsInAgreement
<1>1. IInv /\ Rests => RestsInAgreement
  <2> SUFFICES ASSUME IInv, Rests, AtRest PROVE Agree
    BY DEF RestsInAgreement
  <2>1. /\ view = tab /\ watched = view.token /\ ~view.again /\ check = "none" /\ load.phase = "none"
        /\ \A c \in Calls : ~InFlight(c)
    BY DEF AtRest, EffectsDue
  <2>2. /\ stored = tab.token /\ tab \in TabStates
        /\ \A c \in Calls : ~Login(c)
    BY <2>1, OpsInFlight DEF IInv, Core, Tokened, TypeOK, Login
  <2>3. ~tab.checking /\ tab.session = tab.token
    BY <2>1 DEF Rests, CheckShown, SessionFollows
  <2>4. tab.loading => ~entered
    BY <2>1, <2>2 DEF Rests, LoadEnds, DashboardDue, Fresh, NotEntered, JustEntered
  <2> QED
    BY <2>2, <2>3, <2>4 DEF Agree
<1> QED
  BY <1>1, InitRests, RestsStep, Inductive, PTL DEF Spec

---------------------------------------------------------------------------
(* How long it takes a tab to come to rest: the safety half of Settles     *)

\* A token that is rendered, or has been, still has its effect to come, and a
\* check if there is one; a check, the session it sets or clears; a session
\* that is set, its rendering and its dashboard; and so on down to the last
\* rendering.
EffectLeft(t) == IF t = None THEN 8 ELSE 36
CheckLeft(p)  == IF p = "none" THEN 0 ELSE IF p = "sent" THEN 18 ELSE 17
LoadLeft(p)   == IF p = "none" THEN 0 ELSE IF p = "sent" THEN 3 ELSE 2

TabLeft ==
  (IF tab.token # view.token THEN EffectLeft(tab.token) + 1 ELSE 0)
    + (IF watched # view.token THEN EffectLeft(view.token) ELSE 0)
    + CheckLeft(check)
    + (IF tab.again THEN 6 ELSE 0) + (IF view.again THEN 5 ELSE 0)
    + LoadLeft(load.phase)
    + (IF view # tab THEN 1 ELSE 0)

\* A call is served and answered at each of the addresses that are left.
CallLeft(c) ==
  IF InFlight(c)
  THEN 2 * (Candidates - calls[c].tries) + (IF calls[c].phase = "sent" THEN 2 ELSE 1)
  ELSE 0

TabStep     == \/ Render \/ RunEffects \/ ServeCheck \/ CheckPassed \/ CheckFailed
               \/ ServeLoad \/ LoadArrives \/ LoadFailed
UserStep    == SubmitLogin \/ ClickLogout \/ ClickReview \/ Reload
CallEnds(c) == Answer(c) \/ GiveUp(c)
CallStep(c) == ServeLogin(c) \/ ServeLogout(c) \/ ServeReview(c) \/ Repeat(c) \/ CallEnds(c)

\* Every step of the tab brings it nearer to rest, and every step of a call its
\* end; only its user, and a call that ends, set the tab back.  What is left to
\* Settles is that React and the browser take these steps.
Quiets ==
  /\ TabLeft \in 0 .. 106 /\ \A c \in Calls : CallLeft(c) \in 0 .. 2 * Candidates + 2
  /\ TabLeft = 0 /\ (\A c \in Calls : CallLeft(c) = 0) => AtRest
  /\ ~UserStep => \A c \in Calls : CallLeft(c)' <= CallLeft(c)
  /\ \A c \in Calls : CallStep(c) => CallLeft(c)' < CallLeft(c)
  /\ ~UserStep /\ (\A c \in Calls : ~CallEnds(c)) => TabLeft' <= TabLeft
  /\ TabStep => TabLeft' < TabLeft
DrawsToRest == [][Quiets]_vars

LEMMA Costs ==
  /\ \A t : EffectLeft(t) \in {8, 36} /\ (t = None => EffectLeft(t) = 8) /\ (t # None => EffectLeft(t) = 36)
  /\ CheckLeft("none") = 0 /\ CheckLeft("sent") = 18 /\ CheckLeft("valid") = 17 /\ CheckLeft("invalid") = 17
  /\ LoadLeft("none") = 0 /\ LoadLeft("sent") = 3 /\ LoadLeft("read") = 2
BY DEF EffectLeft, CheckLeft, LoadLeft

LEMMA Phases ==
  ASSUME TypeOK
  PROVE  /\ check \in {"none", "sent", "valid", "invalid"} /\ load.phase \in {"none", "sent", "read"}
         /\ tab \in TabStates /\ view \in TabStates
         /\ tab.again \in BOOLEAN /\ view.again \in BOOLEAN
BY DEF TypeOK, TabStates

LEMMA TabLeftBound ==
  ASSUME TypeOK
  PROVE  TabLeft \in 0 .. 106 /\ (TabLeft = 0 /\ (\A c \in Calls : CallLeft(c) = 0) => AtRest)
<1>1. TabLeft \in 0 .. 106
  BY Costs, Phases DEF TabLeft
<1>2. ASSUME TabLeft = 0
      PROVE  view = tab /\ ~EffectsDue /\ check = "none" /\ load.phase = "none"
  BY <1>2, Costs, Phases DEF TabLeft, EffectsDue
<1>3. ASSUME NEW c \in Calls, CallLeft(c) = 0 PROVE ~InFlight(c)
  <2>1. calls[c].tries \in 0 .. Candidates
    BY DEF TypeOK
  <2> QED
    BY <1>3, <2>1, BoundsAssumption DEF CallLeft
<1> QED
  BY <1>1, <1>2, <1>3 DEF AtRest

\* The effects: what they add is less than what they were counted for.
LEMMA EffectsDraw ==
  ASSUME TypeOK, RunEffects
  PROVE  TabLeft' < TabLeft /\ TabLeft' <= TabLeft
<1>1. /\ watched' = view.token
      /\ check' = IF watched = view.token THEN check
                  ELSE IF view.token = None THEN "none" ELSE "sent"
      /\ load'.phase = IF ~view.again THEN load.phase
                       ELSE IF view.session = None THEN "none" ELSE "sent"
      /\ watched = view.token => tab'.token = tab.token /\ tab'.again = tab.again
      /\ tab'.token \in {tab.token, None}
  BY Phases, EffectsLeave DEF RunEffects
<1>2. view'.token = view.token /\ view'.again = FALSE
  BY Phases DEF RunEffects, TabStates
<1>3. watched # view.token \/ view.again
  BY DEF RunEffects, EffectsDue
<1>4. CASE watched = view.token
  BY <1>1, <1>2, <1>3, <1>4, Costs, Phases DEF TabLeft
<1>5. CASE watched # view.token /\ view.token = None
  BY <1>1, <1>2, <1>5, Costs, Phases DEF TabLeft
<1>6. CASE watched # view.token /\ view.token # None
  BY <1>1, <1>2, <1>6, Costs, Phases DEF TabLeft
<1> QED
  BY <1>4, <1>5, <1>6

LEMMA TabDraws ==
  ASSUME TypeOK, TabStep
  PROVE  TabLeft' < TabLeft /\ TabLeft' <= TabLeft
<1> USE Costs, Phases DEF TabLeft
<1>1. CASE Render
  <2>1. /\ tab'.token = tab.token /\ tab'.again = FALSE /\ (~tab.again => tab' = tab)
        /\ view' = tab /\ watched = view.token /\ ~view.again /\ view # tab
        /\ UNCHANGED <<watched, check, load>>
    BY <1>1 DEF Render, EffectsDue, TabStates, effects
  <2> QED
    BY <2>1
<1>2. CASE RunEffects
  BY <1>2, EffectsDraw
<1>3. CASE ServeCheck
  BY <1>3 DEF ServeCheck
<1>4. CASE CheckPassed
  <2>1. tab'.token = tab.token /\ check = "valid" /\ check' = "none" /\ UNCHANGED <<view, watched, load>>
    BY <1>4 DEF CheckPassed, SetSession, TabStates
  <2> QED
    BY <2>1
<1>5. CASE CheckFailed
  <2>1. Cleared(tab) \in TabStates /\ Cleared(tab).token = None
    BY ChangesTyped, ChangesTokens
  <2>2. tab'.token = None
    BY <1>5, <2>1 DEF CheckFailed, TabStates
  <2>3. check # "none" /\ check' = "none" /\ UNCHANGED <<view, watched, load>>
    BY <1>5 DEF CheckFailed
  <2> QED
    BY <2>2, <2>3
<1>6. CASE ServeLoad
  <2>1. load.phase = "sent" /\ load'.phase = "read" /\ UNCHANGED <<tab, view, watched, check>>
    BY <1>6 DEF ServeLoad, TypeOK
  <2> QED
    BY <2>1
<1>7. CASE LoadArrives \/ LoadFailed
  <2>1. /\ tab'.token = tab.token /\ tab'.again = tab.again
        /\ load.phase # "none" /\ load'.phase = "none" /\ UNCHANGED <<view, watched, check>>
    <3>1. /\ load.phase # "none" /\ load' = Idle /\ UNCHANGED <<view, watched, check>>
          /\ \E b : tab' = [tab EXCEPT !.board = b, !.loading = FALSE]
                   \/ tab' = [tab EXCEPT !.loading = FALSE]
      BY <1>7 DEF LoadArrives, LoadFailed
    <3>2. tab'.token = tab.token /\ tab'.again = tab.again
      BY <3>1 DEF TabStates
    <3> QED
      BY <3>1, <3>2 DEF Idle
  <2> QED
    BY <2>1
<1> QED
  BY <1>1, <1>2, <1>3, <1>4, <1>5, <1>6, <1>7 DEF TabStep

\* What can be left of a call, by its fields.
LEMMA CallCosts ==
  ASSUME TypeOK, NEW c \in Calls
  PROVE  /\ calls[c].tries \in 0 .. Candidates /\ Candidates \in Nat
         /\ calls[c].phase \in {"none", "sent", "done"}
         /\ CallLeft(c) \in 0 .. 2 * Candidates + 2
         /\ InFlight(c) => CallLeft(c) > 0
<1>1. calls[c].tries \in 0 .. Candidates /\ Candidates \in Nat /\ calls[c].phase \in {"none", "sent", "done"}
  BY BoundsAssumption DEF TypeOK
<1> QED
  BY <1>1 DEF CallLeft

LEMMA CallDraws ==
  ASSUME TypeOK, NEW c \in Calls, CallStep(c)
  PROVE  /\ CallLeft(c)' < CallLeft(c) /\ CallLeft(c)' <= CallLeft(c)
         /\ \A d \in Calls : d # c => calls'[d] = calls[d]
<1>1. calls \in [Calls -> [op : {"none", "login", "logout", "review"}, token : Tokens \union {None},
                           phase : {"none", "sent", "done"}, tries : 0 .. Candidates]]
  BY DEF TypeOK
<1>2. CASE CallEnds(c)
  <2>1. calls' = [calls EXCEPT ![c] = Unused] /\ calls[c].op # "none"
    BY <1>2 DEF CallEnds, Answer, GiveUp, LoginAnswered, ReviewAnswered, LogoutEnded, LoginFailed,
                ReviewFailed, Over
  <2>2. ~InFlight(c)' /\ InFlight(c) /\ \A d \in Calls : d # c => calls'[d] = calls[d]
    BY <1>1, <2>1, OpsInFlight DEF InFlight
  <2>3. CallLeft(c)' = 0
    BY <2>2 DEF CallLeft
  <2> QED
    BY <2>2, <2>3, CallCosts
<1>3. CASE Repeat(c)
  <2>1. /\ InFlight(c) /\ calls[c].tries < Candidates
        /\ calls'[c].tries = calls[c].tries + 1 /\ calls'[c].phase = "sent"
        /\ \A d \in Calls : d # c => calls'[d] = calls[d]
    BY <1>1, <1>3 DEF Repeat
  <2> QED
    BY <2>1, CallCosts DEF CallLeft
<1>4. CASE ServeLogin(c) \/ ServeLogout(c) \/ ServeReview(c)
  <2>1. calls[c].phase = "sent" /\ calls[c].op # "none" /\ \E t : Reply(c, "done", t)
    BY <1>4 DEF ServeLogin, ServeLogout, ServeReview
  <2>2. /\ calls'[c].phase = "done" /\ calls'[c].tries = calls[c].tries
        /\ \A d \in Calls : d # c => calls'[d] = calls[d]
    BY <1>1, <2>1 DEF Reply
  <2> QED
    BY <2>1, <2>2, OpsInFlight, CallCosts DEF CallLeft
<1> QED
  BY <1>2, <1>3, <1>4 DEF CallStep

\* A tab comes to rest after a bounded number of steps of its own for each call
\* that ends and each action of its user, and every call ends after at most two
\* steps for each address (App, requestJSON).
THEOREM BoundedUnrest == Spec => DrawsToRest
<1>1. IInv /\ [Next]_vars => Quiets
  <2> SUFFICES ASSUME IInv, [Next]_vars PROVE Quiets
    OBVIOUS
  <2>1. TypeOK
    BY DEF IInv, Core
  <2>2. TabStep => UNCHANGED <<calls>>
    BY DEF TabStep, Render, RunEffects, ServeCheck, CheckPassed, CheckFailed, ServeLoad, LoadArrives, LoadFailed
  <2>3. (\E t \in Tokens : Expire(t)) \/ UNCHANGED vars => UNCHANGED <<tab, view, watched, check, load, calls>>
    BY DEF Expire, vars, effects
  <2>4. TabStep \/ UserStep \/ (\E c \in Calls : CallStep(c)) \/ (\E t \in Tokens : Expire(t)) \/ UNCHANGED vars
    BY DEF Next, TabStep, UserStep, CallStep, CallEnds
  <2>5. ASSUME NEW c \in Calls, calls'[c] = calls[c] PROVE CallLeft(c)' = CallLeft(c)
    BY <2>5 DEF CallLeft, InFlight
  <2>6. ASSUME ~UserStep, NEW c \in Calls PROVE CallLeft(c)' <= CallLeft(c)
    <3>1. CASE calls'[c] = calls[c]
      BY <2>1, <2>5, <3>1, CallCosts
    <3>2. CASE CallStep(c)
      BY <2>1, <3>2, CallDraws
    <3> QED
      BY <2>1, <2>2, <2>3, <2>4, <2>6, <3>1, <3>2, CallDraws
  <2>7. ASSUME ~UserStep, \A c \in Calls : ~CallEnds(c) PROVE TabLeft' <= TabLeft
    <3>1. CASE UNCHANGED <<tab, view, watched, check, load>>
      BY <2>1, <3>1, TabLeftBound DEF TabLeft
    <3>2. CASE TabStep
      BY <2>1, <3>2, TabDraws
    <3>3. ASSUME NEW c \in Calls, CallStep(c) PROVE UNCHANGED <<tab, view, watched, check, load>>
      BY <2>7, <3>3 DEF CallStep, ServeLogin, ServeLogout, ServeReview, Repeat, effects
    <3> QED
      BY <2>3, <2>4, <2>7, <3>1, <3>2, <3>3
  <2> QED
    BY <2>1, <2>6, <2>7, TabLeftBound, TabDraws, CallCosts, CallDraws DEF Quiets
<1>2. IInv /\ [Next]_vars => [Quiets]_vars
  BY <1>1
<1> QED
  BY <1>2, Inductive, PTL DEF Spec, DrawsToRest
=============================================================================
