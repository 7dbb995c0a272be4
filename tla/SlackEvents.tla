---------------------------- MODULE SlackEvents ----------------------------
(***************************************************************************)
(* The requests Slack sends (orcastackapi/internal/platform/slack,         *)
(* verifier.go and handlers.go) and the notifications their callbacks send *)
(* through the manager (manager.go).                                       *)
(*                                                                         *)
(* An event is verified, acknowledged and handed to a callback in a        *)
(* goroutine of its own; a slash command is answered with what its         *)
(* callback returns; a challenge is echoed.  net/http sends the answer and *)
(* ends the context of the request when the handler returns, and the       *)
(* context of a callback is derived from that one.                         *)
(*                                                                         *)
(* Slack is external: it waits three seconds for an answer, and delivers   *)
(* an event again, signed anew, when the answer does not come or is not a  *)
(* 200.  A delivery it no longer waits for may still arrive.  External are *)
(* the callbacks too: they may notify or not, and end in their own time.   *)
(***************************************************************************)
EXTENDS Naturals

CONSTANTS
  Messages,        \* events, slash commands and challenges
  MaxDeliveries,   \* how often Slack delivers an event
  MaxRetries,      \* how often a notification is tried: three times
  MaxCrashes       \* bound: crashes of the service

ASSUME BoundsAssumption ==
  MaxDeliveries \in Nat \ {0} /\ MaxRetries \in Nat \ {0} /\ MaxCrashes \in Nat

Deliveries == 1 .. MaxDeliveries
Kinds      == {"event", "command", "challenge"}

VARIABLES
  enabled,    \* SLACK_NOTIFICATIONS_ENABLED, and a bot token
  kind,       \* kind[m]: what message m is
  slack,      \* slack[m]: what Slack knows of m
  sent,       \* sent[m]: deliveries made
  missed,     \* missed[m]: deliveries Slack did not see answered in time
  way,        \* way[m][d]: where a delivery and its answer are
  work,       \* work[m][d]: the callback of a delivery
  note,       \* note[m][d]: the notification the callback sent
  tries,      \* tries[m][d]: attempts begun to send it
  posted,     \* posted[m][d]: how often Slack has posted it
  crashes     \* crashes so far

config == <<enabled, kind>>
sender == <<slack, sent, missed>>
notes  == <<note, tries, posted>>
vars   == <<config, sender, way, work, notes, crashes>>

Ways  == {"none", "travelling", "stale", "handling", "answered", "refused", "over"}
Works == {"none", "running", "notified", "ended", "lost"}
Notes == {"none", "queued", "sent", "dropped"}

Each(x) == [m \in Messages |-> [d \in Deliveries |-> x]]

Init ==
  /\ enabled \in BOOLEAN
  /\ kind \in [Messages -> Kinds]
  /\ slack = [m \in Messages |-> "new"]
  /\ sent = [m \in Messages |-> 0]
  /\ missed = [m \in Messages |-> {}]
  /\ way = Each("none")
  /\ work = Each("none")
  /\ note = Each("none")
  /\ tries = Each(0)
  /\ posted = Each(0)
  /\ crashes = 0

Move(m, d, w) == way' = [way EXCEPT ![m][d] = w]

\* Slack waits for the answer to delivery d.
Awaited(m, d) == slack[m] = "waiting" /\ d = sent[m]

---------------------------------------------------------------------------
(* Slack                                                                   *)

Send(m) ==
  /\ slack[m] = "new"
  /\ slack' = [slack EXCEPT ![m] = "waiting"]
  /\ sent' = [sent EXCEPT ![m] = 1]
  /\ Move(m, 1, "travelling")
  /\ UNCHANGED <<config, missed, work, notes, crashes>>

\* Commands are not delivered again.
Redeliver(m, w) ==
  IF kind[m] # "command" /\ sent[m] < MaxDeliveries
  THEN /\ sent' = [sent EXCEPT ![m] = @ + 1]
       /\ way' = [w EXCEPT ![m][sent[m] + 1] = "travelling"]
       /\ UNCHANGED slack
  ELSE /\ slack' = [slack EXCEPT ![m] = "gave up"]
       /\ way' = w
       /\ UNCHANGED sent

\* The three seconds are over, or the connection broke.
Miss(m) ==
  /\ slack[m] = "waiting"
  /\ missed' = [missed EXCEPT ![m] = @ \union {sent[m]}]
  /\ Redeliver(m, way)
  /\ UNCHANGED <<config, work, notes, crashes>>

\* The delivery or its answer is lost.
Lose(m, d) ==
  /\ way[m][d] \in {"travelling", "stale", "answered", "refused"}
  /\ Move(m, d, "over")
  /\ UNCHANGED <<config, sender, work, notes, crashes>>

\* A delivery is under way for more than five minutes.
Age(m, d) ==
  /\ way[m][d] = "travelling" /\ ~Awaited(m, d)
  /\ Move(m, d, "stale")
  /\ UNCHANGED <<config, sender, work, notes, crashes>>

AnswerArrives(m, d) ==
  /\ way[m][d] = "answered"
  /\ Move(m, d, "over")
  /\ slack' = IF Awaited(m, d) THEN [slack EXCEPT ![m] = "told"] ELSE slack
  /\ UNCHANGED <<config, sent, missed, work, notes, crashes>>

RefusalArrives(m, d) ==
  /\ way[m][d] = "refused"
  /\ IF Awaited(m, d)
     THEN Redeliver(m, [way EXCEPT ![m][d] = "over"])
     ELSE Move(m, d, "over") /\ UNCHANGED <<slack, sent>>
  /\ UNCHANGED <<config, missed, work, notes, crashes>>

---------------------------------------------------------------------------
(* VerifyRequest, HandleEvents, HandleCommand                              *)

\* Mutant: the answer of a handler that refuses does not count as one.
RefuseUnknown(m, d) ==
  /\ way[m][d] = "stale"
  /\ Move(m, d, "too old")
  /\ UNCHANGED <<config, sender, work, notes, crashes>>

\* The timestamp is too old; or the body of a command is not JSON: Slack sends
\* a form.
Refuse(m, d) ==
  /\ \/ way[m][d] = "stale"
     \/ way[m][d] = "travelling" /\ kind[m] = "command"
  /\ Move(m, d, "refused")
  /\ UNCHANGED <<config, sender, work, notes, crashes>>

Echo(m, d) ==
  /\ way[m][d] = "travelling" /\ kind[m] = "challenge"
  /\ Move(m, d, "answered")
  /\ UNCHANGED <<config, sender, work, notes, crashes>>

\* The answer is written, not yet sent, and the goroutine is started; or the
\* callback of a command is called.
Accept(m, d) ==
  /\ way[m][d] = "travelling" /\ kind[m] # "challenge"
  /\ Move(m, d, "handling")
  /\ work' = [work EXCEPT ![m][d] = "running"]
  /\ UNCHANGED <<config, sender, notes, crashes>>

\* Mutant: an event is answered with what its callback returned.
ReturnResult(m, d) ==
  /\ way[m][d] = "handling"
  /\ work[m][d] = "ended"
  /\ \E w \in {"answered", "refused"} : Move(m, d, w)
  /\ UNCHANGED <<config, sender, work, notes, crashes>>

\* Mutant: a command is answered like an event, before its callback returns.
ReturnEarly(m, d) ==
  /\ way[m][d] = "handling"
  /\ Move(m, d, "answered")
  /\ UNCHANGED <<config, sender, work, notes, crashes>>

\* The handler of an event returns at once, that of a command after its
\* callback; what the callback returned does not matter.
Return(m, d) ==
  /\ way[m][d] = "handling"
  /\ kind[m] = "command" => work[m][d] = "ended"
  /\ Move(m, d, "answered")
  /\ UNCHANGED <<config, sender, work, notes, crashes>>

---------------------------------------------------------------------------
(* Callbacks and the manager                                               *)

\* The context of a callback lives until the handler returns and, for an event,
\* until the callback returns; no longer than thirty seconds.
Live(m, d) ==
  /\ way[m][d] = "handling"
  /\ kind[m] = "event" => work[m][d] # "ended"

\* The Notify functions of the manager: SendAsync starts a goroutine with the
\* context of the callback, unless notifications are disabled.
Notify(m, d) ==
  /\ work[m][d] = "running"
  /\ work' = [work EXCEPT ![m][d] = "notified"]
  /\ note' = IF enabled THEN [note EXCEPT ![m][d] = "queued"] ELSE note
  /\ UNCHANGED <<config, sender, way, tries, posted, crashes>>

EndCallback(m, d) ==
  /\ work[m][d] \in {"running", "notified"}
  /\ work' = [work EXCEPT ![m][d] = "ended"]
  /\ UNCHANGED <<config, sender, way, notes, crashes>>

\* The goroutine sends as the notifier promises (module NotifierPromise).  An
\* attempt only begins while the context lives; a failed one is repeated.
Try(m, d) ==
  /\ note[m][d] = "queued" /\ Live(m, d)
  /\ tries[m][d] < MaxRetries
  /\ tries' = [tries EXCEPT ![m][d] = @ + 1]
  /\ UNCHANGED <<config, sender, way, work, note, posted, crashes>>

\* An attempt is carried out, perhaps after the request was answered, after the
\* goroutine gave the attempt up and made another, or after a crash.
Post(m, d) ==
  /\ posted[m][d] < tries[m][d]
  /\ posted' = [posted EXCEPT ![m][d] = @ + 1]
  /\ UNCHANGED <<config, sender, way, work, note, tries, crashes>>

\* The answer to an attempt says that it was posted.
Report(m, d) ==
  /\ note[m][d] = "queued" /\ posted[m][d] > 0
  /\ note' = [note EXCEPT ![m][d] = "sent"]
  /\ UNCHANGED <<config, sender, way, work, tries, posted, crashes>>

\* Mutant: the end of the context does not wake the goroutine.
DropInTime(m, d) ==
  /\ note[m][d] = "queued" /\ Live(m, d)
  /\ note' = [note EXCEPT ![m][d] = "dropped"]
  /\ UNCHANGED <<config, sender, way, work, tries, posted, crashes>>

\* The context has ended, or every attempt failed.
Drop(m, d) ==
  /\ note[m][d] = "queued"
  /\ note' = [note EXCEPT ![m][d] = "dropped"]
  /\ UNCHANGED <<config, sender, way, work, tries, posted, crashes>>

\* The service crashes and is started again; answers and notifications that
\* have left are on their way.
Crash ==
  /\ crashes < MaxCrashes
  /\ crashes' = crashes + 1
  /\ way' = [m \in Messages |-> [d \in Deliveries |->
               IF way[m][d] = "handling" THEN "over" ELSE way[m][d]]]
  /\ work' = [m \in Messages |-> [d \in Deliveries |->
               IF work[m][d] \in {"running", "notified"} THEN "lost" ELSE work[m][d]]]
  /\ note' = [m \in Messages |-> [d \in Deliveries |->
               IF note[m][d] = "queued" THEN "dropped" ELSE note[m][d]]]
  /\ UNCHANGED <<config, sender, tries, posted>>

---------------------------------------------------------------------------
Handler(m, d) == Refuse(m, d) \/ Echo(m, d) \/ Accept(m, d) \/ Return(m, d)

Notification(m, d) == Try(m, d) \/ Post(m, d) \/ Report(m, d) \/ Drop(m, d)

Callback(m, d) == Notify(m, d) \/ EndCallback(m, d) \/ Notification(m, d)

Next ==
  \/ \E m \in Messages : Send(m) \/ Miss(m)
  \/ \E m \in Messages, d \in Deliveries :
       \/ Lose(m, d) \/ Age(m, d) \/ AnswerArrives(m, d) \/ RefusalArrives(m, d)
       \/ Handler(m, d) \/ Callback(m, d)
  \/ Crash

\* Deliveries and answers arrive or are lost, the handlers run, callbacks
\* return, and every send ends (Ends of module Notifier).  No notification has
\* to arrive.
Fairness ==
  \A m \in Messages, d \in Deliveries :
    /\ WF_vars(Handler(m, d))
    /\ WF_vars(EndCallback(m, d))
    /\ WF_vars(Report(m, d) \/ Drop(m, d))
    /\ WF_vars(AnswerArrives(m, d) \/ RefusalArrives(m, d))
    /\ WF_vars(Miss(m))

Spec == Init /\ [][Next]_vars /\ Fairness

---------------------------------------------------------------------------
(* Properties                                                              *)

\* Every variable keeps its type.
TypeOK ==
  /\ enabled \in BOOLEAN
  /\ kind \in [Messages -> Kinds]
  /\ slack \in [Messages -> {"new", "waiting", "told", "gave up"}]
  /\ sent \in [Messages -> 0 .. MaxDeliveries]
  /\ missed \in [Messages -> SUBSET Deliveries]
  /\ way \in [Messages -> [Deliveries -> Ways]]
  /\ work \in [Messages -> [Deliveries -> Works]]
  /\ note \in [Messages -> [Deliveries -> Notes]]
  /\ tries \in [Messages -> [Deliveries -> 0 .. MaxRetries]]
  /\ posted \in [Messages -> [Deliveries -> 0 .. MaxRetries]]
  /\ crashes \in 0 .. MaxCrashes

Started(m) == {d \in Deliveries : work[m][d] # "none"}

\* Nothing looks at event_id, so an event may be processed more than once: but
\* only if Slack did not see the answer to every earlier delivery that was
\* processed.  No delivery that was handed to a callback is refused.
RepeatNeedsMiss ==
  \A m \in Messages : \A d \in Started(m) : d = sent[m] \/ d \in missed[m]

\* Whatever is lost, Slack learns what became of a message or gives it up, and
\* no callback and no notification is left behind.
Settles ==
  \A m \in Messages, d \in Deliveries :
    []<>(slack[m] # "waiting" /\ way[m][d] # "handling"
           /\ work[m][d] \notin {"running", "notified"} /\ note[m][d] # "queued")

\* The deliveries that are in one of some states.
Where(f, S) == [m \in Messages |-> {d \in Deliveries : f[m][d] \in S}]

\* Slack and the service keep the promise of module SlackPromise.
Promise == INSTANCE SlackPromise WITH
  handling <- Where(way, {"handling"}),
  started  <- Where(work, Works \ {"none"}),
  finished <- Where(work, {"ended"}),
  told     <- {m \in Messages : slack[m] = "told"}

KeepsPromise == Promise!PromiseSpec
=============================================================================
