-------------------------- MODULE NotifierProofs ---------------------------
(***************************************************************************)
(* Proofs of the safety properties of module Notifier, for every set of    *)
(* messages and every number of attempts.                                  *)
(***************************************************************************)
EXTENDS Notifier, TLAPS

\* The variables of one message.
Row(m) == <<ctx[m], step[m], made[m], flight[m], late[m], posted[m], tries[m], lost[m]>>

\* What is known of a message in a state that satisfies the invariant; its
\* counters are bounded by the attempts made and the one under way.
LEMMA RowFacts ==
  ASSUME IInv, NEW m \in Messages
  PROVE  /\ ctx[m] \in Contexts /\ step[m] \in Steps /\ flight[m] \in Flights
         /\ made[m] \in 0 .. MaxRetries /\ MaxRetries \in Nat /\ MaxRetries > 0
         /\ late[m] \in Nat /\ posted[m] \in Nat /\ tries[m] \in Nat /\ lost[m] \in Nat
         /\ late[m] <= MaxRetries /\ posted[m] <= MaxRetries
         /\ tries[m] <= MaxRetries /\ lost[m] <= MaxRetries
         /\ Counted(m)
  BY RetriesAssumption DEF IInv, TypeOK

\* A step about one message leaves the others alone.
LEMMA OthersKeep ==
  ASSUME IInv, NEW m \in Messages, TypeOK', Counted(m)',
         \A n \in Messages : n # m => Row(n)' = Row(n)
  PROVE  IInv'
<1>1. ASSUME NEW n \in Messages, n # m PROVE Counted(n)'
  BY <1>1 DEF IInv, Row, Counted
<1> QED
  BY <1>1 DEF IInv

\* One lemma per action: it keeps the invariant and touches one message.
LEMMA SendAsyncStep ==
  ASSUME IInv, NEW m \in Messages, SendAsync(m)
  PROVE  IInv'
<1>1. TypeOK' /\ step'[m] = "check" /\ \A n \in Messages : n # m => Row(n)' = Row(n)
  BY DEF IInv, TypeOK, SendAsync, Row, Steps
<1>2. Counted(m)'
  BY <1>1, RowFacts DEF SendAsync, Counted
<1> QED
  BY <1>1, <1>2, OthersKeep

LEMMA CallerReturnsStep ==
  ASSUME IInv, NEW m \in Messages, CallerReturns(m)
  PROVE  IInv'
<1>1. TypeOK' /\ \A n \in Messages : n # m => Row(n)' = Row(n)
  BY DEF IInv, TypeOK, CallerReturns, Row, Contexts
<1>2. Counted(m)'
  BY RowFacts DEF CallerReturns, Counted
<1> QED
  BY <1>1, <1>2, OthersKeep

LEMMA CheckContextStep ==
  ASSUME IInv, NEW m \in Messages, CheckContext(m)
  PROVE  IInv'
<1>1. TypeOK' /\ step'[m] \in {"cancelled", "request"}
      /\ \A n \in Messages : n # m => Row(n)' = Row(n)
  BY DEF IInv, TypeOK, CheckContext, Row, Steps, Outcomes
<1>2. Counted(m)'
  BY <1>1, RowFacts DEF CheckContext, Counted
<1> QED
  BY <1>1, <1>2, OthersKeep

\* A request that leaves is the attempt that follows those that failed.
LEMMA TransmitStep ==
  ASSUME IInv, NEW m \in Messages, Transmit(m)
  PROVE  IInv'
<1>1. tries[m] <= made[m] /\ made[m] < MaxRetries
  BY RowFacts DEF Transmit, Counted
<1>2. tries'[m] = tries[m] + 1 /\ flight'[m] = "travelling"
      /\ \A n \in Messages : n # m => Row(n)' = Row(n)
  BY DEF IInv, TypeOK, Transmit, Row
<1>3. TypeOK'
  BY <1>1, RowFacts DEF IInv, TypeOK, Transmit, Flights
<1>4. Counted(m)'
  BY <1>1, <1>2, RowFacts DEF Transmit, Counted
<1> QED
  BY <1>2, <1>3, <1>4, OthersKeep

LEMMA SucceedStep ==
  ASSUME IInv, NEW m \in Messages, Succeed(m)
  PROVE  IInv'
<1>1. TypeOK' /\ step'[m] = "sent" /\ flight'[m] = "none"
      /\ \A n \in Messages : n # m => Row(n)' = Row(n)
  BY DEF IInv, TypeOK, Succeed, Row, Steps, Outcomes, Flights
<1>2. Counted(m)'
  BY <1>1, RowFacts DEF Succeed, Counted
<1> QED
  BY <1>1, <1>2, OthersKeep

\* What was on its way or posted when it was given up is lost.
LEMMA AttemptFailsStep ==
  ASSUME IInv, NEW m \in Messages, AttemptFails(m)
  PROVE  IInv'
<1>1. made[m] < MaxRetries
  BY RowFacts DEF AttemptFails, Counted
<1>2. /\ step'[m] = AfterFailure(m) /\ made'[m] = made[m] + 1 /\ flight'[m] = "none"
      /\ late'[m] = IF flight[m] = "travelling" THEN late[m] + 1 ELSE late[m]
      /\ lost'[m] = IF flight[m] \in {"travelling", "posted"} THEN lost[m] + 1 ELSE lost[m]
      /\ \A n \in Messages : n # m => Row(n)' = Row(n)
  BY DEF IInv, TypeOK, AttemptFails, Row
<1>3. late'[m] \in 0 .. MaxRetries /\ lost'[m] \in 0 .. MaxRetries
  BY <1>1, <1>2, RowFacts DEF AttemptFails, Counted
<1>4. TypeOK'
  BY <1>1, <1>2, <1>3, RowFacts DEF IInv, TypeOK, AttemptFails, AfterFailure, Steps, Outcomes, Flights
<1>5. (AfterFailure(m) = "backoff" /\ made'[m] < MaxRetries) \/ AfterFailure(m) = "failed"
  BY <1>2, RowFacts DEF AfterFailure
<1>6. Counted(m)'
  BY <1>1, <1>2, <1>5, RowFacts DEF AttemptFails, Counted
<1> QED
  BY <1>2, <1>4, <1>6, OthersKeep

LEMMA PauseStep ==
  ASSUME IInv, NEW m \in Messages, Wake(m) \/ Interrupt(m)
  PROVE  IInv'
<1>1. TypeOK' /\ step'[m] \in {"check", "cancelled"}
      /\ \A n \in Messages : n # m => Row(n)' = Row(n)
  BY DEF IInv, TypeOK, Wake, Interrupt, Row, Steps, Outcomes
<1>2. Counted(m)'
  BY <1>1, RowFacts DEF Wake, Interrupt, Counted
<1> QED
  BY <1>1, <1>2, OthersKeep

LEMMA JudgeStep ==
  ASSUME IInv, NEW m \in Messages, Judge(m)
  PROVE  IInv'
<1>1. posted[m] < tries[m]
  BY RowFacts DEF Judge, Counted
<1>2. /\ \/ flight'[m] = "posted" /\ posted'[m] = posted[m] + 1
         \/ flight'[m] = "refused" /\ posted'[m] = posted[m]
      /\ \A n \in Messages : n # m => Row(n)' = Row(n)
  BY DEF IInv, TypeOK, Judge, Row
<1>3. TypeOK'
  BY <1>1, RowFacts DEF IInv, TypeOK, Judge, Flights
<1>4. step[m] = "request"
  BY RowFacts DEF Judge, Counted
<1>5. Counted(m)'
  BY <1>1, <1>2, <1>4, RowFacts DEF Judge, Counted
<1> QED
  BY <1>2, <1>3, <1>5, OthersKeep

LEMMA JudgeLateStep ==
  ASSUME IInv, NEW m \in Messages, JudgeLate(m)
  PROVE  IInv'
<1>1. posted[m] < tries[m]
  BY RowFacts DEF JudgeLate, Counted
<1>2. /\ late'[m] = late[m] - 1
      /\ posted'[m] = posted[m] + 1 \/ posted'[m] = posted[m]
      /\ \A n \in Messages : n # m => Row(n)' = Row(n)
  BY DEF IInv, TypeOK, JudgeLate, Row
<1>3. TypeOK'
  BY <1>1, RowFacts DEF IInv, TypeOK, JudgeLate
<1>4. Counted(m)'
  BY <1>1, <1>2, RowFacts DEF JudgeLate, Counted
<1> QED
  BY <1>2, <1>3, <1>4, OthersKeep

LEMMA InvInit == Init => IInv
<1> SUFFICES ASSUME Init PROVE IInv
  OBVIOUS
<1>1. TypeOK
  BY RetriesAssumption DEF Init, TypeOK, Contexts, Steps, Flights
<1>2. ASSUME NEW m \in Messages PROVE Counted(m)
  <2>1. /\ step[m] = "new" /\ flight[m] = "none" /\ made[m] = 0 /\ late[m] = 0
        /\ posted[m] = 0 /\ tries[m] = 0 /\ lost[m] = 0
    BY DEF Init
  <2> QED
    BY <2>1, RetriesAssumption DEF Counted
<1> QED
  BY <1>1, <1>2 DEF IInv

LEMMA InvStep == IInv /\ [Next]_vars => IInv'
<1> SUFFICES ASSUME IInv, [Next]_vars PROVE IInv'
  OBVIOUS
<1>1. CASE UNCHANGED vars
  BY <1>1 DEF vars, IInv, TypeOK, Counted
<1>2. CASE Next
  BY <1>2, SendAsyncStep, CallerReturnsStep, CheckContextStep, TransmitStep, SucceedStep,
     AttemptFailsStep, PauseStep, JudgeStep, JudgeLateStep DEF Next, Sender
<1> QED
  BY <1>1, <1>2

---------------------------------------------------------------------------
(* The theorems                                                            *)

\* The inductive invariant holds whatever the network, the service and the
\* callers do (send, sendRequest).
THEOREM Inductive == Spec => []IInv
<1>1. Init => IInv
  BY InvInit
<1>2. IInv /\ [Next]_vars => IInv'
  BY InvStep
<1> QED
  BY <1>1, <1>2, PTL DEF Spec

\* No message is tried or posted more than MaxRetries times (send).
THEOREM TypeCorrect == Spec => []TypeOK
<1>1. IInv => TypeOK
  BY DEF IInv
<1> QED
  BY <1>1, Inductive, PTL

\* Every duplicate is due to an answer that was lost or came too late (send,
\* sendRequest).
THEOREM LostDuplicates == Spec => []DuplicatesAreLost
<1>1. IInv => DuplicatesAreLost
  <2> SUFFICES ASSUME IInv, NEW m \in Messages
               PROVE  posted[m] <= lost[m] + (IF step[m] = "sent" \/ flight[m] = "posted"
                                              THEN 1 ELSE 0)
    BY DEF DuplicatesAreLost
  <2> QED
    BY RowFacts DEF Counted
<1> QED
  BY <1>1, Inductive, PTL

---------------------------------------------------------------------------
(* The promise                                                             *)

\* What a step that ends no send and posts nothing leaves of the promise.
LEMMA SameOutcomes ==
  ASSUME UNCHANGED <<tries, posted>>, \A m \in Messages : Outcome(m)' = Outcome(m)
  PROVE  UNCHANGED Promise!promiseVars
  BY DEF Promise!promiseVars

LEMMA NewOutcome ==
  ASSUME NEW m \in Messages, NEW outcome, Outcome(m)' = outcome,
         \A n \in Messages : n # m => Outcome(n)' = Outcome(n)
  PROVE  [n \in Messages |-> Outcome(n)]' = [[n \in Messages |-> Outcome(n)] EXCEPT ![m] = outcome]
  OBVIOUS

\* Only the step of a message decides its outcome.
LEMMA OtherOutcomes ==
  ASSUME IInv, NEW m \in Messages, NEW s, step' = [step EXCEPT ![m] = s]
  PROVE  step'[m] = s /\ \A n \in Messages : n # m => Outcome(n)' = Outcome(n)
  BY DEF IInv, TypeOK, Outcome

LEMMA PromiseStep == IInv /\ [Next]_vars => [Promise!PromiseNext]_(Promise!promiseVars)
<1> SUFFICES ASSUME IInv, [Next]_vars
             PROVE  Promise!PromiseNext \/ UNCHANGED Promise!promiseVars
  OBVIOUS
<1>1. ASSUME NEW m \in Messages, SendAsync(m) \/ Wake(m)
      PROVE  UNCHANGED Promise!promiseVars
  <2>1. Outcome(m) = "open" /\ step' = [step EXCEPT ![m] = "check"]
    BY <1>1 DEF SendAsync, Wake, Outcome
  <2>2. Outcome(m)' = "open"
    BY <2>1, OtherOutcomes DEF Outcome
  <2> QED
    BY <1>1, <2>1, <2>2, OtherOutcomes, SameOutcomes DEF SendAsync, Wake
<1>2. ASSUME NEW m \in Messages, CallerReturns(m)
      PROVE  UNCHANGED Promise!promiseVars
  BY <1>2, SameOutcomes DEF CallerReturns, Outcome
<1>3. ASSUME NEW m \in Messages, NEW s, step' = [step EXCEPT ![m] = s],
             UNCHANGED <<tries, posted>>, Outcome(m) = "open",
             s \in {"request", "backoff", "cancelled", "failed"}
      PROVE  Promise!Drop(m) \/ UNCHANGED Promise!promiseVars
  <2>1. step'[m] = s /\ \A n \in Messages : n # m => Outcome(n)' = Outcome(n)
    BY <1>3, OtherOutcomes
  <2>2. CASE s \in {"request", "backoff"}
    <3>1. Outcome(m)' = "open"
      BY <2>1, <2>2 DEF Outcome
    <3> QED
      BY <1>3, <2>1, <3>1, SameOutcomes
  <2>3. CASE s \in {"cancelled", "failed"}
    <3>1. Outcome(m)' = "dropped"
      BY <2>1, <2>3 DEF Outcome
    <3>2. [n \in Messages |-> Outcome(n)]' = [[n \in Messages |-> Outcome(n)] EXCEPT ![m] = "dropped"]
      BY <2>1, <3>1, NewOutcome
    <3> QED
      BY <1>3, <3>2 DEF Promise!Drop
  <2> QED
    BY <1>3, <2>2, <2>3
<1>4. ASSUME NEW m \in Messages, CheckContext(m) \/ AttemptFails(m) \/ Interrupt(m)
      PROVE  Promise!Drop(m) \/ UNCHANGED Promise!promiseVars
  <2>1. Outcome(m) = "open" /\ UNCHANGED <<tries, posted>>
    BY <1>4 DEF CheckContext, AttemptFails, Interrupt, Outcome
  <2>2. PICK s \in {"request", "backoff", "cancelled", "failed"} : step' = [step EXCEPT ![m] = s]
    BY <1>4 DEF CheckContext, AttemptFails, AfterFailure, Interrupt
  <2> QED
    BY <1>3, <2>1, <2>2
<1>5. ASSUME NEW m \in Messages, Transmit(m) PROVE Promise!Try(m)
  <2>1. Outcome(m) = "open" /\ tries[m] < MaxRetries
    BY <1>5, RowFacts DEF Transmit, Outcome, Counted
  <2>2. [n \in Messages |-> Outcome(n)]' = [n \in Messages |-> Outcome(n)]
    BY <1>5 DEF Transmit, Outcome
  <2> QED
    BY <1>5, <2>1, <2>2 DEF Transmit, Promise!Try
<1>6. ASSUME NEW m \in Messages, Succeed(m) PROVE Promise!Report(m)
  <2>1. Outcome(m) = "open" /\ posted[m] > 0
    BY <1>6, RowFacts DEF Succeed, Outcome, Counted
  <2>2. step'[m] = "sent" /\ \A n \in Messages : n # m => Outcome(n)' = Outcome(n)
    BY <1>6, OtherOutcomes DEF Succeed
  <2>3. Outcome(m)' = "sent"
    BY <2>2 DEF Outcome
  <2>4. [n \in Messages |-> Outcome(n)]' = [[n \in Messages |-> Outcome(n)] EXCEPT ![m] = "sent"]
    BY <2>2, <2>3, NewOutcome
  <2> QED
    BY <1>6, <2>1, <2>4 DEF Succeed, Promise!Report
<1>7. ASSUME NEW m \in Messages, Judge(m) \/ JudgeLate(m)
      PROVE  Promise!Post(m) \/ UNCHANGED Promise!promiseVars
  <2>1. posted[m] < tries[m]
    BY <1>7, RowFacts DEF Judge, JudgeLate, Counted
  <2>2. [n \in Messages |-> Outcome(n)]' = [n \in Messages |-> Outcome(n)] /\ UNCHANGED tries
    BY <1>7 DEF Judge, JudgeLate, Outcome
  <2>3. posted' = [posted EXCEPT ![m] = @ + 1] \/ UNCHANGED posted
    BY <1>7 DEF Judge, JudgeLate
  <2> QED
    BY <2>1, <2>2, <2>3 DEF Promise!Post, Promise!promiseVars
<1>8. CASE UNCHANGED vars
  BY <1>8, SameOutcomes DEF vars, Outcome
<1> QED
  BY <1>1, <1>2, <1>4, <1>5, <1>6, <1>7, <1>8 DEF Next, Sender, Promise!PromiseNext

\* The notifiers keep the promise of NotifierPromise (SendAsync, send).
THEOREM Refinement == Spec => KeepsPromise
<1>1. Init => Promise!PromiseInit
  BY DEF Init, Promise!PromiseInit, Outcome
<1> QED
  BY <1>1, PromiseStep, Inductive, PTL DEF Spec, KeepsPromise, Promise!PromiseSpec

---------------------------------------------------------------------------
(* How long a send can take: the safety half of Ends                       *)

\* The steps a send can still take: four for each attempt that is left (the
\* context, the request, its answer, the pause), fewer once an attempt is on
\* its way, none after the outcome.
Rank(m) ==
  LET left == 4 * (MaxRetries - made[m]) IN
    IF step[m] \in Outcomes THEN 0
    ELSE IF step[m] = "check" THEN left + 3
    ELSE IF step[m] # "request" THEN left + 4
    ELSE IF flight[m] = "none" THEN left + 2 ELSE left + 1

\* Every step of the loop of send brings its end nearer, and no caller, no
\* service and no other send puts it off: what is left to Ends is that the loop
\* is scheduled.
Descent(m) ==
  /\ Rank(m) \in 0 .. 4 * MaxRetries + 4 /\ Rank(m)' <= Rank(m)
  /\ Sender(m) => Rank(m)' < Rank(m)
DrawsToAnEnd == [][\A m \in Messages : Descent(m)]_vars

LEMMA RankBounds ==
  ASSUME IInv, NEW m \in Messages
  PROVE  Rank(m) \in 0 .. 4 * MaxRetries + 4
<1>1. step[m] \in Outcomes \/ made[m] < MaxRetries
  BY RowFacts DEF Counted, Steps
<1> QED
  BY <1>1, RowFacts DEF Rank

LEMMA SenderDescends ==
  ASSUME IInv, NEW m \in Messages, Sender(m)
  PROVE  Rank(m)' \in Nat /\ Rank(m)' < Rank(m) /\ \A n \in Messages : n # m => Row(n)' = Row(n)
<1>1. CASE CheckContext(m)
  <2>1. step'[m] \in {"cancelled", "request"} /\ UNCHANGED <<made, flight>>
        /\ \A n \in Messages : n # m => Row(n)' = Row(n)
    BY <1>1 DEF IInv, TypeOK, CheckContext, Row
  <2> QED
    BY <1>1, <2>1, RowFacts DEF CheckContext, Rank, Outcomes, Counted
<1>2. CASE Transmit(m)
  <2>1. flight'[m] = "travelling" /\ UNCHANGED <<step, made>>
        /\ \A n \in Messages : n # m => Row(n)' = Row(n)
    BY <1>2 DEF IInv, TypeOK, Transmit, Row
  <2> QED
    BY <1>2, <2>1, RowFacts DEF Transmit, Rank, Outcomes, Counted
<1>3. CASE Succeed(m)
  <2>1. step'[m] = "sent"
        /\ \A n \in Messages : n # m => Row(n)' = Row(n)
    BY <1>3 DEF IInv, TypeOK, Succeed, Row
  <2> QED
    BY <1>3, <2>1, RowFacts DEF Succeed, Rank, Outcomes, Counted
<1>4. CASE AttemptFails(m)
  <2>1. step'[m] \in {"backoff", "failed"} /\ made'[m] = made[m] + 1
        /\ \A n \in Messages : n # m => Row(n)' = Row(n)
    BY <1>4 DEF IInv, TypeOK, AttemptFails, Row, AfterFailure
  <2> QED
    BY <1>4, <2>1, RowFacts DEF AttemptFails, Rank, Outcomes, Counted
<1>5. CASE Wake(m)
  <2>1. step'[m] = "check" /\ UNCHANGED made
        /\ \A n \in Messages : n # m => Row(n)' = Row(n)
    BY <1>5 DEF IInv, TypeOK, Wake, Row
  <2> QED
    BY <1>5, <2>1, RowFacts DEF Wake, Rank, Outcomes, Counted
<1>6. CASE Interrupt(m)
  <2>1. step'[m] = "cancelled"
        /\ \A n \in Messages : n # m => Row(n)' = Row(n)
    BY <1>6 DEF IInv, TypeOK, Interrupt, Row
  <2> QED
    BY <1>6, <2>1, RowFacts DEF Interrupt, Rank, Outcomes, Counted
<1> QED
  BY <1>1, <1>2, <1>3, <1>4, <1>5, <1>6 DEF Sender

\* The start of the goroutine, the caller and the service.
LEMMA OthersDescend ==
  ASSUME IInv, NEW m \in Messages,
         SendAsync(m) \/ CallerReturns(m) \/ Judge(m) \/ JudgeLate(m)
  PROVE  Rank(m)' <= Rank(m) /\ \A n \in Messages : n # m => Row(n)' = Row(n)
<1>1. CASE SendAsync(m)
  <2>1. step[m] = "new" /\ step'[m] = "check" /\ UNCHANGED made
        /\ \A n \in Messages : n # m => Row(n)' = Row(n)
    BY <1>1 DEF IInv, TypeOK, SendAsync, Row
  <2> QED
    BY <2>1, RowFacts DEF Rank, Counted, Outcomes
<1>2. CASE CallerReturns(m) \/ JudgeLate(m)
  <2>1. UNCHANGED <<step, made, flight>> /\ \A n \in Messages : n # m => Row(n)' = Row(n)
    BY <1>2 DEF IInv, TypeOK, CallerReturns, JudgeLate, Row
  <2>2. Rank(m)' = Rank(m)
    BY <2>1 DEF Rank
  <2> QED
    BY <2>1, <2>2, RankBounds
<1>3. CASE Judge(m)
  <2>1. flight'[m] # "none" /\ UNCHANGED <<step, made>>
        /\ \A n \in Messages : n # m => Row(n)' = Row(n)
    BY <1>3 DEF IInv, TypeOK, Judge, Row
  <2> QED
    BY <1>3, <2>1, RowFacts DEF Judge, Rank, Counted, Outcomes
<1> QED
  BY <1>1, <1>2, <1>3

\* A send that is asked for takes at most 4 * MaxRetries + 4 steps (send,
\* sendRequest, http.Client.Timeout).
THEOREM BoundedSend == Spec => DrawsToAnEnd
<1>1. ASSUME IInv, Next, NEW n \in Messages
      PROVE  /\ Rank(n) \in 0 .. 4 * MaxRetries + 4 /\ Rank(n)' <= Rank(n)
             /\ Sender(n) => Rank(n)' < Rank(n)
  <2>1. PICK m \in Messages :
          SendAsync(m) \/ CallerReturns(m) \/ Sender(m) \/ Judge(m) \/ JudgeLate(m)
    BY <1>1 DEF Next
  <2>2. CASE n = m
    <3>1. Rank(n) \in 0 .. 4 * MaxRetries + 4
      BY <1>1, RankBounds
    <3>2. Sender(n) => Rank(n)' \in Nat /\ Rank(n)' < Rank(n)
      BY <1>1, SenderDescends
    <3>3. ~Sender(n) => Rank(n)' <= Rank(n)
      BY <1>1, <2>1, <2>2, OthersDescend
    <3> QED
      BY <3>1, <3>2, <3>3
  <2>3. CASE n # m
    <3>1. Row(n)' = Row(n)
      BY <1>1, <2>1, <2>3, SenderDescends, OthersDescend
    <3>2. Rank(n)' = Rank(n)
      BY <3>1 DEF Row, Rank
    <3>3. ~Sender(n)
      BY <1>1, <3>2, SenderDescends, RankBounds
    <3> QED
      BY <1>1, <3>2, <3>3, RankBounds
  <2> QED
    BY <2>2, <2>3
<1>2. IInv /\ [Next]_vars => [\A m \in Messages : Descent(m)]_vars
  BY <1>1 DEF Descent
<1> QED
  BY <1>2, Inductive, PTL DEF Spec, DrawsToAnEnd
=============================================================================
