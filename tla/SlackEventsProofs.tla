------------------------- MODULE SlackEventsProofs -------------------------
(***************************************************************************)
(* Proofs about module SlackEvents, for every set of messages, every       *)
(* number of deliveries, tries and crashes.                                *)
(***************************************************************************)
EXTENDS SlackEvents, TLAPS

\* What is known of one delivery.
Delivery(m, d) ==
  /\ way[m][d] # "none" \/ work[m][d] # "none" => d <= sent[m]
  /\ d < sent[m] /\ d \notin missed[m] => way[m][d] = "over" /\ work[m][d] = "none"
  /\ way[m][d] \in {"travelling", "stale", "refused"} => work[m][d] = "none"
  /\ way[m][d] = "handling" => work[m][d] # "none" /\ kind[m] # "challenge"
  /\ way[m][d] = "answered" /\ kind[m] = "event" => work[m][d] # "none"
  /\ way[m][d] = "answered" /\ kind[m] = "command" => work[m][d] = "ended"
  /\ note[m][d] # "none" => enabled /\ work[m][d] \notin {"none", "running"}

\* What is known of Slack's side of a message.
Sender(m) ==
  /\ slack[m] = "new" => sent[m] = 0
  /\ slack[m] = "waiting" => sent[m] \in Deliveries

IInv ==
  /\ TypeOK
  /\ \A m \in Messages : Sender(m)
  /\ \A m \in Messages, d \in Deliveries : Delivery(m, d)

USE DEF Move, notes

---------------------------------------------------------------------------
(* Functions of messages and deliveries                                    *)

\* The functions of messages and deliveries.
Table(T) == [Messages -> [Deliveries -> T]]

\* One entry of such a function is changed, every other left as it is.
Put(f, m, d, x) == [f EXCEPT ![m][d] = x]

Others(f, g, m, d) ==
  \A n \in Messages, c \in Deliveries : n # m \/ c # d => g[n][c] = f[n][c]

LEMMA SetEntry ==
  ASSUME NEW T, NEW f \in Table(T), NEW x \in T,
         NEW m \in Messages, NEW d \in Deliveries
  PROVE  /\ Put(f, m, d, x) \in Table(T)
         /\ Put(f, m, d, x)[m][d] = x
         /\ Others(f, Put(f, m, d, x), m, d)
<1> DEFINE row == [f[m] EXCEPT ![d] = x]
           g == Put(f, m, d, x)
<1>1. row \in [Deliveries -> T] /\ row[d] = x
  BY DEF Table
<1>2. \A c \in Deliveries : c # d => row[c] = f[m][c]
  BY DEF Table
<1>3. g = [f EXCEPT ![m] = row]
  BY DEF Put, Table
<1> HIDE DEF row, g
<1>4. g \in Table(T) /\ g[m] = row
  BY <1>1, <1>3 DEF Table
<1>5. \A n \in Messages : n # m => g[n] = f[n]
  BY <1>3 DEF Table
<1>6. Others(f, g, m, d)
  BY <1>1, <1>2, <1>4, <1>5 DEF Others
<1> QED
  BY <1>1, <1>4, <1>6 DEF g

LEMMA SetWay ==
  ASSUME way \in Table(Ways), NEW m \in Messages, NEW d \in Deliveries,
         NEW w \in Ways, way' = [way EXCEPT ![m][d] = w]
  PROVE  way' \in Table(Ways) /\ way'[m][d] = w /\ Others(way, way', m, d)
<1>1. way' = Put(way, m, d, w)
  BY DEF Put
<1>2. /\ Put(way, m, d, w) \in Table(Ways)
      /\ Put(way, m, d, w)[m][d] = w
      /\ Others(way, Put(way, m, d, w), m, d)
  BY SetEntry
<1> QED
  BY <1>1, <1>2

LEMMA SetWork ==
  ASSUME work \in Table(Works), NEW m \in Messages, NEW d \in Deliveries,
         NEW k \in Works, work' = [work EXCEPT ![m][d] = k]
  PROVE  work' \in Table(Works) /\ work'[m][d] = k /\ Others(work, work', m, d)
<1>1. work' = Put(work, m, d, k)
  BY DEF Put
<1>2. /\ Put(work, m, d, k) \in Table(Works)
      /\ Put(work, m, d, k)[m][d] = k
      /\ Others(work, Put(work, m, d, k), m, d)
  BY SetEntry
<1> QED
  BY <1>1, <1>2

LEMMA SetNote ==
  ASSUME note \in Table(Notes), NEW m \in Messages, NEW d \in Deliveries,
         NEW t \in Notes, note' = [note EXCEPT ![m][d] = t]
  PROVE  note' \in Table(Notes) /\ note'[m][d] = t /\ Others(note, note', m, d)
<1>1. note' = Put(note, m, d, t)
  BY DEF Put
<1>2. /\ Put(note, m, d, t) \in Table(Notes)
      /\ Put(note, m, d, t)[m][d] = t
      /\ Others(note, Put(note, m, d, t), m, d)
  BY SetEntry
<1> QED
  BY <1>1, <1>2

\* One more try, or one more message posted.
Counts == 0 .. MaxRetries

LEMMA CountOneMore ==
  ASSUME NEW f \in Table(Counts), NEW m \in Messages, NEW d \in Deliveries, f[m][d] < MaxRetries
  PROVE  /\ [f EXCEPT ![m][d] = @ + 1] \in Table(Counts)
         /\ [f EXCEPT ![m][d] = @ + 1][m][d] = f[m][d] + 1
         /\ Others(f, [f EXCEPT ![m][d] = @ + 1], m, d)
<1> DEFINE x == f[m][d] + 1
<1>1. f[m][d] \in Counts
  BY DEF Table
<1>2. x \in Counts
  BY <1>1, BoundsAssumption DEF Counts
<1>3. [f EXCEPT ![m][d] = @ + 1] = Put(f, m, d, x)
  BY DEF Put
<1> HIDE DEF x
<1>4. /\ Put(f, m, d, x) \in Table(Counts)
      /\ Put(f, m, d, x)[m][d] = x
      /\ Others(f, Put(f, m, d, x), m, d)
  BY <1>2, SetEntry
<1> QED
  BY <1>3, <1>4 DEF x

\* Where the entry belongs afterwards.
LEMMA WhereAdd ==
  ASSUME NEW T, NEW f \in Table(T), NEW x \in T, NEW S,
         NEW m \in Messages, NEW d \in Deliveries, x \in S
  PROVE  Where(Put(f, m, d, x), S) = [Where(f, S) EXCEPT ![m] = @ \union {d}]
<1> DEFINE g == Put(f, m, d, x)
<1>1. g[m][d] = x /\ \A n \in Messages, c \in Deliveries : n # m \/ c # d => g[n][c] = f[n][c]
  BY SetEntry DEF Others
<1> HIDE DEF g
<1>2. ASSUME NEW n \in Messages
      PROVE  {c \in Deliveries : g[n][c] \in S}
               = IF n = m THEN {c \in Deliveries : f[n][c] \in S} \union {d}
                          ELSE {c \in Deliveries : f[n][c] \in S}
  BY <1>1
<1>3. Where(g, S) = [Where(f, S) EXCEPT ![m] = @ \union {d}]
  BY <1>2 DEF Where
<1> QED
  BY <1>3 DEF g

LEMMA WhereRemove ==
  ASSUME NEW T, NEW f \in Table(T), NEW x \in T, NEW S,
         NEW m \in Messages, NEW d \in Deliveries, x \notin S
  PROVE  Where(Put(f, m, d, x), S) = [Where(f, S) EXCEPT ![m] = @ \ {d}]
<1> DEFINE g == Put(f, m, d, x)
<1>1. g[m][d] = x /\ \A n \in Messages, c \in Deliveries : n # m \/ c # d => g[n][c] = f[n][c]
  BY SetEntry DEF Others
<1> HIDE DEF g
<1>2. ASSUME NEW n \in Messages
      PROVE  {c \in Deliveries : g[n][c] \in S}
               = IF n = m THEN {c \in Deliveries : f[n][c] \in S} \ {d}
                          ELSE {c \in Deliveries : f[n][c] \in S}
  BY <1>1
<1>3. Where(g, S) = [Where(f, S) EXCEPT ![m] = @ \ {d}]
  BY <1>2 DEF Where
<1> QED
  BY <1>3 DEF g

LEMMA WhereSame ==
  ASSUME NEW T, NEW f \in Table(T), NEW x \in T, NEW S,
         NEW m \in Messages, NEW d \in Deliveries, f[m][d] \in S <=> x \in S
  PROVE  Where(Put(f, m, d, x), S) = Where(f, S)
<1>1. \A n \in Messages, c \in Deliveries : Put(f, m, d, x)[n][c] \in S <=> f[n][c] \in S
  BY SetEntry DEF Others
<1> QED
  BY <1>1 DEF Where

---------------------------------------------------------------------------
(* The invariant                                                           *)

LEMMA InitHolds == Init => IInv
  BY BoundsAssumption
  DEF Init, IInv, TypeOK, Sender, Delivery, Each, Deliveries, Ways, Works, Notes

\* A step about one delivery.
LEMMA DeliveryKeeps ==
  ASSUME IInv, NEW m \in Messages, NEW d \in Deliveries,
         UNCHANGED <<config, sent, missed, crashes>>,
         slack' = slack \/ slack' = [slack EXCEPT ![m] = "told"],
         way' \in Table(Ways), Others(way, way', m, d),
         work' \in Table(Works), Others(work, work', m, d),
         note' \in Table(Notes), Others(note, note', m, d),
         tries' \in Table(Counts), posted' \in Table(Counts),
         Delivery(m, d)'
  PROVE  IInv'
<1>1. TypeOK'
  BY DEF IInv, TypeOK, Table, Counts, config
<1>2. ASSUME NEW n \in Messages PROVE Sender(n)'
  BY DEF IInv, TypeOK, Sender
<1>3. ASSUME NEW n \in Messages, NEW c \in Deliveries, n # m \/ c # d PROVE Delivery(n, c)'
  <2>1. way'[n][c] = way[n][c] /\ work'[n][c] = work[n][c] /\ note'[n][c] = note[n][c]
    BY <1>3 DEF Others
  <2>2. Delivery(n, c)
    BY DEF IInv
  <2> QED
    BY <2>1, <2>2 DEF Delivery, config
<1> QED
  BY <1>1, <1>2, <1>3 DEF IInv

LEMMA Entries ==
  ASSUME IInv, NEW m \in Messages, NEW d \in Deliveries
  PROVE  /\ way \in Table(Ways)
         /\ work \in Table(Works)
         /\ note \in Table(Notes)
         /\ tries \in Table(Counts) /\ posted \in Table(Counts)
         /\ Delivery(m, d)
  BY DEF IInv, TypeOK, Table, Counts

\* A step that moves a delivery and leaves callbacks and notifications alone.
LEMMA MoveKeeps ==
  ASSUME IInv, NEW m \in Messages, NEW d \in Deliveries, NEW w \in Ways \ {"none"},
         Move(m, d, w), UNCHANGED <<config, sent, missed, work, notes, crashes>>,
         slack' = slack \/ slack' = [slack EXCEPT ![m] = "told"],
         way[m][d] # "none",
         d < sent[m] /\ d \notin missed[m] => way[m][d] = "over" /\ w = "over",
         w \in {"travelling", "stale", "refused"} => work[m][d] = "none",
         w = "handling" => work[m][d] # "none" /\ kind[m] # "challenge",
         w = "answered" /\ kind[m] = "event" => work[m][d] # "none",
         w = "answered" /\ kind[m] = "command" => work[m][d] = "ended"
  PROVE  IInv'
<1>1. way' \in Table(Ways) /\ way'[m][d] = w /\ Others(way, way', m, d)
  BY Entries, SetWay
<1>2. Others(work, work', m, d) /\ Others(note, note', m, d)
  BY DEF Others
<1>3. Delivery(m, d)'
  BY <1>1, Entries DEF Delivery, config
<1> QED
  BY <1>1, <1>2, <1>3, Entries, DeliveryKeeps

\* The network and the handlers.
LEMMA HandlingKeeps ==
  ASSUME IInv, NEW m \in Messages, NEW d \in Deliveries,
         Lose(m, d) \/ Age(m, d) \/ Refuse(m, d) \/ Echo(m, d) \/ Return(m, d)
  PROVE  IInv'
<1>0. {"stale", "answered", "refused", "over"} \subseteq Ways \ {"none"}
  BY DEF Ways
<1>1. CASE Lose(m, d)
  BY <1>0, <1>1, Entries, MoveKeeps DEF Lose, Delivery, sender
<1>2. CASE Age(m, d)
  BY <1>0, <1>2, Entries, MoveKeeps DEF Age, Delivery, sender
<1>3. CASE Refuse(m, d)
  BY <1>0, <1>3, Entries, MoveKeeps DEF Refuse, Delivery, sender
<1>4. CASE Echo(m, d)
  BY <1>0, <1>4, Entries, MoveKeeps DEF Echo, Delivery, sender
<1>5. CASE Return(m, d)
  BY <1>0, <1>5, Entries, MoveKeeps DEF Return, Delivery, sender
<1> QED
  BY <1>1, <1>2, <1>3, <1>4, <1>5

LEMMA AnswerArrivesKeeps ==
  ASSUME IInv, NEW m \in Messages, NEW d \in Deliveries, AnswerArrives(m, d)
  PROVE  IInv'
  BY Entries, MoveKeeps DEF AnswerArrives, Delivery, Ways

LEMMA AcceptKeeps ==
  ASSUME IInv, NEW m \in Messages, NEW d \in Deliveries, Accept(m, d)
  PROVE  IInv'
<1>0. "handling" \in Ways /\ "running" \in Works
  BY DEF Ways, Works
<1>1. way' \in Table(Ways) /\ way'[m][d] = "handling" /\ Others(way, way', m, d)
  BY <1>0, Entries, SetWay DEF Accept
<1>2. work' \in Table(Works) /\ work'[m][d] = "running" /\ Others(work, work', m, d)
  BY <1>0, Entries, SetWork DEF Accept
<1>3. Others(note, note', m, d)
  BY DEF Accept, Others
<1>4. Delivery(m, d)'
  BY <1>1, <1>2, Entries DEF Accept, Delivery, config, sender
<1> QED
  BY <1>1, <1>2, <1>3, <1>4, Entries, DeliveryKeeps DEF Accept, sender

\* The callbacks and their notifications.
LEMMA CallbackKeeps ==
  ASSUME IInv, NEW m \in Messages, NEW d \in Deliveries, Notify(m, d) \/ EndCallback(m, d)
  PROVE  IInv'
<1>a. {"notified", "ended"} \subseteq Works /\ "queued" \in Notes
  BY DEF Works, Notes
<1>0. /\ way' = way /\ UNCHANGED <<config, sender, crashes>> /\ Others(way, way', m, d)
      /\ tries' = tries /\ posted' = posted
  BY DEF Notify, EndCallback, Others
<1>1. CASE Notify(m, d)
  <2>1. /\ work' \in Table(Works)
        /\ work'[m][d] = "notified" /\ Others(work, work', m, d)
    BY <1>a, <1>1, Entries, SetWork DEF Notify
  <2>2. CASE enabled
    <3>1. /\ note' \in Table(Notes)
          /\ note'[m][d] = "queued" /\ Others(note, note', m, d)
      BY <1>a, <1>1, <2>2, Entries, SetNote DEF Notify
    <3>2. Delivery(m, d)'
      BY <1>0, <1>1, <2>1, <2>2, <3>1, Entries DEF Notify, Delivery, config, sender
    <3> QED
      BY <1>0, <2>1, <3>1, <3>2, Entries, DeliveryKeeps DEF sender
  <2>3. CASE ~enabled
    <3>1. note' = note /\ Others(note, note', m, d)
      BY <1>1, <2>3 DEF Notify, Others
    <3>2. Delivery(m, d)'
      BY <1>0, <1>1, <2>1, <3>1, Entries DEF Notify, Delivery, config, sender
    <3> QED
      BY <1>0, <2>1, <3>1, <3>2, Entries, DeliveryKeeps DEF sender
  <2> QED
    BY <2>2, <2>3
<1>2. CASE EndCallback(m, d)
  <2>1. /\ work' \in Table(Works)
        /\ work'[m][d] = "ended" /\ Others(work, work', m, d)
    BY <1>a, <1>2, Entries, SetWork DEF EndCallback
  <2>2. note' = note /\ Others(note, note', m, d)
    BY <1>2 DEF EndCallback, Others
  <2>3. Delivery(m, d)'
    BY <1>0, <1>2, <2>1, <2>2, Entries DEF EndCallback, Delivery, config, sender
  <2> QED
    BY <1>0, <2>1, <2>2, <2>3, Entries, DeliveryKeeps DEF sender
<1> QED
  BY <1>1, <1>2

LEMMA NotificationKeeps ==
  ASSUME IInv, NEW m \in Messages, NEW d \in Deliveries, Notification(m, d)
  PROVE  IInv'
<1>0. /\ UNCHANGED <<config, sender, way, work, crashes>>
      /\ Others(way, way', m, d) /\ Others(work, work', m, d)
  BY DEF Notification, Try, Post, Report, Drop, Others
<1>1. tries' \in Table(Counts) /\ posted' \in Table(Counts)
  <2>1. CASE Try(m, d)
    BY <2>1, Entries, CountOneMore DEF Try
  <2>2. CASE Post(m, d)
    <3>1. tries[m][d] \in Counts /\ posted[m][d] \in Counts
      BY Entries DEF Table
    <3>2. posted[m][d] < MaxRetries
      BY <2>2, <3>1, BoundsAssumption DEF Post, Counts
    <3> QED
      BY <2>2, <3>2, Entries, CountOneMore DEF Post
  <2>3. CASE Report(m, d) \/ Drop(m, d)
    BY <2>3, Entries DEF Report, Drop
  <2> QED
    BY <2>1, <2>2, <2>3 DEF Notification
<1>2. note' \in Table(Notes) /\ Others(note, note', m, d) /\ Delivery(m, d)'
  <2>1. CASE Try(m, d) \/ Post(m, d)
    <3>1. note' = note
      BY <2>1 DEF Try, Post
    <3> QED
      BY <1>0, <3>1, Entries DEF Others, Delivery, config, sender
  <2>2. CASE Report(m, d) \/ Drop(m, d)
    <3>1. PICK t \in {"sent", "dropped"} : note' = [note EXCEPT ![m][d] = t]
      BY <2>2 DEF Report, Drop
    <3>2. t \in Notes /\ note[m][d] = "queued"
      BY <2>2 DEF Report, Drop, Notes
    <3>3. /\ note' \in Table(Notes)
          /\ note'[m][d] = t /\ Others(note, note', m, d)
      BY <3>1, <3>2, Entries, SetNote
    <3>4. Delivery(m, d)'
      BY <1>0, <3>2, <3>3, Entries DEF Delivery, config, sender
    <3> QED
      BY <3>3, <3>4
  <2> QED
    BY <2>1, <2>2 DEF Notification
<1> QED
  BY <1>0, <1>1, <1>2, Entries, DeliveryKeeps DEF sender

LEMMA SendKeeps ==
  ASSUME IInv, NEW m \in Messages, Send(m)
  PROVE  IInv'
<1>1. sent[m] = 0 /\ 1 \in Deliveries /\ "travelling" \in Ways
  BY BoundsAssumption DEF Send, IInv, Sender, Deliveries, Ways
<1>2. way' \in Table(Ways) /\ way'[m][1] = "travelling" /\ Others(way, way', m, 1)
  BY <1>1, Entries, SetWay DEF Send
<1>3. /\ sent' \in [Messages -> 0 .. MaxDeliveries] /\ sent'[m] = 1
      /\ \A n \in Messages : n # m => sent'[n] = sent[n]
  <2>1. sent \in [Messages -> 0 .. MaxDeliveries] /\ sent' = [sent EXCEPT ![m] = 1]
    BY DEF Send, IInv, TypeOK
  <2> QED
    BY <2>1, BoundsAssumption
<1>6. TypeOK'
  BY <1>2, <1>3 DEF Send, IInv, TypeOK, Table, config
<1>4. ASSUME NEW n \in Messages PROVE Sender(n)'
  BY <1>1, <1>3 DEF Send, IInv, TypeOK, Sender
<1>7. Deliveries \subseteq Nat \ {0}
  BY BoundsAssumption DEF Deliveries
<1>5. ASSUME NEW n \in Messages, NEW c \in Deliveries PROVE Delivery(n, c)'
  <2>1. Delivery(n, c)
    BY DEF IInv
  <2>2. CASE n # m
    BY <2>1, <2>2, <1>2, <1>3 DEF Send, Delivery, Others, config
  <2>3. CASE n = m /\ c = 1
    <3>1. work[m][1] = "none"
      BY <2>1, <2>3, <1>1 DEF Delivery
    <3> QED
      BY <2>1, <2>3, <3>1, <1>2, <1>3 DEF Send, Delivery, config
  <2>4. CASE n = m /\ c # 1
    <3>1. c > 1 /\ way[m][c] = "none" /\ work[m][c] = "none" /\ sent'[m] = 1
      BY <2>1, <2>4, <1>1, <1>3, <1>7 DEF Delivery
    <3>2. way'[m][c] = way[m][c]
      BY <2>4, <1>1, <1>2 DEF Others
    <3> QED
      BY <2>1, <2>4, <3>1, <3>2, <1>7 DEF Send, Delivery, config
  <2> QED
    BY <2>2, <2>3, <2>4
<1> QED
  BY <1>4, <1>5, <1>6 DEF IInv

\* Slack delivers a message again, or gives it up.
LEMMA RedeliverKeeps ==
  ASSUME IInv, NEW m \in Messages, slack[m] = "waiting", NEW w \in Table(Ways), Redeliver(m, w),
         UNCHANGED <<config, work, notes, crashes>>,
         missed' \in [Messages -> SUBSET Deliveries], missed[m] \subseteq missed'[m],
         \A n \in Messages : n # m => missed'[n] = missed[n],
         Others(way, w, m, sent[m]),
         \/ w = way /\ sent[m] \in missed'[m]
         \/ w[m][sent[m]] = "over" /\ work[m][sent[m]] = "none"
  PROVE  IInv'
<1>1. /\ sent \in [Messages -> 0 .. MaxDeliveries] /\ sent[m] \in Deliveries
      /\ Deliveries \subseteq Nat
  <2>1. sent \in [Messages -> 0 .. MaxDeliveries] /\ sent[m] \in Deliveries
    BY DEF IInv, TypeOK, Sender
  <2>2. Deliveries \subseteq Nat
    BY BoundsAssumption DEF Deliveries
  <2> QED
    BY <2>1, <2>2
<1>2. ASSUME NEW n \in Messages, NEW c \in Deliveries, n # m \/ c # sent[m] PROVE w[n][c] = way[n][c]
  BY <1>2 DEF Others
<1>3. CASE kind[m] # "command" /\ sent[m] < MaxDeliveries
  <2> DEFINE e == sent[m] + 1
  <2>1. e \in Deliveries /\ "travelling" \in Ways
    BY <1>1, <1>3, BoundsAssumption DEF Deliveries, Ways
  <2>2. UNCHANGED slack /\ sent' = [sent EXCEPT ![m] = e] /\ way' = Put(w, m, e, "travelling")
    BY <1>3 DEF Redeliver, Put
  <2>3. way' \in Table(Ways) /\ way'[m][e] = "travelling" /\ Others(w, way', m, e)
    <3>1. /\ Put(w, m, e, "travelling") \in Table(Ways)
          /\ Put(w, m, e, "travelling")[m][e] = "travelling"
          /\ Others(w, Put(w, m, e, "travelling"), m, e)
      BY <2>1, SetEntry
    <3> QED
      BY <2>2, <3>1
  <2>4. sent'[m] = e /\ \A n \in Messages : n # m => sent'[n] = sent[n]
    BY <1>1, <2>2
  <2>8. sent' \in [Messages -> 0 .. MaxDeliveries]
    BY <1>1, <1>3, <2>2, BoundsAssumption
  <2>5. TypeOK'
    BY <2>2, <2>3, <2>8 DEF IInv, TypeOK, Table, config
  <2>6. ASSUME NEW n \in Messages PROVE Sender(n)'
    BY <2>1, <2>2, <2>4 DEF IInv, Sender
  <2>7. ASSUME NEW n \in Messages, NEW c \in Deliveries PROVE Delivery(n, c)'
    <3>1. Delivery(n, c)
      BY DEF IInv
    <3>2. CASE n # m
      <4>1. way'[n][c] = way[n][c]
        BY <1>2, <2>3, <3>2 DEF Others
      <4> QED
        BY <3>1, <3>2, <4>1, <2>4 DEF Delivery, config
    <3>3. CASE n = m /\ c = e
      <4>1. work[m][e] = "none"
        BY <1>1, <3>1, <3>3 DEF Delivery
      <4> QED
        BY <1>1, <3>1, <3>3, <4>1, <2>3, <2>4 DEF Delivery, config
    <3>4. CASE n = m /\ c = sent[m]
      <4>1. way'[m][c] = w[m][c]
        BY <1>1, <2>3, <3>4 DEF Others
      <4>2. c < e
        BY <1>1, <3>4
      <4>3. CASE w = way /\ sent[m] \in missed'[m]
        BY <1>1, <3>1, <3>4, <4>1, <4>2, <4>3, <2>4 DEF Delivery, config
      <4>4. CASE w[m][sent[m]] = "over" /\ work[m][sent[m]] = "none"
        BY <1>1, <3>1, <3>4, <4>1, <4>2, <4>4, <2>4 DEF Delivery, config
      <4> QED
        BY <4>3, <4>4
    <3>5. CASE n = m /\ c # e /\ c # sent[m]
      <4>1. way'[m][c] = way[m][c]
        BY <1>2, <2>3, <3>5 DEF Others
      <4>2. (c <= sent[m] => c <= e) /\ (c < e => c < sent[m])
        BY <1>1, <3>5
      <4> QED
        BY <3>1, <3>5, <4>1, <4>2, <2>4 DEF Delivery, config
    <3> QED
      BY <3>2, <3>3, <3>4, <3>5
  <2> QED
    BY <2>5, <2>6, <2>7 DEF IInv
<1>4. CASE ~(kind[m] # "command" /\ sent[m] < MaxDeliveries)
  <2>1. way' = w /\ UNCHANGED sent /\ slack' = [slack EXCEPT ![m] = "gave up"]
    BY <1>4 DEF Redeliver
  <2>2. TypeOK'
    BY <2>1 DEF IInv, TypeOK, Table, config
  <2>3. ASSUME NEW n \in Messages PROVE Sender(n)'
    BY <2>1 DEF IInv, TypeOK, Sender
  <2>4. ASSUME NEW n \in Messages, NEW c \in Deliveries PROVE Delivery(n, c)'
    <3>1. Delivery(n, c)
      BY DEF IInv
    <3>2. CASE n = m /\ c = sent[m]
      <4>1. CASE w = way
        BY <3>1, <3>2, <4>1, <2>1 DEF Delivery, config
      <4>2. CASE w[m][sent[m]] = "over" /\ work[m][sent[m]] = "none"
        <5>1. way'[n][c] = "over" /\ work'[n][c] = "none" /\ note'[n][c] = "none"
          BY <3>1, <3>2, <4>2, <2>1 DEF Delivery
        <5>2. c <= sent'[n]
          <6>1. c \in Nat
            BY <1>1
          <6>2. sent'[n] = c
            BY <3>2, <2>1
          <6> QED
            BY <6>1, <6>2
        <5> QED
          BY <5>1, <5>2 DEF Delivery
      <4> QED
        BY <4>1, <4>2
    <3>3. CASE n # m \/ c # sent[m]
      BY <1>2, <3>1, <3>3, <2>1 DEF Delivery, config
    <3> QED
      BY <3>2, <3>3
  <2> QED
    BY <2>2, <2>3, <2>4 DEF IInv
<1> QED
  BY <1>3, <1>4

LEMMA MissKeeps ==
  ASSUME IInv, NEW m \in Messages, Miss(m)
  PROVE  IInv'
<1>1. sent[m] \in Deliveries /\ way \in Table(Ways)
  BY DEF Miss, IInv, TypeOK, Sender, Table
<1>2. /\ missed' \in [Messages -> SUBSET Deliveries]
      /\ sent[m] \in missed'[m] /\ missed[m] \subseteq missed'[m]
      /\ \A n \in Messages : n # m => missed'[n] = missed[n]
  BY <1>1 DEF Miss, IInv, TypeOK
<1>3. Others(way, way, m, sent[m])
  BY DEF Others
<1> QED
  BY <1>1, <1>2, <1>3, RedeliverKeeps DEF Miss

LEMMA RefusalArrivesKeeps ==
  ASSUME IInv, NEW m \in Messages, NEW d \in Deliveries, RefusalArrives(m, d)
  PROVE  IInv'
<1>1. CASE Awaited(m, d)
  <2> DEFINE w == Put(way, m, d, "over")
  <2>0. "over" \in Ways
    BY DEF Ways
  <2>1. w \in Table(Ways) /\ w[m][d] = "over" /\ Others(way, w, m, d)
    BY <2>0, Entries, SetEntry
  <2>2. Redeliver(m, w)
    BY <1>1 DEF RefusalArrives, Put
  <2>3. work[m][d] = "none" /\ slack[m] = "waiting" /\ d = sent[m]
    BY <1>1, Entries DEF RefusalArrives, Awaited, Delivery
  <2>4. missed' = missed /\ missed \in [Messages -> SUBSET Deliveries]
    BY DEF RefusalArrives, IInv, TypeOK
  <2> HIDE DEF w
  <2> QED
    BY <2>1, <2>2, <2>3, <2>4, RedeliverKeeps DEF RefusalArrives
<1>2. CASE ~Awaited(m, d)
  BY <1>2, Entries, MoveKeeps DEF RefusalArrives, Delivery, Ways
<1> QED
  BY <1>1, <1>2

LEMMA CrashKeeps ==
  ASSUME IInv, Crash
  PROVE  IInv'
<1>1. TypeOK'
  <2>1. way' \in [Messages -> [Deliveries -> Ways]]
    BY DEF Crash, IInv, TypeOK, Ways
  <2>2. work' \in [Messages -> [Deliveries -> Works]]
    BY DEF Crash, IInv, TypeOK, Works
  <2>3. note' \in [Messages -> [Deliveries -> Notes]]
    BY DEF Crash, IInv, TypeOK, Notes
  <2>4. crashes' \in 0 .. MaxCrashes
    <3>1. crashes \in 0 .. MaxCrashes /\ crashes < MaxCrashes /\ crashes' = crashes + 1
      BY DEF Crash, IInv, TypeOK
    <3> QED
      BY <3>1, BoundsAssumption
  <2> QED
    BY <2>1, <2>2, <2>3, <2>4 DEF Crash, IInv, TypeOK, config, sender
<1>2. ASSUME NEW n \in Messages PROVE Sender(n)'
  BY DEF Crash, IInv, Sender, sender
<1>3. ASSUME NEW n \in Messages, NEW c \in Deliveries PROVE Delivery(n, c)'
  <2>1. /\ way'[n][c] = IF way[n][c] = "handling" THEN "over" ELSE way[n][c]
        /\ work'[n][c] = IF work[n][c] \in {"running", "notified"} THEN "lost" ELSE work[n][c]
        /\ note'[n][c] = IF note[n][c] = "queued" THEN "dropped" ELSE note[n][c]
    BY DEF Crash
  <2>2. Delivery(n, c)
    BY DEF IInv
  <2> QED
    BY <2>1, <2>2 DEF Crash, Delivery, config, sender
<1> QED
  BY <1>1, <1>2, <1>3 DEF IInv

LEMMA NextKeeps == IInv /\ [Next]_vars => IInv'
<1> SUFFICES ASSUME IInv, [Next]_vars PROVE IInv'
  OBVIOUS
<1>1. CASE UNCHANGED vars
  BY <1>1 DEF vars, config, sender, IInv, TypeOK, Sender, Delivery
<1>2. ASSUME NEW m \in Messages, Send(m) \/ Miss(m) PROVE IInv'
  BY <1>2, SendKeeps, MissKeeps
<1>3. ASSUME NEW m \in Messages, NEW d \in Deliveries,
             \/ Lose(m, d) \/ Age(m, d) \/ AnswerArrives(m, d) \/ RefusalArrives(m, d)
             \/ Handler(m, d) \/ Callback(m, d)
      PROVE  IInv'
  BY <1>3, HandlingKeeps, AnswerArrivesKeeps, RefusalArrivesKeeps, AcceptKeeps, CallbackKeeps,
     NotificationKeeps
  DEF Handler, Callback
<1>4. CASE Crash
  BY <1>4, CrashKeeps
<1> QED
  BY <1>1, <1>2, <1>3, <1>4 DEF Next

---------------------------------------------------------------------------
(* Theorems                                                                *)

\* Every delivery moves through its handler and its callback in order, and what
\* Slack has seen of it agrees with where it is.
THEOREM Inductive == Spec => []IInv
  BY InitHolds, NextKeeps, PTL DEF Spec

\* The variables keep their types, for every number of messages, deliveries and
\* crashes.
THEOREM TypeCorrect == Spec => []TypeOK
  BY Inductive, PTL DEF IInv

LEMMA RepeatsAreMissed == IInv => RepeatNeedsMiss
<1> SUFFICES ASSUME IInv, NEW m \in Messages, NEW d \in Started(m)
             PROVE  d = sent[m] \/ d \in missed[m]
  BY DEF RepeatNeedsMiss
<1>1. d \in Deliveries /\ work[m][d] # "none" /\ Delivery(m, d)
  BY DEF Started, IInv
<1>2. d \in Nat /\ sent[m] \in Nat
  <2>1. sent \in [Messages -> 0 .. MaxDeliveries]
    BY DEF IInv, TypeOK
  <2> QED
    BY <1>1, <2>1, BoundsAssumption DEF Deliveries
<1> QED
  BY <1>1, <1>2 DEF Delivery

\* An event is processed again only if Slack missed the answer to every earlier
\* delivery that was processed, and no delivery that was processed is refused.
THEOREM RepeatsNeedMiss == Spec => []RepeatNeedsMiss
  BY Inductive, RepeatsAreMissed, PTL

---------------------------------------------------------------------------
(* The promise                                                             *)

LEMMA PromiseBegins == Init => Promise!PromiseInit
<1> SUFFICES ASSUME Init PROVE Promise!PromiseInit
  OBVIOUS
<1>1. Where(way, {"handling"}) = Promise!Nothing
  BY DEF Init, Each, Where, Promise!Nothing
<1>2. Where(work, Works \ {"none"}) = Promise!Nothing /\ Where(work, {"ended"}) = Promise!Nothing
  BY DEF Init, Each, Where, Promise!Nothing
<1>3. tries = Promise!Never /\ posted = Promise!Never
  BY DEF Init, Each, Promise!Never
<1>4. {m \in Messages : slack[m] = "told"} = {}
  BY DEF Init
<1> QED
  BY <1>1, <1>2, <1>3, <1>4 DEF Init, Kinds, Promise!PromiseInit

\* The answer and the loss of a delivery, and the steps of Slack, that change
\* nothing the promise is about.
LEMMA Stutters ==
  ASSUME UNCHANGED <<config, work, notes>>,
         \A n \in Messages, c \in Deliveries : way'[n][c] = "handling" <=> way[n][c] = "handling",
         \A n \in Messages : slack'[n] = "told" <=> slack[n] = "told"
  PROVE  UNCHANGED Promise!promiseVars
<1>1. Where(way, {"handling"})' = Where(way, {"handling"})
  BY DEF Where
<1>2. /\ Where(work, Works \ {"none"})' = Where(work, Works \ {"none"})
      /\ Where(work, {"ended"})' = Where(work, {"ended"})
  BY DEF Where
<1>3. {m \in Messages : slack[m] = "told"}' = {m \in Messages : slack[m] = "told"}
  OBVIOUS
<1> QED
  BY <1>1, <1>2, <1>3 DEF Promise!promiseVars, config

LEMMA MoveStutters ==
  ASSUME IInv, NEW m \in Messages, NEW d \in Deliveries, NEW w \in Ways, w # "handling",
         Move(m, d, w), way[m][d] # "handling",
         UNCHANGED <<config, slack, work, notes>>
  PROVE  UNCHANGED Promise!promiseVars
<1>1. way'[m][d] = w /\ Others(way, way', m, d)
  BY Entries, SetWay
<1>2. \A n \in Messages, c \in Deliveries : way'[n][c] = "handling" <=> way[n][c] = "handling"
  BY <1>1 DEF Others
<1> QED
  BY <1>2, Stutters

LEMMA RedeliverStutters ==
  ASSUME IInv, NEW m \in Messages, slack[m] = "waiting", NEW w \in Table(Ways), Redeliver(m, w),
         UNCHANGED <<config, work, notes>>,
         Others(way, w, m, sent[m]),
         w[m][sent[m]] = "handling" <=> way[m][sent[m]] = "handling"
  PROVE  UNCHANGED Promise!promiseVars
<1>1. \A n \in Messages, c \in Deliveries : w[n][c] = "handling" <=> way[n][c] = "handling"
  BY DEF Others
<1>2. \A n \in Messages : slack'[n] = "told" <=> slack[n] = "told"
  <2>1. slack' = slack \/ slack' = [slack EXCEPT ![m] = "gave up"]
    BY DEF Redeliver
  <2> QED
    BY <2>1 DEF IInv, TypeOK
<1>3. CASE kind[m] # "command" /\ sent[m] < MaxDeliveries
  <2> DEFINE e == sent[m] + 1
  <2>1. sent[m] \in Deliveries /\ Deliveries \subseteq Nat
    BY BoundsAssumption DEF IInv, Sender, Deliveries
  <2>2. e \in Deliveries /\ ~(e <= sent[m]) /\ e # sent[m] /\ "travelling" \in Ways
    BY <2>1, <1>3, BoundsAssumption DEF Deliveries, Ways
  <2>3. way' = Put(w, m, e, "travelling")
    BY <1>3 DEF Redeliver, Put
  <2> HIDE DEF e
  <2>4. Put(w, m, e, "travelling")[m][e] = "travelling" /\ Others(w, Put(w, m, e, "travelling"), m, e)
    BY <2>2, SetEntry
  <2>5. w[m][e] = "none"
    BY <2>2, Entries DEF Others, Delivery
  <2>6. \A n \in Messages, c \in Deliveries : way'[n][c] = "handling" <=> way[n][c] = "handling"
    BY <1>1, <2>3, <2>4, <2>5 DEF Others
  <2> QED
    BY <1>2, <2>6, Stutters
<1>4. CASE ~(kind[m] # "command" /\ sent[m] < MaxDeliveries)
  <2>1. way' = w
    BY <1>4 DEF Redeliver
  <2> QED
    BY <1>1, <1>2, <2>1, Stutters
<1> QED
  BY <1>3, <1>4

\* Slack and the network.
LEMMA SenderStep ==
  ASSUME IInv, NEW m \in Messages, NEW d \in Deliveries,
         Send(m) \/ Miss(m) \/ RefusalArrives(m, d)
  PROVE  UNCHANGED Promise!promiseVars
<1>1. CASE Send(m)
  <2>1. sent[m] = 0 /\ 1 \in Deliveries /\ ~(1 <= sent[m]) /\ "travelling" \in Ways
    BY <1>1, BoundsAssumption DEF Send, IInv, Sender, Deliveries, Ways
  <2>2. way[m][1] = "none"
    BY <2>1, Entries DEF Delivery
  <2>3. way'[m][1] = "travelling" /\ Others(way, way', m, 1)
    BY <1>1, <2>1, Entries, SetWay DEF Send
  <2>4. \A n \in Messages, c \in Deliveries : way'[n][c] = "handling" <=> way[n][c] = "handling"
    BY <2>2, <2>3 DEF Others
  <2>5. \A n \in Messages : slack'[n] = "told" <=> slack[n] = "told"
    BY <1>1 DEF Send, IInv, TypeOK
  <2> QED
    BY <1>1, <2>4, <2>5, Stutters DEF Send
<1>2. CASE Miss(m)
  <2>1. Others(way, way, m, sent[m]) /\ way \in Table(Ways)
    BY Entries DEF Others
  <2> QED
    BY <1>2, <2>1, RedeliverStutters DEF Miss
<1>3. CASE RefusalArrives(m, d) /\ Awaited(m, d)
  <2> DEFINE w == Put(way, m, d, "over")
  <2>0. "over" \in Ways
    BY DEF Ways
  <2>1. w \in Table(Ways) /\ w[m][d] = "over" /\ Others(way, w, m, d)
    BY <2>0, Entries, SetEntry
  <2>2. Redeliver(m, w) /\ slack[m] = "waiting" /\ d = sent[m] /\ way[m][d] = "refused"
    BY <1>3 DEF RefusalArrives, Awaited, Put
  <2> HIDE DEF w
  <2> QED
    BY <1>3, <2>1, <2>2, RedeliverStutters DEF RefusalArrives
<1>4. CASE RefusalArrives(m, d) /\ ~Awaited(m, d)
  <2>1. "over" \in Ways
    BY DEF Ways
  <2> QED
    BY <1>4, <2>1, MoveStutters DEF RefusalArrives
<1> QED
  BY <1>1, <1>2, <1>3, <1>4

LEMMA NetworkStep ==
  ASSUME IInv, NEW m \in Messages, NEW d \in Deliveries,
         Lose(m, d) \/ Age(m, d) \/ Refuse(m, d) \/ Echo(m, d)
  PROVE  UNCHANGED Promise!promiseVars
<1>0. {"stale", "answered", "refused", "over"} \subseteq Ways
  BY DEF Ways
<1>1. CASE Lose(m, d)
  BY <1>0, <1>1, MoveStutters DEF Lose, sender
<1>2. CASE Age(m, d)
  BY <1>0, <1>2, MoveStutters DEF Age, sender
<1>3. CASE Refuse(m, d)
  BY <1>0, <1>3, MoveStutters DEF Refuse, sender
<1>4. CASE Echo(m, d)
  BY <1>0, <1>4, MoveStutters DEF Echo, sender
<1> QED
  BY <1>1, <1>2, <1>3, <1>4

\* What the steps of a handler and its callback do to the sets of the promise.
LEMMA WayBecomes ==
  ASSUME way \in Table(Ways), NEW m \in Messages, NEW d \in Deliveries, NEW w \in Ways,
         way' = [way EXCEPT ![m][d] = w]
  PROVE  /\ w = "handling" =>
              Where(way, {"handling"})' = [Where(way, {"handling"}) EXCEPT ![m] = @ \union {d}]
         /\ w # "handling" =>
              Where(way, {"handling"})' = [Where(way, {"handling"}) EXCEPT ![m] = @ \ {d}]
<1> DEFINE S == {"handling"}
<1>1. way' = Put(way, m, d, w) /\ (w \in S <=> w = "handling")
  BY DEF Put
<1> HIDE DEF S
<1>2. w \in S => Where(Put(way, m, d, w), S) = [Where(way, S) EXCEPT ![m] = @ \union {d}]
  BY WhereAdd
<1>3. w \notin S => Where(Put(way, m, d, w), S) = [Where(way, S) EXCEPT ![m] = @ \ {d}]
  BY WhereRemove
<1>4. Where(way', S) = Where(Put(way, m, d, w), S)
  BY <1>1
<1> QED
  BY <1>1, <1>2, <1>3, <1>4 DEF S

LEMMA WorkBecomes ==
  ASSUME work \in Table(Works), NEW m \in Messages, NEW d \in Deliveries,
         NEW k \in Works \ {"none"}, work' = [work EXCEPT ![m][d] = k]
  PROVE  /\ work[m][d] = "none" =>
              Where(work, Works \ {"none"})' = [Where(work, Works \ {"none"}) EXCEPT ![m] = @ \union {d}]
         /\ work[m][d] \in Works \ {"none"} =>
              Where(work, Works \ {"none"})' = Where(work, Works \ {"none"})
         /\ k = "ended" => Where(work, {"ended"})' = [Where(work, {"ended"}) EXCEPT ![m] = @ \union {d}]
         /\ k # "ended" /\ work[m][d] # "ended" => Where(work, {"ended"})' = Where(work, {"ended"})
<1> DEFINE g == Put(work, m, d, k)
           S == Works \ {"none"}
           E == {"ended"}
<1>1. work' = g /\ k \in S /\ k \in Works /\ (k \in E <=> k = "ended")
      /\ (work[m][d] = "none" => work[m][d] \notin S) /\ (work[m][d] \in E <=> work[m][d] = "ended")
  BY DEF Put
<1> HIDE DEF S, E
<1>2. Where(g, S) = [Where(work, S) EXCEPT ![m] = @ \union {d}]
  BY <1>1, WhereAdd
<1>3. work[m][d] \in S => Where(g, S) = Where(work, S)
  BY <1>1, WhereSame
<1>4. k \in E => Where(g, E) = [Where(work, E) EXCEPT ![m] = @ \union {d}]
  BY <1>1, WhereAdd
<1>5. k \notin E /\ work[m][d] \notin E => Where(g, E) = Where(work, E)
  BY <1>1, WhereSame
<1> HIDE DEF g
<1>6. Where(work', S) = Where(g, S) /\ Where(work', E) = Where(g, E)
  BY <1>1
<1> QED
  BY <1>1, <1>2, <1>3, <1>4, <1>5, <1>6 DEF S, E

LEMMA Members ==
  ASSUME NEW f, NEW S, NEW m \in Messages, NEW d \in Deliveries
  PROVE  d \in Where(f, S)[m] <=> f[m][d] \in S
  BY DEF Where

LEMMA AcceptTakes ==
  ASSUME IInv, NEW m \in Messages, NEW d \in Deliveries, Accept(m, d)
  PROVE  Promise!Take(m, d)
<1>1. work[m][d] = "none" /\ "handling" \in Ways /\ "running" \in Works \ {"none"}
  BY Entries DEF Accept, Delivery, Ways, Works
<1>2. Where(way, {"handling"})' = [Where(way, {"handling"}) EXCEPT ![m] = @ \union {d}]
  BY <1>1, Entries, WayBecomes DEF Accept
<1>3. Where(work, Works \ {"none"})' = [Where(work, Works \ {"none"}) EXCEPT ![m] = @ \union {d}]
  BY <1>1, Entries, WorkBecomes DEF Accept
<1>4. Where(work, {"ended"})' = Where(work, {"ended"})
  BY <1>1, Entries, WorkBecomes DEF Accept
<1>5. d \notin Where(work, Works \ {"none"})[m]
  BY <1>1, Members
<1> QED
  BY <1>2, <1>3, <1>4, <1>5 DEF Accept, Promise!Take, config, sender

LEMMA ReturnAnswers ==
  ASSUME IInv, NEW m \in Messages, NEW d \in Deliveries, Return(m, d)
  PROVE  Promise!Answer(m, d)
<1>1. "answered" \in Ways
  BY DEF Ways
<1>2. Where(way, {"handling"})' = [Where(way, {"handling"}) EXCEPT ![m] = @ \ {d}]
  BY <1>1, Entries, WayBecomes DEF Return
<1>3. d \in Where(way, {"handling"})[m] /\ (kind[m] = "command" => d \in Where(work, {"ended"})[m])
  BY Members DEF Return
<1> QED
  BY <1>2, <1>3 DEF Return, Promise!Answer, config, sender

LEMMA AnswerArrivesTells ==
  ASSUME IInv, NEW m \in Messages, NEW d \in Deliveries, AnswerArrives(m, d)
  PROVE  Promise!Tell(m) \/ UNCHANGED Promise!promiseVars
<1>1. "over" \in Ways /\ way[m][d] = "answered"
  BY DEF AnswerArrives, Ways
<1>2. CASE ~Awaited(m, d)
  BY <1>1, <1>2, MoveStutters DEF AnswerArrives
<1>3. CASE Awaited(m, d)
  <2>1. way'[m][d] = "over" /\ Others(way, way', m, d)
    BY <1>1, Entries, SetWay DEF AnswerArrives
  <2>2. \A n \in Messages, c \in Deliveries : way'[n][c] = "handling" <=> way[n][c] = "handling"
    BY <1>1, <2>1 DEF Others
  <2>3. Where(way, {"handling"})' = Where(way, {"handling"})
    BY <2>2 DEF Where
  <2>4. {n \in Messages : slack[n] = "told"}' = {n \in Messages : slack[n] = "told"} \union {m}
    BY <1>3 DEF AnswerArrives, IInv, TypeOK
  <2>5. kind[m] = "event" => Where(work, Works \ {"none"})[m] # {}
    <3>1. kind[m] = "event" => work[m][d] \in Works \ {"none"}
      BY <1>1, Entries DEF Delivery, Table
    <3> QED
      BY <3>1, Members
  <2>6. kind[m] = "command" => Where(work, {"ended"})[m] # {}
    <3>1. kind[m] = "command" => work[m][d] \in {"ended"}
      BY <1>1, Entries DEF Delivery
    <3> QED
      BY <3>1, Members
  <2> QED
    BY <2>3, <2>4, <2>5, <2>6 DEF AnswerArrives, Promise!Tell, config
<1> QED
  BY <1>2, <1>3

LEMMA CallbackStep ==
  ASSUME IInv, NEW m \in Messages, NEW d \in Deliveries, Notify(m, d) \/ EndCallback(m, d)
  PROVE  Promise!Finish(m, d) \/ UNCHANGED Promise!promiseVars
<1>0. /\ {"notified", "ended"} \subseteq Works
      /\ {"running", "notified", "ended"} \subseteq Works \ {"none"}
  BY DEF Works
<1>1. CASE Notify(m, d)
  <2>1. Where(work, Works \ {"none"})' = Where(work, Works \ {"none"})
    BY <1>0, <1>1, Entries, WorkBecomes DEF Notify
  <2>2. Where(work, {"ended"})' = Where(work, {"ended"})
    BY <1>0, <1>1, Entries, WorkBecomes DEF Notify
  <2> QED
    BY <1>1, <2>1, <2>2 DEF Notify, Promise!promiseVars, config, sender
<1>2. CASE EndCallback(m, d)
  <2>1. Where(work, Works \ {"none"})' = Where(work, Works \ {"none"})
    BY <1>0, <1>2, Entries, WorkBecomes DEF EndCallback
  <2>2. Where(work, {"ended"})' = [Where(work, {"ended"}) EXCEPT ![m] = @ \union {d}]
    BY <1>0, <1>2, Entries, WorkBecomes DEF EndCallback
  <2>3. d \in Where(work, Works \ {"none"})[m]
    BY <1>0, <1>2, Members DEF EndCallback
  <2>4. Promise!Finish(m, d)
    BY <1>2, <2>1, <2>2, <2>3 DEF EndCallback, Promise!Finish, config, sender
  <2> QED
    BY <2>4
<1> QED
  BY <1>1, <1>2

LEMMA NotificationStep ==
  ASSUME IInv, NEW m \in Messages, NEW d \in Deliveries, Notification(m, d)
  PROVE  Promise!Try(m, d) \/ Promise!Post(m, d) \/ UNCHANGED Promise!promiseVars
<1>1. CASE Try(m, d)
  <2>1. enabled /\ d \in Where(way, {"handling"})[m]
    BY <1>1, Entries, Members DEF Try, Live, Delivery
  <2> QED
    BY <1>1, <2>1 DEF Try, Promise!Try, config, sender
<1>2. CASE Post(m, d)
  BY <1>2 DEF Post, Promise!Post, config, sender
<1>3. CASE Report(m, d) \/ Drop(m, d)
  BY <1>3 DEF Report, Drop, Promise!promiseVars, config, sender
<1> QED
  BY <1>1, <1>2, <1>3 DEF Notification

LEMMA CrashStep ==
  ASSUME IInv, Crash
  PROVE  Promise!Crash
<1>1. Where(way', {"handling"}) = Promise!Nothing
  BY DEF Crash, Where, Promise!Nothing
<1>2. Where(work', Works \ {"none"}) = Where(work, Works \ {"none"})
  <2>1. \A n \in Messages, c \in Deliveries :
          work'[n][c] \in Works \ {"none"} <=> work[n][c] \in Works \ {"none"}
    BY DEF Crash, Works
  <2> QED
    BY <2>1 DEF Where
<1>3. Where(work', {"ended"}) = Where(work, {"ended"})
  BY DEF Crash, Where
<1> QED
  BY <1>1, <1>2, <1>3 DEF Crash, Promise!Crash, config, sender

LEMMA PromiseStep == IInv /\ [Next]_vars => [Promise!PromiseNext]_(Promise!promiseVars)
<1> SUFFICES ASSUME IInv, [Next]_vars
             PROVE  Promise!PromiseNext \/ UNCHANGED Promise!promiseVars
  OBVIOUS
<1>1. CASE UNCHANGED vars
  BY <1>1 DEF vars, config, sender, Promise!promiseVars
<1>2. ASSUME NEW m \in Messages, Send(m) \/ Miss(m) PROVE UNCHANGED Promise!promiseVars
  <2>1. 1 \in Deliveries
    BY BoundsAssumption DEF Deliveries
  <2> QED
    BY <1>2, <2>1, SenderStep
<1>3. ASSUME NEW m \in Messages, NEW d \in Deliveries,
             \/ Lose(m, d) \/ Age(m, d) \/ AnswerArrives(m, d) \/ RefusalArrives(m, d)
             \/ Handler(m, d) \/ Callback(m, d)
      PROVE  Promise!PromiseNext \/ UNCHANGED Promise!promiseVars
  BY <1>3, NetworkStep, SenderStep, AnswerArrivesTells, AcceptTakes, ReturnAnswers, CallbackStep,
     NotificationStep
  DEF Handler, Callback, Promise!PromiseNext
<1>4. CASE Crash
  BY <1>4, CrashStep DEF Promise!PromiseNext
<1> QED
  BY <1>1, <1>2, <1>3, <1>4 DEF Next

\* A delivery is processed at most once, what Slack is told was taken up or
\* carried out, and a notification leaves only while its request is handled and
\* is posted no more often than it left, however late, as SlackPromise says,
\* for every number of messages, deliveries, tries and crashes.
THEOREM Refinement == Spec => KeepsPromise
  BY InitHolds, NextKeeps, PromiseBegins, PromiseStep, PTL
  DEF Spec, KeepsPromise, Promise!PromiseSpec

---------------------------------------------------------------------------
(* How long a delivery can take: the safety half of Settles                *)

\* The moves a delivery can still make, its callback, and its notification,
\* which can leave and be posted MaxRetries times.
WayLeft(w) ==
  IF w = "none" THEN 4
  ELSE IF w = "travelling" THEN 3
  ELSE IF w \in {"stale", "handling"} THEN 2
  ELSE IF w \in {"answered", "refused"} THEN 1
  ELSE 0
WorkLeft(k) == IF k = "none" THEN 3 ELSE IF k = "running" THEN 2 ELSE IF k = "notified" THEN 1 ELSE 0
NoteLeft(t) == IF t = "none" THEN 2 ELSE IF t = "queued" THEN 1 ELSE 0

StepsLeft(m, d) ==
  WayLeft(way[m][d]) + WorkLeft(work[m][d]) + NoteLeft(note[m][d])
    + (MaxRetries - tries[m][d]) + (MaxRetries - posted[m][d])

\* The deliveries Slack can still make, and its wait for the answer.
SlackLeft(m) ==
  (MaxDeliveries - sent[m])
    + (IF slack[m] = "new" THEN 2 ELSE IF slack[m] = "waiting" THEN 1 ELSE 0)

\* A delivery stays where it is or goes on; so do its callback and what that
\* sent.
GoesOn(m, d) ==
  /\ way'[m][d] = way[m][d] \/ WayLeft(way'[m][d]) < WayLeft(way[m][d])
  /\ work'[m][d] = work[m][d] \/ WorkLeft(work'[m][d]) < WorkLeft(work[m][d])
  /\ note'[m][d] = note[m][d] \/ NoteLeft(note'[m][d]) < NoteLeft(note[m][d])
  /\ tries'[m][d] = tries[m][d] \/ tries'[m][d] > tries[m][d]
  /\ posted'[m][d] = posted[m][d] \/ posted'[m][d] > posted[m][d]

About(m, d) ==
  \/ Lose(m, d) \/ Age(m, d) \/ AnswerArrives(m, d) \/ RefusalArrives(m, d)
  \/ Handler(m, d) \/ Callback(m, d)

\* Nothing is ever taken back, by a retry, a crash or an answer that arrives
\* late, and every step but a crash uses up a step of a delivery or of Slack:
\* what is left to Settles is that the handlers and callbacks run and that what
\* is on its way arrives or is missed.
Onward ==
  /\ \A m \in Messages :
       /\ SlackLeft(m) \in 0 .. MaxDeliveries + 2 /\ SlackLeft(m)' <= SlackLeft(m)
       /\ Send(m) \/ Miss(m) => SlackLeft(m)' < SlackLeft(m)
  /\ \A m \in Messages, d \in Deliveries :
       /\ StepsLeft(m, d) \in 0 .. 9 + 2 * MaxRetries /\ GoesOn(m, d)
       /\ About(m, d) => StepsLeft(m, d)' < StepsLeft(m, d)
OnwardOnly == [][Onward]_vars

LEMMA Lefts ==
  /\ \A w : WayLeft(w) \in 0 .. 4
  /\ \A k : WorkLeft(k) \in 0 .. 3
  /\ \A t : NoteLeft(t) \in 0 .. 2
  BY DEF WayLeft, WorkLeft, NoteLeft

\* What a step about one delivery does to it and to the others.
LEMMA OneGoesOn ==
  ASSUME NEW m \in Messages, NEW d \in Deliveries, GoesOn(m, d),
         way' = way \/ Others(way, way', m, d),
         work' = work \/ Others(work, work', m, d),
         note' = note \/ Others(note, note', m, d),
         tries' = tries \/ Others(tries, tries', m, d),
         posted' = posted \/ Others(posted, posted', m, d)
  PROVE  \A n \in Messages, c \in Deliveries : GoesOn(n, c)
  BY DEF Others, GoesOn

LEMMA StepsLeftBounds ==
  ASSUME IInv, NEW m \in Messages, NEW d \in Deliveries
  PROVE  /\ StepsLeft(m, d) \in 0 .. 9 + 2 * MaxRetries
         /\ tries[m][d] \in Counts /\ posted[m][d] \in Counts
<1>1. tries[m][d] \in Counts /\ posted[m][d] \in Counts
  BY Entries DEF Table
<1>2. MaxRetries - tries[m][d] \in Counts /\ MaxRetries - posted[m][d] \in Counts
  BY <1>1, BoundsAssumption DEF Counts
<1>3. WayLeft(way[m][d]) + WorkLeft(work[m][d]) + NoteLeft(note[m][d]) \in 0 .. 9
  BY Lefts
<1> QED
  BY <1>1, <1>2, <1>3, BoundsAssumption DEF StepsLeft, Counts

LEMMA OneLess ==
  ASSUME IInv, IInv', NEW m \in Messages, NEW d \in Deliveries, GoesOn(m, d),
         \/ way'[m][d] # way[m][d] \/ work'[m][d] # work[m][d] \/ note'[m][d] # note[m][d]
         \/ tries'[m][d] # tries[m][d] \/ posted'[m][d] # posted[m][d]
  PROVE  StepsLeft(m, d)' < StepsLeft(m, d)
<1>1. /\ WayLeft(way'[m][d]) \in Nat /\ WayLeft(way[m][d]) \in Nat
      /\ WorkLeft(work'[m][d]) \in Nat /\ WorkLeft(work[m][d]) \in Nat
      /\ NoteLeft(note'[m][d]) \in Nat /\ NoteLeft(note[m][d]) \in Nat
  BY Lefts
<1>2. tries[m][d] \in Counts /\ posted[m][d] \in Counts
  BY StepsLeftBounds
<1>3. tries' \in Table(Counts) /\ posted' \in Table(Counts)
  BY DEF Table, IInv, TypeOK, Counts
<1>4. tries'[m][d] \in Counts /\ posted'[m][d] \in Counts
  BY <1>3 DEF Table
<1> QED
  BY <1>1, <1>2, <1>4, BoundsAssumption DEF GoesOn, StepsLeft, Counts

LEMMA MoveGoesOn ==
  ASSUME IInv, IInv', NEW m \in Messages, NEW d \in Deliveries, NEW w \in Ways, Move(m, d, w),
         WayLeft(w) < WayLeft(way[m][d]), w # way[m][d], UNCHANGED <<work, notes>>
  PROVE  /\ \A n \in Messages, c \in Deliveries : GoesOn(n, c)
         /\ StepsLeft(m, d)' < StepsLeft(m, d)
<1>1. way'[m][d] = w /\ Others(way, way', m, d)
  BY Entries, SetWay
<1>2. GoesOn(m, d)
  BY <1>1 DEF GoesOn
<1> QED
  BY <1>1, <1>2, OneGoesOn, OneLess

\* Slack makes a delivery it has not made.
LEMMA RedeliverGoesOn ==
  ASSUME IInv, NEW m \in Messages, slack[m] = "waiting", NEW w \in Table(Ways), Redeliver(m, w),
         UNCHANGED <<work, notes>>, NEW d \in Deliveries, d <= sent[m], Others(way, w, m, d),
         w = way \/ WayLeft(w[m][d]) < WayLeft(way[m][d])
  PROVE  (\A n \in Messages, c \in Deliveries : GoesOn(n, c)) /\ way'[m][d] = w[m][d]
<1>1. \A n \in Messages, c \in Deliveries :
        w[n][c] = way[n][c] \/ WayLeft(w[n][c]) < WayLeft(way[n][c])
  BY DEF Others
<1>2. CASE kind[m] # "command" /\ sent[m] < MaxDeliveries
  <2> DEFINE e == sent[m] + 1
  <2>1. sent[m] \in Deliveries /\ Deliveries \subseteq Nat
    BY BoundsAssumption DEF IInv, Sender, Deliveries
  <2>2. e \in Deliveries /\ ~(e <= sent[m]) /\ e # d /\ "travelling" \in Ways
    BY <2>1, <1>2, BoundsAssumption DEF Deliveries, Ways
  <2>3. way' = Put(w, m, e, "travelling")
    BY <1>2 DEF Redeliver, Put
  <2> HIDE DEF e
  <2>4. way'[m][e] = "travelling" /\ Others(w, way', m, e)
    <3>1. /\ Put(w, m, e, "travelling")[m][e] = "travelling"
          /\ Others(w, Put(w, m, e, "travelling"), m, e)
      BY <2>2, SetEntry
    <3> QED
      BY <2>3, <3>1
  <2>5. way[m][e] = "none"
    BY <2>2, Entries DEF Delivery
  <2>6. WayLeft("travelling") < WayLeft("none")
    BY DEF WayLeft
  <2>7. ASSUME NEW n \in Messages, NEW c \in Deliveries PROVE GoesOn(n, c)
    <3>1. CASE n = m /\ c = e
      BY <2>4, <2>5, <2>6, <3>1 DEF GoesOn
    <3>2. CASE n # m \/ c # e
      <4>1. way'[n][c] = w[n][c]
        BY <2>2, <2>4, <3>2 DEF Others
      <4> QED
        BY <1>1, <4>1 DEF GoesOn
    <3> QED
      BY <3>1, <3>2
  <2> QED
    BY <2>2, <2>4, <2>7 DEF Others
<1>3. CASE ~(kind[m] # "command" /\ sent[m] < MaxDeliveries)
  <2>1. way' = w
    BY <1>3 DEF Redeliver
  <2> QED
    BY <1>1, <2>1 DEF GoesOn
<1> QED
  BY <1>2, <1>3

LEMMA SenderGoesOn ==
  ASSUME IInv, IInv', NEW m \in Messages, Send(m) \/ Miss(m)
  PROVE  \A n \in Messages, c \in Deliveries : GoesOn(n, c)
<1>1. CASE Send(m)
  <2>1. sent[m] = 0 /\ 1 \in Deliveries /\ ~(1 <= sent[m]) /\ "travelling" \in Ways
    BY <1>1, BoundsAssumption DEF Send, IInv, Sender, Deliveries, Ways
  <2>2. way[m][1] = "none"
    BY <2>1, Entries DEF Delivery
  <2>3. WayLeft("travelling") < WayLeft(way[m][1])
    BY <2>2 DEF WayLeft
  <2> QED
    BY <1>1, <2>1, <2>2, <2>3, MoveGoesOn DEF Send
<1>2. CASE Miss(m)
  <2>1. sent[m] \in Deliveries /\ way \in Table(Ways)
    BY <1>2 DEF Miss, IInv, TypeOK, Sender, Table
  <2>2. Others(way, way, m, sent[m]) /\ sent[m] <= sent[m]
    BY <2>1, BoundsAssumption DEF Others, Deliveries
  <2> QED
    BY <1>2, <2>1, <2>2, RedeliverGoesOn DEF Miss
<1> QED
  BY <1>1, <1>2

LEMMA AboutGoesOn ==
  ASSUME IInv, IInv', NEW m \in Messages, NEW d \in Deliveries, About(m, d)
  PROVE  /\ \A n \in Messages, c \in Deliveries : GoesOn(n, c)
         /\ StepsLeft(m, d)' < StepsLeft(m, d)
<1>0. {"stale", "handling", "answered", "refused", "over"} \subseteq Ways
      /\ {"running", "notified", "ended"} \subseteq Works
      /\ {"queued", "sent", "dropped"} \subseteq Notes
  BY DEF Ways, Works, Notes
<1>1. CASE Lose(m, d) \/ AnswerArrives(m, d) \/ (RefusalArrives(m, d) /\ ~Awaited(m, d))
  <2>1. Move(m, d, "over") /\ UNCHANGED <<work, notes>>
        /\ way[m][d] \in {"travelling", "stale", "answered", "refused"}
    BY <1>1 DEF Lose, AnswerArrives, RefusalArrives
  <2>2. WayLeft("over") < WayLeft(way[m][d])
    BY <2>1 DEF WayLeft
  <2> QED
    BY <1>0, <2>1, <2>2, MoveGoesOn
<1>2. CASE Age(m, d)
  <2>1. way[m][d] = "travelling" /\ Move(m, d, "stale") /\ UNCHANGED <<work, notes>>
    BY <1>2 DEF Age
  <2>2. WayLeft("stale") < WayLeft(way[m][d])
    BY <2>1 DEF WayLeft
  <2> QED
    BY <1>0, <2>1, <2>2, MoveGoesOn
<1>3. CASE Refuse(m, d) \/ Echo(m, d) \/ Return(m, d)
  <2>1. PICK w \in {"answered", "refused"} :
          Move(m, d, w) /\ way[m][d] \in {"travelling", "stale", "handling"}
          /\ UNCHANGED <<work, notes>>
    BY <1>3 DEF Refuse, Echo, Return
  <2>2. WayLeft(w) < WayLeft(way[m][d]) /\ w # way[m][d] /\ w \in Ways
    BY <1>0, <2>1 DEF WayLeft
  <2> QED
    BY <2>1, <2>2, MoveGoesOn
<1>4. CASE RefusalArrives(m, d) /\ Awaited(m, d)
  <2> DEFINE w == Put(way, m, d, "over")
  <2>1. w \in Table(Ways) /\ w[m][d] = "over" /\ Others(way, w, m, d)
    BY <1>0, Entries, SetEntry
  <2>2. Redeliver(m, w) /\ slack[m] = "waiting" /\ d = sent[m] /\ UNCHANGED <<work, notes>>
        /\ way[m][d] = "refused"
    BY <1>4 DEF RefusalArrives, Awaited, Put
  <2>3. WayLeft("over") < WayLeft("refused")
    BY DEF WayLeft
  <2>4. d <= sent[m]
    BY <2>2, BoundsAssumption DEF Deliveries
  <2> HIDE DEF w
  <2>5. (\A n \in Messages, c \in Deliveries : GoesOn(n, c)) /\ way'[m][d] = "over"
    BY <2>1, <2>2, <2>3, <2>4, RedeliverGoesOn
  <2> QED
    BY <2>2, <2>5, OneLess
<1>5. CASE Accept(m, d)
  <2>1. way'[m][d] = "handling" /\ Others(way, way', m, d)
    BY <1>0, <1>5, Entries, SetWay DEF Accept
  <2>2. work'[m][d] = "running" /\ Others(work, work', m, d)
    BY <1>0, <1>5, Entries, SetWork DEF Accept
  <2>3. way[m][d] = "travelling" /\ work[m][d] = "none" /\ UNCHANGED notes
    BY <1>5, Entries DEF Accept, Delivery
  <2>4. GoesOn(m, d)
    BY <2>1, <2>2, <2>3 DEF GoesOn, WayLeft, WorkLeft
  <2> QED
    BY <2>1, <2>2, <2>3, <2>4, OneGoesOn, OneLess
<1>6. CASE Notify(m, d)
  <2>1. work[m][d] = "running" /\ work'[m][d] = "notified" /\ Others(work, work', m, d)
    BY <1>0, <1>6, Entries, SetWork DEF Notify
  <2>2. note[m][d] = "none" /\ UNCHANGED <<way, tries, posted>>
    BY <2>1, <1>6, Entries DEF Notify, Delivery
  <2>3. \/ note' = note
        \/ note'[m][d] = "queued" /\ Others(note, note', m, d)
    BY <1>0, <1>6, Entries, SetNote DEF Notify
  <2>4. GoesOn(m, d)
    BY <2>1, <2>2, <2>3 DEF GoesOn, WorkLeft, NoteLeft
  <2> QED
    BY <2>1, <2>2, <2>3, <2>4, OneGoesOn, OneLess
<1>7. CASE EndCallback(m, d)
  <2>1. /\ work[m][d] \in {"running", "notified"} /\ UNCHANGED <<way, notes>>
        /\ work'[m][d] = "ended" /\ Others(work, work', m, d)
    BY <1>0, <1>7, Entries, SetWork DEF EndCallback
  <2>2. GoesOn(m, d)
    BY <2>1 DEF GoesOn, WorkLeft
  <2> QED
    BY <2>1, <2>2, OneGoesOn, OneLess
<1>8. CASE Try(m, d)
  <2>1. tries[m][d] < MaxRetries /\ tries[m][d] \in Nat
    BY <1>8, StepsLeftBounds, BoundsAssumption DEF Try, Counts
  <2>2. /\ tries'[m][d] = tries[m][d] + 1 /\ Others(tries, tries', m, d)
        /\ UNCHANGED <<way, work, note, posted>>
    BY <1>8, <2>1, Entries, CountOneMore DEF Try
  <2>3. GoesOn(m, d) /\ tries'[m][d] # tries[m][d]
    BY <2>1, <2>2 DEF GoesOn
  <2> QED
    BY <2>2, <2>3, OneGoesOn, OneLess
<1>9. CASE Post(m, d)
  <2>1. posted[m][d] < MaxRetries /\ posted[m][d] \in Nat
    BY <1>9, StepsLeftBounds, BoundsAssumption DEF Post, Counts
  <2>2. /\ posted'[m][d] = posted[m][d] + 1 /\ Others(posted, posted', m, d)
        /\ UNCHANGED <<way, work, note, tries>>
    BY <1>9, <2>1, Entries, CountOneMore DEF Post
  <2>3. GoesOn(m, d) /\ posted'[m][d] # posted[m][d]
    BY <2>1, <2>2 DEF GoesOn
  <2> QED
    BY <2>2, <2>3, OneGoesOn, OneLess
<1>10. CASE Report(m, d) \/ Drop(m, d)
  <2>1. PICK t \in {"sent", "dropped"} : note' = [note EXCEPT ![m][d] = t]
    BY <1>10 DEF Report, Drop
  <2>2. /\ note[m][d] = "queued" /\ UNCHANGED <<way, work, tries, posted>>
        /\ note'[m][d] = t /\ Others(note, note', m, d)
    BY <1>0, <1>10, <2>1, Entries, SetNote DEF Report, Drop
  <2>3. GoesOn(m, d)
    BY <2>1, <2>2 DEF GoesOn, NoteLeft
  <2> QED
    BY <2>1, <2>2, <2>3, OneGoesOn, OneLess
<1> QED
  BY <1>1, <1>2, <1>3, <1>4, <1>5, <1>6, <1>7, <1>8, <1>9, <1>10
  DEF About, Handler, Callback, Notification

LEMMA CrashGoesOn ==
  ASSUME Crash
  PROVE  \A n \in Messages, c \in Deliveries : GoesOn(n, c)
<1>1. ASSUME NEW n \in Messages, NEW c \in Deliveries PROVE GoesOn(n, c)
  <2>1. /\ way'[n][c] = IF way[n][c] = "handling" THEN "over" ELSE way[n][c]
        /\ work'[n][c] = IF work[n][c] \in {"running", "notified"} THEN "lost" ELSE work[n][c]
        /\ note'[n][c] = IF note[n][c] = "queued" THEN "dropped" ELSE note[n][c]
    BY DEF Crash
  <2> QED
    BY <2>1 DEF Crash, GoesOn, WayLeft, WorkLeft, NoteLeft
<1> QED
  BY <1>1

\* What is left of a message on Slack's side.
LEMMA SlackLeftBounds ==
  ASSUME IInv, NEW m \in Messages
  PROVE  SlackLeft(m) \in 0 .. MaxDeliveries + 2 /\ sent[m] \in 0 .. MaxDeliveries
<1>1. sent[m] \in 0 .. MaxDeliveries /\ MaxDeliveries \in Nat
  BY BoundsAssumption DEF IInv, TypeOK
<1> QED
  BY <1>1 DEF SlackLeft

LEMMA RedeliverLess ==
  ASSUME IInv, NEW m \in Messages, slack[m] = "waiting", NEW w, Redeliver(m, w)
  PROVE  /\ SlackLeft(m)' \in Nat /\ SlackLeft(m)' < SlackLeft(m)
         /\ \A n \in Messages : n # m => SlackLeft(n)' = SlackLeft(n)
<1>1. sent[m] \in 0 .. MaxDeliveries /\ MaxDeliveries \in Nat
  BY BoundsAssumption DEF IInv, TypeOK
<1>2. CASE kind[m] # "command" /\ sent[m] < MaxDeliveries
  <2>1. /\ slack' = slack /\ sent'[m] = sent[m] + 1
        /\ \A n \in Messages : n # m => sent'[n] = sent[n]
    BY <1>2 DEF Redeliver, IInv, TypeOK
  <2>2. SlackLeft(m) = (MaxDeliveries - sent[m]) + 1
        /\ SlackLeft(m)' = (MaxDeliveries - (sent[m] + 1)) + 1
    BY <2>1 DEF SlackLeft
  <2>3. \A n \in Messages : n # m => SlackLeft(n)' = SlackLeft(n)
    BY <2>1 DEF SlackLeft
  <2> QED
    BY <1>1, <1>2, <2>2, <2>3
<1>3. CASE ~(kind[m] # "command" /\ sent[m] < MaxDeliveries)
  <2>1. /\ sent' = sent /\ slack'[m] \notin {"new", "waiting"}
        /\ \A n \in Messages : n # m => slack'[n] = slack[n]
    BY <1>3 DEF Redeliver, IInv, TypeOK
  <2>2. SlackLeft(m) = (MaxDeliveries - sent[m]) + 1 /\ SlackLeft(m)' = (MaxDeliveries - sent[m]) + 0
    BY <2>1 DEF SlackLeft
  <2>3. \A n \in Messages : n # m => SlackLeft(n)' = SlackLeft(n)
    BY <2>1 DEF SlackLeft
  <2> QED
    BY <1>1, <2>2, <2>3
<1> QED
  BY <1>2, <1>3

LEMMA SenderLess ==
  ASSUME IInv, NEW m \in Messages, Send(m) \/ Miss(m)
  PROVE  /\ SlackLeft(m)' \in Nat /\ SlackLeft(m)' < SlackLeft(m)
         /\ \A n \in Messages : n # m => SlackLeft(n)' = SlackLeft(n)
<1>1. CASE Send(m)
  <2>1. sent[m] = 0 /\ MaxDeliveries \in Nat \ {0}
    BY <1>1, BoundsAssumption DEF Send, IInv, Sender
  <2>2. /\ slack[m] = "new" /\ slack'[m] = "waiting" /\ sent'[m] = 1
        /\ \A n \in Messages : n # m => slack'[n] = slack[n] /\ sent'[n] = sent[n]
    BY <1>1 DEF Send, IInv, TypeOK
  <2>3. SlackLeft(m) = (MaxDeliveries - 0) + 2 /\ SlackLeft(m)' = (MaxDeliveries - 1) + 1
    BY <2>1, <2>2 DEF SlackLeft
  <2>4. \A n \in Messages : n # m => SlackLeft(n)' = SlackLeft(n)
    BY <2>2 DEF SlackLeft
  <2> QED
    BY <2>1, <2>3, <2>4
<1>2. CASE Miss(m)
  BY <1>2, RedeliverLess DEF Miss
<1> QED
  BY <1>1, <1>2

\* Only an answer that is awaited and a refusal change Slack's side besides.
LEMMA AboutSlack ==
  ASSUME IInv, NEW m \in Messages, NEW d \in Deliveries, About(m, d), NEW n \in Messages
  PROVE  SlackLeft(n)' <= SlackLeft(n)
<1>1. CASE RefusalArrives(m, d) /\ Awaited(m, d)
  BY <1>1, RedeliverLess, SlackLeftBounds DEF RefusalArrives, Awaited
<1>2. CASE AnswerArrives(m, d) /\ Awaited(m, d)
  <2>1. sent' = sent /\ (slack'[n] = slack[n] \/ (slack[n] = "waiting" /\ slack'[n] = "told"))
    BY <1>2 DEF AnswerArrives, Awaited, IInv, TypeOK
  <2> QED
    BY <2>1, SlackLeftBounds, BoundsAssumption DEF SlackLeft
<1>3. CASE UNCHANGED <<slack, sent>>
  BY <1>3, SlackLeftBounds DEF SlackLeft
<1> QED
  BY <1>1, <1>2, <1>3
  DEF About, Lose, Age, AnswerArrives, RefusalArrives, Handler, Refuse, Echo, Accept, Return,
      Callback, Notify, EndCallback, Notification, Try, Post, Report, Drop, sender

\* A message is settled after a bounded number of steps, however deliveries are
\* lost, repeated and refused and however often the service crashes
\* (HandleEvents, HandleCommand, SendAsync).
THEOREM BoundedDelivery == Spec => OnwardOnly
<1>1. ASSUME IInv, IInv', Next PROVE Onward
  <2>1. \A m \in Messages, d \in Deliveries : StepsLeft(m, d) \in 0 .. 9 + 2 * MaxRetries
    BY <1>1, StepsLeftBounds
  <2>2. \A m \in Messages, d \in Deliveries : GoesOn(m, d)
    BY <1>1, SenderGoesOn, AboutGoesOn, CrashGoesOn DEF Next, About
  <2>3. \A m \in Messages, d \in Deliveries : About(m, d) => StepsLeft(m, d)' < StepsLeft(m, d)
    BY <1>1, AboutGoesOn
  <2>4. \A m \in Messages : SlackLeft(m) \in 0 .. MaxDeliveries + 2
    BY <1>1, SlackLeftBounds
  <2>5. \A m \in Messages : Send(m) \/ Miss(m) => SlackLeft(m)' < SlackLeft(m)
    BY <1>1, SenderLess
  <2>6. ASSUME NEW n \in Messages PROVE SlackLeft(n)' <= SlackLeft(n)
    <3>1. ASSUME NEW m \in Messages, Send(m) \/ Miss(m) PROVE SlackLeft(n)' <= SlackLeft(n)
      BY <1>1, <3>1, SenderLess, SlackLeftBounds
    <3>2. ASSUME NEW m \in Messages, NEW d \in Deliveries, About(m, d)
          PROVE  SlackLeft(n)' <= SlackLeft(n)
      BY <1>1, <3>2, AboutSlack
    <3>3. CASE Crash
      BY <1>1, <3>3, SlackLeftBounds DEF Crash, sender, SlackLeft
    <3> QED
      BY <1>1, <3>1, <3>2, <3>3 DEF Next, About
  <2> QED
    BY <2>1, <2>2, <2>3, <2>4, <2>5, <2>6 DEF Onward
<1>2. IInv /\ [Next]_vars => [Onward]_vars
  BY <1>1, NextKeeps
<1> QED
  BY <1>2, Inductive, PTL DEF Spec, OnwardOnly
=============================================================================
