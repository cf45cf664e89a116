----------------------------- MODULE ChatProofs -----------------------------
(* Theorems about Chat, for any streams, calls, keys and buffer size. *)
EXTENDS Chat, FiniteSetTheorems, TLAPS

\* A call that has something to announce announces its own, stored message.
OwnMessage ==
    \A c \in Calls :
        /\ stage[c] \in {"idle", "storing"} => c \notin messages
        /\ stage[c] = "storing" => req[c].kind = "send"
        /\ stage[c] \in {"stored", "publishing"} /\ req[c].kind = "send"
            => made[c] = c /\ c \in messages
        /\ req[c].kind = "notice" => made[c] = None
        /\ stage[c] # "publishing" => left[c] = {}

\* The unique constraints.
OnePerKey ==
    \A m, d \in messages :
        req[m].key = req[d].key \/ req[m].client = req[d].client => m = d

\* An event in a channel was put there by a call that will not do it again.
PutOnce ==
    \A v \in subscribers, c \in Calls :
        /\ copies[v][c] <= 1
        /\ copies[v][c] > 0 =>
            /\ stage[c] = "done" \/ (stage[c] = "publishing" /\ v \notin left[c])
            /\ req[c].kind = "send" => c \in messages

Told(m, v) == m \in known[v] \/ Underway(m, v) \/ m \in dropped[v] \/ m \in cutShort

\* The first offset messages of the listing, or all of them, were dealt with.
PagesAreTold ==
    \A v \in subscribers, m \in messages :
        v \in complete \/ Place(m) <= offset[v] => Told(m, v)

\* A client that is not subscribed has an empty channel.
IInv == TypeOK /\ OwnMessage /\ OnePerKey /\ PutOnce /\ PagesAreTold

USE CallsAssumption, BoundsAssumption, NoneAssumption

LEMMA InitIInv == Init => IInv
<1> SUFFICES ASSUME Init PROVE IInv
    OBVIOUS
<1> USE DEF Init
<1>1. TypeOK
    BY DEF TypeOK, Requests, Notice
<1>2. OwnMessage /\ OnePerKey /\ PutOnce /\ PagesAreTold
    BY DEF OwnMessage, OnePerKey, PutOnce, PagesAreTold
<1> QED BY <1>1, <1>2 DEF IInv

LEMMA KindType ==
    ASSUME TypeOK, NEW c \in Calls
    PROVE  req[c].kind \in {"send", "notice"}
<1>1. req[c] \in Requests
    BY DEF TypeOK
<1> QED BY <1>1 DEF Requests, Notice

\* The event a call announces is named by the call.
LEMMA EventIsOwn ==
    ASSUME TypeOK, OwnMessage, NEW c \in Calls, stage[c] \in {"stored", "publishing"}
    PROVE  EventOf(c) = c
BY DEF TypeOK, OwnMessage, EventOf, Requests, Notice

\* What is left of a queue is in its tail, one place further on.
LEMMA TailShifts ==
    ASSUME NEW S, NEW q \in Seq(S), NEW i \in 1..Len(q), i # 1
    PROVE  i - 1 \in 1..Len(Tail(q)) /\ Tail(q)[i - 1] = q[i]
OBVIOUS

-----------------------------------------------------------------------------
(* Types.                                                                  *)

LEMMA TypePreserved == TypeOK /\ OwnMessage /\ [Next]_vars => TypeOK'
<1> SUFFICES ASSUME TypeOK, OwnMessage, [Next]_vars PROVE TypeOK'
    OBVIOUS
<1> USE DEF TypeOK, GoTo, calls, table, paging, history
<1>1. ASSUME NEW c \in Calls, Find(c) PROVE TypeOK'
    BY <1>1 DEF Find, WithKey, EventOf
<1>2. ASSUME NEW c \in Calls, Prepare(c) PROVE TypeOK'
    BY <1>2 DEF Prepare, EventOf
<1>3. ASSUME NEW c \in Calls, CreateMessage(c) PROVE TypeOK'
    BY <1>3 DEF CreateMessage, EventOf, OwnMessage
<1>4. ASSUME NEW c \in Calls, Conflict(c) PROVE TypeOK'
    BY <1>4 DEF Conflict, EventOf
<1>5. ASSUME NEW c \in Calls, Notify(c) PROVE TypeOK'
    BY <1>5 DEF Notify, EventOf
<1>6. ASSUME NEW c \in Calls, Publish(c) PROVE TypeOK'
    BY <1>6 DEF Publish, EventOf
<1>7. ASSUME NEW c \in Calls, NEW v \in Viewers, Offer(c, v) PROVE TypeOK'
  <2>1. EventOf(c) = c
    BY <1>7, EventIsOwn DEF Offer
  <2>2. /\ queue' = queue \/ queue' = [queue EXCEPT ![v] = Append(@, c)]
        /\ copies' = copies \/ copies' = [copies EXCEPT ![v][c] = @ + 1]
        /\ dropped' = dropped \/ dropped' = [dropped EXCEPT ![v] = @ \cup {c}]
    BY <1>7, <2>1 DEF Offer
  <2>3. queue' \in [Viewers -> Seq(Calls)]
    <3>1. Append(queue[v], c) \in Seq(Calls)
      OBVIOUS
    <3>2. CASE queue' = queue
      BY <3>2
    <3>3. CASE queue' = [queue EXCEPT ![v] = Append(@, c)]
      BY <3>1, <3>3
    <3> QED BY <2>2, <3>2, <3>3
  <2>4. copies' \in [Viewers -> [Calls -> Nat]]
    <3>1. [copies[v] EXCEPT ![c] = @ + 1] \in [Calls -> Nat]
      OBVIOUS
    <3>2. CASE copies' = copies
      BY <3>2
    <3>3. CASE copies' = [copies EXCEPT ![v] = [copies[v] EXCEPT ![c] = @ + 1]]
      BY <3>1, <3>3
    <3> QED BY <2>2, <3>2, <3>3
  <2>5. dropped' \in [Viewers -> SUBSET Calls]
    <3>1. dropped[v] \cup {c} \in SUBSET Calls
      OBVIOUS
    <3>2. CASE dropped' = dropped
      BY <3>2
    <3>3. CASE dropped' = [dropped EXCEPT ![v] = dropped[v] \cup {c}]
      BY <3>1, <3>3
    <3> QED BY <2>2, <3>2, <3>3
  <2>6. left' \in [Calls -> SUBSET Viewers] /\ \A d \in Calls : left'[d] \subseteq subscribers
    BY <1>7 DEF Offer
  <2>7. UNCHANGED <<req, stage, made, messages, sentAt, clock, subscribers, offset, complete,
                    known, cutShort>>
    BY <1>7 DEF Offer
  <2> QED BY <2>3, <2>4, <2>5, <2>6, <2>7 DEF EventOf
<1>8. ASSUME NEW c \in Calls, Return(c) PROVE TypeOK'
    BY <1>8 DEF Return, EventOf
<1>9. ASSUME NEW c \in Calls, GiveUp(c) PROVE TypeOK'
    BY <1>9 DEF GiveUp, EventOf, OwnMessage
<1>10. ASSUME NEW v \in Viewers, Subscribe(v) PROVE TypeOK'
    BY <1>10 DEF Subscribe, EventOf
<1>11. ASSUME NEW v \in Viewers, Cancel(v) PROVE TypeOK'
    BY <1>11 DEF Cancel, EventOf, Unlocked, OwnMessage
<1>12. ASSUME NEW v \in Viewers, SendFrame(v) PROVE TypeOK'
    BY <1>12 DEF SendFrame, EventOf
<1>13. ASSUME NEW v \in Viewers, ListMessages(v) PROVE TypeOK'
  <2>1. known' \in [Viewers -> SUBSET Calls]
    BY <1>13 DEF ListMessages
  <2>2. offset' \in [Viewers -> Nat] /\ complete' \subseteq Viewers
    <3>1. CASE \E m \in messages : Place(m) > offset[v] + PageSize
      <4>1. offset' = [offset EXCEPT ![v] = @ + PageSize] /\ complete' = complete
        BY <1>13, <3>1 DEF ListMessages, NextToken
      <4> QED BY <4>1
    <3>2. CASE ~ \E m \in messages : Place(m) > offset[v] + PageSize
      BY <1>13, <3>2 DEF ListMessages
    <3> QED BY <3>1, <3>2
  <2> QED BY <1>13, <2>1, <2>2 DEF ListMessages, EventOf
<1>14. ASSUME Restart PROVE TypeOK'
    BY <1>14 DEF Restart, EventOf
<1>15. CASE UNCHANGED vars
    BY <1>15 DEF vars, EventOf
<1> QED
    BY <1>1, <1>2, <1>3, <1>4, <1>5, <1>6, <1>7, <1>8, <1>9, <1>10, <1>11, <1>12, <1>13,
       <1>14, <1>15 DEF Next, SendMessage, Stream

-----------------------------------------------------------------------------
(* Messages and events.                                                    *)

LEMMA OwnPreserved == TypeOK /\ OwnMessage /\ [Next]_vars => OwnMessage'
<1> SUFFICES ASSUME TypeOK, OwnMessage, [Next]_vars PROVE OwnMessage'
    OBVIOUS
<1> USE DEF TypeOK, OwnMessage, GoTo, calls, table, paging, history
<1>1. ASSUME NEW c \in Calls, Find(c) \/ Prepare(c) \/ Conflict(c) \/ Notify(c) \/ Return(c)
      PROVE  OwnMessage'
  <2>1. CASE Find(c)
    BY <2>1 DEF Find, WithKey
  <2>2. CASE Prepare(c)
    BY <2>2 DEF Prepare
  <2>3. CASE Conflict(c)
    BY <2>3 DEF Conflict
  <2>4. CASE Notify(c)
    BY <2>4 DEF Notify
  <2>5. CASE Return(c)
    BY <2>5 DEF Return
  <2> QED BY <1>1, <2>1, <2>2, <2>3, <2>4, <2>5
<1>2. ASSUME NEW c \in Calls, CreateMessage(c) PROVE OwnMessage'
    BY <1>2 DEF CreateMessage
<1>3. ASSUME NEW c \in Calls, Publish(c) PROVE OwnMessage'
    BY <1>3 DEF Publish
<1>4. ASSUME NEW c \in Calls, NEW v \in Viewers, Offer(c, v) PROVE OwnMessage'
    BY <1>4 DEF Offer
<1>5. ASSUME NEW c \in Calls, GiveUp(c) PROVE OwnMessage'
    BY <1>5 DEF GiveUp
<1>6. ASSUME NEW v \in Viewers, Stream(v) PROVE OwnMessage'
    BY <1>6 DEF Stream, Subscribe, Cancel, SendFrame, ListMessages
<1>7. CASE Restart
    BY <1>7 DEF Restart
<1>8. CASE UNCHANGED vars
    BY <1>8 DEF vars
<1> QED
    BY <1>1, <1>2, <1>3, <1>4, <1>5, <1>6, <1>7, <1>8 DEF Next, SendMessage

LEMMA KeysPreserved == TypeOK /\ OnePerKey /\ [Next]_vars => OnePerKey'
<1> SUFFICES ASSUME TypeOK, OnePerKey, [Next]_vars PROVE OnePerKey'
    OBVIOUS
<1> USE DEF TypeOK, OnePerKey, calls, table
<1>1. ASSUME NEW c \in Calls, CreateMessage(c) \/ GiveUp(c) PROVE OnePerKey'
  <2>1. messages' \subseteq messages \/ (Unique(c) /\ messages' = messages \cup {c})
    BY <1>1 DEF CreateMessage, GiveUp
  <2>2. req' = req
    BY <1>1 DEF CreateMessage, GiveUp
  <2> QED BY <2>1, <2>2 DEF Unique
<1>2. ASSUME UNCHANGED <<req, messages>> PROVE OnePerKey'
    BY <1>2
<1>3. ASSUME NEW c \in Calls,
             \/ Find(c) \/ Prepare(c) \/ Conflict(c) \/ Notify(c) \/ Publish(c) \/ Return(c)
             \/ \E v \in Viewers : Offer(c, v)
      PROVE  UNCHANGED <<req, messages>>
    BY <1>3 DEF Find, Prepare, Conflict, Notify, Publish, Return, Offer
<1>4. ASSUME (\E v \in Viewers : Stream(v)) \/ Restart \/ UNCHANGED vars
      PROVE  UNCHANGED <<req, messages>>
    BY <1>4 DEF Stream, Subscribe, Cancel, SendFrame, ListMessages, Restart, vars
<1> QED BY <1>1, <1>2, <1>3, <1>4 DEF Next, SendMessage

LEMMA PutOncePreserved == TypeOK /\ OwnMessage /\ PutOnce /\ [Next]_vars => PutOnce'
<1> SUFFICES ASSUME TypeOK, OwnMessage, PutOnce, [Next]_vars PROVE PutOnce'
    OBVIOUS
<1> USE DEF TypeOK, OwnMessage, PutOnce, GoTo, calls, table, paging, history
<1>1. ASSUME NEW c \in Calls, Find(c) \/ Prepare(c) \/ Conflict(c) \/ Notify(c) \/ Return(c)
      PROVE  PutOnce'
    BY <1>1 DEF Find, Prepare, Conflict, Notify, Return
<1>2. ASSUME NEW c \in Calls, CreateMessage(c) \/ Publish(c) \/ GiveUp(c) PROVE PutOnce'
    BY <1>2 DEF CreateMessage, Publish, GiveUp
<1>3. ASSUME NEW c \in Calls, NEW v \in Viewers, Offer(c, v) PROVE PutOnce'
  <2>1. EventOf(c) = c
    BY <1>3, EventIsOwn DEF Offer
  <2>2. copies[v][c] = 0 /\ (req[c].kind = "send" => c \in messages)
    <3>1. v \in left[c] /\ v \in subscribers /\ stage[c] = "publishing"
      BY <1>3 DEF Offer
    <3>2. copies[v][c] \in Nat /\ ~ (copies[v][c] > 0)
      BY <3>1
    <3> QED BY <3>1, <3>2
  <2>3. copies' = copies \/ copies' = [copies EXCEPT ![v][c] = @ + 1]
    BY <1>3, <2>1 DEF Offer
  <2>4. \A w \in Viewers, d \in Calls :
            copies'[w][d] = copies[w][d] \/ (w = v /\ d = c /\ copies'[w][d] = 1)
    BY <2>2, <2>3
  <2>5. stage[c] = "publishing" /\ left' = [left EXCEPT ![c] = @ \ {v}]
    BY <1>3 DEF Offer
  <2>6. UNCHANGED <<req, stage, messages, subscribers>>
    BY <1>3 DEF Offer
  <2>7. v \notin left'[c] /\ \A d \in Calls : left'[d] \subseteq left[d]
    BY <2>5
  <2>8. ASSUME NEW w \in subscribers, NEW d \in Calls
        PROVE  /\ copies'[w][d] <= 1
               /\ copies'[w][d] > 0 =>
                    /\ stage[d] = "done" \/ (stage[d] = "publishing" /\ w \notin left'[d])
                    /\ req[d].kind = "send" => d \in messages
    <3>1. CASE copies'[w][d] = copies[w][d]
      BY <2>7, <3>1
    <3>2. CASE w = v /\ d = c /\ copies'[w][d] = 1
      BY <2>2, <2>5, <2>7, <3>2
    <3> QED BY <2>4, <3>1, <3>2
  <2> QED BY <2>6, <2>8
<1>4. ASSUME NEW v \in Viewers, Stream(v) PROVE PutOnce'
  <2>1. CASE Subscribe(v)
    BY <2>1 DEF Subscribe
  <2>2. CASE Cancel(v) \/ SendFrame(v) \/ ListMessages(v)
    BY <2>2 DEF Cancel, SendFrame, ListMessages
  <2> QED BY <1>4, <2>1, <2>2 DEF Stream
<1>5. CASE Restart
    BY <1>5 DEF Restart
<1>6. CASE UNCHANGED vars
    BY <1>6 DEF vars
<1> QED BY <1>1, <1>2, <1>3, <1>4, <1>5, <1>6 DEF Next, SendMessage

-----------------------------------------------------------------------------
(* Pages.                                                                  *)

LEMMA PlaceStays ==
    ASSUME UNCHANGED <<messages, sentAt>>, NEW m
    PROVE  Place(m)' = Place(m)
BY DEF Place

LEMMA PlaceType ==
    ASSUME TypeOK, NEW m \in messages
    PROVE  Place(m) \in Nat /\ Place(m) > 0
<1> DEFINE S == {d \in messages : sentAt[d] >= sentAt[m]}
<1>1. IsFiniteSet(S)
    BY FS_Subset DEF TypeOK
<1>2. m \in S
    BY DEF TypeOK
<1>3. S # {}
    BY <1>2
<1>4. Cardinality(S) \in Nat /\ (Cardinality(S) = 0 <=> S = {})
    BY <1>1, FS_CardinalityType, FS_EmptySet
<1> QED BY <1>3, <1>4 DEF Place

\* A new message only moves others to later places.
LEMMA PlaceGrows ==
    ASSUME TypeOK, TypeOK', NEW m \in messages, messages \subseteq messages', UNCHANGED sentAt
    PROVE  Place(m) \in Nat /\ Place(m)' \in Nat /\ Place(m) <= Place(m)'
<1> DEFINE S == {d \in messages : sentAt[d] >= sentAt[m]}
<1>1. IsFiniteSet(S')
    BY FS_Subset DEF TypeOK
<1>2. S \subseteq S'
    OBVIOUS
<1>3. IsFiniteSet(S) /\ Cardinality(S) <= Cardinality(S')
    BY <1>1, <1>2, FS_Subset
<1>4. Cardinality(S) \in Nat /\ Cardinality(S') \in Nat
    BY <1>1, <1>3, FS_CardinalityType
<1> QED BY <1>3, <1>4 DEF Place

\* Events in a channel keep their places when one is added.
LEMMA AppendKeeps ==
    ASSUME NEW q \in Seq(Calls), NEW e \in Calls, NEW i \in DOMAIN q
    PROVE  i \in DOMAIN Append(q, e) /\ Append(q, e)[i] = q[i]
<1>1. DOMAIN q = 1..Len(q) /\ Len(q) \in Nat
    OBVIOUS
<1>2. DOMAIN Append(q, e) = 1..(Len(q) + 1)
    OBVIOUS
<1>3. \A k \in 1..Len(q) : Append(q, e)[k] = q[k]
    OBVIOUS
<1> QED BY <1>1, <1>2, <1>3

LEMMA PagesPreserved == IInv /\ TypeOK' /\ [Next]_vars => PagesAreTold'
<1> SUFFICES ASSUME IInv, TypeOK', [Next]_vars PROVE PagesAreTold'
    OBVIOUS
<1> USE DEF IInv, TypeOK, OwnMessage, GoTo, calls, table, paging, history
<1>1. ASSUME NEW c \in Calls, Find(c) \/ Conflict(c) \/ Notify(c) \/ Publish(c) \/ Return(c)
      PROVE  PagesAreTold'
  <2>1. UNCHANGED <<messages, sentAt, subscribers, queue, offset, complete, known, dropped, cutShort>>
    BY <1>1 DEF Find, Conflict, Notify, Publish, Return
  <2>2. ASSUME NEW m \in messages, NEW v \in subscribers, Underway(m, v) PROVE Underway(m, v)'
    BY <1>1, <2>1, <2>2 DEF Underway, Find, Conflict, Notify, Publish, Return
  <2>3. \A m : Place(m)' = Place(m)
    BY <2>1, PlaceStays
  <2> QED BY <2>1, <2>2, <2>3 DEF PagesAreTold, Told
<1>2. ASSUME NEW c \in Calls, Prepare(c) PROVE PagesAreTold'
  <2>1. \A m \in messages : sentAt'[m] = sentAt[m]
    BY <1>2 DEF Prepare
  <2>2. ASSUME NEW m \in messages PROVE Place(m)' = Place(m)
    <3>1. {d \in messages' : sentAt'[d] >= sentAt'[m]} = {d \in messages : sentAt[d] >= sentAt[m]}
      BY <1>2, <2>1 DEF Prepare
    <3> QED BY <3>1 DEF Place
  <2>3. ASSUME NEW m \in messages, NEW v \in subscribers, Underway(m, v) PROVE Underway(m, v)'
    BY <1>2, <2>3 DEF Underway, Prepare
  <2> QED BY <1>2, <2>2, <2>3 DEF PagesAreTold, Told, Prepare
<1>3. ASSUME NEW c \in Calls, CreateMessage(c) PROVE PagesAreTold'
  <2> SUFFICES ASSUME NEW v \in subscribers, NEW m \in messages',
                      (v \in complete \/ Place(m) <= offset[v])'
               PROVE  Told(m, v)'
    BY <1>3 DEF CreateMessage, PagesAreTold
  <2>1. CASE m = c
    BY <1>3, <2>1 DEF Told, Underway, CreateMessage
  <2>2. CASE m \in messages
    <3>1. Place(m) <= Place(m)' /\ Place(m) \in Nat /\ Place(m)' \in Nat
      BY <1>3, <2>2, PlaceGrows DEF CreateMessage
    <3>2. Told(m, v)
      BY <1>3, <2>2, <3>1 DEF PagesAreTold, CreateMessage
    <3>3. Underway(m, v) => Underway(m, v)'
      <4>1. UNCHANGED <<queue, left>> /\ \A d \in Calls \ {c} : made'[d] = made[d] /\ stage'[d] = stage[d]
        BY <1>3 DEF CreateMessage
      <4>2. stage[c] = "storing"
        BY <1>3 DEF CreateMessage
      <4>3. ASSUME NEW d \in Calls, made[d] = m,
                   stage[d] = "stored" \/ (stage[d] = "publishing" /\ v \in left[d])
            PROVE  Underway(m, v)'
        <5>1. d # c
          BY <4>2, <4>3
        <5>2. made'[d] = m /\ stage'[d] = stage[d] /\ left'[d] = left[d]
          BY <4>1, <4>3, <5>1
        <5> QED BY <4>3, <5>2 DEF Underway
      <4>4. ASSUME m \in {queue[v][i] : i \in DOMAIN queue[v]} PROVE Underway(m, v)'
        BY <4>1, <4>4 DEF Underway
      <4> QED BY <4>3, <4>4 DEF Underway
    <3> QED BY <1>3, <3>2, <3>3 DEF Told, CreateMessage
  <2> QED BY <1>3, <2>1, <2>2 DEF CreateMessage
<1>4. ASSUME NEW c \in Calls, NEW w \in Viewers, Offer(c, w) PROVE PagesAreTold'
  <2>1. EventOf(c) = c
    BY <1>4, EventIsOwn DEF Offer
  <2>2. UNCHANGED <<messages, sentAt, subscribers, offset, complete, known, cutShort>>
    BY <1>4 DEF Offer
  <2>3. ASSUME NEW m \in messages, NEW v \in subscribers, Told(m, v) PROVE Told(m, v)'
    <3>0. /\ queue' = queue \/ queue' = [queue EXCEPT ![w] = Append(@, c)]
          /\ dropped' = dropped \/ dropped' = [dropped EXCEPT ![w] = @ \cup {c}]
      BY <1>4, <2>1 DEF Offer
    <3>1. ASSUME NEW i \in DOMAIN queue[v] PROVE i \in DOMAIN queue'[v] /\ queue'[v][i] = queue[v][i]
      <4>1. queue[v] \in Seq(Calls)
        OBVIOUS
      <4>2. CASE queue' = queue
        BY <3>1, <4>2
      <4>3. CASE queue' = [queue EXCEPT ![w] = Append(@, c)]
        <5>1. queue'[v] = queue[v] \/ queue'[v] = Append(queue[v], c)
          BY <4>3
        <5>2. i \in DOMAIN Append(queue[v], c) /\ Append(queue[v], c)[i] = queue[v][i]
          <6>1. queue[v] \in Seq(Calls) /\ c \in Calls /\ i \in DOMAIN queue[v]
            BY <3>1, <4>1
          <6> HIDE DEF IInv, TypeOK, OwnMessage
          <6> QED BY <6>1, AppendKeeps, Zenon
        <5> QED BY <3>1, <5>1, <5>2
      <4> QED BY <3>0, <4>2, <4>3
    <3>2. dropped[v] \subseteq dropped'[v]
      <4>1. CASE dropped' = dropped
        BY <4>1
      <4>2. CASE dropped' = [dropped EXCEPT ![w] = @ \cup {c}]
        BY <4>2
      <4> QED BY <3>0, <4>1, <4>2
    <3>3. CASE m = c /\ v = w /\ Len(queue[v]) < Buffer
      <4>1. queue'[v] = Append(queue[v], c)
        BY <1>4, <2>1, <3>3 DEF Offer
      <4>2. Len(queue'[v]) \in DOMAIN queue'[v] /\ queue'[v][Len(queue'[v])] = c
        <5>1. queue[v] \in Seq(Calls)
          OBVIOUS
        <5>2. c \in Calls /\ Len(queue[v]) \in Nat
          BY <5>1
        <5>3. Len(Append(queue[v], c)) = Len(queue[v]) + 1
          BY <5>1
        <5>4. Append(queue[v], c)[Len(queue[v]) + 1] = c
          BY <5>1
        <5>5. DOMAIN Append(queue[v], c) = 1..(Len(queue[v]) + 1)
          BY <5>1
        <5> QED BY <4>1, <5>2, <5>3, <5>4, <5>5
      <4> QED BY <3>3, <4>2 DEF Told, Underway
    <3>4. CASE m = c /\ v = w /\ ~ (Len(queue[v]) < Buffer)
      BY <1>4, <2>1, <3>4 DEF Told, Offer
    <3>5. CASE ~ (m = c /\ v = w)
      <4>1. ASSUME NEW d \in Calls, made[d] = m,
                   stage[d] = "stored" \/ (stage[d] = "publishing" /\ v \in left[d])
            PROVE  Underway(m, v)'
        <5>1. d = m
          <6>1. m \in Calls /\ made[d] # None
            BY <4>1
          <6>2. req[d].kind = "send"
            BY <6>1, KindType
          <6> QED BY <4>1, <6>2
        <5> QED BY <1>4, <3>5, <4>1, <5>1 DEF Underway, Offer
      <4>2. ASSUME m \in {queue[v][i] : i \in DOMAIN queue[v]} PROVE Underway(m, v)'
        BY <3>1, <4>2 DEF Underway
      <4>3. Underway(m, v) => Underway(m, v)'
        BY <4>1, <4>2 DEF Underway
      <4> QED BY <2>2, <2>3, <3>2, <4>3 DEF Told
    <3> QED BY <3>3, <3>4, <3>5
  <2>4. \A m : Place(m)' = Place(m)
    BY <2>2, PlaceStays
  <2> QED BY <2>2, <2>3, <2>4 DEF PagesAreTold
<1>5. ASSUME NEW c \in Calls, GiveUp(c) PROVE PagesAreTold'
  <2> SUFFICES ASSUME NEW v \in subscribers, NEW m \in messages',
                      (v \in complete \/ Place(m) <= offset[v])'
               PROVE  Told(m, v)'
    BY <1>5 DEF GiveUp, PagesAreTold
  <2>1. CASE m = c /\ m \in cutShort'
    BY <2>1 DEF Told
  <2>2. CASE m = c /\ m \notin cutShort'
    BY <1>5, <2>2 DEF GiveUp
  <2>3. CASE m # c
    <3>1. m \in messages
      BY <1>5, <2>3 DEF GiveUp
    <3>2. Place(m) <= Place(m)' /\ Place(m) \in Nat /\ Place(m)' \in Nat
      BY <1>5, <3>1, PlaceGrows DEF GiveUp
    <3>3. Told(m, v)
      BY <1>5, <3>1, <3>2 DEF PagesAreTold, GiveUp
    <3>4. ASSUME NEW d \in Calls, made[d] = m,
                 stage[d] = "stored" \/ (stage[d] = "publishing" /\ v \in left[d])
          PROVE  Underway(m, v)'
      <4>1. d = m
        <5>1. req[m].kind = "send" /\ m \in Calls
          BY <3>1
        <5>2. made[d] # None
          BY <3>4, <5>1
        <5>3. req[d].kind = "send"
          BY <5>2, KindType
        <5> QED BY <3>4, <5>3
      <4> QED BY <1>5, <2>3, <3>4, <4>1 DEF Underway, GiveUp
    <3> QED BY <1>5, <3>3, <3>4 DEF Told, Underway, GiveUp
  <2> QED BY <2>1, <2>2, <2>3
<1>6. ASSUME NEW w \in Viewers, Subscribe(w) PROVE PagesAreTold'
  <2> SUFFICES ASSUME NEW v \in subscribers', NEW m \in messages,
                      (v \in complete \/ Place(m) <= offset[v])'
               PROVE  Told(m, v)'
    BY <1>6 DEF Subscribe, PagesAreTold
  <2>1. Place(m)' = Place(m) /\ Place(m) \in Nat /\ Place(m) > 0
    BY <1>6, PlaceType DEF Subscribe, Place
  <2>2. v # w
    BY <1>6, <2>1 DEF Subscribe
  <2>3. Told(m, v)
    BY <1>6, <2>1, <2>2 DEF Subscribe, PagesAreTold
  <2>4. Underway(m, v) => Underway(m, v)'
    BY <1>6 DEF Subscribe, Underway
  <2> QED BY <1>6, <2>2, <2>3, <2>4 DEF Told, Subscribe
<1>7. ASSUME NEW w \in Viewers, Cancel(w) PROVE PagesAreTold'
  <2>1. ASSUME NEW m \in messages, NEW v \in subscribers', Underway(m, v) PROVE Underway(m, v)'
    BY <1>7, <2>1 DEF Cancel, Underway
  <2>2. \A m : Place(m)' = Place(m)
    BY <1>7, PlaceStays DEF Cancel
  <2> QED BY <1>7, <2>1, <2>2 DEF PagesAreTold, Told, Cancel
<1>8. ASSUME NEW w \in Viewers, SendFrame(w) PROVE PagesAreTold'
  <2>1. ASSUME NEW m \in messages, NEW v \in subscribers, Told(m, v) PROVE Told(m, v)'
    <3>1. ASSUME v = w, NEW i \in DOMAIN queue[v], queue[v][i] = m PROVE Told(m, v)'
      <4>1. CASE i = 1
        BY <1>8, <3>1, <4>1 DEF SendFrame, Told
      <4>2. CASE i # 1
        <5>1. i - 1 \in DOMAIN queue'[v] /\ queue'[v][i - 1] = m
          <6>1. queue[v] \in Seq(Calls) /\ i \in 1..Len(queue[v]) /\ queue'[v] = Tail(queue[v])
            BY <1>8, <3>1 DEF SendFrame
          <6>2. i - 1 \in 1..Len(Tail(queue[v])) /\ Tail(queue[v])[i - 1] = queue[v][i]
            <7> HIDE DEF IInv, TypeOK, OwnMessage
            <7> QED BY <4>2, <6>1, TailShifts, Zenon
          <6> QED BY <3>1, <6>1, <6>2
        <5> QED BY <5>1 DEF Told, Underway
      <4> QED BY <4>1, <4>2
    <3> QED BY <1>8, <2>1, <3>1 DEF Told, Underway, SendFrame
  <2>2. \A m : Place(m)' = Place(m)
    BY <1>8, PlaceStays DEF SendFrame
  <2> QED BY <1>8, <2>1, <2>2 DEF PagesAreTold, SendFrame
<1>9. ASSUME NEW w \in Viewers, ListMessages(w) PROVE PagesAreTold'
  <2> SUFFICES ASSUME NEW v \in subscribers, NEW m \in messages,
                      (v \in complete \/ Place(m) <= offset[v])'
               PROVE  Told(m, v)'
    BY <1>9 DEF ListMessages, PagesAreTold
  <2>1. Place(m)' = Place(m) /\ Place(m) \in Nat /\ Place(m) > 0
    BY <1>9, PlaceType, PlaceStays DEF ListMessages
  <2>2. Underway(m, v) => Underway(m, v)'
    BY <1>9 DEF ListMessages, Underway
  <2>3. CASE v = w /\ Place(m) > offset[v]
    <3>1. Place(m) <= offset[v] + PageSize
      BY <1>9, <2>1, <2>3 DEF ListMessages, NextToken
    <3> QED BY <1>9, <2>1, <2>3, <3>1 DEF ListMessages, Told
  <2>4. CASE ~ (v = w /\ Place(m) > offset[v])
    <3>1. v \in complete \/ Place(m) <= offset[v]
      <4>1. CASE v # w
        <5>1. offset'[v] = offset[v] /\ (v \in complete' => v \in complete)
          <6>1. CASE complete' = complete /\ offset' = [offset EXCEPT ![w] = NextToken(@)]
            BY <4>1, <6>1
          <6>2. CASE complete' = complete \cup {w} /\ offset' = offset
            BY <4>1, <6>2
          <6> QED BY <1>9, <6>1, <6>2 DEF ListMessages
        <5> QED BY <2>1, <5>1
      <4>2. CASE v = w
        BY <2>1, <2>4, <4>2
      <4> QED BY <4>1, <4>2
    <3>2. Told(m, v)
      BY <1>9, <3>1 DEF ListMessages, PagesAreTold
    <3> QED BY <1>9, <2>2, <3>2 DEF Told, ListMessages
  <2> QED BY <2>3, <2>4
<1>10. CASE Restart
    BY <1>10 DEF Restart, PagesAreTold
<1>11. CASE UNCHANGED vars
  <2>1. \A m : Place(m)' = Place(m)
    BY <1>11, PlaceStays DEF vars
  <2>2. UNCHANGED <<stage, made, left, messages, subscribers, queue, offset, complete, known,
                    dropped, cutShort>>
    BY <1>11 DEF vars
  <2>3. \A m, v : Told(m, v) => Told(m, v)'
    BY <2>2 DEF Told, Underway
  <2> QED BY <2>1, <2>2, <2>3 DEF PagesAreTold
<1> QED
    BY <1>1, <1>2, <1>3, <1>4, <1>5, <1>6, <1>7, <1>8, <1>9, <1>10, <1>11
    DEF Next, SendMessage, Stream

-----------------------------------------------------------------------------
LEMMA SpecIInv == Spec => []IInv
<1>1. IInv /\ [Next]_vars => IInv'
    BY TypePreserved, OwnPreserved, KeysPreserved, PutOncePreserved, PagesPreserved DEF IInv
<1> QED BY InitIInv, <1>1, PTL DEF Spec

\* The variables of chat-service keep their types, and a publisher in the hub
\* has only open channels before it.
THEOREM TypeCorrect == Spec => []TypeOK
BY SpecIInv, PTL DEF IInv

\* A client that subscribed first and read all pages misses no message, for any
\* number of streams, calls and restarts and any sizes of pages and channels.
THEOREM SpecNothingMissed == Spec => []NothingMissed
<1>1. IInv => NothingMissed
    BY DEF IInv, PagesAreTold, NothingMissed, Told
<1> QED BY SpecIInv, <1>1, PTL

\* A stream is told of a stored message once, and of one per key.
THEOREM SpecToldOnce == Spec => []ToldOnce
<1>1. IInv => ToldOnce
  <2> SUFFICES ASSUME IInv, NEW v \in subscribers PROVE
        LET told == {m \in Calls : copies[v][m] > 0 /\ req[m].kind = "send"}
        IN  /\ \A c \in Calls : copies[v][c] <= 1
            /\ told \subseteq messages
            /\ \A m, d \in told :
                req[m].key = req[d].key \/ req[m].client = req[d].client => m = d
    BY DEF ToldOnce
  <2> QED BY DEF IInv, PutOnce, OnePerKey
<1> QED BY SpecIInv, <1>1, PTL
=============================================================================
