---------------------------- MODULE AnimalProofs ----------------------------
(* Theorems about AnimalLifecycle, for any goroutines, photos and bounds. *)
EXTENDS AnimalLifecycle, SequenceTheorems, TLAPS

USE BoundsAssumption

\* The log tells of an archive that ended this status.
Told(old) ==
    \E j \in DOMAIN log :
        log[j].topic = "status_changed" /\ log[j].new = "archived" /\ log[j].old = old

\* An operation that owes an archived event has announced the status before, or
\* owes that too and owes it first.
DueInOrder ==
    \A w \in Workers : \A i \in DOMAIN due[w] : due[w][i].topic = "profile_archived" =>
        \/ i = 1 /\ stage[w] = "publishing" /\ Told(due[w][i].old)
        \/ /\ i = 2
           /\ due[w][1].topic = "status_changed"
           /\ due[w][1].new = "archived"
           /\ due[w][1].old = due[w][2].old

CopiesNeverExceed == \A w \in Workers, k \in Counters : target[w].count[k] <= received[k]

IInv == TypeOK /\ CountersNeverExceed /\ CopiesNeverExceed /\ DueInOrder /\ StatusEventFirst

LEMMA EventsTyped ==
    ASSUME NEW profile \in Profiles, NEW topic \in Topics, NEW old \in EventStatuses
    PROVE  /\ Event(topic, profile) \in Events
           /\ StatusEvent(old, profile) \in Events
           /\ ArchivedEvent(old, profile) \in Events
BY DEF Event, StatusEvent, ArchivedEvent, Events, EventStatuses, Profiles, Topics

LEMMA NoProfileTyped == NoProfile \in Profiles /\ \A k \in Counters : NoProfile.count[k] = 0
BY DEF NoProfile, Profiles, Statuses, Counters

LEMMA InitIInv == Init => IInv
<1> SUFFICES ASSUME Init PROVE IInv
    OBVIOUS
<1>1. TypeOK
    BY NoProfileTyped DEF Init, TypeOK, Statuses
<1>2. CountersNeverExceed /\ CopiesNeverExceed
    BY NoProfileTyped DEF Init, CountersNeverExceed, CopiesNeverExceed
<1>3. DueInOrder /\ StatusEventFirst
    BY DEF Init, DueInOrder, StatusEventFirst
<1> QED BY <1>1, <1>2, <1>3 DEF IInv

-----------------------------------------------------------------------------
(* Steps that load a profile or write an event.                            *)

\* An operation begins with a changed copy and the events it will owe.
LEMMA BeginKeeps ==
    ASSUME IInv, NEW w \in Workers, NEW changed \in Profiles, NEW events \in Seq(Events),
           Begin(w, changed, events),
           received' \in [Counters -> Nat],
           \A k \in Counters : received[k] <= received'[k] /\ changed.count[k] <= received'[k],
           \A i \in DOMAIN events : events[i].topic = "profile_archived" =>
                i = 2 /\ events[1].topic = "status_changed" /\ events[1].new = "archived"
                      /\ events[1].old = events[2].old
    PROVE  IInv'
<1> USE DEF Begin, IInv
<1>1. TypeOK'
    BY DEF TypeOK
<1>2. CountersNeverExceed' /\ CopiesNeverExceed'
  <2>1. /\ \A x \in Workers : target'[x] = IF x = w THEN changed ELSE target[x]
        /\ \A x \in Workers, k \in Counters : target[x].count[k] \in Nat
        /\ \A k \in Counters : row.count[k] \in Nat /\ received[k] \in Nat /\ received'[k] \in Nat
        /\ \A k \in Counters : changed.count[k] \in Nat
    BY DEF TypeOK, Profiles
  <2>2. CountersNeverExceed'
    BY <2>1 DEF CountersNeverExceed
  <2>3. ASSUME NEW x \in Workers, NEW k \in Counters PROVE target'[x].count[k] <= received'[k]
    <3>1. CASE x = w
      BY <2>1, <3>1
    <3>2. CASE x # w
      <4>1. target[x].count[k] <= received[k] /\ received[k] <= received'[k]
        BY DEF CopiesNeverExceed
      <4> QED BY <2>1, <3>2, <4>1
    <3> QED BY <3>1, <3>2
  <2> QED BY <2>2, <2>3 DEF CopiesNeverExceed
<1>3. DueInOrder'
  <2>1. \A x \in Workers : /\ due'[x] = IF x = w THEN events ELSE due[x]
                           /\ stage'[x] = IF x = w THEN "storing" ELSE stage[x]
    BY DEF TypeOK
  <2>2. \A old : Told(old)' <=> Told(old)
    BY DEF Told
  <2> QED BY <2>1, <2>2 DEF DueInOrder
<1>4. StatusEventFirst'
    BY DEF StatusEventFirst, Announced
<1> QED BY <1>1, <1>2, <1>3, <1>4

\* The next event of an operation is written to Kafka; what it owes after that
\* is in order again, whether it is done with the event or not.
LEMMA LogKeeps ==
    ASSUME IInv, NEW w \in Workers, stage[w] = "publishing", log' = Append(log, Head(due[w]))
    PROVE  /\ log' \in Seq(Events)
           /\ StatusEventFirst'
           /\ \A old : Told(old) => Told(old)'
           /\ Head(due[w]).topic = "status_changed" /\ Head(due[w]).new = "archived"
                => \A old : old = Head(due[w]).old => Told(old)'
<1>1. /\ due[w] \in Seq(Events) /\ due[w] # << >> /\ Head(due[w]) = due[w][1] /\ 1 \in DOMAIN due[w]
      /\ due[w][1] \in Events /\ log \in Seq(Events)
    BY DEF IInv, TypeOK
<1>2. /\ log' \in Seq(Events) /\ Len(log') = Len(log) + 1 /\ DOMAIN log' = 1..(Len(log) + 1)
      /\ DOMAIN log = 1..Len(log) /\ Len(log) \in Nat
      /\ \A i \in 1..Len(log) : log'[i] = log[i]
      /\ log'[Len(log) + 1] = due[w][1]
    BY <1>1
<1>3. \A old : Told(old) => Told(old)'
    BY <1>2 DEF Told
<1>4. StatusEventFirst'
  <2> SUFFICES ASSUME NEW i \in DOMAIN log', log'[i].topic = "profile_archived"
               PROVE  \E j \in DOMAIN log' : /\ log'[j].topic = "status_changed" /\ log'[j].new = "archived"
                                             /\ j < i /\ log'[j].old = log'[i].old
    BY DEF StatusEventFirst, Announced
  <2>1. CASE i \in 1..Len(log)
    <3>1. \E j \in DOMAIN log : /\ log[j].topic = "status_changed" /\ log[j].new = "archived"
                               /\ j < i /\ log[j].old = log[i].old
      BY <1>2, <2>1 DEF IInv, StatusEventFirst, Announced
    <3> QED BY <1>2, <2>1, <3>1
  <2>2. CASE i = Len(log) + 1
    <3>1. Told(due[w][1].old)
      BY <1>1, <1>2, <2>2 DEF IInv, DueInOrder
    <3> QED BY <1>2, <2>2, <3>1 DEF Told
  <2> QED BY <1>2, <2>1, <2>2
<1>5. Head(due[w]).topic = "status_changed" /\ Head(due[w]).new = "archived"
        => \A old : old = Head(due[w]).old => Told(old)'
    BY <1>1, <1>2 DEF Told
<1> QED BY <1>2, <1>3, <1>4, <1>5

\* A sequence of two or more, and what is left of it.
LEMMA TailOf ==
    ASSUME NEW S, NEW s \in Seq(S), s # << >>, Len(s) # 1
    PROVE  /\ s \in Seq(S) /\ Len(s) \in Nat /\ Len(s) > 1
           /\ Tail(s) \in Seq(S) /\ Tail(s) # << >>
           /\ Head(s) = s[1]
           /\ \A i \in DOMAIN Tail(s) :
                i + 1 \in DOMAIN s /\ i \in Nat /\ i > 0 /\ Tail(s)[i] = s[i + 1]
<1>1. \A n \in Nat \ {0} : n # 1 => n > 1
    OBVIOUS
<1>2. Len(s) \in Nat /\ Len(s) > 1
    BY <1>1, EmptySeq
<1>3. /\ Tail(s) \in Seq(S) /\ Len(Tail(s)) = Len(s) - 1
      /\ \A i \in 1..Len(Tail(s)) : Tail(s)[i] = s[i + 1]
    BY HeadTailProperties
<1>4. DOMAIN s = 1..Len(s) /\ DOMAIN Tail(s) = 1..(Len(s) - 1)
    BY <1>3
<1>5. Tail(s) # << >>
  <2>1. Len(Tail(s)) # 0
    BY <1>2, <1>3
  <2> QED BY <2>1, EmptySeq
<1>6. Head(s) = s[1]
    OBVIOUS
<1> QED BY <1>2, <1>3, <1>4, <1>5, <1>6

\* The ends of an operation.
LEMMA FinishKeeps ==
    ASSUME IInv, NEW w \in Workers, Finish(w), UNCHANGED <<started, repeats, received>>,
           row' \in Profiles, held' \subseteq Statuses, log' \in Seq(Events),
           \A k \in Counters : row'.count[k] <= received[k],
           \A old : Told(old) => Told(old)',
           StatusEventFirst'
    PROVE  IInv'
<1> USE DEF Finish, IInv
<1>1. TypeOK'
    BY NoProfileTyped DEF TypeOK
<1>2. CountersNeverExceed' /\ CopiesNeverExceed'
    BY NoProfileTyped DEF TypeOK, CountersNeverExceed, CopiesNeverExceed
<1>3. DueInOrder'
    BY DEF TypeOK, DueInOrder
<1> QED BY <1>1, <1>2, <1>3

-----------------------------------------------------------------------------
(* The invariant.                                                          *)

LEMMA CallKeeps ==
    ASSUME IInv, NEW w \in Workers,
           Update(w) \/ Publish(w) \/ Archive(w) \/ ApplyBoostActivated(w)
           \/ \E p \in Photos : AddPhoto(w, p) \/ RemovePhoto(w, p)
    PROVE  IInv'
<1>1. /\ row \in Profiles /\ row.status \in EventStatuses /\ received \in [Counters -> Nat]
      /\ \A k \in Counters : row.count[k] <= received[k]
    BY DEF IInv, TypeOK, Profiles, EventStatuses, CountersNeverExceed
<1>2. ASSUME NEW changed \in Profiles, NEW topic \in Topics, topic # "profile_archived",
             changed.count = row.count, Call(w, changed, <<Event(topic, changed)>>)
      PROVE  IInv'
  <2>1. Event(topic, changed) \in Events /\ Event(topic, changed).topic = topic
    BY EventsTyped DEF Event, EventStatuses
  <2> DEFINE events == <<Event(topic, changed)>>
  <2>2. events \in Seq(Events) /\ \A i \in DOMAIN events : events[i].topic # "profile_archived"
    BY <1>2, <2>1
  <2> HIDE DEF events
  <2>3. Begin(w, changed, events) /\ received' = received
    BY <1>2 DEF Call, events
  <2> QED BY <1>1, <1>2, <2>2, <2>3, BeginKeeps
<1>3. ASSUME NEW changed \in Profiles, NEW e \in Events, NEW f \in Events,
             changed.count = row.count, Call(w, changed, <<e, f>>), e.topic # "profile_archived",
             f.topic = "profile_archived" =>
                e.topic = "status_changed" /\ e.new = "archived" /\ e.old = f.old
      PROVE  IInv'
  <2> DEFINE events == <<e, f>>
  <2>1. /\ events \in Seq(Events)
        /\ \A i \in DOMAIN events : events[i].topic = "profile_archived" =>
                i = 2 /\ events[1].topic = "status_changed" /\ events[1].new = "archived"
                      /\ events[1].old = events[2].old
    BY <1>3
  <2> HIDE DEF events
  <2>2. Begin(w, changed, events) /\ received' = received
    BY <1>3 DEF Call, events
  <2> QED BY <1>1, <1>3, <2>1, <2>2, BeginKeeps
<1>4. CASE Update(w)
    BY <1>1, <1>2, <1>4 DEF Update, Topics
<1>5. CASE Publish(w)
  <2> DEFINE changed == [row EXCEPT !.status = "available", !.public = TRUE]
  <2>1. changed \in Profiles /\ changed.count = row.count
    BY <1>1 DEF Profiles, Statuses
  <2>2. /\ StatusEvent(row.status, changed) \in Events /\ Event("profile_published", changed) \in Events
        /\ StatusEvent(row.status, changed).topic = "status_changed"
        /\ Event("profile_published", changed).topic = "profile_published"
    BY <1>1, <2>1, EventsTyped DEF Event, StatusEvent, Topics, EventStatuses
  <2>3. Call(w, changed, <<StatusEvent(row.status, changed), Event("profile_published", changed)>>)
    BY <1>5 DEF Publish
  <2> HIDE DEF changed
  <2> QED BY <1>3, <2>1, <2>2, <2>3
<1>6. CASE Archive(w)
  <2> DEFINE changed == [row EXCEPT !.status = "archived", !.public = FALSE]
  <2>1. changed \in Profiles /\ changed.count = row.count /\ changed.status = "archived"
    BY <1>1 DEF Profiles, Statuses
  <2>2. /\ StatusEvent(row.status, changed) \in Events /\ ArchivedEvent(row.status, changed) \in Events
        /\ StatusEvent(row.status, changed).topic = "status_changed"
        /\ StatusEvent(row.status, changed).new = "archived"
        /\ StatusEvent(row.status, changed).old = row.status
        /\ ArchivedEvent(row.status, changed).old = row.status
    BY <1>1, <2>1, EventsTyped DEF Event, StatusEvent, ArchivedEvent, Topics, EventStatuses
  <2>3. Call(w, changed, <<StatusEvent(row.status, changed), ArchivedEvent(row.status, changed)>>)
    BY <1>6 DEF Archive
  <2> HIDE DEF changed
  <2> QED BY <1>3, <2>1, <2>2, <2>3
<1>7. CASE ApplyBoostActivated(w)
  <2> DEFINE changed == [row EXCEPT !.boosted = TRUE]
  <2>1. changed \in Profiles /\ changed.count = row.count
    BY <1>1 DEF Profiles
  <2>2. Call(w, changed, <<Event("status_changed", changed)>>)
    BY <1>7 DEF ApplyBoostActivated
  <2> HIDE DEF changed
  <2> QED BY <1>2, <2>1, <2>2 DEF Topics
<1>8. ASSUME NEW p \in Photos, AddPhoto(w, p) PROVE IInv'
  <2> DEFINE changed == [row EXCEPT !.photos = @ \cup {p}]
  <2>1. changed \in Profiles /\ changed.count = row.count
    BY <1>1 DEF Profiles
  <2>2. Call(w, changed, <<Event("photo_added", changed)>>)
    BY <1>8 DEF AddPhoto
  <2> HIDE DEF changed
  <2> QED BY <1>2, <2>1, <2>2 DEF Topics
<1>9. ASSUME NEW p \in Photos, RemovePhoto(w, p) PROVE IInv'
  <2> DEFINE changed == [row EXCEPT !.photos = @ \ {p}]
  <2>1. changed \in Profiles /\ changed.count = row.count
    BY <1>1 DEF Profiles
  <2>2. Call(w, changed, <<Event("profile_updated", changed)>>)
    BY <1>9 DEF RemovePhoto
  <2> HIDE DEF changed
  <2> QED BY <1>2, <2>1, <2>2 DEF Topics
<1> QED BY <1>4, <1>5, <1>6, <1>7, <1>8, <1>9

LEMMA CountKeeps ==
    ASSUME IInv, NEW w \in Workers, NEW k \in Counters, Count(w, k)
    PROVE  IInv'
<1> DEFINE changed == [row EXCEPT !.count[k] = @ + 1]
<1>1. /\ row \in Profiles /\ received \in [Counters -> Nat]
      /\ \A j \in Counters : row.count[j] \in Nat /\ row.count[j] <= received[j]
    BY DEF IInv, TypeOK, Profiles, CountersNeverExceed
<1>2. changed \in Profiles /\ \A j \in Counters : changed.count[j] = IF j = k THEN row.count[j] + 1 ELSE row.count[j]
    BY <1>1 DEF Profiles
<1>3. Begin(w, changed, << >>) /\ received' = [received EXCEPT ![k] = @ + 1]
    BY DEF Count
<1>4. received' \in [Counters -> Nat] /\ \A j \in Counters : received[j] <= received'[j] /\ changed.count[j] <= received'[j]
    BY <1>1, <1>2, <1>3
<1>5. << >> \in Seq(Events) /\ DOMAIN << >> = {}
    OBVIOUS
<1> HIDE DEF changed
<1>6. ASSUME NEW events, events = << >> PROVE IInv'
    BY <1>2, <1>3, <1>4, <1>5, <1>6, BeginKeeps
<1> QED BY <1>6

LEMMA CreateKeeps ==
    ASSUME IInv, NEW w \in Workers, NEW photos \in SUBSET Photos, Create(w, photos)
    PROVE  IInv'
<1> USE DEF Create, IInv
<1>1. row' \in Profiles /\ row'.count = NoProfile.count
    BY DEF NoProfile, Profiles, Statuses
<1>2. /\ Event("profile_created", row') \in Events
      /\ Event("profile_created", row').topic = "profile_created"
    BY <1>1, EventsTyped DEF Event, Topics, EventStatuses
<1>3. TypeOK'
    BY <1>1, <1>2 DEF TypeOK, Statuses
<1>4. CountersNeverExceed' /\ CopiesNeverExceed'
    BY <1>1, NoProfileTyped DEF TypeOK, CountersNeverExceed, CopiesNeverExceed
<1>5. DueInOrder'
  <2>1. \A x \in Workers : /\ due'[x] = IF x = w THEN <<Event("profile_created", row')>> ELSE due[x]
                           /\ x # w => stage'[x] = stage[x]
    BY DEF TypeOK
  <2>2. \A old : Told(old)' <=> Told(old)
    BY DEF Told
  <2> QED BY <1>2, <2>1, <2>2 DEF DueInOrder
<1>6. StatusEventFirst'
    BY DEF StatusEventFirst, Announced
<1> QED BY <1>3, <1>4, <1>5, <1>6

LEMMA StoreKeeps ==
    ASSUME IInv, NEW w \in Workers, Store(w)
    PROVE  IInv'
<1>1. /\ row' = target[w] /\ row' \in Profiles /\ held' \subseteq Statuses
      /\ UNCHANGED <<log, started, repeats, received>> /\ log \in Seq(Events)
      /\ \A k \in Counters : row'.count[k] <= received[k]
    BY DEF Store, IInv, TypeOK, Profiles, CopiesNeverExceed
<1>2. (\A old : Told(old)' <=> Told(old)) /\ StatusEventFirst'
    BY <1>1 DEF Told, IInv, StatusEventFirst, Announced
<1>3. CASE due[w] = << >>
    BY <1>1, <1>2, <1>3, FinishKeeps DEF Store
<1>4. CASE due[w] # << >>
  <2>1. stage[w] = "storing" /\ stage' = [stage EXCEPT ![w] = "publishing"] /\ UNCHANGED <<target, due>>
    BY <1>4 DEF Store
  <2>2. TypeOK' /\ CountersNeverExceed' /\ CopiesNeverExceed'
    BY <1>1, <1>4, <2>1 DEF IInv, TypeOK, CountersNeverExceed, CopiesNeverExceed
  <2>3. DueInOrder'
    BY <1>2, <2>1 DEF IInv, TypeOK, DueInOrder
  <2> QED BY <1>2, <2>2, <2>3 DEF IInv
<1> QED BY <1>3, <1>4

LEMMA PublishKeeps ==
    ASSUME IInv, NEW w \in Workers, PublishEvent(w)
    PROVE  IInv'
<1> USE DEF IInv
<1>1. /\ stage[w] = "publishing" /\ log' = Append(log, Head(due[w]))
      /\ UNCHANGED <<row, started, repeats, received, held>>
    BY DEF PublishEvent
<1>2. /\ log' \in Seq(Events) /\ StatusEventFirst' /\ \A old : Told(old) => Told(old)'
      /\ Head(due[w]).topic = "status_changed" /\ Head(due[w]).new = "archived"
            => \A old : old = Head(due[w]).old => Told(old)'
    BY <1>1, LogKeeps
<1>3. CASE Len(due[w]) = 1
  <2>1. row' \in Profiles /\ held' \subseteq Statuses /\ \A k \in Counters : row'.count[k] <= received[k]
    BY <1>1 DEF TypeOK, CountersNeverExceed
  <2> QED BY <1>1, <1>2, <1>3, <2>1, FinishKeeps DEF PublishEvent
<1>4. CASE Len(due[w]) # 1
  <2>1. due' = [due EXCEPT ![w] = Tail(due[w])] /\ UNCHANGED <<stage, target>>
    BY <1>4 DEF PublishEvent
  <2>2. /\ due[w] \in Seq(Events) /\ Len(due[w]) \in Nat /\ Len(due[w]) > 1
        /\ Tail(due[w]) \in Seq(Events) /\ Tail(due[w]) # << >>
        /\ Head(due[w]) = due[w][1]
        /\ \A i \in DOMAIN Tail(due[w]) : i + 1 \in DOMAIN due[w] /\ i \in Nat /\ i > 0 /\ Tail(due[w])[i] = due[w][i + 1]
    <3>1. due[w] \in Seq(Events) /\ due[w] # << >>
      BY <1>1 DEF TypeOK
    <3> QED BY <1>4, <3>1, TailOf
  <2>3. TypeOK' /\ CountersNeverExceed' /\ CopiesNeverExceed'
    BY <1>1, <1>2, <2>1, <2>2 DEF TypeOK, CountersNeverExceed, CopiesNeverExceed
  <2>4. ASSUME NEW i \in DOMAIN Tail(due[w]), Tail(due[w])[i].topic = "profile_archived"
        PROVE  i = 1 /\ \A old : old = Tail(due[w])[i].old => Told(old)'
    BY <1>2, <2>2, <2>4 DEF DueInOrder
  <2>5. DueInOrder'
    <3> SUFFICES ASSUME NEW x \in Workers, NEW i \in DOMAIN due'[x], due'[x][i].topic = "profile_archived"
                 PROVE  \/ i = 1 /\ stage[x] = "publishing" /\ Told(due[x][i].old)'
                        \/ /\ i = 2
                           /\ due'[x][1].topic = "status_changed"
                           /\ due'[x][1].new = "archived"
                           /\ due'[x][1].old = due'[x][2].old
      BY <2>1 DEF DueInOrder
    <3>1. CASE x = w
      <4>1. due'[x] = Tail(due[w])
        BY <2>1, <3>1 DEF TypeOK
      <4> QED BY <1>1, <2>1, <2>4, <3>1, <4>1
    <3>2. CASE x # w
      <4>1. due'[x] = due[x]
        BY <2>1, <3>2 DEF TypeOK
      <4> QED BY <1>2, <4>1 DEF DueInOrder
    <3> QED BY <3>1, <3>2
  <2> QED BY <1>2, <2>3, <2>5
<1> QED BY <1>3, <1>4

LEMMA RepeatKeeps ==
    ASSUME IInv, NEW w \in Workers, RepeatEvent(w)
    PROVE  IInv'
<1> USE DEF IInv
<1>1. /\ stage[w] = "publishing" /\ log' = Append(log, Head(due[w]))
      /\ repeats < MaxRepeats /\ repeats' = repeats + 1
      /\ UNCHANGED <<row, stage, target, due, started, received, held>>
    BY DEF RepeatEvent
<1>2. log' \in Seq(Events) /\ StatusEventFirst' /\ \A old : Told(old) => Told(old)'
    BY <1>1, LogKeeps
<1>3. TypeOK' /\ CountersNeverExceed' /\ CopiesNeverExceed'
    BY <1>1, <1>2 DEF TypeOK, CountersNeverExceed, CopiesNeverExceed
<1>4. DueInOrder'
    BY <1>1, <1>2 DEF DueInOrder
<1> QED BY <1>2, <1>3, <1>4

LEMMA GiveUpKeeps ==
    ASSUME IInv, NEW w \in Workers, GiveUp(w)
    PROVE  IInv'
<1>1. Finish(w) /\ UNCHANGED <<row, started, repeats, received, held>>
    BY DEF GiveUp
<1>2. log' \in Seq(Events) /\ StatusEventFirst' /\ \A old : Told(old) => Told(old)'
  <2>1. CASE UNCHANGED log
    BY <2>1 DEF IInv, TypeOK, StatusEventFirst, Announced, Told
  <2>2. CASE stage[w] = "publishing" /\ log' = Append(log, Head(due[w]))
    BY <2>2, LogKeeps
  <2> QED BY <2>1, <2>2 DEF GiveUp
<1>3. row' \in Profiles /\ held' \subseteq Statuses /\ \A k \in Counters : row'.count[k] <= received[k]
    BY <1>1 DEF IInv, TypeOK, CountersNeverExceed
<1> QED BY <1>1, <1>2, <1>3, FinishKeeps

LEMMA NextIInv == IInv /\ [Next]_vars => IInv'
<1> SUFFICES ASSUME IInv, [Next]_vars PROVE IInv'
    OBVIOUS
<1>1. CASE UNCHANGED vars
  <2>1. TypeOK' /\ CountersNeverExceed' /\ CopiesNeverExceed' /\ StatusEventFirst'
    BY <1>1 DEF vars, IInv, TypeOK, CountersNeverExceed, CopiesNeverExceed, StatusEventFirst, Announced
  <2>2. DueInOrder'
    BY <1>1 DEF vars, IInv, DueInOrder, Told
  <2> QED BY <2>1, <2>2 DEF IInv
<1>2. ASSUME NEW w \in Workers, ApplyDonationSucceeded(w) \/ ApplyMatchCreated(w) PROVE IInv'
    BY <1>2, CountKeeps DEF ApplyDonationSucceeded, ApplyMatchCreated, Counters
<1> QED
    BY <1>1, <1>2, CallKeeps, CreateKeeps, StoreKeeps, PublishKeeps, RepeatKeeps, GiveUpKeeps
       DEF Next, OwnerCall, BillingMessage, Continue

LEMMA SpecIInv == Spec => []IInv
BY InitIInv, NextIInv, PTL DEF Spec

-----------------------------------------------------------------------------
(* Theorems.                                                               *)

\* Every reachable state is typed: an idle goroutine owes nothing and one that
\* publishes has something to publish.
THEOREM TypeCorrect == Spec => []TypeOK
<1>1. IInv => TypeOK
    BY DEF IInv
<1> QED BY <1>1, SpecIInv, PTL

\* Whatever whole-row updates overlap, no counter exceeds the messages read.
THEOREM SpecCountersNeverExceed == Spec => []CountersNeverExceed
<1>1. IInv => CountersNeverExceed
    BY DEF IInv
<1> QED BY <1>1, SpecIInv, PTL

\* Every archived event has an earlier status event of the same archive.
THEOREM SpecStatusEventFirst == Spec => []StatusEventFirst
<1>1. IInv => StatusEventFirst
    BY DEF IInv
<1> QED BY <1>1, SpecIInv, PTL

-----------------------------------------------------------------------------
(* What status events may say.                                             *)

\* An event that names no status, or one an operation gives a profile.
Names(e, statuses) == e.new = "unspecified" \/ e.new \in statuses \cap {"available", "archived"}

LogIsHeld == \A i \in DOMAIN log : Names(log[i], held)

\* What an operation announces it has stored, or is going to store first.
DueIsHeld ==
    \A w \in Workers : \A i \in DOMAIN due[w] :
        Names(due[w][i], IF stage[w] = "storing" THEN {target[w].status} ELSE held)

HeldInv == LogIsHeld /\ DueIsHeld

LEMMA BeginHolds ==
    ASSUME IInv, HeldInv, NEW w \in Workers, NEW changed, NEW events \in Seq(Events),
           Begin(w, changed, events),
           \A i \in DOMAIN events : Names(events[i], {changed.status})
    PROVE  HeldInv'
<1>1. /\ \A x \in Workers : x # w => stage'[x] = stage[x] /\ target'[x] = target[x] /\ due'[x] = due[x]
      /\ stage'[w] = "storing" /\ target'[w] = changed /\ due'[w] = events
      /\ UNCHANGED <<log, held>>
  <2>1. /\ stage \in [Workers -> {"idle", "storing", "publishing"}]
        /\ target \in [Workers -> Profiles] /\ due \in [Workers -> Seq(Events)]
    BY DEF IInv, TypeOK
  <2>2. /\ stage' = [stage EXCEPT ![w] = "storing"] /\ target' = [target EXCEPT ![w] = changed]
        /\ due' = [due EXCEPT ![w] = events] /\ UNCHANGED <<log, held>>
    BY DEF Begin
  <2> QED BY <2>1, <2>2
<1>2. LogIsHeld'
    BY <1>1 DEF HeldInv, LogIsHeld, Names
<1>3. ASSUME NEW x \in Workers, NEW i \in DOMAIN due'[x]
      PROVE  Names(due'[x][i], IF stage'[x] = "storing" THEN {target'[x].status} ELSE held')
  <2>1. CASE x = w
    BY <1>1, <1>3, <2>1 DEF Names
  <2>2. CASE x # w
    BY <1>1, <1>3, <2>2 DEF HeldInv, DueIsHeld, Names
  <2> QED BY <2>1, <2>2
<1> QED BY <1>2, <1>3 DEF HeldInv, DueIsHeld, Names

LEMMA CallHolds ==
    ASSUME IInv, HeldInv, NEW w \in Workers, OwnerCall(w) \/ BillingMessage(w) \/ ApplyMatchCreated(w),
           ~ \E photos \in SUBSET Photos : Create(w, photos)
    PROVE  HeldInv'
<1>1. ASSUME NEW changed \in Profiles, NEW topic \in Topics, Call(w, changed, <<Event(topic, changed)>>)
      PROVE  HeldInv'
  <2> DEFINE events == <<Event(topic, changed)>>
  <2>1. events \in Seq(Events) /\ \A i \in DOMAIN events : Names(events[i], {changed.status})
    BY EventsTyped DEF Event, Names, EventStatuses
  <2> HIDE DEF events
  <2> QED BY <1>1, <2>1, BeginHolds DEF Call, events
<1>2. ASSUME NEW changed \in Profiles, changed.status \in {"available", "archived"},
             NEW e \in Events, e \in {Event("profile_published", changed), ArchivedEvent(row.status, changed)},
             Call(w, changed, <<StatusEvent(row.status, changed), e>>)
      PROVE  HeldInv'
  <2> DEFINE events == <<StatusEvent(row.status, changed), e>>
  <2>1. row.status \in EventStatuses
    BY DEF IInv, TypeOK, Profiles, EventStatuses
  <2>2. StatusEvent(row.status, changed) \in Events
    BY <2>1, EventsTyped DEF Topics
  <2>3. StatusEvent(row.status, changed).new = changed.status /\ e.new = "unspecified"
    BY <1>2 DEF StatusEvent, ArchivedEvent, Event
  <2>4. events \in Seq(Events) /\ DOMAIN events = {1, 2} /\ events[1] = StatusEvent(row.status, changed) /\ events[2] = e
    BY <2>2
  <2>5. Begin(w, changed, events)
    BY <1>2 DEF Call
  <2> HIDE DEF events
  <2>6. \A i \in DOMAIN events : Names(events[i], {changed.status})
    BY <1>2, <2>3, <2>4 DEF Names
  <2> QED BY <2>4, <2>5, <2>6, BeginHolds
<1>3. row \in Profiles /\ row.status \in EventStatuses
    BY DEF IInv, TypeOK, Profiles, EventStatuses
<1>4. CASE Update(w)
    BY <1>1, <1>3, <1>4 DEF Update, Topics
<1>5. CASE Publish(w)
  <2> DEFINE changed == [row EXCEPT !.status = "available", !.public = TRUE]
  <2>1. changed \in Profiles /\ changed.status = "available"
    BY <1>3 DEF Profiles, Statuses
  <2>2. Call(w, changed, <<StatusEvent(row.status, changed), Event("profile_published", changed)>>)
    BY <1>5 DEF Publish
  <2> HIDE DEF changed
  <2>3. Event("profile_published", changed) \in Events
    BY <2>1, EventsTyped DEF Topics, EventStatuses
  <2> QED BY <1>2, <2>1, <2>2, <2>3
<1>6. CASE Archive(w)
  <2> DEFINE changed == [row EXCEPT !.status = "archived", !.public = FALSE]
  <2>1. changed \in Profiles /\ changed.status = "archived"
    BY <1>3 DEF Profiles, Statuses
  <2>2. Call(w, changed, <<StatusEvent(row.status, changed), ArchivedEvent(row.status, changed)>>)
    BY <1>6 DEF Archive
  <2> HIDE DEF changed
  <2>3. ArchivedEvent(row.status, changed) \in Events
    BY <1>3, <2>1, EventsTyped DEF Topics
  <2> QED BY <1>2, <2>1, <2>2, <2>3
<1>7. ASSUME NEW p \in Photos, AddPhoto(w, p) \/ RemovePhoto(w, p) PROVE HeldInv'
  <2>1. [row EXCEPT !.photos = @ \cup {p}] \in Profiles /\ [row EXCEPT !.photos = @ \ {p}] \in Profiles
    BY <1>3 DEF Profiles
  <2> QED BY <1>1, <1>7, <2>1 DEF AddPhoto, RemovePhoto, Topics
<1>8. CASE ApplyBoostActivated(w)
  <2>1. [row EXCEPT !.boosted = TRUE] \in Profiles
    BY <1>3 DEF Profiles
  <2> QED BY <1>1, <1>8, <2>1 DEF ApplyBoostActivated, Topics
<1>9. ASSUME NEW k \in Counters, Count(w, k) PROVE HeldInv'
  <2>1. << >> \in Seq(Events) /\ DOMAIN << >> = {}
    OBVIOUS
  <2> QED BY <1>9, <2>1, BeginHolds DEF Count
<1> QED
    BY <1>4, <1>5, <1>6, <1>7, <1>8, <1>9
       DEF OwnerCall, BillingMessage, ApplyDonationSucceeded, ApplyMatchCreated, Counters

\* A step that writes the next event at most, and leaves the row.
LEMMA WriteHolds ==
    ASSUME IInv, HeldInv, NEW w \in Workers, PublishEvent(w) \/ RepeatEvent(w) \/ GiveUp(w)
    PROVE  HeldInv'
<1>1. /\ UNCHANGED held
      /\ \/ UNCHANGED log
         \/ stage[w] = "publishing" /\ log' = Append(log, Head(due[w]))
  <2>1. PublishEvent(w) \/ RepeatEvent(w) => UNCHANGED held /\ stage[w] = "publishing" /\ log' = Append(log, Head(due[w]))
    BY DEF PublishEvent, RepeatEvent
  <2>2. GiveUp(w) => /\ UNCHANGED held
                     /\ \/ UNCHANGED log
                        \/ stage[w] = "publishing" /\ log' = Append(log, Head(due[w]))
    BY DEF GiveUp
  <2> QED BY <2>1, <2>2
<1>2. LogIsHeld'
  <2>1. CASE UNCHANGED log
    BY <1>1, <2>1 DEF HeldInv, LogIsHeld, Names
  <2>2. CASE stage[w] = "publishing" /\ log' = Append(log, Head(due[w]))
    <3>1. due[w] \in Seq(Events) /\ due[w] # << >> /\ log \in Seq(Events)
      BY <2>2 DEF IInv, TypeOK
    <3>2. 1 \in DOMAIN due[w] /\ Head(due[w]) = due[w][1]
      BY <3>1
    <3>3. Names(Head(due[w]), held)
      BY <2>2, <3>2 DEF HeldInv, DueIsHeld
    <3>4. \A i \in DOMAIN log' : log'[i] = Head(due[w]) \/ (i \in DOMAIN log /\ log'[i] = log[i])
      BY <2>2, <3>1
    <3> QED BY <1>1, <3>3, <3>4 DEF HeldInv, LogIsHeld, Names
  <2> QED BY <1>1, <2>1, <2>2
<1>3. DueIsHeld'
  <2>1. CASE UNCHANGED <<due, stage, target>>
    BY <1>1, <2>1 DEF HeldInv, DueIsHeld, Names
  <2>2. CASE Finish(w)
    BY <1>1, <2>2 DEF Finish, HeldInv, DueIsHeld, Names, IInv, TypeOK
  <2>3. CASE PublishEvent(w) /\ Len(due[w]) # 1
    <3>1. /\ due' = [due EXCEPT ![w] = Tail(due[w])] /\ UNCHANGED <<stage, target, held>>
          /\ due[w] \in Seq(Events) /\ due[w] # << >>
      BY <2>3 DEF PublishEvent, IInv, TypeOK
    <3>2. \A i \in DOMAIN due'[w] : \E j \in DOMAIN due[w] : due'[w][i] = due[w][j]
      BY <2>3, <3>1, TailOf DEF IInv, TypeOK
    <3>3. \A x \in Workers : x # w => due'[x] = due[x]
      BY <3>1 DEF IInv, TypeOK
    <3> QED BY <3>1, <3>2, <3>3 DEF HeldInv, DueIsHeld, Names
  <2> QED BY <2>1, <2>2, <2>3 DEF PublishEvent, RepeatEvent, GiveUp
<1> QED BY <1>2, <1>3 DEF HeldInv

LEMMA StoreHolds ==
    ASSUME IInv, HeldInv, NEW w \in Workers, Store(w)
    PROVE  HeldInv'
<1>1. /\ stage[w] = "storing" /\ UNCHANGED log /\ held' = held \cup {target[w].status}
      /\ \A x \in Workers : x # w => stage'[x] = stage[x] /\ target'[x] = target[x] /\ due'[x] = due[x]
      /\ stage'[w] # "storing" /\ (due'[w] = due[w] \/ due'[w] = << >>)
    BY DEF Store, Finish, IInv, TypeOK
<1>2. LogIsHeld'
    BY <1>1 DEF HeldInv, LogIsHeld, Names
<1>3. ASSUME NEW x \in Workers, NEW i \in DOMAIN due'[x]
      PROVE  Names(due'[x][i], IF stage'[x] = "storing" THEN {target'[x].status} ELSE held')
  <2>1. CASE x = w
    BY <1>1, <1>3, <2>1 DEF HeldInv, DueIsHeld, Names
  <2>2. CASE x # w
    BY <1>1, <1>3, <2>2 DEF HeldInv, DueIsHeld, Names
  <2> QED BY <2>1, <2>2
<1> QED BY <1>2, <1>3 DEF HeldInv, DueIsHeld, Names

LEMMA CreateHolds ==
    ASSUME IInv, HeldInv, NEW w \in Workers, NEW photos \in SUBSET Photos, Create(w, photos)
    PROVE  HeldInv'
<1>1. /\ UNCHANGED <<log, target>> /\ held' = held \cup {"draft"}
      /\ \A x \in Workers : x # w => stage'[x] = stage[x] /\ due'[x] = due[x]
      /\ stage'[w] = "publishing" /\ due'[w] = <<Event("profile_created", row')>>
    BY DEF Create, IInv, TypeOK
<1>2. LogIsHeld'
    BY <1>1 DEF HeldInv, LogIsHeld, Names
<1>3. \A i \in DOMAIN due'[w] : due'[w][i].new = "unspecified"
    BY <1>1 DEF Event
<1> QED BY <1>1, <1>2, <1>3 DEF HeldInv, DueIsHeld, Names

LEMMA NextHolds == IInv /\ HeldInv /\ [Next]_vars => HeldInv'
<1> SUFFICES ASSUME IInv, HeldInv, [Next]_vars PROVE HeldInv'
    OBVIOUS
<1>1. CASE UNCHANGED vars
    BY <1>1 DEF vars, HeldInv, LogIsHeld, DueIsHeld, Names
<1> QED BY <1>1, CallHolds, CreateHolds, StoreHolds, WriteHolds DEF Next, OwnerCall, Continue

\* No event announces a status before the row had it, whatever operations
\* overlap, fail or are written twice.
THEOREM SpecAnnouncedWasHeld == Spec => []AnnouncedWasHeld
<1>1. Init => HeldInv
    BY DEF Init, HeldInv, LogIsHeld, DueIsHeld
<1>2. HeldInv => AnnouncedWasHeld
    BY DEF HeldInv, LogIsHeld, Names, AnnouncedWasHeld
<1> QED BY <1>1, <1>2, NextHolds, SpecIInv, PTL DEF Spec
=============================================================================
