--------------------------- MODULE AdoptionProofs ---------------------------
(***************************************************************************)
(* Theorems about Adoption, for any calls, goroutines, bounds and faults.  *)
(*                                                                         *)
(* The proofs about the two services are used as they are: a step of the   *)
(* composition is a step of one of them, or a reader is given an event, the *)
(* partition moves or a replica stops.                                     *)
(***************************************************************************)
EXTENDS Adoption, SequenceTheorems, TLAPS

Profiles == INSTANCE AnimalProofs

\* The animal while a handler is between its two writes.
Archiving == IF \E r \in Readers : step[r] = "archive" THEN {Animal} ELSE {}

Matches == INSTANCE MatchingProofs
               WITH Animals <- {Animal}, Conversations <- {}, archiving <- Archiving

\* The tables of matching: an event tells of a match that was committed.
EventsOfMatches ==
    /\ matches \in [Calls -> {"none", "active", "archived"}]
    /\ outbox \in [Match!Topics -> [Calls -> Nat]]
    /\ \A c \in Calls : outbox["match_created"][c] > 0 => matches[c] # "none"

Matched == \E c \in Calls : matches[c] # "none"

\* The profile's row and the copies operations are going to store.
ProfilesTyped == row \in Profile!Profiles /\ target \in [Workers -> Profile!Profiles]

\* A copy may be stored long after it was changed, so it counts as well.
InterestIsCaused ==
    Matched \/ (row.count["interest"] = 0 /\ \A w \in Workers : target[w].count["interest"] = 0)

IInv == EventsOfMatches /\ ProfilesTyped /\ InterestIsCaused

LEMMA NoProfileTyped == Profile!NoProfile \in Profile!Profiles /\ Profile!NoProfile.count["interest"] = 0
BY DEF Profile!NoProfile, Profile!Profiles, Profile!Statuses, Profile!Counters

LEMMA InitIInv == Init => IInv
<1> SUFFICES ASSUME Init PROVE IInv
    OBVIOUS
<1>1. EventsOfMatches
    BY DEF Init, Match!Init, EventsOfMatches, Match!Topics
<1>2. ProfilesTyped /\ InterestIsCaused
    BY NoProfileTyped DEF Init, Profile!Init, ProfilesTyped, InterestIsCaused
<1> QED BY <1>1, <1>2 DEF IInv

-----------------------------------------------------------------------------
(* matching-service.                                                       *)

\* A step of matching loses no match and announces none that is not there.
LEMMA MatchKeeps ==
    ASSUME EventsOfMatches, [Match!Next]_(Match!vars) \/ UNCHANGED <<matches, outbox>>
    PROVE  EventsOfMatches' /\ (Matched => Matched')
<1> USE DEF EventsOfMatches, Matched, Match!Topics, Match!tables
<1>1. CASE UNCHANGED <<matches, outbox>>
    BY <1>1
<1>2. ASSUME NEW c \in Calls, Match!CommitSwipe(c) PROVE EventsOfMatches' /\ (Matched => Matched')
  <2>1. /\ matches' = [matches EXCEPT ![c] = IF Match!RightSwipe(c) THEN "active" ELSE matches[c]]
        /\ outbox' = [outbox EXCEPT !["swipe_recorded"][c] = @ + 1,
                                    !["match_created"][c] = IF Match!RightSwipe(c) THEN @ + 1 ELSE @]
    BY <1>2 DEF Match!CommitSwipe, Match!WithSwipeEvents
  <2>2. matches' \in [Calls -> {"none", "active", "archived"}] /\ outbox' \in [Match!Topics -> [Calls -> Nat]]
    BY <2>1
  <2>3. /\ \A d \in Calls : d # c => outbox'["match_created"][d] = outbox["match_created"][d]
        /\ ~ Match!RightSwipe(c) => outbox'["match_created"][c] = outbox["match_created"][c]
    BY <2>1
  <2>4. /\ \A d \in Calls : d # c => matches'[d] = matches[d]
        /\ matches'[c] = IF Match!RightSwipe(c) THEN "active" ELSE matches[c]
    BY <2>1
  <2> QED BY <2>2, <2>3, <2>4
<1>3. ASSUME NEW a \in {Animal}, Match!ArchiveActive(a) PROVE EventsOfMatches' /\ (Matched => Matched')
  <2>1. /\ matches' = [c \in Calls |-> IF c \in Match!ActiveOn(a) THEN "archived" ELSE matches[c]]
        /\ outbox' \in [Match!Topics -> [Calls -> Nat]]
        /\ outbox'["match_created"] = outbox["match_created"]
    BY <1>3 DEF Match!ArchiveActive
  <2>2. \A c \in Calls : matches[c] # "none" => matches'[c] # "none"
    BY <2>1
  <2> QED BY <2>1, <2>2
<1>4. CASE [Match!Next]_(Match!vars)
  <2>1. ASSUME NEW c \in Calls, Match!RecordSwipe(c) PROVE Match!CommitSwipe(c) \/ UNCHANGED <<matches, outbox>>
    BY <2>1 DEF Match!RecordSwipe, Match!ReplaySwipe, Match!RejectUnavailable, Match!StartSwipe,
                Match!RejectDuplicate, Match!RejectConflict, Match!AbortSwipe
  <2>2. ASSUME NEW a \in {Animal}, Match!HandleAnimalEvent(a) PROVE Match!ArchiveActive(a) \/ UNCHANGED <<matches, outbox>>
    BY <2>2 DEF Match!HandleAnimalEvent, Match!HandleAnimalStatusChanged, Match!ArchiveMatchesByAnimal,
                Match!StatusHandlerFails, Match!HandleAnimalArchived, Match!tables
  <2>3. CASE UNCHANGED Match!vars
    BY <1>1, <2>3 DEF Match!vars
  <2> QED BY <1>1, <1>2, <1>3, <1>4, <2>1, <2>2, <2>3 DEF Match!Next
<1> QED BY <1>1, <1>4
\* A step of a reader is one of matching's handlers, or touches no table.
LEMMA ReaderIsMatching ==
    ASSUME NEW r \in Readers, StatusReader(r)
    PROVE  Match!Next \/ UNCHANGED Match!tables
<1>1. CASE UpsertAvailability(r)
  <2>1. PICK avail \in BOOLEAN : avail = SaysAvailable(event[r])
    BY DEF SaysAvailable
  <2>2. Match!HandleAnimalStatusChanged(Animal, avail)
    BY <1>1, <2>1 DEF UpsertAvailability, Match!HandleAnimalStatusChanged
  <2> QED BY <2>2 DEF Match!Next, Match!HandleAnimalEvent
<1>2. CASE ArchiveMatches(r)
    BY <1>2 DEF ArchiveMatches, Match!Next, Match!HandleAnimalEvent
<1>3. CASE FetchMessage(r) \/ UpsertFails(r) \/ Assign(r) \/ Stop(r)
    BY <1>3 DEF FetchMessage, UpsertFails, Assign, Stop, matchVars, Match!tables
<1> QED BY <1>1, <1>2, <1>3 DEF StatusReader

-----------------------------------------------------------------------------
(* animal-service.                                                         *)

LEMMA BeginEffect ==
    ASSUME ProfilesTyped, NEW w \in Workers, NEW changed, changed \in Profile!Profiles,
           NEW events, Profile!Begin(w, changed, events)
    PROVE  /\ ProfilesTyped' /\ UNCHANGED row
           /\ \A x \in Workers : target'[x] = IF x = w THEN changed ELSE target[x]
BY DEF ProfilesTyped, Profile!Begin

\* No operation changes the interest but the handler of match_created.
LEMMA ProfileKeeps ==
    ASSUME ProfilesTyped, InterestIsCaused, ProfileStep
    PROVE  ProfilesTyped' /\ (\/ Matched
                              \/ /\ row'.count["interest"] = 0
                                 /\ \A w \in Workers : target'[w].count["interest"] = 0)
<1> DEFINE Same == \/ Matched
                   \/ /\ row'.count["interest"] = 0
                      /\ \A w \in Workers : target'[w].count["interest"] = 0
<1>1. row \in Profile!Profiles /\ row.count \in [Profile!Counters -> Nat] /\ "interest" \in Profile!Counters
    BY DEF ProfilesTyped, Profile!Profiles, Profile!Counters
<1>2. ASSUME NEW w \in Workers, NEW changed, NEW events, changed \in Profile!Profiles,
             changed.count["interest"] = row.count["interest"], Profile!Begin(w, changed, events)
      PROVE  ProfilesTyped' /\ Same
    BY <1>2, BeginEffect DEF InterestIsCaused
<1>3. ASSUME NEW w \in Workers, NEW changed, NEW events, changed \in Profile!Profiles,
             changed.count = row.count, Profile!Call(w, changed, events)
      PROVE  ProfilesTyped' /\ Same
    BY <1>2, <1>3 DEF Profile!Call
<1>4. ASSUME NEW w \in Workers, NEW photos \in SUBSET Photos, Profile!Create(w, photos)
      PROVE  ProfilesTyped' /\ Same
  <2>1. row' \in Profile!Profiles /\ row'.count["interest"] = 0
    BY <1>4 DEF Profile!Create, Profile!NoProfile, Profile!Profiles, Profile!Statuses, Profile!Counters
  <2>2. UNCHANGED target
    BY <1>4 DEF Profile!Create
  <2> QED BY <2>1, <2>2 DEF ProfilesTyped, InterestIsCaused
<1>5. ASSUME NEW w \in Workers, Profile!OwnerCall(w) PROVE ProfilesTyped' /\ Same
  <2>1. CASE Profile!Update(w)
    BY <1>1, <1>3, <2>1 DEF Profile!Update
  <2>2. CASE Profile!Publish(w)
    <3> DEFINE changed == [row EXCEPT !.status = "available", !.public = TRUE]
    <3>1. changed \in Profile!Profiles /\ changed.count = row.count
      BY <1>1 DEF Profile!Profiles, Profile!Statuses
    <3>2. \E events : Profile!Call(w, changed, events)
      BY <2>2 DEF Profile!Publish
    <3> HIDE DEF changed
    <3> QED BY <1>3, <3>1, <3>2
  <2>3. CASE Profile!Archive(w)
    <3> DEFINE changed == [row EXCEPT !.status = "archived", !.public = FALSE]
    <3>1. changed \in Profile!Profiles /\ changed.count = row.count
      BY <1>1 DEF Profile!Profiles, Profile!Statuses
    <3>2. \E events : Profile!Call(w, changed, events)
      BY <2>3 DEF Profile!Archive
    <3> HIDE DEF changed
    <3> QED BY <1>3, <3>1, <3>2
  <2>4. ASSUME NEW p \in Photos, Profile!AddPhoto(w, p) PROVE ProfilesTyped' /\ Same
    <3> DEFINE changed == [row EXCEPT !.photos = @ \cup {p}]
    <3>1. changed \in Profile!Profiles /\ changed.count = row.count
      BY <1>1 DEF Profile!Profiles
    <3>2. \E events : Profile!Call(w, changed, events)
      BY <2>4 DEF Profile!AddPhoto
    <3> HIDE DEF changed
    <3> QED BY <1>3, <3>1, <3>2
  <2>5. ASSUME NEW p \in Photos, Profile!RemovePhoto(w, p) PROVE ProfilesTyped' /\ Same
    <3> DEFINE changed == [row EXCEPT !.photos = @ \ {p}]
    <3>1. changed \in Profile!Profiles /\ changed.count = row.count
      BY <1>1 DEF Profile!Profiles
    <3>2. \E events : Profile!Call(w, changed, events)
      BY <2>5 DEF Profile!RemovePhoto
    <3> HIDE DEF changed
    <3> QED BY <1>3, <3>1, <3>2
  <2> QED BY <1>4, <1>5, <2>1, <2>2, <2>3, <2>4, <2>5 DEF Profile!OwnerCall
<1>6. ASSUME NEW w \in Workers, Profile!BillingMessage(w) PROVE ProfilesTyped' /\ Same
  <2>1. CASE Profile!ApplyBoostActivated(w)
    <3> DEFINE changed == [row EXCEPT !.boosted = TRUE]
    <3>1. changed \in Profile!Profiles /\ changed.count = row.count
      BY <1>1 DEF Profile!Profiles
    <3>2. \E events : Profile!Call(w, changed, events)
      BY <2>1 DEF Profile!ApplyBoostActivated
    <3> HIDE DEF changed
    <3> QED BY <1>3, <3>1, <3>2
  <2>2. CASE Profile!ApplyDonationSucceeded(w)
    <3> DEFINE changed == [row EXCEPT !.count["donation"] = @ + 1]
    <3>1. changed \in Profile!Profiles /\ changed.count["interest"] = row.count["interest"]
      BY <1>1 DEF Profile!Profiles, Profile!Counters
    <3>2. Profile!Begin(w, changed, << >>)
      BY <2>2 DEF Profile!ApplyDonationSucceeded, Profile!Count
    <3> HIDE DEF changed
    <3> QED BY <1>2, <3>1, <3>2
  <2> QED BY <1>6, <2>1, <2>2 DEF Profile!BillingMessage
<1>7. ASSUME NEW w \in Workers, Profile!Finish(w), UNCHANGED row \/ row' = target[w] PROVE ProfilesTyped' /\ Same
    BY <1>7, NoProfileTyped DEF Profile!Finish, ProfilesTyped, InterestIsCaused
<1>8. ASSUME NEW w \in Workers, UNCHANGED target, UNCHANGED row \/ row' = target[w] PROVE ProfilesTyped' /\ Same
    BY <1>8 DEF ProfilesTyped, InterestIsCaused
<1>9. ASSUME NEW w \in Workers, Profile!Continue(w) PROVE ProfilesTyped' /\ Same
  <2>1. /\ UNCHANGED row \/ row' = target[w]
        /\ Profile!Finish(w) \/ UNCHANGED target
    BY <1>9 DEF Profile!Continue, Profile!Store, Profile!PublishEvent, Profile!RepeatEvent, Profile!GiveUp
  <2> QED BY <1>7, <1>8, <2>1
<1> QED BY <1>5, <1>6, <1>9 DEF ProfileStep

-----------------------------------------------------------------------------
\* An animal shows interest only after a match was committed, in whatever order
\* the events of both services are written, repeated, lost or read again.
THEOREM SpecInterestNeedsMatch == Spec => []InterestNeedsMatch
<1>1. ASSUME IInv, [Next]_vars PROVE IInv'
  <2> USE <1>1 DEF IInv, matchVars, profileVars, readerVars
  <2>1. CASE ProfileStep
    <3>1. EventsOfMatches' /\ (Matched => Matched')
      BY <2>1, MatchKeeps DEF ProfileStep
    <3> QED BY <2>1, <3>1, ProfileKeeps DEF InterestIsCaused
  <2>2. CASE MatchMessage
    <3>1. PICK w \in Workers : Profile!ApplyMatchCreated(w)
      BY <2>2 DEF MatchMessage
    <3>2. EventsOfMatches' /\ Matched'
      BY <2>2, MatchKeeps DEF MatchMessage, EventsOfMatches, Matched
    <3> DEFINE changed == [row EXCEPT !.count["interest"] = @ + 1]
    <3>3. changed \in Profile!Profiles
      BY DEF ProfilesTyped, Profile!Profiles, Profile!Counters
    <3>4. Profile!Begin(w, changed, << >>)
      BY <3>1 DEF Profile!ApplyMatchCreated, Profile!Count
    <3> HIDE DEF changed
    <3>5. ProfilesTyped'
      BY <3>3, <3>4, BeginEffect
    <3> QED BY <3>2, <3>5 DEF InterestIsCaused
  <2>3. ASSUME UNCHANGED profileVars, EventsOfMatches', Matched => Matched' PROVE IInv'
    BY <2>3 DEF ProfilesTyped, InterestIsCaused
  <2>4. CASE SwipeStep
    <3>1. Match!Next
      BY <2>4 DEF SwipeStep, Match!Next
    <3> QED BY <2>3, <2>4, <3>1, MatchKeeps DEF SwipeStep
  <2>5. ASSUME NEW r \in Readers, StatusReader(r) PROVE IInv'
    <3>1. UNCHANGED profileVars
      BY <2>5 DEF StatusReader, FetchMessage, UpsertAvailability, UpsertFails, ArchiveMatches, Assign, Stop
    <3>2. Match!Next \/ UNCHANGED <<matches, outbox>>
      BY <2>5, ReaderIsMatching DEF Match!tables
    <3> QED BY <2>3, <3>1, <3>2, MatchKeeps
  <2>7. CASE UNCHANGED vars
    BY <2>3, <2>7, MatchKeeps DEF vars
  <2> QED BY <1>1, <2>1, <2>2, <2>4, <2>5, <2>7 DEF Next
<1>2. IInv => InterestNeedsMatch
    BY DEF IInv, InterestIsCaused, Matched, InterestNeedsMatch
<1> QED BY <1>1, <1>2, InitIInv, PTL DEF Spec

-----------------------------------------------------------------------------
(* What animal-service keeps.                                              *)

LEMMA ProfileSteps == [Next]_vars => [Profile!Next]_(Profile!vars)
<1> USE DEF Profile!vars, profileVars
<1>1. ASSUME ProfileStep \/ MatchMessage PROVE Profile!Next
    BY <1>1 DEF ProfileStep, MatchMessage, Profile!Next
<1>2. ASSUME SwipeStep \/ (\E r \in Readers : StatusReader(r)) \/ UNCHANGED vars
      PROVE  UNCHANGED Profile!vars
    BY <1>2 DEF SwipeStep, StatusReader, FetchMessage, UpsertAvailability, UpsertFails, ArchiveMatches,
                Assign, Stop, vars
<1> QED BY <1>1, <1>2 DEF Next

\* Nothing the other service does makes a profile behave in a way it would not
\* on its own: all that is proved of AnimalLifecycle holds of the composition.
THEOREM ImplementsAnimalLifecycle == Spec => Profile!Spec
<1>1. Init => Profile!Init
    BY DEF Init
<1> QED BY <1>1, ProfileSteps, PTL DEF Spec, Profile!Spec

\* The proofs have names of their own for the actions they are about.
LEMMA SameProfileSteps == [Profile!Next]_(Profile!vars) => [Profiles!Next]_(Profiles!vars)
<1>1. ASSUME NEW w \in Workers, Profile!OwnerCall(w) PROVE Profiles!OwnerCall(w)
    BY <1>1
       DEF Profile!OwnerCall, Profile!Create, Profile!Update, Profile!Publish, Profile!Archive,
           Profile!AddPhoto, Profile!RemovePhoto, Profile!Call, Profile!Begin, Profile!Event,
           Profile!StatusEvent, Profile!ArchivedEvent, Profile!NoProfile, Profile!Counters,
           Profiles!OwnerCall, Profiles!Create, Profiles!Update, Profiles!Publish, Profiles!Archive,
           Profiles!AddPhoto, Profiles!RemovePhoto, Profiles!Call, Profiles!Begin, Profiles!Event,
           Profiles!StatusEvent, Profiles!ArchivedEvent, Profiles!NoProfile, Profiles!Counters
<1>2. ASSUME NEW w \in Workers, Profile!BillingMessage(w) \/ Profile!ApplyMatchCreated(w)
      PROVE  Profiles!BillingMessage(w) \/ Profiles!ApplyMatchCreated(w)
    BY <1>2
       DEF Profile!BillingMessage, Profile!ApplyBoostActivated, Profile!ApplyDonationSucceeded,
           Profile!ApplyMatchCreated, Profile!Count, Profile!Call, Profile!Begin, Profile!Event,
           Profiles!BillingMessage, Profiles!ApplyBoostActivated, Profiles!ApplyDonationSucceeded,
           Profiles!ApplyMatchCreated, Profiles!Count, Profiles!Call, Profiles!Begin, Profiles!Event
<1>3. ASSUME NEW w \in Workers, Profile!Continue(w) PROVE Profiles!Continue(w)
    BY <1>3
       DEF Profile!Continue, Profile!Store, Profile!PublishEvent, Profile!RepeatEvent, Profile!GiveUp,
           Profile!Finish, Profile!NoProfile, Profile!Counters,
           Profiles!Continue, Profiles!Store, Profiles!PublishEvent, Profiles!RepeatEvent, Profiles!GiveUp,
           Profiles!Finish, Profiles!NoProfile, Profiles!Counters
<1>4. UNCHANGED Profile!vars => UNCHANGED Profiles!vars
    BY DEF Profile!vars, Profiles!vars
<1> QED BY <1>1, <1>2, <1>3, <1>4 DEF Profile!Next, Profiles!Next

LEMMA ProfilesKeep == Spec => [](Profiles!IInv /\ Profiles!HeldInv)
<1> USE BoundsAssumption DEF Profiles!BoundsAssumption
<1>1. Init => Profiles!Init
    BY DEF Init, Profile!Init, Profiles!Init, Profile!NoProfile, Profiles!NoProfile,
           Profile!Counters, Profiles!Counters
<1>2. Init => Profiles!IInv /\ Profiles!HeldInv
  <2>1. Init => Profiles!HeldInv
    BY DEF Init, Profile!Init, Profiles!HeldInv, Profiles!LogIsHeld, Profiles!DueIsHeld
  <2> QED BY <1>1, <2>1, Profiles!InitIInv
<1>3. Profiles!IInv /\ Profiles!HeldInv /\ [Next]_vars => Profiles!IInv' /\ Profiles!HeldInv'
    BY ProfileSteps, SameProfileSteps, Profiles!NextIInv, Profiles!NextHolds
<1> QED BY <1>2, <1>3, PTL DEF Spec

-----------------------------------------------------------------------------
(* What matching-service keeps.                                            *)

LEMMA SameMatchSteps == [Match!Next]_(Match!vars) => [Matches!Next]_(Matches!vars)
<1>1. ASSUME NEW c \in Calls, Match!RecordSwipe(c) PROVE Matches!RecordSwipe(c)
    BY <1>1
       DEF Match!RecordSwipe, Match!ReplaySwipe, Match!RejectUnavailable, Match!StartSwipe,
           Match!CommitSwipe, Match!RejectDuplicate, Match!RejectConflict, Match!AbortSwipe,
           Match!Return, Match!SwipeIsNew, Match!SamePair, Match!NoActiveMatch, Match!KeyIsNew,
           Match!RightSwipe, Match!WithSwipeEvents, Match!tables,
           Matches!RecordSwipe, Matches!ReplaySwipe, Matches!RejectUnavailable, Matches!StartSwipe,
           Matches!CommitSwipe, Matches!RejectDuplicate, Matches!RejectConflict, Matches!AbortSwipe,
           Matches!Return, Matches!SwipeIsNew, Matches!SamePair, Matches!NoActiveMatch, Matches!KeyIsNew,
           Matches!RightSwipe, Matches!WithSwipeEvents, Matches!tables, Archiving
<1>2. ASSUME NEW a \in {Animal}, Match!HandleAnimalEvent(a) PROVE Matches!HandleAnimalEvent(a)
    BY <1>2
       DEF Match!HandleAnimalEvent, Match!HandleAnimalStatusChanged, Match!ArchiveMatchesByAnimal,
           Match!StatusHandlerFails, Match!HandleAnimalArchived, Match!ArchiveActive, Match!ActiveOn,
           Match!HandlerEnds, Match!tables, Archiving,
           Matches!HandlerEnds, Matches!HandleAnimalEvent, Matches!HandleAnimalStatusChanged, Matches!ArchiveMatchesByAnimal,
           Matches!StatusHandlerFails, Matches!HandleAnimalArchived, Matches!ArchiveActive,
           Matches!ActiveOn, Matches!tables
<1>3. UNCHANGED Match!vars => UNCHANGED Matches!vars
    BY DEF Match!vars, Matches!vars, Match!tables, Matches!tables, Archiving
<1> QED BY <1>1, <1>2, <1>3 DEF Match!Next, Matches!Next

LEMMA MatchSteps ==
    ASSUME [Next]_vars
    PROVE  [Match!Next]_(Match!vars) \/ UNCHANGED <<cmd, call, returned, Match!tables>>
<1> USE DEF Match!tables, matchVars
<1>1. CASE SwipeStep
    BY <1>1 DEF SwipeStep, Match!Next
<1>2. CASE ProfileStep \/ MatchMessage \/ UNCHANGED vars
    BY <1>2 DEF ProfileStep, MatchMessage, vars
<1>3. ASSUME NEW r \in Readers, StatusReader(r)
      PROVE  Match!Next \/ UNCHANGED <<cmd, call, returned, Match!tables>>
  <2>1. CASE UpsertAvailability(r) \/ ArchiveMatches(r)
    BY <1>3, <2>1, ReaderIsMatching
       DEF UpsertAvailability, ArchiveMatches, Match!HandleAnimalStatusChanged,
           Match!ArchiveMatchesByAnimal, Match!StatusHandlerFails, Match!ArchiveActive
  <2>2. CASE FetchMessage(r) \/ UpsertFails(r) \/ Assign(r) \/ Stop(r)
    BY <2>2 DEF FetchMessage, UpsertFails, Assign, Stop
  <2> QED BY <1>3, <2>1, <2>2 DEF StatusReader
<1> QED BY <1>1, <1>2, <1>3 DEF Next

LEMMA MatchesKeep == Spec => []Matches!IInv
<1> USE NoneAssumption, FaultsAssumption
        DEF Matches!NoneAssumption, Matches!FaultsAssumption, Matches!FaultKinds
<1>1. Init => Matches!Init
    BY DEF Init, Match!Init, Matches!Init, Match!Commands, Matches!Commands, Match!Topics, Matches!Topics,
           Archiving
<1>2. Init => Matches!IInv
    BY <1>1, Matches!InitIInv
<1>3. ASSUME Matches!IInv, UNCHANGED <<cmd, call, returned, Match!tables>> PROVE Matches!IInv'
  <2>1. Archiving' \subseteq {Animal}
    BY DEF Archiving
  <2> QED BY <1>3, <2>1
       DEF Match!tables, Matches!IInv, Matches!TypeOK, Matches!RowsComeFromCommits,
           Matches!OneSwipePerPair, Matches!MatchIffRightSwipe, Matches!KeyOfSwipe,
           Matches!RepliesComeFromKey, Matches!OutboxMatchesTables, Matches!SamePair, Matches!RightSwipe
<1>4. Matches!IInv /\ [Next]_vars => Matches!IInv'
    BY <1>3, MatchSteps, SameMatchSteps, Matches!NextIInv
<1> QED BY <1>2, <1>4, PTL DEF Spec

\* Readers that take the partition from each other and the events of the other
\* service, read again or passed over, do not take from matching what it promises
\* its callers.
THEOREM MatchingKeepsItsPromises ==
    Spec => [](Match!OneMatchPerPair /\ Match!RepliesAgree /\ Match!OutboxMatchesTables)
<1>1. Matches!IInv => Match!OneMatchPerPair /\ Match!RepliesAgree /\ Match!OutboxMatchesTables
  <2> SUFFICES ASSUME Matches!IInv PROVE Match!OneMatchPerPair /\ Match!RepliesAgree /\ Match!OutboxMatchesTables
      OBVIOUS
  <2> USE DEF Matches!IInv, Matches!SamePair, Matches!RightSwipe, Match!SamePair, Match!RightSwipe
  <2>1. Match!OneMatchPerPair
      BY DEF Matches!MatchIffRightSwipe, Matches!OneSwipePerPair, Match!OneMatchPerPair
  <2>2. Match!RepliesAgree
      BY DEF Matches!RepliesComeFromKey, Matches!Answered, Match!RepliesAgree, Match!Answered
  <2>3. Match!OutboxMatchesTables
      BY DEF Matches!OutboxMatchesTables, Match!OutboxMatchesTables
  <2> QED BY <2>1, <2>2, <2>3
<1> QED BY <1>1, MatchesKeep, PTL


-----------------------------------------------------------------------------
(* The reader of the status topic.                                         *)

\* The log only grows.
LEMMA LogGrows ==
    ASSUME Profiles!IInv, [Next]_vars
    PROVE  \/ UNCHANGED log /\ StatusTopic' = StatusTopic
           \/ /\ ProfileStep
              /\ DOMAIN log = 1..Len(log) /\ Len(log) \in Nat
              /\ DOMAIN log' = 1..(Len(log) + 1)
              /\ \A i \in DOMAIN log : log'[i] = log[i]
<1>1. log \in Seq(Profiles!Events)
    BY DEF Profiles!IInv, Profiles!TypeOK
<1>2. ASSUME NEW w \in Workers, Profile!PublishEvent(w) \/ Profile!RepeatEvent(w)
                                   \/ (Profile!GiveUp(w) /\ ~ UNCHANGED log)
      PROVE  /\ DOMAIN log = 1..Len(log) /\ Len(log) \in Nat
             /\ DOMAIN log' = 1..(Len(log) + 1)
             /\ \A i \in DOMAIN log : log'[i] = log[i]
  <2>1. stage[w] = "publishing" /\ log' = Append(log, Head(due[w]))
    BY <1>2 DEF Profile!PublishEvent, Profile!RepeatEvent, Profile!GiveUp
  <2>2. due[w] \in Seq(Profiles!Events) /\ due[w] # << >>
    BY <2>1 DEF Profiles!IInv, Profiles!TypeOK
  <2>3. Head(due[w]) \in Profiles!Events
    BY <2>2, HeadTailProperties
  <2> HIDE DEF Profiles!Events
  <2> QED BY <1>1, <2>1, <2>3, AppendProperties, LenProperties
<1>3. ASSUME ProfileStep PROVE UNCHANGED log \/ \E w \in Workers : Profile!PublishEvent(w) \/ Profile!RepeatEvent(w)
                                                 \/ (Profile!GiveUp(w) /\ ~ UNCHANGED log)
  <2>1. PICK w \in Workers : Profile!OwnerCall(w) \/ Profile!BillingMessage(w) \/ Profile!Continue(w)
    BY <1>3 DEF ProfileStep
  <2>2. CASE Profile!OwnerCall(w)
    BY <2>2 DEF Profile!OwnerCall, Profile!Create, Profile!Update, Profile!Publish, Profile!Archive,
                Profile!AddPhoto, Profile!RemovePhoto, Profile!Call, Profile!Begin
  <2>3. CASE Profile!BillingMessage(w)
    BY <2>3 DEF Profile!BillingMessage, Profile!ApplyBoostActivated, Profile!ApplyDonationSucceeded,
                Profile!Count, Profile!Call, Profile!Begin
  <2>4. CASE Profile!Continue(w)
    BY <2>4 DEF Profile!Continue, Profile!Store
  <2> QED BY <2>1, <2>2, <2>3, <2>4
<1>4. ASSUME \/ MatchMessage \/ SwipeStep \/ (\E r \in Readers : StatusReader(r))
             \/ UNCHANGED vars
      PROVE  UNCHANGED log
    BY <1>4 DEF MatchMessage, SwipeStep, StatusReader, FetchMessage, UpsertAvailability, UpsertFails,
                ArchiveMatches, Assign, Stop,
                vars, profileVars, Profile!ApplyMatchCreated, Profile!Count, Profile!Begin
<1>5. UNCHANGED log => StatusTopic' = StatusTopic
    BY DEF StatusTopic
<1> QED BY <1>2, <1>3, <1>4, <1>5 DEF Next

\* What the readers' variables say of the topic, and what they may be.
ReadersTyped ==
    /\ step \in [Readers -> {"idle", "upsert", "archive"}]
    /\ event \in [Readers -> {0} \cup StatusTopic]
    /\ \A r \in Readers : step[r] # "idle" => event[r] \in StatusTopic
    /\ \A r \in former : r \in Readers /\ step[r] # "idle"
    /\ owner \in Readers \cup {None}
    /\ {read, marked, top} \subseteq {0} \cup StatusTopic
    /\ marked <= read

\* Only the owner handles an event it was given since the last rebalance, and it is
\* the last one it was given.
OwnerHandlesLast ==
    \A r \in Readers : step[r] # "idle" /\ r \notin former => owner = r /\ event[r] = read

\* The availability is that of an event from a place on.
Believes(place) ==
    place > 0 => \E b \in StatusTopic : b >= place /\ available[Animal] = SaysAvailable(b)

\* Unless it is astray, matching believes an event the owner may have started behind,
\* and once its handler has written, one that is not older than the last it was given.
OwnerBelieves ==
    ~ astray =>
        /\ Believes(marked)
        /\ owner # None /\ (owner \in former \/ step[owner] # "upsert") => Believes(read)

ReaderInv == ReadersTyped /\ OwnerHandlesLast /\ OwnerBelieves

\* Places are numbers.
LEMMA Places ==
    ASSUME Profiles!IInv
    PROVE  /\ StatusTopic \subseteq Nat \ {0}
           /\ DOMAIN log = 1..Len(log) /\ Len(log) \in Nat
<1>1. log \in Seq(Profiles!Events)
    BY DEF Profiles!IInv, Profiles!TypeOK
<1> HIDE DEF Profiles!Events
<1>2. DOMAIN log = 1..Len(log) /\ Len(log) \in Nat
    BY <1>1, LenProperties
<1> QED BY <1>2 DEF StatusTopic

\* What the handlers' return leaves of the reader's variables.
LEMMA ReturnEffect ==
    ASSUME ReadersTyped, NEW r \in Readers, NEW ok \in BOOLEAN, Return(r, ok)
    PROVE  /\ step' \in [Readers -> {"idle", "upsert", "archive"}]
           /\ event' \in [Readers -> {0} \cup StatusTopic]
           /\ \A x \in Readers : step'[x] = (IF x = r THEN "idle" ELSE step[x])
           /\ \A x \in Readers : x # r => event'[x] = event[x]
           /\ former' = former \ {r}
           /\ top' \in {top, event[r]}
           /\ marked' = IF ok /\ r \notin former THEN event[r] ELSE marked
BY DEF ReadersTyped, Return

\* A handler that returns keeps the invariant if what is believed fits.
LEMMA ReturnKeeps ==
    ASSUME Profiles!IInv, ReaderInv, NEW r \in Readers, NEW ok \in BOOLEAN, Return(r, ok),
           step[r] # "idle", UNCHANGED <<log, owner, read>>,
           OwnerBelieves'
    PROVE  ReaderInv'
<1>1. StatusTopic' = StatusTopic
    BY DEF StatusTopic
<1>2. ReadersTyped'
    BY <1>1, Places, ReturnEffect DEF ReaderInv, ReadersTyped, OwnerHandlesLast
<1>3. OwnerHandlesLast'
    BY ReturnEffect DEF ReaderInv, OwnerHandlesLast
<1> QED BY <1>2, <1>3 DEF ReaderInv

LEMMA UpsertKeeps ==
    ASSUME Profiles!IInv, Matches!IInv, ReaderInv, NEW r \in Readers, UpsertAvailability(r)
    PROVE  ReaderInv'
<1> USE DEF ReaderInv
<1>0. /\ UNCHANGED <<log, owner, read>> /\ StatusTopic' = StatusTopic
      /\ step[r] = "upsert" /\ event[r] \in StatusTopic
      /\ astray' <=> r \in former
    BY DEF UpsertAvailability, profileVars, StatusTopic, ReadersTyped
<1>1. available'[Animal] = SaysAvailable(event[r])
    BY DEF UpsertAvailability, Match!HandleAnimalStatusChanged, Matches!IInv, Matches!TypeOK, SaysAvailable
<1>2. r \notin former => owner = r /\ event[r] = read
    BY <1>0 DEF OwnerHandlesLast
<1>3. \A i : SaysAvailable(i)' = SaysAvailable(i)
    BY <1>0 DEF SaysAvailable
<1>4. \A p \in {0} \cup StatusTopic : p <= event[r] => Believes(p)'
    BY <1>0, <1>1, <1>3, Places DEF Believes
<1>5. marked' \in {marked, event[r]}
    BY DEF UpsertAvailability, Return
<1>6. OwnerBelieves'
    BY <1>0, <1>2, <1>4, <1>5, Places DEF OwnerBelieves, ReadersTyped
<1>7. CASE SaysAvailable(event[r])
    BY <1>0, <1>6, <1>7, ReturnKeeps DEF UpsertAvailability
<1>8. CASE ~ SaysAvailable(event[r])
  <2>1. step' = [step EXCEPT ![r] = "archive"] /\ UNCHANGED <<event, former, top, marked>>
    BY <1>8 DEF UpsertAvailability
  <2>2. ReadersTyped' /\ OwnerHandlesLast'
    BY <1>0, <2>1 DEF ReadersTyped, OwnerHandlesLast
  <2> QED BY <1>6, <2>2
<1> QED BY <1>7, <1>8

\* The handlers' other steps leave the availability alone.
LEMMA HandlerKeeps ==
    ASSUME Profiles!IInv, ReaderInv, NEW r \in Readers, UpsertFails(r) \/ ArchiveMatches(r)
    PROVE  ReaderInv'
<1>1. PICK ok \in BOOLEAN : Return(r, ok) /\ (UpsertFails(r) => ~ ok)
    BY DEF UpsertFails, ArchiveMatches, Return
<1>2. /\ UNCHANGED <<log, owner, read, available>> /\ StatusTopic' = StatusTopic
      /\ step[r] = "archive" \/ (step[r] = "upsert" /\ ~ ok /\ (~ astray' => ~ astray /\ r \in former))
      /\ step[r] = "archive" => UNCHANGED astray
    BY <1>1 DEF UpsertFails, ArchiveMatches, profileVars, matchVars, StatusTopic, Match!ArchiveMatchesByAnimal,
                Match!StatusHandlerFails, Match!ArchiveActive, Match!tables
<1>3. \A p : Believes(p)' <=> Believes(p)
    BY <1>2 DEF Believes, SaysAvailable
<1>4. OwnerBelieves'
  <2> SUFFICES ASSUME ~ astray'
               PROVE  /\ Believes(marked)'
                      /\ owner' # None /\ (owner' \in former' \/ step'[owner'] # "upsert") => Believes(read)'
      BY DEF OwnerBelieves
  <2>1. ~ astray
    BY <1>2
  <2>2. owner # None /\ (owner' \in former' \/ step'[owner'] # "upsert") => Believes(read)
    BY <1>1, <1>2, <2>1, ReturnEffect DEF ReaderInv, ReadersTyped, OwnerBelieves
  <2>3. marked' = marked \/ (marked' = read /\ step[r] = "archive" /\ owner = r)
    BY <1>1, <1>2, ReturnEffect DEF ReaderInv, OwnerHandlesLast
  <2>4. Believes(marked')
    BY <2>1, <2>3, NoneAssumption DEF ReaderInv, OwnerBelieves
  <2> QED BY <1>2, <1>3, <2>2, <2>4 DEF Believes
<1> QED BY <1>1, <1>2, <1>4, ReturnKeeps

LEMMA GroupKeeps ==
    ASSUME Profiles!IInv, ReaderInv, NEW r \in Readers, FetchMessage(r) \/ Assign(r) \/ Stop(r)
    PROVE  ReaderInv'
<1>0. UNCHANGED <<log, available, top>> /\ StatusTopic' = StatusTopic
    BY DEF FetchMessage, Assign, Stop, profileVars, matchVars, StatusTopic
<1>1. \A p : Believes(p)' <=> Believes(p)
    BY <1>0 DEF Believes, SaysAvailable
<1>2. CASE FetchMessage(r)
  <2>1. /\ owner = r /\ step[r] = "idle" /\ read' \in StatusTopic /\ read' > read
        /\ event' = [event EXCEPT ![r] = read'] /\ step' = [step EXCEPT ![r] = "upsert"]
        /\ UNCHANGED <<owner, marked, former, astray>>
    BY <1>2 DEF FetchMessage
  <2>2. ReadersTyped'
    BY <1>0, <2>1, Places DEF ReaderInv, ReadersTyped
  <2>3. OwnerHandlesLast'
    BY <2>1 DEF ReaderInv, OwnerHandlesLast, ReadersTyped
  <2>4. r \notin former
    BY <2>1 DEF ReaderInv, ReadersTyped
  <2>5. step'[r] = "upsert"
    BY <2>1 DEF ReaderInv, ReadersTyped
  <2> QED BY <1>1, <2>1, <2>2, <2>3, <2>4, <2>5 DEF ReaderInv, OwnerBelieves, Believes
<1>3. CASE Assign(r)
  <2>1. /\ owner' = r /\ read' \in {0} \cup StatusTopic /\ marked' = read' /\ read' <= top
        /\ former' = {x \in Readers : step[x] # "idle"}
        /\ UNCHANGED <<step, event>>
    BY <1>3, Places DEF Assign, ReaderInv, ReadersTyped
  <2>5. astray' <=> astray \/ read' \in (marked + 1)..top
    BY <1>3 DEF Assign
  <2>2. ReadersTyped' /\ OwnerHandlesLast'
    BY <1>0, <2>1, Places DEF ReaderInv, ReadersTyped, OwnerHandlesLast
  <2>3. ~ astray' => ~ astray /\ read' <= marked
    BY <2>1, <2>5, Places DEF ReaderInv, ReadersTyped
  <2>4. ~ astray' => Believes(read')
    BY <2>1, <2>3, Places DEF ReaderInv, ReadersTyped, OwnerBelieves, Believes
  <2> QED BY <1>1, <2>1, <2>2, <2>4 DEF ReaderInv, OwnerBelieves
<1>4. CASE Stop(r)
  <2>1. /\ owner' = (IF owner = r THEN None ELSE owner)
        /\ step' = [step EXCEPT ![r] = "idle"] /\ event' = [event EXCEPT ![r] = 0]
        /\ former' = former \ {r} /\ UNCHANGED <<read, marked, astray>>
    BY <1>4 DEF Stop
  <2>2. ReadersTyped' /\ OwnerHandlesLast'
    BY <1>0, <2>1 DEF ReaderInv, ReadersTyped, OwnerHandlesLast
  <2> QED BY <1>1, <2>1, <2>2, NoneAssumption DEF ReaderInv, ReadersTyped, OwnerBelieves
<1> QED BY <1>2, <1>3, <1>4

LEMMA ReaderKeeps ==
    ASSUME Profiles!IInv, Matches!IInv, ReaderInv, [Next]_vars
    PROVE  ReaderInv'
<1>1. ASSUME NEW r \in Readers, StatusReader(r) PROVE ReaderInv'
    BY <1>1, UpsertKeeps, HandlerKeeps, GroupKeeps DEF StatusReader
<1>2. CASE ProfileStep \/ MatchMessage \/ SwipeStep \/ UNCHANGED vars
  <2>1. UNCHANGED <<readerVars, available>>
    BY <1>2 DEF ProfileStep, MatchMessage, SwipeStep, vars, matchVars,
                Match!RecordSwipe, Match!ReplaySwipe, Match!RejectUnavailable, Match!StartSwipe,
                Match!CommitSwipe, Match!RejectDuplicate, Match!RejectConflict, Match!AbortSwipe, Match!tables
  <2>2. StatusTopic \subseteq StatusTopic' /\ \A i \in StatusTopic : log'[i] = log[i]
    <3>1. CASE UNCHANGED log
      BY <3>1 DEF StatusTopic
    <3> QED BY <3>1, LogGrows, Places DEF StatusTopic
  <2>3. \A p : Believes(p) => Believes(p)'
    BY <2>1, <2>2 DEF Believes, SaysAvailable
  <2> QED BY <2>1, <2>2, <2>3 DEF ReaderInv, ReadersTyped, OwnerHandlesLast, OwnerBelieves, readerVars, groupVars
<1> QED BY <1>1, <1>2 DEF Next

LEMMA ReadersKeep == Spec => []ReaderInv
<1>1. Init => ReaderInv
    BY DEF Init, ReaderInv, ReadersTyped, OwnerHandlesLast, OwnerBelieves, Believes
<1>2. Profiles!IInv /\ Matches!IInv /\ ReaderInv /\ [Next]_vars => ReaderInv'
    BY ReaderKeeps
<1> QED BY <1>1, <1>2, ProfilesKeep, MatchesKeep, PTL DEF Spec

\* Wherever readers start again, whatever they pass over and however their handlers
\* overlap, a reader at the end of its partition believes what the last event says,
\* or one of the three mishaps of the property has come after its last handler.
THEOREM SpecCaughtUpBelievesLastEvent == Spec => []CaughtUpBelievesLastEvent
<1>1. Profiles!IInv /\ ReaderInv => CaughtUpBelievesLastEvent
  <2> SUFFICES ASSUME Profiles!IInv, ReaderInv, CaughtUp, ~ astray
               PROVE  available[Animal] = SaysAvailable(read)
      BY DEF CaughtUpBelievesLastEvent
  <2>1. Believes(read)
    BY DEF CaughtUp, ReaderInv, OwnerBelieves
  <2>2. PICK b \in StatusTopic : b >= read /\ available[Animal] = SaysAvailable(b)
    BY <2>1 DEF CaughtUp, Believes
  <2>3. b = read
    BY <2>2, Places DEF CaughtUp, ReaderInv, ReadersTyped
  <2> QED BY <2>2, <2>3
<1> QED BY <1>1, ReadersKeep, ProfilesKeep, PTL

-----------------------------------------------------------------------------
(* Archived matches.                                                       *)

Closed == \E i \in StatusTopic : ~ SaysAvailable(i)

\* A handler that has still to archive, and matches that are archived.
ArchivingIsAnnounced ==
    (\E r \in Readers : step[r] = "archive") \/ (\E c \in Calls : matches[c] = "archived") => Closed

LEMMA ArchivingKeeps ==
    ASSUME Profiles!IInv, Matches!IInv, ReaderInv, ArchivingIsAnnounced, [Next]_vars
    PROVE  ArchivingIsAnnounced'
<1>1. Closed => Closed'
  <2>1. CASE /\ DOMAIN log = 1..Len(log) /\ Len(log) \in Nat
             /\ DOMAIN log' = 1..(Len(log) + 1)
             /\ \A i \in DOMAIN log : log'[i] = log[i]
    BY <2>1 DEF Closed, StatusTopic, SaysAvailable
  <2>2. CASE UNCHANGED log /\ StatusTopic' = StatusTopic
    BY <2>2 DEF Closed, SaysAvailable
  <2> QED BY <2>1, <2>2, LogGrows
<1>2. ASSUME UNCHANGED matches, \A r \in Readers : step'[r] = "archive" => step[r] = "archive"
      PROVE  ArchivingIsAnnounced'
    BY <1>1, <1>2 DEF ArchivingIsAnnounced
<1>3. ASSUME NEW r \in Readers, UpsertAvailability(r) PROVE ArchivingIsAnnounced'
  <2>1. UNCHANGED matches /\ event[r] \in StatusTopic
    BY <1>3 DEF UpsertAvailability, Match!HandleAnimalStatusChanged, ReaderInv, ReadersTyped
  <2>2. CASE SaysAvailable(event[r])
    BY <1>2, <1>3, <2>1, <2>2 DEF UpsertAvailability, Return, ReaderInv, ReadersTyped
  <2>3. CASE ~ SaysAvailable(event[r])
    BY <1>1, <2>1, <2>3 DEF ArchivingIsAnnounced, Closed
  <2> QED BY <2>2, <2>3
<1>4. ASSUME NEW r \in Readers, ArchiveMatches(r) PROVE ArchivingIsAnnounced'
    BY <1>1, <1>4 DEF ArchiveMatches, ArchivingIsAnnounced
<1>5. ASSUME NEW c \in Calls, Match!CommitSwipe(c), UNCHANGED readerVars PROVE ArchivingIsAnnounced'
  <2>1. UNCHANGED step /\ matches' = [matches EXCEPT ![c] = IF Match!RightSwipe(c) THEN "active" ELSE @]
    BY <1>5 DEF Match!CommitSwipe, readerVars
  <2>2. \A d \in Calls : matches'[d] = "archived" => matches[d] = "archived"
    BY <2>1 DEF Matches!IInv, Matches!TypeOK
  <2> QED BY <1>1, <2>1, <2>2 DEF ArchivingIsAnnounced
<1>6. CASE SwipeStep
  <2>1. PICK c \in Calls : Match!RecordSwipe(c)
    BY <1>6 DEF SwipeStep
  <2>2. UNCHANGED readerVars /\ (Match!CommitSwipe(c) \/ UNCHANGED matches)
    BY <1>6, <2>1 DEF SwipeStep, Match!RecordSwipe, Match!ReplaySwipe, Match!RejectUnavailable, Match!StartSwipe,
                Match!RejectDuplicate, Match!RejectConflict, Match!AbortSwipe, Match!tables
  <2> QED BY <1>2, <1>5, <2>2 DEF readerVars
<1>7. ASSUME NEW r \in Readers, FetchMessage(r) \/ UpsertFails(r) \/ Assign(r) \/ Stop(r)
      PROVE  ArchivingIsAnnounced'
  <2>1. UNCHANGED matches /\ \A x \in Readers : step'[x] = "archive" => step[x] = "archive"
    BY <1>7 DEF FetchMessage, UpsertFails, Assign, Stop, Return, matchVars, ReaderInv, ReadersTyped
  <2> QED BY <1>2, <2>1
<1>8. CASE ProfileStep \/ MatchMessage \/ UNCHANGED vars
    BY <1>2, <1>8 DEF ProfileStep, MatchMessage, matchVars, readerVars, vars
<1> QED BY <1>3, <1>4, <1>6, <1>7, <1>8 DEF Next, StatusReader

LEMMA ArchivingAnnounced == Spec => []ArchivingIsAnnounced
<1>1. Init => ArchivingIsAnnounced
    BY DEF Init, Match!Init, ArchivingIsAnnounced
<1>2. Profiles!IInv /\ Matches!IInv /\ ReaderInv /\ ArchivingIsAnnounced /\ [Next]_vars => ArchivingIsAnnounced'
    BY ArchivingKeeps
<1> QED BY <1>1, <1>2, ProfilesKeep, MatchesKeep, ReadersKeep, PTL DEF Spec

\* No failure, rebalance or overlap makes matching archive a match that no event
\* of animal-service asked it to close.
THEOREM SpecArchivedMatchWasAnnounced == Spec => []ArchivedMatchWasAnnounced
<1>1. ArchivingIsAnnounced => ArchivedMatchWasAnnounced
    BY DEF ArchivingIsAnnounced, Closed, SaysAvailable, ArchivedMatchWasAnnounced
<1> QED BY <1>1, ArchivingAnnounced, PTL

\* The run adoption_boost shows that a boost archives matches of an available
\* animal.  Nothing but a boost does: without a status event that names no
\* status, an archived match means that the profile was archived.
THEOREM OnlyBoostsArchiveWithoutCause ==
    Spec => []((\E c \in Calls : matches[c] = "archived") =>
                   "archived" \in held \/ \E i \in StatusTopic : log[i].new = "unspecified")
<1>1. Profiles!HeldInv /\ ArchivingIsAnnounced =>
        ((\E c \in Calls : matches[c] = "archived") =>
            "archived" \in held \/ \E i \in StatusTopic : log[i].new = "unspecified")
    BY DEF Profiles!HeldInv, Profiles!LogIsHeld, Profiles!Names, ArchivingIsAnnounced, Closed, SaysAvailable, StatusTopic
<1> QED BY <1>1, ArchivingAnnounced, ProfilesKeep, PTL
=============================================================================
