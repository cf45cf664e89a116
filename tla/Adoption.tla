------------------------------ MODULE Adoption ------------------------------
(***************************************************************************)
(* animal-service and matching-service around one animal: the profile's    *)
(* status events go through Kafka to matching, which opens and closes the  *)
(* animal to matches; match_created events go back and count interest.     *)
(*                                                                         *)
(* The status topic is read by the replicas of matching as one consumer    *)
(* group.  A replica that has the animal's partition fetches its events in *)
(* order, one handler at a time; when the partition goes to another one,   *)
(* the new owner starts at the group's offset while a handler of the       *)
(* former owner runs on.  Offsets are committed once a second, so the new  *)
(* owner sees part of the topic again, and the commit of a former owner    *)
(* may reach the group late.  The profile_archived topic is left out: its  *)
(* payload carries previous_status as a number, the consumer declares a    *)
(* string, and decoding fails before anything is done.                     *)
(***************************************************************************)
EXTENDS Naturals, Sequences

CONSTANTS
    Animal,                                \* the one animal
    Workers, Photos, MaxOps, MaxRepeats,   \* of AnimalLifecycle
    Calls, Actors, Keys, None,             \* of Matching
    Faults,
    Readers,                               \* replicas of matching that read the topic
    Rebalances                             \* BOOLEAN: whether the partition moves

ASSUME BoundsAssumption == MaxOps \in Nat /\ MaxRepeats \in Nat
ASSUME NoneAssumption == None \notin Calls \cup Readers
ASSUME FaultsAssumption == Faults \subseteq {"abort", "lostReply", "handler"}

VARIABLES
    row, stage, target, due, log, started, repeats, received, held,
    cmd, call, returned, swipes, matches, conversation, idempotency,
    available, outbox,
    owner,          \* the reader that has the partition, or None
    read,           \* the place in the log of the last event the owner is past, 0: none
    marked,         \* the place up to which this assignment's handlers succeeded
    top,            \* the last place any handler succeeded at
    step,           \* [Readers -> what a reader's handler does next]
    event,          \* [Readers -> the place of the event its handler was given]
    former,         \* readers whose handler was given its event before the last rebalance
    astray          \* history: the availability is not the work of the present owner

profileVars == <<row, stage, target, due, log, started, repeats, received, held>>
matchVars == <<cmd, call, returned, swipes, matches, conversation, idempotency,
               available, outbox>>
groupVars == <<owner, read, marked, top>>
readerVars == <<groupVars, step, event, former, astray>>
vars == <<profileVars, matchVars, readerVars>>

Profile == INSTANCE AnimalLifecycle

Match == INSTANCE Matching
             WITH Animals <- {Animal}, Conversations <- {},
                  archiving <- IF \E r \in Readers : step[r] = "archive" THEN {Animal} ELSE {}

Init ==
    /\ Profile!Init
    /\ step = [r \in Readers |-> "idle"]
    /\ Match!Init
    /\ owner = None
    /\ read = 0
    /\ marked = 0
    /\ top = 0
    /\ event = [r \in Readers |-> 0]
    /\ former = {}
    /\ astray = FALSE

\* The status topic: the places of its events in the log, in order.
StatusTopic == {i \in DOMAIN log : log[i].topic = "status_changed"}

-----------------------------------------------------------------------------
\* An owner, billing, or an operation that goes on.
ProfileStep ==
    /\ \E w \in Workers :
        Profile!OwnerCall(w) \/ Profile!BillingMessage(w) \/ Profile!Continue(w)
    /\ UNCHANGED <<matchVars, readerVars>>

\* Mutant: a message of any swipe counts as interest.
SwipeMessage ==
    /\ \E c \in Calls : outbox["swipe_recorded"][c] > 0
    /\ \E w \in Workers : Profile!ApplyMatchCreated(w)
    /\ UNCHANGED <<matchVars, readerVars>>

\* animal-service reads a match_created event that matching wrote.  The outbox
\* may write one twice and a restarted reader reads it again, so any event that
\* was written may be the next one read.
MatchMessage ==
    /\ \E c \in Calls : outbox["match_created"][c] > 0
    /\ \E w \in Workers : Profile!ApplyMatchCreated(w)
    /\ UNCHANGED <<matchVars, readerVars>>

SwipeStep ==
    /\ UNCHANGED <<profileVars, readerVars>>
    /\ \E c \in Calls : Match!RecordSwipe(c)

-----------------------------------------------------------------------------
(* consumeTopic and handleMessage, of each reader.                         *)

\* The owner, its handler idle, gets the next event of its partition.
FetchMessage(r) ==
    /\ owner = r
    /\ step[r] = "idle"
    /\ \E i \in StatusTopic :
        /\ i > read
        /\ \A j \in StatusTopic : j > read => i <= j
        /\ read' = i
        /\ event' = [event EXCEPT ![r] = i]
    /\ step' = [step EXCEPT ![r] = "upsert"]
    /\ UNCHANGED <<profileVars, matchVars, owner, marked, top, former, astray>>

\* A handler returns; the offset of its event is queued when it succeeded, and
\* counts as the owner's own when it was fetched since the last rebalance.
Return(r, ok) ==
    /\ step' = [step EXCEPT ![r] = "idle"]
    /\ event' = [event EXCEPT ![r] = 0]
    /\ former' = former \ {r}
    /\ top' = IF ok /\ event[r] > top THEN event[r] ELSE top
    /\ marked' = IF ok /\ r \notin former THEN event[r] ELSE marked

SaysAvailable(i) == log[i].new = "available"

\* Mutant: the handler looks at the old status.
UpsertOldStatus(r) ==
    /\ step[r] = "upsert"
    /\ IF log[event[r]].old = "available" THEN Return(r, TRUE)
       ELSE /\ step' = [step EXCEPT ![r] = "archive"]
            /\ UNCHANGED <<event, former, top, marked>>
    /\ Match!HandleAnimalStatusChanged(Animal, log[event[r]].old = "available")
    /\ astray' = (r \in former)
    /\ UNCHANGED <<profileVars, owner, read>>

\* The availability upsert, whatever another handler has written since.
UpsertAvailability(r) ==
    /\ step[r] = "upsert"
    /\ IF SaysAvailable(event[r]) THEN Return(r, TRUE)
       ELSE /\ step' = [step EXCEPT ![r] = "archive"]
            /\ UNCHANGED <<event, former, top, marked>>
    /\ Match!HandleAnimalStatusChanged(Animal, SaysAvailable(event[r]))
    /\ astray' = (r \in former)
    /\ UNCHANGED <<profileVars, owner, read>>

\* The upsert fails: the error is logged and the loop goes on to the next event,
\* whose commit covers this one.
UpsertFails(r) ==
    /\ "handler" \in Faults
    /\ step[r] = "upsert"
    /\ Return(r, FALSE)
    /\ astray' = (astray \/ r \notin former)
    /\ UNCHANGED <<profileVars, matchVars, owner, read>>

ArchiveMatches(r) ==
    /\ step[r] = "archive"
    /\ \/ Return(r, TRUE) /\ Match!ArchiveMatchesByAnimal(Animal)
       \/ Return(r, FALSE) /\ Match!StatusHandlerFails(Animal)
    /\ UNCHANGED <<profileVars, owner, read, astray>>

\* Mutant: a reader that is given the partition starts at its end.
AssignAtEnd(r) ==
    /\ owner = None \/ Rebalances
    /\ owner' = r
    /\ read' \in StatusTopic /\ \A j \in StatusTopic : j <= read'
    /\ marked' = read'
    /\ former' = {x \in Readers : step[x] # "idle"}
    /\ astray' = (astray \/ read' \in (marked + 1)..top)
    /\ UNCHANGED <<profileVars, matchVars, top, step, event>>

\* The group gives the partition to a reader, which starts at the offset the group
\* has: any that was ever queued may be the last one committed, as commits follow
\* once a second and a former owner's are not refused.  Handlers run on.
Assign(r) ==
    /\ owner = None \/ Rebalances
    /\ owner' = r
    /\ read' \in {0} \cup {i \in StatusTopic : i <= top}
    /\ marked' = read'
    /\ former' = {x \in Readers : step[x] # "idle"}
    /\ astray' = (astray \/ read' \in (marked + 1)..top)
    /\ UNCHANGED <<profileVars, matchVars, top, step, event>>

\* A replica stops, its handler wherever it is.
Stop(r) ==
    /\ Rebalances
    /\ owner' = IF owner = r THEN None ELSE owner
    /\ step' = [step EXCEPT ![r] = "idle"]
    /\ event' = [event EXCEPT ![r] = 0]
    /\ former' = former \ {r}
    /\ UNCHANGED <<profileVars, matchVars, read, marked, top, astray>>

StatusReader(r) ==
    \/ FetchMessage(r)
    \/ UpsertAvailability(r)
    \/ UpsertFails(r)
    \/ ArchiveMatches(r)
    \/ Assign(r)
    \/ Stop(r)

Next ==
    \/ ProfileStep
    \/ MatchMessage
    \/ SwipeStep
    \/ \E r \in Readers : StatusReader(r)

Spec == Init /\ [][Next]_vars

-----------------------------------------------------------------------------
(* Properties.                                                             *)

\* An animal shows interest only after a match was committed by the other
\* service, however messages are repeated and operations overlap.
InterestNeedsMatch ==
    row.count["interest"] > 0 => \E c \in Calls : matches[c] # "none"

\* The owner has no event left to apply, and no handler at work on one of its own.
CaughtUp ==
    /\ owner # None /\ (step[owner] = "idle" \/ owner \in former)
    /\ read > 0 /\ \A i \in StatusTopic : i <= read

\* A reader that has come to the end of its partition believes what the last event
\* says, although every rebalance and restart makes readers apply old events again
\* after newer ones.  Three things take that away until the owner applies its next
\* event: a handler of a former owner that wrote late, an offset a former owner
\* committed ahead of what the present one has handled, a handler that failed.
CaughtUpBelievesLastEvent ==
    CaughtUp /\ ~ astray => available[Animal] = SaysAvailable(read)

\* A match is archived only because animal-service wrote a status event that
\* says the animal is no longer available.
ArchivedMatchWasAnnounced ==
    (\E c \in Calls : matches[c] = "archived") =>
        \E i \in StatusTopic : log[i].new # "available"

\* What HandleAnimalStatusChanged is said to do, archive matches for unavailable
\* animals: when matching was told that the animal is available, it archives a match
\* only after an event that was written about a profile that was not.
ArchivedMatchHadCause ==
    (\E c \in Calls : matches[c] = "archived") /\ (\E i \in StatusTopic : SaysAvailable(i))
        => \E i \in StatusTopic : log[i].status # "available"
=============================================================================
