------------------------------ MODULE Matching ------------------------------
(***************************************************************************)
(* The matching-service: swipes, the matches right swipes create, the      *)
(* idempotency keys of RecordSwipe, the availability of animals and the    *)
(* transactional outbox.                                                   *)
(*                                                                         *)
(* A RecordSwipe call is a SERIALIZABLE transaction.  Everything it reads  *)
(* (the idempotency key, the availability row) comes from the snapshot its *)
(* first statement takes; its inserts meet the unique indexes, which see   *)
(* rows committed after that snapshot.  A call is therefore two steps: one *)
(* that reads and decides, one that inserts and commits (or aborts).  The  *)
(* Kafka handlers are not serializable transactions, so nothing orders     *)
(* them against the two steps of a call.                                   *)
(***************************************************************************)
EXTENDS Naturals

CONSTANTS
    Calls,          \* RecordSwipe invocations; the id of a call stands for the
                    \* fresh swipe_id and match_id the invocation generates
    Actors,         \* adopter profiles
    Animals,        \* animal profiles
    Keys,           \* client idempotency keys
    Conversations,  \* chat conversation ids
    None,           \* no row, no value
    Faults          \* the failures considered, a subset of FaultKinds

FaultKinds == {"abort",      \* a call rolls back (serialization failure, lost connection)
               "lostReply",  \* a call commits and its caller sees an error
               "handler"}    \* the archive step of a status handler fails

ASSUME NoneAssumption == None \notin Calls \cup Conversations
ASSUME FaultsAssumption == Faults \subseteq FaultKinds

Topics == {"swipe_recorded", "match_created", "match_archived"}
Commands == [actor: Actors, animal: Animals, direction: {"left", "right"}, key: Keys]

\* The phase of a call, and once it has returned what it returned.
Refused == {"unavailable", "duplicate", "conflict"}
Answered == {"ok", "replayed"}
Phases == {"new", "writing", "failed"} \cup Refused \cup Answered

VARIABLES
    cmd,            \* [Calls -> Commands]: the request each call carries
    call,           \* [Calls -> Phases]
    returned,       \* [Calls -> swipe id the caller was given, or None]
    swipes,         \* table swipes: the ids of its rows (a row's columns are cmd)
    matches,        \* table matches: status of the match a call created
    conversation,   \* matches.conversation_id
    idempotency,    \* table idempotency_keys: key -> swipe id
    available,      \* table animal_availability (a missing row reads as available)
    archiving,      \* animals of which a status handler is between its two writes
    outbox          \* table outbox_events: how often each event was written

tables == <<swipes, matches, conversation, idempotency, available, outbox>>
vars == <<cmd, call, returned, archiving, tables>>

Init ==
    /\ cmd \in [Calls -> Commands]
    /\ call = [c \in Calls |-> "new"]
    /\ returned = [c \in Calls |-> None]
    /\ swipes = {}
    /\ matches = [c \in Calls |-> "none"]
    /\ conversation = [c \in Calls |-> None]
    /\ idempotency = [k \in Keys |-> None]
    /\ available = [a \in Animals |-> TRUE]
    /\ archiving = {}
    /\ outbox = [t \in Topics |-> [c \in Calls |-> 0]]

-----------------------------------------------------------------------------
(* RecordSwipe, first step: the snapshot and the decisions read from it.   *)

Return(c, phase, swipe) ==
    /\ call' = [call EXCEPT ![c] = phase]
    /\ returned' = [returned EXCEPT ![c] = swipe]
    /\ UNCHANGED <<cmd, archiving>>

\* Mutant: the replay hands back what the key row is looked up by.
ReplayKey(c) ==
    /\ call[c] = "new"
    /\ idempotency[cmd[c].key] # None
    /\ Return(c, "replayed", cmd[c].key)
    /\ UNCHANGED tables

\* findIdempotency hits: the stored swipe and its match are returned.
ReplaySwipe(c) ==
    /\ call[c] = "new"
    /\ idempotency[cmd[c].key] # None
    /\ Return(c, "replayed", idempotency[cmd[c].key])
    /\ UNCHANGED tables

\* ensureAnimalAvailable returns ErrUnavailableAnimal.
RejectUnavailable(c) ==
    /\ call[c] = "new"
    /\ idempotency[cmd[c].key] = None
    /\ ~ available[cmd[c].animal]
    /\ Return(c, "unavailable", None)
    /\ UNCHANGED tables

\* The snapshot allows the swipe: the call goes on to its inserts.
StartSwipe(c) ==
    /\ call[c] = "new"
    /\ idempotency[cmd[c].key] = None
    /\ available[cmd[c].animal]
    /\ Return(c, "writing", None)
    /\ UNCHANGED tables

-----------------------------------------------------------------------------
(* RecordSwipe, second step: inserts under the unique indexes, and commit. *)

SamePair(c, d) == cmd[c].actor = cmd[d].actor /\ cmd[c].animal = cmd[d].animal

\* Mutant: only the pair's active match keeps a second swipe out.
PairIsUnmatched(c) == \A d \in swipes : matches[d] = "active" => ~ SamePair(c, d)

\* Unique index swipes_actor_animal_key.
SwipeIsNew(c) == \A d \in swipes : ~ SamePair(c, d)

\* Partial unique index matches_active_adopter_animal_key.
NoActiveMatch(c) == \A d \in Calls : matches[d] = "active" => ~ SamePair(c, d)

\* Mutant: the key row is upserted.
KeyIsOverwritten(c) == idempotency[cmd[c].key] \in Calls \cup {None}

\* Primary key of idempotency_keys.
KeyIsNew(c) == idempotency[cmd[c].key] = None

RightSwipe(c) == cmd[c].direction = "right"

\* The events a call writes: swipe_recorded, and match_created when it matches.
WithSwipeEvents(c) ==
    [outbox EXCEPT !["swipe_recorded"][c] = @ + 1,
                   !["match_created"][c] = IF RightSwipe(c) THEN @ + 1 ELSE @]

CommitSwipe(c) ==
    /\ call[c] = "writing"
    /\ SwipeIsNew(c)
    /\ RightSwipe(c) => NoActiveMatch(c)
    /\ KeyIsNew(c)
    /\ swipes' = swipes \cup {c}
    /\ matches' = [matches EXCEPT ![c] = IF RightSwipe(c) THEN "active" ELSE @]
    /\ idempotency' = [idempotency EXCEPT ![cmd[c].key] = c]
    /\ outbox' = WithSwipeEvents(c)
    /\ \/ Return(c, "ok", c)
       \/ "lostReply" \in Faults /\ Return(c, "failed", None)
    /\ UNCHANGED <<conversation, available>>

RejectDuplicate(c) ==
    /\ call[c] = "writing"
    /\ ~ SwipeIsNew(c)
    /\ Return(c, "duplicate", None)
    /\ UNCHANGED tables

\* Mutant: the key conflict is answered after a commit, without the rollback.
RejectConflictCommitted(c) ==
    /\ call[c] = "writing"
    /\ SwipeIsNew(c)
    /\ ~ KeyIsNew(c)
    /\ Return(c, "conflict", None)
    /\ swipes' = swipes \cup {c}
    /\ UNCHANGED <<matches, conversation, idempotency, available, outbox>>

RejectConflict(c) ==
    /\ call[c] = "writing"
    /\ SwipeIsNew(c)
    /\ ~ KeyIsNew(c)
    /\ Return(c, "conflict", None)
    /\ UNCHANGED tables

AbortSwipe(c) ==
    /\ "abort" \in Faults
    /\ call[c] = "writing"
    /\ Return(c, "failed", None)
    /\ UNCHANGED tables

-----------------------------------------------------------------------------
(* Event handlers.  The readers are a consumer group: after a rebalance or *)
(* in a rolling deploy two replicas may be handling events of one animal,  *)
(* so nothing keeps the status handlers of an animal apart.                *)

\* Mutant: the archive statement forgets status = 'active'.
MatchedOn(a) == {c \in Calls : matches[c] # "none" /\ cmd[c].animal = a}

ActiveOn(a) == {c \in Calls : matches[c] = "active" /\ cmd[c].animal = a}

\* SELECT ... FOR UPDATE of the active matches, their update and their events.
ArchiveActive(a) ==
    /\ matches' = [c \in Calls |-> IF c \in ActiveOn(a) THEN "archived" ELSE matches[c]]
    /\ outbox' = [outbox EXCEPT !["match_archived"] =
                    [c \in Calls |-> IF c \in ActiveOn(a) THEN @[c] + 1 ELSE @[c]]]
    /\ UNCHANGED <<cmd, call, returned, swipes, conversation, idempotency, available>>

\* The autocommitted availability upsert; an unavailable animal goes on to
\* the archive transaction.
HandleAnimalStatusChanged(a, avail) ==
    /\ available' = [available EXCEPT ![a] = avail]
    /\ archiving' = IF avail THEN archiving ELSE archiving \cup {a}
    /\ UNCHANGED <<cmd, call, returned, swipes, matches, conversation, idempotency, outbox>>

\* A status handler ends; another one of the animal may still be under way.
HandlerEnds(a) ==
    /\ a \in archiving
    /\ archiving' \in {archiving, archiving \ {a}}

ArchiveMatchesByAnimal(a) == HandlerEnds(a) /\ ArchiveActive(a)

\* The archive transaction fails: the handler returns and its message is passed over.
StatusHandlerFails(a) ==
    /\ "handler" \in Faults
    /\ HandlerEnds(a)
    /\ UNCHANGED <<cmd, call, returned, tables>>

\* An archive event in its documented form: no availability row is written.
HandleAnimalArchived(a) ==
    /\ ArchiveActive(a)
    /\ UNCHANGED archiving

\* Mutant: the update forgets its guard on conversation_id.
OverwriteConversation(m, conv) ==
    /\ matches[m] # "none"
    /\ conversation' = [conversation EXCEPT ![m] = conv]
    /\ UNCHANGED <<cmd, call, returned, archiving, swipes, matches, idempotency, available, outbox>>

\* UPDATE ... WHERE conversation_id = '' OR conversation_id = $2; no row is ErrNotFound.
UpdateMatchConversation(m, conv) ==
    /\ matches[m] # "none"
    /\ conversation[m] \in {None, conv}
    /\ conversation' = [conversation EXCEPT ![m] = conv]
    /\ UNCHANGED <<cmd, call, returned, archiving, swipes, matches, idempotency, available, outbox>>

-----------------------------------------------------------------------------
RecordSwipe(c) ==
    \/ ReplaySwipe(c)
    \/ RejectUnavailable(c)
    \/ StartSwipe(c)
    \/ CommitSwipe(c)
    \/ RejectDuplicate(c)
    \/ RejectConflict(c)
    \/ AbortSwipe(c)

HandleAnimalEvent(a) ==
    \/ \E avail \in BOOLEAN : HandleAnimalStatusChanged(a, avail)
    \/ ArchiveMatchesByAnimal(a)
    \/ StatusHandlerFails(a)
    \/ HandleAnimalArchived(a)

Next ==
    \/ \E c \in Calls : RecordSwipe(c)
    \/ \E a \in Animals : HandleAnimalEvent(a)
    \/ \E m \in Calls, conv \in Conversations : UpdateMatchConversation(m, conv)

Spec == Init /\ [][Next]_vars

-----------------------------------------------------------------------------
(* Properties.                                                             *)

TypeOK ==
    /\ cmd \in [Calls -> Commands]
    /\ call \in [Calls -> Phases]
    /\ returned \in [Calls -> Calls \cup {None}]
    /\ swipes \subseteq Calls
    /\ matches \in [Calls -> {"none", "active", "archived"}]
    /\ conversation \in [Calls -> Conversations \cup {None}]
    /\ idempotency \in [Keys -> Calls \cup {None}]
    /\ available \in [Animals -> BOOLEAN]
    /\ archiving \subseteq Animals
    /\ outbox \in [Topics -> [Calls -> Nat]]

\* An adopter is matched with an animal at most once, whatever happens to the
\* first match: the active-match index alone would allow a second match after
\* an archive; only the order swipe-then-match in RecordSwipe rules it out.
OneMatchPerPair ==
    \A c, d \in Calls :
        matches[c] # "none" /\ matches[d] # "none" /\ SamePair(c, d) => c = d

\* A retry is answered with the swipe its first attempt recorded: two answered
\* calls with one idempotency key were given the same swipe, even when they ran
\* concurrently or the first answer was lost.
RepliesAgree ==
    \A c, d \in Calls :
        call[c] \in Answered /\ call[d] \in Answered /\ cmd[c].key = cmd[d].key
            => returned[c] = returned[d]

\* The outbox says exactly what the tables say: one swipe_recorded per swipe,
\* one match_created per match, one match_archived per archived match, however
\* often archive events are redelivered and calls are retried.
OutboxMatchesTables ==
    \A c \in Calls :
        /\ outbox["swipe_recorded"][c] = IF c \in swipes THEN 1 ELSE 0
        /\ outbox["match_created"][c] = IF matches[c] # "none" THEN 1 ELSE 0
        /\ outbox["match_archived"][c] = IF matches[c] = "archived" THEN 1 ELSE 0

\* A match never leaves the archive and never changes conversation, although
\* handlers of three topics write its row.
MatchHistory ==
    [][\A m \in Calls :
         /\ matches[m] = "archived" => matches'[m] = "archived"
         /\ conversation[m] # None => conversation'[m] = conversation[m]]_vars

\* What HandleAnimalStatusChanged is said to do: once an animal is unavailable
\* and its handler is done, no match on it is active.
UnavailableHasNoActiveMatch ==
    \A c \in Calls :
        matches[c] = "active" => available[cmd[c].animal] \/ cmd[c].animal \in archiving

-----------------------------------------------------------------------------
(* What the callers of RecordSwipe are promised.                           *)

Book ==
    INSTANCE SwipeBook
        WITH outcome <- [c \in Calls |-> IF call[c] \in {"new", "writing"} THEN "open" ELSE call[c]],
             given <- returned,
             lines <- {[swipe |-> c, match |-> matches[c], conversation |-> conversation[c]] :
                         c \in swipes},
             keyLines <- idempotency

\* Two steps with a snapshot between them, replays, lost replies and handlers of
\* three topics: for its callers the service is a book in which every call takes
\* effect at one moment or not at all.
ImplementsSwipeBook == Book!Spec
=============================================================================
