--------------------------- MODULE AnimalLifecycle ---------------------------
(***************************************************************************)
(* One animal profile of the animal-service (profiles do not touch each    *)
(* other).  Every operation loads the whole row, changes it in memory,     *)
(* stores the whole row back and then publishes its events, with no        *)
(* transaction or version around the steps; operations of owners and of    *)
(* the three Kafka consumers run side by side.  An operation the domain    *)
(* rejects returns an error and changes nothing: it is no step here.       *)
(***************************************************************************)
EXTENDS Naturals, Sequences

CONSTANTS
    Workers,        \* goroutines: gRPC handlers and consumer loops
    Photos,         \* photo ids
    MaxOps,         \* bound on the operations started
    MaxRepeats      \* bound on the messages written twice

ASSUME BoundsAssumption == MaxOps \in Nat /\ MaxRepeats \in Nat

Statuses == {"none", "draft", "available", "archived"}   \* "none": no row yet
EventStatuses == Statuses \cup {"unspecified"}
Topics == {"profile_created", "profile_updated", "profile_published",
           "profile_archived", "photo_added", "status_changed"}
Counters == {"donation", "interest"}

Profiles == [status: Statuses, public: BOOLEAN, boosted: BOOLEAN,
             photos: SUBSET Photos, count: [Counters -> Nat]]
Events == [topic: Topics, old: EventStatuses, new: EventStatuses, status: Statuses]

VARIABLES
    row,            \* the profile's row
    stage,          \* [Workers -> where an operation is]
    target,         \* [Workers -> the row an operation is going to store]
    due,            \* [Workers -> the events an operation still has to publish]
    log,            \* the events in Kafka, of all topics, in the order written
    started,        \* operations started so far
    repeats,        \* messages written twice so far
    received,       \* [Counters -> messages read that count]
    held            \* history: the statuses the row has had

vars == <<row, stage, target, due, log, started, repeats, received, held>>

NoProfile == [status |-> "none", public |-> FALSE, boosted |-> FALSE,
              photos |-> {}, count |-> [k \in Counters |-> 0]]

Init ==
    /\ row = NoProfile
    /\ stage = [w \in Workers |-> "idle"]
    /\ target = [w \in Workers |-> NoProfile]
    /\ due = [w \in Workers |-> << >>]
    /\ log = << >>
    /\ started = 0
    /\ repeats = 0
    /\ received = [k \in Counters |-> 0]
    /\ held = {"none"}

-----------------------------------------------------------------------------
(* Events (newEvent): a snapshot of the row that was stored.               *)

Event(topic, profile) ==
    [topic |-> topic, old |-> "unspecified", new |-> "unspecified", status |-> profile.status]

StatusEvent(old, profile) ==
    [Event("status_changed", profile) EXCEPT !.old = old, !.new = profile.status]

ArchivedEvent(old, profile) == [Event("profile_archived", profile) EXCEPT !.old = old]

(* Load and change: the row as read, the changed copy, the events to come.  *)

\* Mutant: the events go out before the row is stored.
BeginPublishing(w, changed, events) ==
    /\ stage[w] = "idle"
    /\ started < MaxOps
    /\ started' = started + 1
    /\ stage' = [stage EXCEPT ![w] = IF events = << >> THEN "storing" ELSE "publishing"]
    /\ target' = [target EXCEPT ![w] = changed]
    /\ due' = [due EXCEPT ![w] = events]
    /\ UNCHANGED <<row, log, repeats, held>>

Begin(w, changed, events) ==
    /\ stage[w] = "idle"
    /\ started < MaxOps
    /\ started' = started + 1
    /\ stage' = [stage EXCEPT ![w] = "storing"]
    /\ target' = [target EXCEPT ![w] = changed]
    /\ due' = [due EXCEPT ![w] = events]
    /\ UNCHANGED <<row, log, repeats, held>>

\* An operation of a caller; the profile must exist.
Call(w, changed, events) ==
    /\ row.status # "none"
    /\ Begin(w, changed, events)
    /\ UNCHANGED received

\* The insert transaction; a later call with the key returns the row and stops.
Create(w, photos) ==
    /\ stage[w] = "idle"
    /\ started < MaxOps
    /\ row.status = "none"
    /\ started' = started + 1
    /\ row' = [NoProfile EXCEPT !.status = "draft", !.photos = photos]
    /\ held' = held \cup {"draft"}
    /\ stage' = [stage EXCEPT ![w] = "publishing"]
    /\ due' = [due EXCEPT ![w] = <<Event("profile_created", row')>>]
    /\ UNCHANGED <<target, log, repeats, received>>

\* The patched columns are not tracked; the others are stored as they were read.
Update(w) == Call(w, row, <<Event("profile_updated", row)>>)

Publish(w) ==
    LET changed == [row EXCEPT !.status = "available", !.public = TRUE]
    IN  /\ row.status = "draft"
        /\ row.photos # {}
        /\ Call(w, changed, <<StatusEvent(row.status, changed), Event("profile_published", changed)>>)

\* Mutant: the archived event goes out first.
ArchiveUnordered(w) ==
    LET changed == [row EXCEPT !.status = "archived", !.public = FALSE]
    IN  /\ row.status # "archived"
        /\ Call(w, changed, <<ArchivedEvent(row.status, changed), StatusEvent(row.status, changed)>>)

Archive(w) ==
    LET changed == [row EXCEPT !.status = "archived", !.public = FALSE]
    IN  /\ row.status # "archived"
        /\ Call(w, changed, <<StatusEvent(row.status, changed), ArchivedEvent(row.status, changed)>>)

AddPhoto(w, p) ==
    LET changed == [row EXCEPT !.photos = @ \cup {p}]
    IN  /\ p \notin row.photos
        /\ Call(w, changed, <<Event("photo_added", changed)>>)

RemovePhoto(w, p) ==
    LET changed == [row EXCEPT !.photos = @ \ {p}]
    IN  /\ p \in row.photos
        /\ Call(w, changed, <<Event("profile_updated", changed)>>)

\* A boost event whose expiry is in the future; its status event names no status.
ApplyBoostActivated(w) ==
    LET changed == [row EXCEPT !.boosted = TRUE]
    IN  Call(w, changed, <<Event("status_changed", changed)>>)

\* IncrementDonationCount and IncrementInterestCount, for a message just read.
Count(w, k) ==
    /\ row.status # "none"
    /\ Begin(w, [row EXCEPT !.count[k] = @ + 1], << >>)
    /\ received' = [received EXCEPT ![k] = @ + 1]

ApplyDonationSucceeded(w) == Count(w, "donation")

ApplyMatchCreated(w) == Count(w, "interest")

-----------------------------------------------------------------------------
\* Mutant: an operation that ends keeps its unpublished events.
FinishKeepingEvents(w) ==
    /\ stage' = [stage EXCEPT ![w] = "idle"]
    /\ target' = [target EXCEPT ![w] = NoProfile]
    /\ UNCHANGED due

Finish(w) ==
    /\ stage' = [stage EXCEPT ![w] = "idle"]
    /\ target' = [target EXCEPT ![w] = NoProfile]
    /\ due' = [due EXCEPT ![w] = << >>]

\* Mutant: counters are added up by the database, the rest is stored blindly.
StoreAdding(w) ==
    /\ stage[w] = "storing"
    /\ row' = [target[w] EXCEPT !.count = [k \in Counters |-> @[k] + row.count[k]]]
    /\ held' = held \cup {target[w].status}
    /\ IF due[w] = << >> THEN Finish(w)
       ELSE stage' = [stage EXCEPT ![w] = "publishing"] /\ UNCHANGED <<target, due>>
    /\ UNCHANGED <<log, started, repeats, received>>

\* Repository.Update: every column, whatever happened since the row was read.
Store(w) ==
    /\ stage[w] = "storing"
    /\ row' = target[w]
    /\ held' = held \cup {target[w].status}
    /\ IF due[w] = << >> THEN Finish(w)
       ELSE stage' = [stage EXCEPT ![w] = "publishing"] /\ UNCHANGED <<target, due>>
    /\ UNCHANGED <<log, started, repeats, received>>

PublishEvent(w) ==
    /\ stage[w] = "publishing"
    /\ log' = Append(log, Head(due[w]))
    /\ IF Len(due[w]) = 1 THEN Finish(w)
       ELSE due' = [due EXCEPT ![w] = Tail(@)] /\ UNCHANGED <<stage, target>>
    /\ UNCHANGED <<row, started, repeats, received, held>>

\* A write whose error hid that the message got through is tried again.
RepeatEvent(w) ==
    /\ stage[w] = "publishing"
    /\ repeats < MaxRepeats
    /\ repeats' = repeats + 1
    /\ log' = Append(log, Head(due[w]))
    /\ UNCHANGED <<row, stage, target, due, started, received, held>>

\* Publishing fails (the message may be in Kafka all the same) or the process
\* dies: what the operation had left to do is never done.
GiveUp(w) ==
    /\ stage[w] # "idle"
    /\ \/ UNCHANGED log
       \/ stage[w] = "publishing" /\ log' = Append(log, Head(due[w]))
    /\ Finish(w)
    /\ UNCHANGED <<row, started, repeats, received, held>>

-----------------------------------------------------------------------------
OwnerCall(w) ==
    \/ \E photos \in SUBSET Photos : Create(w, photos)
    \/ Update(w)
    \/ Publish(w)
    \/ Archive(w)
    \/ \E p \in Photos : AddPhoto(w, p) \/ RemovePhoto(w, p)

BillingMessage(w) == ApplyBoostActivated(w) \/ ApplyDonationSucceeded(w)

Continue(w) == Store(w) \/ PublishEvent(w) \/ RepeatEvent(w) \/ GiveUp(w)

Next ==
    \E w \in Workers :
        OwnerCall(w) \/ BillingMessage(w) \/ ApplyMatchCreated(w) \/ Continue(w)

Spec == Init /\ [][Next]_vars

-----------------------------------------------------------------------------
(* Properties.                                                             *)

TypeOK ==
    /\ row \in Profiles
    /\ stage \in [Workers -> {"idle", "storing", "publishing"}]
    /\ target \in [Workers -> Profiles]
    /\ due \in [Workers -> Seq(Events)]
    /\ log \in Seq(Events)
    /\ started \in 0..MaxOps
    /\ repeats \in 0..MaxRepeats
    /\ received \in [Counters -> Nat]
    /\ held \subseteq Statuses
    /\ \A w \in Workers :
        /\ stage[w] = "idle" => target[w] = NoProfile /\ due[w] = << >>
        /\ stage[w] = "publishing" => due[w] # << >>

\* The counters may lose messages to overlapping operations but never show more
\* donations or interest than messages were read.
CountersNeverExceed == \A k \in Counters : row.count[k] <= received[k]

Announced(topic, new) == {i \in DOMAIN log : log[i].topic = topic /\ log[i].new = new}

\* Consumers of the status topic are told of an archive before those of the
\* archive topic: every profile_archived event has an earlier status_changed
\* event with the same old status, failures and overlaps included.
StatusEventFirst ==
    \A i \in DOMAIN log : log[i].topic = "profile_archived" =>
        \E j \in Announced("status_changed", "archived") : j < i /\ log[j].old = log[i].old

\* No event announces a status before the row had it, whatever operations
\* overlap, fail or are written twice.
AnnouncedWasHeld ==
    \A i \in DOMAIN log : log[i].new # "unspecified" => log[i].new \in held

\* What Archive is said to do, hide a profile from discovery: no operation that was
\* under way when it was archived makes it public again.
ArchivedStaysHidden == [][row.status = "archived" => ~ row'.public]_vars
=============================================================================
