# Verification of the PetMatch backend

PetMatch is an adoption platform: Go services under `src/backend`, one PostgreSQL
schema each, gRPC between them, Kafka for events, and a Flutter client. This
directory holds TLA+ models of the services' state changes, TLC runs on small
instances and TLAPS proofs. Run `tlc -config X.cfg M` and `tlapm M.tla` here.

## Inventory

| Component | State | Operations | What is hard |
|---|---|---|---|
| matching-service, swipes | tables swipes, matches, idempotency_keys, animal_availability, outbox_events | RecordSwipe; handlers of animal.status_changed, animal.profile_archived, chat.conversation_created | SERIALIZABLE calls beside handlers that are not; retries with a key; redelivered events |
| matching-service, outbox publisher | locked_until, attempts, published_at of outbox rows; a batch in memory | FetchOutbox, WriteMessages, MarkOutboxPublished, MarkOutboxFailed | several replicas, locks that run out, lost writes, marks and replies, crashes |
| matching-service, consumer | offset per topic of the replicas' group | one loop per topic and replica | errors are logged and passed over; offsets are committed once a second; a handler runs on after its partition moved |
| animal-service | one row per profile, Kafka topics | Create, Update, Publish, Archive, AddPhoto, RemovePhoto; handlers of boost_activated, donation_succeeded, match_created | load, change, store of whole rows without version or lock; events after the commit |
| billing-service | donations, boosts, entitlements, ledger_entries, idempotency_keys; payment provider | CreateDonationIntent, ConfirmDonation, CreateBoost, CancelBoost, PurchaseEntitlement | decisions on rows read before a remote call; events after the commit; two calls with one key |
| auth-service | users, refresh tokens in families, reset tokens | Register, Login, Refresh, Logout, ResetPassword | rotation in two statements; family revocation beside it |
| feed-service | candidates, served cards, seen animals, entitlements | GetFeed, OpenCard, handlers of seven topics | topics are not ordered to each other; read-modify-write of candidates; pages cut by offset from a ranking that moves, over float sums added in any order |
| notification-service | notifications, preferences, offset per topic, in-memory streams | CreateNotification, MarkNotificationRead, event handlers | insert, status and events are five separate steps; redelivery and takeovers; offsets committed once a second |
| chat-service | conversations, messages, read receipts, in-memory hub | CreateConversation, SendMessage, MarkRead, Connect, ListMessages | keys checked before the insert; events after the commit, to channels that may be full or new; pages of a growing listing |
| analytics-service | raw events, hour and day aggregates | IngestEvent, metrics, RankingFeedback | raw row and aggregates in separate steps |
| api-gateway | Redis rate buckets | calls of the other services | INCR and EXPIRE in two commands |
| user-service | profiles, reviews | CRUD | nothing concurrent |

Interactions: animal-service announces profiles on `animal.*`, which matching and
feed read; matching announces `matching.*` through its outbox, which animal, feed
and notification read; billing announces `billing.*`, which animal and feed read.
The gateway calls everything over gRPC. No service reads another's tables.

What makes each correct:

* *matching*: one match per pair, one answer per key, refused calls leave nothing,
  the outbox says what the tables say, an unavailable animal has no active match.
* *outbox*: at-least-once delivery, duplicates only for a reason, no event forgotten.
* *animal*: counters never exceed the messages read, an archive is told in order, an
  archived profile stays hidden.
* *billing*: a payment pays once, every success and every announced payment is in
  the ledger, boosts were paid for, keys lead to the resource they made.
* *auth*: a token is rotated once, a revoked family stays revoked.
* *feed*: the projection is what the handled messages make of it, cards go with their
  candidate, pages in a row are the ranking cut in order as far as the sums decide it.
* *notification*: one story per key, no committed message without its notifications,
  what was read stays read.
* *chat*: a client that subscribes and then reads the history misses nothing and is
  told of nothing twice. *analytics*: each event is aggregated once.

## Modules

| Module | Models | Runs |
|---|---|---|
| `Matching` | `infra/postgres/store.go`, `app/matching/service.go` of matching-service | `matching`, `matching_race` |
| `SwipeBook` | the abstract promise of RecordSwipe to its callers | through `matching` |
| `MatchingProofs` | theorems about `Matching`, refinement of `SwipeBook` | |
| `EventDelivery` | the abstract promise of an outbox | through `outbox` |
| `Outbox` | `infra/kafka/outbox.go` and the outbox statements of `store.go` | `outbox` |
| `OutboxProofs` | theorems about `Outbox`, refinement of `EventDelivery` | |
| `AnimalLifecycle` | one profile of animal-service | `animal`, `animal_archive` |
| `AnimalProofs` | theorems about `AnimalLifecycle` | |
| `Adoption` | `AnimalLifecycle` and `Matching` over Kafka | `adoption`, `adoption_boost` |
| `AdoptionProofs` | theorems about `Adoption` | |
| `Billing` | billing-service | `billing`, `billing_decline` |
| `BillingProofs` | theorems about `Billing` | |
| `Notification` | creation and reading of notification-service, one topic partition and its group | `notification` |
| `NotificationProofs` | theorems about `Notification` | |
| `Feed` | the projection, ranking and pages of feed-service | `feed` |
| `FeedProofs` | theorems about `Feed` | |
| `Chat` | messages, hub, streams and paging of chat-service, one conversation | `chat` |
| `ChatProofs` | theorems about `Chat` | |

Each `MC` module extends one of them and adds the symmetry sets or constant values
of its configurations. Definitions marked *Mutant* are the code with a plausible
bug in it; no action uses them. Each property is known to fail when its mutant
replaces the definition that follows it.

### Matching

A call is two steps. The first is the snapshot of the serializable transaction:
the idempotency key (`findIdempotency`) and the availability row
(`ensureAnimalAvailable`) as its first statement sees them. The second is the
inserts, which meet unique indexes that also see rows committed since, and the
commit. A swipe's row, its match and its fresh ids are named by the call that
made them, so the tables are functions of `Calls`. Which topic handler runs
between the two steps is free, because handlers are READ COMMITTED statements and
SERIALIZABLE orders only serializable transactions. The status handler is two
steps as well (`SetAnimalAvailability` commits by itself, then
`ArchiveMatchesByAnimal`), and its second step may fail. Status handlers of one animal
overlap (the former owner of a partition beside the next): `archiving` says that at
least one is between its steps (`HandlerEnds`).

A key conflict is an answer (`ErrConflict`), a lost reply a commit whose caller
sees an error. A serialization failure is `AbortSwipe`. PostgreSQL may report an
index conflict between serializable transactions as a serialization failure; both
outcomes are in the model. A call is made of one request and cannot be repeated; a
retry is another call with the same command, which `Init` allows.

`SwipeBook` is what callers are promised ("atomically", says the comment of
`Store.RecordSwipe`): a book with one line for a pair of adopter and animal, never
written over, whose match is opened with the line and closed once. A call is one step
of it, which records, replays, refuses or fails; availability is not in the book. The
refinement shows `swipes` with their match and conversation as the lines, `idempotency`
as the keys, and a call that has not returned as open, so that the snapshot, the
availability table, the handlers' first writes and the outbox are steps nobody sees.

### Outbox

`lock` abstracts `locked_until` against the clock: unset, in the future, or past.
`FetchOutbox` picks the oldest `Batch` claimable rows; `RETURNING` promises no
order, so rows of a batch are written in any order. Every failure (a claim whose
reply is lost, a write or mark that fails with or without effect, a failed
`MarkOutboxFailed`, a crash, a lock that runs out while its holder is still
working) is counted in `faults`. `EventDelivery` is the contract; the refinement
maps `accepted` to committed rows, `delivered` to events in Kafka, `confirmed` to
rows marked published.

### AnimalLifecycle

Profiles do not touch each other, so the model has one. An operation is: load and
change (`Begin`), store all columns (`Store`), publish its events one at a time
(`PublishEvent`), and may end after any of these (`GiveUp`). `target` is the changed
copy held in memory. An operation the domain refuses changes nothing and is no
step. `log` is what reached Kafka in write order. `RepeatEvent` is the retry of a
write whose error hid its success. `held` is history: all statuses the row had.

### Adoption

Both modules are instantiated on the same variables. The status topic is the set of
places of its events in `log` (`StatusTopic`). It is read by `Readers`, the replicas of
matching, as one consumer group. The owner of the animal's partition gets the events in
order (`FetchMessage`), one handler at a time, and passes over one whose handler failed
(`UpsertFails`, `ArchiveMatches`). The partition may move at any time (`Assign`), also
back to a reader whose handler is still at work; the new owner starts at an offset that
may be any one queued so far, since commits follow once a second and the group does not
refuse a late one of a former owner. `former` are the readers whose handler was given
its event before the last move; they run on, so that two handlers of the animal overlap
and an older event may be upserted after a newer one. A replica may stop anywhere in a
handler (`Stop`). `match_created` reaches animal-service through the outbox: at least once
and in any order, so any event that was written may be read at any time (`Outbox`
is the detailed account of that). `animal.profile_archived` is left out because the
consumer cannot decode it: animal-service writes `previous_status` as a number
(`publisher.go:163`), matching declares a string (`consumer.go:138`).

### Billing

A call of one of four kinds looks its key up, reads the donation it is about, asks
the provider, writes one READ COMMITTED transaction and publishes. `seen` is the
donation as read; commits write back what was computed from it. The declined path
publishes inside the open transaction, so it is two steps, and while it is open
writers that need its row or its payment index entries wait (`CanWrite`). The
provider is the mock: it makes the payment id from the donation id and declines
the ids that contain "fail", and the client names the payment to confirm.

### Notification

A note is a recipient with an idempotency key, the table's unique index. A worker
(a replica's consumer or a gRPC call) creates the notes of its message one after
the other: look the key up (`Find`), read the preferences and insert (`Insert`),
announce *requested*, update the status, announce *delivered*; or announce *failed*
where preferences leave no channel. `HandleDonationSucceeded` is the handler with two
recipients; the other handlers have one. Any step may fail with or without its effect
(`LostReply`) and ends the call. A consumer that sees an error logs it and reads on
(`Fail`), and the commit of a later message covers it; an error marked `errSkipMessage`,
for a message in `Refused` that another attempt would not cure, is logged and committed
at once (`Skip`). `CommitMessages` only marks an offset, which
the commit loop writes once a second (`Commit`), also late, after another replica
took the partition over. What each step leaves behind when it is cut short is
recorded in `cutShort` and `failed`, because the code leaves it so: a row whose
creation was cut short stays pending for good, as every retry finds the row and
returns it. Events are counted, so a write repeated by `resilience.Retry` after an
error that hid its success shows (`RepeatWrite`).

### Feed

Messages of different topics have no order and the replicas handle them side by side,
so any message may be handled next. `profile_published` and a status change to
anything but *available* are one statement or transaction; a boost and statistics are
a read (`GetCandidate`) and an upsert of the changed copy (`UpsertCandidate`) with
anything in between. kafka-go's `ReadMessage` commits before the handler runs, so a
handler that fails loses its message (`LoseMessage`). The row is reduced to what
ranking reads: the boosted flag and two score components. `ideal` is the projection
as if messages were applied one at a time, `raced` the animals whose handlers
overlapped. `GetFeed` is three steps: the list query, the swipe query with ranking and
pagination in memory, and the transaction that saves the cards. A boost that is no
longer active takes its mark and its score away (`Update`); billing announces none, but
the handler has the branch.

`totalScore` adds float64 components while it ranges over a map, so each comparison of
the sort may draw another order, and with three components another last bit. A sum is
therefore an interval, from `Low` to `High`, in units of that bit; `Rounded` are the
rates whose sum with freshness and a boost depends on the order. `Surely` says which of
two candidates the sort puts first whatever is drawn: there is a score that no candidate
of the lane straddles and that lies between them, or they have one sum that none
straddles and the list query's order decides. That one interval lies above the other is
not enough, because a third candidate may compare equal to both. `Orders` are all
sequences that respect it, and `Rankings` the interleavings of an order of the boosted
and one of the organic candidates; each page is cut from one drawn anew (`RankPage`).
The loop of `RankCandidates` is `InterleaveBoosted`: a turn appends the next boosted
candidate and the organic ones after it (`Turn`). The properties are stated without it,
as what an interleaving must satisfy.

So the code does not promise that a candidate is shown once: two candidates within a
rounding of each other may swap between two pages of a feed that stands still, one served
twice and the other left out. `PagesAreTheRanking` says what is left: the number of cards
is right, each is at a place some ranking gives it, and the pages are the one ranking, cut
in order, when any two candidates of a lane are surely ordered (`Decided`).

`Init` takes any projection of the rows in `Restored`, so that two messages reach what
many would. A session
is `calm` while nothing that ranking reads changes: a swipe shifts the offsets of the
viewer's next page, which then skips candidates, as offset cursors do; that is why
`PagesAreTheRanking` speaks of calm sessions only.

### Chat

A message is named by the call that stored it. `SendMessage` looks the key up, takes
its time, inserts under two unique constraints, and hands its event to the hub.
`Hub.Publish` is several steps under the read lock: publishers overlap, while
`Subscribe` and `cancel` wait for all of them (`Unlocked`). A full channel drops the
event (`dropped`). Read receipts and typing indicators are events that fill channels
(`Notice`). An aborted send leaves the message stored and unannounced for good, since
a retry finds it (`cutShort`). `ListMessages` pages by offset through a listing that
is sorted newest first, so that new messages shift it. `clock` gives each message a
time of its own; messages of one microsecond are ordered by their ids in the code,
which is a total order just as well. The client is external: it subscribes, then
reads pages until there is no token, and starts over on a new subscription, which is
what the API lets it do to see everything.

## Runs and bounds

| Run | Bounds | Why they are enough | Distinct states |
|---|---|---|---|
| `matching` | 3 calls, 1 adopter, 2 animals, 2 keys, 2 conversations, all faults, overlapping status handlers | three calls give a first attempt, its retry and a competitor; pairs differ by the animal, and no statement looks at the adopter but as part of the pair | 216,672 |
| `outbox` | 3 rows, 2 replicas, batches of 2, 2 failures, 3 attempts | a batch with a rest, a row outside the batch, a replica that takes over, a second failure on the takeover | 77,401 |
| `animal` | 2 workers, 4 operations, 1 photo, 1 repeat | two overlapping operations on a published profile need four in all | 421,513 |
| `adoption` | 1 call, 3 operations one after the other, 2 readers, rebalances, stops and failing handlers | create, publish and one more operation give two status events; two readers suffice for a former owner that writes late and for one that commits ahead. Overlapping operations are in `animal`, competing swipes in `matching`, and the theorems are for any number of each | 567,498 |
| `billing` | 4 calls of any kind, 1 key, a foreign and a declined payment | two intents and two confirmations; or one intent, two confirmations and a boost | 162,779 |
| `notification` | 2 replicas, 1 caller, 2 messages, the second malformed, 2 notes, 1 failure or takeover | a message with two recipients, one behind it that is skipped and whose commit covers it, a caller and the other replica racing for one key | 570,527 |
| `feed` | 3 animals, each absent or a row whose boost mark and score agree, 2 replicas, 1 viewer, 2 messages, pages of 2, a sum that depends on its order | two handlers overlap on an animal or remove it under a page; three candidates make two pages and all mixes of boosted and organic; two equal boosted ones may swap | 1,076,070 |
| `chat` | 3 calls, 1 stream, 3 keys and client ids, a channel of 1, pages of 1 | two sends with the same or different keys and a third event that fills the channel; three pages while the listing grows | 122,134 |

Bounded by guards: `MaxOps` operations and `MaxRepeats` repeats in
`AnimalLifecycle`, `MaxFaults` failures in `Outbox`, the number of `Calls` in
`Matching`, `Billing` and `Chat`, `Last` messages and `MaxTroubles` in `Notification`,
`MaxMessages` in `Feed`. Deadlock is checked in `matching` only: in the others the
bounds stop the system (all operations used, all rows published, all calls ended).

Four runs show the code doing something else than its comments or tests say; each
has an instance as small as the disagreement allows.

* `matching_race`, `UnavailableHasNoActiveMatch`: a swipe that read the animal as
  available commits its match after the status handler has archived the others. The
  match stays active on an unavailable animal.
* `adoption_boost`, `ArchivedMatchHadCause`: `ApplyBoostActivated` publishes
  `animal.status_changed` with no new status, which matching reads as *not
  available*. The run publishes an animal, boosts it, matches it with a swipe, and
  matching archives the match on the boost's event while the animal is available.
* `animal_archive`, `ArchivedStaysHidden`: a `Publish` that loaded the draft before an
  `Archive` of it is stored after the `Archive`: the archived profile is public and
  available.
* `billing_decline`, `SucceededIsFinal`: a declined confirmation that read the
  donation while it was pending marks it failed after another one succeeded.

More disagreements are not runs. `previous_status` of `profile_archived` (see
Adoption) also ends feed-service's consumer with a decode error. An `Archive` whose
publish fails after the row was stored is refused when it is retried, so its events
are never written (`GiveUp` in `AnimalLifecycle` contains that step). The status event
of a boost (`adoption_boost`) also makes feed-service delete the boosted candidate.
An update of feed-service that read a candidate before its archive puts it back
afterwards; `raced` is where `ProjectionIsSerial` allows that, and no comment of the
code denies it.

## Liveness and fairness

`EventuallyDelivered` assumes `FairSpec`: weak fairness of each publisher's loop and
of time for locks nobody holds. The loop justifies the first: a ticker starts a
flush every interval and each blocking call returns or fails. Nothing is assumed of
failures. The property is that every committed row is published at last; it holds
while failures are fewer than attempts (`MaxFaults < MaxAttempts`). In the code the
limit is 20, and a row that was claimed 20 times stays unpublished for ever.

`EventuallyNotified` assumes `FairSpec` of `Notification`: weak fairness of each
worker's next step of a creation (blocking calls return or fail), of each owner's fetch
(the loop of `consumeTopic`), and of joining while the partition has no owner (the
group coordinator assigns it). Nothing is assumed of commits, failures or callers. It
says that every note a written message asks for gets its row or its handler reported
an error, whatever crashes and takeovers happen on the way. That the events follow the
row is not promised by the code (`cutShort`), so the property does not say it.

The other modules state no liveness: their operations may be given up at any step
and nothing in the code resumes them. A chat event may be dropped, a feed message lost.

## What is proved

`MatchingProofs` proves, for every value of the constants, the type invariant, the
safety invariants of the run `matching` and the action property `MatchHistory`. The
invariants are not inductive. `IInv` adds: rows, matches, keys and events come only
from calls that committed; the table has one swipe per pair; a match exists exactly
for a right swipe; a key's row names a swipe made with that key; an answered call
returned what its key's row holds. `NextIInv` goes through the actions. The calls
that change no table are one lemma (`ReturnPreserves`), the commit another
(`CommitPreserves`), the archive a third (`ArchivePreserves`). Assumptions:
`None` is neither a call nor a conversation, `Faults` is a subset of `FaultKinds`.

A consequence, `ActiveMatchIndexNeverFires`: the partial index on active matches
can never refuse an insert, because the pair index on swipes comes first.

`SpecImplementsSwipeBook` proves the refinement of `SwipeBook`. `BookStep` maps each
action: `CommitSwipe` to `Record`, the answers without a write to `Replay`, `Refuse` or
`Fail`, the archive to `CloseMatches`, the rest to a stutter. Besides `IInv` it needs
that nothing the book shows is written ahead of its time: an open call was given
nothing and a swipe without match has no conversation (`NothingAhead`).

`OutboxProofs` proves the type invariant (which ties a flush's step, batch and
current row together), `PublishedWasDelivered` and that `Outbox` implements
`EventDelivery`'s safety part. `IInv` adds that a row being marked was written and
that only committed rows are delivered. `CopiesAreCaused` needs more: the copies of an
event, together with the replicas that hold its row and have not written it, never
exceed the failures while a claim may take the row, and one more otherwise
(`CopiesBounded`, by the cardinality of `Holders`). Each action maps to `Accept`, `Deliver`,
`Confirm` or a stutter (`StepRefines`). Assumptions: events are numbers, `None` is
not one, the bounds are naturals, there are finitely many publishers.

`BillingProofs` proves every property of the run `billing`. The argument has three
parts over the types, which include that a call's request has the fields its kind
needs (`RequestFits`):

* `Payers`, for `OnePayerPerPayment`: a decline stores the payment it read long
  before its commit, so the invariant adds that nobody else has the payment of an
  open decline, and that open declines differ in donation and payment
  (`DeclinesApart`). The locks of its open transaction (`CanWrite`) preserve that.
* `Books`, for the ledger and the keys: a boost that passed its check was paid even
  if its donation has failed since (`BoostsRemember`), and entitlements, boosts and
  intent keys belong to calls of that kind (`RowsFit`).
* `DebtsAreLedgered`, for `AnnouncedIsLedgered`: what was announced of an id, and the
  number of calls that committed an entry of it and have still to announce it
  (`Owed`), together never exceed its ledger entries. This needs `Calls` finite.

Assumptions: `Calls` is finite; the foreign and the declined payment, `None` and the
calls are different.

`AnimalProofs` proves the four invariants of the run `animal`. A copy in memory may be
stored much later, so `CopiesNeverExceed` bounds the counters of every copy as well;
and `DueInOrder` says that whoever still owes a `profile_archived` event owes the status
event first or has written it. `SpecAnnouncedWasHeld`
says that an event announces only a status the row has had: what an operation still
owes it has stored, or will store first (`DueIsHeld`). Assumption: the bounds are naturals.

`AdoptionProofs` proves every property of the run `adoption`. Each step of the
composition is a step of one side and stutters on the other, so that
`ImplementsAnimalLifecycle` holds (the profile behaves as in its own module), and the
inductive invariants of `AnimalProofs` and `MatchingProofs`, instantiated here, are
invariants of the composition (`ProfilesKeep`, `MatchesKeep`); `MatchingKeepsItsPromises`
states what that gives matching's callers. On top of these:

* `InterestNeedsMatch`: `EventsOfMatches` on matching's side, `InterestIsCaused` (rows and
  copies) on the other.
* `CaughtUpBelievesLastEvent`: of the handlers, only the owner's own is at the last event
  the owner was given (`OwnerHandlesLast`); and unless `astray`, the availability is that
  of an event no older than the place the owner may have started behind, and, once the
  owner's handler has written, no older than the last event it was given
  (`OwnerBelieves`). At the end of the topic that leaves one event. The log only grows
  (`LogGrows`), so places keep their events. The theorem holds for any number of readers,
  rebalances and stops. `astray` delimits it: a handler of a former owner that was the
  last to write, an offset ahead of what this owner's handlers have done, or a handler
  of the owner that failed before it wrote. The code cannot exclude these (the upsert
  carries no version), and the owner's next upsert ends each of them.
* `ArchivedMatchWasAnnounced`: a handler that archives was started by an event that
  asked for it, and an archived match has such an event in the log
  (`ArchivingIsAnnounced`).
* `OnlyBoostsArchiveWithoutCause` delimits the finding of `adoption_boost`: where no
  status event lacks its status, an archived match means that the profile was archived.
  It joins the last item with `SpecAnnouncedWasHeld`.

Assumptions: the bounds are naturals, `None` is neither a call nor a reader, `Faults` is a subset of the
kinds `Matching` names.

`NotificationProofs` proves the four invariants of the run `notification`. `NoteOK` ties
one note's row, events and creator together: there is at most one creator, and an event
it has still to publish has been announced no more often than there were failures.
`OffsetsOK` follows the offsets: every message up to a committed or marked offset, or
behind the reader, was dealt with, except the one the reader is at. A skipped message counts among the reported ones. Assumptions: the
messages notes come from, and those the handlers refuse, are among the topic's, replicas
are no callers, `None` is
neither a replica nor a note.

`FeedProofs` proves the five invariants of the run `feed`.

* `ProjectionIsSerial`: while handlers of an animal do not overlap, there is one at most
  and its copy is the row (`CopyIsCurrent`).
* `BoostsAreSpread` is a property of `Rankings` alone, for every finite set of candidates.
  `OrderProperties` says what every outcome of the sort has, however its sums are drawn.
  `LoopExists` shows that the equations
  of the loop have a solution, and `Laid` is the invariant of the loop: after `r` turns
  the `q`-th boosted candidate stands at `q` plus what earlier turns drew, the organic
  ones of turn `q` after it, and nothing else is there. `RankSpreads` derives the rules
  of the feed from these places. Both inductions go over the number of turns with
  `SetInduction`, which speaks of a set instead of an operator and follows from the
  pigeonhole theorem of the library.
* `CardsGoWithCandidate`: an animal that a listing or an unsaved page holds has its
  candidate or was removed since (`RemovalsNoticed`).
* `PagesAreTheRanking`: `PagesCut` says where a calm viewer stands: as many cards were
  shown as the token says, each at a place a ranking gives it. `PaginateCuts` and
  `PageExtends` are the step to the next page, cut from a ranking of its own. There is
  always one to cut from (`RankingsExist`: counting who precedes a candidate gives each a
  place of its own, `PlacesExist`, and `Surely` agrees with that order). When any two
  candidates of a lane are surely ordered there is one only (`OneRanking`), because a
  candidate's place is then the number of those that surely come before it
  (`PlaceCounts`, `OneOrder`), and the places make the pages its prefix.

Assumptions: animals are finitely many numbers (their order is the list query's),
a score point is a positive number of units, rates are naturals with 0 among them and
not rounded, `OrganicAfterBoost` and `PageSize` are positive,
`None` is neither a candidate nor a handler.

`ChatProofs` proves the three invariants of the run `chat` for any buffer and page size.
`OwnMessage` says that a call only announces what it stored, `OnePerKey` are the unique
constraints, `PutOnce` that an event in a channel will not be offered to it again, and
`PagesAreTold` that the first `offset` messages of the listing were all dealt with: new
messages go to the head and only push others back behind a token that already passed
them. Assumptions: finitely many calls, pages are not empty.

Only model-checked: `EventuallyDelivered` and `EventuallyNotified` (liveness is outside
the prover), and the four violations, which are counterexamples.

## Not modelled

Inside modelled services: queries that only read, validation of inputs; boost and
entitlement expiry, `archived_animals` of billing (no code writes it), the replay of
animal-service's create key; in notification-service the in-memory streams, devices and
the writing of preferences (which `Insert` reads as anything); in feed-service
entitlements with the paid filters, OpenCard and telemetry, the `status` column (no
candidate is stored unless it is available), and `profile_archived` (not decodable); in
chat-service creating conversations, editing messages and the stored read receipt.
`processed_events` of matching has no reader or writer. user-service, transports,
configuration and generated code have nothing a model would add; generated protobuf code
is most of the repository's lines.

## Plan

What is left of the inventory, in this order; each item is one module with an MC module
and a run.

1. `Sessions` (auth-service): refresh token families under concurrent rotation and
   reuse detection, password reset; an abstract specification of a session as the
   contract. Two clients, three tokens.
2. `Breaker`: the shared circuit breaker with overlapping calls, and retries.
3. `Analytics` and the gateway's rate limiter.
4. `Feed` composed with `AnimalLifecycle`'s log, so that what a boost does to the feed
   is seen from the boost.

The number of runs and properties is kept small so that all of them are checked each
time: a later module adds its own run where it asks a new question, and takes the place
of a weaker one where it can.
