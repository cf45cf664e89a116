---------------------------- MODULE Notification ----------------------------
(***************************************************************************)
(* notification-service: notifications created by the consumers of one     *)
(* upstream topic partition and by gRPC callers, delivered and read.       *)
(* Creating one is a chain of separate steps (look the key up, insert,     *)
(* announce, update, announce) that any error or crash cuts short; a       *)
(* message is committed to the group once a second, after its handler      *)
(* succeeded or because a later one did.                                   *)
(*                                                                         *)
(* A note is a recipient together with an idempotency key: the unique      *)
(* index of the table.                                                     *)
(***************************************************************************)
EXTENDS Naturals

CONSTANTS
    Consumers,      \* replicas of the service, one group
    Callers,        \* gRPC calls that run at the same time
    Notes,          \* notifications that may be asked for
    From,           \* [Notes -> the message that asks for it, 0: none does]
    Asked,          \* notes that gRPC callers ask for
    Last,           \* messages the topic will have
    Refused,        \* messages that are malformed, after the notes they ask for
    MaxTroubles,    \* bound on errors, crashes and reassignments together
    None            \* no owner, no note

ASSUME NotesAssumption == Last \in Nat /\ From \in [Notes -> 0..Last] /\ Asked \subseteq Notes
ASSUME RefusedAssumption == Refused \subseteq 1..Last
ASSUME BoundsAssumption == MaxTroubles \in Nat
ASSUME NoneAssumption == None \notin Consumers /\ None \notin Notes
ASSUME WorkersAssumption == Consumers \cap Callers = {}

Workers == Consumers \cup Callers
Statuses == {"none", "pending", "failed", "delivered", "read"}   \* "none": no row
Kinds == {"requested", "delivered", "failed"}
Stages == {"idle", "looking", "inserting", "requesting", "updating", "delivering", "refusing"}

\* The notes a message asks for: a key for each of its recipients.
Due(m) == {n \in Notes : From[n] = m}

VARIABLES
    written,        \* messages in the topic
    committed,      \* committed offset: messages up to it are not read again
    owner,          \* the replica that reads the partition, or None
    position,       \* last message the owner fetched
    marked,         \* [Consumers -> offset waiting for the next commit, 0: none]
    stage,          \* [Workers -> where CreateNotification is]
    message,        \* [Workers -> message being handled, 0: a call]
    todo,           \* [Workers -> notes the handler has still to create]
    note,           \* [Workers -> the note being created, or None]
    status,         \* [Notes -> column status]
    hasRead,        \* notes with column read_at set
    channels,       \* notes whose row has channels left after preferences
    announced,      \* [Kinds -> [Notes -> events in Kafka]]
    faults,         \* errors and crashes so far
    moves,          \* times an owner lost the partition to another replica
    failed,         \* history: messages whose handler returned an error
    cutShort,       \* history: notes whose creating call ended after the insert
    readEarly       \* history: notes read while their creation was under way

topic == <<written, committed, owner, position, marked, moves>>
work == <<stage, message, todo, note>>
rows == <<status, hasRead, channels>>
history == <<failed, cutShort, readEarly>>
vars == <<topic, work, rows, announced, faults, history>>

Init ==
    /\ written = 0 /\ committed = 0 /\ owner = None /\ position = 0
    /\ marked = [c \in Consumers |-> 0]
    /\ stage = [w \in Workers |-> "idle"]
    /\ message = [w \in Workers |-> 0]
    /\ todo = [w \in Workers |-> {}]
    /\ note = [w \in Workers |-> None]
    /\ status = [n \in Notes |-> "none"]
    /\ hasRead = {} /\ channels = {}
    /\ announced = [k \in Kinds |-> [n \in Notes |-> 0]]
    /\ faults = 0 /\ moves = 0
    /\ failed = {} /\ cutShort = {} /\ readEarly = {}

Fault ==
    /\ faults + moves < MaxTroubles
    /\ faults' = faults + 1

Creating == {"requesting", "updating", "delivering", "refusing"}
CreatorsOf(n) == {w \in Workers : note[w] = n /\ stage[w] \in Creating}

-----------------------------------------------------------------------------
(* The topic and its group.                                                *)

Write ==
    /\ written < Last
    /\ written' = written + 1
    /\ UNCHANGED <<committed, owner, position, marked, moves>>
    /\ UNCHANGED <<work, rows, announced, faults, history>>

\* Mutant: a reader starts behind the last message.
StartAtEnd(c) ==
    /\ owner' = c
    /\ position' = written
    /\ UNCHANGED <<written, committed, marked>>
    /\ UNCHANGED <<work, rows, announced, faults, history>>

\* A reader starts at the committed offset.
StartAtCommitted(c) ==
    /\ owner' = c
    /\ position' = committed
    /\ UNCHANGED <<written, committed, marked>>
    /\ UNCHANGED <<work, rows, announced, faults, history>>

Join(c) ==
    /\ owner = None
    /\ StartAtCommitted(c)
    /\ UNCHANGED moves

\* The old owner finishes the handler it is in and may commit it late.
Rebalance(c) ==
    /\ owner \notin {None, c}
    /\ faults + moves < MaxTroubles
    /\ moves' = moves + 1
    /\ StartAtCommitted(c)

FetchMessage(c) ==
    /\ owner = c
    /\ stage[c] = "idle"
    /\ position < written
    /\ position' = position + 1
    /\ stage' = [stage EXCEPT ![c] = "looking"]
    /\ message' = [message EXCEPT ![c] = position + 1]
    /\ todo' = [todo EXCEPT ![c] = Due(position + 1)]
    /\ UNCHANGED <<written, committed, owner, marked, moves, note>>
    /\ UNCHANGED <<rows, announced, faults, history>>

\* The commit loop, once a second and when a generation ends; a late commit of
\* an old owner may move the offset back.
Commit(c) ==
    /\ marked[c] # 0
    /\ committed' = marked[c]
    /\ marked' = [marked EXCEPT ![c] = 0]
    /\ UNCHANGED <<written, owner, position, moves>>
    /\ UNCHANGED <<work, rows, announced, faults, history>>

-----------------------------------------------------------------------------
(* Handlers and calls: CreateNotification for each note in turn.           *)

GoTo(w, s) == stage' = [stage EXCEPT ![w] = s]

\* Mutant: the note of the last call is kept.
LeaveKeepingNote(w) ==
    /\ GoTo(w, "idle")
    /\ message' = [message EXCEPT ![w] = 0]
    /\ todo' = [todo EXCEPT ![w] = {}]
    /\ UNCHANGED note

\* The goroutine is free again.
Leave(w) ==
    /\ GoTo(w, "idle")
    /\ message' = [message EXCEPT ![w] = 0]
    /\ todo' = [todo EXCEPT ![w] = {}]
    /\ note' = [note EXCEPT ![w] = None]

\* A caller asks for a note, for the first time or again with the same key.
Call(w, n) ==
    /\ stage[w] = "idle"
    /\ GoTo(w, "looking")
    /\ todo' = [todo EXCEPT ![w] = {n}]
    /\ UNCHANGED <<topic, message, note, rows, announced, faults, history>>

Announce(kind, n) == announced' = [announced EXCEPT ![kind][n] = @ + 1]

\* Mutant: an existing notification goes through its delivery again.
FindDelivering(w, n) ==
    /\ stage[w] = "looking"
    /\ n \in todo[w]
    /\ todo' = [todo EXCEPT ![w] = @ \ {n}]
    /\ note' = [note EXCEPT ![w] = n]
    /\ GoTo(w, IF status[n] = "none" THEN "inserting" ELSE "requesting")
    /\ UNCHANGED <<topic, message, rows, announced, faults, history>>

\* FindNotificationByIdempotencyKey; an existing row is the answer.
Find(w, n) ==
    /\ stage[w] = "looking"
    /\ n \in todo[w]
    /\ todo' = [todo EXCEPT ![w] = @ \ {n}]
    /\ IF status[n] = "none"
       THEN note' = [note EXCEPT ![w] = n] /\ GoTo(w, "inserting")
       ELSE UNCHANGED <<note, stage>>
    /\ UNCHANGED <<topic, message, rows, announced, faults, history>>

\* The row: failed when preferences leave no channel, pending otherwise.
Row(n, granted) ==
    /\ status[n] = "none"
    /\ status' = [status EXCEPT ![n] = IF granted THEN "pending" ELSE "failed"]
    /\ channels' = IF granted THEN channels \cup {n} ELSE channels
    /\ UNCHANGED hasRead

\* Preferences are read just before the insert and may say anything.
Insert(w, granted) ==
    /\ stage[w] = "inserting"
    /\ Row(note[w], granted)
    /\ GoTo(w, "requesting")
    /\ UNCHANGED <<topic, message, todo, note, announced, faults, history>>

\* Mutant: a key conflict is taken for a success.
ConflictIgnored(w) ==
    /\ stage[w] = "inserting"
    /\ status[note[w]] # "none"
    /\ GoTo(w, "requesting")
    /\ UNCHANGED <<topic, message, todo, note, rows, announced, faults, history>>

\* The unique index refuses the insert: another call came first.
Conflict(w) ==
    /\ stage[w] = "inserting"
    /\ status[note[w]] # "none"
    /\ failed' = failed \cup ({message[w]} \ {0})
    /\ Leave(w)
    /\ UNCHANGED <<topic, rows, announced, faults, cutShort, readEarly>>

PublishRequested(w) ==
    /\ stage[w] = "requesting"
    /\ Announce("requested", note[w])
    /\ GoTo(w, IF note[w] \in channels THEN "updating" ELSE "refusing")
    /\ UNCHANGED <<topic, message, todo, note, rows, faults, history>>

\* Whatever the status is by now.
UpdateNotificationStatus(w) ==
    /\ stage[w] = "updating"
    /\ status' = [status EXCEPT ![note[w]] = "delivered"]
    /\ GoTo(w, "delivering")
    /\ UNCHANGED <<topic, message, todo, note, hasRead, channels, announced, faults, history>>

PublishDelivered(w) ==
    /\ stage[w] = "delivering"
    /\ Announce("delivered", note[w])
    /\ GoTo(w, "looking")
    /\ note' = [note EXCEPT ![w] = None]
    /\ UNCHANGED <<topic, message, todo, rows, faults, history>>

PublishFailed(w) ==
    /\ stage[w] = "refusing"
    /\ Announce("failed", note[w])
    /\ GoTo(w, "looking")
    /\ note' = [note EXCEPT ![w] = None]
    /\ UNCHANGED <<topic, message, todo, rows, faults, history>>

\* The handler succeeded: its offset waits for the commit loop.
Succeed(w) ==
    /\ stage[w] = "looking"
    /\ todo[w] = {}
    /\ message[w] \notin Refused
    /\ marked' = IF w \in Consumers THEN [marked EXCEPT ![w] = message[w]] ELSE marked
    /\ Leave(w)
    /\ UNCHANGED <<written, committed, owner, position, moves>>
    /\ UNCHANGED <<rows, announced, faults, history>>

\* The handler refuses the message (errSkipMessage): an error that handling it
\* again would not cure, reported and then committed like a success.
Skip(c) ==
    /\ stage[c] = "looking"
    /\ todo[c] = {}
    /\ message[c] \in Refused
    /\ failed' = failed \cup {message[c]}
    /\ marked' = [marked EXCEPT ![c] = message[c]]
    /\ Leave(c)
    /\ UNCHANGED <<written, committed, owner, position, moves>>
    /\ UNCHANGED <<rows, announced, faults, cutShort, readEarly>>

\* MarkNotificationRead: any row may be read, and read again; its event is
\* published and broadcast after that and changes nothing.
MarkNotificationRead(n) ==
    /\ status[n] # "none"
    /\ status' = [status EXCEPT ![n] = "read"]
    /\ hasRead' = hasRead \cup {n}
    /\ readEarly' = IF CreatorsOf(n) = {} THEN readEarly ELSE readEarly \cup {n}
    /\ UNCHANGED <<topic, work, channels, announced, faults, failed, cutShort>>

-----------------------------------------------------------------------------
(* What goes wrong.                                                        *)

\* The kind of event a worker is publishing.
Publishing(w) ==
    CASE stage[w] = "requesting" -> {"requested"}
      [] stage[w] = "delivering" -> {"delivered"}
      [] stage[w] = "refusing" -> {"failed"}
      [] OTHER -> {}

\* A write whose error hid that the message got through is tried again.
RepeatWrite(w) ==
    /\ Fault
    /\ \E k \in Publishing(w) : Announce(k, note[w])
    /\ UNCHANGED <<topic, work, rows, history>>

\* What a step that reports an error may have done all the same.
LostReply(w) ==
    \/ UNCHANGED <<rows, announced>>
    \/ /\ stage[w] = "inserting"
       /\ \E granted \in BOOLEAN : Row(note[w], granted)
       /\ UNCHANGED announced
    \/ /\ stage[w] = "updating"
       /\ status' = [status EXCEPT ![note[w]] = "delivered"]
       /\ UNCHANGED <<hasRead, channels, announced>>
    \/ /\ \E k \in Publishing(w) : Announce(k, note[w])
       /\ UNCHANGED rows

\* The call ends where it is; an inserted row stays as it is for good.
BreakOff(w) ==
    /\ stage[w] # "idle"
    /\ Fault
    /\ LostReply(w)
    /\ cutShort' = IF stage[w] \in Creating \/ status' # status
                   THEN cutShort \cup {note[w]} ELSE cutShort
    /\ Leave(w)

\* Mutant: a handler's error is committed like a success, and not even logged.
FailSilently(w) ==
    /\ BreakOff(w)
    /\ marked' = IF w \in Consumers THEN [marked EXCEPT ![w] = message[w]] ELSE marked
    /\ UNCHANGED <<written, committed, owner, position, moves, failed, readEarly>>

\* Any other error: the consumer logs it and goes on without a commit.
Fail(w) ==
    /\ BreakOff(w)
    /\ failed' = failed \cup ({message[w]} \ {0})
    /\ UNCHANGED <<topic, readEarly>>

\* A replica dies in a handler; its marks and its ownership are gone.
Crash(c) ==
    /\ BreakOff(c)
    /\ marked' = [marked EXCEPT ![c] = 0]
    /\ owner' = IF owner = c THEN None ELSE owner
    /\ UNCHANGED <<written, committed, position, moves, failed, readEarly>>

-----------------------------------------------------------------------------
Create(w) ==
    \/ \E n \in Notes : Find(w, n)
    \/ \E granted \in BOOLEAN : Insert(w, granted)
    \/ Conflict(w)
    \/ PublishRequested(w)
    \/ UpdateNotificationStatus(w)
    \/ PublishDelivered(w)
    \/ PublishFailed(w)
    \/ Succeed(w)
    \/ w \in Consumers /\ Skip(w)

Next ==
    \/ Write
    \/ \E c \in Consumers : Join(c) \/ Rebalance(c) \/ FetchMessage(c) \/ Commit(c) \/ Crash(c)
    \/ \E w \in Callers, n \in Asked : Call(w, n)
    \/ \E w \in Workers : Create(w) \/ RepeatWrite(w) \/ Fail(w)
    \/ \E n \in Notes : MarkNotificationRead(n)

Spec == Init /\ [][Next]_vars

\* Blocking calls return, readers go on, and the group gives an ownerless
\* partition to one of its replicas.
Fairness ==
    /\ \A w \in Workers : WF_vars(Create(w))
    /\ \A c \in Consumers : WF_vars(FetchMessage(c))
    /\ WF_vars(\E c \in Consumers : Join(c))

FairSpec == Spec /\ Fairness

-----------------------------------------------------------------------------
(* Properties.                                                             *)

TypeOK ==
    /\ written \in 0..Last
    /\ committed \in 0..written
    /\ owner \in Consumers \cup {None}
    /\ position \in 0..written
    /\ marked \in [Consumers -> 0..written]
    /\ stage \in [Workers -> Stages]
    /\ message \in [Workers -> 0..written]
    /\ todo \in [Workers -> SUBSET Notes]
    /\ note \in [Workers -> Notes \cup {None}]
    /\ status \in [Notes -> Statuses]
    /\ hasRead \subseteq Notes
    /\ channels \subseteq Notes
    /\ announced \in [Kinds -> [Notes -> Nat]]
    /\ faults \in Nat /\ moves \in Nat /\ faults + moves <= MaxTroubles
    /\ failed \subseteq 1..written
    /\ cutShort \subseteq Notes
    /\ readEarly \subseteq Notes
    /\ \A w \in Workers : stage[w] \in {"idle", "looking"} <=> note[w] = None

\* Redeliveries, rebalances, retries and races of one key tell one story of a
\* notification: each event once (a failure makes at most one copy more), never
\* both outcomes, and an outcome only after the request and once the row has it.
OneStory ==
    \A n \in Notes :
        /\ \A k \in Kinds : announced[k][n] <= 1 + faults
        /\ announced["delivered"][n] > 0 =>
            /\ announced["requested"][n] > 0
            /\ announced["failed"][n] = 0
            /\ status[n] \in {"delivered", "read"}
        /\ announced["failed"][n] > 0 =>
            announced["requested"][n] > 0 /\ status[n] \in {"failed", "read"}

Settled(n) ==
    \/ announced["delivered"][n] > 0 \/ announced["failed"][n] > 0
    \/ CreatorsOf(n) # {} \/ n \in cutShort

\* What the group will not read again was dealt with: every notification a
\* committed message asks for is announced or being created, unless the handler
\* reported an error or the creating call was cut short after its insert.
CommittedWasNotified ==
    \A n \in Notes : From[n] \in 1..committed => From[n] \in failed \/ Settled(n)

\* A notification that was read says so for good, unless it was read while it
\* was still being created: then the pending update puts it back to delivered.
ReadStays == \A n \in hasRead : status[n] = "read" \/ n \in readEarly

\* Every message gets its notifications or is reported as failed, whatever
\* replicas die or take over on the way.
EventuallyNotified ==
    \A n \in Notes :
        (From[n] \in 1..written) ~> (status[n] # "none" \/ From[n] \in failed)
=============================================================================
