-------------------------------- MODULE Chat --------------------------------
(***************************************************************************)
(* chat-service around one conversation: SendMessage stores a message and  *)
(* then hands its event to the hub, which offers it to the channel of each *)
(* subscriber; a client subscribes, then reads the history page by page.   *)
(*                                                                         *)
(* The hub lives in the one process and remembers nothing.  Publishers     *)
(* share its lock, so several may be between two subscribers at once, while*)
(* subscribing and leaving wait for all of them.                           *)
(***************************************************************************)
EXTENDS Naturals, Sequences, FiniteSets

CONSTANTS
    Calls,          \* SendMessage calls, and calls that publish something else
    Viewers,        \* client streams
    Keys,           \* idempotency keys
    Clients,        \* client message ids
    Buffer,         \* events a channel holds
    PageSize,
    None            \* no message

ASSUME CallsAssumption == IsFiniteSet(Calls)
ASSUME BoundsAssumption == Buffer \in Nat /\ PageSize \in Nat \ {0}
ASSUME NoneAssumption == None \notin Calls

\* A read receipt or a typing indicator: an event that is no message.
Notice == [kind |-> "notice"]
Requests == [kind: {"send"}, key: Keys, client: Clients] \cup {Notice}

\* A message is named by the call that stored it.
VARIABLES
    req,            \* [Calls -> Requests]
    stage,          \* [Calls -> where the call is]
    made,           \* [Calls -> the message the call answers with, or None]
    left,           \* [Calls -> subscribers the hub has still to offer the event]
    messages,       \* stored messages
    sentAt,         \* [Calls -> sent_at, 0: none]
    clock,
    subscribers,    \* viewers with a channel in the hub
    queue,          \* [Viewers -> events in the channel, by their calls]
    offset,         \* [Viewers -> page token]
    complete,       \* viewers that had the last page
    known,          \* [Viewers -> history: messages shown since subscribing]
    copies,         \* [Viewers -> history: times each event was put in the channel]
    dropped,        \* [Viewers -> history: events that met a full channel]
    cutShort        \* history: messages whose event the hub did not finish

calls == <<req, stage, made, left>>
table == <<messages, sentAt, clock>>
paging == <<offset, complete>>
history == <<copies, dropped, cutShort>>
vars == <<calls, table, subscribers, queue, paging, known, history>>

Init ==
    /\ req \in [Calls -> Requests]
    /\ stage = [c \in Calls |-> "idle"]
    /\ made = [c \in Calls |-> None]
    /\ left = [c \in Calls |-> {}]
    /\ messages = {}
    /\ sentAt = [c \in Calls |-> 0]
    /\ clock = 0
    /\ subscribers = {}
    /\ queue = [v \in Viewers |-> << >>]
    /\ offset = [v \in Viewers |-> 0]
    /\ complete = {}
    /\ known = [v \in Viewers |-> {}]
    /\ copies = [v \in Viewers |-> [c \in Calls |-> 0]]
    /\ dropped = [v \in Viewers |-> {}]
    /\ cutShort = {}

GoTo(c, s) == stage' = [stage EXCEPT ![c] = s]

-----------------------------------------------------------------------------
(* SendMessage.                                                            *)

WithKey(k) == {m \in messages : req[m].key = k}

\* Mutant: the stored message is announced again.
FindAnnouncing(c) ==
    /\ stage[c] = "idle"
    /\ req[c].kind = "send"
    /\ \E m \in WithKey(req[c].key) : made' = [made EXCEPT ![c] = m]
    /\ GoTo(c, "stored")
    /\ UNCHANGED <<req, left, table, subscribers, queue, paging, known, history>>

\* GetMessageByIdempotencyKey: a stored message is the answer, unannounced.
Find(c) ==
    /\ stage[c] = "idle"
    /\ req[c].kind = "send"
    /\ \E m \in WithKey(req[c].key) : made' = [made EXCEPT ![c] = m]
    /\ GoTo(c, "done")
    /\ UNCHANGED <<req, left, table, subscribers, queue, paging, known, history>>

\* No message has the key: the new one takes its time.
Prepare(c) ==
    /\ stage[c] = "idle"
    /\ req[c].kind = "send"
    /\ WithKey(req[c].key) = {}
    /\ clock' = clock + 1
    /\ sentAt' = [sentAt EXCEPT ![c] = clock + 1]
    /\ GoTo(c, "storing")
    /\ UNCHANGED <<req, made, left, messages, subscribers, queue, paging, known, history>>

\* The two unique constraints of the table.
Unique(c) ==
    \A m \in messages : req[m].key # req[c].key /\ req[m].client # req[c].client

CreateMessage(c) ==
    /\ stage[c] = "storing"
    /\ Unique(c)
    /\ messages' = messages \cup {c}
    /\ made' = [made EXCEPT ![c] = c]
    /\ GoTo(c, "stored")
    /\ UNCHANGED <<req, left, sentAt, clock, subscribers, queue, paging, known, history>>

Conflict(c) ==
    /\ stage[c] = "storing"
    /\ ~ Unique(c)
    /\ GoTo(c, "done")
    /\ UNCHANGED <<req, made, left, table, subscribers, queue, paging, known, history>>

\* A receipt was stored, or a typing frame arrived.
Notify(c) ==
    /\ stage[c] = "idle"
    /\ req[c].kind = "notice"
    /\ GoTo(c, "stored")
    /\ UNCHANGED <<req, made, left, table, subscribers, queue, paging, known, history>>

-----------------------------------------------------------------------------
(* Hub.Publish.                                                            *)

\* The event a call publishes: its message, or the notice itself.
EventOf(c) == IF req[c].kind = "send" THEN made[c] ELSE c

Publish(c) ==
    /\ stage[c] = "stored"
    /\ left' = [left EXCEPT ![c] = subscribers]
    /\ GoTo(c, "publishing")
    /\ UNCHANGED <<req, made, table, subscribers, queue, paging, known, history>>

\* The select statement: a full channel misses the event.
Offer(c, v) ==
    /\ stage[c] = "publishing"
    /\ v \in left[c]
    /\ left' = [left EXCEPT ![c] = @ \ {v}]
    /\ IF Len(queue[v]) < Buffer
       THEN /\ queue' = [queue EXCEPT ![v] = Append(@, EventOf(c))]
            /\ copies' = [copies EXCEPT ![v][EventOf(c)] = @ + 1]
            /\ UNCHANGED dropped
       ELSE /\ dropped' = [dropped EXCEPT ![v] = @ \cup {EventOf(c)}]
            /\ UNCHANGED <<queue, copies>>
    /\ UNCHANGED <<req, stage, made, table, subscribers, paging, known, cutShort>>

Return(c) ==
    /\ stage[c] = "publishing"
    /\ left[c] = {}
    /\ GoTo(c, "done")
    /\ UNCHANGED <<req, made, left, table, subscribers, queue, paging, known, history>>

\* The caller's context ends, or a statement fails with or without effect: a
\* retry finds what is stored and does not announce it.
GiveUp(c) ==
    /\ stage[c] # "done"
    /\ stage[c] = "publishing" => left[c] # {}
    /\ \/ UNCHANGED messages
       \/ stage[c] = "storing" /\ Unique(c) /\ messages' = messages \cup {c}
    /\ cutShort' = IF c \in messages' THEN cutShort \cup {c} ELSE cutShort
    /\ left' = [left EXCEPT ![c] = {}]
    /\ GoTo(c, "done")
    /\ UNCHANGED <<req, made, sentAt, clock, subscribers, queue, paging, known, copies, dropped>>

-----------------------------------------------------------------------------
(* Streams and history.                                                    *)

\* Mutant: subscribing and leaving take no lock.
NoLock == TRUE

\* No publisher holds the hub's lock.
Unlocked == \A c \in Calls : stage[c] # "publishing"

\* A stream gets a new channel: its client starts over.
Subscribe(v) ==
    /\ v \notin subscribers
    /\ Unlocked
    /\ subscribers' = subscribers \cup {v}
    /\ offset' = [offset EXCEPT ![v] = 0]
    /\ complete' = complete \ {v}
    /\ known' = [known EXCEPT ![v] = {}]
    /\ copies' = [copies EXCEPT ![v] = [c \in Calls |-> 0]]
    /\ dropped' = [dropped EXCEPT ![v] = {}]
    /\ UNCHANGED <<calls, table, queue, cutShort>>

\* cancel: the stream ends or authenticates again; the channel goes with what
\* is in it.
Cancel(v) ==
    /\ v \in subscribers
    /\ Unlocked
    /\ subscribers' = subscribers \ {v}
    /\ queue' = [queue EXCEPT ![v] = << >>]
    /\ UNCHANGED <<calls, table, paging, known, history>>

\* The stream's loop takes an event and sends it to the client.
SendFrame(v) ==
    /\ v \in subscribers
    /\ queue[v] # << >>
    /\ known' = [known EXCEPT ![v] = @ \cup {Head(queue[v])}]
    /\ queue' = [queue EXCEPT ![v] = Tail(@)]
    /\ UNCHANGED <<calls, table, subscribers, paging, history>>

\* The place of a message in the listing, newest first.
Place(m) == Cardinality({d \in messages : sentAt[d] >= sentAt[m]})

\* Mutant: the next page starts one too far.
TokenBeyond(o) == o + PageSize + 1

NextToken(o) == o + PageSize

ListMessages(v) ==
    /\ v \in subscribers \ complete
    /\ known' = [known EXCEPT ![v] =
                    @ \cup {m \in messages : Place(m) \in (offset[v] + 1)..(offset[v] + PageSize)}]
    /\ IF \E m \in messages : Place(m) > offset[v] + PageSize
       THEN /\ offset' = [offset EXCEPT ![v] = NextToken(@)]
            /\ UNCHANGED complete
       ELSE /\ complete' = complete \cup {v}
            /\ UNCHANGED offset
    /\ UNCHANGED <<calls, table, subscribers, queue, history>>

\* The process restarts: calls and channels are gone, messages stay.
Restart ==
    /\ stage' = [c \in Calls |-> IF stage[c] = "idle" THEN "idle" ELSE "done"]
    /\ left' = [c \in Calls |-> {}]
    /\ subscribers' = {}
    /\ queue' = [v \in Viewers |-> << >>]
    /\ UNCHANGED <<req, made, table, paging, known, history>>

-----------------------------------------------------------------------------
SendMessage(c) ==
    \/ Find(c) \/ Prepare(c) \/ CreateMessage(c) \/ Conflict(c) \/ Notify(c)
    \/ Publish(c) \/ (\E v \in Viewers : Offer(c, v)) \/ Return(c) \/ GiveUp(c)

Stream(v) == Subscribe(v) \/ Cancel(v) \/ SendFrame(v) \/ ListMessages(v)

Next == (\E c \in Calls : SendMessage(c)) \/ (\E v \in Viewers : Stream(v)) \/ Restart

Spec == Init /\ [][Next]_vars
-----------------------------------------------------------------------------
(* Properties.                                                             *)

\* The last conjunct keeps a publisher from a channel that was closed.
TypeOK ==
    /\ req \in [Calls -> Requests]
    /\ stage \in [Calls -> {"idle", "storing", "stored", "publishing", "done"}]
    /\ made \in [Calls -> Calls \cup {None}]
    /\ left \in [Calls -> SUBSET Viewers]
    /\ messages \subseteq {c \in Calls : req[c].kind = "send"}
    /\ sentAt \in [Calls -> 0..clock]
    /\ clock \in Nat
    /\ subscribers \subseteq Viewers
    /\ queue \in [Viewers -> Seq(Calls)]
    /\ offset \in [Viewers -> Nat]
    /\ complete \subseteq Viewers
    /\ known \in [Viewers -> SUBSET Calls]
    /\ copies \in [Viewers -> [Calls -> Nat]]
    /\ dropped \in [Viewers -> SUBSET Calls]
    /\ cutShort \subseteq messages
    /\ \A c \in Calls : stage[c] \in {"stored", "publishing"} => EventOf(c) # None
    /\ \A c \in Calls : left[c] \subseteq subscribers

\* The event of m is on its way to v.
Underway(m, v) ==
    \/ m \in {queue[v][i] : i \in DOMAIN queue[v]}
    \/ \E c \in Calls :
        /\ made[c] = m
        /\ stage[c] = "stored" \/ (stage[c] = "publishing" /\ v \in left[c])

\* A client that subscribes and then reads the history to its last page misses
\* no message, although messages are stored, announced in another order and
\* shift the pages meanwhile, and the process restarts: each one is known or on
\* its way, unless the client's channel was full or the send was cut short.
NothingMissed ==
    \A v \in subscribers \cap complete, m \in messages :
        m \in known[v] \/ Underway(m, v) \/ m \in dropped[v] \/ m \in cutShort

\* Whatever is retried or runs at the same time, a stream is told of an event
\* once at most, of a message only once it is stored, and of one message per
\* idempotency key and client message id.
ToldOnce ==
    \A v \in subscribers :
        LET told == {m \in Calls : copies[v][m] > 0 /\ req[m].kind = "send"}
        IN  /\ \A c \in Calls : copies[v][c] <= 1
            /\ told \subseteq messages
            /\ \A m, d \in told :
                req[m].key = req[d].key \/ req[m].client = req[d].client => m = d
=============================================================================
