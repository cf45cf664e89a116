------------------------------- MODULE Outbox -------------------------------
(***************************************************************************)
(* The outbox publisher of matching-service.  Each replica runs one loop:  *)
(* claim a batch of unpublished rows (which locks them for 30 seconds and  *)
(* counts an attempt on each), write them to Kafka one by one, mark each   *)
(* published.  The first failure records itself and abandons the rest of   *)
(* the batch, whose rows stay locked until the locks run out.              *)
(*                                                                         *)
(* Every failure is counted in faults, so that properties can say what a   *)
(* number of failures may cost.                                            *)
(***************************************************************************)
EXTENDS Naturals, FiniteSets

CONSTANTS
    Events,         \* outbox rows, numbered by created_at
    Publishers,     \* service replicas
    Batch,          \* rows claimed at once
    MaxAttempts,    \* a row claimed this often is not claimed again
    MaxFaults,      \* bound on the failures considered
    None            \* no row

ASSUME EventsAssumption == Events \subseteq Nat
ASSUME BoundsAssumption == Batch \in Nat \ {0} /\ MaxAttempts \in Nat /\ MaxFaults \in Nat
ASSUME NoneAssumption == None \notin Events
ASSUME PublishersAssumption == IsFiniteSet(Publishers)

Steps == {"idle", "sending", "marking", "failing"}
Locks == {"none", "valid", "expired"}

VARIABLES
    rows,           \* committed outbox rows
    lock,           \* [Events -> Locks]: locked_until against now
    attempts,       \* column attempts
    published,      \* rows with published_at set
    kafka,          \* [Events -> Nat]: writes of the event that reached the log
    step,           \* [Publishers -> Steps]: where a flush is
    batch,          \* [Publishers -> claimed rows the flush still has to handle]
    current,        \* [Publishers -> the row being marked, or None]
    faults          \* failures so far

table == <<rows, lock, attempts, published>>
flush == <<step, batch, current>>
vars == <<table, kafka, flush, faults>>

Init ==
    /\ rows = {}
    /\ lock = [e \in Events |-> "none"]
    /\ attempts = [e \in Events |-> 0]
    /\ published = {}
    /\ kafka = [e \in Events |-> 0]
    /\ step = [p \in Publishers |-> "idle"]
    /\ batch = [p \in Publishers |-> {}]
    /\ current = [p \in Publishers |-> None]
    /\ faults = 0

Fault ==
    /\ faults < MaxFaults
    /\ faults' = faults + 1

-----------------------------------------------------------------------------
\* A business transaction commits its event; created_at was taken before the
\* commit, so rows may appear in another order than their numbers.
InsertOutbox(e) ==
    /\ e \notin rows
    /\ rows' = rows \cup {e}
    /\ UNCHANGED <<lock, attempts, published, kafka, flush, faults>>

\* Mutant: a lock that has run out still keeps its row.
NeverLocked(e) ==
    /\ e \in rows \ published
    /\ lock[e] = "none"
    /\ attempts[e] < MaxAttempts

\* Mutant: the claim does not look at locked_until.
Unfinished(e) ==
    /\ e \in rows \ published
    /\ attempts[e] < MaxAttempts

\* The WHERE clause of FetchOutbox.
Claimable(e) ==
    /\ e \in rows \ published
    /\ lock[e] # "valid"
    /\ attempts[e] < MaxAttempts

\* ORDER BY created_at LIMIT: fewer than Batch claimable rows are older.
Picked ==
    {e \in Events : Claimable(e) /\
        Cardinality({d \in Events : Claimable(d) /\ d < e}) < Batch}

\* The UPDATE ... FROM picked.
Claim ==
    /\ Picked # {}
    /\ lock' = [e \in Events |-> IF e \in Picked THEN "valid" ELSE lock[e]]
    /\ attempts' = [e \in Events |-> IF e \in Picked THEN attempts[e] + 1 ELSE attempts[e]]
    /\ UNCHANGED <<rows, published, kafka>>

FetchOutbox(p) ==
    /\ step[p] = "idle"
    /\ Claim
    /\ step' = [step EXCEPT ![p] = "sending"]
    /\ batch' = [batch EXCEPT ![p] = Picked]
    /\ UNCHANGED <<current, faults>>

\* The claim commits and its reply is lost: rows are locked for nobody.
FetchOutboxFails(p) ==
    /\ step[p] = "idle"
    /\ Claim
    /\ Fault
    /\ UNCHANGED flush

-----------------------------------------------------------------------------
GoTo(p, s, e) ==
    /\ step' = [step EXCEPT ![p] = s]
    /\ current' = [current EXCEPT ![p] = e]

\* Mutant: the batch of an aborted flush is kept.
AbandonKeepingBatch(p) ==
    /\ GoTo(p, "idle", None)
    /\ UNCHANGED batch

\* flush returns: what is left of its batch is forgotten.
Abandon(p) ==
    /\ GoTo(p, "idle", None)
    /\ batch' = [batch EXCEPT ![p] = {}]

\* RETURNING promises no order, so any row of the batch may come next.
WriteMessage(p, e) ==
    /\ step[p] = "sending"
    /\ e \in batch[p]
    /\ kafka' = [kafka EXCEPT ![e] = @ + 1]
    /\ GoTo(p, "marking", e)
    /\ UNCHANGED <<table, batch, faults>>

\* Mutant: the write error is dropped.
WriteErrorIgnored(p, e) ==
    /\ step[p] = "sending"
    /\ e \in batch[p]
    /\ Fault
    /\ kafka' \in {kafka, [kafka EXCEPT ![e] = @ + 1]}
    /\ GoTo(p, "marking", e)
    /\ UNCHANGED <<table, batch>>

\* An error says nothing about whether the message reached the log.
WriteMessageFails(p, e) ==
    /\ step[p] = "sending"
    /\ e \in batch[p]
    /\ Fault
    /\ kafka' \in {kafka, [kafka EXCEPT ![e] = @ + 1]}
    /\ GoTo(p, "failing", e)
    /\ UNCHANGED <<table, batch>>

\* Mutant: the whole batch is marked after its first write.
MarkBatchPublished(p) ==
    /\ step[p] = "marking"
    /\ published' = published \cup batch[p]
    /\ lock' = [lock EXCEPT ![current[p]] = "none"]
    /\ Abandon(p)
    /\ UNCHANGED <<rows, attempts, kafka, faults>>

MarkOutboxPublished(p) ==
    /\ step[p] = "marking"
    /\ published' = published \cup {current[p]}
    /\ lock' = [lock EXCEPT ![current[p]] = "none"]
    /\ batch' = [batch EXCEPT ![p] = @ \ {current[p]}]
    /\ GoTo(p, IF batch'[p] = {} THEN "idle" ELSE "sending", None)
    /\ UNCHANGED <<rows, attempts, kafka, faults>>

\* The mark is lost, or only its reply is.
MarkOutboxPublishedFails(p) ==
    /\ step[p] = "marking"
    /\ Fault
    /\ \/ UNCHANGED <<published, lock>>
       \/ /\ published' = published \cup {current[p]}
          /\ lock' = [lock EXCEPT ![current[p]] = "none"]
    /\ Abandon(p)
    /\ UNCHANGED <<rows, attempts, kafka>>

\* Only the failed row is unlocked.
MarkOutboxFailed(p) ==
    /\ step[p] = "failing"
    /\ lock' = [lock EXCEPT ![current[p]] = "none"]
    /\ Abandon(p)
    /\ UNCHANGED <<rows, attempts, published, kafka, faults>>

MarkOutboxFailedFails(p) ==
    /\ step[p] = "failing"
    /\ Fault
    /\ Abandon(p)
    /\ UNCHANGED <<table, kafka>>

\* A replica stops in the middle of a flush and restarts.
Crash(p) ==
    /\ step[p] # "idle"
    /\ Fault
    /\ Abandon(p)
    /\ UNCHANGED <<table, kafka>>

Held(e) == \E p \in Publishers : e \in batch[p]

\* Thirty seconds pass.  For a row some flush still holds this counts as a
\* failure: the publisher was too slow.
LockExpires(e) ==
    /\ lock[e] = "valid"
    /\ lock' = [lock EXCEPT ![e] = "expired"]
    /\ IF Held(e) THEN Fault ELSE UNCHANGED faults
    /\ UNCHANGED <<rows, attempts, published, kafka, flush>>

-----------------------------------------------------------------------------
\* A publisher's loop when nothing fails.
Run(p) ==
    \/ FetchOutbox(p)
    \/ \E e \in Events : WriteMessage(p, e)
    \/ MarkOutboxPublished(p)
    \/ MarkOutboxFailed(p)

Failure(p) ==
    \/ FetchOutboxFails(p)
    \/ \E e \in Events : WriteMessageFails(p, e)
    \/ MarkOutboxPublishedFails(p)
    \/ MarkOutboxFailedFails(p)
    \/ Crash(p)

Next ==
    \/ \E p \in Publishers : Run(p) \/ Failure(p)
    \/ \E e \in Events : InsertOutbox(e) \/ LockExpires(e)

Spec == Init /\ [][Next]_vars

\* Each loop goes on (ticker and blocking calls that return), and time passes.
Fairness ==
    /\ \A p \in Publishers : WF_vars(Run(p))
    /\ \A e \in Events : WF_vars(LockExpires(e) /\ ~ Held(e))

FairSpec == Spec /\ Fairness

-----------------------------------------------------------------------------
(* Properties.                                                             *)

TypeOK ==
    /\ rows \subseteq Events
    /\ lock \in [Events -> Locks]
    /\ attempts \in [Events -> 0..MaxAttempts]
    /\ published \subseteq rows
    /\ kafka \in [Events -> Nat]
    /\ step \in [Publishers -> Steps]
    /\ batch \in [Publishers -> SUBSET rows]
    /\ current \in [Publishers -> Events \cup {None}]
    /\ faults \in 0..MaxFaults
    /\ \A p \in Publishers :
        /\ step[p] \in {"marking", "failing"} <=> current[p] # None
        /\ current[p] # None => current[p] \in batch[p]
        /\ step[p] = "idle" <=> batch[p] = {}

\* A row says published only when its event is in Kafka, whoever marked it and
\* whatever happened to the lock in between.
PublishedWasDelivered == \A e \in published : kafka[e] > 0

\* A duplicate has a cause: each failure (a lost write or mark, a crash, a lock
\* that ran out under its holder) makes at most one more copy of an event, so
\* while nothing fails every event is written exactly once by all replicas.
CopiesAreCaused == \A e \in Events : kafka[e] <= 1 + faults

\* The loop implements at-least-once delivery, including that an event is
\* eventually delivered, as long as fewer than MaxAttempts things fail.
Delivery ==
    INSTANCE EventDelivery
        WITH accepted <- rows,
             delivered <- {e \in Events : kafka[e] > 0},
             confirmed <- published

ImplementsDelivery == Delivery!Spec
EventuallyDelivered == Delivery!Eventually
=============================================================================
