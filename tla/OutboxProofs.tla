---------------------------- MODULE OutboxProofs ----------------------------
(***************************************************************************)
(* Theorems about Outbox for any number of events, replicas, batch sizes,  *)
(* attempts and failures: rows marked published are in Kafka, and the loop *)
(* implements the safety part of EventDelivery.                            *)
(***************************************************************************)
EXTENDS Outbox, FiniteSetTheorems, TLAPS

\* A flush marks only what it has written.
MarkingWasDelivered ==
    \A p \in Publishers : step[p] = "marking" => kafka[current[p]] > 0

\* Nothing is in Kafka that did not come from a row.
DeliveredIsRow == \A e \in Events : kafka[e] > 0 => e \in rows

IInv ==
    /\ TypeOK
    /\ PublishedWasDelivered
    /\ MarkingWasDelivered
    /\ DeliveredIsRow

USE DEF Steps, Locks, table, flush

-----------------------------------------------------------------------------
LEMMA InitIInv == Init => IInv
  BY NoneAssumption, BoundsAssumption
  DEF Init, IInv, TypeOK, PublishedWasDelivered, MarkingWasDelivered, DeliveredIsRow

\* A failure stays within the bound.
LEMMA FaultBounded == ASSUME TypeOK, Fault PROVE faults' \in 0..MaxFaults
  BY BoundsAssumption DEF TypeOK, Fault

\* What a claim does to the table.
LEMMA ClaimEffect ==
    ASSUME TypeOK, Claim
    PROVE  /\ lock' \in [Events -> Locks]
           /\ attempts' \in [Events -> 0..MaxAttempts]
           /\ Picked \subseteq rows
           /\ Picked # {}
           /\ UNCHANGED <<rows, published, kafka>>
  <1>1. \A e \in Picked : e \in rows /\ attempts[e] < MaxAttempts
    BY DEF Picked, Claimable
  <1>2. attempts' \in [Events -> 0..MaxAttempts]
    BY <1>1, BoundsAssumption DEF Claim, TypeOK
  <1>3. QED BY <1>1, <1>2 DEF Claim, TypeOK

\* A flush that gives up holds nothing.
LEMMA AbandonEffect ==
    ASSUME TypeOK, NEW p \in Publishers, Abandon(p), rows' = rows
    PROVE  /\ step' \in [Publishers -> Steps]
           /\ batch' \in [Publishers -> SUBSET rows']
           /\ current' \in [Publishers -> Events \cup {None}]
           /\ step'[p] = "idle" /\ batch'[p] = {} /\ current'[p] = None
           /\ \A q \in Publishers : q # p =>
                step'[q] = step[q] /\ batch'[q] = batch[q] /\ current'[q] = current[q]
  BY DEF Abandon, GoTo, TypeOK

LEMMA NextIInv == IInv /\ [Next]_vars => IInv'
  <1>. SUFFICES ASSUME IInv, [Next]_vars PROVE IInv'
    OBVIOUS
  <1>. USE DEF IInv
  <1>1. ASSUME NEW p \in Publishers, FetchOutbox(p) \/ FetchOutboxFails(p) PROVE IInv'
    <2>1. UNCHANGED <<rows, published, kafka, current>>
      BY <1>1, ClaimEffect DEF FetchOutbox, FetchOutboxFails
    <2>2. CASE FetchOutbox(p)
      <3>1. TypeOK'
        BY <2>1, <2>2, ClaimEffect DEF FetchOutbox, TypeOK
      <3>2. QED BY <2>1, <2>2, <3>1 DEF FetchOutbox, PublishedWasDelivered,
                                        MarkingWasDelivered, DeliveredIsRow, TypeOK
    <2>3. CASE FetchOutboxFails(p)
      <3>1. TypeOK'
        BY <2>1, <2>3, ClaimEffect, FaultBounded DEF FetchOutboxFails, TypeOK
      <3>2. QED BY <2>1, <2>3, <3>1 DEF FetchOutboxFails, PublishedWasDelivered,
                                        MarkingWasDelivered, DeliveredIsRow
    <2>4. QED BY <1>1, <2>2, <2>3
  <1>2. ASSUME NEW p \in Publishers, NEW e \in Events,
               WriteMessage(p, e) \/ WriteMessageFails(p, e)
        PROVE  IInv'
    <2>1. e \in rows /\ e # None
      BY <1>2, NoneAssumption DEF WriteMessage, WriteMessageFails, TypeOK
    <2>2. /\ UNCHANGED <<rows, lock, attempts, published, batch>>
          /\ kafka' \in [Events -> Nat]
          /\ \A d \in Events : kafka'[d] >= kafka[d]
          /\ \A d \in Events : d # e => kafka'[d] = kafka[d]
      BY <1>2 DEF WriteMessage, WriteMessageFails, TypeOK
    <2>3. /\ step'[p] \in {"marking", "failing"}
          /\ current'[p] = e
          /\ step'[p] = "marking" => kafka'[e] > 0
          /\ e \in batch[p]
          /\ step' \in [Publishers -> Steps]
          /\ current' \in [Publishers -> Events \cup {None}]
          /\ \A q \in Publishers : q # p => step'[q] = step[q] /\ current'[q] = current[q]
      BY <1>2 DEF WriteMessage, WriteMessageFails, GoTo, TypeOK
    <2>4. faults' \in 0..MaxFaults
      BY <1>2, FaultBounded DEF WriteMessage, WriteMessageFails, TypeOK
    <2>5. TypeOK'
      BY <2>1, <2>2, <2>3, <2>4 DEF TypeOK
    <2>6. PublishedWasDelivered' /\ DeliveredIsRow'
      BY <2>1, <2>2 DEF PublishedWasDelivered, DeliveredIsRow, TypeOK
    <2>7. MarkingWasDelivered'
      <3>. SUFFICES ASSUME NEW q \in Publishers, step'[q] = "marking"
                    PROVE  kafka'[current'[q]] > 0
        BY DEF MarkingWasDelivered
      <3>1. CASE q = p
        BY <2>3, <3>1
      <3>2. CASE q # p
        <4>1. step[q] = "marking" /\ current'[q] = current[q]
          BY <2>3, <3>2
        <4>2. current[q] \in Events /\ kafka[current[q]] > 0
          BY <4>1 DEF TypeOK, MarkingWasDelivered
        <4>3. QED BY <2>2, <4>1, <4>2 DEF TypeOK
      <3>3. QED BY <3>1, <3>2
    <2>8. QED BY <2>5, <2>6, <2>7
  <1>3. ASSUME NEW p \in Publishers, MarkOutboxPublished(p) PROVE IInv'
    <2>1. current[p] \in batch[p] /\ current[p] \in rows /\ kafka[current[p]] > 0
      BY <1>3 DEF MarkOutboxPublished, TypeOK, MarkingWasDelivered
    <2>2. /\ step' \in [Publishers -> Steps]
          /\ current' \in [Publishers -> Events \cup {None}]
          /\ batch' \in [Publishers -> SUBSET rows]
          /\ current'[p] = None
          /\ step'[p] = IF batch'[p] = {} THEN "idle" ELSE "sending"
          /\ \A q \in Publishers : q # p =>
               step'[q] = step[q] /\ current'[q] = current[q] /\ batch'[q] = batch[q]
      BY <1>3 DEF MarkOutboxPublished, GoTo, TypeOK
    <2>3. /\ UNCHANGED <<rows, attempts, kafka, faults>>
          /\ published' = published \cup {current[p]}
          /\ lock' \in [Events -> Locks]
      BY <1>3 DEF MarkOutboxPublished, TypeOK
    <2>4. TypeOK'
      BY <2>1, <2>2, <2>3, NoneAssumption DEF TypeOK
    <2>5. QED BY <2>1, <2>2, <2>3, <2>4 DEF PublishedWasDelivered, MarkingWasDelivered,
                                            DeliveredIsRow
  <1>4. ASSUME NEW p \in Publishers,
               \/ MarkOutboxPublishedFails(p) \/ MarkOutboxFailed(p)
               \/ MarkOutboxFailedFails(p) \/ Crash(p)
        PROVE  IInv'
    <2>1. Abandon(p) /\ UNCHANGED <<rows, attempts, kafka>>
      BY <1>4 DEF MarkOutboxPublishedFails, MarkOutboxFailed, MarkOutboxFailedFails, Crash
    <2>2. faults' \in 0..MaxFaults
      BY <1>4, FaultBounded
      DEF MarkOutboxPublishedFails, MarkOutboxFailed, MarkOutboxFailedFails, Crash, TypeOK
    <2>3. lock' \in [Events -> Locks]
      BY <1>4
      DEF MarkOutboxPublishedFails, MarkOutboxFailed, MarkOutboxFailedFails, Crash, TypeOK
    <2>4. \/ published' = published
          \/ published' = published \cup {current[p]} /\ step[p] = "marking"
      BY <1>4
      DEF MarkOutboxPublishedFails, MarkOutboxFailed, MarkOutboxFailedFails, Crash
    <2>5. step[p] = "marking" => current[p] \in rows /\ kafka[current[p]] > 0
      BY DEF TypeOK, MarkingWasDelivered
    <2>6. TypeOK'
      <3>1. published' \subseteq rows'
        BY <2>1, <2>4, <2>5 DEF TypeOK
      <3>2. QED BY <2>1, <2>2, <2>3, <3>1, AbandonEffect DEF TypeOK
    <2>7. PublishedWasDelivered' /\ DeliveredIsRow'
      BY <2>1, <2>4, <2>5 DEF PublishedWasDelivered, DeliveredIsRow
    <2>8. MarkingWasDelivered'
      BY <2>1, AbandonEffect DEF MarkingWasDelivered
    <2>9. QED BY <2>6, <2>7, <2>8
  <1>5. ASSUME NEW e \in Events, InsertOutbox(e) PROVE IInv'
    BY <1>5 DEF InsertOutbox, TypeOK, PublishedWasDelivered, MarkingWasDelivered, DeliveredIsRow
  <1>6. ASSUME NEW e \in Events, LockExpires(e) PROVE IInv'
    <2>1. faults' \in 0..MaxFaults
      BY <1>6, FaultBounded DEF LockExpires, TypeOK
    <2>2. UNCHANGED <<rows, attempts, published, kafka, flush>> /\ lock' \in [Events -> Locks]
      BY <1>6 DEF LockExpires, TypeOK
    <2>3. QED BY <2>1, <2>2 DEF TypeOK, PublishedWasDelivered, MarkingWasDelivered, DeliveredIsRow
  <1>7. CASE UNCHANGED vars
    BY <1>7 DEF vars, TypeOK, PublishedWasDelivered, MarkingWasDelivered, DeliveredIsRow
  <1>8. QED BY <1>1, <1>2, <1>3, <1>4, <1>5, <1>6, <1>7 DEF Next, Run, Failure

LEMMA InductiveInvariant == Spec => []IInv
  BY InitIInv, NextIInv, PTL DEF Spec

-----------------------------------------------------------------------------
\* Type correctness of the publisher loop.
THEOREM TypeCorrect == Spec => []TypeOK
  <1>1. IInv => TypeOK BY DEF IInv
  <1>2. QED BY <1>1, InductiveInvariant, PTL

\* A row that says published is in Kafka, whichever replicas shared its claim.
THEOREM SpecPublishedWasDelivered == Spec => []PublishedWasDelivered
  <1>1. IInv => PublishedWasDelivered BY DEF IInv
  <1>2. QED BY <1>1, InductiveInvariant, PTL

\* Every step of the loop is a step of EventDelivery or changes nothing there.
LEMMA StepRefines == IInv /\ IInv' /\ [Next]_vars => [Delivery!Next]_(Delivery!vars)
  <1>. SUFFICES ASSUME IInv, IInv', [Next]_vars PROVE [Delivery!Next]_(Delivery!vars)
    OBVIOUS
  <1>. USE DEF IInv, TypeOK, Delivery!Next, Delivery!vars, Delivery!Accept, Delivery!Deliver,
               Delivery!Confirm
  <1>1. ASSUME NEW e \in Events, InsertOutbox(e) PROVE Delivery!Accept(e)
    BY <1>1 DEF InsertOutbox
  <1>2. ASSUME NEW p \in Publishers, NEW e \in Events,
               WriteMessage(p, e) \/ WriteMessageFails(p, e)
        PROVE  Delivery!Deliver(e) \/ UNCHANGED Delivery!vars
    <2>1. UNCHANGED <<rows, published>> /\ e \in rows
      BY <1>2 DEF WriteMessage, WriteMessageFails
    <2>2. CASE kafka' = kafka
      BY <2>1, <2>2
    <2>3. CASE kafka' = [kafka EXCEPT ![e] = @ + 1]
      <3>1. {d \in Events : kafka'[d] > 0} = {d \in Events : kafka[d] > 0} \cup {e}
        <4>1. kafka'[e] > 0 /\ \A d \in Events : d # e => kafka'[d] = kafka[d]
          BY <2>3
        <4>2. QED BY <4>1
      <3>2. QED BY <2>1, <3>1
    <2>4. QED BY <1>2, <2>2, <2>3 DEF WriteMessage, WriteMessageFails
  <1>3. ASSUME NEW p \in Publishers, MarkOutboxPublished(p) \/ MarkOutboxPublishedFails(p)
        PROVE  (\E e \in Events : Delivery!Confirm(e)) \/ UNCHANGED Delivery!vars
    <2>1. current[p] \in Events /\ kafka[current[p]] > 0
      BY <1>3 DEF MarkOutboxPublished, MarkOutboxPublishedFails, MarkingWasDelivered
    <2>2. UNCHANGED <<rows, kafka>>
      BY <1>3 DEF MarkOutboxPublished, MarkOutboxPublishedFails
    <2>3. published' = published \/ published' = published \cup {current[p]}
      BY <1>3 DEF MarkOutboxPublished, MarkOutboxPublishedFails
    <2>4. QED BY <2>1, <2>2, <2>3
  <1>4. ASSUME NEW p \in Publishers,
               \/ FetchOutbox(p) \/ FetchOutboxFails(p) \/ MarkOutboxFailed(p)
               \/ MarkOutboxFailedFails(p) \/ Crash(p)
        PROVE  UNCHANGED Delivery!vars
    BY <1>4 DEF FetchOutbox, FetchOutboxFails, Claim, MarkOutboxFailed, MarkOutboxFailedFails,
                Crash
  <1>5. ASSUME NEW e \in Events, LockExpires(e) PROVE UNCHANGED Delivery!vars
    BY <1>5 DEF LockExpires
  <1>6. CASE UNCHANGED vars
    BY <1>6 DEF vars
  <1>7. QED BY <1>1, <1>2, <1>3, <1>4, <1>5, <1>6 DEF Next, Run, Failure

\* The loop implements at-least-once delivery (its safety part; that delivery
\* happens at all is a liveness property, which TLC checks).
THEOREM SpecImplementsDelivery == Spec => ImplementsDelivery
  <1>1. Init => Delivery!Init
    BY DEF Init, Delivery!Init
  <1>2. QED BY <1>1, StepRefines, InductiveInvariant, PTL
        DEF Spec, ImplementsDelivery, Delivery!Spec
-----------------------------------------------------------------------------
(* Copies.                                                                 *)

\* Flushes that may still bring about a write of the event without a failure:
\* by writing it, or by unlocking it after a failed write.
Holders(e) == {p \in Publishers : e \in batch[p] /\ (step[p] = "marking" => current[p] # e)}

\* The next claim may take the event, or may once its lock has run out.
Free(e) == e \notin published /\ (lock[e] # "valid" \/ ~ Held(e))

\* Copies written and copies to come never exceed one and the failures so far.
CopiesBounded ==
    \A e \in Events :
        kafka[e] + Cardinality(Holders(e)) <= faults + (IF Free(e) THEN 0 ELSE 1)

LEMMA HoldersFinite ==
    ASSUME NEW S, S \subseteq Publishers
    PROVE  IsFiniteSet(S) /\ Cardinality(S) \in Nat
  BY PublishersAssumption, FS_Subset, FS_CardinalityType

\* A flush that takes up an event, and one that lets it go.
LEMMA HoldersGrow ==
    ASSUME NEW S, NEW T, NEW p \in Publishers, S \subseteq Publishers, T \subseteq S \cup {p}
    PROVE  Cardinality(T) <= Cardinality(S) + 1
  <1>1. IsFiniteSet(S) /\ Cardinality(S) \in Nat /\ S \cup {p} \subseteq Publishers
    BY HoldersFinite
  <1>2. IsFiniteSet(S \cup {p}) /\ Cardinality(S \cup {p}) \in Nat
    BY <1>1, HoldersFinite
  <1>3. Cardinality(S \cup {p}) = Cardinality(S) \/ Cardinality(S \cup {p}) = Cardinality(S) + 1
    BY <1>1, FS_AddElement
  <1>4. Cardinality(T) <= Cardinality(S \cup {p})
    BY <1>2, FS_Subset
  <1>5. Cardinality(T) \in Nat
    BY <1>1, HoldersFinite
  <1>6. QED BY <1>1, <1>2, <1>3, <1>4, <1>5

LEMMA HoldersShrink ==
    ASSUME NEW S, NEW T, NEW p \in S, S \subseteq Publishers, T \subseteq S \ {p}
    PROVE  Cardinality(T) + 1 <= Cardinality(S)
  <1>1. IsFiniteSet(S) /\ Cardinality(S) \in Nat /\ S \ {p} \subseteq Publishers
    BY HoldersFinite
  <1>2. IsFiniteSet(S \ {p}) /\ Cardinality(S \ {p}) = Cardinality(S) - 1
    BY <1>1, FS_RemoveElement
  <1>3. Cardinality(T) <= Cardinality(S \ {p}) /\ Cardinality(T) \in Nat
    BY <1>1, <1>2, FS_Subset, HoldersFinite
  <1>4. QED BY <1>1, <1>2, <1>3

LEMMA HoldersKept ==
    ASSUME NEW S, NEW T, S \subseteq Publishers, T \subseteq S
    PROVE  Cardinality(T) <= Cardinality(S) /\ Cardinality(T) \in Nat /\ Cardinality(S) \in Nat
  BY HoldersFinite, FS_Subset

\* One event: a step that frees no new claim and makes no room, one failure,
\* and one more copy.
LEMMA EventKept ==
    ASSUME IInv, CopiesBounded, NEW e \in Events, UNCHANGED faults,
           kafka'[e] = kafka[e], Holders(e)' \subseteq Holders(e), Free(e)' => Free(e)
    PROVE  kafka'[e] + Cardinality(Holders(e)') <= faults' + (IF Free(e)' THEN 0 ELSE 1)
  <1>1. /\ kafka[e] \in Nat /\ faults \in Nat
        /\ kafka[e] + Cardinality(Holders(e)) <= faults + (IF Free(e) THEN 0 ELSE 1)
    BY BoundsAssumption DEF IInv, TypeOK, CopiesBounded
  <1>2. /\ Cardinality(Holders(e)') <= Cardinality(Holders(e))
        /\ Cardinality(Holders(e)') \in Nat /\ Cardinality(Holders(e)) \in Nat
    BY HoldersKept DEF Holders
  <1>3. QED BY <1>1, <1>2

LEMMA EventFault ==
    ASSUME IInv, CopiesBounded, NEW e \in Events, faults' = faults + 1,
           \/ kafka'[e] = kafka[e]
           \/ kafka'[e] = kafka[e] + 1 /\ (Free(e)' => Free(e)),
           Holders(e)' \subseteq Holders(e)
    PROVE  kafka'[e] + Cardinality(Holders(e)') <= faults' + (IF Free(e)' THEN 0 ELSE 1)
  <1>1. /\ kafka[e] \in Nat /\ faults \in Nat
        /\ kafka[e] + Cardinality(Holders(e)) <= faults + (IF Free(e) THEN 0 ELSE 1)
    BY BoundsAssumption DEF IInv, TypeOK, CopiesBounded
  <1>2. /\ Cardinality(Holders(e)') <= Cardinality(Holders(e))
        /\ Cardinality(Holders(e)') \in Nat /\ Cardinality(Holders(e)) \in Nat
    BY HoldersKept DEF Holders
  <1>3. QED BY <1>1, <1>2

\* A flush lets the event go: it has written it, or the event becomes free.
LEMMA EventLetGo ==
    ASSUME IInv, CopiesBounded, NEW e \in Events, UNCHANGED faults, NEW p \in Holders(e),
           Holders(e)' \subseteq Holders(e) \ {p},
           \/ kafka'[e] = kafka[e]
           \/ kafka'[e] = kafka[e] + 1 /\ (Free(e)' => Free(e))
    PROVE  kafka'[e] + Cardinality(Holders(e)') <= faults' + (IF Free(e)' THEN 0 ELSE 1)
  <1>1. /\ kafka[e] \in Nat /\ faults \in Nat
        /\ kafka[e] + Cardinality(Holders(e)) <= faults + (IF Free(e) THEN 0 ELSE 1)
    BY BoundsAssumption DEF IInv, TypeOK, CopiesBounded
  <1>2. Cardinality(Holders(e)') + 1 <= Cardinality(Holders(e))
    BY HoldersShrink DEF Holders
  <1>3. Cardinality(Holders(e)') \in Nat /\ Cardinality(Holders(e)) \in Nat
    BY HoldersKept DEF Holders
  <1>4. QED BY <1>1, <1>2, <1>3

LEMMA CopiesStep == IInv /\ CopiesBounded /\ [Next]_vars => CopiesBounded'
  <1>. SUFFICES ASSUME IInv, CopiesBounded, [Next]_vars, NEW e \in Events
                PROVE  kafka'[e] + Cardinality(Holders(e)') <= faults' + (IF Free(e)' THEN 0 ELSE 1)
    BY DEF CopiesBounded
  <1>. DEFINE Goal == kafka'[e] + Cardinality(Holders(e)') <= faults' + (IF Free(e)' THEN 0 ELSE 1)
  <1>1. ASSUME NEW p \in Publishers, FetchOutbox(p) PROVE Goal
    <2>1. /\ batch[p] = {} /\ batch' = [batch EXCEPT ![p] = Picked] /\ p \notin Holders(e)
          /\ step' = [step EXCEPT ![p] = "sending"]
          /\ UNCHANGED <<published, kafka, current, faults>>
      BY <1>1 DEF FetchOutbox, Claim, IInv, TypeOK, Holders
    <2>2. Holders(e)' \subseteq Holders(e) \cup {p} /\ (e \notin Picked => Holders(e)' \subseteq Holders(e))
      BY <2>1 DEF Holders, IInv, TypeOK
    <2>3. CASE e \in Picked
      <3>1. Free(e) /\ ~ Free(e)'
        BY <1>1, <2>1, <2>3 DEF Picked, Claimable, Free, Held, FetchOutbox, Claim, IInv, TypeOK
      <3>2. Cardinality(Holders(e)') <= Cardinality(Holders(e)) + 1
        BY <2>2, HoldersGrow DEF Holders
      <3>3. Cardinality(Holders(e)') \in Nat /\ Cardinality(Holders(e)) \in Nat
        <4>1. Holders(e) \subseteq Publishers /\ Holders(e)' \subseteq Publishers
          BY DEF Holders
        <4>2. QED BY <4>1, HoldersFinite
      <3>4. kafka[e] \in Nat /\ faults \in Nat /\ kafka[e] + Cardinality(Holders(e)) <= faults
        BY <3>1, BoundsAssumption DEF IInv, TypeOK, CopiesBounded
      <3>5. kafka'[e] = kafka[e] /\ faults' = faults
        BY <2>1
      <3>6. QED BY <3>1, <3>2, <3>3, <3>4, <3>5
    <2>4. CASE e \notin Picked
      <3>1. Free(e)' => Free(e)
        BY <1>1, <2>1, <2>4 DEF Free, Held, FetchOutbox, Claim, IInv, TypeOK
      <3>2. QED BY <2>1, <2>2, <2>4, <3>1, EventKept
    <2>5. QED BY <2>3, <2>4
  <1>2. ASSUME NEW p \in Publishers, FetchOutboxFails(p) PROVE Goal
    BY <1>2, EventFault DEF FetchOutboxFails, Claim, Fault, Holders
  <1>3. ASSUME NEW p \in Publishers, NEW d \in Events, WriteMessage(p, d) PROVE Goal
    <2>1. /\ step[p] = "sending" /\ d \in batch[p] /\ kafka' = [kafka EXCEPT ![d] = @ + 1]
          /\ step' = [step EXCEPT ![p] = "marking"] /\ current' = [current EXCEPT ![p] = d]
          /\ UNCHANGED <<lock, published, batch, faults>>
      BY <1>3 DEF WriteMessage, GoTo
    <2>2. Free(e)' <=> Free(e)
      BY <2>1 DEF Free, Held
    <2>3. CASE e = d
      <3>1. p \in Holders(e) /\ Holders(e)' \subseteq Holders(e) \ {p}
        BY <2>1, <2>3 DEF Holders, IInv, TypeOK
      <3>2. kafka'[e] = kafka[e] + 1
        BY <2>1, <2>3 DEF IInv, TypeOK
      <3>3. QED BY <2>1, <2>2, <3>1, <3>2, EventLetGo
    <2>4. CASE e # d
      <3>1. Holders(e)' \subseteq Holders(e) /\ kafka'[e] = kafka[e]
        BY <2>1, <2>4 DEF Holders, IInv, TypeOK
      <3>2. QED BY <2>1, <2>2, <3>1, EventKept
    <2>5. QED BY <2>3, <2>4
  <1>4. ASSUME NEW p \in Publishers, NEW d \in Events, WriteMessageFails(p, d) PROVE Goal
    <2>1. /\ step[p] = "sending" /\ d \in batch[p]
          /\ kafka' = kafka \/ kafka' = [kafka EXCEPT ![d] = @ + 1]
          /\ step' = [step EXCEPT ![p] = "failing"] /\ current' = [current EXCEPT ![p] = d]
          /\ UNCHANGED <<lock, published, batch>> /\ faults' = faults + 1
      BY <1>4 DEF WriteMessageFails, GoTo, Fault
    <2>2. Free(e)' <=> Free(e)
      BY <2>1 DEF Free, Held
    <2>3. Holders(e)' \subseteq Holders(e)
      BY <2>1 DEF Holders, IInv, TypeOK
    <2>4. kafka'[e] = kafka[e] \/ kafka'[e] = kafka[e] + 1
      BY <2>1 DEF IInv, TypeOK
    <2>5. QED BY <2>1, <2>2, <2>3, <2>4, EventFault
  <1>5. ASSUME NEW p \in Publishers, MarkOutboxPublished(p) PROVE Goal
    <2>1. /\ step[p] = "marking" /\ current[p] \in batch[p] /\ current[p] \in Events
          /\ published' = published \cup {current[p]}
          /\ lock' = [lock EXCEPT ![current[p]] = "none"]
          /\ batch' = [batch EXCEPT ![p] = @ \ {current[p]}]
          /\ step' = [step EXCEPT ![p] = IF batch'[p] = {} THEN "idle" ELSE "sending"]
          /\ current' = [current EXCEPT ![p] = None]
          /\ UNCHANGED <<kafka, faults>>
      BY <1>5 DEF MarkOutboxPublished, GoTo, IInv, TypeOK
    <2>2. Free(e)' => Free(e)
      BY <2>1 DEF Free, Held, IInv, TypeOK
    <2>3. Holders(e)' \subseteq Holders(e)
      BY <2>1 DEF Holders, IInv, TypeOK
    <2>4. QED BY <2>1, <2>2, <2>3, EventKept
  <1>6. ASSUME NEW p \in Publishers, MarkOutboxPublishedFails(p) \/ MarkOutboxFailedFails(p) \/ Crash(p)
        PROVE  Goal
    <2>1. Abandon(p) /\ faults' = faults + 1 /\ kafka' = kafka
      BY <1>6 DEF MarkOutboxPublishedFails, MarkOutboxFailedFails, Crash, Fault
    <2>2. Holders(e)' \subseteq Holders(e)
      BY <2>1 DEF Abandon, GoTo, Holders, IInv, TypeOK
    <2>3. QED BY <2>1, <2>2, EventFault
  <1>7. ASSUME NEW p \in Publishers, MarkOutboxFailed(p) PROVE Goal
    <2>1. /\ step[p] = "failing" /\ current[p] \in batch[p]
          /\ lock' = [lock EXCEPT ![current[p]] = "none"]
          /\ batch' = [batch EXCEPT ![p] = {}] /\ step' = [step EXCEPT ![p] = "idle"]
          /\ current' = [current EXCEPT ![p] = None]
          /\ UNCHANGED <<published, kafka, faults>>
      BY <1>7 DEF MarkOutboxFailed, Abandon, GoTo, IInv, TypeOK
    <2>2. CASE e \in batch[p]
      <3>1. p \in Holders(e) /\ Holders(e)' \subseteq Holders(e) \ {p}
        BY <2>1, <2>2 DEF Holders, IInv, TypeOK
      <3>2. QED BY <2>1, <3>1, EventLetGo
    <2>3. CASE e \notin batch[p]
      <3>1. Holders(e)' \subseteq Holders(e) /\ (Free(e)' => Free(e))
        BY <2>1, <2>3 DEF Holders, Free, Held, IInv, TypeOK
      <3>2. QED BY <2>1, <3>1, EventKept
    <2>4. QED BY <2>2, <2>3
  <1>8. ASSUME NEW d \in Events, InsertOutbox(d) PROVE Goal
    BY <1>8, EventKept DEF InsertOutbox, Free, Held, Holders
  <1>9. ASSUME NEW d \in Events, LockExpires(d) PROVE Goal
    <2>1. UNCHANGED <<published, kafka, flush>> /\ lock' = [lock EXCEPT ![d] = "expired"]
      BY <1>9 DEF LockExpires
    <2>2. Holders(e)' = Holders(e) /\ kafka'[e] = kafka[e]
      BY <2>1 DEF Holders
    <2>3. CASE Held(d)
      BY <1>9, <2>2, <2>3, EventFault DEF LockExpires, Fault
    <2>4. CASE ~ Held(d)
      <3>1. Free(e)' => Free(e)
        BY <2>1, <2>4 DEF Free, Held, IInv, TypeOK
      <3>2. QED BY <1>9, <2>2, <2>4, <3>1, EventKept DEF LockExpires
    <2>5. QED BY <2>3, <2>4
  <1>10. CASE UNCHANGED vars
    BY <1>10, EventKept DEF vars, Free, Held, Holders
  <1>11. QED BY <1>1, <1>2, <1>3, <1>4, <1>5, <1>6, <1>7, <1>8, <1>9, <1>10 DEF Next, Run, Failure

\* Whatever replicas share, lose or repeat, each failure makes at most one copy.
THEOREM SpecCopiesAreCaused == Spec => []CopiesAreCaused
  <1>1. Init => CopiesBounded
    <2>. SUFFICES ASSUME Init, NEW e \in Events
                  PROVE  kafka[e] + Cardinality(Holders(e)) <= faults + (IF Free(e) THEN 0 ELSE 1)
      BY DEF CopiesBounded
    <2>1. kafka[e] = 0 /\ faults = 0 /\ Free(e) /\ Holders(e) = {}
      BY DEF Init, Free, Holders
    <2>2. QED BY <2>1, FS_EmptySet
  <1>2. IInv /\ CopiesBounded => CopiesAreCaused
    <2>. SUFFICES ASSUME IInv, CopiesBounded, NEW e \in Events PROVE kafka[e] <= 1 + faults
      BY DEF CopiesAreCaused
    <2>1. kafka[e] \in Nat /\ faults \in Nat
      BY BoundsAssumption DEF IInv, TypeOK
    <2>2. Cardinality(Holders(e)) \in Nat
      BY HoldersKept DEF Holders
    <2>3. kafka[e] + Cardinality(Holders(e)) <= faults + (IF Free(e) THEN 0 ELSE 1)
      BY DEF CopiesBounded
    <2>4. QED BY <2>1, <2>2, <2>3
  <1>3. QED BY <1>1, <1>2, CopiesStep, InductiveInvariant, PTL DEF Spec
=============================================================================
