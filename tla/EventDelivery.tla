---------------------------- MODULE EventDelivery ----------------------------
(***************************************************************************)
(* What a transactional outbox promises: an event that was accepted is     *)
(* delivered at least once, nothing that was not accepted is delivered,    *)
(* and only a delivered event is confirmed.                                *)
(***************************************************************************)
CONSTANT Events

VARIABLES
    accepted,       \* events whose transaction committed
    delivered,      \* events the broker has
    confirmed       \* events nobody will deliver again

vars == <<accepted, delivered, confirmed>>

TypeOK ==
    /\ accepted \subseteq Events
    /\ delivered \subseteq accepted
    /\ confirmed \subseteq delivered

Init ==
    /\ accepted = {}
    /\ delivered = {}
    /\ confirmed = {}

Accept(e) ==
    /\ e \notin accepted
    /\ accepted' = accepted \cup {e}
    /\ UNCHANGED <<delivered, confirmed>>

Deliver(e) ==
    /\ e \in accepted
    /\ delivered' = delivered \cup {e}
    /\ UNCHANGED <<accepted, confirmed>>

Confirm(e) ==
    /\ e \in delivered
    /\ confirmed' = confirmed \cup {e}
    /\ UNCHANGED <<accepted, delivered>>

Next == \E e \in Events : Accept(e) \/ Deliver(e) \/ Confirm(e)

Spec == Init /\ [][Next]_vars

\* An accepted event is eventually confirmed, hence was delivered.
Eventually == \A e \in Events : (e \in accepted) ~> (e \in confirmed)

LiveSpec == Spec /\ Eventually
=============================================================================
