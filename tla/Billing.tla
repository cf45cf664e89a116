------------------------------- MODULE Billing -------------------------------
(***************************************************************************)
(* The billing-service: donations and their payments, boosts, entitlement  *)
(* purchases, the ledger, the idempotency keys and the events.             *)
(*                                                                         *)
(* A call looks its idempotency key up, reads the donation it is about,    *)
(* asks the payment provider, writes everything in one READ COMMITTED      *)
(* transaction and then publishes its event.  Nothing ties these steps     *)
(* together: the decision is taken on the donation as it was read, and the *)
(* update writes it back by id.  The donation_failed event is the          *)
(* exception: it goes out inside the transaction.                          *)
(*                                                                         *)
(* The only payment provider is the mock: the payment id of a donation is  *)
(* made from its donation id, the client names the payment to confirm, and *)
(* confirmation declines the ids that contain "fail".                      *)
(***************************************************************************)
EXTENDS Naturals, FiniteSets

CONSTANTS
    Calls,          \* invocations; the id of a call stands for the fresh ids it
                    \* generates, and for the mock payment of its donation
    Keys,           \* client idempotency keys
    Foreign,        \* a payment id no donation was created with
    Declined,       \* a payment id the provider declines
    None            \* no row, no value

ASSUME CallsAssumption == IsFiniteSet(Calls)
ASSUME NamesAssumption ==
    /\ Foreign \notin Calls \cup {Declined}
    /\ Declined \notin Calls
    /\ None \notin Calls \cup {Foreign, Declined}

Scopes == {"intent", "confirm", "boost", "purchase"}    \* also the kinds of call
Payments == Calls \cup {Foreign, Declined}
Topics == {"donation_succeeded", "donation_failed", "boost_activated", "entitlement_granted"}

Donations == [status: {"none", "pending", "succeeded", "failed"}, payment: Payments \cup {None}]
Requests == [kind: Scopes, key: Keys, donation: Calls \cup {None}, payment: Payments \cup {None}]

NoRequest == [kind |-> "none", key |-> None, donation |-> None, payment |-> None]
NoDonation == [status |-> "none", payment |-> None]

\* new: nothing done; reading: the key was not found; writing: every check
\* passed; failing: the open transaction of a declined payment; announcing:
\* committed, the event still to publish.
Stages == {"new", "reading", "writing", "failing", "announcing", "ok", "replayed", "error"}

VARIABLES
    stage,          \* [Calls -> Stages]
    req,            \* [Calls -> the request, once the call has begun]
    seen,           \* [Calls -> the donation as the call read it]
    donations,      \* table donations, by the call that created the row
    boosts,         \* table boosts; a boost's donation is in its request
    entitlements,   \* table entitlements: the ids of its rows
    ledger,         \* table ledger_entries: how many rows refer to an id
    idempotency,    \* table idempotency_keys: scope, key -> resource id
    events          \* how often each event was written to Kafka

callVars == <<stage, req, seen>>
tables == <<donations, boosts, entitlements, ledger, idempotency>>
vars == <<callVars, tables, events>>

Init ==
    /\ stage = [c \in Calls |-> "new"]
    /\ req = [c \in Calls |-> NoRequest]
    /\ seen = [c \in Calls |-> NoDonation]
    /\ donations = [c \in Calls |-> NoDonation]
    /\ boosts = [c \in Calls |-> "none"]
    /\ entitlements = {}
    /\ ledger = [c \in Calls |-> 0]
    /\ idempotency = [s \in Scopes |-> [k \in Keys |-> None]]
    /\ events = [t \in Topics |-> [c \in Calls |-> 0]]

Exists(d) == donations[d].status # "none"
Kind(c) == req[c].kind
Moves(c, from, to) == stage[c] = from /\ stage' = [stage EXCEPT ![c] = to]

-----------------------------------------------------------------------------
(* Reading: GetIdempotency, then GetDonation, then the domain's checks.    *)

\* The requests clients make: of the ids the service makes up, a client knows
\* those of the donations that exist.
UsableRequests ==
    LET known == {d \in Calls : Exists(d)} IN
    [kind: {"intent", "purchase"}, key: Keys, donation: {None}, payment: {None}]
    \cup [kind: {"confirm"}, key: Keys, donation: known, payment: known \cup {Foreign, Declined}]
    \cup [kind: {"boost"}, key: Keys, donation: known, payment: {None}]

LookUpKey(c, r) ==
    /\ req' = [req EXCEPT ![c] = r]
    /\ \/ idempotency[r.kind][r.key] # None /\ Moves(c, "new", "replayed")
       \/ idempotency[r.kind][r.key] = None /\ Moves(c, "new", "reading")
    /\ UNCHANGED <<seen, tables, events>>

\* Intents and purchases read nothing more; their payment never is declined.
CreatePayment(c) ==
    /\ Kind(c) \in {"intent", "purchase"}
    /\ Moves(c, "reading", "writing")
    /\ UNCHANGED <<req, seen, tables, events>>

\* MarkFailed refuses a succeeded donation, MarkSucceeded a failed one.
ConfirmAllowed(payment, d) == d.status # (IF payment = Declined THEN "succeeded" ELSE "failed")

\* Mutant: any donation will do for a boost.
BoostForPending(d) == d.status # "none"

\* NewBoost wants a succeeded donation.
BoostAllowed(d) == d.status = "succeeded"

LoadDonation(c) ==
    /\ Kind(c) \in {"confirm", "boost"}
    /\ LET d == donations[req[c].donation]
           allowed == IF Kind(c) = "boost" THEN BoostAllowed(d) ELSE ConfirmAllowed(req[c].payment, d)
       IN  /\ Moves(c, "reading", IF allowed THEN "writing" ELSE "error")
           /\ seen' = [seen EXCEPT ![c] = d]
    /\ UNCHANGED <<req, tables, events>>

-----------------------------------------------------------------------------
(* Writing.                                                                *)

\* What a declined payment's open transaction holds: the donation's row and the
\* payments of its old and new versions.  Whoever needs one of them waits.
Held(x) == {donations[req[x].donation].payment, seen[x].payment}
CanWrite(d, p) == \A x \in Calls : stage[x] = "failing" => req[x].donation # d /\ p \notin Held(x)

\* Mutant: the payment index is not unique.
PaymentIsNamed(d, p) == p \in Payments

\* Unique index idx_donations_provider_payment.
PaymentIsFree(d, p) == \A e \in Calls \ {d} : donations[e].payment # p

\* Mutant: the key row holds the key, not the resource.
SaveKeyAsResource(scope, key, id) ==
    idempotency' = [idempotency EXCEPT ![scope][key] = IF @ = None THEN key ELSE @]

\* ON CONFLICT DO NOTHING: the first resource keeps the key.
SaveIdempotency(scope, key, id) ==
    idempotency' = [idempotency EXCEPT ![scope][key] = IF @ = None THEN id ELSE @]

AddLedgerEntry(id) == ledger' = [ledger EXCEPT ![id] = @ + 1]

CommitIntent(c) ==
    /\ stage[c] = "writing" /\ Kind(c) = "intent"
    /\ CanWrite(c, c) /\ PaymentIsFree(c, c)
    /\ donations' = [donations EXCEPT ![c] = [status |-> "pending", payment |-> c]]
    /\ SaveIdempotency("intent", req[c].key, c)
    /\ Moves(c, "writing", "ok")
    /\ UNCHANGED <<req, seen, boosts, entitlements, ledger, events>>

\* MarkSucceeded leaves a donation that has succeeded as it is.
Succeeded(c) ==
    [status |-> "succeeded",
     payment |-> IF seen[c].status = "succeeded" THEN seen[c].payment ELSE req[c].payment]

\* Mutant: the ledger entry is written after the transaction.
ConfirmWithoutEntry(c) ==
    LET d == req[c].donation IN
    /\ stage[c] = "writing" /\ Kind(c) = "confirm" /\ req[c].payment # Declined
    /\ CanWrite(d, Succeeded(c).payment) /\ PaymentIsFree(d, Succeeded(c).payment)
    /\ donations' = [donations EXCEPT ![d] = Succeeded(c)]
    /\ SaveIdempotency("confirm", req[c].key, d)
    /\ Moves(c, "writing", "announcing")
    /\ UNCHANGED <<req, seen, boosts, entitlements, ledger, events>>

CommitConfirm(c) ==
    LET d == req[c].donation IN
    /\ stage[c] = "writing" /\ Kind(c) = "confirm" /\ req[c].payment # Declined
    /\ CanWrite(d, Succeeded(c).payment) /\ PaymentIsFree(d, Succeeded(c).payment)
    /\ donations' = [donations EXCEPT ![d] = Succeeded(c)]
    /\ AddLedgerEntry(d)
    /\ SaveIdempotency("confirm", req[c].key, d)
    /\ Moves(c, "writing", "announcing")
    /\ UNCHANGED <<req, seen, boosts, entitlements, events>>

\* Another donation has the payment: the unique index ends the transaction.
RejectPayment(c) ==
    LET d == req[c].donation
        p == IF req[c].payment = Declined THEN seen[c].payment ELSE Succeeded(c).payment
    IN
    /\ stage[c] = "writing" /\ Kind(c) = "confirm"
    /\ CanWrite(d, p) /\ ~ PaymentIsFree(d, p)
    /\ Moves(c, "writing", "error")
    /\ UNCHANGED <<req, seen, tables, events>>

\* persistFailedDonation: the update and, before the commit, the event.
PublishDeclined(c) ==
    LET d == req[c].donation IN
    /\ stage[c] = "writing" /\ Kind(c) = "confirm" /\ req[c].payment = Declined
    /\ CanWrite(d, seen[c].payment) /\ PaymentIsFree(d, seen[c].payment)
    /\ events' = [events EXCEPT !["donation_failed"][d] = @ + 1]
    /\ Moves(c, "writing", "failing")
    /\ UNCHANGED <<req, seen, tables>>

CommitDeclined(c) ==
    /\ stage[c] = "failing"
    /\ donations' = [donations EXCEPT ![req[c].donation] = [seen[c] EXCEPT !.status = "failed"]]
    /\ Moves(c, "failing", "ok")
    /\ UNCHANGED <<req, seen, boosts, entitlements, ledger, idempotency, events>>

CommitBoost(c) ==
    /\ stage[c] = "writing" /\ Kind(c) = "boost"
    /\ boosts' = [boosts EXCEPT ![c] = "active"]
    /\ SaveIdempotency("boost", req[c].key, c)
    /\ Moves(c, "writing", "announcing")
    /\ UNCHANGED <<req, seen, donations, entitlements, ledger, events>>

\* Mutant: the purchase is kept under the scope of intents.
PurchaseUnderIntentKey(c) ==
    /\ stage[c] = "writing" /\ Kind(c) = "purchase"
    /\ CanWrite(c, c) /\ PaymentIsFree(c, c)
    /\ donations' = [donations EXCEPT ![c] = [status |-> "succeeded", payment |-> c]]
    /\ entitlements' = entitlements \cup {c}
    /\ AddLedgerEntry(c)
    /\ SaveIdempotency("intent", req[c].key, c)
    /\ Moves(c, "writing", "announcing")
    /\ UNCHANGED <<req, seen, boosts, events>>

CommitPurchase(c) ==
    /\ stage[c] = "writing" /\ Kind(c) = "purchase"
    /\ CanWrite(c, c) /\ PaymentIsFree(c, c)
    /\ donations' = [donations EXCEPT ![c] = [status |-> "succeeded", payment |-> c]]
    /\ entitlements' = entitlements \cup {c}
    /\ AddLedgerEntry(c)
    /\ SaveIdempotency("purchase", req[c].key, c)
    /\ Moves(c, "writing", "announcing")
    /\ UNCHANGED <<req, seen, boosts, events>>

\* CancelBoost: any caller, any time; a cancelled boost stays as it is.
CancelBoost(b) ==
    /\ boosts[b] = "active"
    /\ boosts' = [boosts EXCEPT ![b] = "cancelled"]
    /\ UNCHANGED <<callVars, donations, entitlements, ledger, idempotency, events>>

-----------------------------------------------------------------------------
\* The event that follows the commit, keyed by what it is about.
Announcement(c) ==
    [events EXCEPT ![CASE Kind(c) = "confirm" -> "donation_succeeded"
                       [] Kind(c) = "boost" -> "boost_activated"
                       [] Kind(c) = "purchase" -> "entitlement_granted"]
                    [IF Kind(c) = "confirm" THEN req[c].donation ELSE c] = @ + 1]

\* Mutant: the event goes out once the payment is confirmed.
AnnounceEarly(c) ==
    /\ stage[c] \in {"writing", "announcing"} /\ Kind(c) # "intent" /\ req[c].payment # Declined
    /\ events' = Announcement(c)
    /\ stage' = [stage EXCEPT ![c] = "ok"]
    /\ UNCHANGED <<req, seen, tables>>

Announce(c) ==
    /\ Moves(c, "announcing", "ok")
    /\ events' = Announcement(c)
    /\ UNCHANGED <<req, seen, tables>>

\* The call ends where it is: an error of the provider, the database or Kafka,
\* an open circuit, a cancelled request, a crash.  A publish that fails may
\* have written its event.
GiveUp(c) ==
    /\ stage[c] \in {"reading", "writing", "failing", "announcing"}
    /\ stage' = [stage EXCEPT ![c] = "error"]
    /\ \/ UNCHANGED events
       \/ stage[c] = "announcing" /\ events' = Announcement(c)
    /\ UNCHANGED <<req, seen, tables>>

Confirm(c) ==
    CommitConfirm(c) \/ RejectPayment(c) \/ PublishDeclined(c) \/ CommitDeclined(c)

Next ==
    \E c \in Calls :
        \/ \E r \in UsableRequests : LookUpKey(c, r)
        \/ CreatePayment(c)
        \/ LoadDonation(c)
        \/ CommitIntent(c)
        \/ Confirm(c)
        \/ CommitBoost(c)
        \/ CommitPurchase(c)
        \/ CancelBoost(c)
        \/ Announce(c)
        \/ GiveUp(c)

Spec == Init /\ [][Next]_vars

-----------------------------------------------------------------------------
(* Properties.                                                             *)

TypeOK ==
    /\ stage \in [Calls -> Stages]
    /\ req \in [Calls -> Requests \cup {NoRequest}]
    /\ seen \in [Calls -> Donations]
    /\ donations \in [Calls -> Donations]
    /\ boosts \in [Calls -> {"none", "active", "cancelled"}]
    /\ entitlements \subseteq Calls
    /\ ledger \in [Calls -> Nat]
    /\ idempotency \in [Scopes -> [Keys -> Calls \cup {None}]]
    /\ events \in [Topics -> [Calls -> Nat]]

\* A payment pays for one donation, although clients name the payment they
\* confirm and a stale decline writes an old payment id back.
OnePayerPerPayment ==
    \A d, e \in Calls :
        donations[d].payment # None /\ donations[d].payment = donations[e].payment => d = e

\* What a donation paid for is in the ledger: a succeeded donation, and every
\* entitlement, has an entry.
SuccessIsLedgered ==
    /\ \A d \in Calls : donations[d].status = "succeeded" => ledger[d] > 0
    /\ \A c \in entitlements : ledger[c] > 0

\* Other services never hear of more money than the ledger shows.
AnnouncedIsLedgered ==
    \A c \in Calls : events["donation_succeeded"][c] + events["entitlement_granted"][c] <= ledger[c]

\* Every boost, active or cancelled, was bought with a donation the ledger has
\* an entry of, even if a late decline has marked the donation failed since.
BoostWasPaid ==
    \A c \in Calls : boosts[c] # "none" => ledger[req[c].donation] > 0

\* A key leads a retry to a resource of its scope, whichever of two concurrent
\* calls wrote it.
KeyNamesItsResource ==
    \A k \in Keys, c \in Calls :
        /\ idempotency["intent"][k] = c => Exists(c) /\ c \notin entitlements
        /\ idempotency["confirm"][k] = c => ledger[c] > 0
        /\ idempotency["boost"][k] = c => boosts[c] # "none"
        /\ idempotency["purchase"][k] = c => Exists(c) /\ c \in entitlements

\* What the donation's tests say: a late failure of a succeeded donation is refused.
SucceededIsFinal ==
    [][\A d \in Calls :
         donations[d].status = "succeeded" => donations'[d].status = "succeeded"]_vars
=============================================================================
