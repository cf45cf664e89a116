--------------------------- MODULE BillingProofs ---------------------------
(***************************************************************************)
(* Theorems about Billing, for every finite set of calls, every set of     *)
(* keys and every interleaving.                                            *)
(*                                                                         *)
(* The properties relate tables that are written in one transaction, but   *)
(* from a donation read before it.  IInv adds what a call still remembers  *)
(* of its read when it writes, what an open decline holds, and how much a  *)
(* call that has committed still has to announce.                          *)
(***************************************************************************)
EXTENDS Billing, FiniteSetTheorems, TLAPS

\* A call's request has the fields its kind needs, and its stage is one that
\* calls of its kind reach.
RequestFits ==
    \A c \in Calls :
        /\ stage[c] = "new" <=> Kind(c) = "none"
        /\ Kind(c) # "none" => Kind(c) \in Scopes /\ req[c].key \in Keys
        /\ Kind(c) \in {"confirm", "boost"} => req[c].donation \in Calls
        /\ Kind(c) = "confirm" => req[c].payment \in Payments
        /\ stage[c] = "failing" => Kind(c) = "confirm"
        /\ stage[c] = "announcing" => Kind(c) \in {"confirm", "boost", "purchase"}

\* Open declines write different donations and different payments, and nobody
\* else has the payment an open decline is going to write.
DeclinesApart ==
    \A c \in Calls : stage[c] = "failing" =>
        /\ PaymentIsFree(req[c].donation, seen[c].payment)
        /\ \A x \in Calls \ {c} : stage[x] = "failing" =>
              req[x].donation # req[c].donation /\ seen[x].payment # seen[c].payment

\* A boost that passed its check was paid, whatever became of the donation.
BoostsRemember ==
    \A c \in Calls : Kind(c) = "boost" /\ stage[c] = "writing" => ledger[req[c].donation] > 0

\* Rows and keys belong to calls of their kind.
RowsFit ==
    /\ \A c \in entitlements : Kind(c) = "purchase"
    /\ \A c \in Calls : boosts[c] # "none" => Kind(c) = "boost"
    /\ \A k \in Keys, c \in Calls : idempotency["intent"][k] = c => Kind(c) = "intent"

\* The calls that committed an entry for an id and did not announce it yet.
Owed(d) ==
    {c \in Calls : stage[c] = "announcing" /\ (
        \/ Kind(c) = "confirm" /\ req[c].donation = d
        \/ Kind(c) = "purchase" /\ c = d)}

\* What was announced and what still has to be is in the ledger.
DebtsAreLedgered ==
    \A d \in Calls :
        events["donation_succeeded"][d] + events["entitlement_granted"][d] + Cardinality(Owed(d))
            <= ledger[d]

TypeInv == TypeOK /\ RequestFits

IInv ==
    /\ TypeInv
    /\ OnePayerPerPayment
    /\ DeclinesApart
    /\ SuccessIsLedgered
    /\ BoostsRemember
    /\ BoostWasPaid
    /\ RowsFit
    /\ KeyNamesItsResource
    /\ DebtsAreLedgered

-----------------------------------------------------------------------------
(* The initial states. *)

LEMMA InitIInv == Init => IInv
  <1>. SUFFICES ASSUME Init PROVE IInv
    OBVIOUS
  <1>1. TypeInv
    BY NamesAssumption
    DEF Init, TypeInv, TypeOK, RequestFits, Kind, NoRequest, NoDonation, Donations, Requests,
        Scopes, Stages, Topics
  <1>2. DebtsAreLedgered
    <2>1. \A d \in Calls : Owed(d) = {}
      BY DEF Init, Owed
    <2>2. \A d \in Calls : Cardinality(Owed(d)) = 0
      BY <2>1, FS_EmptySet
    <2>3. QED BY <2>2 DEF Init, DebtsAreLedgered, Topics
  <1>3. OnePayerPerPayment /\ DeclinesApart /\ SuccessIsLedgered
    BY NamesAssumption DEF Init, OnePayerPerPayment, DeclinesApart, SuccessIsLedgered, NoDonation
  <1>4. BoostsRemember /\ BoostWasPaid /\ RowsFit /\ KeyNamesItsResource
    BY NamesAssumption
    DEF Init, BoostsRemember, BoostWasPaid, RowsFit, KeyNamesItsResource, Scopes
  <1>. QED BY <1>1, <1>2, <1>3, <1>4 DEF IInv

-----------------------------------------------------------------------------
(* TypeOK. *)

\* The step of a call changes the stage of no other call.
LEMMA MovesEffect ==
    ASSUME TypeOK, NEW c \in Calls, NEW from, NEW to \in Stages, Moves(c, from, to)
    PROVE  /\ stage' \in [Calls -> Stages]
           /\ stage[c] = from
           /\ \A x \in Calls : stage'[x] = IF x = c THEN to ELSE stage[x]
  BY DEF Moves, TypeOK

\* A key row is written once, with a resource of the call that writes it.
LEMMA SaveEffect ==
    ASSUME TypeOK, NEW scope \in Scopes, NEW key \in Keys, NEW id \in Calls,
           SaveIdempotency(scope, key, id)
    PROVE  /\ idempotency' \in [Scopes -> [Keys -> Calls \cup {None}]]
           /\ \A s \in Scopes, k \in Keys :
                idempotency'[s][k] =
                  IF s = scope /\ k = key /\ idempotency[s][k] = None THEN id ELSE idempotency[s][k]
  BY DEF SaveIdempotency, TypeOK

LEMMA LedgerEffect ==
    ASSUME TypeOK, NEW id \in Calls, AddLedgerEntry(id)
    PROVE  /\ ledger' \in [Calls -> Nat]
           /\ \A d \in Calls : ledger'[d] = IF d = id THEN ledger[d] + 1 ELSE ledger[d]
  BY DEF AddLedgerEntry, TypeOK

\* What a call announces.
LEMMA AnnouncementEffect ==
    ASSUME TypeInv, NEW c \in Calls, stage[c] = "announcing"
    PROVE  /\ Announcement(c) \in [Topics -> [Calls -> Nat]]
           /\ \A d \in Calls :
                /\ Announcement(c)["donation_succeeded"][d] =
                     IF Kind(c) = "confirm" /\ d = req[c].donation
                     THEN events["donation_succeeded"][d] + 1 ELSE events["donation_succeeded"][d]
                /\ Announcement(c)["entitlement_granted"][d] =
                     IF Kind(c) = "purchase" /\ d = c
                     THEN events["entitlement_granted"][d] + 1 ELSE events["entitlement_granted"][d]
  <1>. events \in [Topics -> [Calls -> Nat]]
    BY DEF TypeInv, TypeOK
  <1>1. CASE Kind(c) = "confirm"
    <2>. req[c].donation \in Calls
      BY <1>1 DEF TypeInv, RequestFits
    <2>. QED BY <1>1 DEF Announcement, Topics
  <1>2. CASE Kind(c) = "boost"
    BY <1>2 DEF Announcement, Topics
  <1>3. CASE Kind(c) = "purchase"
    BY <1>3 DEF Announcement, Topics
  <1>. QED BY <1>1, <1>2, <1>3 DEF TypeInv, RequestFits

\* The row a decline stores.
LEMMA DeclinedRow ==
    ASSUME TypeInv, NEW c \in Calls
    PROVE  /\ [seen[c] EXCEPT !.status = "failed"] = [status |-> "failed", payment |-> seen[c].payment]
           /\ [seen[c] EXCEPT !.status = "failed"] \in Donations
  <1>1. seen[c] \in Donations
    BY DEF TypeInv, TypeOK
  <1>2. QED BY <1>1 DEF Donations

LEMMA NewRequest ==
    ASSUME TypeInv, NEW c \in Calls, NEW r \in UsableRequests, LookUpKey(c, r)
    PROVE  TypeInv'
  <1>1. /\ r \in Requests
        /\ r.kind \in {"confirm", "boost"} => r.donation \in Calls
        /\ r.kind = "confirm" => r.payment \in Payments
    BY DEF UsableRequests, Requests, Scopes, Payments
  <1>2. r.kind # "none" /\ r.key \in Keys /\ r.kind \in Scopes
    BY <1>1 DEF Requests, Scopes
  <1>3. /\ req' = [req EXCEPT ![c] = r]
        /\ \E to \in {"replayed", "reading"} : Moves(c, "new", to)
        /\ UNCHANGED <<seen, donations, boosts, entitlements, ledger, idempotency, events>>
    BY DEF LookUpKey, tables
  <1>4. TypeOK'
    BY <1>1, <1>3 DEF TypeInv, TypeOK, Moves, Stages
  <1>5. \A x \in Calls \ {c} : req'[x] = req[x] /\ stage'[x] = stage[x]
    BY <1>3 DEF TypeInv, TypeOK, Moves
  <1>6. req'[c] = r /\ stage'[c] \in {"replayed", "reading"}
    BY <1>3 DEF TypeInv, TypeOK, Moves
  <1>7. RequestFits'
    BY <1>1, <1>2, <1>5, <1>6 DEF TypeInv, RequestFits, Kind
  <1>. QED BY <1>4, <1>7 DEF TypeInv

\* A call that goes on keeps its request.
LEMMA RequestStays ==
    ASSUME TypeInv, NEW c \in Calls, NEW to \in Stages \ {"new"}, req' = req,
           stage[c] # "new", stage' = [stage EXCEPT ![c] = to],
           to = "failing" => Kind(c) = "confirm",
           to = "announcing" => Kind(c) \in {"confirm", "boost", "purchase"}
    PROVE  RequestFits' /\ stage' \in [Calls -> Stages]
  BY DEF TypeInv, TypeOK, RequestFits, Kind

LEMMA CommitTypes ==
    ASSUME TypeInv, NEW c \in Calls,
           CommitIntent(c) \/ CommitConfirm(c) \/ CommitBoost(c) \/ CommitPurchase(c)
    PROVE  TypeInv'
  <1>. req[c].key \in Keys
    BY DEF TypeInv, RequestFits, CommitIntent, CommitConfirm, CommitBoost, CommitPurchase, Kind
  <1>. c \in Payments
    BY DEF Payments
  <1>. USE DEF Scopes, Stages
  <1>1. CASE CommitIntent(c)
    <2>1. RequestFits' /\ stage' \in [Calls -> Stages]
      BY <1>1, RequestStays, NamesAssumption DEF CommitIntent, Moves
    <2>2. idempotency' \in [Scopes -> [Keys -> Calls \cup {None}]]
      BY <1>1, SaveEffect DEF CommitIntent, TypeInv
    <2>3. donations' \in [Calls -> Donations]
      BY <1>1 DEF CommitIntent, TypeInv, TypeOK, Donations
    <2>. QED BY <1>1, <2>1, <2>2, <2>3 DEF CommitIntent, TypeInv, TypeOK
  <1>2. CASE CommitConfirm(c)
    <2>. req[c].donation \in Calls /\ req[c].payment \in Payments
      BY <1>2 DEF CommitConfirm, TypeInv, RequestFits
    <2>1. RequestFits' /\ stage' \in [Calls -> Stages]
      BY <1>2, RequestStays DEF CommitConfirm, Moves
    <2>2. idempotency' \in [Scopes -> [Keys -> Calls \cup {None}]]
      BY <1>2, SaveEffect DEF CommitConfirm, TypeInv
    <2>3. Succeeded(c) \in Donations
      BY DEF Succeeded, TypeInv, TypeOK, Donations
    <2>4. donations' \in [Calls -> Donations]
      BY <1>2, <2>3 DEF CommitConfirm, TypeInv, TypeOK
    <2>5. ledger' \in [Calls -> Nat]
      BY <1>2, LedgerEffect DEF CommitConfirm, TypeInv
    <2>. QED BY <1>2, <2>1, <2>2, <2>4, <2>5 DEF CommitConfirm, TypeInv, TypeOK
  <1>3. CASE CommitBoost(c)
    <2>1. RequestFits' /\ stage' \in [Calls -> Stages]
      BY <1>3, RequestStays DEF CommitBoost, Moves
    <2>2. idempotency' \in [Scopes -> [Keys -> Calls \cup {None}]]
      BY <1>3, SaveEffect DEF CommitBoost, TypeInv
    <2>. QED BY <1>3, <2>1, <2>2 DEF CommitBoost, TypeInv, TypeOK
  <1>4. CASE CommitPurchase(c)
    <2>1. RequestFits' /\ stage' \in [Calls -> Stages]
      BY <1>4, RequestStays DEF CommitPurchase, Moves
    <2>2. idempotency' \in [Scopes -> [Keys -> Calls \cup {None}]]
      BY <1>4, SaveEffect DEF CommitPurchase, TypeInv
    <2>3. donations' \in [Calls -> Donations]
      BY <1>4 DEF CommitPurchase, TypeInv, TypeOK, Donations
    <2>4. ledger' \in [Calls -> Nat]
      BY <1>4, LedgerEffect DEF CommitPurchase, TypeInv
    <2>. QED BY <1>4, <2>1, <2>2, <2>3, <2>4 DEF CommitPurchase, TypeInv, TypeOK
  <1>. QED BY <1>1, <1>2, <1>3, <1>4

LEMMA TypePreserved == TypeInv /\ [Next]_vars => TypeInv'
  <1>. SUFFICES ASSUME TypeInv, [Next]_vars PROVE TypeInv'
    OBVIOUS
  <1>. USE DEF Stages
  <1>1. ASSUME NEW c \in Calls, CreatePayment(c) PROVE TypeInv'
    <2>1. RequestFits' /\ stage' \in [Calls -> Stages]
      BY <1>1, RequestStays DEF CreatePayment, Moves
    <2>. QED BY <1>1, <2>1 DEF CreatePayment, tables, TypeInv, TypeOK
  <1>2. ASSUME NEW c \in Calls, LoadDonation(c) PROVE TypeInv'
    <2>1. PICK to \in {"writing", "error"} : Moves(c, "reading", to)
      BY <1>2 DEF LoadDonation
    <2>2. RequestFits' /\ stage' \in [Calls -> Stages]
      BY <1>2, <2>1, RequestStays DEF LoadDonation, Moves
    <2>3. seen' \in [Calls -> Donations]
      BY <1>2 DEF LoadDonation, TypeInv, TypeOK, RequestFits
    <2>. QED BY <1>2, <2>2, <2>3 DEF LoadDonation, tables, TypeInv, TypeOK
  <1>3. ASSUME NEW c \in Calls, RejectPayment(c) PROVE TypeInv'
    <2>1. RequestFits' /\ stage' \in [Calls -> Stages]
      BY <1>3, RequestStays DEF RejectPayment, Moves
    <2>. QED BY <1>3, <2>1 DEF RejectPayment, tables, TypeInv, TypeOK
  <1>4. ASSUME NEW c \in Calls, PublishDeclined(c) PROVE TypeInv'
    <2>1. RequestFits' /\ stage' \in [Calls -> Stages]
      BY <1>4, RequestStays DEF PublishDeclined, Moves
    <2>2. events' \in [Topics -> [Calls -> Nat]]
      BY <1>4 DEF PublishDeclined, TypeInv, TypeOK, RequestFits, Topics
    <2>. QED BY <1>4, <2>1, <2>2 DEF PublishDeclined, tables, TypeInv, TypeOK
  <1>5. ASSUME NEW c \in Calls, CommitDeclined(c) PROVE TypeInv'
    <2>1. RequestFits' /\ stage' \in [Calls -> Stages]
      BY <1>5, RequestStays DEF CommitDeclined, Moves
    <2>2. donations' \in [Calls -> Donations]
      BY <1>5, DeclinedRow DEF CommitDeclined, TypeInv, TypeOK
    <2>. QED BY <1>5, <2>1, <2>2 DEF CommitDeclined, TypeInv, TypeOK
  <1>6. ASSUME NEW c \in Calls, CancelBoost(c) PROVE TypeInv'
    BY <1>6 DEF CancelBoost, callVars, TypeInv, TypeOK, RequestFits, Kind
  <1>7. ASSUME NEW c \in Calls, Announce(c) PROVE TypeInv'
    <2>1. RequestFits' /\ stage' \in [Calls -> Stages]
      BY <1>7, RequestStays DEF Announce, Moves
    <2>2. events' \in [Topics -> [Calls -> Nat]]
      BY <1>7, AnnouncementEffect DEF Announce, Moves
    <2>. QED BY <1>7, <2>1, <2>2 DEF Announce, tables, TypeInv, TypeOK
  <1>8. ASSUME NEW c \in Calls, GiveUp(c) PROVE TypeInv'
    <2>1. RequestFits' /\ stage' \in [Calls -> Stages]
      BY <1>8, RequestStays DEF GiveUp
    <2>2. events' \in [Topics -> [Calls -> Nat]]
      BY <1>8, AnnouncementEffect DEF GiveUp, TypeInv, TypeOK
    <2>. QED BY <1>8, <2>1, <2>2 DEF GiveUp, tables, TypeInv, TypeOK
  <1>9. CASE UNCHANGED vars
    BY <1>9 DEF vars, callVars, tables, TypeInv, TypeOK, RequestFits, Kind
  <1>. QED
    BY <1>1, <1>2, <1>3, <1>4, <1>5, <1>6, <1>7, <1>8, <1>9, NewRequest, CommitTypes DEF Next, Confirm

\* Billing keeps its types, and every call gets the request its kind needs.
THEOREM TypeCorrect == Spec => []TypeOK
  <1>1. Init => TypeInv
    BY InitIInv DEF IInv
  <1>2. TypeInv => TypeOK
    BY DEF TypeInv
  <1>3. QED BY <1>1, <1>2, TypePreserved, PTL DEF Spec

-----------------------------------------------------------------------------
(* Steps that store nothing. *)

Quiet(c) ==
    \/ \E r \in UsableRequests : LookUpKey(c, r)
    \/ CreatePayment(c)
    \/ LoadDonation(c)
    \/ RejectPayment(c)
    \/ CancelBoost(c)
    \/ Announce(c)
    \/ GiveUp(c)

\* They keep the tables, but for a cancelled boost, and the requests of calls
\* under way; they open no decline, and let no boost pass that was not paid.
LEMMA QuietEffect ==
    ASSUME TypeInv, NEW c \in Calls, Quiet(c)
    PROVE  /\ UNCHANGED <<donations, entitlements, ledger, idempotency>>
           /\ \A x \in Calls :
                /\ boosts'[x] # "none" <=> boosts[x] # "none"
                /\ Kind(x) # "none" => req'[x] = req[x]
                /\ stage'[x] = "failing" =>
                     stage[x] = "failing" /\ req'[x] = req[x] /\ seen'[x] = seen[x]
                /\ stage'[x] = "writing" /\ Kind(x)' = "boost" =>
                     /\ req'[x] = req[x]
                     /\ stage[x] = "writing" \/ donations[req[x].donation].status = "succeeded"
  <1>. USE DEF TypeInv, TypeOK, RequestFits, Kind, Moves
  <1>1. ASSUME NEW r \in UsableRequests, LookUpKey(c, r)
        PROVE  /\ stage[c] = "new"
               /\ req' = [req EXCEPT ![c] = r]
               /\ UNCHANGED <<seen, donations, boosts, entitlements, ledger, idempotency>>
               /\ stage' \in {[stage EXCEPT ![c] = "replayed"], [stage EXCEPT ![c] = "reading"]}
    BY <1>1 DEF LookUpKey, tables
  <1>2. CASE \E r \in UsableRequests : LookUpKey(c, r)
    BY <1>1, <1>2
  <1>3. CASE CreatePayment(c)
    BY <1>3 DEF CreatePayment, tables
  <1>4. CASE LoadDonation(c)
    BY <1>4 DEF LoadDonation, tables, BoostAllowed
  <1>5. CASE RejectPayment(c)
    BY <1>5 DEF RejectPayment, tables
  <1>6. CASE CancelBoost(c)
    BY <1>6 DEF CancelBoost, callVars
  <1>7. CASE Announce(c)
    BY <1>7 DEF Announce, tables
  <1>8. CASE GiveUp(c)
    BY <1>8 DEF GiveUp, tables
  <1>. QED BY <1>2, <1>3, <1>4, <1>5, <1>6, <1>7, <1>8 DEF Quiet

-----------------------------------------------------------------------------
(* OnePayerPerPayment: the unique index, and what open declines hold. *)

Payers == OnePayerPerPayment /\ DeclinesApart

LEMMA PayersKept ==
    ASSUME Payers, donations' = donations,
           \A x \in Calls : stage'[x] = "failing" =>
               stage[x] = "failing" /\ req'[x] = req[x] /\ seen'[x] = seen[x]
    PROVE  Payers'
  BY DEF Payers, OnePayerPerPayment, DeclinesApart, PaymentIsFree

\* A row is stored that no open decline is going to write, with a payment no
\* other row has and no open decline is going to store.
LEMMA PayersStore ==
    ASSUME TypeInv, Payers, NEW d \in Calls, NEW row \in Donations,
           donations' = [donations EXCEPT ![d] = row],
           PaymentIsFree(d, row.payment),
           \A x \in Calls : stage'[x] = "failing" =>
               /\ stage[x] = "failing" /\ req'[x] = req[x] /\ seen'[x] = seen[x]
               /\ req[x].donation # d /\ seen[x].payment # row.payment
    PROVE  Payers'
  <1>1. \A e \in Calls : donations'[e] = IF e = d THEN row ELSE donations[e]
    BY DEF TypeInv, TypeOK
  <1>2. OnePayerPerPayment'
    BY <1>1 DEF Payers, OnePayerPerPayment, PaymentIsFree
  <1>3. DeclinesApart'
    BY <1>1 DEF Payers, DeclinesApart, PaymentIsFree
  <1>. QED BY <1>2, <1>3 DEF Payers

LEMMA CommitPayers ==
    ASSUME TypeInv, Payers, NEW c \in Calls, NEW d \in Calls, NEW row \in Donations,
           NEW to \in {"ok", "announcing"}, Moves(c, "writing", to), req' = req, seen' = seen,
           donations' = [donations EXCEPT ![d] = row],
           CanWrite(d, row.payment), PaymentIsFree(d, row.payment)
    PROVE  Payers'
  <1>1. \A x \in Calls : stage'[x] = "failing" => stage[x] = "failing"
    BY MovesEffect DEF TypeInv, Stages
  <1>2. \A x \in Calls : stage'[x] = "failing" =>
            req[x].donation # d /\ seen[x].payment # row.payment
    BY <1>1 DEF CanWrite, Held
  <1>. QED BY <1>1, <1>2, PayersStore

LEMMA NextPayers == TypeInv /\ Payers /\ [Next]_vars => Payers'
  <1>. SUFFICES ASSUME TypeInv, Payers, [Next]_vars PROVE Payers'
    OBVIOUS
  <1>1. ASSUME NEW c \in Calls, Quiet(c) PROVE Payers'
    BY <1>1, QuietEffect, PayersKept
  <1>2. ASSUME NEW c \in Calls, CommitIntent(c) PROVE Payers'
    <2>1. [status |-> "pending", payment |-> c] \in Donations
      BY DEF Donations, Payments
    <2>. QED BY <1>2, <2>1, CommitPayers DEF CommitIntent
  <1>3. ASSUME NEW c \in Calls, CommitConfirm(c) PROVE Payers'
    <2>1. req[c].donation \in Calls /\ req[c].payment \in Payments
      BY <1>3 DEF CommitConfirm, TypeInv, RequestFits
    <2>2. Succeeded(c) \in Donations
      BY <2>1 DEF Succeeded, TypeInv, TypeOK, Donations
    <2>. QED BY <1>3, <2>1, <2>2, CommitPayers DEF CommitConfirm
  <1>4. ASSUME NEW c \in Calls, CommitPurchase(c) PROVE Payers'
    <2>1. [status |-> "succeeded", payment |-> c] \in Donations
      BY DEF Donations, Payments
    <2>. QED BY <1>4, <2>1, CommitPayers DEF CommitPurchase
  <1>5. ASSUME NEW c \in Calls, PublishDeclined(c) PROVE Payers'
    <2>1. /\ UNCHANGED <<req, seen, donations>>
          /\ CanWrite(req[c].donation, seen[c].payment)
          /\ PaymentIsFree(req[c].donation, seen[c].payment)
          /\ \A x \in Calls : x # c => stage'[x] = stage[x]
      BY <1>5, MovesEffect DEF PublishDeclined, tables, TypeInv, Stages
    <2>2. \A x \in Calls \ {c} : stage[x] = "failing" =>
              req[x].donation # req[c].donation /\ seen[x].payment # seen[c].payment
      BY <2>1 DEF CanWrite, Held
    <2>. QED BY <2>1, <2>2 DEF Payers, OnePayerPerPayment, DeclinesApart, PaymentIsFree
  <1>6. ASSUME NEW c \in Calls, CommitDeclined(c) PROVE Payers'
    <2>1. /\ stage[c] = "failing"
          /\ UNCHANGED <<req, seen>>
          /\ stage'[c] = "ok"
          /\ \A x \in Calls : x # c => stage'[x] = stage[x]
      BY <1>6, MovesEffect DEF CommitDeclined, TypeInv, Stages
    <2>2. req[c].donation \in Calls
      BY <2>1 DEF TypeInv, RequestFits
    <2>3. \A x \in Calls : stage'[x] = "failing" =>
              req[x].donation # req[c].donation /\ seen[x].payment # seen[c].payment
      BY <2>1 DEF Payers, DeclinesApart
    <2>4. PaymentIsFree(req[c].donation, seen[c].payment)
      BY <2>1 DEF Payers, DeclinesApart
    <2>. DEFINE row == [seen[c] EXCEPT !.status = "failed"]
    <2>5. row \in Donations /\ row.payment = seen[c].payment
      BY DeclinedRow
    <2>6. donations' = [donations EXCEPT ![req[c].donation] = row]
      BY <1>6 DEF CommitDeclined
    <2>. HIDE DEF row
    <2>7. PaymentIsFree(req[c].donation, row.payment)
      BY <2>4, <2>5
    <2>8. \A x \in Calls : stage'[x] = "failing" =>
              /\ stage[x] = "failing" /\ req'[x] = req[x] /\ seen'[x] = seen[x]
              /\ req[x].donation # req[c].donation /\ seen[x].payment # row.payment
      BY <2>1, <2>3, <2>5
    <2>. QED BY <2>2, <2>5, <2>6, <2>7, <2>8, PayersStore
  <1>7. ASSUME NEW c \in Calls, CommitBoost(c) PROVE Payers'
    <2>1. \A x \in Calls : stage'[x] = "failing" => stage[x] = "failing"
      BY <1>7, MovesEffect DEF CommitBoost, TypeInv, Stages
    <2>. QED BY <1>7, <2>1, PayersKept DEF CommitBoost
  <1>8. CASE UNCHANGED vars
    BY <1>8, PayersKept DEF vars, callVars, tables
  <1>. QED BY <1>1, <1>2, <1>3, <1>4, <1>5, <1>6, <1>7, <1>8 DEF Next, Confirm, Quiet

\* No payment pays for two donations, whatever is stored from a stale read.
THEOREM SpecOnePayerPerPayment == Spec => []OnePayerPerPayment
  <1>1. Init => TypeInv /\ Payers
    BY InitIInv DEF IInv, Payers
  <1>2. TypeInv /\ Payers /\ [Next]_vars => (TypeInv /\ Payers)'
    BY TypePreserved, NextPayers
  <1>3. Payers => OnePayerPerPayment
    BY DEF Payers
  <1>4. QED BY <1>1, <1>2, <1>3, PTL DEF Spec

-----------------------------------------------------------------------------
(* The tables against the ledger and against the keys. *)

Books == SuccessIsLedgered /\ BoostsRemember /\ BoostWasPaid /\ RowsFit /\ KeyNamesItsResource

LEMMA QuietBooks ==
    ASSUME TypeInv, Books, NEW c \in Calls, Quiet(c)
    PROVE  Books'
  <1>1. /\ UNCHANGED <<donations, entitlements, ledger, idempotency>>
        /\ \A x \in Calls :
             /\ boosts'[x] # "none" <=> boosts[x] # "none"
             /\ Kind(x) # "none" => req'[x] = req[x]
    BY QuietEffect
  <1>2. \A x \in Calls : Kind(x) # "none" => Kind(x)' = Kind(x)
    BY <1>1 DEF Kind
  <1>3. SuccessIsLedgered'
    BY <1>1 DEF Books, SuccessIsLedgered
  <1>4. BoostsRemember'
    <2>. SUFFICES ASSUME NEW x \in Calls, Kind(x)' = "boost", stage'[x] = "writing"
                  PROVE  ledger'[req'[x].donation] > 0
      BY DEF BoostsRemember
    <2>1. /\ req'[x] = req[x]
          /\ stage[x] = "writing" \/ donations[req[x].donation].status = "succeeded"
      BY QuietEffect
    <2>2. Kind(x) = "boost" /\ req[x].donation \in Calls
      BY <2>1 DEF Kind, TypeInv, RequestFits
    <2>. QED BY <1>1, <2>1, <2>2 DEF Books, BoostsRemember, SuccessIsLedgered
  <1>5. BoostWasPaid'
    <2>. SUFFICES ASSUME NEW x \in Calls, boosts'[x] # "none"
                  PROVE  ledger'[req'[x].donation] > 0
      BY DEF BoostWasPaid
    <2>. QED BY <1>1 DEF Books, BoostWasPaid, RowsFit
  <1>6. RowsFit'
    BY <1>1, <1>2 DEF Books, RowsFit, TypeInv, TypeOK
  <1>7. KeyNamesItsResource'
    BY <1>1 DEF Books, KeyNamesItsResource, Exists
  <1>. QED BY <1>3, <1>4, <1>5, <1>6, <1>7 DEF Books

\* What the steps that store something have in common: ledger entries and rows
\* are added, never removed.
LEMMA BooksGrow ==
    ASSUME TypeInv, Books, NEW c \in Calls, req' = req,
           \A d \in Calls : ledger'[d] >= ledger[d],
           ledger' \in [Calls -> Nat],
           \A x \in Calls : stage'[x] = "writing" => stage[x] = "writing"
    PROVE  /\ BoostsRemember'
           /\ \A x \in Calls : boosts[x] # "none" => ledger'[req[x].donation] > 0
  <1>. \A d \in Calls : ledger[d] \in Nat /\ ledger'[d] \in Nat
    BY DEF TypeInv, TypeOK
  <1>1. BoostsRemember'
    <2>. SUFFICES ASSUME NEW x \in Calls, Kind(x)' = "boost", stage'[x] = "writing"
                  PROVE  ledger'[req'[x].donation] > 0
      BY DEF BoostsRemember
    <2>1. Kind(x) = "boost" /\ req[x].donation \in Calls
      BY DEF Kind, TypeInv, RequestFits
    <2>. QED BY <2>1 DEF Books, BoostsRemember
  <1>2. \A x \in Calls : boosts[x] # "none" => req[x].donation \in Calls
    BY DEF Books, RowsFit, TypeInv, RequestFits
  <1>3. \A x \in Calls : boosts[x] # "none" => ledger'[req[x].donation] > 0
    BY <1>2 DEF Books, BoostWasPaid
  <1>. QED BY <1>1, <1>3

LEMMA IntentBooks ==
    ASSUME TypeInv, Books, NEW c \in Calls, CommitIntent(c)
    PROVE  Books'
  <1>1. /\ UNCHANGED <<req, boosts, entitlements, ledger>>
        /\ Kind(c) = "intent"
        /\ \A x \in Calls : stage'[x] = "writing" => stage[x] = "writing"
    BY MovesEffect DEF CommitIntent, TypeInv, Stages
  <1>2. \A d \in Calls : donations'[d] = IF d = c THEN [status |-> "pending", payment |-> c] ELSE donations[d]
    BY DEF CommitIntent, TypeInv, TypeOK
  <1>3. /\ req[c].key \in Keys
        /\ c \notin entitlements
    BY <1>1 DEF TypeInv, RequestFits, Kind, Books, RowsFit
  <1>4. \A s \in Scopes, k \in Keys :
          idempotency'[s][k] =
            IF s = "intent" /\ k = req[c].key /\ idempotency[s][k] = None THEN c ELSE idempotency[s][k]
    BY <1>3, SaveEffect DEF CommitIntent, Scopes, TypeInv
  <1>5. BoostsRemember' /\ BoostWasPaid'
    BY <1>1, BooksGrow DEF TypeInv, TypeOK, BoostWasPaid
  <1>6. SuccessIsLedgered'
    BY <1>1, <1>2 DEF Books, SuccessIsLedgered
  <1>7. RowsFit'
    BY <1>1, <1>4 DEF Books, RowsFit, Kind, Scopes
  <1>8. KeyNamesItsResource'
    BY <1>1, <1>2, <1>3, <1>4 DEF Books, KeyNamesItsResource, Exists, Scopes
  <1>. QED BY <1>5, <1>6, <1>7, <1>8 DEF Books

LEMMA ConfirmBooks ==
    ASSUME TypeInv, Books, NEW c \in Calls, CommitConfirm(c)
    PROVE  Books'
  <1>. DEFINE d == req[c].donation
  <1>1. /\ UNCHANGED <<req, boosts, entitlements>>
        /\ \A x \in Calls : stage'[x] = "writing" => stage[x] = "writing"
    BY MovesEffect DEF CommitConfirm, TypeInv, Stages
  <1>2. d \in Calls /\ req[c].key \in Keys
    BY DEF CommitConfirm, TypeInv, RequestFits, Kind
  <1>3. \A x \in Calls : x # d => donations'[x] = donations[x]
    BY DEF CommitConfirm, TypeInv, TypeOK
  <1>4. donations'[d].status = "succeeded"
    BY <1>2 DEF CommitConfirm, TypeInv, TypeOK, Succeeded
  <1>5. /\ ledger' \in [Calls -> Nat]
        /\ \A x \in Calls : ledger'[x] = IF x = d THEN ledger[x] + 1 ELSE ledger[x]
    BY <1>2, LedgerEffect DEF CommitConfirm, TypeInv
  <1>6. \A s \in Scopes, k \in Keys :
          idempotency'[s][k] =
            IF s = "confirm" /\ k = req[c].key /\ idempotency[s][k] = None THEN d ELSE idempotency[s][k]
    BY <1>2, SaveEffect DEF CommitConfirm, Scopes, TypeInv
  <1>. HIDE DEF d
  <1>7. \A x \in Calls : ledger[x] \in Nat /\ ledger'[x] >= ledger[x] /\ ledger'[d] > 0
    BY <1>2, <1>5 DEF TypeInv, TypeOK
  <1>8. BoostsRemember' /\ BoostWasPaid'
    BY <1>1, <1>5, <1>7, BooksGrow DEF BoostWasPaid
  <1>9. SuccessIsLedgered'
    BY <1>1, <1>2, <1>3, <1>5, <1>7 DEF Books, SuccessIsLedgered, TypeInv, TypeOK
  <1>10. RowsFit'
    BY <1>1, <1>6 DEF Books, RowsFit, Kind, Scopes
  <1>11. KeyNamesItsResource'
    BY <1>1, <1>2, <1>3, <1>4, <1>5, <1>6, <1>7 DEF Books, KeyNamesItsResource, Exists, Scopes
  <1>. QED BY <1>8, <1>9, <1>10, <1>11 DEF Books

LEMMA PurchaseBooks ==
    ASSUME TypeInv, Books, NEW c \in Calls, CommitPurchase(c)
    PROVE  Books'
  <1>1. /\ UNCHANGED <<req, boosts>>
        /\ entitlements' = entitlements \cup {c}
        /\ Kind(c) = "purchase"
        /\ \A x \in Calls : stage'[x] = "writing" => stage[x] = "writing"
    BY MovesEffect DEF CommitPurchase, TypeInv, Stages
  <1>2. req[c].key \in Keys
    BY <1>1 DEF TypeInv, RequestFits, Kind
  <1>3. \A d \in Calls : donations'[d] = IF d = c THEN [status |-> "succeeded", payment |-> c] ELSE donations[d]
    BY DEF CommitPurchase, TypeInv, TypeOK
  <1>4. /\ ledger' \in [Calls -> Nat]
        /\ \A x \in Calls : ledger'[x] = IF x = c THEN ledger[x] + 1 ELSE ledger[x]
    BY LedgerEffect DEF CommitPurchase, TypeInv
  <1>5. \A s \in Scopes, k \in Keys :
          idempotency'[s][k] =
            IF s = "purchase" /\ k = req[c].key /\ idempotency[s][k] = None THEN c ELSE idempotency[s][k]
    BY <1>2, SaveEffect DEF CommitPurchase, Scopes, TypeInv
  <1>6. \A x \in Calls : ledger[x] \in Nat /\ ledger'[x] >= ledger[x] /\ ledger'[c] > 0
    BY <1>4 DEF TypeInv, TypeOK
  <1>7. BoostsRemember' /\ BoostWasPaid'
    BY <1>1, <1>4, <1>6, BooksGrow DEF BoostWasPaid
  <1>8. SuccessIsLedgered'
    BY <1>1, <1>3, <1>4, <1>6 DEF Books, SuccessIsLedgered, TypeInv, TypeOK
  <1>9. RowsFit'
    BY <1>1, <1>5 DEF Books, RowsFit, Kind, Scopes
  <1>10. \A k \in Keys, x \in Calls : idempotency["intent"][k] = x => x # c
    BY <1>1 DEF Books, RowsFit
  <1>11. KeyNamesItsResource'
    BY <1>1, <1>3, <1>4, <1>5, <1>6, <1>10 DEF Books, KeyNamesItsResource, Exists, Scopes
  <1>. QED BY <1>7, <1>8, <1>9, <1>11 DEF Books

LEMMA BoostBooks ==
    ASSUME TypeInv, Books, NEW c \in Calls, CommitBoost(c)
    PROVE  Books'
  <1>1. /\ UNCHANGED <<req, donations, entitlements, ledger>>
        /\ Kind(c) = "boost"
        /\ stage[c] = "writing"
        /\ \A x \in Calls : stage'[x] = "writing" => stage[x] = "writing"
    BY MovesEffect DEF CommitBoost, TypeInv, Stages
  <1>2. req[c].key \in Keys
    BY <1>1 DEF TypeInv, RequestFits, Kind
  <1>3. \A x \in Calls : boosts'[x] = IF x = c THEN "active" ELSE boosts[x]
    BY DEF CommitBoost, TypeInv, TypeOK
  <1>4. \A s \in Scopes, k \in Keys :
          idempotency'[s][k] =
            IF s = "boost" /\ k = req[c].key /\ idempotency[s][k] = None THEN c ELSE idempotency[s][k]
    BY <1>2, SaveEffect DEF CommitBoost, Scopes, TypeInv
  <1>5. /\ BoostsRemember'
        /\ \A x \in Calls : boosts[x] # "none" => ledger'[req[x].donation] > 0
    BY <1>1, BooksGrow DEF TypeInv, TypeOK
  <1>6. BoostWasPaid'
    BY <1>1, <1>3, <1>5 DEF Books, BoostsRemember, BoostWasPaid
  <1>7. SuccessIsLedgered'
    BY <1>1 DEF Books, SuccessIsLedgered
  <1>8. RowsFit'
    BY <1>1, <1>3, <1>4 DEF Books, RowsFit, Kind, Scopes
  <1>9. KeyNamesItsResource'
    BY <1>1, <1>3, <1>4 DEF Books, KeyNamesItsResource, Exists, Scopes
  <1>. QED BY <1>5, <1>6, <1>7, <1>8, <1>9 DEF Books

LEMMA DeclineBooks ==
    ASSUME TypeInv, Books, NEW c \in Calls, PublishDeclined(c) \/ CommitDeclined(c)
    PROVE  Books'
  <1>1. /\ UNCHANGED <<req, boosts, entitlements, ledger, idempotency>>
        /\ \A x \in Calls : stage'[x] = "writing" => stage[x] = "writing"
    BY MovesEffect DEF PublishDeclined, CommitDeclined, tables, TypeInv, Stages
  <1>2. \A d \in Calls :
          donations'[d] = donations[d] \/ donations'[d].status = "failed"
    <2>1. CASE PublishDeclined(c)
      BY <2>1 DEF PublishDeclined, tables
    <2>2. CASE CommitDeclined(c)
      BY <2>2, DeclinedRow DEF CommitDeclined, TypeInv, TypeOK
    <2>. QED BY <2>1, <2>2
  <1>3. BoostsRemember' /\ BoostWasPaid'
    BY <1>1, BooksGrow DEF TypeInv, TypeOK, BoostWasPaid
  <1>4. SuccessIsLedgered'
    BY <1>1, <1>2 DEF Books, SuccessIsLedgered
  <1>5. RowsFit'
    BY <1>1 DEF Books, RowsFit, Kind
  <1>6. KeyNamesItsResource'
    BY <1>1, <1>2 DEF Books, KeyNamesItsResource, Exists
  <1>. QED BY <1>3, <1>4, <1>5, <1>6 DEF Books

LEMMA NextBooks == TypeInv /\ Books /\ [Next]_vars => Books'
  <1>. SUFFICES ASSUME TypeInv, Books, [Next]_vars PROVE Books'
    OBVIOUS
  <1>1. CASE UNCHANGED vars
    BY <1>1
    DEF vars, callVars, tables, Books, SuccessIsLedgered, BoostsRemember, BoostWasPaid, RowsFit,
        KeyNamesItsResource, Kind, Exists
  <1>. QED
    BY <1>1, QuietBooks, IntentBooks, ConfirmBooks, PurchaseBooks, BoostBooks, DeclineBooks
    DEF Next, Confirm, Quiet

LEMMA BooksAlways == Spec => [](TypeInv /\ Books)
  <1>1. Init => TypeInv /\ Books
    BY InitIInv DEF IInv, Books
  <1>2. TypeInv /\ Books /\ [Next]_vars => (TypeInv /\ Books)'
    BY TypePreserved, NextBooks
  <1>3. QED BY <1>1, <1>2, PTL DEF Spec

\* A donation that succeeded and an entitlement that was granted have their
\* ledger entry, whichever calls confirm, decline and buy at the same time.
THEOREM SpecSuccessIsLedgered == Spec => []SuccessIsLedgered
  <1>1. Books => SuccessIsLedgered
    BY DEF Books
  <1>2. QED BY <1>1, BooksAlways, PTL

\* A boost was bought with a donation the ledger has an entry of, although the
\* donation may have failed between the check and the boost's row.
THEOREM SpecBoostWasPaid == Spec => []BoostWasPaid
  <1>1. Books => BoostWasPaid
    BY DEF Books
  <1>2. QED BY <1>1, BooksAlways, PTL

\* What an idempotency key leads a retry to exists and is of the key's scope.
THEOREM SpecKeyNamesItsResource == Spec => []KeyNamesItsResource
  <1>1. Books => KeyNamesItsResource
    BY DEF Books
  <1>2. QED BY <1>1, BooksAlways, PTL

-----------------------------------------------------------------------------
(* What other services hear. *)

Heard(d) == events["donation_succeeded"][d] + events["entitlement_granted"][d]

LEMMA OwedFinite ==
    ASSUME NEW d, NEW S, S \subseteq Owed(d)
    PROVE  /\ IsFiniteSet(S) /\ Cardinality(S) \in Nat
           /\ IsFiniteSet(Owed(d)) /\ Cardinality(Owed(d)) \in Nat
           /\ Cardinality(S) <= Cardinality(Owed(d))
  <1>1. IsFiniteSet(Owed(d))
    BY CallsAssumption, FS_Subset, Owed(d) \subseteq Calls DEF Owed
  <1>. QED BY <1>1, FS_Subset, FS_CardinalityType

LEMMA NumbersFit ==
    ASSUME TypeOK, NEW d \in Calls
    PROVE  Heard(d) \in Nat /\ ledger[d] \in Nat
  BY DEF Heard, TypeOK, Topics

\* Steps that announce nothing and let no call owe more.
LEMMA DebtsKept ==
    ASSUME TypeInv, DebtsAreLedgered, TypeInv',
           \A d \in Calls : Heard(d)' = Heard(d) /\ ledger'[d] = ledger[d],
           \A x \in Calls : stage'[x] = "announcing" /\ Kind(x)' # "boost" =>
               stage[x] = "announcing" /\ req'[x] = req[x]
    PROVE  DebtsAreLedgered'
  <1>. SUFFICES ASSUME NEW d \in Calls
                PROVE  Heard(d)' + Cardinality(Owed(d)') <= ledger'[d]
    BY DEF DebtsAreLedgered, Heard
  <1>1. Owed(d)' \subseteq Owed(d)
    BY DEF Owed, Kind
  <1>2. Heard(d) + Cardinality(Owed(d)) <= ledger[d]
    BY DEF DebtsAreLedgered, Heard
  <1>. QED BY <1>1, <1>2, OwedFinite, NumbersFit DEF TypeInv

\* A call that announces pays what it owed.
LEMMA DebtsPaid ==
    ASSUME TypeInv, DebtsAreLedgered, TypeInv', NEW c \in Calls, stage[c] = "announcing",
           NEW to \in {"ok", "error"}, stage' = [stage EXCEPT ![c] = to],
           req' = req, ledger' = ledger, events' = Announcement(c)
    PROVE  DebtsAreLedgered'
  <1>. SUFFICES ASSUME NEW d \in Calls
                PROVE  Heard(d)' + Cardinality(Owed(d)') <= ledger'[d]
    BY DEF DebtsAreLedgered, Heard
  <1>1. Owed(d)' \subseteq Owed(d) \ {c}
    BY DEF Owed, Kind, TypeInv, TypeOK
  <1>2. /\ Cardinality(Owed(d)) \in Nat
        /\ Cardinality(Owed(d) \ {c}) = Cardinality(Owed(d)) - (IF c \in Owed(d) THEN 1 ELSE 0)
    <2>1. IsFiniteSet(Owed(d)) /\ Cardinality(Owed(d)) \in Nat
      BY OwedFinite
    <2>2. Cardinality(Owed(d) \ {c}) =
              IF c \in Owed(d) THEN Cardinality(Owed(d)) - 1 ELSE Cardinality(Owed(d))
      BY <2>1, FS_RemoveElement, Zenon
    <2>. QED BY <2>1, <2>2
  <1>3. Cardinality(Owed(d)') \in Nat /\ Cardinality(Owed(d)') <= Cardinality(Owed(d) \ {c})
    BY <1>1, OwedFinite, FS_RemoveElement, FS_Subset
  <1>4. c \in Owed(d) <=> (Kind(c) = "confirm" /\ d = req[c].donation) \/ (Kind(c) = "purchase" /\ d = c)
    BY DEF Owed
  <1>5. Heard(d)' <= Heard(d) + (IF c \in Owed(d) THEN 1 ELSE 0)
    BY <1>4, AnnouncementEffect, NumbersFit DEF Heard, TypeInv, TypeOK, Topics
  <1>6. Heard(d) + Cardinality(Owed(d)) <= ledger[d]
    BY DEF DebtsAreLedgered, Heard
  <1>7. Heard(d) \in Nat /\ Heard(d)' \in Nat /\ ledger[d] \in Nat
    BY DEF Heard, TypeInv, TypeOK, Topics
  <1>. QED BY <1>2, <1>3, <1>5, <1>6, <1>7

\* A call that adds an entry owes one announcement of it.
LEMMA DebtsTaken ==
    ASSUME TypeInv, DebtsAreLedgered, TypeInv', NEW c \in Calls,
           CommitConfirm(c) \/ CommitPurchase(c)
    PROVE  DebtsAreLedgered'
  <1>. DEFINE id == IF Kind(c) = "confirm" THEN req[c].donation ELSE c
  <1>1. /\ UNCHANGED <<req, events>>
        /\ Kind(c) \in {"confirm", "purchase"}
        /\ \A x \in Calls : x # c => stage'[x] = stage[x]
    BY MovesEffect DEF CommitConfirm, CommitPurchase, TypeInv, Stages
  <1>2. id \in Calls /\ AddLedgerEntry(id)
    BY DEF CommitConfirm, CommitPurchase, TypeInv, RequestFits
  <1>. SUFFICES ASSUME NEW d \in Calls
                PROVE  Heard(d)' + Cardinality(Owed(d)') <= ledger'[d]
    BY DEF DebtsAreLedgered, Heard
  <1>3. Owed(d)' \subseteq IF d = id THEN Owed(d) \cup {c} ELSE Owed(d)
    BY <1>1 DEF Owed, Kind
  <1>4. ledger'[d] = ledger[d] + (IF d = id THEN 1 ELSE 0)
    BY <1>2, LedgerEffect, NumbersFit DEF TypeInv
  <1>. HIDE DEF id
  <1>5. Heard(d) + Cardinality(Owed(d)) <= ledger[d]
    BY DEF DebtsAreLedgered, Heard
  <1>6. Heard(d)' = Heard(d) /\ Heard(d) \in Nat /\ ledger[d] \in Nat
    BY <1>1, NumbersFit DEF TypeInv, Heard
  <1>7. CASE d = id
    <2>1. /\ IsFiniteSet(Owed(d) \cup {c}) /\ Cardinality(Owed(d)) \in Nat
          /\ Cardinality(Owed(d) \cup {c}) <= Cardinality(Owed(d)) + 1
      BY OwedFinite, FS_AddElement
    <2>2. Cardinality(Owed(d)') \in Nat /\ Cardinality(Owed(d)') <= Cardinality(Owed(d)) + 1
      BY <1>3, <1>7, <2>1, FS_Subset, FS_CardinalityType
    <2>. QED BY <1>4, <1>5, <1>6, <1>7, <2>1, <2>2
  <1>8. CASE d # id
    BY <1>3, <1>4, <1>5, <1>6, <1>8, OwedFinite
  <1>. QED BY <1>7, <1>8

LEMMA NextDebts == TypeInv /\ DebtsAreLedgered /\ [Next]_vars => DebtsAreLedgered'
  <1>. SUFFICES ASSUME TypeInv, DebtsAreLedgered, [Next]_vars PROVE DebtsAreLedgered'
    OBVIOUS
  <1>1. TypeInv'
    BY TypePreserved
  <1>. DEFINE Unheard == UNCHANGED <<events, ledger>>
              NoNewDebt == \A x \in Calls : stage'[x] = "announcing" /\ Kind(x)' # "boost" =>
                               stage[x] = "announcing" /\ req'[x] = req[x]
  <1>2. Unheard /\ NoNewDebt => DebtsAreLedgered'
    BY <1>1, DebtsKept DEF Heard
  <1>3. ASSUME NEW c \in Calls, NEW r \in UsableRequests, LookUpKey(c, r)
        PROVE  Unheard /\ NoNewDebt
    <2>1. stage[c] = "new" /\ \E to \in {"replayed", "reading"} : Moves(c, "new", to)
      BY <1>3 DEF LookUpKey, Moves
    <2>. QED BY <1>3, <2>1 DEF LookUpKey, tables, Moves, TypeInv, TypeOK
  <1>4. ASSUME NEW c \in Calls, CreatePayment(c) \/ LoadDonation(c) \/ RejectPayment(c)
        PROVE  Unheard /\ NoNewDebt
    <2>1. /\ UNCHANGED <<req, events, ledger>>
          /\ \E from \in Stages, to \in {"writing", "error"} : Moves(c, from, to)
      BY <1>4 DEF CreatePayment, LoadDonation, RejectPayment, tables, Stages
    <2>. QED BY <2>1 DEF Moves, TypeInv, TypeOK
  <1>5. ASSUME NEW c \in Calls, CommitIntent(c) \/ CommitDeclined(c) \/ CommitBoost(c)
        PROVE  Unheard /\ NoNewDebt
    <2>1. /\ UNCHANGED <<req, events, ledger>>
          /\ \A x \in Calls : x # c => stage'[x] = stage[x]
          /\ stage'[c] = "announcing" => Kind(c) = "boost"
      BY <1>5, MovesEffect DEF CommitIntent, CommitDeclined, CommitBoost, TypeInv, Stages
    <2>. QED BY <2>1 DEF Kind
  <1>6. ASSUME NEW c \in Calls, CancelBoost(c) PROVE Unheard /\ NoNewDebt
    BY <1>6 DEF CancelBoost, callVars
  <1>7. ASSUME NEW c \in Calls, PublishDeclined(c) PROVE DebtsAreLedgered'
    <2>1. UNCHANGED <<req, ledger>> /\ NoNewDebt
      BY <1>7 DEF PublishDeclined, tables, Moves, TypeInv, TypeOK
    <2>2. \A d \in Calls : Heard(d)' = Heard(d)
      BY <1>7 DEF PublishDeclined, Heard, TypeInv, TypeOK, Topics
    <2>. QED BY <1>1, <2>1, <2>2, DebtsKept
  <1>8. ASSUME NEW c \in Calls, Announce(c) \/ GiveUp(c) PROVE DebtsAreLedgered'
    <2>1. /\ UNCHANGED <<req, ledger>>
          /\ \E to \in {"ok", "error"} : stage' = [stage EXCEPT ![c] = to]
          /\ UNCHANGED events \/ (stage[c] = "announcing" /\ events' = Announcement(c))
      BY <1>8 DEF Announce, GiveUp, Moves, tables
    <2>2. CASE UNCHANGED events
      BY <1>2, <2>1, <2>2 DEF TypeInv, TypeOK
    <2>3. CASE stage[c] = "announcing" /\ events' = Announcement(c)
      BY <1>1, <2>1, <2>3, DebtsPaid
    <2>. QED BY <2>1, <2>2, <2>3
  <1>9. CASE UNCHANGED vars
    BY <1>2, <1>9 DEF vars, callVars, tables, Kind
  <1>. HIDE DEF Unheard, NoNewDebt
  <1>. QED
    BY <1>1, <1>2, <1>3, <1>4, <1>5, <1>6, <1>7, <1>8, <1>9, DebtsTaken DEF Next, Confirm

\* The service never publishes more successes and grants of a donation or a
\* purchase than the ledger has entries of it, whichever calls fail on the way.
THEOREM SpecAnnouncedIsLedgered == Spec => []AnnouncedIsLedgered
  <1>1. Init => TypeInv /\ DebtsAreLedgered
    BY InitIInv DEF IInv
  <1>2. TypeInv /\ DebtsAreLedgered /\ [Next]_vars => (TypeInv /\ DebtsAreLedgered)'
    BY TypePreserved, NextDebts
  <1>3. TypeInv /\ DebtsAreLedgered => AnnouncedIsLedgered
    <2>. SUFFICES ASSUME TypeInv, DebtsAreLedgered, NEW d \in Calls PROVE Heard(d) <= ledger[d]
      BY DEF AnnouncedIsLedgered, Heard
    <2>1. Cardinality(Owed(d)) \in Nat /\ Heard(d) \in Nat /\ ledger[d] \in Nat
      BY OwedFinite, NumbersFit DEF TypeInv
    <2>2. Heard(d) + Cardinality(Owed(d)) <= ledger[d]
      BY DEF DebtsAreLedgered, Heard
    <2>. QED BY <2>1, <2>2
  <1>4. QED BY <1>1, <1>2, <1>3, PTL DEF Spec

=============================================================================
