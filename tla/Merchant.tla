------------------------------ MODULE Merchant ------------------------------
(***************************************************************************)
(* The outbox (module Outbox) delivering the events of one payment intent  *)
(* to the merchant of src/examples/merchant.ts: one order, MerchantStore's *)
(* accept transaction as the receiver, and the reconciler as the writer.   *)
(***************************************************************************)
EXTENDS Outbox, Sequences, SequencesExt

VARIABLES
  intentStatus,   \* status of the projection the reconciler last stored
  expired,        \* the clock of the daemon has passed expiresAt
  payload,        \* what each written event says: its type and intentStatus
  linked,         \* orders.intent_id is set
  orderStatus,    \* orders.status
  shipped,        \* how often the fulfilment statement has run
  receipts        \* table webhook_receipts in the order of insertion

intentVars   == <<intentStatus, expired, payload>>
merchantVars == <<linked, orderStatus, shipped, receipts>>
allVars == <<vars, intentVars, merchantVars>>

Paid == {"PAID", "PAID_LATE"}

(***************************************************************************)
(* The writer                                                              *)
(***************************************************************************)
\* transitionEventType over the statuses one intent can take here; a part
\* payment is left out, the merchant records and ignores it.
EventTypes(previous, next) ==
  IF previous \in Paid /\ next \notin Paid THEN {"payment.reverted"}
  ELSE IF previous \notin Paid /\ next \in Paid THEN {"payment.confirmed"}
  ELSE IF previous # "EXPIRED" /\ next = "EXPIRED" THEN {"payment.expired"}
  ELSE {}

\* A rebuild stores a new status and writes its event.  refreshExpirations rebuilds
\* what is open, after the expiry; the scan rebuilds what it has reconciled.
Rebuild(next) ==
  /\ next # intentStatus
  /\ phase = "expire" => intentStatus = "OPEN" /\ next = "EXPIRED"
  /\ next = "OPEN" => ~expired
  /\ intentStatus' = next
  /\ expired' = (expired \/ next \in {"EXPIRED", "PAID_LATE"})
  /\ IF EventTypes(intentStatus, next) = {}
       THEN /\ phase = "scan"
            /\ UNCHANGED <<vars, payload>>
       ELSE /\ WriteEvent
            /\ \E type \in EventTypes(intentStatus, next) :
                 payload' = [e \in DOMAIN outbox' |->
                               IF e \in Written THEN payload[e]
                               ELSE [type |-> type, intentStatus |-> next]]
  /\ UNCHANGED merchantVars

(***************************************************************************)
(* The merchant                                                            *)
(***************************************************************************)
Recorded == ToSet(receipts)

\* POST /orders/:id reserved the order and created the intent; link stores the
\* intent's id.  It may come late: the answer of createIntent can be lost, and
\* the customer's retry of the same order is what links it.
Link ==
  /\ ~linked
  /\ linked' = TRUE
  /\ UNCHANGED <<vars, intentVars, orderStatus, shipped, receipts>>

\* Wrong variant: an event of an unknown order is acknowledged and dropped.
AcknowledgeUnknownOrder(e) == TRUE

\* accept throws, and its transaction rolls back, if no order has the intent.
Acceptable(e) == e \in Recorded \/ linked

\* Wrong variant: whether the order was fulfilled is read from its status.
UnfulfilledByStatus == orderStatus # "fulfilled"

Unfulfilled == shipped = 0

\* Wrong variant: only an order that still awaits its payment is reviewed.
ReviewsIfAwaiting == orderStatus = "awaiting_payment"

\* A reverted payment is reviewed whatever the order's status is.
ReviewsReverted == TRUE

\* The update of orders for the first receipt of an event.
Apply(event) ==
  LET Set(status) == orderStatus' = status /\ UNCHANGED shipped
      Ship == orderStatus' = "fulfilled" /\ shipped' = shipped + 1
  IN  CASE event.type = "payment.confirmed" /\ Unfulfilled ->
             IF event.intentStatus = "PAID" THEN Ship ELSE Set("needs_review")
        [] event.type = "payment.reverted" /\ ReviewsReverted -> Set("needs_review")
        [] event.type = "payment.expired" /\ orderStatus = "awaiting_payment" -> Set("expired")
        [] OTHER -> UNCHANGED <<orderStatus, shipped>>

\* MerchantStore.accept and the answer to its request.
Accept(r) ==
  LET e == r.event
      new == linked /\ e \notin Recorded
  IN  /\ Answer(r, Acceptable(e))
      /\ IF new THEN /\ receipts' = Append(receipts, e)
                     /\ Apply(payload[e])
                ELSE UNCHANGED <<receipts, orderStatus, shipped>>
      /\ UNCHANGED <<intentVars, linked>>

(***************************************************************************)
(* Specification                                                           *)
(***************************************************************************)
MerchantInit ==
  /\ Init
  /\ intentStatus = "OPEN" /\ expired = FALSE
  /\ payload = [e \in {} |-> [type |-> "payment.expired", intentStatus |-> "OPEN"]]
  /\ linked = FALSE /\ orderStatus = "awaiting_payment" /\ shipped = 0
  /\ receipts = <<>>

MerchantNext ==
  \/ (DaemonStep \/ ScanReturns \/ EnvironmentStep) /\ UNCHANGED <<intentVars, merchantVars>>
  \/ \E next \in {"OPEN", "EXPIRED"} \cup Paid : Rebuild(next)
  \/ Link
  \/ \E r \in requests : Accept(r)

MerchantSpec == MerchantInit /\ [][MerchantNext]_allVars

(***************************************************************************)
(* Properties                                                              *)
(***************************************************************************)
\* "This example fulfills on-time payments once": the order is shipped at most
\* once, however often its payment is confirmed, reverted, confirmed again,
\* delivered again or replayed (merchant.ts accept).
FulfilledOnce == shipped <= 1

\* What the daemon has crossed off as delivered, the merchant's database holds:
\* no answer is given before the receipt and the update of the order commit.
DeliveredIsRecorded ==
  \A e \in Written : outbox[e].status = "delivered" => e \in Recorded

\* The merchant has seen the last word on the payment, and it is a reversion.
RevertedForGood ==
  \E e \in Recorded :
    /\ payload[e].type = "payment.reverted"
    /\ \A f \in Written : f > e => payload[f].type # "payment.confirmed"

\* "Late or reverted payments go to manual review" (src/examples/merchant.ts).
RevertedGoToReview == RevertedForGood => orderStatus = "needs_review"

\* The same promise where no event overtook an earlier one on its way: retries
\* and duplicates alone do not break it.
RevertedGoToReviewInOrder ==
  (\A j, k \in DOMAIN receipts : j < k => receipts[j] < receipts[k]) => RevertedGoToReview
=============================================================================
