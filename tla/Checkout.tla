------------------------------ MODULE Checkout -------------------------------
(***************************************************************************)
(* What a customer sees of an intent: the stage the API derives from its   *)
(* projection and its settlements (src/api/payin.ts), the public request   *)
(* it serves (GET /pay/:id/request.json in src/api/app.ts), and what the   *)
(* checkout page makes of it (src/api/checkout-model.ts).                  *)
(*                                                                         *)
(* The stage is a second reading of the rows the projection was computed   *)
(* from, and the page combines both with a clock of its own; Reconciliation *)
(* supplies every pair of rows and projection that can come about.  The    *)
(* signed descriptor never changes and is left out.                        *)
(***************************************************************************)
EXTENDS Reconciliation

Stages ==
  {"AWAITING_PAYMENT", "PAYMENT_DETECTED", "PRIVACY_CHECKS_PENDING", "PAYMENT_COMPLETE",
   "PAYMENT_REVERTED"}

\* listSettlementsForIntent, and the filter of paymentStage
MatchedNotes(i) ==
  {n \in DOMAIN ledger : ledger[n].matchStatus = "MATCHED" /\ ledger[n].intent = i}

\* Finalized notes that only wait for their proof of innocence cover the amount.
OnlyPrivacyMissing(i) ==
  LET waiting == {n \in MatchedNotes(i) :
                    ledger[n].chainStatus = "FINALIZED" /\ ledger[n].poiStatus # "SPENDABLE"}
  IN  waiting # {} /\ AddAmounts(waiting) + projections[i].received >= Expected[i]

\* Wrong variant: a reversal is forgotten as soon as nothing is pending.
PaymentStageForgetful(i) ==
  IF IsPaid(projections[i]) THEN "PAYMENT_COMPLETE"
  ELSE IF OnlyPrivacyMissing(i) THEN "PRIVACY_CHECKS_PENDING"
  ELSE IF projections[i].pending > 0 THEN "PAYMENT_DETECTED"
  ELSE "AWAITING_PAYMENT"

PaymentStage(i) ==
  IF IsPaid(projections[i]) THEN "PAYMENT_COMPLETE"
  ELSE IF OnlyPrivacyMissing(i) THEN "PRIVACY_CHECKS_PENDING"
  ELSE IF projections[i].pending > 0 THEN "PAYMENT_DETECTED"
  ELSE IF \E n \in MatchedNotes(i) : ledger[n].chainStatus = "REVERTED" THEN "PAYMENT_REVERTED"
  ELSE "AWAITING_PAYMENT"

\* GET /pay/:id/request.json; ready is the daemon's railgunReady
RequestJson(i, ready) ==
  [status   |-> projections[i].status,
   received |-> projections[i].received,
   pending  |-> projections[i].pending,
   amount   |-> Expected[i],
   expiresAt |-> ExpiresAt[i],
   stage    |-> PaymentStage(i),
   ready    |-> ready]

\* verifyCheckoutRequest: a page that gets anything else shows no request at all
VerifyCheckoutRequest(request) ==
  LET complete == IsPaid(request) IN
  /\ request.stage \in Stages
  /\ request.amount > 0
  /\ complete <=> request.stage = "PAYMENT_COMPLETE"
  /\ complete => request.received >= request.amount

\* checkoutPresentation: the page's headline, and whether it offers to pay
Expired(request, clock) == clock >= request.expiresAt
Partial(request) == ~IsPaid(request) /\ request.received > 0

Title(request, clock) ==
  IF request.status = "PAID" THEN "Payment complete"
  ELSE IF request.status = "PAID_LATE" THEN "Payment received after expiration"
  ELSE IF request.stage = "PAYMENT_REVERTED" THEN "Payment needs review"
  ELSE IF request.stage = "PRIVACY_CHECKS_PENDING" THEN "Payment confirmed onchain"
  ELSE IF request.pending > 0 THEN "Payment detected"
  ELSE IF Partial(request) THEN "Partial payment"
  ELSE IF Expired(request, clock) \/ request.status = "EXPIRED" THEN "Payment request expired"
  ELSE "Awaiting payment"

CanPay(request, clock) ==
  /\ ~IsPaid(request) /\ ~Expired(request, clock) /\ request.pending = 0 /\ ~Partial(request)
  /\ request.status = "OPEN"
  /\ request.stage = "AWAITING_PAYMENT"
  /\ request.ready

(***************************************************************************)
(* Property                                                                *)
(***************************************************************************)
\* The page tells a customer that no payment has been seen, whether the request
\* is open or over, exactly when no payment of the intent is stored - not even
\* one that was reverted; it offers to pay only then; and it can always verify
\* what the API serves, whatever its own clock says (paymentStage,
\* verifyCheckoutRequest, checkoutPresentation).
CheckoutKnowsThePayments ==
  \A i \in DOMAIN projections, clock \in 0..MaxTime + 1 :
    LET request == RequestJson(i, TRUE)
        title   == Title(request, clock)
    IN  /\ VerifyCheckoutRequest(request)
        /\ title \in {"Awaiting payment", "Payment request expired"} <=> MatchedNotes(i) = {}
        /\ CanPay(request, clock) => title = "Awaiting payment"
=============================================================================
