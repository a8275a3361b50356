----------------------------- MODULE PayerWorld ------------------------------
(***************************************************************************)
(* What a payer command reads from the outside and how it decides on it:   *)
(* the merchant's live payment request (request.ts, readiness.ts),         *)
(* broadcaster quotes (broadcaster/session.ts), the readings of several    *)
(* RPC providers (railgun/rpc-quorum.ts) and a broadcaster's answer        *)
(* (broadcaster/failures.ts).  Paths are under tools/ppops-payer/src.      *)
(*                                                                         *)
(* Malformed quotes, requests and receipts, of which there are many kinds, *)
(* are one kind each here: a quote that is not fit, a request whose        *)
(* descriptor does not verify, no reading.                                 *)
(***************************************************************************)
EXTENDS Integers, FiniteSets

CONSTANTS
  Broadcasters,    \* 0zk addresses of broadcasters
  QuoteSpace,      \* the fee quotes they may publish
  MinValidity,     \* minimumQuoteValidityMs
  Providers,       \* configured RPC endpoints
  Faulty,          \* those of them that answer anything
  Amount,          \* atomic amount of the request
  ExpiresAt        \* its expiry

Quotes == [addr : Broadcasters, rate : Nat \ {0}, expiry : Int, fit : BOOLEAN]

\* Math.max(2, Math.floor(providerCount / 2) + 1)
RequiredAgreement ==
  LET majority == Cardinality(Providers) \div 2 + 1
  IN  IF majority < 2 THEN 2 ELSE majority

ASSUME WorldAssumption ==
  /\ QuoteSpace \subseteq Quotes
  /\ IsFiniteSet(Providers) /\ Faulty \subseteq Providers
  /\ Cardinality(Faulty) < RequiredAgreement
  /\ MinValidity \in Nat /\ Amount \in Nat \ {0} /\ ExpiresAt \in Nat

(***************************************************************************)
(* The payment request                                                     *)
(***************************************************************************)
\* Of PaymentRequestSchema, what the checks on a live request look at.
Requests ==
  [status : {"OPEN", "PARTIAL", "PAID", "PAID_LATE", "EXPIRED"},
   received : BOOLEAN, pending : BOOLEAN, ready : BOOLEAN, awaiting : BOOLEAN,
   genuine : BOOLEAN]

FreshRequest ==
  [status |-> "OPEN", received |-> FALSE, pending |-> FALSE, ready |-> TRUE,
   awaiting |-> TRUE, genuine |-> TRUE]

\* verifyPaymentRequest: the descriptor verifies and the request is still free.
Accepted(request, now) ==
  /\ request.genuine
  /\ request.status = "OPEN" /\ ~request.received /\ ~request.pending
  /\ ExpiresAt > now
  /\ request.ready /\ request.awaiting

\* Wrong variant: a request under review is ready to be paid.
ReadinessIgnoringReview(request, now, spendable, preparing, budget) ==
  CASE request.status \in {"PAID", "PAID_LATE"} \/ request.received \/ request.pending ->
         "REQUEST_NOT_PAYABLE"
    [] ExpiresAt <= now \/ request.status = "EXPIRED" -> "REQUEST_EXPIRED"
    [] ~request.ready -> "RAIL_UNAVAILABLE"
    [] spendable >= Amount + budget -> "READY"
    [] spendable + preparing >= Amount + budget -> "PRIVATE_BALANCE_PENDING"
    [] OTHER -> "INSUFFICIENT_PRIVATE_BALANCE"

\* payerReadiness of a synchronized wallet; the first condition that holds decides
Readiness(request, now, spendable, preparing, budget) ==
  LET funded == request.status \in {"PAID", "PAID_LATE"} \/ request.received \/ request.pending
      over   == ExpiresAt <= now \/ request.status = "EXPIRED"
      closed == request.status # "OPEN" \/ ~request.awaiting
  IN  IF funded THEN "REQUEST_NOT_PAYABLE"
      ELSE IF over THEN "REQUEST_EXPIRED"
      ELSE IF closed THEN "REQUEST_NOT_PAYABLE"
      ELSE IF ~request.ready THEN "RAIL_UNAVAILABLE"
      ELSE IF spendable >= Amount + budget THEN "READY"
      ELSE IF spendable + preparing >= Amount + budget THEN "PRIVATE_BALANCE_PENDING"
      ELSE "INSUFFICIENT_PRIVATE_BALANCE"

(***************************************************************************)
(* Broadcaster quotes                                                      *)
(***************************************************************************)
\* validateBroadcaster
Valid(q, now) == q.fit /\ q.expiry >= now + MinValidity

\* the quote's fingerprint; its reliability and wallets are not part of it
Fingerprint(q) == [addr |-> q.addr, rate |-> q.rate, expiry |-> q.expiry]

\* Wrong variant: any live quote of the same broadcaster will do.
SameBroadcaster(q, expected) == q.addr = expected.addr

\* proofCompatibleQuote: the proof pays this address, in this token, this much
ProofCompatible(q, expected) == q.addr = expected.addr /\ q.rate = expected.rate

\* selectSubmissionBroadcaster: the quote itself if it is still there, or else a
\* compatible one (whichever the client lists first)
SubmissionQuotes(board, expected, now) ==
  LET live == {q \in board : Valid(q, now)}
      same == {q \in live : Fingerprint(q) = Fingerprint(expected)}
  IN  IF same # {} THEN same ELSE {q \in live : ProofCompatible(q, expected)}

\* Wrong variant: the broadcasters already tried are not left out.
DiscoverableWithTried(board, excluded, now) ==
  LET live == {q \in board : Valid(q, now)}
  IN  {q \in live : \A other \in live : q.rate <= other.rate}

\* selectDiscoverableBroadcaster and compareDiscoverableBroadcasters: the cheapest;
\* reliability and the fingerprint break ties
DiscoverableQuotes(board, excluded, now) ==
  LET eligible == {q \in board : Valid(q, now) /\ q.addr \notin excluded}
  IN  {q \in eligible : \A other \in eligible : q.rate <= other.rate}

(***************************************************************************)
(* Several providers                                                       *)
(***************************************************************************)
\* Readings: a positive value for every provider that answered in time.
Answered(readings) == {p \in Providers : readings[p] > 0}

\* Wrong variant: the lower of the two middle readings.
LowerMiddle(readings) ==
  LET healthy == Answered(readings)
      k == (Cardinality(healthy) - 1) \div 2
  IN  {v \in {readings[p] : p \in healthy} :
         /\ Cardinality({p \in healthy : readings[p] < v}) <= k
         /\ Cardinality({p \in healthy : readings[p] <= v}) > k}

\* healthy[Math.floor(healthy.length / 2)] of the sorted readings
Middle(readings) ==
  LET healthy == Answered(readings)
      k == Cardinality(healthy) \div 2
  IN  {v \in {readings[p] : p \in healthy} :
         /\ Cardinality({p \in healthy : readings[p] < v}) <= k
         /\ Cardinality({p \in healthy : readings[p] <= v}) > k}

\* selectConservativeLegacyGasPrice and selectConservativeGasEstimate; no value
\* when too few providers answered
Conservative(readings) ==
  IF Cardinality(Answered(readings)) < RequiredAgreement THEN {} ELSE Middle(readings)

\* Wrong variant: one receipt is enough.
AnyReceipt(receipts) ==
  {v \in {receipts[p] : p \in Providers} : v # "none"}

\* selectReceiptQuorum: the receipt that enough providers agree on
ReceiptQuorum(receipts) ==
  {v \in {receipts[p] : p \in Providers} :
     v # "none" /\ Cardinality({p \in Providers : receipts[p] = v}) >= RequiredAgreement}

(***************************************************************************)
(* A broadcaster's answer                                                  *)
(***************************************************************************)
\* What send() may do: return a hash or something else, or throw an error of the
\* broadcaster that is in one of the two tables or in neither, or time out.
Answers == {"hash", "malformed hash", "definitive", "ambiguous", "unknown", "timed out"}

\* submitPrepared, classifyDefinitiveBroadcasterRejection and
\* classifyAmbiguousBroadcasterResponse: what is not known for certain is ambiguous
Classify(answer) ==
  CASE answer = "hash" -> "reported"
    [] answer = "definitive" -> "rejected"
    [] OTHER -> "ambiguous"
=============================================================================
