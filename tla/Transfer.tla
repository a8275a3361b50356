------------------------------ MODULE Transfer -------------------------------
(***************************************************************************)
(* One transfer command of the payer, from the first check to the exit     *)
(* code: prepare- and pay-self-signed, prepare-, pay- and                  *)
(* retry-broadcaster (tools/ppops-payer/src/cli.ts,                        *)
(* railgun/self-signed-transfer.ts, railgun/broadcaster-transfer.ts,       *)
(* broadcaster/session.ts).  A command takes minutes and everything it     *)
(* looked at may change meanwhile: quotes rotate and expire, gas prices    *)
(* move, the balance is spent elsewhere, the request is paid by someone    *)
(* else or expires, providers disagree.                                    *)
(*                                                                         *)
(* Payer is about several commands and the journal they share; here is the *)
(* record of one intent only, and a step of the command that awaits        *)
(* something is one action.                                                *)
(***************************************************************************)
EXTENDS PayerWorld

CONSTANTS
  Commands,        \* the commands that may be started
  Prices,          \* gas prices providers may report
  Gas,             \* gas estimates of a transfer
  FeeLimit,        \* --max-broadcaster-fee-atomic
  GasCostLimit,    \* --max-gas-cost-wei
  Balances,        \* spendable private balances
  ChangedRequests, \* what the request may turn into
  MaxTime, MaxBoard, MaxNonce   \* bounds of the instance

AllCommands ==
  {"prepare-self-signed", "pay-self-signed", "prepare-broadcaster", "pay-broadcaster",
   "retry-broadcaster"}

ASSUME TransferAssumption ==
  /\ Commands \subseteq AllCommands
  /\ Prices \subseteq Nat \ {0} /\ Gas \subseteq Nat \ {0} /\ Balances \subseteq Nat
  /\ FeeLimit \in Nat \ {0} /\ GasCostLimit \in Nat \ {0}
  /\ ChangedRequests \subseteq Requests \ {FreshRequest}
  /\ MaxTime \in Nat /\ MaxBoard \in Nat /\ MaxNonce \in Nat

NoQuote == [addr |-> "none"]

VARIABLES
  command,    \* the command
  pc,         \* the step it is at
  result,     \* what it will print: a failure code or an outcome
  now,        \* the clock
  board,      \* the quotes in the Waku client's cache
  client,     \* the Waku client: "off", "starting" or "on"
  request,    \* the live payment request
  changedEarly, \* history: it is another one, or was at the last look
  balance,    \* spendable private balance
  seen,       \* the balance the command has read
  price,      \* the gas price it uses
  floor,      \* history: the lowest price an honest provider gave it
  gas,        \* its gas estimate, the gas limit of a self-signed transaction
  charge,     \* broadcaster fee or gas cost of the proved transaction
  selected,   \* the quote the proof is made for
  prepared,   \* the quote the submission is encrypted for
  nonce,      \* nonce of the signed transaction
  account,    \* next nonce of the self-signing account on chain
  chain,      \* the intent's transaction: "none", "pool", "mined" or "failed"
  record      \* its record in the journal

run    == <<command>>
money  == <<seen, price, floor, gas, charge, selected, prepared, nonce>>
world  == <<now, board, request, changedEarly, balance>>
vars   == <<command, pc, result, now, board, client, request, changedEarly, balance, seen,
            price, floor, gas, charge, selected, prepared, nonce, account, chain, record>>

SelfSigned == command \in {"prepare-self-signed", "pay-self-signed"}
Submits    == command \notin {"prepare-self-signed", "prepare-broadcaster"}
Retries    == command = "retry-broadcaster"

NoRecord == [status |-> "none", tried |-> {}, quote |-> NoQuote, reported |-> FALSE]

\* The command throws, or returns early; the finally blocks follow.
Finish(outcome) ==
  /\ result' = outcome
  /\ pc' = IF SelfSigned \/ pc \in {"engine", "sync"} THEN "clean up" ELSE "stop session"

\* A step that passes or throws.
PassOrFail(label, code) ==
  \/ pc' = label /\ UNCHANGED result
  \/ Finish(code)

CallsOut == UNCHANGED <<command, now, board, request, changedEarly, balance, account>>

(***************************************************************************)
(* Starting                                                                *)
(***************************************************************************)
\* runBroadcaster and runSelfSigned check request, confirmation and limit, read the
\* configuration and the secrets, and withEngine takes the lock; a failure leaves
\* nothing to clean up.
StartFailures == {"REQUEST_INVALID", "CONFIG_INVALID", "SECRET_INVALID", "INTERNAL_ERROR"}

Start ==
  /\ pc = "start"
  /\ \/ pc' = "engine" /\ UNCHANGED result
     \/ pc' = "done" /\ result' \in StartFailures
  /\ CallsOut
  /\ UNCHANGED <<client, money, chain, record>>

\* PayerRailgunEngine.start, or it stops what it had started and throws.  Loading the
\* provider is limited to 90 s, the engine and the wallet are not.
EngineStarts ==
  /\ pc = "engine"
  /\ PassOrFail("sync", "ENGINE_START_FAILED")
  /\ CallsOut
  /\ UNCHANGED <<client, money, chain, record>>

\* The payer's address is compared, then syncBalances, which may take for ever; then
\* a broadcaster transfer starts its session.
Synchronizes ==
  /\ pc = "sync"
  /\ \/ \E code \in {"SECRET_INVALID", "SYNC_FAILED"} : Finish(code) /\ UNCHANGED client
     \/ SelfSigned /\ pc' = "check" /\ UNCHANGED <<result, client>>
     \/ ~SelfSigned /\ pc' = "session start" /\ client' = "starting" /\ UNCHANGED result
  /\ CallsOut
  /\ UNCHANGED <<money, chain, record>>

\* the Waku client's own start; it may take for ever
ClientUp ==
  /\ client = "starting"
  /\ client' = "on"
  /\ UNCHANGED <<run, pc, result, world, money, account, chain, record>>

SessionStarted ==
  /\ pc = "session start" /\ client = "on"
  /\ pc' = "check"
  /\ CallsOut
  /\ UNCHANGED <<result, client, money, chain, record>>

\* Wrong variant: without withTimeout the start is only over when the client says so.
StartFailsByItself ==
  /\ pc = "session start" /\ client = "on"
  /\ client' = "off"
  /\ Finish("BROADCASTER_UNAVAILABLE")
  /\ CallsOut
  /\ UNCHANGED <<money, chain, record>>

\* BroadcasterSession.start throws, at the latest after peerDiscoveryTimeout plus
\* 30 s; a client that is up only later is stopped then (LateStop).
SessionStartFails ==
  /\ pc = "session start"
  /\ client' = IF client = "on" THEN "off" ELSE client
  /\ Finish("BROADCASTER_UNAVAILABLE")
  /\ CallsOut
  /\ UNCHANGED <<money, chain, record>>

LateStop ==
  /\ pc \in {"stop session", "clean up"}
  /\ client = "on" /\ result = "BROADCASTER_UNAVAILABLE"
  /\ client' = "off"
  /\ UNCHANGED <<run, pc, result, world, money, account, chain, record>>

\* assertUnused or assertBroadcasterRetryable, then the balance
Check ==
  /\ pc = "check"
  /\ IF record.status # (IF Retries THEN "SUBMITTING" ELSE "none") \/ record.reported
       THEN Finish("SUBMISSION_ALREADY_RECORDED") /\ UNCHANGED seen
     ELSE IF balance < Amount
       THEN Finish("INSUFFICIENT_PRIVATE_BALANCE") /\ UNCHANGED seen
     ELSE seen' = balance /\ pc' = "price" /\ UNCHANGED result
  /\ CallsOut
  /\ UNCHANGED <<client, price, floor, gas, charge, selected, prepared, nonce, chain, record>>

(***************************************************************************)
(* Gas prices                                                              *)
(***************************************************************************)
\* what the providers answer, 0 for a provider that did not
Readings == [Providers -> Prices \cup {0}]

\* the lowest price an honest provider reports, 0 if none answers
HonestLow(readings) ==
  LET honest == {readings[p] : p \in Answered(readings) \ Faulty}
  IN  IF honest = {} THEN {0} ELSE {v \in honest : \A w \in honest : v <= w}

\* readConservativeLegacyGasPrice, where a request ends after 15 s at the latest
ReadGasPrice ==
  /\ pc = "price" /\ ~SelfSigned
  /\ \E readings \in Readings :
       IF Conservative(readings) = {}
         THEN Finish("RPC_UNAVAILABLE") /\ UNCHANGED <<price, floor>>
         ELSE /\ price' \in Conservative(readings)
              /\ floor' \in HonestLow(readings)
              /\ pc' = "discover" /\ UNCHANGED result
  /\ CallsOut
  /\ UNCHANGED <<client, seen, gas, charge, selected, prepared, nonce, chain, record>>

\* selectProvider: the first provider that answers, whatever it answers and however
\* late
SelectProvider ==
  /\ pc = "price" /\ SelfSigned
  /\ \/ \E fee \in Prices : price' = fee /\ pc' = "estimate" /\ UNCHANGED result
     \/ Finish("RPC_UNAVAILABLE") /\ UNCHANGED price
  /\ CallsOut
  /\ UNCHANGED <<client, seen, floor, gas, charge, selected, prepared, nonce, chain, record>>

(***************************************************************************)
(* Estimating and proving                                                  *)
(***************************************************************************)
\* BroadcasterSession.discover polls the cache every second until the deadline, which
\* it looks at between two calls of peerCounts only; the addresses of the record and
\* of its retries are excluded.
Discover ==
  /\ pc = "discover"
  /\ \/ /\ selected' \in DiscoverableQuotes(board, record.tried, now)
        /\ pc' = "estimate" /\ UNCHANGED result
     \/ Finish("BROADCASTER_UNAVAILABLE") /\ UNCHANGED selected
  /\ CallsOut
  /\ UNCHANGED <<client, seen, price, floor, gas, charge, prepared, nonce, chain, record>>

\* calculateGasLimit leaves a margin over the estimate
GasLimit(estimate) == estimate + 1

\* assertBroadcasterFeeWithinLimit
FeeWithinLimit(fee) == fee > 0 /\ fee <= FeeLimit

\* gasEstimateForUnprovenTransfer; a broadcaster's fee follows from it
Estimate ==
  /\ pc = "estimate"
  /\ \/ Finish("PROOF_FAILED") /\ UNCHANGED <<gas, charge>>
     \/ \E estimate \in Gas :
          LET fee == selected.rate * estimate * price IN
          IF SelfSigned
            THEN gas' = GasLimit(estimate) /\ pc' = "prove" /\ UNCHANGED <<result, charge>>
            ELSE /\ gas' = estimate
                 /\ charge' = fee
                 /\ IF ~FeeWithinLimit(fee) THEN Finish("BROADCASTER_FEE_LIMIT_EXCEEDED")
                    ELSE IF seen < Amount + fee THEN Finish("INSUFFICIENT_PRIVATE_BALANCE")
                    ELSE pc' = "prove" /\ UNCHANGED result
  /\ CallsOut
  /\ UNCHANGED <<client, seen, price, floor, selected, prepared, nonce, chain, record>>

\* generateTransferProof spends notes that are there now, not those seen before.
Prove ==
  /\ pc = "prove"
  /\ LET needed == IF SelfSigned THEN Amount ELSE Amount + charge
     IN  \/ balance >= needed /\ pc' = (IF SelfSigned THEN "refresh" ELSE "populate")
                              /\ UNCHANGED result
         \/ Finish("PROOF_FAILED")
  /\ CallsOut
  /\ UNCHANGED <<client, money, chain, record>>

\* assertGasCostWithinLimit, against the limit parseGasCostLimit accepted
GasCostWithinLimit(cost) == cost <= GasCostLimit

\* the self-signed transfer's fees are read again after the proof
Refresh ==
  /\ pc = "refresh"
  /\ \/ Finish("RPC_UNAVAILABLE") /\ UNCHANGED <<price, charge>>
     \/ \E fee \in Prices :
          /\ price' = fee /\ charge' = gas * fee
          /\ IF ~GasCostWithinLimit(gas * fee) THEN Finish("GAS_LIMIT_EXCEEDED")
             ELSE pc' = "populate" /\ UNCHANGED result
  /\ CallsOut
  /\ UNCHANGED <<client, seen, floor, gas, selected, prepared, nonce, chain, record>>

\* populateProvedTransfer; for a broadcaster also assertPopulatedPrivateTransfer,
\* assertPopulatedNullifiers and assertBroadcasterNullifiersAvailable
Populate ==
  /\ pc = "populate"
  /\ PassOrFail(IF SelfSigned THEN "revalidate" ELSE "simulate", "POPULATE_FAILED")
  /\ CallsOut
  /\ UNCHANGED <<client, money, chain, record>>

\* simulatePopulatedTransferQuorum: enough providers must accept the call
Simulate ==
  /\ pc = "simulate"
  /\ \E healthy \in SUBSET Providers :
       IF Cardinality(healthy) >= RequiredAgreement
         THEN pc' = "revalidate" /\ UNCHANGED result
         ELSE Finish("RPC_UNAVAILABLE")
  /\ CallsOut
  /\ UNCHANGED <<client, money, chain, record>>

(***************************************************************************)
(* The last look at the world                                              *)
(***************************************************************************)
\* assertRequestStillOpen
StillOpen == ExpiresAt > now

\* The live request is the same as at the start and may be paid.
StillTheSame == StillOpen /\ Accepted(request, now) /\ request = FreshRequest

\* loadPaymentRequest gives up after 15 s, or on anything but a bounded JSON answer.
LoadFails == Finish("REQUEST_INVALID")

\* assertQuoteStillCurrent and prepareSubmission right after revalidateLiveRequest:
\* nothing is awaited between them.
LastLookBroadcaster ==
  /\ pc = "revalidate" /\ ~SelfSigned
  /\ \/ LoadFails /\ UNCHANGED prepared
     \/ IF ~StillTheSame THEN Finish("REQUEST_INVALID") /\ UNCHANGED prepared
        ELSE IF SubmissionQuotes(board, selected, now) = {}
          THEN Finish("BROADCASTER_INVALID_QUOTE") /\ UNCHANGED prepared
        ELSE IF Submits
          THEN prepared' \in SubmissionQuotes(board, selected, now) /\ pc' = "encrypt"
               /\ UNCHANGED result
          ELSE Finish("prepared") /\ UNCHANGED prepared
  /\ CallsOut
  /\ UNCHANGED <<client, seen, price, floor, gas, charge, selected, nonce, chain, record>>

LastLookSelfSigned ==
  /\ pc = "revalidate" /\ SelfSigned
  /\ \/ LoadFails
     \/ IF StillTheSame THEN pc' = "account" /\ UNCHANGED result ELSE Finish("REQUEST_INVALID")
  /\ CallsOut
  /\ UNCHANGED <<client, money, chain, record>>

\* gas balance and pending nonce; prepare-self-signed stops here
ReadAccount ==
  /\ pc = "account"
  /\ nonce' = account
  /\ \/ Finish("RPC_UNAVAILABLE")
     \/ Finish("INSUFFICIENT_GAS_BALANCE")
     \/ IF Submits THEN pc' = "sign" /\ UNCHANGED result ELSE Finish("prepared")
  /\ CallsOut
  /\ UNCHANGED <<client, seen, price, floor, gas, charge, selected, prepared, chain, record>>

\* buildBoundedSelfSignedTransaction and signBoundedSelfSignedTransaction
Sign ==
  /\ pc = "sign"
  /\ PassOrFail("reserve", "POPULATE_FAILED")
  /\ CallsOut
  /\ UNCHANGED <<client, money, chain, record>>

\* BroadcasterTransaction.create
Encrypt ==
  /\ pc = "encrypt"
  /\ PassOrFail("reserve", "BROADCASTER_SUBMISSION_FAILED")
  /\ CallsOut
  /\ UNCHANGED <<client, money, chain, record>>

(***************************************************************************)
(* Reserving, sending and following up                                     *)
(***************************************************************************)
\* reserve, reserveBroadcaster or reserveBroadcasterRetry.  Only the last two have
\* a name for a failed write.
ReserveRecord ==
  /\ pc = "reserve"
  /\ \/ /\ record' = [record EXCEPT !.status = "SUBMITTING",
                        !.tried = IF SelfSigned THEN @ ELSE @ \cup {prepared.addr},
                        !.quote = prepared]
        /\ pc' = "send" /\ UNCHANGED result
     \/ /\ Finish(IF SelfSigned THEN "INTERNAL_ERROR" ELSE "JOURNAL_UPDATE_FAILED")
        /\ UNCHANGED record
  /\ CallsOut
  /\ UNCHANGED <<client, money, chain>>

\* The journal cannot be written: the record stays as it was, whatever happened.
WriteFails == Finish("JOURNAL_UPDATE_FAILED") /\ UNCHANGED record

\* broadcastTransaction, then markSubmitted: the call may fail though the
\* transaction went through; a faulty provider may accept it and publish nothing.
SendSelfSigned ==
  /\ pc = "send" /\ SelfSigned
  /\ \/ /\ chain' \in IF Faulty = {} THEN {"pool"} ELSE {"none", "pool"}
        /\ \/ /\ record' = [record EXCEPT !.status = "SUBMITTED"]
              /\ pc' = "receipt" /\ UNCHANGED result
           \/ WriteFails
     \/ chain' \in {"none", "pool"} /\ Finish("SUBMISSION_FAILED") /\ UNCHANGED record
  /\ CallsOut
  /\ UNCHANGED <<client, money>>

\* submitPrepared and what the journal makes of the answer.  A broadcaster that
\* rejects definitively has not published the transaction; after any other answer
\* it may have.
SendBroadcaster ==
  /\ pc = "send" /\ ~SelfSigned
  /\ \E answer \in Answers :
       LET verdict == Classify(answer) IN
       /\ chain' \in IF answer = "definitive" \/ chain # "none" THEN {chain}
                     ELSE {"none", "pool"}
       /\ \/ verdict = "reported" /\ record' = [record EXCEPT !.reported = TRUE]
             /\ pc' = "lookup" /\ UNCHANGED result
          \/ verdict = "rejected" /\ Finish("BROADCASTER_REJECTED")
             /\ record' = IF Retries THEN record ELSE [record EXCEPT !.status = "REJECTED"]
          \/ verdict = "ambiguous" /\ Finish("BROADCASTER_SUBMISSION_FAILED")
             /\ UNCHANGED record
          \/ WriteFails
  /\ CallsOut
  /\ UNCHANGED <<client, money>>

\* syncBalances and recoverTransactionHashForNullifiers, then markSubmitted
Lookup ==
  /\ pc = "lookup"
  /\ \/ \E outcome \in {"pending", "SYNC_FAILED", "RECEIPT_UNAVAILABLE"} :
          Finish(outcome) /\ UNCHANGED record
     \/ /\ chain = "mined"
        /\ \/ /\ record' = [record EXCEPT !.status = "SUBMITTED"]
              /\ pc' = "receipt" /\ UNCHANGED result
           \/ WriteFails
  /\ CallsOut
  /\ UNCHANGED <<client, money, chain>>

\* what providers say of the receipt: honest ones the truth, or nothing yet
Receipts ==
  {receipts \in [Providers -> {"none", "mined", "failed"}] :
     \A p \in Providers \ Faulty : receipts[p] \in {"none", chain}}

Recorded(status) ==
  \/ /\ record' = [record EXCEPT !.status = IF status = "mined" THEN "MINED" ELSE "REVERTED"]
     /\ Finish(IF status = "mined" THEN "mined" ELSE "TRANSACTION_REVERTED")
  \/ WriteFails

\* readReceiptQuorum and markMined
ReceiptBroadcaster ==
  /\ pc = "receipt" /\ ~SelfSigned
  /\ \E receipts \in Receipts :
       IF ReceiptQuorum(receipts) = {} THEN Finish("pending") /\ UNCHANGED record
       ELSE \E status \in ReceiptQuorum(receipts) : Recorded(status)
  /\ CallsOut
  /\ UNCHANGED <<client, money, chain>>

\* response.wait: the receipt of the one provider that was selected, 120 s without
\* one, another transaction with the nonce, or an error
ReceiptSelfSigned ==
  /\ pc = "receipt" /\ SelfSigned
  /\ \/ \E status \in {"mined", "failed"} :
          (chain = status \/ Faulty # {}) /\ Recorded(status)
     \/ Finish("pending") /\ UNCHANGED record
     \/ chain = "pool" /\ account > nonce /\ Finish("TRANSACTION_REPLACED") /\ UNCHANGED record
     \/ Finish("RECEIPT_UNAVAILABLE") /\ UNCHANGED record
  /\ CallsOut
  /\ UNCHANGED <<client, money, chain>>

(***************************************************************************)
(* Ending                                                                  *)
(***************************************************************************)
\* BroadcasterSession.stop gives up after 15 s; its error replaces the result.
StopSession ==
  /\ pc = "stop session"
  /\ \/ client' = "off" /\ UNCHANGED result
     \/ result' = "BROADCASTER_UNAVAILABLE" /\ UNCHANGED client
  /\ pc' = "clean up"
  /\ CallsOut
  /\ UNCHANGED <<money, chain, record>>

\* engine.stop, then lock.release; an error of either replaces the result.
CleanUp ==
  /\ pc = "clean up"
  /\ result' \in {result, "ENGINE_STOP_FAILED"}
  /\ pc' = "done"
  /\ CallsOut
  /\ UNCHANGED <<client, money, chain, record>>

(***************************************************************************)
(* The world                                                               *)
(***************************************************************************)
own == <<command, pc, result, client, money, record>>

\* The world is followed as long as the command still looks at it.
Running == result = "none"
Reading ==
  {"check", "price", "discover", "estimate", "prove", "refresh", "populate", "simulate",
   "revalidate"}

Tick ==
  /\ pc \in Reading /\ now < MaxTime
  /\ now' = now + 1
  /\ UNCHANGED <<own, board, request, changedEarly, balance, account, chain>>

\* A quote is published, or dropped from the cache of the running client.
Rotate ==
  /\ client = "on" /\ pc \in Reading \ {"check", "price"}
  /\ \/ \E q \in QuoteSpace \ board :
          Cardinality(board) < MaxBoard /\ board' = board \cup {q}
     \/ \E q \in board : board' = board \ {q}
  /\ UNCHANGED <<own, now, request, changedEarly, balance, account, chain>>

\* Someone pays, the merchant's scanner stalls and goes on again, a payment is
\* reverted, a settlement goes to review ...
RequestChanges ==
  /\ request' \in ({FreshRequest} \cup ChangedRequests) \ {request}
  /\ \/ pc \in Reading /\ changedEarly' = (request' # FreshRequest)
     \/ pc \in {"account", "sign", "encrypt", "reserve"} /\ UNCHANGED changedEarly
  /\ UNCHANGED <<own, now, board, balance, account, chain>>

\* another instance of the wallet spends
SpendElsewhere ==
  /\ pc \in Reading
  /\ \E b \in Balances : b < balance /\ balance' = b
  /\ UNCHANGED <<own, now, board, request, changedEarly, account, chain>>

\* another program uses the self-signing account
ForeignTransaction ==
  /\ Running /\ SelfSigned /\ account < MaxNonce
  /\ account' = account + 1
  /\ UNCHANGED <<own, now, board, request, changedEarly, balance, chain>>

\* A self-signed transaction is mined with its own nonce only and may revert;
\* a broadcaster's transaction that reverts leaves its nullifiers unspent.
Mine ==
  /\ Running /\ chain = "pool"
  /\ SelfSigned => account = nonce
  /\ chain' \in IF SelfSigned THEN {"mined", "failed"} ELSE {"mined"}
  /\ account' = IF SelfSigned THEN account + 1 ELSE account
  /\ UNCHANGED <<own, now, board, request, changedEarly, balance>>

(***************************************************************************)
(* Specification                                                           *)
(***************************************************************************)
\* A retry finds the record of an attempt that may or may not be under way.
Init ==
  /\ command \in Commands
  /\ pc = "start" /\ result = "none"
  /\ now = 0 /\ board = {}
  /\ client = "off"
  /\ request = FreshRequest /\ changedEarly = FALSE
  /\ balance \in Balances
  /\ seen = 0 /\ price = 0 /\ floor = 0 /\ gas = 0 /\ charge = 0
  /\ selected = [addr |-> "none", rate |-> 0] /\ prepared = NoQuote
  /\ nonce = 0 /\ account = 0
  /\ IF command = "retry-broadcaster"
       THEN /\ chain \in {"none", "pool"}
            /\ \E tried \in SUBSET Broadcasters \ {{}} :
                 record = [NoRecord EXCEPT !.status = "SUBMITTING", !.tried = tried]
       ELSE chain = "none" /\ record = NoRecord

CommandStep ==
  \/ Start \/ EngineStarts \/ Synchronizes \/ SessionStarted \/ SessionStartFails \/ Check
  \/ ReadGasPrice \/ SelectProvider \/ Discover \/ Estimate \/ Prove \/ Refresh \/ Populate
  \/ Simulate \/ LastLookBroadcaster \/ LastLookSelfSigned \/ ReadAccount \/ Sign \/ Encrypt
  \/ ReserveRecord \/ SendSelfSigned \/ SendBroadcaster \/ Lookup
  \/ ReceiptBroadcaster \/ ReceiptSelfSigned
  \/ StopSession \/ CleanUp

WorldStep ==
  \/ ClientUp \/ LateStop
  \/ Tick \/ Rotate \/ RequestChanges \/ SpendElsewhere \/ ForeignTransaction \/ Mine

Next == CommandStep \/ WorldStep

\* What a command awaits without a timeout: calls of the wallet library and of the
\* Waku client, and a self-signed transfer's calls of its provider.
Untimed ==
  \/ pc \in {"engine", "sync", "check", "discover", "estimate", "prove", "populate", "encrypt",
             "send", "lookup"}
  \/ SelfSigned /\ pc \in {"price", "refresh", "account", "receipt"}

\* Everywhere else a command goes on: by a timeout of its own, or because it awaits
\* local files only.  Nothing is assumed of the others, nor of the client's start.
Spec == Init /\ [][Next]_vars /\ WF_vars(~Untimed /\ CommandStep)

(***************************************************************************)
(* Properties                                                              *)
(***************************************************************************)
Labels ==
  Reading \cup {"start", "engine", "sync", "session start", "account", "sign", "encrypt",
                "reserve", "send", "lookup", "receipt", "stop session", "clean up", "done"}

TypeOK ==
  /\ command \in Commands
  /\ pc \in Labels
  /\ now \in 0..MaxTime /\ board \subseteq QuoteSpace
  /\ client \in {"off", "starting", "on"}
  /\ request \in {FreshRequest} \cup ChangedRequests
  /\ changedEarly \in BOOLEAN
  /\ balance \in Balances /\ seen \in Balances \cup {0}
  /\ price \in Prices \cup {0} /\ floor \in Prices \cup {0}
  /\ gas \in Nat /\ charge \in Nat
  /\ prepared \in QuoteSpace \cup {NoQuote}
  /\ nonce \in Nat /\ account \in Nat
  /\ chain \in {"none", "pool", "mined", "failed"}
  /\ record.status \in {"none", "SUBMITTING", "SUBMITTED", "MINED", "REVERTED", "REJECTED"}
  /\ record.tried \subseteq Broadcasters /\ record.quote \in QuoteSpace \cup {NoQuote}
  /\ record.reported \in BOOLEAN

\* This command has reserved its transaction: from here on it may be published.
Reserved == IF SelfSigned THEN record.status # "none" ELSE record.quote # NoQuote

\* "The exact quote used to create the encrypted submission is the quote
\* journaled", and though quotes rotate while the proof is made it is one whose
\* broadcaster, token and rate the proof was made for: the fee the proof pays is
\* the fee that quote asks (tools/ppops-payer/README.md, proofCompatibleQuote).
SubmissionMatchesProof ==
  record.quote # NoQuote =>
    /\ record.quote = prepared
    /\ prepared.addr = selected.addr
    /\ charge = prepared.rate * gas * price

\* What a reserved or prepared transaction may cost is within the limit given on
\* the command line.
WithinLimits ==
  Reserved \/ result = "prepared" =>
    IF SelfSigned THEN charge = gas * price /\ charge <= GasCostLimit
                  ELSE charge > 0 /\ charge <= FeeLimit

\* The gas price a broadcaster is offered is not below all that honest providers
\* report, as long as the faulty ones are no more than half a quorum: with five
\* providers, two of which are faulty, the upper of three readings may be theirs.
GasPriceIsConservative == floor <= price \/ SelfSigned

\* Whatever prices and quotes did since they were first read, and however many
\* providers answered, a transfer offers neither more than its limit nor a price
\* no honest provider gave (assertBroadcasterFeeWithinLimit,
\* assertGasCostWithinLimit, selectConservativeLegacyGasPrice).
CostIsBounded == WithinLimits /\ GasPriceIsConservative

\* A request that is another one when the command looks at it again, after the proof,
\* is not paid (assertSamePaymentRequest).  Only the first and the last look are
\* compared: a change that was taken back in between is not seen, nor is one after
\* the last look.
ChangedRequestIsNotPaid == Reserved => ~changedEarly

\* A retry never goes to a broadcaster that already got one of the attempts, not
\* by a rotated quote either (attemptedBroadcasterAddresses).
EachBroadcasterOnce ==
  [][record'.quote # record.quote => prepared.addr \notin record.tried]_vars

\* Then the record of a broadcaster transfer says MINED or REVERTED only if the
\* chain does, and REJECTED only if the transaction was never published.
RecordTellsTheTruth ==
  ~SelfSigned =>
    /\ record.status = "MINED" => chain = "mined"
    /\ record.status = "REVERTED" => chain = "failed"
    /\ record.status = "REJECTED" => chain = "none"

\* What the readiness command says is what a transfer would find: READY for a
\* request it accepts, with the balance for amount and budget; NOT_PAYABLE and
\* EXPIRED only for one it refuses (payerReadiness, verifyPaymentRequest).
ReadinessAgrees ==
  request.genuine =>
    LET state == Readiness(request, now, balance, 0, FeeLimit) IN
    /\ state = "READY" => Accepted(request, now) /\ balance >= Amount + FeeLimit
    /\ state \in {"REQUEST_NOT_PAYABLE", "REQUEST_EXPIRED"} => ~Accepted(request, now)

\* A command that does not end is waiting for ever for one call that has no timeout:
\* a Waku client that never starts, providers that do not answer a quorum read, a
\* merchant that does not answer, a client or an engine that does not stop hold no
\* command up, and no two of its steps repeat (withTimeout, loadPaymentRequest).
CommandEnds == <>(pc = "done") \/ <>[]Untimed
=============================================================================
