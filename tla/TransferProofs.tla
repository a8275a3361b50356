---------------------------- MODULE TransferProofs ----------------------------
(***************************************************************************)
(* Proofs about Transfer, for any providers, quotes, prices and limits.    *)
(* What a command decided at one step is a fact of the steps after it: the *)
(* quote it selected, the charge it proved, the request it looked at.  The *)
(* invariant says at which steps each of these facts holds; the properties *)
(* are what is left of it once the transaction is reserved.                *)
(***************************************************************************)
EXTENDS Transfer, FiniteSetTheorems, TLAPS

(***************************************************************************)
(* The invariant                                                           *)
(***************************************************************************)
\* from the reservation on, and when the command has ended before it
After == {"send", "lookup", "receipt", "stop session", "clean up", "done"}

\* a broadcaster transfer has selected, charged, and prepared
Selected == {"estimate", "prove", "populate", "simulate", "revalidate", "encrypt", "reserve"}
Charged  == Selected \ {"estimate"}
Prepared == {"encrypt", "reserve"}

\* a self-signed transfer has read its fees for the last time
Refreshed == {"populate", "revalidate", "account", "sign", "reserve"}

\* the live request has been looked at for the last time
Looked == {"account", "sign", "encrypt", "reserve"}

Statuses == {"none", "SUBMITTING", "SUBMITTED", "MINED", "REVERTED", "REJECTED"}

RecordTyped ==
  record \in [status : Statuses, tried : SUBSET Broadcasters, quote : QuoteSpace \cup {NoQuote},
              reported : BOOLEAN]

\* Some steps are those of one kind of transfer.
StepsOfKind ==
  /\ pc \in Labels
  /\ pc \in {"refresh", "account", "sign"} => SelfSigned
  /\ pc \in {"session start", "discover", "simulate", "encrypt", "lookup"} => ~SelfSigned
  /\ SelfSigned => prepared = NoQuote /\ record.quote = NoQuote

MoneyTyped ==
  /\ price \in Nat /\ gas \in Nat /\ charge \in Nat
  /\ ~SelfSigned /\ pc \in Selected => selected \in QuoteSpace

\* The broadcaster selected was not tried, and the quote prepared is like its own.
QuoteChosen ==
  ~SelfSigned =>
    /\ pc \in Selected => selected.addr \notin record.tried
    /\ pc \in Prepared => /\ prepared \in QuoteSpace
                          /\ prepared.addr = selected.addr /\ prepared.rate = selected.rate

\* What will be paid is known, and within its limit.
ChargeChosen ==
  /\ ~SelfSigned /\ pc \in Charged =>
       charge = selected.rate * gas * price /\ charge > 0 /\ charge <= FeeLimit
  /\ SelfSigned /\ pc \in Refreshed => charge = gas * price /\ charge <= GasCostLimit

\* A request that was another one before the last look is so until then.
RequestLooked ==
  /\ changedEarly \in BOOLEAN
  /\ changedEarly => request # FreshRequest /\ pc \notin Looked

\* Only the last part of a command follows a reservation.
ReservedIsLate ==
  /\ Reserved \/ result = "prepared" => pc \in After
  /\ pc \in {"send", "lookup", "receipt"} => record.status \in {"SUBMITTING", "SUBMITTED"}

\* Nothing of this intent is on chain before the first transaction leaves.
ChainFollows ==
  ~Retries /\ pc \notin After \ {"send"} => chain = "none"

TransferInv ==
  /\ command \in AllCommands /\ RecordTyped /\ StepsOfKind /\ MoneyTyped
  /\ QuoteChosen /\ ChargeChosen /\ RequestLooked /\ ReservedIsLate /\ ChainFollows
  /\ SubmissionMatchesProof /\ WithinLimits /\ ChangedRequestIsNotPaid /\ RecordTellsTheTruth

\* The prices of a broadcaster transfer, apart: they need better providers.
PriceInv == (floor \in Nat /\ price \in Nat /\ floor <= price) \/ SelfSigned

(***************************************************************************)
(* Kinds of steps                                                          *)
(***************************************************************************)
\* What TransferInv says of a command that has not reserved.
LEMMA EarlyFacts ==
  ASSUME TransferInv, pc \notin After
  PROVE  ~Reserved /\ result # "prepared"
BY DEF TransferInv, ReservedIsLate

\* A step towards the reservation keeps the invariant if it keeps what is decided.
LEMMA BeforeReserving ==
  ASSUME TransferInv, pc \notin After, pc' \notin After,
         StepsOfKind', MoneyTyped', QuoteChosen', ChargeChosen',
         pc' \in Looked => ~changedEarly,
         UNCHANGED <<command, result, request, changedEarly, chain, record>>
  PROVE  TransferInv'
<1>1. ~Reserved' /\ result' # "prepared"
  BY EarlyFacts DEF Reserved, SelfSigned, StepsOfKind, TransferInv
<1>2. command' \in AllCommands /\ RecordTyped'
  BY DEF TransferInv, RecordTyped
<1>3. RequestLooked'
  BY DEF TransferInv, RequestLooked
<1>4. ReservedIsLate' /\ ChangedRequestIsNotPaid' /\ WithinLimits'
  BY <1>1 DEF ReservedIsLate, ChangedRequestIsNotPaid, WithinLimits, After
<1>5. ChainFollows'
  BY DEF TransferInv, ChainFollows, Retries
<1>6. SubmissionMatchesProof'
  BY <1>1 DEF SubmissionMatchesProof, Reserved, StepsOfKind
<1>7. RecordTellsTheTruth'
  BY DEF TransferInv, RecordTellsTheTruth, SelfSigned
<1> QED
  BY <1>2, <1>3, <1>4, <1>5, <1>6, <1>7 DEF TransferInv

\* A step that decides nothing leads from a step of the list to a later one.
LEMMA Advancing ==
  ASSUME TransferInv, pc \notin After, pc' \in Labels \ After,
         pc' \in {"refresh", "account", "sign"} => SelfSigned,
         pc' \in {"session start", "discover", "simulate", "encrypt", "lookup"} => ~SelfSigned,
         ~SelfSigned /\ pc' \in Selected => pc \in Selected,
         ~SelfSigned /\ pc' \in Charged => pc \in Charged,
         ~SelfSigned /\ pc' \in Prepared => pc \in Prepared,
         SelfSigned /\ pc' \in Refreshed => pc \in Refreshed,
         pc' \in Looked => pc \in Looked \/ request = FreshRequest,
         UNCHANGED <<command, result, request, changedEarly, chain, record>>,
         UNCHANGED <<price, gas, charge, selected, prepared>>
  PROVE  TransferInv'
<1>1. StepsOfKind'
  BY DEF TransferInv, StepsOfKind, SelfSigned
<1>2. MoneyTyped'
  BY DEF TransferInv, MoneyTyped, SelfSigned
<1>3. QuoteChosen'
  BY DEF TransferInv, QuoteChosen, SelfSigned
<1>4. ChargeChosen'
  BY DEF TransferInv, ChargeChosen, SelfSigned
<1>5. pc' \in Looked => ~changedEarly
  BY DEF TransferInv, RequestLooked
<1> QED
  BY <1>1, <1>2, <1>3, <1>4, <1>5, BeforeReserving

\* A command that fails before it has reserved leaves nothing behind.
LEMMA FailingEarly ==
  ASSUME TransferInv, pc \notin After, NEW outcome,
         Finish(outcome) \/ (pc' = "done" /\ result' = outcome),
         price' \in Nat, gas' \in Nat, charge' \in Nat,
         UNCHANGED <<command, prepared, request, changedEarly, chain, record>>,
         outcome = "prepared" => WithinLimits'
  PROVE  TransferInv'
<1>1. pc' \in {"clean up", "stop session", "done"} /\ result' = outcome
  BY DEF Finish
<1>2. ~Reserved'
  BY EarlyFacts DEF Reserved, SelfSigned
<1>3. command' \in AllCommands /\ RecordTyped'
  BY DEF TransferInv, RecordTyped
<1>4. StepsOfKind' /\ MoneyTyped'
  BY <1>1 DEF TransferInv, StepsOfKind, MoneyTyped, SelfSigned, Labels, Selected
<1>5. QuoteChosen' /\ ChargeChosen'
  BY <1>1 DEF QuoteChosen, ChargeChosen, Selected, Charged, Prepared, Refreshed
<1>6. RequestLooked'
  BY <1>1 DEF TransferInv, RequestLooked, Looked
<1>7. ReservedIsLate' /\ ChangedRequestIsNotPaid'
  BY <1>1, <1>2 DEF ReservedIsLate, ChangedRequestIsNotPaid, After
<1>8. WithinLimits'
  BY <1>1, <1>2 DEF WithinLimits
<1>9. ChainFollows'
  BY <1>1 DEF ChainFollows, After
<1>10. SubmissionMatchesProof'
  BY <1>2, <1>4 DEF SubmissionMatchesProof, Reserved, StepsOfKind
<1>11. RecordTellsTheTruth'
  BY DEF TransferInv, RecordTellsTheTruth, SelfSigned
<1> QED
  BY <1>3, <1>4, <1>5, <1>6, <1>7, <1>8, <1>9, <1>10, <1>11 DEF TransferInv

\* After the reservation a step changes what is known of the transaction only.
LEMMA FollowingUp ==
  ASSUME TransferInv, pc \in After, pc' \in After \ {"send"},
         pc' = "lookup" => ~SelfSigned,
         RecordTyped', record'.quote = record.quote,
         record.status = "none" => record'.status = "none",
         pc' \in {"lookup", "receipt"} => record'.status \in {"SUBMITTING", "SUBMITTED"},
         result' = "prepared" => result = "prepared",
         UNCHANGED <<command, request, changedEarly>>,
         UNCHANGED <<price, gas, charge, selected, prepared>>,
         RecordTellsTheTruth'
  PROVE  TransferInv'
<1>1. Reserved' => Reserved
  BY DEF Reserved, SelfSigned
<1>2. command' \in AllCommands
  BY DEF TransferInv
<1>3. StepsOfKind' /\ MoneyTyped'
  BY DEF TransferInv, StepsOfKind, MoneyTyped, SelfSigned, Labels, Selected, After
<1>4. QuoteChosen' /\ ChargeChosen'
  BY DEF QuoteChosen, ChargeChosen, Selected, Charged, Prepared, Refreshed, After
<1>5. RequestLooked'
  BY DEF TransferInv, RequestLooked, Looked, After
<1>6. ReservedIsLate'
  BY DEF ReservedIsLate, After
<1>7. ChangedRequestIsNotPaid'
  BY <1>1 DEF TransferInv, ChangedRequestIsNotPaid
<1>8. WithinLimits'
  BY <1>1 DEF TransferInv, WithinLimits, SelfSigned
<1>9. ChainFollows'
  BY DEF ChainFollows
<1>10. SubmissionMatchesProof'
  BY DEF TransferInv, SubmissionMatchesProof
<1> QED
  BY <1>2, <1>3, <1>4, <1>5, <1>6, <1>7, <1>8, <1>9, <1>10 DEF TransferInv

(***************************************************************************)
(* Each step                                                               *)
(***************************************************************************)
\* A step up to the one that follows the proof either advances or fails.
LEMMA PlainSteps ==
  ASSUME TransferInv,
         \/ Start \/ EngineStarts \/ Synchronizes \/ SessionStarted \/ SessionStartFails
         \/ Check \/ Prove \/ Populate \/ Simulate \/ LastLookSelfSigned \/ Sign \/ Encrypt
  PROVE  TransferInv'
<1>1. price \in Nat /\ gas \in Nat /\ charge \in Nat
  BY DEF TransferInv, MoneyTyped
<1> DEFINE Untouched == UNCHANGED <<command, request, changedEarly, chain, record, price, gas,
                                    charge, selected, prepared>>
<1>2. ASSUME Untouched, pc \notin After, NEW outcome, Finish(outcome), outcome # "prepared"
      PROVE  TransferInv'
  BY <1>1, <1>2, FailingEarly
<1>3. CASE Start
  <2>1. /\ Untouched /\ pc = "start"
        /\ \/ pc' = "done" /\ result' \in StartFailures
           \/ pc' = "engine" /\ UNCHANGED result
    BY <1>3 DEF Start, CallsOut, money
  <2>2. CASE pc' = "engine" /\ UNCHANGED result
    BY <2>1, <2>2, Advancing DEF Labels, After, Selected, Charged, Prepared, Refreshed, Looked
  <2>3. CASE pc' = "done" /\ result' \in StartFailures
    <3>1. PICK outcome \in StartFailures : result' = outcome
      BY <2>3
    <3>2. outcome # "prepared"
      BY DEF StartFailures
    <3> QED
      BY <1>1, <2>1, <2>3, <3>1, <3>2, FailingEarly DEF After
  <2> QED
    BY <2>1, <2>2, <2>3
<1>4. CASE EngineStarts
  <2>1. Untouched /\ pc = "engine" /\ PassOrFail("sync", "ENGINE_START_FAILED")
    BY <1>4 DEF EngineStarts, CallsOut, money
  <2>2. CASE pc' = "sync" /\ UNCHANGED result
    BY <2>1, <2>2, Advancing DEF Labels, After, Selected, Charged, Prepared, Refreshed, Looked
  <2> QED
    BY <1>2, <2>1, <2>2 DEF PassOrFail, After
<1>5. CASE Synchronizes
  <2>1. /\ Untouched /\ pc = "sync"
        /\ \/ \E code \in {"SECRET_INVALID", "SYNC_FAILED"} : Finish(code)
           \/ /\ UNCHANGED result
              /\ pc' = "check" \/ (~SelfSigned /\ pc' = "session start")
    BY <1>5 DEF Synchronizes, CallsOut, money
  <2>2. CASE UNCHANGED result /\ (pc' = "check" \/ (~SelfSigned /\ pc' = "session start"))
    BY <2>1, <2>2, Advancing
    DEF Labels, Reading, After, Selected, Charged, Prepared, Refreshed, Looked
  <2> QED
    BY <1>2, <2>1, <2>2 DEF After
<1>6. CASE SessionStarted
  BY <1>6, Advancing
  DEF SessionStarted, CallsOut, money, Labels, Reading, After, Selected, Charged, Prepared,
      Refreshed, Looked
<1>7. CASE SessionStartFails
  BY <1>2, <1>7 DEF SessionStartFails, CallsOut, money, After
<1>8. CASE Check
  <2>1. /\ Untouched /\ pc = "check"
        /\ \/ Finish("SUBMISSION_ALREADY_RECORDED") \/ Finish("INSUFFICIENT_PRIVATE_BALANCE")
           \/ pc' = "price" /\ UNCHANGED result
    BY <1>8 DEF Check, CallsOut
  <2>2. CASE pc' = "price" /\ UNCHANGED result
    BY <2>1, <2>2, Advancing
    DEF Labels, Reading, After, Selected, Charged, Prepared, Refreshed, Looked
  <2> QED
    BY <1>2, <2>1, <2>2 DEF After
<1>9. CASE Prove
  <2>1. /\ Untouched /\ pc = "prove"
        /\ \/ Finish("PROOF_FAILED")
           \/ pc' = (IF SelfSigned THEN "refresh" ELSE "populate") /\ UNCHANGED result
    BY <1>9 DEF Prove, CallsOut, money
  <2>2. CASE pc' = (IF SelfSigned THEN "refresh" ELSE "populate") /\ UNCHANGED result
    BY <2>1, <2>2, Advancing
    DEF Labels, Reading, After, Selected, Charged, Prepared, Refreshed, Looked
  <2> QED
    BY <1>2, <2>1, <2>2 DEF After
<1>10. CASE Populate
  <2>1. /\ Untouched /\ pc = "populate"
        /\ PassOrFail(IF SelfSigned THEN "revalidate" ELSE "simulate", "POPULATE_FAILED")
    BY <1>10 DEF Populate, CallsOut, money
  <2>2. CASE pc' = (IF SelfSigned THEN "revalidate" ELSE "simulate") /\ UNCHANGED result
    BY <2>1, <2>2, Advancing
    DEF Labels, Reading, After, Selected, Charged, Prepared, Refreshed, Looked
  <2> QED
    BY <1>2, <2>1, <2>2 DEF PassOrFail, After
<1>11. CASE Simulate
  <2>1. /\ Untouched /\ pc = "simulate"
        /\ Finish("RPC_UNAVAILABLE") \/ (pc' = "revalidate" /\ UNCHANGED result)
    BY <1>11 DEF Simulate, CallsOut, money
  <2>2. CASE pc' = "revalidate" /\ UNCHANGED result
    <3>1. ~SelfSigned
      BY <2>1 DEF TransferInv, StepsOfKind
    <3> QED
      BY <2>1, <2>2, <3>1, Advancing
      DEF Labels, Reading, After, Selected, Charged, Prepared, Refreshed, Looked
  <2> QED
    BY <1>2, <2>1, <2>2 DEF After
<1>12. CASE LastLookSelfSigned
  <2>1. /\ Untouched /\ pc = "revalidate" /\ SelfSigned
        /\ \/ Finish("REQUEST_INVALID")
           \/ request = FreshRequest /\ pc' = "account" /\ UNCHANGED result
    BY <1>12 DEF LastLookSelfSigned, LoadFails, StillTheSame, CallsOut, money
  <2>2. CASE request = FreshRequest /\ pc' = "account" /\ UNCHANGED result
    BY <2>1, <2>2, Advancing DEF Labels, After, Selected, Charged, Prepared, Refreshed, Looked
  <2> QED
    BY <1>2, <2>1, <2>2 DEF After
<1>13. CASE Sign
  <2>1. Untouched /\ pc = "sign" /\ PassOrFail("reserve", "POPULATE_FAILED")
    BY <1>13 DEF Sign, CallsOut, money
  <2>2. CASE pc' = "reserve" /\ UNCHANGED result
    <3>1. SelfSigned
      BY <2>1 DEF TransferInv, StepsOfKind
    <3> QED
      BY <2>1, <2>2, <3>1, Advancing
      DEF Labels, After, Selected, Charged, Prepared, Refreshed, Looked
  <2> QED
    BY <1>2, <2>1, <2>2 DEF PassOrFail, After
<1>14. CASE Encrypt
  <2>1. Untouched /\ pc = "encrypt" /\ PassOrFail("reserve", "BROADCASTER_SUBMISSION_FAILED")
    BY <1>14 DEF Encrypt, CallsOut, money
  <2>2. CASE pc' = "reserve" /\ UNCHANGED result
    <3>1. ~SelfSigned
      BY <2>1 DEF TransferInv, StepsOfKind
    <3> QED
      BY <2>1, <2>2, <3>1, Advancing
      DEF Labels, After, Selected, Charged, Prepared, Refreshed, Looked
  <2> QED
    BY <1>2, <2>1, <2>2 DEF PassOrFail, After
<1> QED
  BY <1>3, <1>4, <1>5, <1>6, <1>7, <1>8, <1>9, <1>10, <1>11, <1>12, <1>13, <1>14

\* A reading of the gas price is a price somebody reported.
LEMMA ConservativeIsReported ==
  ASSUME NEW readings \in Readings, NEW v \in Conservative(readings)
  PROVE  v \in Prices /\ v \in Nat \ {0}
<1>1. PICK p \in Answered(readings) : v = readings[p]
  BY DEF Conservative, Middle
<1>2. p \in Providers /\ readings[p] > 0 /\ readings[p] \in Prices \cup {0}
  BY <1>1 DEF Answered, Readings
<1>3. Prices \subseteq Nat \ {0}
  BY TransferAssumption
<1>4. readings[p] # 0
  BY <1>2, <1>3
<1> QED
  BY <1>1, <1>2, <1>3, <1>4

\* The steps that read a price or a quote.
LEMMA ReadingSteps ==
  ASSUME TransferInv, board \subseteq QuoteSpace, ReadGasPrice \/ SelectProvider \/ Discover
  PROVE  TransferInv'
<1>1. price \in Nat /\ gas \in Nat /\ charge \in Nat
  BY DEF TransferInv, MoneyTyped
<1>2. ASSUME pc \in {"price", "discover"}, pc' \in {"discover", "estimate"},
             pc' = "discover" => ~SelfSigned,
             ~SelfSigned /\ pc' = "estimate" =>
               selected' \in QuoteSpace /\ selected'.addr \notin record.tried,
             price' \in Nat,
             UNCHANGED <<command, result, request, changedEarly, chain, record, gas, charge,
                         prepared>>
      PROVE  TransferInv'
  <2>1. StepsOfKind' /\ MoneyTyped'
    BY <1>1, <1>2 DEF TransferInv, StepsOfKind, MoneyTyped, SelfSigned, Labels, Reading, Selected
  <2>2. QuoteChosen' /\ ChargeChosen'
    BY <1>2 DEF QuoteChosen, ChargeChosen, SelfSigned, Selected, Charged, Prepared, Refreshed
  <2> QED
    BY <1>2, <2>1, <2>2, BeforeReserving DEF After, Looked
<1>3. CASE ReadGasPrice
  <2>1. PICK readings \in Readings :
          \/ Finish("RPC_UNAVAILABLE") /\ UNCHANGED price
          \/ price' \in Conservative(readings) /\ pc' = "discover" /\ UNCHANGED result
    BY <1>3 DEF ReadGasPrice
  <2>2. /\ pc = "price" /\ ~SelfSigned
        /\ UNCHANGED <<command, request, changedEarly, chain, record, gas, charge, prepared>>
    BY <1>3 DEF ReadGasPrice, CallsOut
  <2>3. CASE Finish("RPC_UNAVAILABLE") /\ UNCHANGED price
    BY <1>1, <2>2, <2>3, FailingEarly DEF After
  <2>4. CASE price' \in Conservative(readings) /\ pc' = "discover" /\ UNCHANGED result
    BY <1>2, <2>2, <2>4, ConservativeIsReported
  <2> QED
    BY <2>1, <2>3, <2>4
<1>4. CASE SelectProvider
  <2>1. /\ pc = "price" /\ SelfSigned
        /\ UNCHANGED <<command, request, changedEarly, chain, record, gas, charge, prepared>>
        /\ \/ price' \in Prices /\ pc' = "estimate" /\ UNCHANGED result
           \/ Finish("RPC_UNAVAILABLE") /\ UNCHANGED price
    BY <1>4 DEF SelectProvider, CallsOut
  <2>2. CASE price' \in Prices /\ pc' = "estimate" /\ UNCHANGED result
    BY <1>2, <2>1, <2>2, TransferAssumption
  <2>3. CASE Finish("RPC_UNAVAILABLE") /\ UNCHANGED price
    BY <1>1, <2>1, <2>3, FailingEarly DEF After
  <2> QED
    BY <2>1, <2>2, <2>3
<1>5. CASE Discover
  <2>1. /\ pc = "discover"
        /\ UNCHANGED <<command, request, changedEarly, chain, record, price, gas, charge, prepared>>
        /\ \/ /\ selected' \in DiscoverableQuotes(board, record.tried, now)
              /\ pc' = "estimate" /\ UNCHANGED result
           \/ Finish("BROADCASTER_UNAVAILABLE")
    BY <1>5 DEF Discover, CallsOut
  <2>2. CASE /\ selected' \in DiscoverableQuotes(board, record.tried, now)
             /\ pc' = "estimate" /\ UNCHANGED result
    <3>1. selected' \in board /\ selected'.addr \notin record.tried
      BY <2>2 DEF DiscoverableQuotes
    <3> QED
      BY <1>1, <1>2, <2>1, <2>2, <3>1
  <2>3. CASE Finish("BROADCASTER_UNAVAILABLE")
    BY <1>1, <2>1, <2>3, FailingEarly DEF After
  <2> QED
    BY <2>1, <2>2, <2>3
<1> QED
  BY <1>3, <1>4, <1>5

\* A price times an amount of gas is natural.
LEMMA ProductIsNatural ==
  ASSUME NEW a \in Nat, NEW b \in Nat PROVE a * b \in Nat
OBVIOUS

\* The steps that decide what is paid.
LEMMA ChargingSteps ==
  ASSUME TransferInv, Estimate \/ Refresh PROVE TransferInv'
<1>1. price \in Nat /\ gas \in Nat /\ charge \in Nat
  BY DEF TransferInv, MoneyTyped
<1>2. Prices \subseteq Nat /\ Gas \subseteq Nat
  BY TransferAssumption
<1>3. CASE Estimate
  <2>1. /\ pc = "estimate"
        /\ UNCHANGED <<command, request, changedEarly, chain, record, price, selected, prepared>>
    BY <1>3 DEF Estimate, CallsOut
  <2>2. CASE Finish("PROOF_FAILED") /\ UNCHANGED <<gas, charge>>
    BY <1>1, <2>1, <2>2, FailingEarly DEF After
  <2>3. ASSUME SelfSigned, NEW estimate \in Gas, gas' = GasLimit(estimate), pc' = "prove",
               UNCHANGED <<result, charge>>
        PROVE  TransferInv'
    <3>1. gas' \in Nat
      BY <1>2, <2>3 DEF GasLimit
    <3>2. StepsOfKind' /\ MoneyTyped'
      BY <1>1, <2>1, <2>3, <3>1 DEF TransferInv, StepsOfKind, MoneyTyped, SelfSigned, Labels, Reading
    <3>3. QuoteChosen' /\ ChargeChosen'
      BY <2>1, <2>3 DEF QuoteChosen, ChargeChosen, SelfSigned, Refreshed
    <3> QED
      BY <2>1, <2>3, <3>2, <3>3, BeforeReserving DEF After, Looked
  <2>4. ASSUME ~SelfSigned, NEW estimate \in Gas, gas' = estimate,
               charge' = selected.rate * estimate * price,
               \/ Finish("BROADCASTER_FEE_LIMIT_EXCEEDED")
               \/ Finish("INSUFFICIENT_PRIVATE_BALANCE")
               \/ FeeWithinLimit(charge') /\ pc' = "prove" /\ UNCHANGED result
        PROVE  TransferInv'
    <3>1. selected \in QuoteSpace
      BY <2>1, <2>4 DEF TransferInv, MoneyTyped, Selected
    <3>2. selected.rate \in Nat
      BY <3>1, WorldAssumption DEF Quotes
    <3>3. gas' \in Nat
      BY <1>2, <2>4
    <3>4. selected.rate * estimate \in Nat
      BY <1>2, <3>2, ProductIsNatural
    <3>5. charge' \in Nat
      BY <1>1, <2>4, <3>4, ProductIsNatural
    <3>6. CASE FeeWithinLimit(charge') /\ pc' = "prove" /\ UNCHANGED result
      <4>1. StepsOfKind' /\ MoneyTyped'
        BY <1>1, <2>1, <2>4, <3>1, <3>3, <3>5, <3>6
        DEF TransferInv, StepsOfKind, MoneyTyped, SelfSigned, Labels, Reading
      <4>2. charge' = selected'.rate * gas' * price'
        BY <2>1, <2>4
      <4>3. charge' > 0 /\ charge' <= FeeLimit
        BY <3>6 DEF FeeWithinLimit
      <4>4. QuoteChosen'
        BY <2>1, <2>4, <3>6 DEF TransferInv, QuoteChosen, SelfSigned, Selected, Prepared
      <4>5. ChargeChosen'
        BY <2>1, <2>4, <3>6, <4>2, <4>3 DEF ChargeChosen, SelfSigned
      <4> QED
        BY <2>1, <3>6, <4>1, <4>4, <4>5, BeforeReserving DEF After, Looked
    <3>7. CASE Finish("BROADCASTER_FEE_LIMIT_EXCEEDED") \/ Finish("INSUFFICIENT_PRIVATE_BALANCE")
      BY <1>1, <2>1, <3>3, <3>5, <3>7, FailingEarly DEF After
    <3> QED
      BY <2>4, <3>6, <3>7
  <2> QED
    BY <1>3, <2>2, <2>3, <2>4 DEF Estimate
<1>4. CASE Refresh
  <2>1. /\ pc = "refresh"
        /\ UNCHANGED <<command, request, changedEarly, chain, record, gas, selected, prepared>>
    BY <1>4 DEF Refresh, CallsOut
  <2>2. SelfSigned
    BY <2>1 DEF TransferInv, StepsOfKind
  <2>3. CASE Finish("RPC_UNAVAILABLE") /\ UNCHANGED <<price, charge>>
    BY <1>1, <2>1, <2>3, FailingEarly DEF After
  <2>4. ASSUME NEW fee \in Prices, price' = fee, charge' = gas * fee,
               \/ Finish("GAS_LIMIT_EXCEEDED")
               \/ GasCostWithinLimit(charge') /\ pc' = "populate" /\ UNCHANGED result
        PROVE  TransferInv'
    <3>1. price' \in Nat /\ charge' \in Nat /\ gas' \in Nat
      BY <1>1, <1>2, <2>1, <2>4, ProductIsNatural
    <3>2. CASE GasCostWithinLimit(charge') /\ pc' = "populate" /\ UNCHANGED result
      <4>1. StepsOfKind' /\ MoneyTyped'
        BY <2>1, <2>2, <3>1, <3>2
        DEF TransferInv, StepsOfKind, MoneyTyped, SelfSigned, Labels, Reading
      <4>2. charge' = gas' * price' /\ charge' <= GasCostLimit
        BY <2>1, <2>4, <3>2 DEF GasCostWithinLimit
      <4>3. QuoteChosen' /\ ChargeChosen'
        BY <2>1, <2>2, <4>2 DEF QuoteChosen, ChargeChosen, SelfSigned
      <4> QED
        BY <2>1, <3>2, <4>1, <4>3, BeforeReserving DEF After, Looked
    <3>3. CASE Finish("GAS_LIMIT_EXCEEDED")
      BY <2>1, <3>1, <3>3, FailingEarly DEF After
    <3> QED
      BY <2>4, <3>2, <3>3
  <2> QED
    BY <1>4, <2>3, <2>4 DEF Refresh
<1> QED
  BY <1>3, <1>4

\* The last look of a broadcaster transfer prepares a quote like the one selected.
LEMMA LastLookStep == ASSUME TransferInv, board \subseteq QuoteSpace, LastLookBroadcaster
                      PROVE  TransferInv'
<1>1. price \in Nat /\ gas \in Nat /\ charge \in Nat
  BY DEF TransferInv, MoneyTyped
<1>2. /\ pc = "revalidate" /\ ~SelfSigned
      /\ UNCHANGED <<command, request, changedEarly, chain, record, price, gas, charge, selected>>
  BY DEF LastLookBroadcaster, CallsOut
<1>3. charge > 0 /\ charge <= FeeLimit
  BY <1>2 DEF TransferInv, ChargeChosen, Charged, Selected
<1>4. \/ \E outcome \in {"REQUEST_INVALID", "BROADCASTER_INVALID_QUOTE", "prepared"} :
           Finish(outcome) /\ UNCHANGED prepared
      \/ /\ request = FreshRequest
         /\ prepared' \in SubmissionQuotes(board, selected, now) /\ pc' = "encrypt"
         /\ UNCHANGED result
  BY DEF LastLookBroadcaster, LoadFails, StillTheSame
<1>5. ASSUME NEW outcome, Finish(outcome), UNCHANGED prepared PROVE TransferInv'
  <2>1. WithinLimits'
    BY <1>2, <1>3 DEF WithinLimits, SelfSigned
  <2> QED
    BY <1>1, <1>2, <1>5, <2>1, FailingEarly DEF After
<1>6. CASE /\ request = FreshRequest
           /\ prepared' \in SubmissionQuotes(board, selected, now) /\ pc' = "encrypt"
           /\ UNCHANGED result
  <2>1. prepared' \in QuoteSpace /\ prepared'.addr = selected.addr /\ prepared'.rate = selected.rate
    BY <1>6 DEF SubmissionQuotes, Fingerprint, ProofCompatible
  <2>2. StepsOfKind' /\ MoneyTyped'
    BY <1>1, <1>2, <1>6 DEF TransferInv, StepsOfKind, MoneyTyped, SelfSigned, Labels, Selected
  <2>3. QuoteChosen'
    BY <1>2, <1>6, <2>1 DEF TransferInv, QuoteChosen, SelfSigned, Selected
  <2>4. ChargeChosen'
    BY <1>2, <1>6 DEF TransferInv, ChargeChosen, SelfSigned, Charged, Selected
  <2>5. ~changedEarly
    BY <1>6 DEF TransferInv, RequestLooked
  <2> QED
    BY <1>2, <1>6, <2>2, <2>3, <2>4, <2>5, BeforeReserving DEF After
<1> QED
  BY <1>4, <1>5, <1>6

\* The account of a self-signed transfer is read when its cost is settled.
LEMMA AccountStep == ASSUME TransferInv, ReadAccount PROVE TransferInv'
<1>1. price \in Nat /\ gas \in Nat /\ charge \in Nat
  BY DEF TransferInv, MoneyTyped
<1>2. /\ pc = "account"
      /\ UNCHANGED <<command, request, changedEarly, chain, record, price, gas, charge, selected,
                     prepared>>
  BY DEF ReadAccount, CallsOut
<1>3. SelfSigned
  BY <1>2 DEF TransferInv, StepsOfKind
<1>4. charge = gas * price /\ charge <= GasCostLimit
  BY <1>2, <1>3 DEF TransferInv, ChargeChosen, Refreshed
<1>5. \/ \E outcome : Finish(outcome)
      \/ pc' = "sign" /\ UNCHANGED result
  BY DEF ReadAccount
<1>6. ASSUME NEW outcome, Finish(outcome) PROVE TransferInv'
  <2>1. WithinLimits'
    BY <1>2, <1>3, <1>4 DEF WithinLimits, SelfSigned
  <2> QED
    BY <1>1, <1>2, <1>6, <2>1, FailingEarly DEF After
<1>7. CASE pc' = "sign" /\ UNCHANGED result
  BY <1>2, <1>3, <1>7, Advancing DEF Labels, After, Selected, Charged, Prepared, Refreshed, Looked
<1> QED
  BY <1>5, <1>6, <1>7

\* As many providers as must agree are not all faulty.
LEMMA AgreementHasHonestMember ==
  ASSUME NEW S \in SUBSET Providers, Cardinality(S) >= RequiredAgreement
  PROVE  \E p \in S : p \in Providers \ Faulty
<1>1. SUFFICES ASSUME S \subseteq Faulty PROVE FALSE
  OBVIOUS
<1>2. IsFiniteSet(Faulty) /\ Cardinality(Faulty) \in Nat
  BY FS_Subset, FS_CardinalityType, WorldAssumption
<1>3. Cardinality(S) \in Nat /\ Cardinality(S) <= Cardinality(Faulty)
  BY <1>1, <1>2, FS_Subset, FS_CardinalityType
<1>4. Cardinality(Providers) \in Nat
  BY FS_CardinalityType, WorldAssumption
<1>5. RequiredAgreement \in Int
  BY <1>4 DEF RequiredAgreement
<1> QED
  BY <1>2, <1>3, <1>5, WorldAssumption

\* A receipt enough providers agree on is the transaction's.
LEMMA AgreedReceiptIsTrue ==
  ASSUME NEW receipts \in Receipts, NEW status \in ReceiptQuorum(receipts)
  PROVE  status = chain
<1>1. status # "none" /\ Cardinality({p \in Providers : receipts[p] = status}) >= RequiredAgreement
  BY DEF ReceiptQuorum
<1>2. PICK p \in {q \in Providers : receipts[q] = status} : p \in Providers \ Faulty
  BY <1>1, AgreementHasHonestMember
<1> QED
  BY <1>1, <1>2 DEF Receipts

\* The reservation turns what was decided into what is on record.
LEMMA ReserveStep == ASSUME TransferInv, ReserveRecord PROVE TransferInv'
<1>1. price \in Nat /\ gas \in Nat /\ charge \in Nat
  BY DEF TransferInv, MoneyTyped
<1>2. /\ pc = "reserve"
      /\ UNCHANGED <<command, request, changedEarly, chain, price, gas, charge, selected, prepared>>
  BY DEF ReserveRecord, CallsOut, money
<1>3. ASSUME NEW outcome, Finish(outcome), outcome # "prepared", UNCHANGED record
      PROVE  TransferInv'
  BY <1>1, <1>2, <1>3, FailingEarly DEF After
<1>4. ASSUME record' = [record EXCEPT !.status = "SUBMITTING",
                          !.tried = IF SelfSigned THEN @ ELSE @ \cup {prepared.addr},
                          !.quote = prepared],
             pc' = "send", UNCHANGED result
      PROVE  TransferInv'
  <2>1. ~SelfSigned => /\ prepared \in QuoteSpace /\ prepared.addr \in Broadcasters
                       /\ prepared.addr = selected.addr /\ prepared.rate = selected.rate
                       /\ charge = selected.rate * gas * price
                       /\ charge > 0 /\ charge <= FeeLimit
    BY <1>2, WorldAssumption
    DEF TransferInv, QuoteChosen, ChargeChosen, Prepared, Charged, Selected, Quotes
  <2>2. SelfSigned => prepared = NoQuote /\ charge = gas * price /\ charge <= GasCostLimit
    BY <1>2 DEF TransferInv, StepsOfKind, ChargeChosen, Refreshed
  <2>3. RecordTyped'
    BY <1>4, <2>1, <2>2 DEF TransferInv, RecordTyped, Statuses
  <2>4. record'.status = "SUBMITTING" /\ record'.quote = prepared
    BY <1>4 DEF TransferInv, RecordTyped
  <2>5. StepsOfKind'
    BY <1>2, <1>4, <2>2, <2>4 DEF TransferInv, StepsOfKind, SelfSigned, Labels
  <2>6. MoneyTyped' /\ QuoteChosen' /\ ChargeChosen'
    BY <1>1, <1>2, <1>4
    DEF MoneyTyped, QuoteChosen, ChargeChosen, Selected, Charged, Prepared, Refreshed
  <2>7. ~changedEarly
    BY <1>2 DEF TransferInv, RequestLooked, Looked
  <2>8. RequestLooked' /\ ChangedRequestIsNotPaid'
    BY <1>2, <1>4, <2>7 DEF TransferInv, RequestLooked, ChangedRequestIsNotPaid, Looked
  <2>9. ReservedIsLate'
    BY <1>4, <2>4 DEF ReservedIsLate, After
  <2>10. ChainFollows'
    BY <1>2 DEF TransferInv, ChainFollows, Retries, After
  <2>11. SubmissionMatchesProof'
    BY <1>2, <2>1, <2>2, <2>4 DEF SubmissionMatchesProof
  <2>12. WithinLimits'
    BY <1>2, <2>1, <2>2 DEF WithinLimits, SelfSigned
  <2>13. RecordTellsTheTruth'
    BY <2>4 DEF RecordTellsTheTruth
  <2>14. command' \in AllCommands
    BY <1>2 DEF TransferInv
  <2> QED
    BY <2>3, <2>5, <2>6, <2>8, <2>9, <2>10, <2>11, <2>12, <2>13, <2>14 DEF TransferInv
<1> QED
  BY <1>3, <1>4 DEF ReserveRecord

\* What follows the reservation.
LEMMA LaterSteps ==
  ASSUME TransferInv,
         \/ SendSelfSigned \/ SendBroadcaster \/ Lookup \/ ReceiptBroadcaster
         \/ ReceiptSelfSigned \/ StopSession \/ CleanUp
  PROVE  TransferInv'
<1> DEFINE Untouched == UNCHANGED <<command, request, changedEarly, price, gas, charge, selected,
                                    prepared>>
<1>1. ASSUME Untouched, pc \in {"send", "lookup", "receipt"}, NEW outcome, Finish(outcome),
             outcome # "prepared", RecordTyped', record'.quote = record.quote,
             record.status = "none" => record'.status = "none", RecordTellsTheTruth'
      PROVE  TransferInv'
  BY <1>1, FollowingUp DEF Finish, After
<1>2. ASSUME Untouched, pc \in {"send", "lookup"}, pc' \in {"lookup", "receipt"},
             pc' = "lookup" => ~SelfSigned, UNCHANGED result,
             RecordTyped', record'.quote = record.quote,
             record'.status \in {"SUBMITTING", "SUBMITTED"}
      PROVE  TransferInv'
  <2>1. RecordTellsTheTruth'
    BY <1>2 DEF RecordTellsTheTruth
  <2>2. record.status # "none"
    BY <1>2 DEF TransferInv, ReservedIsLate
  <2> QED
    BY <1>2, <2>1, <2>2, FollowingUp DEF After
<1>3. RecordTyped
  BY DEF TransferInv
<1>4. pc \in {"send", "lookup", "receipt"} => record.status \in {"SUBMITTING", "SUBMITTED"}
  BY DEF TransferInv, ReservedIsLate
<1>5. ASSUME pc \in {"send", "lookup", "receipt"}, UNCHANGED record
      PROVE  RecordTyped' /\ RecordTellsTheTruth'
  BY <1>3, <1>4, <1>5 DEF RecordTyped, RecordTellsTheTruth
<1>6. ASSUME NEW status \in Statuses, record' = [record EXCEPT !.status = status]
      PROVE  RecordTyped' /\ record'.status = status /\ record'.quote = record.quote
  BY <1>3, <1>6 DEF RecordTyped
<1>7. CASE SendSelfSigned
  <2>1. /\ Untouched /\ pc = "send" /\ SelfSigned
        /\ \/ \E outcome \in {"SUBMISSION_FAILED", "JOURNAL_UPDATE_FAILED"} :
                Finish(outcome) /\ UNCHANGED record
           \/ /\ record' = [record EXCEPT !.status = "SUBMITTED"]
              /\ pc' = "receipt" /\ UNCHANGED result
    BY <1>7 DEF SendSelfSigned, WriteFails, CallsOut, money
  <2>2. ASSUME NEW outcome \in {"SUBMISSION_FAILED", "JOURNAL_UPDATE_FAILED"},
               Finish(outcome), UNCHANGED record
        PROVE  TransferInv'
    BY <1>1, <1>5, <2>1, <2>2
  <2>3. CASE /\ record' = [record EXCEPT !.status = "SUBMITTED"]
             /\ pc' = "receipt" /\ UNCHANGED result
    BY <1>2, <1>6, <2>1, <2>3 DEF Statuses
  <2> QED
    BY <2>1, <2>2, <2>3
<1>8. CASE SendBroadcaster
  <2>1. Untouched /\ pc = "send" /\ ~SelfSigned
    BY <1>8 DEF SendBroadcaster, CallsOut, money
  <2>2. PICK answer \in Answers :
          LET verdict == Classify(answer) IN
          /\ chain' \in IF answer = "definitive" \/ chain # "none" THEN {chain}
                        ELSE {"none", "pool"}
          /\ \/ verdict = "reported" /\ record' = [record EXCEPT !.reported = TRUE]
                /\ pc' = "lookup" /\ UNCHANGED result
             \/ verdict = "rejected" /\ Finish("BROADCASTER_REJECTED")
                /\ record' = IF Retries THEN record ELSE [record EXCEPT !.status = "REJECTED"]
             \/ verdict = "ambiguous" /\ Finish("BROADCASTER_SUBMISSION_FAILED")
                /\ UNCHANGED record
             \/ WriteFails
    BY <1>8 DEF SendBroadcaster
  <2>3. CASE /\ record' = [record EXCEPT !.reported = TRUE]
             /\ pc' = "lookup" /\ UNCHANGED result
    <3>1. RecordTyped' /\ record'.status = record.status /\ record'.quote = record.quote
      BY <1>3, <2>3 DEF RecordTyped
    <3> QED
      BY <1>2, <1>4, <2>1, <2>3, <3>1
  <2>4. ASSUME NEW outcome \in {"BROADCASTER_REJECTED", "BROADCASTER_SUBMISSION_FAILED",
                                "JOURNAL_UPDATE_FAILED"},
               Finish(outcome), UNCHANGED record
        PROVE  TransferInv'
    BY <1>1, <1>5, <2>1, <2>4
  <2>5. CASE /\ Classify(answer) = "rejected" /\ Finish("BROADCASTER_REJECTED") /\ ~Retries
             /\ record' = [record EXCEPT !.status = "REJECTED"]
    <3>1. answer = "definitive"
      BY <2>2, <2>5 DEF Classify, Answers
    <3>2. chain' = chain /\ chain = "none"
      BY <2>1, <2>2, <2>5, <3>1 DEF TransferInv, ChainFollows
    <3>3. RecordTyped' /\ record'.status = "REJECTED" /\ record'.quote = record.quote
      BY <1>6, <2>5 DEF Statuses
    <3>4. RecordTellsTheTruth'
      BY <3>2, <3>3 DEF RecordTellsTheTruth
    <3> QED
      BY <1>1, <1>4, <2>1, <2>5, <3>3, <3>4
  <2> QED
    BY <2>2, <2>3, <2>4, <2>5 DEF WriteFails
<1>9. CASE Lookup
  <2>1. /\ Untouched /\ pc = "lookup"
        /\ \/ \E outcome \in {"pending", "SYNC_FAILED", "RECEIPT_UNAVAILABLE",
                               "JOURNAL_UPDATE_FAILED"} :
                Finish(outcome) /\ UNCHANGED record
           \/ /\ record' = [record EXCEPT !.status = "SUBMITTED"]
              /\ pc' = "receipt" /\ UNCHANGED result
    BY <1>9 DEF Lookup, WriteFails, CallsOut, money
  <2>2. ASSUME NEW outcome \in {"pending", "SYNC_FAILED", "RECEIPT_UNAVAILABLE",
                                "JOURNAL_UPDATE_FAILED"},
               Finish(outcome), UNCHANGED record
        PROVE  TransferInv'
    BY <1>1, <1>5, <2>1, <2>2
  <2>3. CASE /\ record' = [record EXCEPT !.status = "SUBMITTED"]
             /\ pc' = "receipt" /\ UNCHANGED result
    BY <1>2, <1>6, <2>1, <2>3 DEF Statuses
  <2> QED
    BY <2>1, <2>2, <2>3
<1>10. CASE ReceiptBroadcaster
  <2>1. Untouched /\ pc = "receipt" /\ UNCHANGED chain
    BY <1>10 DEF ReceiptBroadcaster, CallsOut, money
  <2>2. ASSUME NEW outcome \in {"pending", "JOURNAL_UPDATE_FAILED"}, Finish(outcome),
               UNCHANGED record
        PROVE  TransferInv'
    BY <1>1, <1>5, <2>1, <2>2
  <2>3. ASSUME NEW receipts \in Receipts, NEW status \in ReceiptQuorum(receipts),
               record' = [record EXCEPT !.status = IF status = "mined" THEN "MINED" ELSE "REVERTED"],
               Finish(IF status = "mined" THEN "mined" ELSE "TRANSACTION_REVERTED")
        PROVE  TransferInv'
    <3>1. status = chain /\ status \in {"mined", "failed"}
      BY <2>3, AgreedReceiptIsTrue DEF ReceiptQuorum, Receipts
    <3>2. /\ RecordTyped' /\ record'.quote = record.quote
          /\ record'.status = IF status = "mined" THEN "MINED" ELSE "REVERTED"
      BY <1>6, <2>3 DEF Statuses
    <3>3. RecordTellsTheTruth'
      BY <2>1, <3>1, <3>2 DEF RecordTellsTheTruth
    <3> QED
      BY <1>1, <1>4, <2>1, <2>3, <3>2, <3>3
  <2> QED
    BY <1>10, <2>2, <2>3 DEF ReceiptBroadcaster, Recorded, WriteFails
<1>11. CASE ReceiptSelfSigned
  <2>1. Untouched /\ pc = "receipt" /\ SelfSigned
    BY <1>11 DEF ReceiptSelfSigned, CallsOut, money
  <2>2. ASSUME NEW outcome \in {"pending", "JOURNAL_UPDATE_FAILED", "TRANSACTION_REPLACED",
                                "RECEIPT_UNAVAILABLE"},
               Finish(outcome), UNCHANGED record
        PROVE  TransferInv'
    BY <1>1, <1>5, <2>1, <2>2
  <2>3. ASSUME NEW status \in {"MINED", "REVERTED"}, record' = [record EXCEPT !.status = status],
               NEW outcome \in {"mined", "TRANSACTION_REVERTED"}, Finish(outcome)
        PROVE  TransferInv'
    <3>1. RecordTyped' /\ record'.quote = record.quote
      BY <1>6, <2>3 DEF Statuses
    <3>2. RecordTellsTheTruth'
      BY <2>1 DEF RecordTellsTheTruth, SelfSigned
    <3> QED
      BY <1>1, <1>4, <2>1, <2>3, <3>1, <3>2
  <2> QED
    BY <1>11, <2>2, <2>3 DEF ReceiptSelfSigned, Recorded, WriteFails
<1>12. CASE StopSession \/ CleanUp
  <2>1. /\ Untouched /\ UNCHANGED <<chain, record>>
        /\ pc \in After /\ pc' \in {"clean up", "done"}
        /\ result' \in {result, "BROADCASTER_UNAVAILABLE", "ENGINE_STOP_FAILED"}
    BY <1>12 DEF StopSession, CleanUp, CallsOut, money, After
  <2>2. RecordTyped' /\ RecordTellsTheTruth'
    BY <2>1 DEF TransferInv, RecordTyped, RecordTellsTheTruth, SelfSigned
  <2> QED
    BY <2>1, <2>2, FollowingUp DEF After
<1> QED
  BY <1>7, <1>8, <1>9, <1>10, <1>11, <1>12

\* What the invariant says of the command alone.
LEMMA CommandUntouched ==
  ASSUME TransferInv,
         UNCHANGED <<command, pc, result, price, gas, charge, selected, prepared, record>>
  PROVE  /\ command' \in AllCommands /\ RecordTyped' /\ StepsOfKind' /\ MoneyTyped'
         /\ QuoteChosen' /\ ChargeChosen' /\ ReservedIsLate' /\ SubmissionMatchesProof'
         /\ WithinLimits' /\ (Reserved' <=> Reserved)
<1>1. SelfSigned' = SelfSigned
  BY DEF SelfSigned
<1>2. Reserved' <=> Reserved
  BY DEF Reserved, SelfSigned
<1>3. command' \in AllCommands /\ RecordTyped'
  BY DEF TransferInv, RecordTyped
<1>4. StepsOfKind'
  BY <1>1 DEF TransferInv, StepsOfKind
<1>5. MoneyTyped'
  BY <1>1 DEF TransferInv, MoneyTyped
<1>6. QuoteChosen'
  BY <1>1 DEF TransferInv, QuoteChosen
<1>7. ChargeChosen'
  BY <1>1 DEF TransferInv, ChargeChosen
<1>8. ReservedIsLate'
  BY <1>2 DEF TransferInv, ReservedIsLate
<1>9. SubmissionMatchesProof'
  BY DEF TransferInv, SubmissionMatchesProof
<1>10. WithinLimits'
  BY <1>1, <1>2 DEF TransferInv, WithinLimits
<1> QED
  BY <1>2, <1>3, <1>4, <1>5, <1>6, <1>7, <1>8, <1>9, <1>10

\* And with what it says of the request and of the chain.
LEMMA AllUntouched ==
  ASSUME TransferInv,
         UNCHANGED <<command, pc, result, price, gas, charge, selected, prepared, record>>,
         UNCHANGED <<request, changedEarly, chain>>
  PROVE  TransferInv'
<1>1. RequestLooked'
  BY DEF TransferInv, RequestLooked
<1>2. ChainFollows' /\ RecordTellsTheTruth'
  BY DEF TransferInv, ChainFollows, Retries, RecordTellsTheTruth, SelfSigned
<1>3. ChangedRequestIsNotPaid'
  BY CommandUntouched DEF TransferInv, ChangedRequestIsNotPaid
<1> QED
  BY <1>1, <1>2, <1>3, CommandUntouched DEF TransferInv

\* The world changes under the command, but not what it decided.
LEMMA WorldSteps == ASSUME TransferInv, WorldStep PROVE TransferInv'
<1>1. CASE ClientUp \/ LateStop \/ Tick \/ Rotate \/ SpendElsewhere \/ ForeignTransaction
  <2>1. UNCHANGED <<command, pc, result, price, gas, charge, selected, prepared, record, request,
                    changedEarly, chain>>
    BY <1>1
    DEF ClientUp, LateStop, Tick, Rotate, SpendElsewhere, ForeignTransaction, run, own, world, money
  <2> QED
    BY <2>1, AllUntouched
<1>2. CASE RequestChanges
  <2>1. /\ pc \notin After
        /\ UNCHANGED <<command, pc, result, price, gas, charge, selected, prepared, record, chain>>
    BY <1>2 DEF RequestChanges, own, money, Reading, After
  <2>2. RequestLooked'
    <3>1. CASE pc \in Reading /\ changedEarly' = (request' # FreshRequest)
      BY <2>1, <3>1 DEF RequestLooked, Reading, Looked
    <3>2. CASE pc \in Looked /\ UNCHANGED changedEarly
      BY <2>1, <3>2 DEF TransferInv, RequestLooked
    <3> QED
      BY <1>2, <3>1, <3>2 DEF RequestChanges, Looked
  <2>3. ~Reserved
    BY <2>1, EarlyFacts
  <2>4. ChangedRequestIsNotPaid'
    BY <2>1, <2>3, CommandUntouched DEF ChangedRequestIsNotPaid
  <2>5. ChainFollows' /\ RecordTellsTheTruth'
    BY <2>1 DEF TransferInv, ChainFollows, Retries, RecordTellsTheTruth, SelfSigned
  <2> QED
    BY <2>1, <2>2, <2>4, <2>5, CommandUntouched DEF TransferInv
<1>3. CASE Mine
  <2>1. /\ chain = "pool"
        /\ SelfSigned \/ chain' = "mined"
        /\ UNCHANGED <<command, pc, result, price, gas, charge, selected, prepared, record, request,
                       changedEarly>>
    BY <1>3 DEF Mine, own, money
  <2>2. ChainFollows'
    BY <2>1 DEF TransferInv, ChainFollows, Retries
  <2>3. RecordTellsTheTruth'
    BY <2>1 DEF TransferInv, RecordTellsTheTruth, SelfSigned
  <2>4. RequestLooked'
    BY <2>1 DEF TransferInv, RequestLooked
  <2>5. ChangedRequestIsNotPaid'
    BY <2>1, CommandUntouched DEF TransferInv, ChangedRequestIsNotPaid
  <2> QED
    BY <2>1, <2>2, <2>3, <2>4, <2>5, CommandUntouched DEF TransferInv
<1> QED
  BY <1>1, <1>2, <1>3 DEF WorldStep

\* The cache of the client holds quotes.
LEMMA BoardStaysTyped ==
  ASSUME board \subseteq QuoteSpace, [Next]_vars PROVE board' \subseteq QuoteSpace
<1>1. CASE Rotate
  BY <1>1 DEF Rotate
<1>2. ASSUME Next, ~Rotate PROVE board' = board
  BY <1>2
  DEF Next, CommandStep, WorldStep, Start, EngineStarts, Synchronizes, SessionStarted,
      SessionStartFails, Check, ReadGasPrice, SelectProvider, Discover, Estimate, Prove, Refresh,
      Populate, Simulate, LastLookBroadcaster, LastLookSelfSigned, ReadAccount, Sign, Encrypt,
      ReserveRecord, SendSelfSigned, SendBroadcaster, Lookup, ReceiptBroadcaster,
      ReceiptSelfSigned, StopSession, CleanUp, CallsOut, ClientUp, LateStop, Tick, RequestChanges,
      SpendElsewhere, ForeignTransaction, Mine, world
<1> QED
  BY <1>1, <1>2 DEF vars

\* A command begins with nothing chosen.
LEMMA InitialInv == ASSUME Init PROVE TransferInv /\ board \subseteq QuoteSpace
<1>1. command \in AllCommands /\ pc = "start" /\ board = {} /\ prepared = NoQuote
  BY TransferAssumption DEF Init
<1>2. /\ RecordTyped /\ record.quote = NoQuote
      /\ ~Retries => record.status = "none" /\ chain = "none"
      /\ record.status \in {"none", "SUBMITTING"}
  <2>1. CASE Retries
    <3>1. PICK tried \in SUBSET Broadcasters :
            record = [NoRecord EXCEPT !.status = "SUBMITTING", !.tried = tried]
      BY <2>1 DEF Init, Retries
    <3>2. record = [status |-> "SUBMITTING", tried |-> tried, quote |-> NoQuote, reported |-> FALSE]
      BY <3>1 DEF NoRecord
    <3> QED
      BY <2>1, <3>2 DEF RecordTyped, Statuses
  <2>2. CASE ~Retries
    <3>1. record = NoRecord /\ chain = "none"
      BY <2>2 DEF Init, Retries
    <3> QED
      BY <3>1 DEF NoRecord, RecordTyped, Statuses
  <2> QED
    BY <2>1, <2>2
<1>3. StepsOfKind /\ MoneyTyped
  BY <1>1, <1>2 DEF Init, StepsOfKind, MoneyTyped, Labels, Selected
<1>4. QuoteChosen /\ ChargeChosen /\ ChainFollows
  BY <1>1, <1>2 DEF QuoteChosen, ChargeChosen, ChainFollows, Selected, Charged, Prepared, Refreshed
<1>5. ~changedEarly /\ changedEarly \in BOOLEAN /\ result = "none"
  BY DEF Init
<1>6. ~Reserved
  BY <1>2 DEF Reserved, SelfSigned, Retries
<1>7. RequestLooked /\ ReservedIsLate /\ WithinLimits /\ ChangedRequestIsNotPaid
  BY <1>1, <1>5, <1>6 DEF RequestLooked, ReservedIsLate, WithinLimits, ChangedRequestIsNotPaid
<1>8. SubmissionMatchesProof /\ RecordTellsTheTruth
  BY <1>2 DEF SubmissionMatchesProof, RecordTellsTheTruth
<1> QED
  BY <1>1, <1>2, <1>3, <1>4, <1>7, <1>8 DEF TransferInv

\* The invariant, in every reachable state.
LEMMA TransferInvariance == Spec => [](TransferInv /\ board \subseteq QuoteSpace)
<1>1. ASSUME TransferInv, board \subseteq QuoteSpace, [Next]_vars PROVE TransferInv'
  <2>1. CASE CommandStep
    BY <1>1, <2>1, PlainSteps, ReadingSteps, ChargingSteps, LastLookStep, AccountStep, ReserveStep,
       LaterSteps DEF CommandStep
  <2>2. CASE WorldStep
    BY <1>1, <2>2, WorldSteps
  <2>3. CASE UNCHANGED vars
    BY <1>1, <2>3, AllUntouched DEF vars
  <2> QED
    BY <1>1, <2>1, <2>2, <2>3 DEF Next
<1>2. TransferInv /\ board \subseteq QuoteSpace /\ [Next]_vars =>
        (TransferInv /\ board \subseteq QuoteSpace)'
  BY <1>1, BoardStaysTyped
<1> QED
  BY <1>2, InitialInv, PTL DEF Spec

(***************************************************************************)
(* Prices                                                                  *)
(***************************************************************************)
LEMMA ReadingsAreNatural ==
  ASSUME NEW readings \in Readings, NEW p \in Providers PROVE readings[p] \in Nat
<1>1. Prices \cup {0} \subseteq Nat
  BY TransferAssumption
<1> QED
  BY <1>1 DEF Readings

\* The middle of the readings is at least one of the honest ones.
LEMMA MiddleIsNotBelowHonest ==
  ASSUME 2 * Cardinality(Faulty) <= RequiredAgreement,
         NEW readings \in Readings, NEW v \in Conservative(readings), NEW low \in HonestLow(readings)
  PROVE  low \in Nat /\ v \in Nat /\ low <= v
<1> DEFINE healthy == Answered(readings)
           below   == {p \in healthy : readings[p] <= v}
<1>2. \A p \in Providers : readings[p] \in Nat
  BY ReadingsAreNatural
<1>3. v \in Nat
  BY ConservativeIsReported
<1>31. ~(Cardinality(healthy) < RequiredAgreement) /\ v \in Middle(readings)
  BY DEF Conservative
<1>32. Cardinality(below) > Cardinality(healthy) \div 2
  BY <1>31 DEF Middle
<1>4. IsFiniteSet(healthy) /\ IsFiniteSet(below) /\ IsFiniteSet(Faulty)
  BY FS_Subset, WorldAssumption DEF Answered
<1>5. Cardinality(healthy) \in Nat /\ Cardinality(below) \in Nat /\ Cardinality(Faulty) \in Nat
  BY <1>4, FS_CardinalityType
<1>6. Cardinality(Providers) \in Nat
  BY FS_CardinalityType, WorldAssumption
<1>7. RequiredAgreement \in Nat
  BY <1>6 DEF RequiredAgreement
<1>8. Cardinality(Faulty) <= Cardinality(healthy) \div 2
  BY <1>31, <1>5, <1>7
<1>9. PICK p \in below : p \notin Faulty
  <2>1. ~(below \subseteq Faulty)
    <3>1. SUFFICES ASSUME below \subseteq Faulty PROVE FALSE
      OBVIOUS
    <3>2. Cardinality(below) <= Cardinality(Faulty)
      BY <1>4, <3>1, FS_Subset
    <3> QED
      BY <1>32, <1>5, <1>8, <3>2
  <2> QED
    BY <2>1
<1>10. /\ p \in Providers /\ p \in healthy \ Faulty
       /\ readings[p] \in {readings[q] : q \in healthy \ Faulty}
       /\ readings[p] \in Nat /\ readings[p] <= v
  BY <1>2, <1>9 DEF Answered
<1>11. low \in {readings[q] : q \in healthy \ Faulty} /\ low <= readings[p]
  BY <1>10 DEF HonestLow
<1>12. low \in Nat
  BY <1>2, <1>11 DEF Answered
<1> QED
  BY <1>3, <1>10, <1>11, <1>12

\* The price a broadcaster transfer uses is read once.
LEMMA NextKeepsPrices ==
  ASSUME 2 * Cardinality(Faulty) <= RequiredAgreement, TransferInv, PriceInv, [Next]_vars
  PROVE  PriceInv'
<1>1. CASE ReadGasPrice
  <2>1. PICK readings \in Readings :
          \/ UNCHANGED <<price, floor>>
          \/ price' \in Conservative(readings) /\ floor' \in HonestLow(readings)
    BY <1>1 DEF ReadGasPrice
  <2>2. command' = command
    BY <1>1 DEF ReadGasPrice, CallsOut
  <2>3. CASE UNCHANGED <<price, floor>>
    BY <2>2, <2>3 DEF PriceInv, SelfSigned
  <2>4. CASE price' \in Conservative(readings) /\ floor' \in HonestLow(readings)
    BY <2>4, MiddleIsNotBelowHonest DEF PriceInv
  <2> QED
    BY <2>1, <2>3, <2>4
<1>2. CASE SelectProvider \/ Refresh
  <2>1. SelfSigned /\ command' = command
    BY <1>2 DEF SelectProvider, Refresh, CallsOut, TransferInv, StepsOfKind
  <2> QED
    BY <2>1 DEF PriceInv, SelfSigned
<1>3. ASSUME Next, ~ReadGasPrice, ~SelectProvider, ~Refresh
      PROVE  UNCHANGED <<command, price, floor>>
  <2>1. CASE WorldStep
    BY <2>1
    DEF WorldStep, ClientUp, LateStop, Tick, Rotate, RequestChanges, SpendElsewhere,
        ForeignTransaction, Mine, run, own, money
  <2>2. CASE CommandStep
    BY <1>3, <2>2
    DEF CommandStep, Start, EngineStarts, Synchronizes, SessionStarted, SessionStartFails, Check,
        Discover, Estimate, Prove, Populate, Simulate, LastLookBroadcaster, LastLookSelfSigned,
        ReadAccount, Sign, Encrypt, ReserveRecord, SendSelfSigned, SendBroadcaster, Lookup,
        ReceiptBroadcaster, ReceiptSelfSigned, StopSession, CleanUp, CallsOut, money
  <2> QED
    BY <1>3, <2>1, <2>2 DEF Next
<1>4. CASE UNCHANGED <<command, price, floor>>
  BY <1>4 DEF PriceInv, SelfSigned
<1> QED
  BY <1>1, <1>2, <1>3, <1>4 DEF vars

(***************************************************************************)
(* Theorems                                                                *)
(***************************************************************************)
\* Whatever quotes rotate and however prices move: the quote on record is the one
\* the submission was encrypted for, of the broadcaster and at the rate of the one
\* the proof was made for (proofCompatibleQuote, prepareSubmission, reserveBroadcaster).
THEOREM QuoteOnRecordMatchesProof == Spec => []SubmissionMatchesProof
<1>1. TransferInv => SubmissionMatchesProof
  BY DEF TransferInv
<1> QED
  BY <1>1, TransferInvariance, PTL

\* No command reserves a transaction that costs more than its limit, at no price
\* that all honest providers are above if the faulty ones are at most half of those
\* that must answer (assertBroadcasterFeeWithinLimit, assertGasCostWithinLimit,
\* selectConservativeLegacyGasPrice).
THEOREM CostsStayBounded ==
  ASSUME 2 * Cardinality(Faulty) <= RequiredAgreement
  PROVE  Spec => []CostIsBounded
<1>1. Init => PriceInv
  <2>1. Init => floor = 0 /\ price = 0
    BY DEF Init
  <2> QED
    BY <2>1 DEF PriceInv
<1>2. PriceInv /\ TransferInv /\ [Next]_vars => PriceInv'
  BY NextKeepsPrices
<1>3. TransferInv /\ PriceInv => CostIsBounded
  BY DEF TransferInv, PriceInv, CostIsBounded, GasPriceIsConservative
<1> QED
  BY <1>1, <1>2, <1>3, TransferInvariance, PTL DEF Spec

\* A request that is another one when the proof is made is not paid, whatever it has
\* become and however often it changed; one that changed and changed back is
\* (revalidateLiveRequest, assertSamePaymentRequest).
THEOREM ChangedRequestsAreRefused == Spec => []ChangedRequestIsNotPaid
<1>1. TransferInv => ChangedRequestIsNotPaid
  BY DEF TransferInv
<1> QED
  BY <1>1, TransferInvariance, PTL

\* For any number of providers of which fewer than a quorum are faulty, what the
\* record of a broadcaster transfer says of its end is what became of it
\* (selectReceiptQuorum, markMined, markRejected).
THEOREM RecordsAreTrue == Spec => []RecordTellsTheTruth
<1>1. TransferInv => RecordTellsTheTruth
  BY DEF TransferInv
<1> QED
  BY <1>1, TransferInvariance, PTL

\* However often an intent is retried, no broadcaster is sent two of its
\* transactions (attemptedBroadcasterAddresses).
THEOREM NoBroadcasterTwice == Spec => EachBroadcasterOnce
<1>1. ASSUME TransferInv, [Next]_vars, record'.quote # record.quote
      PROVE  prepared.addr \notin record.tried
  <2>1. RecordTyped
    BY <1>1 DEF TransferInv
  <2>2. CASE ReserveRecord
    <3>1. pc = "reserve" /\ record'.quote \in {record.quote, prepared}
      BY <2>1, <2>2 DEF ReserveRecord, RecordTyped
    <3>2. ~SelfSigned
      BY <1>1, <3>1 DEF TransferInv, StepsOfKind
    <3> QED
      BY <1>1, <3>1, <3>2 DEF TransferInv, QuoteChosen, Selected, Prepared
  <2>3. ASSUME Next, ~ReserveRecord PROVE record'.quote = record.quote
    <3>1. CASE WorldStep
      BY <3>1
      DEF WorldStep, ClientUp, LateStop, Tick, Rotate, RequestChanges, SpendElsewhere,
          ForeignTransaction, Mine, own
    <3>2. CASE SendSelfSigned \/ SendBroadcaster \/ Lookup
      BY <2>1, <3>2 DEF SendSelfSigned, SendBroadcaster, Lookup, WriteFails, RecordTyped
    <3>3. CASE ReceiptBroadcaster \/ ReceiptSelfSigned
      BY <2>1, <3>3 DEF ReceiptBroadcaster, ReceiptSelfSigned, Recorded, WriteFails, RecordTyped
    <3>4. CASE UNCHANGED record
      BY <3>4
    <3>5. ASSUME CommandStep, ~(SendSelfSigned \/ SendBroadcaster \/ Lookup),
                 ~(ReceiptBroadcaster \/ ReceiptSelfSigned)
          PROVE  UNCHANGED record
      BY <2>3, <3>5
      DEF CommandStep, Start, EngineStarts, Synchronizes, SessionStarted, SessionStartFails, Check,
          ReadGasPrice, SelectProvider, Discover, Estimate, Prove, Refresh, Populate, Simulate,
          LastLookBroadcaster, LastLookSelfSigned, ReadAccount, Sign, Encrypt, StopSession, CleanUp
    <3> QED
      BY <2>3, <3>1, <3>2, <3>3, <3>4, <3>5 DEF Next
  <2> QED
    BY <1>1, <2>2, <2>3 DEF vars
<1> QED
  BY <1>1, TransferInvariance, PTL DEF Spec, EachBroadcasterOnce

\* The variables the invariant says nothing of.
RestTyped ==
  /\ command \in Commands /\ now \in 0..MaxTime /\ client \in {"off", "starting", "on"}
  /\ request \in {FreshRequest} \cup ChangedRequests
  /\ balance \in Balances /\ seen \in Balances \cup {0}
  /\ price \in Prices \cup {0} /\ floor \in Prices \cup {0}
  /\ prepared \in QuoteSpace \cup {NoQuote}
  /\ nonce \in Nat /\ account \in Nat
  /\ chain \in {"none", "pool", "mined", "failed"}

\* Every step keeps the types of what TransferInv leaves out.
LEMMA NextKeepsRest == ASSUME RestTyped, board \subseteq QuoteSpace, [Next]_vars PROVE RestTyped'
<1>1. CASE \/ Start \/ EngineStarts \/ Synchronizes \/ SessionStarted \/ SessionStartFails
           \/ Check \/ Prove \/ Populate \/ Simulate \/ LastLookSelfSigned \/ Sign \/ Encrypt
  <2>1. /\ UNCHANGED <<command, now, request, balance, price, floor, prepared, nonce, account, chain>>
        /\ client' \in {client, "starting", "off"} /\ seen' \in {seen, balance}
    BY <1>1
    DEF Start, EngineStarts, Synchronizes, SessionStarted, SessionStartFails, Check, Prove, Populate,
        Simulate, LastLookSelfSigned, Sign, Encrypt, CallsOut, money
  <2> QED
    BY <2>1 DEF RestTyped
<1>2. CASE ReadGasPrice
  <2>1. UNCHANGED <<command, now, client, request, balance, seen, prepared, nonce, account, chain>>
    BY <1>2 DEF ReadGasPrice, CallsOut
  <2>2. PICK readings \in Readings :
          \/ UNCHANGED <<price, floor>>
          \/ price' \in Conservative(readings) /\ floor' \in HonestLow(readings)
    BY <1>2 DEF ReadGasPrice
  <2>3. HonestLow(readings) \subseteq Prices \cup {0}
    BY DEF HonestLow, Answered, Readings
  <2>4. price' \in Prices \cup {0} /\ floor' \in Prices \cup {0}
    BY <2>2, <2>3, ConservativeIsReported DEF RestTyped
  <2> QED
    BY <2>1, <2>4 DEF RestTyped
<1>3. CASE SelectProvider \/ Discover \/ Estimate \/ Refresh
  <2>1. /\ UNCHANGED <<command, now, client, request, balance, seen, floor, prepared, nonce, account,
                       chain>>
        /\ price' = price \/ price' \in Prices
    BY <1>3 DEF SelectProvider, Discover, Estimate, Refresh, CallsOut
  <2> QED
    BY <2>1 DEF RestTyped
<1>4. CASE LastLookBroadcaster \/ ReadAccount
  <2>1. /\ UNCHANGED <<command, now, client, request, balance, seen, price, floor, account, chain>>
        /\ nonce' \in {nonce, account}
        /\ prepared' = prepared \/ prepared' \in board
    BY <1>4 DEF LastLookBroadcaster, ReadAccount, CallsOut, SubmissionQuotes
  <2> QED
    BY <2>1 DEF RestTyped
<1>5. CASE \/ ReserveRecord \/ SendSelfSigned \/ SendBroadcaster \/ Lookup
           \/ ReceiptBroadcaster \/ ReceiptSelfSigned \/ StopSession \/ CleanUp
  <2>1. UNCHANGED <<command, now, request, balance, seen, price, floor, prepared, nonce, account>>
    BY <1>5
    DEF ReserveRecord, SendSelfSigned, SendBroadcaster, Lookup, ReceiptBroadcaster,
        ReceiptSelfSigned, StopSession, CleanUp, CallsOut, money
  <2>2. client' \in {client, "off"}
    BY <1>5
    DEF ReserveRecord, SendSelfSigned, SendBroadcaster, Lookup, ReceiptBroadcaster,
        ReceiptSelfSigned, StopSession, CleanUp
  <2>3. chain' \in {chain, "none", "pool"}
    BY <1>5
    DEF ReserveRecord, SendSelfSigned, SendBroadcaster, Lookup, ReceiptBroadcaster,
        ReceiptSelfSigned, StopSession, CleanUp
  <2> QED
    BY <2>1, <2>2, <2>3 DEF RestTyped
<1>6. CASE WorldStep
  <2>1. UNCHANGED <<command, seen, price, floor, prepared, nonce>>
    BY <1>6
    DEF WorldStep, ClientUp, LateStop, Tick, Rotate, RequestChanges, SpendElsewhere,
        ForeignTransaction, Mine, run, own, money
  <2>2. /\ now' = now \/ (now < MaxTime /\ now' = now + 1)
        /\ account' \in {account, account + 1}
        /\ client' \in {client, "on", "off"}
        /\ chain' \in {chain, "mined", "failed"}
        /\ request' = request \/ request' \in {FreshRequest} \cup ChangedRequests
        /\ balance' = balance \/ balance' \in Balances
    BY <1>6
    DEF WorldStep, ClientUp, LateStop, Tick, Rotate, RequestChanges, SpendElsewhere,
        ForeignTransaction, Mine, own, world
  <2> QED
    BY <2>1, <2>2, TransferAssumption DEF RestTyped
<1>7. CASE UNCHANGED vars
  BY <1>7 DEF vars, RestTyped
<1> QED
  BY <1>1, <1>2, <1>3, <1>4, <1>5, <1>6, <1>7 DEF Next, CommandStep

\* They are kept for ever.
LEMMA RestStaysTyped == Spec => []RestTyped
<1>1. ASSUME Init PROVE RestTyped
  <2>1. chain \in {"none", "pool"}
    <3>1. CASE command = "retry-broadcaster"
      BY <1>1, <3>1 DEF Init
    <3>2. CASE command # "retry-broadcaster"
      BY <1>1, <3>2 DEF Init
    <3> QED
      BY <3>1, <3>2
  <2>2. now = 0 /\ now \in 0..MaxTime
    <3>1. now = 0
      BY <1>1 DEF Init
    <3>2. MaxTime \in Nat
      BY TransferAssumption
    <3> QED
      BY <3>1, <3>2
  <2>3. /\ command \in Commands /\ client = "off" /\ request = FreshRequest /\ prepared = NoQuote
        /\ balance \in Balances /\ seen = 0 /\ price = 0 /\ floor = 0 /\ nonce = 0 /\ account = 0
    BY <1>1 DEF Init
  <2> QED
    BY <2>1, <2>2, <2>3 DEF RestTyped
<1>2. RestTyped /\ board \subseteq QuoteSpace /\ [Next]_vars => RestTyped'
  BY NextKeepsRest
<1> QED
  BY <1>1, <1>2, TransferInvariance, PTL DEF Spec

\* The variables of a transfer keep their types.
THEOREM TypeCorrect == Spec => []TypeOK
<1>1. TransferInv /\ board \subseteq QuoteSpace /\ RestTyped => TypeOK
  BY DEF TransferInv, RecordTyped, StepsOfKind, MoneyTyped, RequestLooked, RestTyped, TypeOK, Statuses
<1> QED
  BY <1>1, RestStaysTyped, TransferInvariance, PTL

\* The readiness command and the transfer read the same request with two
\* different lists of conditions; they never contradict each other, whatever the
\* request, the clock and the balance are.
LEMMA ReadinessIsAcceptance ==
  ASSUME NEW r \in Requests, r.genuine, NEW t \in Nat, NEW spendable, NEW budget
  PROVE  LET state == Readiness(r, t, spendable, 0, budget)
         IN  /\ state = "READY" => Accepted(r, t) /\ spendable >= Amount + budget
             /\ state \in {"REQUEST_NOT_PAYABLE", "REQUEST_EXPIRED"} => ~Accepted(r, t)
<1> DEFINE funded == r.status \in {"PAID", "PAID_LATE"} \/ r.received \/ r.pending
           over == ExpiresAt <= t \/ r.status = "EXPIRED"
           closed == r.status # "OPEN" \/ ~r.awaiting
           enough == spendable >= Amount + budget
           state == Readiness(r, t, spendable, 0, budget)
<1>1. state = IF funded THEN "REQUEST_NOT_PAYABLE"
              ELSE IF over THEN "REQUEST_EXPIRED"
              ELSE IF closed THEN "REQUEST_NOT_PAYABLE"
              ELSE IF ~r.ready THEN "RAIL_UNAVAILABLE"
              ELSE IF enough THEN "READY"
              ELSE IF spendable + 0 >= Amount + budget THEN "PRIVATE_BALANCE_PENDING"
              ELSE "INSUFFICIENT_PRIVATE_BALANCE"
  BY DEF Readiness
<1>2. ExpiresAt > t <=> ~(ExpiresAt <= t)
  BY WorldAssumption
<1>3. Accepted(r, t) <=> ~funded /\ ~over /\ ~closed /\ r.ready
  BY <1>2, Zenon DEF Accepted
<1> HIDE DEF state, funded, over, closed, enough
<1>4. state = "READY" => ~funded /\ ~over /\ ~closed /\ r.ready /\ enough
  BY <1>1
<1>5. state \in {"REQUEST_NOT_PAYABLE", "REQUEST_EXPIRED"} => funded \/ over \/ closed
  BY <1>1
<1>6. state = "READY" => Accepted(r, t) /\ enough
  BY <1>3, <1>4
<1>7. state \in {"REQUEST_NOT_PAYABLE", "REQUEST_EXPIRED"} => ~Accepted(r, t)
  BY <1>3, <1>5
<1> QED BY <1>6, <1>7 DEF state, enough

\* What the readiness command answers while another command runs is what a
\* transfer started at that moment would find.
THEOREM ReadinessKeepsItsWord == Spec => []ReadinessAgrees
<1>1. ASSUME RestTyped PROVE ReadinessAgrees
  <2>1. now \in Nat
    BY <1>1, TransferAssumption DEF RestTyped
  <2>2. FreshRequest \in Requests
    BY DEF FreshRequest, Requests
  <2>3. request \in Requests
    BY <1>1, <2>2, TransferAssumption DEF RestTyped
  <2> QED BY <2>1, <2>3, ReadinessIsAcceptance DEF ReadinessAgrees
<1> QED BY <1>1, RestStaysTyped, PTL
===============================================================================
