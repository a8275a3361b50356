----------------------------- MODULE Projection -----------------------------
(***************************************************************************)
(* The pure part of the reconciler (src/reconciliation/projection.ts and   *)
(* the classification helpers of src/railgun/scanner.ts): how the rows of  *)
(* the settlements table that belong to an intent are turned into the      *)
(* intent's projection.                                                    *)
(*                                                                         *)
(* A note is one private output addressed to the merchant.  Its amount,    *)
(* its memo reference and its tree position never change; the block that   *)
(* holds its transaction, its finality and its PPOI bucket do.             *)
(***************************************************************************)
EXTENDS Integers, Functions

CONSTANTS
  Intents,     \* payment intents the merchant may create
  Notes,       \* private outputs that may arrive, by uniqueSettlementId
  NoIntent,    \* SQL NULL in settlements.intent_id
  NoTime,      \* SQL NULL in settlements.eligible_at
  Amount,      \* [Notes -> Nat]  amountAtomic
  Reference,   \* [Notes -> Intents \cup {NoIntent}]  intent named by the memo
  Position,    \* [Notes -> Nat]  (tree, position), a total order on notes
  Expected,    \* [Intents -> Nat \ {0}]  expectedAmountAtomic
  ExpiresAt,   \* [Intents -> Nat]
  Blocks,      \* block numbers
  BlockTime    \* [Blocks -> Nat]  timestamps, nondecreasing in the block number

ASSUME DataAssumption ==
  /\ NoIntent \notin Intents
  /\ NoTime \notin Nat
  /\ Amount \in [Notes -> Nat \ {0}]
  /\ Reference \in [Notes -> Intents \cup {NoIntent}]
  /\ Position \in [Notes -> Nat]
  /\ \A m, n \in Notes : Position[m] = Position[n] => m = n
  /\ Expected \in [Intents -> Nat \ {0}]
  /\ ExpiresAt \in [Intents -> Nat]
  /\ Blocks \subseteq Nat
  /\ BlockTime \in [Blocks -> Nat]
  /\ \A a, b \in Blocks : a <= b => BlockTime[a] <= BlockTime[b]

(***************************************************************************)
(* Types                                                                   *)
(***************************************************************************)
ChainStatus  == {"OBSERVED", "CONFIRMED", "FINALIZED", "REVERTED"}
POIStatus    == {"UNKNOWN", "PENDING", "SPENDABLE", "BLOCKED"}
MatchStatus  == {"UNMATCHED", "MATCHED", "CONFLICT"}
IntentStatus == {"OPEN", "PARTIAL", "PAID", "EXPIRED", "PAID_LATE"}

\* Balance buckets of the wallet SDK.  The four "not yet proven" buckets are
\* one class; Spent is split by whether a raw status is Valid.
Buckets == {"Spendable", "ShieldBlocked", "ShieldPending", "SpentValid", "SpentUnproven"}

\* A row of the settlements table: the columns some decision reads.  rail is
\* the comparison of the row's chain and token with those of the instance.
Row == [rail : BOOLEAN, block : Blocks, chainStatus : ChainStatus,
        poiStatus : POIStatus, matchStatus : MatchStatus,
        intent : Intents \cup {NoIntent}, eligibleAt : Nat \cup {NoTime}]

(***************************************************************************)
(* Classification of one row                                               *)
(***************************************************************************)
BucketToPOIStatus(bucket) ==
  CASE bucket \in {"Spendable", "SpentValid"} -> "SPENDABLE"
    [] bucket = "ShieldBlocked"               -> "BLOCKED"
    [] bucket = "ShieldPending"               -> "PENDING"
    [] bucket = "SpentUnproven"               -> "UNKNOWN"

IsCreditable(row) ==
  /\ row.matchStatus = "MATCHED"
  /\ row.chainStatus = "FINALIZED"
  /\ row.poiStatus = "SPENDABLE"

IsPending(row) ==
  /\ row.matchStatus = "MATCHED"
  /\ row.chainStatus # "REVERTED"
  /\ ~IsCreditable(row)

(***************************************************************************)
(* Sums over the rows of an intent                                         *)
(***************************************************************************)
Credited(ledger, i) == {n \in DOMAIN ledger : ledger[n].intent = i /\ IsCreditable(ledger[n])}
Awaited(ledger, i)  == {n \in DOMAIN ledger : ledger[n].intent = i /\ IsPending(ledger[n])}

AddAmounts(notes) == SumFunctionOnSet(Amount, notes)

Received(ledger, i) == AddAmounts(Credited(ledger, i))
Pending(ledger, i)  == AddAmounts(Awaited(ledger, i))

\* Wrong variant: notes sorted by their place in the tree alone.
BeforeInTree(ledger, m, n) == Position[m] <= Position[n]

\* The order of the sort in statusFor: block number, then tree position.
Before(ledger, m, n) ==
  \/ ledger[m].block < ledger[n].block
  \/ ledger[m].block = ledger[n].block /\ Position[m] <= Position[n]

\* The note at which the running total of the sorted notes reaches expected.
CrossingNote(ledger, notes, expected) ==
  LET Reaches(n) == AddAmounts({m \in notes : Before(ledger, m, n)}) >= expected
  IN  CHOOSE n \in notes :
        /\ Reaches(n)
        /\ \A m \in notes : Reaches(m) => Before(ledger, n, m)

StatusFor(ledger, i, received, now) ==
  IF received >= Expected[i]
    THEN LET n == CrossingNote(ledger, Credited(ledger, i), Expected[i])
         IN  IF BlockTime[ledger[n].block] > ExpiresAt[i] THEN "PAID_LATE" ELSE "PAID"
  ELSE IF received > 0 THEN "PARTIAL"
  ELSE IF now >= ExpiresAt[i] THEN "EXPIRED" ELSE "OPEN"

Overpayment(received, i) == IF received > Expected[i] THEN received - Expected[i] ELSE 0

InitialProjection ==
  [status |-> "OPEN", received |-> 0, pending |-> 0, overpayment |-> 0, revision |-> 0]

DeriveProjection(ledger, i, previous, now) ==
  LET received == Received(ledger, i)
      next == [status      |-> StatusFor(ledger, i, received, now),
               received    |-> received,
               pending     |-> Pending(ledger, i),
               overpayment |-> Overpayment(received, i),
               revision    |-> previous.revision]
  IN  IF next = previous THEN previous ELSE [next EXCEPT !.revision = @ + 1]

IsPaid(projection) == projection.status \in {"PAID", "PAID_LATE"}
=============================================================================
