--------------------------- MODULE Reconciliation ---------------------------
(***************************************************************************)
(* ReconciliationService (src/reconciliation/service.ts) over the tables   *)
(* of src/db/database.ts.  Every action is one SQLite transaction: it      *)
(* stores the observation of a note, rebuilds the projection of the intent *)
(* the note pays and writes the events of that change to the outbox.       *)
(*                                                                         *)
(* A note can be observed in two ways: decrypted by a wallet scan          *)
(* (RailgunScanner.normalizeTXO) or, when the scan no longer shows it, by  *)
(* looking its transaction up again (refreshKnownChainState).  What the    *)
(* chain, the RPC providers and the PPOI nodes answer is the environment's *)
(* choice.                                                                 *)
(***************************************************************************)
EXTENDS Projection

CONSTANTS
  MaxTime,        \* bound of the clock
  MaxRevision,    \* bound of the revision of a projection
  RecheckWindow,  \* scanner.finalizedRecheckSeconds
  SeenBuckets,    \* the buckets the environment may show
  SeenReceipts    \* the receipts the environment may show

ASSUME BoundsAssumption ==
  MaxTime \in Nat /\ MaxRevision \in Nat /\ RecheckWindow \in Nat

VARIABLES
  now,           \* the clock reading the running scan cycle works with
  projections,   \* table intent_projections, by intent id
  ledger,        \* table settlements, by uniqueSettlementId
  events         \* table outbox_events, rows by dedupe_key

vars == <<now, projections, ledger, events>>

(***************************************************************************)
(* Types                                                                   *)
(***************************************************************************)
TransitionType == {"payment.partial", "payment.confirmed", "payment.expired", "payment.reverted"}

\* dedupe keys `type:intent:revision` and `settlement.observed:note`
TransitionEvents == [type : TransitionType, intent : Intents, revision : Nat]
ObservedEvents   == [type : {"settlement.observed"}, note : Notes]

\* The answer about the transaction of a note: no receipt, a failed one, or a
\* successful one not yet counted, below finality, or final.
Receipts == {"missing", "failed", "ahead", "included", "final"}

\* What a wallet scan returns for a note.
Sightings == [note : Notes, rail : BOOLEAN, block : Blocks,
              receipt : SeenReceipts, bucket : SeenBuckets]

ASSUME InputAssumption == SeenReceipts \subseteq Receipts /\ SeenBuckets \subseteq Buckets

(***************************************************************************)
(* Tables                                                                  *)
(***************************************************************************)
\* INSERT ... ON CONFLICT DO UPDATE and plain UPDATE of one row
Put(table, key, row) ==
  [k \in DOMAIN table \cup {key} |-> IF k = key THEN row ELSE table[k]]

\* createIdempotent, as far as this component sees it: the insert of the
\* intent and of its first projection.  expiresAt must be in the future.
CreateIntent(i) ==
  /\ i \notin DOMAIN projections
  /\ ExpiresAt[i] > now
  /\ projections' = Put(projections, i, InitialProjection)
  /\ UNCHANGED <<now, ledger, events>>

(***************************************************************************)
(* Normalization of observations                                           *)
(***************************************************************************)
ChainStatusOfReceipt(receipt) ==
  CASE receipt = "failed"   -> "REVERTED"
    [] receipt = "ahead"    -> "OBSERVED"
    [] receipt = "included" -> "CONFIRMED"
    [] receipt = "final"    -> "FINALIZED"

ChainStatusWhenReceiptMissing(previous) ==
  IF previous = "FINALIZED" THEN "REVERTED" ELSE "OBSERVED"

\* normalizeTXO: a scan has no previous chain status to go by.
NormalizeTXO(s) ==
  [note |-> s.note, rail |-> s.rail, block |-> s.block,
   spent |-> s.bucket \in {"SpentValid", "SpentUnproven"},
   poiStatus |-> BucketToPOIStatus(s.bucket),
   chainStatus |-> IF s.receipt = "missing" THEN ChainStatusWhenReceiptMissing("NONE")
                   ELSE ChainStatusOfReceipt(s.receipt)]

\* refreshKnownChainState: only the chain columns are read again.
RefreshKnownChainState(n, receipt, block) ==
  LET row == ledger[n] IN
  [note |-> n, rail |-> row.rail, spent |-> FALSE, poiStatus |-> row.poiStatus,
   block |-> IF receipt \in {"missing", "failed"} THEN row.block ELSE block,
   chainStatus |-> IF receipt = "missing" THEN ChainStatusWhenReceiptMissing(row.chainStatus)
                   ELSE ChainStatusOfReceipt(receipt)]

(***************************************************************************)
(* The transaction                                                         *)
(***************************************************************************)
\* Wrong variant: a rediscovered note is not compared with its row.
SameIdentityUnchecked(c) == TRUE

\* assertImmutableIdentity; a mismatch throws and rolls the transaction back
SameIdentity(c) == c.note \in DOMAIN ledger => ledger[c.note].rail = c.rail

MatchStatusOf(c) ==
  IF Reference[c.note] \notin DOMAIN projections THEN "UNMATCHED"
  ELSE IF c.rail THEN "MATCHED" ELSE "CONFLICT"

\* Wrong variant: the answer of the last scan always wins.
POIStatusOfLastScan(c) == c.poiStatus

\* A note the merchant has spent keeps the eligibility it once had.
POIStatusOf(c) ==
  IF /\ c.spent
     /\ c.poiStatus = "UNKNOWN"
     /\ c.note \in DOMAIN ledger
     /\ ledger[c.note].poiStatus = "SPENDABLE"
    THEN "SPENDABLE" ELSE c.poiStatus

SettlementRow(c) ==
  LET match    == MatchStatusOf(c)
      poi      == POIStatusOf(c)
      eligible == match = "MATCHED" /\ c.chainStatus = "FINALIZED" /\ poi = "SPENDABLE"
      earlier  == IF c.note \in DOMAIN ledger THEN ledger[c.note].eligibleAt ELSE NoTime
  IN  [rail |-> c.rail, block |-> c.block, chainStatus |-> c.chainStatus,
       poiStatus |-> poi, matchStatus |-> match,
       intent |-> IF match = "MATCHED" THEN Reference[c.note] ELSE NoIntent,
       eligibleAt |-> IF earlier = NoTime /\ eligible THEN now ELSE earlier]

\* Wrong variant: the partial test comes before the test for a lost payment.
TransitionEventsPartialFirst(i, previous, next) ==
  LET Event(type) == {[type |-> type, intent |-> i, revision |-> next.revision]}
  IN  IF next.revision = previous.revision THEN {}
      ELSE IF next.status = "PARTIAL" THEN Event("payment.partial")
      ELSE IF IsPaid(previous) /\ ~IsPaid(next) THEN Event("payment.reverted")
      ELSE IF ~IsPaid(previous) /\ IsPaid(next) THEN Event("payment.confirmed")
      ELSE {}

\* Wrong variant: only a payment in time is confirmed.
TransitionEventsInTimeOnly(i, previous, next) ==
  LET Event(type) == {[type |-> type, intent |-> i, revision |-> next.revision]}
  IN  IF next.revision = previous.revision THEN {}
      ELSE IF IsPaid(previous) /\ ~IsPaid(next) THEN Event("payment.reverted")
      ELSE IF previous.status # "PAID" /\ next.status = "PAID" THEN Event("payment.confirmed")
      ELSE {}

\* Wrong variant: an intent that had received a part of its amount does not expire.
TransitionEventsOpenOnly(i, previous, next) ==
  LET Event(type) == {[type |-> type, intent |-> i, revision |-> next.revision]}
  IN  IF next.revision = previous.revision THEN {}
      ELSE IF IsPaid(previous) /\ ~IsPaid(next) THEN Event("payment.reverted")
      ELSE IF ~IsPaid(previous) /\ IsPaid(next) THEN Event("payment.confirmed")
      ELSE IF next.status = "PARTIAL" /\ next.received # previous.received
        THEN Event("payment.partial")
      ELSE IF previous.status = "OPEN" /\ next.status = "EXPIRED"
        THEN Event("payment.expired")
      ELSE {}

\* transitionEventType, as the set of events one change of projection writes
TransitionEventsOf(i, previous, next) ==
  LET Event(type) == {[type |-> type, intent |-> i, revision |-> next.revision]}
  IN  IF next.revision = previous.revision THEN {}
      ELSE IF IsPaid(previous) /\ ~IsPaid(next) THEN Event("payment.reverted")
      ELSE IF ~IsPaid(previous) /\ IsPaid(next) THEN Event("payment.confirmed")
      ELSE IF next.status = "PARTIAL" /\ next.received # previous.received
        THEN Event("payment.partial")
      ELSE IF previous.status # "EXPIRED" /\ next.status = "EXPIRED"
        THEN Event("payment.expired")
      ELSE {}

\* settlement.observed is written for the first row of a matched note.
ObservedEventOf(c) ==
  IF c.note \in DOMAIN ledger THEN {}
  ELSE {[type |-> "settlement.observed", note |-> c.note]}

\* reconcile.  insertEvent is INSERT OR IGNORE on the dedupe key: set union.
Reconcile(c) ==
  LET i    == Reference[c.note]
      next == DeriveProjection(ledger', i, projections[i], now)
  IN  /\ SameIdentity(c)
      /\ ledger' = Put(ledger, c.note, SettlementRow(c))
      /\ IF MatchStatusOf(c) = "MATCHED"
           THEN /\ projections[i].revision < MaxRevision
                /\ projections' = Put(projections, i, next)
                /\ events' = events \cup ObservedEventOf(c)
                                    \cup TransitionEventsOf(i, projections[i], next)
           ELSE UNCHANGED <<projections, events>>
      /\ UNCHANGED now

\* A memo can only name an intent that exists: the reference is random and is
\* published after the insert.
Published(n) == Reference[n] \in DOMAIN projections \cup {NoIntent}

ReconcileSighting(s) == Published(s.note) /\ Reconcile(NormalizeTXO(s))

\* listChainStateRecheckCandidates
NeedsRecheck(row) ==
  \/ row.chainStatus # "FINALIZED"
  \/ row.eligibleAt # NoTime /\ row.eligibleAt >= now - RecheckWindow

ReconcileRecheck(n, receipt, block) ==
  /\ n \in DOMAIN ledger
  /\ NeedsRecheck(ledger[n])
  /\ Reconcile(RefreshKnownChainState(n, receipt, block))

\* refreshExpirations: every intent is rebuilt in one transaction, as long as there
\* are no more than the 100 000 that listIntents returns.
RefreshExpirations ==
  LET Next(i) == DeriveProjection(ledger, i, projections[i], now)
  IN  /\ \A i \in DOMAIN projections : projections[i].revision < MaxRevision
      /\ projections' = [i \in DOMAIN projections |-> Next(i)]
      /\ events' = events \cup
           UNION {TransitionEventsOf(i, projections[i], Next(i)) : i \in DOMAIN projections}
      /\ UNCHANGED <<now, ledger>>

Tick ==
  /\ now < MaxTime
  /\ now' = now + 1
  /\ UNCHANGED <<projections, ledger, events>>

(***************************************************************************)
(* Specification                                                           *)
(***************************************************************************)
Init ==
  /\ now = 0
  /\ projections = [i \in {} |-> InitialProjection]
  /\ ledger = [n \in {} |-> InitialProjection]
  /\ events = {}

Next ==
  \/ \E i \in Intents : CreateIntent(i)
  \/ \E s \in Sightings : ReconcileSighting(s)
  \/ \E n \in Notes, receipt \in SeenReceipts, block \in Blocks : ReconcileRecheck(n, receipt, block)
  \/ RefreshExpirations
  \/ Tick

Spec == Init /\ [][Next]_vars

(***************************************************************************)
(* Properties                                                              *)
(***************************************************************************)
\* Table shapes, and foreign keys between them.
TypeOK ==
  /\ now \in 0..MaxTime
  /\ DOMAIN projections \subseteq Intents
  /\ \A i \in DOMAIN projections :
       /\ projections[i].status \in IntentStatus
       /\ projections[i].revision \in 0..MaxRevision
  /\ DOMAIN ledger \subseteq Notes
  /\ \A n \in DOMAIN ledger : ledger[n] \in Row
  /\ events \subseteq TransitionEvents \cup ObservedEvents

\* The amounts of a projection are what the settlements add up to, at every
\* moment: no observation is ever stored without the rebuild of the intent it
\* pays, and none moves between intents (service.ts reconcile, rebuildProjection).
ProjectionMatchesLedger ==
  \A i \in DOMAIN projections :
    /\ projections[i].received = Received(ledger, i)
    /\ projections[i].pending = Pending(ledger, i)
    /\ IsPaid(projections[i]) <=> Received(ledger, i) >= Expected[i]

\* Paid in time has a meaning that does not depend on the order of the notes:
\* an intent is PAID exactly when the credited notes whose block is no later
\* than expiresAt suffice on their own (projection.ts statusFor).
PaidMeansEnoughInTime ==
  \A i \in DOMAIN projections :
    LET inTime == {n \in Credited(ledger, i) : BlockTime[ledger[n].block] <= ExpiresAt[i]}
    IN  projections[i].status = "PAID" <=> AddAmounts(inTime) >= Expected[i]

CrossingTypes == {"payment.confirmed", "payment.reverted"}
CrossingsIn(es) == {e \in es : e.type \in CrossingTypes}
CrossingsOf(i) == {e \in CrossingsIn(events) : e.intent = i}
EventsOf(i) == {e \in events \cap TransitionEvents : e.intent = i}

Latest(e, es) == e \in es /\ \A f \in es : f.revision <= e.revision
Follows(e, f, es) ==
  /\ f.revision < e.revision
  /\ \A g \in es : ~(f.revision < g.revision /\ g.revision < e.revision)

Alternates(es, paid) ==
  /\ \A e, f \in es : e.revision = f.revision => e = f
  /\ \A e, f \in es : Follows(e, f, es) => e.type # f.type
  /\ \A e \in es : (\A f \in es : e.revision <= f.revision) => e.type = "payment.confirmed"
  /\ paid <=> \E e \in es : Latest(e, es) /\ e.type = "payment.confirmed"

\* The confirmed and reverted events of an intent alternate in the order of
\* their revisions, starting with a confirmation, and the intent is paid exactly
\* when the last one is a confirmation: whoever replays the outbox in revision
\* order knows what the projection knows (service.ts transitionEventType).
EventsTellWhatIsPaid ==
  \A i \in DOMAIN projections : Alternates(CrossingsOf(i), IsPaid(projections[i]))

\* A note is announced by settlement.observed if and only if it is stored as a
\* payment of an intent: once per note, however often it is seen again.
ObservedIffMatched ==
  \A n \in Notes :
    [type |-> "settlement.observed", note |-> n] \in events
      <=> n \in DOMAIN ledger /\ ledger[n].matchStatus = "MATCHED"

\* Spending a credited note never takes its credit away: the eligibility of a
\* note may be withdrawn by PPOI, but it is not forgotten.
SpendingKeepsEligibility ==
  [][\A n \in DOMAIN ledger :
       ledger[n].poiStatus = "SPENDABLE" => ledger'[n].poiStatus # "UNKNOWN"]_vars

\* Seen from its payment events alone, the reconciler is a PaymentFeed.
Feed == INSTANCE PaymentFeed WITH
  Revisions <- 1..MaxRevision,
  paidIntents <- {i \in DOMAIN projections : IsPaid(projections[i])},
  feed <- CrossingsIn(events)
IsAPaymentFeed == Feed!FeedSpec

\* Whoever follows the outbox learns that an intent has expired: the last event
\* about an EXPIRED intent says so, or says that its payment was reverted.  The
\* second is what happens when a payment is lost after the expiry, though
\* "payment.expired: An intent transitions to EXPIRED" (docs/PAYMENT-STATES.md).
ExpiryIsTold ==
  \A i \in DOMAIN projections :
    projections[i].status = "EXPIRED" =>
      \E e \in EventsOf(i) :
        Latest(e, EventsOf(i)) /\ e.type \in {"payment.expired", "payment.reverted"}
=============================================================================
