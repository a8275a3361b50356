------------------------ MODULE ReconciliationProofs ------------------------
(***************************************************************************)
(* Machine-checked proofs about Reconciliation and Checkout, for every set *)
(* of intents and notes and every value of the bounds.                     *)
(*                                                                         *)
(* What a sum over the notes does is proved from its recursion: whatever   *)
(* fails for some finite set fails for a smallest one.                     *)
(***************************************************************************)
EXTENDS Checkout, FiniteSetTheorems, WellFoundedInduction, TLAPS

(***************************************************************************)
(* The inductive invariant                                                 *)
(***************************************************************************)
\* A row is a payment of the intent its memo names exactly when that intent
\* exists and chain and token are the instance's, and this never changes.
Linked ==
  \A n \in DOMAIN ledger :
    /\ Reference[n] \in DOMAIN projections \cup {NoIntent}
    /\ ledger[n].matchStatus = "MATCHED" <=> Reference[n] # NoIntent /\ ledger[n].rail
    /\ ledger[n].intent = IF ledger[n].matchStatus = "MATCHED" THEN Reference[n] ELSE NoIntent

\* No event is ahead of the projection it was written with.
EventsBehindProjection ==
  \A e \in events \cap TransitionEvents :
    /\ e.intent \in DOMAIN projections
    /\ e.revision <= projections[e.intent].revision

IInv ==
  /\ TypeOK
  /\ Linked
  /\ EventsBehindProjection
  /\ ProjectionMatchesLedger
  /\ EventsTellWhatIsPaid
  /\ ObservedIffMatched

(***************************************************************************)
(* Facts about the operators                                               *)
(***************************************************************************)
\* An intent no credited note belongs to has received nothing.
LEMMA SumOfNone == AddAmounts({}) = 0
<1> DEFINE F(iter) == [s \in SUBSET {} |->
                         IF s = {} THEN 0
                         ELSE LET x == CHOOSE y \in s : TRUE
                              IN  Amount[x] + iter[s \ {x}]]
           zero == [s \in SUBSET {} |-> 0]
<1>1. zero = F(zero)
  OBVIOUS
<1>2. \A iter : iter = F(iter) => iter[{}] = 0
  OBVIOUS
<1>3. (CHOOSE iter : iter = F(iter))[{}] = 0
  <2> HIDE DEF F
  <2>1. \E iter : iter = F(iter)
    BY <1>1
  <2> QED
    BY <2>1, <1>2
<1> QED
  BY <1>3 DEF AddAmounts, SumFunctionOnSet, FoldFunctionOnSet, MapThenFoldSet

\* An event of the opposite kind at a new, highest revision keeps the history
\* alternating and flips what it says.
LEMMA CrossingExtendsHistory ==
  ASSUME NEW es, NEW paid \in BOOLEAN, NEW new,
         \A e \in es : e.revision \in Nat /\ e.type \in CrossingTypes,
         Alternates(es, paid),
         new.revision \in Nat,
         \A e \in es : e.revision < new.revision,
         new.type = IF paid THEN "payment.reverted" ELSE "payment.confirmed"
  PROVE  Alternates(es \cup {new}, ~paid)
<1> DEFINE all == es \cup {new}
<1>1. \A e, f \in all : e.revision = f.revision => e = f
  BY DEF Alternates
<1>2. ASSUME NEW e \in all, NEW f \in all, Follows(e, f, all)
      PROVE  e.type # f.type
  <2>1. CASE e \in es
    <3>1. f \in es /\ Follows(e, f, es)
      BY <1>2, <2>1 DEF Follows
    <3> QED
      BY <2>1, <3>1 DEF Alternates
  <2>2. CASE e = new
    <3>1. f \in es
      BY <1>2, <2>2 DEF Follows
    <3>2. Latest(f, es)
      BY <1>2, <2>2, <3>1 DEF Follows, Latest
    <3>3. paid <=> f.type = "payment.confirmed"
      BY <3>1, <3>2 DEF Latest, Alternates
    <3> QED
      BY <2>2, <3>1, <3>3 DEF CrossingTypes
  <2> QED
    BY <2>1, <2>2
<1>3. ASSUME NEW e \in all, \A f \in all : e.revision <= f.revision
      PROVE  e.type = "payment.confirmed"
  <2>1. CASE e \in es
    BY <1>3, <2>1 DEF Alternates
  <2>2. CASE e = new
    <3>1. es = {}
      BY <1>3, <2>2
    <3>2. ~paid
      BY <3>1 DEF Alternates
    <3> QED
      BY <2>2, <3>2
  <2> QED
    BY <2>1, <2>2
<1>4. \A e \in all : Latest(e, all) <=> e = new
  BY DEF Latest
<1>5. ~paid <=> \E e \in all : Latest(e, all) /\ e.type = "payment.confirmed"
  BY <1>4
<1> QED
  BY <1>1, <1>2, <1>3, <1>5 DEF Alternates

\* What a rebuild does to a projection, whatever the ledger holds.
LEMMA RebuildFacts ==
  ASSUME NEW rows, NEW i, NEW previous, NEW t,
         previous.revision \in Nat
  PROVE  LET next == DeriveProjection(rows, i, previous, t)
         IN  /\ next.status \in IntentStatus
             /\ next.revision \in Nat
             /\ next = previous \/ next.revision = previous.revision + 1
             /\ next.received = Received(rows, i)
             /\ next.pending = Pending(rows, i)
             /\ IsPaid(next) <=> Received(rows, i) >= Expected[i]
<1> DEFINE received == Received(rows, i)
           status == StatusFor(rows, i, received, t)
           raw == [status      |-> status,
                   received    |-> received,
                   pending     |-> Pending(rows, i),
                   overpayment |-> Overpayment(received, i),
                   revision    |-> previous.revision]
           bumped == [raw EXCEPT !.revision = @ + 1]
<1>1. /\ status \in IntentStatus
      /\ status \in {"PAID", "PAID_LATE"} <=> received >= Expected[i]
  BY Zenon DEF StatusFor, IntentStatus
<1>2. DeriveProjection(rows, i, previous, t) = IF raw = previous THEN previous ELSE bumped
  BY DEF DeriveProjection
<1>3. CASE raw = previous
  <2> HIDE DEF received, status
  <2> QED BY <1>1, <1>2, <1>3 DEF IsPaid, received
<1>4. CASE raw # previous
  <2> HIDE DEF received, status
  <2>1. /\ bumped.status = status
        /\ bumped.received = received
        /\ bumped.pending = Pending(rows, i)
        /\ bumped.revision = previous.revision + 1
    OBVIOUS
  <2> QED BY <1>1, <1>2, <1>4, <2>1 DEF IsPaid, received
<1> QED
  BY <1>3, <1>4

\* The events of one rebuild: at most one, at the new revision, and a crossing
\* event exactly when the rebuild crosses between paid and unpaid.
LEMMA TransitionFacts ==
  ASSUME NEW i \in Intents, NEW previous, NEW next,
         previous.revision \in Nat, next.revision \in Nat,
         next = previous \/ next.revision = previous.revision + 1
  PROVE  LET evs == TransitionEventsOf(i, previous, next)
         IN  /\ \A e \in evs : /\ e \in TransitionEvents
                               /\ e.intent = i
                               /\ e.revision = next.revision
                               /\ next.revision = previous.revision + 1
             /\ IsPaid(previous) <=> IsPaid(next) => CrossingsIn(evs) = {}
             /\ ~(IsPaid(previous) <=> IsPaid(next)) =>
                  /\ next.revision = previous.revision + 1
                  /\ CrossingsIn(evs) =
                       {[type |-> IF IsPaid(previous) THEN "payment.reverted"
                                                      ELSE "payment.confirmed",
                         intent |-> i, revision |-> next.revision]}
<1> DEFINE evs == TransitionEventsOf(i, previous, next)
           Event(type) == [type |-> type, intent |-> i, revision |-> next.revision]
<1>1. \/ evs = {}
      \/ \E type \in TransitionType : evs = {Event(type)} /\ next.revision # previous.revision
  BY DEF TransitionEventsOf, TransitionType
<1>2. \A e \in evs : /\ e \in TransitionEvents
                     /\ e.intent = i
                     /\ e.revision = next.revision
                     /\ next.revision = previous.revision + 1
  <2> HIDE DEF evs
  <2> QED BY <1>1 DEF TransitionEvents
<1>3. ASSUME IsPaid(previous) <=> IsPaid(next)
      PROVE  CrossingsIn(evs) = {}
  <2>1. evs = {} \/ evs = {Event("payment.partial")} \/ evs = {Event("payment.expired")}
    BY <1>3 DEF TransitionEventsOf
  <2> HIDE DEF evs
  <2> QED BY <2>1 DEF CrossingsIn, CrossingTypes
<1>4. ASSUME ~(IsPaid(previous) <=> IsPaid(next))
      PROVE  /\ next.revision = previous.revision + 1
             /\ CrossingsIn(evs) = {Event(IF IsPaid(previous) THEN "payment.reverted"
                                                              ELSE "payment.confirmed")}
  <2>1. next.revision = previous.revision + 1
    BY <1>4
  <2>2. evs = {Event(IF IsPaid(previous) THEN "payment.reverted" ELSE "payment.confirmed")}
    BY <1>4, <2>1 DEF TransitionEventsOf
  <2> HIDE DEF evs
  <2> QED BY <2>1, <2>2 DEF CrossingsIn, CrossingTypes
<1> QED
  BY <1>2, <1>3, <1>4

(***************************************************************************)
(* Each action preserves the invariant                                     *)
(***************************************************************************)
\* The empty tables of a new database satisfy the inductive invariant.
LEMMA InitEstablishesIInv == Init => IInv
<1> SUFFICES ASSUME Init PROVE IInv
  OBVIOUS
<1> DEFINE empty == [n \in {} |-> InitialProjection]
<1>1. DOMAIN projections = {} /\ DOMAIN ledger = {} /\ events = {}
  BY DEF Init
<1>2. TypeOK
  BY <1>1, BoundsAssumption DEF Init, TypeOK
<1> QED
  BY <1>1, <1>2 DEF IInv, Linked, EventsBehindProjection, ProjectionMatchesLedger,
     EventsTellWhatIsPaid, ObservedIffMatched

\* A new intent starts with no note and no history, and disturbs no other.
LEMMA CreateIntentPreservesIInv ==
  ASSUME IInv, NEW i \in Intents, CreateIntent(i)
  PROVE  IInv'
<1> USE DEF IInv
<1>1. /\ DOMAIN projections' = DOMAIN projections \cup {i}
      /\ projections'[i] = InitialProjection
      /\ \A j \in DOMAIN projections : projections'[j] = projections[j]
      /\ i \notin DOMAIN projections
      /\ UNCHANGED <<now, ledger, events>>
  BY DEF CreateIntent, Put
<1>2. TypeOK'
  BY <1>1, BoundsAssumption DEF TypeOK, InitialProjection, IntentStatus
<1>3. Linked'
  BY <1>1 DEF Linked
<1>4. EventsBehindProjection'
  BY <1>1 DEF EventsBehindProjection
<1>5. Credited(ledger, i) = {} /\ Awaited(ledger, i) = {}
  BY <1>1, DataAssumption DEF Linked, Credited, Awaited
<1>6. Received(ledger, i) = 0 /\ Pending(ledger, i) = 0
  BY <1>5, SumOfNone DEF Received, Pending
<1>7. ProjectionMatchesLedger'
  <2> SUFFICES ASSUME NEW j \in DOMAIN projections'
               PROVE  /\ projections'[j].received = Received(ledger, j)
                      /\ projections'[j].pending = Pending(ledger, j)
                      /\ IsPaid(projections'[j]) <=> Received(ledger, j) >= Expected[j]
    BY <1>1 DEF ProjectionMatchesLedger
  <2>1. CASE j = i
    BY <2>1, <1>1, <1>6, DataAssumption DEF InitialProjection, IsPaid
  <2>2. CASE j # i
    BY <2>2, <1>1 DEF ProjectionMatchesLedger
  <2> QED
    BY <2>1, <2>2
<1>8. EventsTellWhatIsPaid'
  <2> SUFFICES ASSUME NEW j \in DOMAIN projections'
               PROVE  Alternates(CrossingsOf(j), IsPaid(projections'[j]))
    BY <1>1 DEF EventsTellWhatIsPaid, CrossingsOf
  <2>1. CASE j = i
    <3>1. CrossingsOf(i) = {}
      BY <1>1 DEF CrossingsOf, CrossingsIn, CrossingTypes, EventsBehindProjection, TypeOK,
         ObservedEvents
    <3>2. ~IsPaid(projections'[i])
      BY <1>1 DEF InitialProjection, IsPaid
    <3> QED
      BY <2>1, <3>1, <3>2 DEF Alternates
  <2>2. CASE j # i
    BY <2>2, <1>1 DEF EventsTellWhatIsPaid
  <2> QED
    BY <2>1, <2>2
<1>9. ObservedIffMatched'
  BY <1>1 DEF ObservedIffMatched
<1> QED
  BY <1>2, <1>3, <1>4, <1>7, <1>8, <1>9
Candidates == [note : Notes, rail : BOOLEAN, block : Blocks, spent : BOOLEAN,
               poiStatus : POIStatus, chainStatus : ChainStatus]

\* The row a candidate writes, and what it leaves alone.
LEMMA RowFacts ==
  ASSUME IInv, NEW c \in Candidates, Published(c.note), SameIdentity(c),
         ledger' = Put(ledger, c.note, SettlementRow(c)), UNCHANGED now
  PROVE  /\ DOMAIN ledger' = DOMAIN ledger \cup {c.note}
         /\ \A n \in DOMAIN ledger \ {c.note} : ledger'[n] = ledger[n]
         /\ ledger'[c.note] \in Row
         /\ ledger'[c.note].rail = c.rail
         /\ ledger'[c.note].matchStatus = MatchStatusOf(c)
         /\ ledger'[c.note].intent =
              IF MatchStatusOf(c) = "MATCHED" THEN Reference[c.note] ELSE NoIntent
         /\ MatchStatusOf(c) = "MATCHED" <=> Reference[c.note] # NoIntent /\ c.rail
         /\ MatchStatusOf(c) = "MATCHED" => Reference[c.note] \in DOMAIN projections
         /\ c.note \in DOMAIN ledger =>
              (ledger[c.note].matchStatus = "MATCHED" <=> MatchStatusOf(c) = "MATCHED")
<1>1. /\ DOMAIN ledger' = DOMAIN ledger \cup {c.note}
      /\ \A n \in DOMAIN ledger \ {c.note} : ledger'[n] = ledger[n]
      /\ ledger'[c.note] = SettlementRow(c)
  BY DEF Put
<1>2. c.note \in Notes /\ DOMAIN projections \subseteq Intents
  BY DEF Candidates, IInv, TypeOK
<1>3. /\ MatchStatusOf(c) \in MatchStatus
      /\ MatchStatusOf(c) = "MATCHED" <=> Reference[c.note] # NoIntent /\ c.rail
      /\ MatchStatusOf(c) = "MATCHED" => Reference[c.note] \in DOMAIN projections
  BY <1>2, DataAssumption DEF MatchStatusOf, MatchStatus, Published
<1>4. POIStatusOf(c) \in POIStatus
  BY DEF POIStatusOf, POIStatus, Candidates
<1>5. c.note \in DOMAIN ledger => ledger[c.note].eligibleAt \in Nat \cup {NoTime}
  BY DEF IInv, TypeOK, Row
<1>6. SettlementRow(c) \in Row
  <2> DEFINE earlier == IF c.note \in DOMAIN ledger THEN ledger[c.note].eligibleAt ELSE NoTime
             eligible == /\ MatchStatusOf(c) = "MATCHED"
                         /\ c.chainStatus = "FINALIZED"
                         /\ POIStatusOf(c) = "SPENDABLE"
             at == IF earlier = NoTime /\ eligible THEN now ELSE earlier
             owner == IF MatchStatusOf(c) = "MATCHED" THEN Reference[c.note] ELSE NoIntent
  <2>1. now \in Nat
    BY BoundsAssumption DEF IInv, TypeOK
  <2>2. at \in Nat \cup {NoTime}
    BY <1>5, <2>1
  <2>3. owner \in Intents \cup {NoIntent}
    BY <1>2, <1>3
  <2>4. SettlementRow(c) = [rail |-> c.rail, block |-> c.block, chainStatus |-> c.chainStatus,
          poiStatus |-> POIStatusOf(c), matchStatus |-> MatchStatusOf(c),
          intent |-> owner, eligibleAt |-> at]
    BY DEF SettlementRow
  <2> HIDE DEF at, owner
  <2> QED
    BY <1>3, <1>4, <2>2, <2>3, <2>4 DEF Row, Candidates
<1>7. /\ SettlementRow(c).rail = c.rail
      /\ SettlementRow(c).matchStatus = MatchStatusOf(c)
      /\ SettlementRow(c).intent =
           IF MatchStatusOf(c) = "MATCHED" THEN Reference[c.note] ELSE NoIntent
  BY DEF SettlementRow
<1>8. c.note \in DOMAIN ledger =>
        (ledger[c.note].matchStatus = "MATCHED" <=> MatchStatusOf(c) = "MATCHED")
  BY <1>3 DEF IInv, Linked, SameIdentity
<1> QED
  BY <1>1, <1>3, <1>6, <1>7, <1>8

\* A candidate touches the sums of at most the intent its memo names.
LEMMA OtherSumsUnchanged ==
  ASSUME IInv, NEW c \in Candidates, Published(c.note), SameIdentity(c),
         ledger' = Put(ledger, c.note, SettlementRow(c)), UNCHANGED now,
         NEW j \in DOMAIN projections,
         MatchStatusOf(c) # "MATCHED" \/ j # Reference[c.note]
  PROVE  Received(ledger', j) = Received(ledger, j) /\ Pending(ledger', j) = Pending(ledger, j)
<1>1. j \in Intents /\ j # NoIntent
  BY DataAssumption DEF IInv, TypeOK
<1>2. ledger'[c.note].intent # j
  BY <1>1, RowFacts
<1>3. c.note \in DOMAIN ledger => ledger[c.note].intent # j
  BY <1>1, RowFacts DEF IInv, Linked
<1>4. /\ DOMAIN ledger' = DOMAIN ledger \cup {c.note}
      /\ \A n \in DOMAIN ledger \ {c.note} : ledger'[n] = ledger[n]
  BY RowFacts
<1>5. Credited(ledger', j) = Credited(ledger, j)
  BY <1>2, <1>3, <1>4 DEF Credited
<1>6. Awaited(ledger', j) = Awaited(ledger, j)
  BY <1>2, <1>3, <1>4 DEF Awaited
<1> QED
  BY <1>5, <1>6 DEF Received, Pending

\* One rebuild of intent i keeps its history truthful: the events the step adds
\* for i are those of the rebuild.
LEMMA HistoryStaysTruthful ==
  ASSUME IInv, NEW i \in DOMAIN projections, NEW next,
         next.revision \in Nat,
         next = projections[i] \/ next.revision = projections[i].revision + 1,
         projections'[i] = next,
         CrossingsOf(i)' = CrossingsOf(i)
           \cup CrossingsIn(TransitionEventsOf(i, projections[i], next))
  PROVE  Alternates(CrossingsOf(i)', IsPaid(projections'[i]))
<1> DEFINE es == CrossingsOf(i)
           old == projections[i]
           paid == IsPaid(old)
<1>1. i \in Intents /\ old.revision \in Nat
  BY BoundsAssumption DEF IInv, TypeOK
<1>2. Alternates(es, paid)
  BY DEF IInv, EventsTellWhatIsPaid
<1>3. \A e \in es : /\ e.revision \in Nat
                    /\ e.type \in CrossingTypes
                    /\ e.revision <= old.revision
  BY DEF IInv, TypeOK, EventsBehindProjection, CrossingsOf, CrossingsIn, CrossingTypes,
     ObservedEvents, TransitionEvents
<1>4. CASE paid <=> IsPaid(next)
  <2>1. CrossingsIn(TransitionEventsOf(i, old, next)) = {}
    BY <1>1, <1>4, TransitionFacts
  <2>2. CrossingsOf(i)' = es
    BY <2>1
  <2>3. IsPaid(projections'[i]) <=> paid
    BY <1>4
  <2>4. IsPaid(projections'[i]) = paid
    BY <2>3 DEF IsPaid
  <2> QED
    BY <1>2, <2>2, <2>4
<1>5. CASE ~(paid <=> IsPaid(next))
  <2> DEFINE new == [type |-> IF paid THEN "payment.reverted" ELSE "payment.confirmed",
                     intent |-> i, revision |-> next.revision]
  <2>1. /\ next.revision = old.revision + 1
        /\ CrossingsIn(TransitionEventsOf(i, old, next)) = {new}
    BY <1>1, <1>5, TransitionFacts
  <2>2. CrossingsOf(i)' = es \cup {new}
    BY <2>1
  <2>3. \A e \in es : e.revision < new.revision
    BY <1>1, <1>3, <2>1
  <2>4. paid \in BOOLEAN /\ IsPaid(next) \in BOOLEAN
    BY DEF IsPaid
  <2>5. Alternates(es \cup {new}, ~paid)
    <3>1. new.revision \in Nat /\ new.type = IF paid THEN "payment.reverted" ELSE "payment.confirmed"
      OBVIOUS
    <3> HIDE DEF new, es, paid, old
    <3> QED
      BY <1>2, <1>3, <2>3, <2>4, <3>1, CrossingExtendsHistory
  <2>6. IsPaid(projections'[i]) = ~paid
    BY <1>5, <2>4
  <2> QED
    BY <2>2, <2>5, <2>6
<1> QED
  BY <1>4, <1>5

\* What the outbox holds besides the old rows after a rebuild of i.
LEMMA OutboxFacts ==
  ASSUME IInv, NEW i \in DOMAIN projections, NEW next,
         next.revision \in Nat,
         next = projections[i] \/ next.revision = projections[i].revision + 1,
         NEW seen, \A e \in seen : e \in ObservedEvents,
         events' = events \cup seen \cup TransitionEventsOf(i, projections[i], next)
  PROVE  /\ events' \subseteq TransitionEvents \cup ObservedEvents
         /\ CrossingsOf(i)' = CrossingsOf(i)
              \cup CrossingsIn(TransitionEventsOf(i, projections[i], next))
         /\ \A j \in Intents : j # i => CrossingsOf(j)' = CrossingsOf(j)
         /\ \A e \in events' \cap TransitionEvents :
              e \in events \/ (e.intent = i /\ e.revision = next.revision)
<1> DEFINE evs == TransitionEventsOf(i, projections[i], next)
<1>1. i \in Intents /\ projections[i].revision \in Nat
  BY BoundsAssumption DEF IInv, TypeOK
<1>2. \A e \in evs : e \in TransitionEvents /\ e.intent = i /\ e.revision = next.revision
  BY <1>1, TransitionFacts
<1>3. \A e \in seen : e \notin TransitionEvents /\ e.type \notin CrossingTypes
  BY DEF ObservedEvents, TransitionEvents, TransitionType, CrossingTypes
<1> HIDE DEF evs
<1>4. events' \subseteq TransitionEvents \cup ObservedEvents
  BY <1>2 DEF IInv, TypeOK, evs
<1>5. CrossingsOf(i)' = CrossingsOf(i) \cup CrossingsIn(evs)
  <2>1. events' = events \cup seen \cup evs
    BY DEF evs
  <2>2. \A e \in evs : e.intent = i
    BY <1>2 DEF evs
  <2> QED
    BY <1>3, <2>1, <2>2 DEF CrossingsOf, CrossingsIn
<1>6. \A j \in Intents : j # i => CrossingsOf(j)' = CrossingsOf(j)
  <2>1. events' = events \cup seen \cup evs
    BY DEF evs
  <2>2. \A e \in evs : e.intent = i
    BY <1>2 DEF evs
  <2> QED
    BY <1>3, <2>1, <2>2 DEF CrossingsOf, CrossingsIn
<1>7. \A e \in events' \cap TransitionEvents :
        e \in events \/ (e.intent = i /\ e.revision = next.revision)
  BY <1>2, <1>3 DEF evs
<1> QED
  BY <1>4, <1>5, <1>6, <1>7 DEF evs

\* A reconciled candidate leaves every intent with the projection and the
\* history its ledger calls for: the one it names, and those it does not touch.
LEMMA ReconcilePreservesIInv ==
  ASSUME IInv, NEW c \in Candidates, Published(c.note), Reconcile(c)
  PROVE  IInv'
<1> DEFINE i == Reference[c.note]
           next == DeriveProjection(ledger', i, projections[i], now)
           matched == MatchStatusOf(c) = "MATCHED"
<1>1. /\ SameIdentity(c)
      /\ ledger' = Put(ledger, c.note, SettlementRow(c))
      /\ UNCHANGED now
  BY DEF Reconcile
<1>2. c.note \in Notes
  BY DEF Candidates
<1>3. /\ DOMAIN ledger' = DOMAIN ledger \cup {c.note}
      /\ \A n \in DOMAIN ledger \ {c.note} : ledger'[n] = ledger[n]
      /\ ledger'[c.note] \in Row
      /\ ledger'[c.note].rail = c.rail
      /\ ledger'[c.note].matchStatus = MatchStatusOf(c)
      /\ ledger'[c.note].intent = IF matched THEN i ELSE NoIntent
      /\ matched <=> i # NoIntent /\ c.rail
      /\ matched => i \in DOMAIN projections
      /\ c.note \in DOMAIN ledger => (ledger[c.note].matchStatus = "MATCHED" <=> matched)
  BY <1>1, RowFacts
<1>4. /\ DOMAIN ledger' \subseteq Notes
      /\ \A n \in DOMAIN ledger' : ledger'[n] \in Row
  BY <1>2, <1>3 DEF IInv, TypeOK
<1>5. CASE ~matched
  <2>1. UNCHANGED <<now, projections, events>>
    BY <1>1, <1>5 DEF Reconcile
  <2>2. TypeOK'
    BY <1>4, <2>1 DEF IInv, TypeOK
  <2>3. Linked'
    BY <1>3, <1>5, <2>1 DEF IInv, Linked, Published
  <2>4. EventsBehindProjection' /\ EventsTellWhatIsPaid'
    BY <2>1 DEF IInv, EventsBehindProjection, EventsTellWhatIsPaid, CrossingsOf
  <2>5. ProjectionMatchesLedger'
    <3> SUFFICES ASSUME NEW j \in DOMAIN projections
                 PROVE  /\ projections[j].received = Received(ledger', j)
                        /\ projections[j].pending = Pending(ledger', j)
                        /\ IsPaid(projections[j]) <=> Received(ledger', j) >= Expected[j]
      BY <2>1 DEF ProjectionMatchesLedger
    <3> QED
      BY <1>1, <1>5, OtherSumsUnchanged DEF IInv, ProjectionMatchesLedger
  <2>6. ObservedIffMatched'
    BY <1>3, <1>5, <2>1 DEF IInv, ObservedIffMatched
  <2> QED
    BY <2>2, <2>3, <2>4, <2>5, <2>6 DEF IInv
<1>6. CASE matched
  <2>1. i \in DOMAIN projections /\ i \in Intents /\ projections[i].revision \in Nat
    BY <1>3, <1>6, BoundsAssumption DEF IInv, TypeOK
  <2>2. /\ projections[i].revision < MaxRevision
        /\ projections' = Put(projections, i, next)
        /\ events' = events \cup ObservedEventOf(c)
                       \cup TransitionEventsOf(i, projections[i], next)
    BY <1>6 DEF Reconcile
  <2>3. /\ next.status \in IntentStatus
        /\ next.revision \in Nat
        /\ next = projections[i] \/ next.revision = projections[i].revision + 1
        /\ next.received = Received(ledger', i)
        /\ next.pending = Pending(ledger', i)
        /\ IsPaid(next) <=> Received(ledger', i) >= Expected[i]
    BY <2>1, RebuildFacts
  <2> HIDE DEF next
  <2>4. /\ DOMAIN projections' = DOMAIN projections
        /\ projections'[i] = next
        /\ \A j \in DOMAIN projections : j # i => projections'[j] = projections[j]
    BY <2>1, <2>2 DEF Put
  <2>5. \A e \in ObservedEventOf(c) : e \in ObservedEvents
    BY <1>2 DEF ObservedEventOf, ObservedEvents
  <2>6. /\ events' \subseteq TransitionEvents \cup ObservedEvents
        /\ CrossingsOf(i)' = CrossingsOf(i)
             \cup CrossingsIn(TransitionEventsOf(i, projections[i], next))
        /\ \A j \in Intents : j # i => CrossingsOf(j)' = CrossingsOf(j)
        /\ \A e \in events' \cap TransitionEvents :
             e \in events \/ (e.intent = i /\ e.revision = next.revision)
    BY <2>1, <2>2, <2>3, <2>5, OutboxFacts
  <2>7. TypeOK'
    <3>1. next.revision \in 0..MaxRevision
      BY <2>1, <2>2, <2>3, BoundsAssumption
    <3> QED
      BY <1>1, <1>4, <2>3, <2>4, <2>6, <3>1 DEF IInv, TypeOK
  <2>8. Linked'
    BY <1>3, <1>6, <2>4 DEF IInv, Linked
  <2>9. EventsBehindProjection'
    <3> SUFFICES ASSUME NEW e \in events' \cap TransitionEvents
                 PROVE  /\ e.intent \in DOMAIN projections'
                        /\ e.revision <= projections'[e.intent].revision
      BY DEF EventsBehindProjection
    <3>1. CASE e \in events
      <4>1. e.intent \in DOMAIN projections /\ e.revision <= projections[e.intent].revision
        BY <3>1 DEF IInv, EventsBehindProjection
      <4>2. e.revision \in Nat
        BY DEF TransitionEvents
      <4> QED
        BY <2>1, <2>3, <2>4, <4>1, <4>2
    <3>2. CASE e.intent = i /\ e.revision = next.revision
      BY <2>1, <2>3, <2>4, <3>2
    <3> QED
      BY <2>6, <3>1, <3>2
  <2>10. ProjectionMatchesLedger'
    <3> SUFFICES ASSUME NEW j \in DOMAIN projections
                 PROVE  /\ projections'[j].received = Received(ledger', j)
                        /\ projections'[j].pending = Pending(ledger', j)
                        /\ IsPaid(projections'[j]) <=> Received(ledger', j) >= Expected[j]
      BY <2>4 DEF ProjectionMatchesLedger
    <3>1. CASE j = i
      BY <2>3, <2>4, <3>1
    <3>2. CASE j # i
      BY <1>1, <2>4, <3>2, OtherSumsUnchanged DEF IInv, ProjectionMatchesLedger
    <3> QED
      BY <3>1, <3>2
  <2>11. EventsTellWhatIsPaid'
    <3> SUFFICES ASSUME NEW j \in DOMAIN projections
                 PROVE  Alternates(CrossingsOf(j)', IsPaid(projections'[j]))
      BY <2>4 DEF EventsTellWhatIsPaid
    <3>1. CASE j = i
      BY <2>1, <2>3, <2>4, <2>6, <3>1, HistoryStaysTruthful
    <3>2. CASE j # i
      <4>1. j \in Intents
        BY DEF IInv, TypeOK
      <4> QED
        BY <2>4, <2>6, <3>2, <4>1 DEF IInv, EventsTellWhatIsPaid
    <3> QED
      BY <3>1, <3>2
  <2>12. ObservedIffMatched'
    <3> SUFFICES ASSUME NEW n \in Notes
                 PROVE  [type |-> "settlement.observed", note |-> n] \in events'
                          <=> n \in DOMAIN ledger' /\ ledger'[n].matchStatus = "MATCHED"
      BY DEF ObservedIffMatched
    <3> DEFINE announcement == [type |-> "settlement.observed", note |-> n]
    <3>1. announcement \notin TransitionEventsOf(i, projections[i], next)
      <4>1. announcement \notin TransitionEvents
        BY DEF TransitionEvents, TransitionType
      <4> QED
        BY <2>1, <2>3, <4>1, TransitionFacts
    <3>2. announcement \in events
            <=> n \in DOMAIN ledger /\ ledger[n].matchStatus = "MATCHED"
      BY DEF IInv, ObservedIffMatched
    <3>3. announcement \in ObservedEventOf(c) <=> n = c.note /\ n \notin DOMAIN ledger
      BY DEF ObservedEventOf
    <3> QED
      BY <1>3, <1>6, <2>2, <3>1, <3>2, <3>3
  <2> QED
    BY <2>7, <2>8, <2>9, <2>10, <2>11, <2>12 DEF IInv
<1> QED
  BY <1>5, <1>6

\* The clock decides between OPEN and EXPIRED, never between paid and unpaid.
LEMMA RefreshFacts ==
  ASSUME IInv, RefreshExpirations
  PROVE  /\ UNCHANGED <<now, ledger>>
         /\ DOMAIN projections' = DOMAIN projections
         /\ \A i \in DOMAIN projections :
              /\ projections'[i] = DeriveProjection(ledger, i, projections[i], now)
              /\ projections'[i].status \in IntentStatus
              /\ projections'[i].revision \in 0..MaxRevision
              /\ projections'[i].revision >= projections[i].revision
              /\ projections'[i].received = Received(ledger, i)
              /\ projections'[i].pending = Pending(ledger, i)
              /\ IsPaid(projections'[i]) <=> IsPaid(projections[i])
         /\ \A e \in events' : \/ e \in events
                               \/ /\ e \in TransitionEvents
                                  /\ e.type \notin CrossingTypes
                                  /\ e.intent \in DOMAIN projections
                                  /\ e.revision = projections'[e.intent].revision
         /\ events \subseteq events'
<1> DEFINE next(i) == DeriveProjection(ledger, i, projections[i], now)
           evs(i) == TransitionEventsOf(i, projections[i], next(i))
<1>1. /\ \A i \in DOMAIN projections : projections[i].revision < MaxRevision
      /\ projections' = [i \in DOMAIN projections |-> next(i)]
      /\ events' = events \cup UNION {evs(i) : i \in DOMAIN projections}
      /\ UNCHANGED <<now, ledger>>
  BY DEF RefreshExpirations
<1>2. ASSUME NEW i \in DOMAIN projections
      PROVE  /\ next(i).status \in IntentStatus
             /\ next(i).revision \in Nat
             /\ next(i) = projections[i] \/ next(i).revision = projections[i].revision + 1
             /\ next(i).revision \in 0..MaxRevision
             /\ next(i).revision >= projections[i].revision
             /\ next(i).received = Received(ledger, i)
             /\ next(i).pending = Pending(ledger, i)
             /\ IsPaid(next(i)) <=> IsPaid(projections[i])
  <2>1. projections[i].revision \in Nat /\ projections[i].revision < MaxRevision
    BY <1>1, BoundsAssumption DEF IInv, TypeOK
  <2>2. /\ next(i).status \in IntentStatus
        /\ next(i).revision \in Nat
        /\ next(i) = projections[i] \/ next(i).revision = projections[i].revision + 1
        /\ next(i).received = Received(ledger, i)
        /\ next(i).pending = Pending(ledger, i)
        /\ IsPaid(next(i)) <=> Received(ledger, i) >= Expected[i]
    BY <2>1, RebuildFacts
  <2> HIDE DEF next
  <2>3. next(i).revision \in 0..MaxRevision /\ next(i).revision >= projections[i].revision
    BY <2>1, <2>2, BoundsAssumption
  <2> QED
    BY <2>2, <2>3 DEF IInv, ProjectionMatchesLedger
<1>3. ASSUME NEW i \in DOMAIN projections, NEW e \in evs(i)
      PROVE  /\ e \in TransitionEvents
             /\ e.type \notin CrossingTypes
             /\ e.intent = i
             /\ e.revision = next(i).revision
  <2>1. i \in Intents /\ projections[i].revision \in Nat
    BY BoundsAssumption DEF IInv, TypeOK
  <2>2. e \in TransitionEvents /\ e.intent = i /\ e.revision = next(i).revision
    BY <1>2, <2>1, TransitionFacts
  <2>3. CrossingsIn(evs(i)) = {}
    BY <1>2, <2>1, TransitionFacts
  <2> QED
    BY <2>2, <2>3 DEF CrossingsIn
<1> HIDE DEF next, evs
<1>4. \A i \in DOMAIN projections : projections'[i] = next(i)
  BY <1>1
<1>5. \A e \in events' : \/ e \in events
                         \/ /\ e \in TransitionEvents
                            /\ e.type \notin CrossingTypes
                            /\ e.intent \in DOMAIN projections
                            /\ e.revision = projections'[e.intent].revision
  BY <1>1, <1>3, <1>4
<1>6. DOMAIN projections' = DOMAIN projections /\ events \subseteq events'
  BY <1>1
<1> QED
  BY <1>1, <1>2, <1>4, <1>5, <1>6 DEF next

\* The expiry sweep changes lifecycles only, so the ledger and the history
\* still agree with them.
LEMMA RefreshPreservesIInv ==
  ASSUME IInv, RefreshExpirations
  PROVE  IInv'
<1>1. TypeOK'
  BY RefreshFacts DEF IInv, TypeOK
<1>2. Linked'
  BY RefreshFacts DEF IInv, Linked
<1>3. EventsBehindProjection'
  <2> SUFFICES ASSUME NEW e \in events' \cap TransitionEvents
               PROVE  /\ e.intent \in DOMAIN projections'
                      /\ e.revision <= projections'[e.intent].revision
    BY DEF EventsBehindProjection
  <2>1. CASE e \in events
    <3>1. e.intent \in DOMAIN projections /\ e.revision <= projections[e.intent].revision
      BY <2>1 DEF IInv, EventsBehindProjection
    <3>2. /\ e.revision \in Nat
          /\ projections[e.intent].revision \in Nat
          /\ projections'[e.intent].revision \in Nat
          /\ projections'[e.intent].revision >= projections[e.intent].revision
      BY <3>1, RefreshFacts, BoundsAssumption DEF TransitionEvents, IInv, TypeOK
    <3> QED
      BY <3>1, <3>2, RefreshFacts
  <2>2. CASE e \notin events
    <3>1. /\ e.intent \in DOMAIN projections'
          /\ e.revision = projections'[e.intent].revision
          /\ e.revision \in Nat
      BY <2>2, RefreshFacts DEF TransitionEvents
    <3> QED
      BY <3>1
  <2> QED
    BY <2>1, <2>2
<1>4. ProjectionMatchesLedger'
  BY RefreshFacts DEF IInv, ProjectionMatchesLedger
<1>5. EventsTellWhatIsPaid'
  <2> SUFFICES ASSUME NEW i \in DOMAIN projections
               PROVE  Alternates(CrossingsOf(i)', IsPaid(projections'[i]))
    BY RefreshFacts DEF EventsTellWhatIsPaid
  <2>1. CrossingsOf(i)' = CrossingsOf(i)
    BY RefreshFacts DEF CrossingsOf, CrossingsIn
  <2>2. IsPaid(projections'[i]) = IsPaid(projections[i])
    BY RefreshFacts DEF IsPaid
  <2> QED
    BY <2>1, <2>2 DEF IInv, EventsTellWhatIsPaid
<1>6. ObservedIffMatched'
  <2>1. \A n \in Notes : [type |-> "settlement.observed", note |-> n] \notin TransitionEvents
    BY DEF TransitionEvents, TransitionType
  <2> QED
    BY <2>1, RefreshFacts DEF IInv, ObservedIffMatched
<1> QED
  BY <1>1, <1>2, <1>3, <1>4, <1>5, <1>6 DEF IInv

\* What the scanner reports of a note found on chain is a well-formed
\* candidate.
LEMMA SightingsAreCandidates ==
  \A s \in Sightings : NormalizeTXO(s) \in Candidates /\ NormalizeTXO(s).note = s.note
<1> SUFFICES ASSUME NEW s \in Sightings
             PROVE  NormalizeTXO(s) \in Candidates /\ NormalizeTXO(s).note = s.note
  OBVIOUS
<1>1. s.bucket \in Buckets /\ s.receipt \in Receipts
  BY InputAssumption DEF Sightings
<1>2. BucketToPOIStatus(s.bucket) \in POIStatus
  BY <1>1 DEF Buckets, BucketToPOIStatus, POIStatus
<1>3. s.receipt # "missing" => ChainStatusOfReceipt(s.receipt) \in ChainStatus
  BY <1>1 DEF Receipts, ChainStatusOfReceipt, ChainStatus
<1>4. ChainStatusWhenReceiptMissing("NONE") \in ChainStatus
  BY DEF ChainStatusWhenReceiptMissing, ChainStatus
<1> QED
  BY <1>2, <1>3, <1>4 DEF NormalizeTXO, Candidates, Sightings

\* What the re-check of a stored payment reports is a well-formed candidate
\* for that note, and the intent its memo names exists.
LEMMA RechecksAreCandidates ==
  ASSUME IInv, NEW n \in DOMAIN ledger, NEW receipt \in SeenReceipts, NEW block \in Blocks
  PROVE  /\ RefreshKnownChainState(n, receipt, block) \in Candidates
         /\ RefreshKnownChainState(n, receipt, block).note = n
         /\ Published(n)
<1>1. ledger[n] \in Row /\ n \in Notes /\ receipt \in Receipts
  BY InputAssumption DEF IInv, TypeOK
<1>2. receipt # "missing" => ChainStatusOfReceipt(receipt) \in ChainStatus
  BY <1>1 DEF Receipts, ChainStatusOfReceipt, ChainStatus
<1>3. ChainStatusWhenReceiptMissing(ledger[n].chainStatus) \in ChainStatus
  BY DEF ChainStatusWhenReceiptMissing, ChainStatus
<1>4. Published(n)
  BY DEF IInv, Linked, Published
<1> QED
  BY <1>1, <1>2, <1>3, <1>4 DEF RefreshKnownChainState, Candidates, Row

\* Every step of the reconciler, scanner and sweep preserves the invariant.
LEMMA NextPreservesIInv == IInv /\ [Next]_vars => IInv'
<1> SUFFICES ASSUME IInv, [Next]_vars PROVE IInv'
  OBVIOUS
<1>1. ASSUME NEW i \in Intents, CreateIntent(i) PROVE IInv'
  BY <1>1, CreateIntentPreservesIInv
<1>2. ASSUME NEW s \in Sightings, ReconcileSighting(s) PROVE IInv'
  BY <1>2, SightingsAreCandidates, ReconcilePreservesIInv DEF ReconcileSighting
<1>3. ASSUME NEW n \in Notes, NEW receipt \in SeenReceipts, NEW block \in Blocks,
             ReconcileRecheck(n, receipt, block)
      PROVE  IInv'
  BY <1>3, RechecksAreCandidates, ReconcilePreservesIInv DEF ReconcileRecheck
<1>4. ASSUME RefreshExpirations PROVE IInv'
  BY <1>4, RefreshPreservesIInv
<1>5. ASSUME Tick PROVE IInv'
  BY <1>5, BoundsAssumption DEF Tick, IInv, TypeOK, Linked, EventsBehindProjection,
     ProjectionMatchesLedger, EventsTellWhatIsPaid, CrossingsOf, ObservedIffMatched
<1>6. ASSUME UNCHANGED vars PROVE IInv'
  BY <1>6 DEF vars, IInv, TypeOK, Linked, EventsBehindProjection,
     ProjectionMatchesLedger, EventsTellWhatIsPaid, CrossingsOf, ObservedIffMatched
<1> QED
  BY <1>1, <1>2, <1>3, <1>4, <1>5, <1>6 DEF Next
(***************************************************************************)
(* Theorems                                                                *)
(***************************************************************************)
\* The inductive invariant holds throughout every behaviour.
LEMMA Invariance == Spec => []IInv
<1>1. Init => IInv
  BY InitEstablishesIInv
<1>2. IInv /\ [Next]_vars => IInv'
  BY NextPreservesIInv
<1> QED
  BY <1>1, <1>2, PTL DEF Spec

\* The tables keep their shapes and their references to each other, whatever
\* is observed in whatever order.
THEOREM TypeCorrect == Spec => []TypeOK
<1>1. IInv => TypeOK
  BY DEF IInv
<1> QED
  BY <1>1, Invariance, PTL

\* The amounts of every projection are the sums over the settlements that the
\* ledger holds for the intent, and it is paid exactly when the credited sum
\* reaches the expected amount, for all sets of notes and all amounts.
THEOREM LedgerIsProjected == Spec => []ProjectionMatchesLedger
<1>1. IInv => ProjectionMatchesLedger
  BY DEF IInv
<1> QED
  BY <1>1, Invariance, PTL

\* The confirmed and reverted events alternate and their last one tells whether
\* the intent is paid, for every number of intents, notes and revisions.
THEOREM HistoryIsTruthful == Spec => []EventsTellWhatIsPaid
<1>1. IInv => EventsTellWhatIsPaid
  BY DEF IInv
<1> QED
  BY <1>1, Invariance, PTL

\* A note is announced exactly when it is stored as a payment of an intent.
THEOREM NotesAreAnnounced == Spec => []ObservedIffMatched
<1>1. IInv => ObservedIffMatched
  BY DEF IInv
<1> QED
  BY <1>1, Invariance, PTL

(***************************************************************************)
(* Refinement: the reconciler is a PaymentFeed                             *)
(***************************************************************************)
paidNow == {i \in DOMAIN projections : IsPaid(projections[i])}

\* A rebuild of one intent is one step of the feed, or none.
LEMMA RebuildIsAFeedStep ==
  ASSUME IInv, NEW i \in DOMAIN projections, NEW next,
         next.revision \in 1..MaxRevision \/ next = projections[i],
         next = projections[i] \/ next.revision = projections[i].revision + 1,
         projections' = Put(projections, i, next),
         CrossingsIn(events') = CrossingsIn(events)
           \cup CrossingsIn(TransitionEventsOf(i, projections[i], next))
  PROVE  [Feed!FeedNext]_<<paidNow, CrossingsIn(events)>>
<1> DEFINE old == projections[i]
           r == next.revision
<1>1. i \in Intents /\ old.revision \in Nat /\ next.revision \in Nat
  BY BoundsAssumption DEF IInv, TypeOK
<1>2. /\ DOMAIN projections' = DOMAIN projections
      /\ projections'[i] = next
      /\ \A j \in DOMAIN projections : j # i => projections'[j] = projections[j]
  BY DEF Put
<1>3. CASE IsPaid(old) <=> IsPaid(next)
  <2>1. CrossingsIn(events') = CrossingsIn(events)
    BY <1>1, <1>3, TransitionFacts
  <2>2. paidNow' = paidNow
    BY <1>2, <1>3 DEF paidNow
  <2>3. CrossingsIn(events)' = CrossingsIn(events')
    BY DEF CrossingsIn
  <2> QED
    BY <2>1, <2>2, <2>3
<1>4. CASE ~(IsPaid(old) <=> IsPaid(next))
  <2>1. /\ r = old.revision + 1
        /\ CrossingsIn(TransitionEventsOf(i, old, next)) =
             {[type |-> IF IsPaid(old) THEN "payment.reverted" ELSE "payment.confirmed",
               intent |-> i, revision |-> r]}
    BY <1>1, <1>4, TransitionFacts
  <2>2. r \in 1..MaxRevision
    BY <1>1, <2>1, BoundsAssumption
  <2>3. \A e \in CrossingsIn(events) : e.intent = i => e.revision < r
    <3> SUFFICES ASSUME NEW e \in CrossingsIn(events), e.intent = i
                 PROVE  e.revision < r
      OBVIOUS
    <3>1. e \in TransitionEvents
      BY DEF IInv, TypeOK, CrossingsIn, CrossingTypes, ObservedEvents
    <3>2. e.revision \in Nat /\ e.revision <= old.revision
      BY <3>1 DEF IInv, EventsBehindProjection, TransitionEvents, CrossingsIn
    <3> QED
      BY <1>1, <2>1, <3>2
  <2>4. CrossingsIn(events)' = CrossingsIn(events')
    BY DEF CrossingsIn
  <2>5. CASE IsPaid(old)
    <3>1. i \in paidNow /\ paidNow' = paidNow \ {i}
      BY <1>2, <1>4, <2>5 DEF paidNow
    <3>2. Feed!Revert(i, r)
      BY <2>1, <2>3, <2>4, <2>5, <3>1 DEF Feed!Revert, Feed!Fresh, paidNow
    <3> QED
      BY <1>1, <2>2, <3>2 DEF Feed!FeedNext
  <2>6. CASE ~IsPaid(old)
    <3>1. i \notin paidNow /\ paidNow' = paidNow \cup {i}
      BY <1>2, <1>4, <2>6 DEF paidNow
    <3>2. Feed!Confirm(i, r)
      BY <2>1, <2>3, <2>4, <2>6, <3>1 DEF Feed!Confirm, Feed!Fresh, paidNow
    <3> QED
      BY <1>1, <2>2, <3>2 DEF Feed!FeedNext
  <2> QED
    BY <2>5, <2>6
<1> QED
  BY <1>3, <1>4

\* Whatever a candidate says, each intent's feed makes one step or none.
LEMMA ReconcileIsAFeedStep ==
  ASSUME IInv, NEW c \in Candidates, Published(c.note), Reconcile(c)
  PROVE  [Feed!FeedNext]_<<paidNow, CrossingsIn(events)>>
<1> DEFINE i == Reference[c.note]
           next == DeriveProjection(ledger', i, projections[i], now)
<1>1. CASE MatchStatusOf(c) # "MATCHED"
  <2>1. UNCHANGED <<projections, events>>
    BY <1>1 DEF Reconcile
  <2> QED
    BY <2>1 DEF paidNow, CrossingsIn
<1>2. CASE MatchStatusOf(c) = "MATCHED"
  <2>1. /\ projections[i].revision < MaxRevision
        /\ projections' = Put(projections, i, next)
        /\ events' = events \cup ObservedEventOf(c)
                       \cup TransitionEventsOf(i, projections[i], next)
    BY <1>2 DEF Reconcile
  <2>2. i \in DOMAIN projections /\ projections[i].revision \in Nat
    BY <1>2, BoundsAssumption DEF MatchStatusOf, IInv, TypeOK
  <2>3. /\ next.revision \in Nat
        /\ next = projections[i] \/ next.revision = projections[i].revision + 1
    BY <2>2, RebuildFacts
  <2> HIDE DEF next
  <2>4. next.revision \in 1..MaxRevision \/ next = projections[i]
    BY <2>1, <2>2, <2>3, BoundsAssumption
  <2>5. CrossingsIn(events') = CrossingsIn(events)
          \cup CrossingsIn(TransitionEventsOf(i, projections[i], next))
    <3>1. \A e \in ObservedEventOf(c) : e.type \notin CrossingTypes
      BY DEF ObservedEventOf, CrossingTypes
    <3> QED
      BY <2>1, <3>1 DEF CrossingsIn
  <2> QED
    BY <2>1, <2>2, <2>3, <2>4, <2>5, RebuildIsAFeedStep
<1> QED
  BY <1>1, <1>2

\* Every step of the reconciler is a confirmation, a reversal or a stutter of the
\* abstract feed: no change between paid and unpaid goes without its event, and
\* no event is written without the change.
THEOREM ReconcilerIsAPaymentFeed == Spec => IsAPaymentFeed
<1> DEFINE feedVars == <<paidNow, CrossingsIn(events)>>
<1>1. Init => Feed!FeedInit
  BY DEF Init, Feed!FeedInit, CrossingsIn
<1>2. IInv /\ [Next]_vars => [Feed!FeedNext]_feedVars
  <2> SUFFICES ASSUME IInv, [Next]_vars PROVE [Feed!FeedNext]_feedVars
    OBVIOUS
  <2>1. ASSUME NEW i \in Intents, CreateIntent(i) PROVE UNCHANGED feedVars
    <3>1. /\ DOMAIN projections' = DOMAIN projections \cup {i}
          /\ projections'[i] = InitialProjection
          /\ \A j \in DOMAIN projections : projections'[j] = projections[j]
          /\ UNCHANGED events
      BY <2>1 DEF CreateIntent, Put
    <3>2. ~IsPaid(InitialProjection)
      BY DEF IsPaid, InitialProjection
    <3>3. i \notin DOMAIN projections
      BY <2>1 DEF CreateIntent
    <3> QED
      BY <3>1, <3>2, <3>3 DEF paidNow, CrossingsIn
  <2>2. ASSUME NEW s \in Sightings, ReconcileSighting(s) PROVE [Feed!FeedNext]_feedVars
    BY <2>2, SightingsAreCandidates, ReconcileIsAFeedStep DEF ReconcileSighting
  <2>3. ASSUME NEW n \in Notes, NEW receipt \in SeenReceipts, NEW block \in Blocks,
               ReconcileRecheck(n, receipt, block)
        PROVE  [Feed!FeedNext]_feedVars
    BY <2>3, RechecksAreCandidates, ReconcileIsAFeedStep DEF ReconcileRecheck
  <2>4. ASSUME RefreshExpirations PROVE UNCHANGED feedVars
    BY <2>4, RefreshFacts DEF paidNow, CrossingsIn
  <2>5. ASSUME Tick \/ UNCHANGED vars PROVE UNCHANGED feedVars
    BY <2>5 DEF Tick, vars, paidNow, CrossingsIn
  <2> QED
    BY <2>1, <2>2, <2>3, <2>4, <2>5 DEF Next
<1> QED
  BY <1>1, <1>2, Invariance, PTL DEF Spec, IsAPaymentFeed, Feed!FeedSpec, paidNow

\* Spending a credited note never takes its credit away.
THEOREM SpentNotesKeepTheirCredit == Spec => SpendingKeepsEligibility
<1> DEFINE Keeps == \A n \in DOMAIN ledger :
             ledger[n].poiStatus = "SPENDABLE" => ledger'[n].poiStatus # "UNKNOWN"
<1>1. ASSUME NEW c \in Candidates, Reconcile(c), c.spent \/ c.poiStatus # "UNKNOWN"
               \/ (c.note \in DOMAIN ledger /\ c.poiStatus = ledger[c.note].poiStatus)
      PROVE  Keeps
  <2>1. \A n \in DOMAIN ledger :
          ledger'[n] = IF n = c.note THEN SettlementRow(c) ELSE ledger[n]
    BY <1>1 DEF Reconcile, Put
  <2>2. SettlementRow(c).poiStatus = POIStatusOf(c)
    BY DEF SettlementRow
  <2> QED
    BY <1>1, <2>1, <2>2 DEF POIStatusOf
<1>2. IInv /\ [Next]_vars => [Keeps]_vars
  <2> SUFFICES ASSUME IInv, Next PROVE Keeps
    OBVIOUS
  <2>1. ASSUME NEW s \in Sightings, ReconcileSighting(s) PROVE Keeps
    <3>1. /\ s.bucket \in Buckets
          /\ NormalizeTXO(s).spent = (s.bucket \in {"SpentValid", "SpentUnproven"})
          /\ NormalizeTXO(s).poiStatus = BucketToPOIStatus(s.bucket)
      BY InputAssumption DEF Sightings, NormalizeTXO
    <3>2. NormalizeTXO(s).spent \/ NormalizeTXO(s).poiStatus # "UNKNOWN"
      BY <3>1 DEF Buckets, BucketToPOIStatus
    <3> QED
      BY <1>1, <2>1, <3>2, SightingsAreCandidates DEF ReconcileSighting
  <2>2. ASSUME NEW n \in Notes, NEW receipt \in SeenReceipts, NEW block \in Blocks,
               ReconcileRecheck(n, receipt, block)
        PROVE  Keeps
    <3> DEFINE c == RefreshKnownChainState(n, receipt, block)
    <3>1. n \in DOMAIN ledger /\ Reconcile(c)
      BY <2>2 DEF ReconcileRecheck
    <3>2. c \in Candidates /\ c.note = n
      BY <3>1, RechecksAreCandidates
    <3>3. c.poiStatus = ledger[n].poiStatus
      BY DEF RefreshKnownChainState
    <3> QED
      BY <1>1, <3>1, <3>2, <3>3
  <2>3. ASSUME UNCHANGED ledger PROVE Keeps
    BY <2>3
  <2> QED
    BY <2>1, <2>2, <2>3 DEF Next, CreateIntent, RefreshExpirations, Tick
<1> QED
  BY <1>2, Invariance, PTL DEF Spec, SpendingKeepsEligibility

-----------------------------------------------------------------------------
(***************************************************************************)
(* Sums over finite sets of notes                                          *)
(***************************************************************************)
\* One unfolding of the recursion AddAmounts stands for, on the subsets of U.
Some(s) == CHOOSE n \in s : TRUE
SumStep(U, f) == [s \in SUBSET U |-> IF s = {} THEN 0 ELSE Amount[Some(s)] + f[s \ {Some(s)}]]
Sums(U) == CHOOSE f : f = SumStep(U, f)

\* The fold is the recursive function it is defined by.
LEMMA SumIsRecursive == \A U : AddAmounts(U) = Sums(U)[U]
BY DEF AddAmounts, SumFunctionOnSet, FoldFunctionOnSet, MapThenFoldSet, Sums, SumStep, Some

\* Among subsets of a finite set some one contains no other: an induction over
\* finite sets is an argument about a smallest counterexample.
LEMMA SmallestSet ==
  ASSUME NEW U, IsFiniteSet(U), NEW D, D \subseteq SUBSET U, D # {}
  PROVE  \E u \in D : \A w \in D : ~(w \subseteq u /\ w # u)
<1>1. IsWellFoundedOn(StrictSubsetOrdering(U), SUBSET U)
  BY FS_FiniteSubsetsOfFinite, FS_StrictSubsetOrderingWellFounded
<1>2. PICK u \in D : \A w \in D : ~(<<w, u>> \in StrictSubsetOrdering(U))
  BY <1>1, WFMin
<1> QED BY <1>2 DEF StrictSubsetOrdering

\* Two functions that satisfy the recursion agree where both are defined.
LEMMA SumsAgree ==
  ASSUME NEW U, NEW T, T \subseteq U, IsFiniteSet(T),
         NEW g, g = SumStep(U, g), NEW h, h = SumStep(T, h)
  PROVE  \A s \in SUBSET T : g[s] = h[s]
<1> DEFINE D == {s \in SUBSET T : g[s] # h[s]}
<1> SUFFICES ASSUME D # {} PROVE FALSE
  OBVIOUS
<1>1. PICK u \in D : \A w \in D : ~(w \subseteq u /\ w # u)
  <2>1. D \subseteq SUBSET T
    OBVIOUS
  <2> HIDE DEF D
  <2> QED BY <2>1, SmallestSet
<1>2. u \in SUBSET T /\ u \in SUBSET U /\ g[u] # h[u]
  OBVIOUS
<1>3. /\ g[u] = IF u = {} THEN 0 ELSE Amount[Some(u)] + g[u \ {Some(u)}]
      /\ h[u] = IF u = {} THEN 0 ELSE Amount[Some(u)] + h[u \ {Some(u)}]
  BY <1>2 DEF SumStep
<1>4. u # {}
  BY <1>2, <1>3
<1>5. Some(u) \in u
  BY <1>4 DEF Some
<1>6. u \ {Some(u)} \notin D
  BY <1>1, <1>5
<1>7. u \ {Some(u)} \in SUBSET T
  BY <1>2
<1>8. g[u \ {Some(u)}] = h[u \ {Some(u)}]
  BY <1>6, <1>7
<1> QED BY <1>2, <1>3, <1>8

\* The recursion has a solution on the subsets of every finite set.
LEMMA SumsExist == ASSUME NEW U, IsFiniteSet(U) PROVE Sums(U) = SumStep(U, Sums(U))
<1> DEFINE D == {T \in SUBSET U : ~\E f : f = SumStep(T, f)}
<1>1. ASSUME D # {} PROVE FALSE
  <2>1. PICK T \in D : \A w \in D : ~(w \subseteq T /\ w # T)
    <3>1. D \subseteq SUBSET U
      OBVIOUS
    <3> HIDE DEF D
    <3> QED BY <1>1, <3>1, SmallestSet
  <2>2. T \in SUBSET U /\ ~\E f : f = SumStep(T, f)
    OBVIOUS
  <2>3. \A r \in SUBSET T : r # T => r \in SUBSET U /\ \E f : f = SumStep(r, f)
    BY <2>1, <2>2
  <2>4. \A r \in SUBSET T : r # T => Sums(r) = SumStep(r, Sums(r)) /\ IsFiniteSet(r)
    BY <2>3, FS_Subset DEF Sums
  <2> DEFINE f == [s \in SUBSET T |->
                     IF s = {} THEN 0 ELSE Amount[Some(s)] + Sums(s \ {Some(s)})[s \ {Some(s)}]]
  <2>5. ASSUME NEW s \in SUBSET T, s # {}
        PROVE  f[s \ {Some(s)}] = Sums(s \ {Some(s)})[s \ {Some(s)}]
    <3> DEFINE r == s \ {Some(s)}
               q == r \ {Some(r)}
    <3>1. Some(s) \in s
      BY <2>5 DEF Some
    <3>2. r \in SUBSET T /\ r # T /\ q \in SUBSET T /\ q # T /\ q \subseteq r
      BY <3>1
    <3>3. f[r] = IF r = {} THEN 0 ELSE Amount[Some(r)] + Sums(q)[q]
      BY <3>2
    <3> HIDE DEF f, q, r
    <3>4. /\ Sums(r) = SumStep(r, Sums(r)) /\ Sums(q) = SumStep(q, Sums(q))
          /\ IsFiniteSet(q)
      BY <2>4, <3>2
    <3>5. Sums(r)[r] = IF r = {} THEN 0 ELSE Amount[Some(r)] + Sums(r)[q]
      BY <3>4 DEF SumStep, q
    <3>6. Sums(r)[q] = Sums(q)[q]
      BY <3>2, <3>4, SumsAgree
    <3>7. f[r] = Sums(r)[r]
      BY <3>3, <3>5, <3>6
    <3> QED BY <3>7 DEF r
  <2>6. f = [s \in SUBSET T |-> IF s = {} THEN 0 ELSE Amount[Some(s)] + f[s \ {Some(s)}]]
    <3> DEFINE g == [s \in SUBSET T |-> IF s = {} THEN 0 ELSE Amount[Some(s)] + f[s \ {Some(s)}]]
    <3>1. \A s \in SUBSET T : f[s] = IF s = {} THEN 0
                              ELSE Amount[Some(s)] + Sums(s \ {Some(s)})[s \ {Some(s)}]
      OBVIOUS
    <3>2. DOMAIN f = SUBSET T /\ f = [s \in SUBSET T |-> f[s]]
      OBVIOUS
    <3> HIDE DEF f
    <3>3. \A s \in SUBSET T : f[s] = g[s]
      BY <2>5, <3>1
    <3> QED BY <3>2, <3>3
  <2> HIDE DEF f
  <2>7. f = SumStep(T, f)
    BY <2>6 DEF SumStep
  <2> QED BY <2>2, <2>7
<1>2. U \notin D
  BY <1>1
<1>3. \E f : f = SumStep(U, f)
  BY <1>2
<1> QED BY <1>3 DEF Sums

\* One note and the rest.
LEMMA SumOfSome ==
  ASSUME NEW S, IsFiniteSet(S), S # {}
  PROVE  AddAmounts(S) = Amount[Some(S)] + AddAmounts(S \ {Some(S)})
<1> DEFINE r == S \ {Some(S)}
<1>1. IsFiniteSet(r) /\ r \subseteq S
  BY FS_Subset
<1>2. Sums(S) = SumStep(S, Sums(S)) /\ Sums(r) = SumStep(r, Sums(r))
  BY <1>1, SumsExist
<1>3. Sums(S)[S] = Amount[Some(S)] + Sums(S)[r]
  BY <1>2 DEF SumStep
<1> HIDE DEF r
<1>4. r \in SUBSET r
  OBVIOUS
<1>5. Sums(S)[r] = Sums(r)[r]
  BY <1>1, <1>2, <1>4, SumsAgree
<1>6. AddAmounts(S) = Sums(S)[S] /\ AddAmounts(r) = Sums(r)[r]
  BY SumIsRecursive
<1>7. AddAmounts(S) = Amount[Some(S)] + AddAmounts(r)
  BY <1>3, <1>5, <1>6
<1> QED BY <1>7 DEF r

\* A sum of amounts is an amount.
LEMMA SumIsNatural == ASSUME NEW S \in SUBSET Notes, IsFiniteSet(S) PROVE AddAmounts(S) \in Nat
<1> DEFINE D == {s \in SUBSET S : AddAmounts(s) \notin Nat}
<1> SUFFICES ASSUME D # {} PROVE FALSE
  OBVIOUS
<1>1. PICK u \in D : \A w \in D : ~(w \subseteq u /\ w # u)
  <2>1. D \subseteq SUBSET S
    OBVIOUS
  <2> HIDE DEF D
  <2> QED BY <2>1, SmallestSet
<1>2. u \in SUBSET S /\ AddAmounts(u) \notin Nat /\ IsFiniteSet(u)
  BY FS_Subset
<1>3. u # {}
  BY <1>2, SumOfNone
<1>4. Some(u) \in u
  BY <1>3 DEF Some
<1>5. AddAmounts(u \ {Some(u)}) \in Nat
  BY <1>1, <1>2, <1>4
<1>6. Amount[Some(u)] \in Nat
  BY <1>2, <1>4, DataAssumption
<1>7. AddAmounts(u) = Amount[Some(u)] + AddAmounts(u \ {Some(u)})
  BY <1>2, <1>3, SumOfSome
<1> QED BY <1>2, <1>5, <1>6, <1>7

\* The order in which the notes are added does not matter.
LEMMA SumWithout ==
  ASSUME NEW S \in SUBSET Notes, IsFiniteSet(S), NEW n \in S
  PROVE  AddAmounts(S) = Amount[n] + AddAmounts(S \ {n})
<1> DEFINE Fails(s) == \E y \in s : AddAmounts(s) # Amount[y] + AddAmounts(s \ {y})
           D == {s \in SUBSET S : Fails(s)}
<1>1. ASSUME D # {} PROVE FALSE
  <2>1. PICK u \in D : \A w \in D : ~(w \subseteq u /\ w # u)
    <3>1. D \subseteq SUBSET S
      OBVIOUS
    <3> HIDE DEF D
    <3> QED BY <1>1, <3>1, SmallestSet
  <2>2. PICK y \in u : AddAmounts(u) # Amount[y] + AddAmounts(u \ {y})
    OBVIOUS
  <2> DEFINE x == Some(u)
             rest == (u \ {x}) \ {y}
  <2>3. u \in SUBSET S /\ u # {} /\ x \in u
    BY <2>2 DEF Some
  <2> HIDE DEF x
  <2>4. IsFiniteSet(u) /\ IsFiniteSet(rest) /\ rest \in SUBSET Notes
    BY <2>3, FS_Subset
  <2>5. AddAmounts(u) = Amount[x] + AddAmounts(u \ {x})
    BY <2>3, <2>4, SumOfSome DEF x
  <2>6. x # y
    BY <2>2, <2>5
  <2>7. u \ {x} \in SUBSET S /\ u \ {y} \in SUBSET S /\ u \ {x} \notin D /\ u \ {y} \notin D
    BY <2>1, <2>2, <2>3
  <2>8. ~Fails(u \ {x}) /\ ~Fails(u \ {y})
    BY <2>7
  <2>9. AddAmounts(u \ {x}) = Amount[y] + AddAmounts(rest)
    BY <2>2, <2>6, <2>8
  <2>10. (u \ {y}) \ {x} = rest
    OBVIOUS
  <2>11. AddAmounts(u \ {y}) = Amount[x] + AddAmounts(rest)
    BY <2>3, <2>6, <2>8, <2>10
  <2>12. Amount[x] \in Nat /\ Amount[y] \in Nat
    BY <2>2, <2>3, DataAssumption
  <2> HIDE DEF rest
  <2>13. AddAmounts(rest) \in Nat
    BY <2>4, SumIsNatural
  <2> QED BY <2>2, <2>5, <2>9, <2>11, <2>12, <2>13
<1>2. S \notin D
  BY <1>1
<1> QED BY <1>2

\* Fewer notes are worth no more.
LEMMA SumOfFewer ==
  ASSUME NEW S \in SUBSET Notes, IsFiniteSet(S), NEW T \in SUBSET S
  PROVE  AddAmounts(T) <= AddAmounts(S)
<1> DEFINE D == {s \in SUBSET S : T \subseteq s /\ ~(AddAmounts(T) <= AddAmounts(s))}
<1>1. ASSUME D # {} PROVE FALSE
  <2>1. PICK u \in D : \A w \in D : ~(w \subseteq u /\ w # u)
    <3>1. D \subseteq SUBSET S
      OBVIOUS
    <3> HIDE DEF D
    <3> QED BY <1>1, <3>1, SmallestSet
  <2>2. u \in SUBSET S /\ T \subseteq u /\ ~(AddAmounts(T) <= AddAmounts(u))
    OBVIOUS
  <2>3. IsFiniteSet(T) /\ IsFiniteSet(u)
    BY <2>2, FS_Subset
  <2>4. AddAmounts(T) \in Nat
    BY <2>3, SumIsNatural
  <2>5. PICK y \in u : y \notin T
    BY <2>2, <2>4
  <2>6. u \ {y} \in SUBSET S /\ T \subseteq u \ {y} /\ u \ {y} \notin D
    BY <2>1, <2>2, <2>5
  <2>7. AddAmounts(T) <= AddAmounts(u \ {y})
    BY <2>6
  <2>8. IsFiniteSet(u \ {y}) /\ u \ {y} \in SUBSET Notes /\ u \in SUBSET Notes
    BY <2>2, <2>3, FS_Subset
  <2>9. AddAmounts(u \ {y}) \in Nat
    BY <2>8, SumIsNatural
  <2>10. AddAmounts(u) = Amount[y] + AddAmounts(u \ {y}) /\ Amount[y] \in Nat
    BY <2>3, <2>5, <2>8, SumWithout, DataAssumption
  <2> QED BY <2>2, <2>4, <2>7, <2>9, <2>10
<1>2. S \notin D
  BY <1>1
<1> QED BY <1>2

\* Some notes are worth something.
LEMMA SumIsPositive ==
  ASSUME NEW S \in SUBSET Notes, IsFiniteSet(S), S # {}
  PROVE  AddAmounts(S) > 0
<1>1. PICK n \in S : TRUE
  OBVIOUS
<1>2. IsFiniteSet(S \ {n}) /\ S \ {n} \in SUBSET Notes
  BY FS_Subset
<1>3. AddAmounts(S) = Amount[n] + AddAmounts(S \ {n}) /\ AddAmounts(S \ {n}) \in Nat
  BY <1>2, SumWithout, SumIsNatural
<1>4. Amount[n] \in Nat \ {0}
  BY DataAssumption
<1> QED BY <1>3, <1>4

-----------------------------------------------------------------------------
(***************************************************************************)
(* Paid in time                                                            *)
(***************************************************************************)
\* Rows of the notes in C are stored, with a block.
Stored(rows, C) ==
  /\ C \in SUBSET Notes /\ IsFiniteSet(C)
  /\ \A n \in C : rows[n].block \in Blocks

Until(rows, C, n) == {m \in C : Before(rows, m, n)}
Reaching(rows, C, expected) == {n \in C : AddAmounts(Until(rows, C, n)) >= expected}
InTime(rows, C, deadline) == {n \in C : BlockTime[rows[n].block] <= deadline}

\* The sort of statusFor is a total order.
LEMMA SortIsTotal ==
  ASSUME NEW rows, NEW C, Stored(rows, C)
  PROVE  /\ \A m \in C : Before(rows, m, m)
         /\ \A m, n \in C : Before(rows, m, n) \/ Before(rows, n, m)
         /\ \A m, n \in C : Before(rows, m, n) /\ Before(rows, n, m) => m = n
         /\ \A k, m, n \in C : Before(rows, k, m) /\ Before(rows, m, n) => Before(rows, k, n)
<1>1. \A n \in C : rows[n].block \in Nat /\ Position[n] \in Nat /\ n \in Notes
  BY DataAssumption DEF Stored
<1>2. \A m, n \in C : Position[m] = Position[n] => m = n
  BY <1>1, DataAssumption
<1> QED BY <1>1, <1>2 DEF Before

\* Sorted notes have a first and a last one.
LEMMA SortHasEnds ==
  ASSUME NEW rows, NEW C, Stored(rows, C), NEW T, T \subseteq C, T # {}
  PROVE  /\ \E x \in T : \A y \in T : Before(rows, x, y)
         /\ \E x \in T : \A y \in T : Before(rows, y, x)
<1>1. IsFiniteSet(C)
  BY DEF Stored
<1>2. \E x \in T : \A y \in T : Before(rows, x, y)
  <2> DEFINE below(n) == {m \in T : Before(rows, m, n)}
             D == {below(n) : n \in T}
  <2>1. D \subseteq SUBSET C /\ D # {}
    OBVIOUS
  <2>2. PICK u \in D : \A w \in D : ~(w \subseteq u /\ w # u)
    <3> HIDE DEF D
    <3> QED BY <1>1, <2>1, SmallestSet
  <2>3. PICK x \in T : u = below(x)
    OBVIOUS
  <2>4. ASSUME NEW y \in T, ~Before(rows, x, y)
        PROVE  FALSE
    <3>1. Before(rows, y, x)
      BY <2>4, SortIsTotal
    <3>2. below(y) \subseteq below(x)
      BY <3>1, SortIsTotal
    <3>3. x \in below(x) /\ x \notin below(y)
      BY <2>4, SortIsTotal
    <3> QED BY <2>2, <2>3, <3>2, <3>3
  <2> QED BY <2>4
<1>3. \E x \in T : \A y \in T : Before(rows, y, x)
  <2> DEFINE above(n) == {m \in T : Before(rows, n, m)}
             D == {above(n) : n \in T}
  <2>1. D \subseteq SUBSET C /\ D # {}
    OBVIOUS
  <2>2. PICK u \in D : \A w \in D : ~(w \subseteq u /\ w # u)
    <3> HIDE DEF D
    <3> QED BY <1>1, <2>1, SmallestSet
  <2>3. PICK x \in T : u = above(x)
    OBVIOUS
  <2>4. ASSUME NEW y \in T, ~Before(rows, y, x)
        PROVE  FALSE
    <3>1. Before(rows, x, y)
      BY <2>4, SortIsTotal
    <3>2. above(y) \subseteq above(x)
      BY <3>1, SortIsTotal
    <3>3. x \in above(x) /\ x \notin above(y)
      BY <2>4, SortIsTotal
    <3> QED BY <2>2, <2>3, <3>2, <3>3
  <2> QED BY <2>4
<1> QED BY <1>2, <1>3

\* If the notes suffice, the running total reaches the amount at one of them,
\* and CrossingNote is the first where it does.
LEMMA CrossingIsFirst ==
  ASSUME NEW rows, NEW C, Stored(rows, C), NEW expected \in Nat \ {0}, AddAmounts(C) >= expected
  PROVE  LET n == CrossingNote(rows, C, expected)
         IN  /\ n \in Reaching(rows, C, expected)
             /\ \A m \in Reaching(rows, C, expected) : Before(rows, n, m)
<1> DEFINE R == Reaching(rows, C, expected)
           n == CrossingNote(rows, C, expected)
<1>1. C # {}
  BY SumOfNone
<1>2. PICK last \in C : \A m \in C : Before(rows, m, last)
  BY <1>1, SortHasEnds
<1>3. Until(rows, C, last) = C
  BY <1>2 DEF Until
<1>4. R # {} /\ R \subseteq C
  BY <1>2, <1>3 DEF Reaching
<1>5. \E x \in R : \A y \in R : Before(rows, x, y)
  BY <1>4, SortHasEnds
<1>6. n = CHOOSE x \in C :
              /\ AddAmounts(Until(rows, C, x)) >= expected
              /\ \A m \in C : AddAmounts(Until(rows, C, m)) >= expected => Before(rows, x, m)
  BY DEF CrossingNote, Until
<1>7. \E x \in C :
        /\ AddAmounts(Until(rows, C, x)) >= expected
        /\ \A m \in C : AddAmounts(Until(rows, C, m)) >= expected => Before(rows, x, m)
  BY <1>5 DEF Reaching
<1> HIDE DEF n
<1>8. /\ n \in C /\ AddAmounts(Until(rows, C, n)) >= expected
      /\ \A m \in C : AddAmounts(Until(rows, C, m)) >= expected => Before(rows, n, m)
  BY <1>6, <1>7
<1> QED BY <1>8 DEF n, Reaching

\* The block at which the running total reaches the amount is in time exactly
\* when the notes of blocks in time suffice on their own.
LEMMA CrossingInTime ==
  ASSUME NEW rows, NEW C, Stored(rows, C), NEW expected \in Nat \ {0}, AddAmounts(C) >= expected,
         NEW deadline \in Nat
  PROVE  ~(BlockTime[rows[CrossingNote(rows, C, expected)].block] > deadline)
           <=> AddAmounts(InTime(rows, C, deadline)) >= expected
<1> DEFINE n == CrossingNote(rows, C, expected)
           early == InTime(rows, C, deadline)
           time(m) == BlockTime[rows[m].block]
<1>1. /\ n \in C /\ AddAmounts(Until(rows, C, n)) >= expected
      /\ \A m \in Reaching(rows, C, expected) : Before(rows, n, m)
  BY CrossingIsFirst DEF Reaching
<1> HIDE DEF n
<1>2. \A m \in C : time(m) \in Nat /\ rows[m].block \in Nat
  BY DataAssumption DEF Stored
<1>3. \A k, m \in C : Before(rows, k, m) => time(k) <= time(m)
  <2>1. \A k, m \in C : Before(rows, k, m) => rows[k].block <= rows[m].block
    BY <1>2 DEF Before
  <2> QED BY <2>1, DataAssumption DEF Stored
<1>4. early \in SUBSET C /\ early \in SUBSET Notes /\ IsFiniteSet(early)
  BY FS_Subset DEF Stored, InTime
<1>5. CASE time(n) <= deadline
  <2>1. Until(rows, C, n) \subseteq early
    BY <1>1, <1>2, <1>3, <1>5 DEF Until, InTime
  <2>2. AddAmounts(Until(rows, C, n)) <= AddAmounts(early)
    BY <1>4, <2>1, SumOfFewer
  <2>3. IsFiniteSet(Until(rows, C, n)) /\ Until(rows, C, n) \in SUBSET Notes
    BY <1>4, <2>1, FS_Subset
  <2>4. AddAmounts(Until(rows, C, n)) \in Nat /\ AddAmounts(early) \in Nat
    BY <1>4, <2>3, SumIsNatural
  <2>5. AddAmounts(early) >= expected
    BY <1>1, <2>2, <2>4
  <2> QED BY <1>1, <1>2, <1>5, <2>5 DEF n
<1>6. CASE ~(time(n) <= deadline)
  <2>1. time(n) > deadline
    BY <1>1, <1>2, <1>6
  <2>2. ASSUME AddAmounts(early) >= expected
        PROVE  FALSE
    <3>1. early # {}
      BY <2>2, SumOfNone
    <3>2. PICK y \in early : \A m \in early : Before(rows, m, y)
      BY <1>4, <3>1, SortHasEnds
    <3>3. y \in C /\ time(y) <= deadline
      BY DEF InTime
    <3>4. \A m \in C : Before(rows, m, y) => m \in early
      BY <1>2, <1>3, <3>3 DEF InTime
    <3>5. Until(rows, C, y) = early
      BY <1>4, <3>2, <3>4 DEF Until
    <3>6. Before(rows, n, y)
      BY <1>1, <2>2, <3>3, <3>5 DEF Reaching
    <3> QED BY <1>1, <1>2, <1>3, <2>1, <3>3, <3>6
  <2> QED BY <2>1, <2>2 DEF n
<1> QED BY <1>5, <1>6

\* What the rebuild says of an intent, in terms of what its notes add up to.
LEMMA StatusMeansEnoughInTime ==
  ASSUME NEW rows, NEW i \in Intents, NEW t, Stored(rows, Credited(rows, i))
  PROVE  StatusFor(rows, i, Received(rows, i), t) = "PAID"
           <=> AddAmounts(InTime(rows, Credited(rows, i), ExpiresAt[i])) >= Expected[i]
<1> DEFINE C == Credited(rows, i)
           early == InTime(rows, C, ExpiresAt[i])
<1>1. Expected[i] \in Nat \ {0} /\ ExpiresAt[i] \in Nat
  BY DataAssumption
<1>2. early \in SUBSET C /\ C \in SUBSET Notes /\ IsFiniteSet(C) /\ IsFiniteSet(early)
  BY FS_Subset DEF Stored, InTime
<1> HIDE DEF C, early
<1>3. AddAmounts(C) \in Nat /\ AddAmounts(early) \in Nat /\ AddAmounts(early) <= AddAmounts(C)
  <2>1. early \in SUBSET Notes
    BY <1>2
  <2> QED BY <1>2, <2>1, SumIsNatural, SumOfFewer
<1>4. CASE AddAmounts(C) >= Expected[i]
  <2>1. ~(BlockTime[rows[CrossingNote(rows, C, Expected[i])].block] > ExpiresAt[i])
          <=> AddAmounts(early) >= Expected[i]
    BY <1>1, <1>4, CrossingInTime DEF C, early
  <2>2. StatusFor(rows, i, Received(rows, i), t)
          = IF BlockTime[rows[CrossingNote(rows, C, Expected[i])].block] > ExpiresAt[i]
              THEN "PAID_LATE" ELSE "PAID"
    BY <1>4 DEF StatusFor, Received, C
  <2> QED BY <2>1, <2>2 DEF C, early
<1>5. CASE ~(AddAmounts(C) >= Expected[i])
  <2>1. ~(AddAmounts(early) >= Expected[i])
    BY <1>1, <1>3, <1>5
  <2>2. StatusFor(rows, i, Received(rows, i), t) # "PAID"
    BY <1>5, Zenon DEF StatusFor, Received, C
  <2> QED BY <2>1, <2>2 DEF C, early
<1> QED BY <1>4, <1>5

\* Without enough notes, or with enough of them in time, there is no doubt: the
\* invariant the theorem rests on.
PaidInv == IInv /\ IsFiniteSet(DOMAIN ledger) /\ PaidMeansEnoughInTime

\* A rebuild has the status that statusFor gives it.
LEMMA RebuiltStatus ==
  ASSUME NEW rows, NEW i, NEW previous, NEW t
  PROVE  DeriveProjection(rows, i, previous, t).status = StatusFor(rows, i, Received(rows, i), t)
<1> DEFINE status == StatusFor(rows, i, Received(rows, i), t)
           raw == [status      |-> status,
                   received    |-> Received(rows, i),
                   pending     |-> Pending(rows, i),
                   overpayment |-> Overpayment(Received(rows, i), i),
                   revision    |-> previous.revision]
<1>1. DeriveProjection(rows, i, previous, t)
        = IF raw = previous THEN previous ELSE [raw EXCEPT !.revision = @ + 1]
  BY DEF DeriveProjection
<1> HIDE DEF status
<1>2. raw.status = status /\ [raw EXCEPT !.revision = @ + 1].status = status
  OBVIOUS
<1> QED BY <1>1, <1>2 DEF status

\* Only stored notes are credited.
LEMMA CreditedAreStored ==
  ASSUME NEW rows, IsFiniteSet(DOMAIN rows), DOMAIN rows \subseteq Notes,
         \A n \in DOMAIN rows : rows[n] \in Row,
         NEW i
  PROVE  Stored(rows, Credited(rows, i))
<1>1. Credited(rows, i) \subseteq DOMAIN rows
  BY DEF Credited
<1>2. IsFiniteSet(Credited(rows, i))
  BY <1>1, FS_Subset
<1> QED BY <1>1, <1>2 DEF Stored, Row

\* A rebuilt intent is PAID exactly when it should be.
LEMMA RebuiltIsPaidInTime ==
  ASSUME NEW rows, IsFiniteSet(DOMAIN rows), DOMAIN rows \subseteq Notes,
         \A n \in DOMAIN rows : rows[n] \in Row,
         NEW i \in Intents, NEW previous, NEW t
  PROVE  DeriveProjection(rows, i, previous, t).status = "PAID"
           <=> AddAmounts(InTime(rows, Credited(rows, i), ExpiresAt[i])) >= Expected[i]
BY CreditedAreStored, RebuiltStatus, StatusMeansEnoughInTime

PaidInTime(rows, i) ==
  projections[i].status = "PAID"
    <=> AddAmounts(InTime(rows, Credited(rows, i), ExpiresAt[i])) >= Expected[i]

\* The property, intent by intent.
LEMMA PaidInTimeIsMeant ==
  PaidMeansEnoughInTime <=> \A i \in DOMAIN projections : PaidInTime(ledger, i)
BY DEF PaidMeansEnoughInTime, PaidInTime, InTime

\* What a candidate leaves alone of the notes of other intents.
LEMMA OtherNotesUnchanged ==
  ASSUME IInv, NEW c \in Candidates, Published(c.note), SameIdentity(c),
         ledger' = Put(ledger, c.note, SettlementRow(c)), UNCHANGED now,
         NEW j \in DOMAIN projections,
         MatchStatusOf(c) # "MATCHED" \/ j # Reference[c.note]
  PROVE  InTime(ledger', Credited(ledger', j), ExpiresAt[j])
           = InTime(ledger, Credited(ledger, j), ExpiresAt[j])
<1>1. j \in Intents /\ j # NoIntent
  BY DataAssumption DEF IInv, TypeOK
<1>2. ledger'[c.note].intent # j
  BY <1>1, RowFacts
<1>3. c.note \in DOMAIN ledger => ledger[c.note].intent # j
  BY <1>1, RowFacts DEF IInv, Linked
<1>4. /\ DOMAIN ledger' = DOMAIN ledger \cup {c.note}
      /\ \A n \in DOMAIN ledger \ {c.note} : ledger'[n] = ledger[n]
  BY RowFacts
<1>5. Credited(ledger', j) = Credited(ledger, j) /\ c.note \notin Credited(ledger, j)
  BY <1>2, <1>3, <1>4 DEF Credited
<1>6. \A n \in Credited(ledger, j) : ledger'[n] = ledger[n]
  BY <1>4, <1>5 DEF Credited
<1> QED BY <1>5, <1>6 DEF InTime

\* A reconciled note rebuilds the intent it pays and leaves the others.
LEMMA ReconcileKeepsPaid ==
  ASSUME PaidInv, NEW c \in Candidates, Published(c.note), Reconcile(c)
  PROVE  PaidInv'
<1> DEFINE i == Reference[c.note]
           next == DeriveProjection(ledger', i, projections[i], now)
<1>1. /\ SameIdentity(c)
      /\ ledger' = Put(ledger, c.note, SettlementRow(c))
      /\ UNCHANGED now
  BY DEF Reconcile
<1>2. IInv'
  BY ReconcilePreservesIInv DEF PaidInv
<1>3. /\ DOMAIN ledger' = DOMAIN ledger \cup {c.note}
      /\ MatchStatusOf(c) = "MATCHED" => i \in DOMAIN projections
  BY <1>1, RowFacts DEF PaidInv
<1>4. IsFiniteSet(DOMAIN ledger')
  BY <1>3, FS_AddElement DEF PaidInv
<1>5. ASSUME NEW j \in DOMAIN projections, MatchStatusOf(c) # "MATCHED" \/ j # i,
             projections'[j] = projections[j]
      PROVE  PaidInTime(ledger, j)'
  <2>1. InTime(ledger', Credited(ledger', j), ExpiresAt[j])
          = InTime(ledger, Credited(ledger, j), ExpiresAt[j])
    BY <1>1, <1>5, OtherNotesUnchanged DEF PaidInv
  <2>2. PaidInTime(ledger, j)
    BY PaidInTimeIsMeant DEF PaidInv
  <2> QED BY <1>5, <2>1, <2>2 DEF PaidInTime
<1>6. PaidMeansEnoughInTime'
  <2>1. CASE MatchStatusOf(c) # "MATCHED"
    <3>1. projections' = projections
      BY <2>1 DEF Reconcile
    <3>2. \A j \in DOMAIN projections' : PaidInTime(ledger, j)'
      BY <1>5, <2>1, <3>1
    <3> QED BY <3>2 DEF PaidMeansEnoughInTime, PaidInTime, InTime
  <2>2. CASE MatchStatusOf(c) = "MATCHED"
    <3>1. projections' = Put(projections, i, next) /\ i \in Intents
      BY <1>3, <2>2 DEF Reconcile, PaidInv, IInv, TypeOK
    <3>2. next.status = "PAID"
            <=> AddAmounts(InTime(ledger', Credited(ledger', i), ExpiresAt[i])) >= Expected[i]
      BY <1>2, <1>4, <3>1, RebuiltIsPaidInTime DEF IInv, TypeOK
    <3> HIDE DEF next
    <3>3. /\ DOMAIN projections' = DOMAIN projections /\ projections'[i] = next
          /\ \A j \in DOMAIN projections : j # i => projections'[j] = projections[j]
      BY <1>3, <2>2, <3>1 DEF Put
    <3>4. PaidInTime(ledger, i)'
      BY <3>2, <3>3 DEF PaidInTime
    <3>5. \A j \in DOMAIN projections' : PaidInTime(ledger, j)'
      BY <1>5, <3>3, <3>4
    <3> QED BY <3>5 DEF PaidMeansEnoughInTime, PaidInTime, InTime
  <2> QED BY <2>1, <2>2
<1> QED BY <1>2, <1>4, <1>6 DEF PaidInv

\* A new intent has no notes.
LEMMA CreateKeepsPaid == ASSUME PaidInv, NEW i \in Intents, CreateIntent(i) PROVE PaidInv'
<1>1. IInv'
  BY CreateIntentPreservesIInv DEF PaidInv
<1>2. /\ DOMAIN projections' = DOMAIN projections \cup {i} /\ i \notin DOMAIN projections
      /\ projections'[i] = InitialProjection /\ ledger' = ledger
      /\ \A j \in DOMAIN projections : projections'[j] = projections[j]
  BY DEF CreateIntent, Put
<1>3. Credited(ledger, i) = {}
  BY <1>2, DataAssumption DEF PaidInv, IInv, Linked, TypeOK, Credited
<1>4. AddAmounts(InTime(ledger, Credited(ledger, i), ExpiresAt[i])) = 0
  BY <1>3, SumOfNone DEF InTime
<1>5. PaidInTime(ledger, i)'
  BY <1>2, <1>4, DataAssumption DEF PaidInTime, InitialProjection
<1>6. \A j \in DOMAIN projections : PaidInTime(ledger, j)'
  BY <1>2, PaidInTimeIsMeant DEF PaidInv, PaidInTime
<1>7. \A j \in DOMAIN projections' : PaidInTime(ledger, j)'
  BY <1>2, <1>5, <1>6
<1>8. PaidMeansEnoughInTime'
  BY <1>7 DEF PaidMeansEnoughInTime, PaidInTime, InTime
<1> QED BY <1>1, <1>2, <1>8 DEF PaidInv

\* A refresh rebuilds from the same notes.
LEMMA RefreshKeepsPaid == ASSUME PaidInv, RefreshExpirations PROVE PaidInv'
<1>1. IInv'
  BY RefreshPreservesIInv DEF PaidInv
<1>2. /\ ledger' = ledger /\ DOMAIN projections' = DOMAIN projections
      /\ \A i \in DOMAIN projections :
           projections'[i] = DeriveProjection(ledger, i, projections[i], now)
  BY RefreshFacts DEF PaidInv
<1>3. ASSUME NEW i \in DOMAIN projections' PROVE PaidInTime(ledger, i)'
  <2>1. /\ i \in Intents /\ IsFiniteSet(DOMAIN ledger') /\ DOMAIN ledger' \subseteq Notes
        /\ \A n \in DOMAIN ledger' : ledger'[n] \in Row
    BY <1>1, <1>2 DEF PaidInv, IInv, TypeOK
  <2>2. projections'[i] = DeriveProjection(ledger', i, projections[i], now)
    BY <1>2
  <2> QED BY <2>1, <2>2, RebuiltIsPaidInTime DEF PaidInTime
<1>4. PaidMeansEnoughInTime'
  BY <1>3 DEF PaidMeansEnoughInTime, PaidInTime, InTime
<1> QED BY <1>1, <1>2, <1>4 DEF PaidInv

\* Every step preserves it.
LEMMA NextKeepsPaid == PaidInv /\ [Next]_vars => PaidInv'
<1> SUFFICES ASSUME PaidInv, [Next]_vars PROVE PaidInv'
  OBVIOUS
<1>1. ASSUME NEW s \in Sightings, ReconcileSighting(s) PROVE PaidInv'
  BY <1>1, SightingsAreCandidates, ReconcileKeepsPaid DEF ReconcileSighting
<1>2. ASSUME NEW n \in Notes, NEW receipt \in SeenReceipts, NEW block \in Blocks,
             ReconcileRecheck(n, receipt, block)
      PROVE  PaidInv'
  BY <1>2, RechecksAreCandidates, ReconcileKeepsPaid DEF ReconcileRecheck, PaidInv
<1>3. ASSUME Tick \/ UNCHANGED vars PROVE PaidInv'
  <2>1. UNCHANGED <<projections, ledger>>
    BY <1>3 DEF Tick, vars
  <2>2. IInv'
    BY NextPreservesIInv DEF PaidInv
  <2>3. PaidMeansEnoughInTime'
    BY <2>1 DEF PaidInv, PaidMeansEnoughInTime
  <2> QED BY <2>1, <2>2, <2>3 DEF PaidInv
<1> QED BY <1>1, <1>2, <1>3, CreateKeepsPaid, RefreshKeepsPaid DEF Next

\* It holds in every reachable state.
LEMMA PaidInvariance == Spec => []PaidInv
<1>1. Init => PaidInv
  <2> SUFFICES ASSUME Init PROVE PaidInv
    OBVIOUS
  <2>1. DOMAIN ledger = {} /\ DOMAIN projections = {}
    BY DEF Init
  <2>2. IsFiniteSet({})
    BY FS_EmptySet
  <2> QED BY <2>1, <2>2, InitEstablishesIInv DEF PaidInv, PaidMeansEnoughInTime
<1> QED BY <1>1, NextKeepsPaid, PTL DEF Spec

\* An intent is PAID and not PAID_LATE exactly when the credited notes of blocks
\* in time suffice on their own: for any number of notes of any amounts, in
\* whatever order they were observed, lost and found again.
THEOREM PaidInTimeIsEnoughInTime == Spec => []PaidMeansEnoughInTime
<1>1. PaidInv => PaidMeansEnoughInTime
  BY DEF PaidInv
<1> QED BY <1>1, PaidInvariance, PTL

-----------------------------------------------------------------------------
(***************************************************************************)
(* The checkout page                                                       *)
(***************************************************************************)
\* No amount is credited or awaited exactly when no payment but a reverted one
\* is stored.
LEMMA AmountsTellOfNotes ==
  ASSUME PaidInv, NEW i \in DOMAIN projections
  PROVE  /\ projections[i].received \in Nat /\ projections[i].pending \in Nat
         /\ projections[i].received > 0 <=> Credited(ledger, i) # {}
         /\ projections[i].pending > 0 <=> Awaited(ledger, i) # {}
<1>1. /\ projections[i].received = AddAmounts(Credited(ledger, i))
      /\ projections[i].pending = AddAmounts(Awaited(ledger, i))
  BY DEF PaidInv, IInv, ProjectionMatchesLedger, Received, Pending
<1>2. /\ Credited(ledger, i) \subseteq DOMAIN ledger /\ Awaited(ledger, i) \subseteq DOMAIN ledger
      /\ DOMAIN ledger \subseteq Notes /\ IsFiniteSet(DOMAIN ledger)
  BY DEF PaidInv, IInv, TypeOK, Credited, Awaited
<1>3. /\ IsFiniteSet(Credited(ledger, i)) /\ Credited(ledger, i) \in SUBSET Notes
      /\ IsFiniteSet(Awaited(ledger, i)) /\ Awaited(ledger, i) \in SUBSET Notes
  BY <1>2, FS_Subset
<1>4. projections[i].received \in Nat /\ projections[i].pending \in Nat
  BY <1>1, <1>3, SumIsNatural
<1>5. Credited(ledger, i) # {} => projections[i].received > 0
  BY <1>1, <1>3, SumIsPositive
<1>6. Awaited(ledger, i) # {} => projections[i].pending > 0
  BY <1>1, <1>3, SumIsPositive
<1>7. Credited(ledger, i) = {} => projections[i].received = 0
  BY <1>1, SumOfNone
<1>8. Awaited(ledger, i) = {} => projections[i].pending = 0
  BY <1>1, SumOfNone
<1> QED BY <1>4, <1>5, <1>6, <1>7, <1>8

\* The notes of an intent are credited, awaited or reverted.
LEMMA MatchedNotesAre ==
  ASSUME NEW i
  PROVE  /\ Credited(ledger, i) \subseteq MatchedNotes(i)
         /\ Awaited(ledger, i) \subseteq MatchedNotes(i)
         /\ \A n \in MatchedNotes(i) : \/ n \in Credited(ledger, i) \/ n \in Awaited(ledger, i)
                                       \/ ledger[n].chainStatus = "REVERTED"
BY DEF Credited, Awaited, MatchedNotes, IsCreditable, IsPending

\* The page tells a customer that no payment has been seen exactly when none is
\* stored, offers to pay only then, and can verify whatever the API serves, for
\* any notes and any reading of the customer's clock.
THEOREM CheckoutTellsTheTruth == Spec => []CheckoutKnowsThePayments
<1>1. ASSUME PaidInv, NEW i \in DOMAIN projections, NEW clock
      PROVE  LET request == RequestJson(i, TRUE)
                 title   == Title(request, clock)
             IN  /\ VerifyCheckoutRequest(request)
                 /\ title \in {"Awaiting payment", "Payment request expired"}
                      <=> MatchedNotes(i) = {}
                 /\ CanPay(request, clock) => title = "Awaiting payment"
  <2> DEFINE p == projections[i]
             stage == PaymentStage(i)
             request == RequestJson(i, TRUE)
             title == Title(request, clock)
             reverted == \E n \in MatchedNotes(i) : ledger[n].chainStatus = "REVERTED"
  <2>1. i \in Intents /\ Expected[i] \in Nat /\ Expected[i] > 0
    BY <1>1, DataAssumption DEF PaidInv, IInv, TypeOK
  <2>2. /\ p.received \in Nat /\ p.pending \in Nat
        /\ p.received > 0 <=> Credited(ledger, i) # {}
        /\ p.pending > 0 <=> Awaited(ledger, i) # {}
    BY <1>1, AmountsTellOfNotes
  <2>3. IsPaid(p) <=> p.received >= Expected[i]
    BY <1>1 DEF PaidInv, IInv, ProjectionMatchesLedger
  <2>4. /\ request.status = p.status /\ request.received = p.received
        /\ request.pending = p.pending /\ request.amount = Expected[i]
        /\ request.expiresAt = ExpiresAt[i] /\ request.stage = stage /\ request.ready = TRUE
    BY DEF RequestJson
  <2>5. IsPaid(request) <=> IsPaid(p)
    BY <2>4 DEF IsPaid
  <2>6. /\ stage \in Stages
        /\ stage = "PAYMENT_COMPLETE" <=> IsPaid(p)
        /\ stage = "PRIVACY_CHECKS_PENDING" <=> ~IsPaid(p) /\ OnlyPrivacyMissing(i)
        /\ stage = "PAYMENT_REVERTED"
             <=> ~IsPaid(p) /\ ~OnlyPrivacyMissing(i) /\ ~(p.pending > 0) /\ reverted
    BY Zenon DEF PaymentStage, Stages
  <2>7. OnlyPrivacyMissing(i) => MatchedNotes(i) # {}
    BY DEF OnlyPrivacyMissing
  <2>8. MatchedNotes(i) = {} <=> Credited(ledger, i) = {} /\ Awaited(ledger, i) = {} /\ ~reverted
    BY MatchedNotesAre
  <2> HIDE DEF request, stage, p, reverted
  <2>9. IsPaid(p) <=> p.status \in {"PAID", "PAID_LATE"}
    BY DEF IsPaid
  <2>10. VerifyCheckoutRequest(request)
    BY <2>1, <2>2, <2>3, <2>4, <2>5, <2>6 DEF VerifyCheckoutRequest
  <2>11. title = IF request.status = "PAID" THEN "Payment complete"
                 ELSE IF request.status = "PAID_LATE" THEN "Payment received after expiration"
                 ELSE IF request.stage = "PAYMENT_REVERTED" THEN "Payment needs review"
                 ELSE IF request.stage = "PRIVACY_CHECKS_PENDING" THEN "Payment confirmed onchain"
                 ELSE IF request.pending > 0 THEN "Payment detected"
                 ELSE IF Partial(request) THEN "Partial payment"
                 ELSE IF Expired(request, clock) \/ request.status = "EXPIRED"
                        THEN "Payment request expired"
                 ELSE "Awaiting payment"
    BY DEF Title
  <2>12. title \in {"Awaiting payment", "Payment request expired"}
           <=> /\ ~IsPaid(p) /\ stage # "PAYMENT_REVERTED" /\ stage # "PRIVACY_CHECKS_PENDING"
               /\ ~(p.pending > 0) /\ ~Partial(request)
    <3> HIDE DEF title
    <3> QED BY <2>4, <2>9, <2>11
  <2>13. Partial(request) <=> ~IsPaid(p) /\ p.received > 0
    BY <2>4, <2>5 DEF Partial
  <2>14. title \in {"Awaiting payment", "Payment request expired"} <=> MatchedNotes(i) = {}
    <3>1. IsPaid(p) => p.received > 0
      BY <2>1, <2>2, <2>3
    <3> QED BY <3>1, <2>2, <2>6, <2>7, <2>8, <2>12, <2>13
  <2>15. CanPay(request, clock) => title = "Awaiting payment"
    <3> SUFFICES ASSUME CanPay(request, clock) PROVE title = "Awaiting payment"
      OBVIOUS
    <3>1. /\ request.status = "OPEN" /\ request.stage = "AWAITING_PAYMENT" /\ request.pending = 0
          /\ ~Partial(request) /\ ~Expired(request, clock)
      BY DEF CanPay
    <3>2. ~(request.pending > 0)
      BY <3>1
    <3>3. /\ request.status \notin {"PAID", "PAID_LATE", "EXPIRED"}
          /\ request.stage \notin {"PAYMENT_REVERTED", "PRIVACY_CHECKS_PENDING"}
      BY <3>1
    <3> HIDE DEF title
    <3> QED BY <2>11, <3>1, <3>2, <3>3, Zenon
  <2> QED BY <2>10, <2>14, <2>15 DEF request
<1>2. PaidInv => CheckoutKnowsThePayments
  BY <1>1 DEF CheckoutKnowsThePayments
<1> QED BY <1>2, PaidInvariance, PTL
=============================================================================
