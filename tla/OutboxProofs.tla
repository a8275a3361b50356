---------------------------- MODULE OutboxProofs ----------------------------
(***************************************************************************)
(* Theorems about webhook delivery (Outbox.tla), for any number of events, *)
(* attempts, crashes and replays and any batch and retry limits, and about *)
(* the merchant who receives the events (Merchant.tla).                    *)
(*                                                                         *)
(* The invariant relates the snapshot a pass works through with the table  *)
(* it was read from: its rows are still pending with the attempts it says, *)
(* and no event that was never sent is skipped by it.  The merchant's      *)
(* tables are related with the events answered so far.                     *)
(***************************************************************************)
EXTENDS Merchant, FiniteSetTheorems, SequenceTheorems, WellFoundedInduction, TLAPS

IsRow(r) ==
  /\ r = [status |-> r.status, attempts |-> r.attempts, dueIn |-> r.dueIn]
  /\ r.status \in {"pending", "delivered", "dead"}
  /\ r.attempts \in Nat
  /\ r.status = "pending" => r.attempts < MaxAttempts
  /\ r.status = "dead"    => r.attempts = MaxAttempts

RowsOK ==
  /\ Cardinality(Written) \in Nat /\ Written = 1..Cardinality(Written)
  /\ \A e \in Written : IsRow(outbox[e])

PhaseOK ==
  /\ phase \in {"down", "idle", "expire", "first", "scan", "second"}
  /\ ~Delivering => DOMAIN batch = {} /\ answer = "none"

\* What the pass still has to send is in the table as it was read.
SnapshotOK ==
  /\ DOMAIN batch \subseteq Written
  /\ \A e \in DOMAIN batch : outbox[e].status = "pending" /\ outbox[e].attempts = batch[e]

\* An answer is about the request of the current event.
AnswerOK ==
  answer # "none" =>
    /\ DOMAIN batch # {}
    /\ Current \in posted
    /\ answer = "ok" => Current \in accepted

HistoryOK == tried \subseteq posted /\ posted \subseteq Written

\* What was never sent is due, and a snapshot that holds a later event holds it.
OrderOK ==
  /\ FirstAttemptsInOrder
  /\ \A e \in Written \ posted : outbox[e] = Fresh
  /\ \A e \in DOMAIN batch : \A f \in Written \ posted : f < e => f \in DOMAIN batch

\* What this cycle has sent is not due any more when the second pass looks.
CycleOK ==
  /\ phase \in {"expire", "first", "scan"} =>
       \A e \in tried : outbox[e].status = "pending" /\ outbox[e].dueIn = 0
                          => answer # "none" /\ e = Current
  /\ phase = "second" =>
       \A e \in tried \cap DOMAIN batch : answer # "none" /\ e = Current

OutboxInv ==
  /\ RowsOK
  /\ PhaseOK
  /\ SnapshotOK
  /\ AnswerOK
  /\ HistoryOK
  /\ OrderOK
  /\ CycleOK
  /\ DeliveredWasAccepted

-----------------------------------------------------------------------------
(***************************************************************************)
(* Lemmas                                                                  *)
(***************************************************************************)
\* A nonempty set of row numbers has a least element: the sets of its smaller
\* members are ordered by inclusion, and one of them is minimal.
LEMMA LeastExists ==
  ASSUME NEW n \in Nat, NEW T, T \subseteq 1..n, T # {}
  PROVE  \E x \in T : \A y \in T : x <= y
<1> DEFINE below(x) == {y \in T : y < x}
           sets == {below(x) : x \in T}
<1>1. IsFiniteSet(1..n)
  BY FS_Interval
<1>2. IsWellFoundedOn(StrictSubsetOrdering(1..n), SUBSET (1..n))
  BY <1>1, FS_FiniteSubsetsOfFinite, FS_StrictSubsetOrderingWellFounded
<1>3. sets \subseteq SUBSET (1..n) /\ sets # {}
  OBVIOUS
<1>4. PICK u \in sets : \A w \in sets : ~ (<<w, u>> \in StrictSubsetOrdering(1..n))
  <2> HIDE DEF sets
  <2> QED BY <1>2, <1>3, WFMin
<1>5. PICK x \in T : u = below(x)
  OBVIOUS
<1>6. ASSUME NEW y \in T, y < x
      PROVE  FALSE
  <2>1. \A z \in T : z \in Int
    OBVIOUS
  <2>2. \A z \in T : z < y => z < x
    BY <2>1, <1>6
  <2>3. below(y) \subseteq below(x)
    BY <2>2
  <2>4. y \in below(x) /\ y \notin below(y)
    BY <2>1, <1>6
  <2>5. below(y) \in sets /\ below(y) \in SUBSET (1..n) /\ u \in SUBSET (1..n)
    BY <1>3, <1>5
  <2> HIDE DEF below, sets
  <2>6. <<below(y), u>> \in StrictSubsetOrdering(1..n)
    BY <2>3, <2>4, <2>5, <1>5 DEF StrictSubsetOrdering
  <2> QED BY <2>5, <2>6, <1>4
<1>7. \A y \in T : x <= y
  BY <1>6
<1> QED BY <1>7

\* The event the pass is at is the oldest one left in its snapshot.
LEMMA CurrentIsOldest ==
  ASSUME RowsOK, SnapshotOK, DOMAIN batch # {}
  PROVE  /\ Current \in DOMAIN batch
         /\ \A f \in DOMAIN batch : Current <= f
<1>1. Cardinality(Written) \in Nat /\ DOMAIN batch \subseteq 1..Cardinality(Written)
  BY DEF RowsOK, SnapshotOK
<1>2. \E e \in DOMAIN batch : \A f \in DOMAIN batch : e <= f
  BY <1>1, LeastExists
<1> QED BY <1>2 DEF Current

\* A snapshot holds due rows with their attempts, and with a row every older
\* row that is due.
LEMMA SnapshotIsOldest ==
  ASSUME NEW table, NEW n \in Nat, DOMAIN table = 1..n
  PROVE  /\ DOMAIN ListPending(table) \subseteq Due(table)
         /\ \A e \in DOMAIN ListPending(table) : ListPending(table)[e] = table[e].attempts
         /\ \A e \in DOMAIN ListPending(table) :
              \A f \in Due(table) : f < e => f \in DOMAIN ListPending(table)
<1> DEFINE before(e) == {f \in Due(table) : f < e}
           taken == {e \in Due(table) : Cardinality(before(e)) < BatchLimit}
<1>1. ListPending(table) = [e \in taken |-> table[e].attempts]
  BY DEF ListPending
<1>2. IsFiniteSet(1..n)
  BY FS_Interval
<1>3. \A e : IsFiniteSet(before(e)) /\ Cardinality(before(e)) \in Nat
  BY <1>2, FS_Subset, FS_CardinalityType DEF Due
<1> HIDE DEF before
<1>4. ASSUME NEW e \in taken, NEW f \in Due(table), f < e
      PROVE  f \in taken
  <2>1. before(f) \subseteq before(e)
    BY <1>4 DEF Due, before
  <2>2. Cardinality(before(f)) <= Cardinality(before(e))
    BY <2>1, <1>3, FS_Subset
  <2>3. Cardinality(before(e)) < BatchLimit
    OBVIOUS
  <2>4. Cardinality(before(f)) < BatchLimit
    BY <2>2, <2>3, <1>3, OutboxAssumption
  <2> QED BY <2>4
<1> HIDE DEF taken
<1>5. DOMAIN ListPending(table) = taken /\ \A e \in taken : ListPending(table)[e] = table[e].attempts
  BY <1>1
<1>6. taken \subseteq Due(table)
  BY DEF taken
<1> QED BY <1>4, <1>5, <1>6

\* A failed event is never due at once.
LEMMA RetryIsLater == \A a : RetrySeconds(a) # 0
BY DEF RetrySeconds, Larger

\* A new row is due at once.
LEMMA FreshIsRow == IsRow(Fresh) /\ Fresh.status = "pending" /\ Fresh.dueIn = 0
BY OutboxAssumption DEF IsRow, Fresh

\* One row is replaced by what an attempt came to.
LEMMA AttemptRecorded ==
  ASSUME OutboxInv, answer # "none", DOMAIN batch # {},
         NEW r, IsRow(r),
         r.status = "pending" => r.dueIn # 0,
         r.status = "delivered" => Current \in accepted,
         DOMAIN outbox' = Written, outbox'[Current] = r,
         \A f \in Written \ {Current} : outbox'[f] = outbox[f],
         batch' = Rest, answer' = "none",
         UNCHANGED <<phase, requests, accepted, history, budgets>>
  PROVE  OutboxInv'
<1>0. phase' = phase /\ accepted' = accepted /\ posted' = posted /\ tried' = tried
  BY DEF history
<1>1. Current \in DOMAIN batch /\ \A f \in DOMAIN batch : Current <= f
  BY CurrentIsOldest DEF OutboxInv
<1>2. DOMAIN batch' = DOMAIN batch \ {Current} /\ \A e \in DOMAIN batch' : batch'[e] = batch[e]
  BY DEF Rest
<1>3. Current \in posted /\ Current \in Written /\ DOMAIN batch \subseteq Written
  BY <1>1 DEF OutboxInv, AnswerOK, SnapshotOK
<1>4. RowsOK'
  BY <1>3 DEF OutboxInv, RowsOK, Written
<1>5. PhaseOK'
  BY <1>0, <1>2 DEF OutboxInv, PhaseOK, Delivering
<1>6. SnapshotOK'
  BY <1>2, <1>3 DEF OutboxInv, SnapshotOK, Written
<1>7. AnswerOK'
  BY DEF AnswerOK
<1>8. HistoryOK'
  BY <1>0 DEF OutboxInv, HistoryOK, Written
<1>9. OrderOK'
  BY <1>0, <1>2, <1>3 DEF OutboxInv, OrderOK, FirstAttemptsInOrder, Written, Fresh
<1>10. CycleOK'
  <2>1. tried \subseteq Written
    BY DEF OutboxInv, HistoryOK
  <2>2. CASE phase \in {"expire", "first", "scan"}
    BY <1>0, <2>1, <2>2 DEF OutboxInv, CycleOK
  <2>3. CASE phase = "second"
    BY <1>0, <1>2, <2>3 DEF OutboxInv, CycleOK
  <2>4. CASE phase \notin {"expire", "first", "scan", "second"}
    BY <1>0, <2>4 DEF CycleOK
  <2> QED BY <2>2, <2>3, <2>4
<1>11. DeliveredWasAccepted'
  BY <1>0, <1>3 DEF OutboxInv, DeliveredWasAccepted, Written
<1> QED BY <1>4, <1>5, <1>6, <1>7, <1>8, <1>9, <1>10, <1>11 DEF OutboxInv

-----------------------------------------------------------------------------
(***************************************************************************)
(* The invariant is preserved                                              *)
(***************************************************************************)
LEMMA InitIsGood == Init => OutboxInv
<1> SUFFICES ASSUME Init PROVE OutboxInv
  OBVIOUS
<1>1. Written = {} /\ DOMAIN batch = {} /\ answer = "none" /\ phase = "idle"
  BY DEF Init, Written
<1>2. Cardinality({}) = 0
  BY FS_EmptySet
<1>3. RowsOK
  BY <1>1, <1>2 DEF RowsOK
<1>4. PhaseOK /\ SnapshotOK /\ AnswerOK
  BY <1>1 DEF PhaseOK, SnapshotOK, AnswerOK
<1>5. HistoryOK /\ OrderOK /\ CycleOK /\ DeliveredWasAccepted
  BY <1>1 DEF Init, HistoryOK, OrderOK, FirstAttemptsInOrder, CycleOK, DeliveredWasAccepted
<1> QED BY <1>3, <1>4, <1>5 DEF OutboxInv

\* Taking a snapshot: the table is the same but for waiting times that run
\* down, fresh rows stay fresh, and nothing sent in this cycle is due.
LEMMA SnapshotTaken ==
  ASSUME OutboxInv, answer = "none", DOMAIN batch = {},
         DOMAIN outbox' = Written,
         \A e \in Written : /\ IsRow(outbox'[e])
                            /\ outbox'[e].status = outbox[e].status
                            /\ outbox[e] = Fresh => outbox'[e] = Fresh,
         batch' = ListPending(outbox'),
         phase' \in {"first", "second"},
         tried' \subseteq tried,
         \A e \in tried' : outbox'[e].status = "pending" => outbox'[e].dueIn # 0,
         UNCHANGED <<answer, accepted, posted>>
  PROVE  OutboxInv'
<1>1. DOMAIN outbox' = 1..Cardinality(Written) /\ Cardinality(Written) \in Nat
  BY DEF OutboxInv, RowsOK
<1>2. /\ DOMAIN batch' \subseteq Due(outbox')
      /\ \A e \in DOMAIN batch' : batch'[e] = outbox'[e].attempts
      /\ \A e \in DOMAIN batch' : \A f \in Due(outbox') : f < e => f \in DOMAIN batch'
  BY <1>1, SnapshotIsOldest
<1>3. posted \subseteq Written /\ tried \subseteq posted /\ Written' = Written
  BY DEF OutboxInv, HistoryOK, Written
<1>4. RowsOK'
  BY <1>3 DEF OutboxInv, RowsOK
<1>5. PhaseOK'
  BY DEF PhaseOK, Delivering
<1>6. SnapshotOK'
  BY <1>2, <1>3 DEF SnapshotOK, Due, Written
<1>7. AnswerOK'
  BY DEF AnswerOK
<1>8. HistoryOK'
  BY <1>3 DEF HistoryOK
<1>9. OrderOK'
  <2>1. \A f \in Written \ posted : outbox'[f] = Fresh
    BY DEF OutboxInv, OrderOK
  <2>2. \A f \in Written \ posted : f \in Due(outbox')
    BY <2>1, FreshIsRow DEF Due
  <2> QED BY <1>2, <1>3, <2>1, <2>2 DEF OutboxInv, OrderOK, FirstAttemptsInOrder
<1>10. CycleOK'
  <2>1. \A e \in tried' : e \notin Due(outbox')
    BY DEF Due
  <2> QED BY <1>2, <2>1 DEF CycleOK
<1>11. DeliveredWasAccepted'
  BY <1>3 DEF OutboxInv, DeliveredWasAccepted
<1> QED BY <1>4, <1>5, <1>6, <1>7, <1>8, <1>9, <1>10, <1>11 DEF OutboxInv

\* A cycle begins: rows come nearer to being due, and nothing is sent in it yet.
LEMMA StartCycleKeeps == ASSUME OutboxInv, NEW d \in 1..MaxPause, StartCycle(d) PROVE OutboxInv'
<1>1. phase = "idle" /\ answer = "none" /\ DOMAIN batch = {}
  BY DEF StartCycle, OutboxInv, PhaseOK, Delivering
<1>2. outbox' = Elapse(d) /\ phase' = "expire" /\ tried' = {}
  BY DEF StartCycle
<1>3. UNCHANGED <<batch, answer, accepted, posted>>
  BY DEF StartCycle
<1>4. ASSUME NEW e \in Written
      PROVE  /\ IsRow(outbox'[e])
             /\ outbox'[e].status = outbox[e].status
             /\ outbox[e] = Fresh => outbox'[e] = Fresh
  <2>1. IsRow(outbox[e])
    BY DEF OutboxInv, RowsOK
  <2>2. outbox'[e] = [outbox[e] EXCEPT !.dueIn = Larger(0, @ - d)]
    BY <1>2 DEF Elapse
  <2>3. outbox'[e] = [status |-> outbox[e].status, attempts |-> outbox[e].attempts,
                      dueIn |-> Larger(0, outbox[e].dueIn - d)]
    BY <2>1, <2>2 DEF IsRow
  <2>4. Larger(0, 0 - d) = 0
    BY DEF Larger
  <2> QED BY <2>1, <2>3, <2>4 DEF IsRow, Fresh
<1>5. Written' = Written
  BY <1>2 DEF Elapse, Written
<1>6. RowsOK' /\ HistoryOK' /\ DeliveredWasAccepted'
  BY <1>2, <1>3, <1>4, <1>5 DEF OutboxInv, RowsOK, HistoryOK, DeliveredWasAccepted
<1>7. PhaseOK' /\ SnapshotOK' /\ AnswerOK'
  BY <1>1, <1>2, <1>3 DEF PhaseOK, SnapshotOK, AnswerOK
<1>8. OrderOK' /\ CycleOK'
  BY <1>1, <1>2, <1>3, <1>4, <1>5 DEF OutboxInv, OrderOK, FirstAttemptsInOrder, CycleOK
<1> QED BY <1>6, <1>7, <1>8 DEF OutboxInv

\* The expirations are written and the first pass takes its snapshot.
LEMMA FirstPassBeginsKeeps == ASSUME OutboxInv, FirstPassBegins PROVE OutboxInv'
<1>1. phase = "expire" /\ phase' = "first" /\ outbox' = outbox /\ batch' = ListPending(outbox')
  BY DEF FirstPassBegins
<1>2. UNCHANGED <<answer, accepted, posted, tried>>
  BY DEF FirstPassBegins, history
<1>3. answer = "none" /\ DOMAIN batch = {}
  BY <1>1 DEF OutboxInv, PhaseOK, Delivering
<1>4. \A e \in Written : IsRow(outbox'[e])
  BY <1>1 DEF OutboxInv, RowsOK
<1>5. \A e \in tried' : outbox'[e].status = "pending" => outbox'[e].dueIn # 0
  BY <1>1, <1>2, <1>3 DEF OutboxInv, CycleOK
<1>6. DOMAIN outbox' = Written
  BY <1>1 DEF Written
<1> QED BY <1>1, <1>2, <1>3, <1>4, <1>5, <1>6, SnapshotTaken

\* The scan is over and the second pass takes its snapshot.
LEMMA ScanEndsKeeps == ASSUME OutboxInv, ScanEnds PROVE OutboxInv'
<1>1. phase = "scan" /\ phase' = "second" /\ outbox' = outbox /\ batch' = ListPending(outbox')
  BY DEF ScanEnds
<1>2. UNCHANGED <<answer, accepted, posted, tried>>
  BY DEF ScanEnds, history
<1>3. answer = "none" /\ DOMAIN batch = {}
  BY <1>1 DEF OutboxInv, PhaseOK, Delivering
<1>4. \A e \in Written : IsRow(outbox'[e])
  BY <1>1 DEF OutboxInv, RowsOK
<1>5. \A e \in tried' : outbox'[e].status = "pending" => outbox'[e].dueIn # 0
  BY <1>1, <1>2, <1>3 DEF OutboxInv, CycleOK
<1>6. DOMAIN outbox' = Written
  BY <1>1 DEF Written
<1> QED BY <1>1, <1>2, <1>3, <1>4, <1>5, <1>6, SnapshotTaken

\* A row is sent that is as the snapshot has it.
LEMMA PostKeeps == ASSUME OutboxInv, Post PROVE OutboxInv'
<1>1. /\ DOMAIN batch # {} /\ answer' = "awaited" /\ answer = "none"
      /\ posted' = posted \cup {Current} /\ tried' = tried \cup {Current}
      /\ Delivering
  BY DEF Post
<1>2. outbox' = outbox /\ phase' = phase /\ batch' = batch /\ accepted' = accepted
  BY DEF Post
<1>3. Current' = Current /\ Written' = Written
  BY <1>2 DEF Current, Written
<1>4. Current \in DOMAIN batch /\ \A f \in DOMAIN batch : Current <= f
  BY <1>1, CurrentIsOldest DEF OutboxInv
<1>5. Current \in Written /\ DOMAIN batch \subseteq Written
  BY <1>4 DEF OutboxInv, SnapshotOK
<1>6. RowsOK' /\ SnapshotOK' /\ DeliveredWasAccepted'
  BY <1>2, <1>3 DEF OutboxInv, RowsOK, SnapshotOK, DeliveredWasAccepted
<1>7. PhaseOK'
  BY <1>1, <1>2 DEF OutboxInv, PhaseOK, Delivering
<1>8. AnswerOK'
  BY <1>1, <1>2, <1>3 DEF AnswerOK
<1>9. HistoryOK'
  BY <1>1, <1>3, <1>5 DEF OutboxInv, HistoryOK
<1>10. OrderOK'
  <2>1. Written \subseteq Nat
    BY DEF OutboxInv, RowsOK
  <2>2. \A f \in Written : f < Current => f \in posted
    BY <1>4, <1>5, <2>1 DEF OutboxInv, OrderOK
  <2> QED BY <1>1, <1>2, <1>3, <2>2 DEF OutboxInv, OrderOK, FirstAttemptsInOrder
<1>11. CycleOK'
  BY <1>1, <1>2, <1>3 DEF OutboxInv, CycleOK
<1> QED BY <1>6, <1>7, <1>8, <1>9, <1>10, <1>11 DEF OutboxInv

\* A delivered row leaves the snapshot.
LEMMA DeliverySucceedsKeeps == ASSUME OutboxInv, DeliverySucceeds PROVE OutboxInv'
<1>1. answer = "ok" /\ batch' = Rest /\ answer' = "none" /\ MarkDelivered(Current)
  BY DEF DeliverySucceeds, Succeeds
<1>2. UNCHANGED <<phase, requests, accepted, history, budgets>>
  BY DEF DeliverySucceeds
<1>3. DOMAIN batch # {} /\ Current \in accepted
  BY <1>1 DEF OutboxInv, AnswerOK
<1>4. Current \in Written
  BY <1>3, CurrentIsOldest DEF OutboxInv, SnapshotOK
<1> DEFINE r == [status |-> "delivered", attempts |-> outbox[Current].attempts + 1,
                 dueIn |-> outbox[Current].dueIn]
<1>5. IsRow(outbox[Current])
  BY <1>4 DEF OutboxInv, RowsOK
<1>6. /\ DOMAIN outbox' = Written /\ outbox'[Current] = r
      /\ \A f \in Written \ {Current} : outbox'[f] = outbox[f]
  BY <1>1, <1>4, <1>5 DEF MarkDelivered, Written, IsRow
<1>7. IsRow(r) /\ r.status = "delivered"
  BY <1>5 DEF IsRow
<1> HIDE DEF r
<1> QED BY <1>1, <1>2, <1>3, <1>6, <1>7, AttemptRecorded

\* A failed row waits, or is given up.
LEMMA DeliveryFailsKeeps == ASSUME OutboxInv, DeliveryFails PROVE OutboxInv'
<1>1. /\ answer # "none" /\ batch' = Rest /\ answer' = "none"
      /\ UNCHANGED <<phase, requests, accepted, history, budgets>>
  BY DEF DeliveryFails
<1>2. DOMAIN batch # {}
  BY <1>1 DEF OutboxInv, AnswerOK
<1>3. Current \in DOMAIN batch
  BY <1>2, CurrentIsOldest DEF OutboxInv
<1>4. /\ Current \in Written /\ outbox[Current].status = "pending"
      /\ outbox[Current].attempts = batch[Current]
  BY <1>3 DEF OutboxInv, SnapshotOK
<1>5. IsRow(outbox[Current])
  BY <1>4 DEF OutboxInv, RowsOK
<1>6. outbox[Current].attempts \in Nat /\ outbox[Current].attempts < MaxAttempts /\ MaxAttempts \in Nat
  BY <1>4, <1>5, OutboxAssumption DEF IsRow
<1>7. CASE Exhausted(batch[Current])
  <2> DEFINE r == [status |-> "dead", attempts |-> outbox[Current].attempts + 1,
                   dueIn |-> outbox[Current].dueIn]
  <2>1. MarkDeadLettered(Current)
    BY <1>7 DEF DeliveryFails
  <2>2. /\ DOMAIN outbox' = Written /\ outbox'[Current] = r
        /\ \A f \in Written \ {Current} : outbox'[f] = outbox[f]
    BY <1>4, <1>5, <2>1 DEF MarkDeadLettered, Written, IsRow
  <2>3. outbox[Current].attempts + 1 = MaxAttempts
    BY <1>4, <1>6, <1>7 DEF Exhausted
  <2>4. IsRow(r) /\ r.status = "dead"
    BY <1>6, <2>3 DEF IsRow
  <2> HIDE DEF r
  <2> QED BY <1>1, <1>2, <2>2, <2>4, AttemptRecorded
<1>8. CASE ~Exhausted(batch[Current])
  <2> DEFINE wait == RetrySeconds(batch[Current])
             r == [status |-> "pending", attempts |-> outbox[Current].attempts + 1, dueIn |-> wait]
  <2>1. MarkFailed(Current, wait)
    BY <1>8 DEF DeliveryFails
  <2>2. wait # 0
    BY RetryIsLater
  <2> HIDE DEF wait
  <2>3. /\ DOMAIN outbox' = Written /\ outbox'[Current] = r
        /\ \A f \in Written \ {Current} : outbox'[f] = outbox[f]
    BY <1>4, <1>5, <2>1 DEF MarkFailed, Written, IsRow
  <2>4. outbox[Current].attempts + 1 < MaxAttempts
    BY <1>4, <1>6, <1>8 DEF Exhausted
  <2>5. IsRow(r) /\ r.status = "pending" /\ r.dueIn # 0
    BY <1>6, <2>2, <2>4 DEF IsRow
  <2> HIDE DEF r
  <2> QED BY <1>1, <1>2, <2>3, <2>5, AttemptRecorded
<1> QED BY <1>7, <1>8

\* Steps that leave the table alone and nothing to send.
LEMMA PassIsOver ==
  ASSUME OutboxInv, UNCHANGED <<outbox, accepted, posted, tried>>,
         DOMAIN batch' = {}, answer' = "none",
         phase' \in {"down", "idle", "scan"},
         phase' = "scan" => phase = "first" /\ answer = "none"
  PROVE  OutboxInv'
<1>1. Written' = Written
  BY DEF Written
<1>2. RowsOK' /\ HistoryOK' /\ OrderOK' /\ DeliveredWasAccepted'
  BY <1>1 DEF OutboxInv, RowsOK, HistoryOK, OrderOK, FirstAttemptsInOrder, DeliveredWasAccepted
<1>3. PhaseOK' /\ SnapshotOK' /\ AnswerOK'
  BY DEF PhaseOK, SnapshotOK, AnswerOK
<1>4. CycleOK'
  BY DEF OutboxInv, CycleOK
<1> QED BY <1>2, <1>3, <1>4 DEF OutboxInv

\* The other steps of a pass leave the rows alone.
LEMMA PassStepsKeep ==
  ASSUME OutboxInv, FirstPassEnds \/ ScanFails \/ SecondPassEnds \/ Restart \/ Crash
  PROVE  OutboxInv'
<1>1. CASE FirstPassEnds
  <2>1. phase = "first" /\ DOMAIN batch = {} /\ answer = "none"
    BY <1>1 DEF FirstPassEnds, OutboxInv, AnswerOK
  <2>2. phase' = "scan" /\ UNCHANGED <<outbox, batch, answer, accepted, posted, tried>>
    BY <1>1 DEF FirstPassEnds, history
  <2> QED BY <2>1, <2>2, PassIsOver
<1>2. CASE ScanFails
  <2>1. phase = "scan" /\ phase' = "idle" /\ UNCHANGED <<outbox, batch, answer, accepted, posted, tried>>
    BY <1>2 DEF ScanFails, history
  <2>2. DOMAIN batch = {} /\ answer = "none"
    BY <2>1 DEF OutboxInv, PhaseOK, Delivering
  <2> QED BY <2>1, <2>2, PassIsOver
<1>3. CASE SecondPassEnds
  <2>1. DOMAIN batch = {} /\ answer = "none"
    BY <1>3 DEF SecondPassEnds, OutboxInv, AnswerOK
  <2>2. phase' = "idle" /\ UNCHANGED <<outbox, batch, answer, accepted, posted, tried>>
    BY <1>3 DEF SecondPassEnds, history
  <2> QED BY <2>1, <2>2, PassIsOver
<1>4. CASE Restart
  <2>1. phase = "down" /\ phase' = "idle" /\ UNCHANGED <<outbox, batch, answer, accepted, posted, tried>>
    BY <1>4 DEF Restart, history
  <2>2. DOMAIN batch = {} /\ answer = "none"
    BY <2>1 DEF OutboxInv, PhaseOK, Delivering
  <2> QED BY <2>1, <2>2, PassIsOver
<1>5. CASE Crash
  <2>1. phase' = "down" /\ answer' = "none" /\ UNCHANGED <<outbox, accepted, posted, tried>>
    BY <1>5 DEF Crash, history
  <2>2. DOMAIN batch' = {}
    BY <1>5 DEF Crash
  <2> QED BY <2>1, <2>2, PassIsOver
<1> QED BY <1>1, <1>2, <1>3, <1>4, <1>5

\* A new event is younger than all others.
LEMMA WriteEventKeeps == ASSUME OutboxInv, WriteEvent PROVE OutboxInv'
<1> DEFINE n == Cardinality(Written)
<1>1. n \in Nat /\ Written = 1..n /\ \A e \in Written : IsRow(outbox[e])
  BY DEF OutboxInv, RowsOK
<1>2. phase \in {"expire", "scan"} /\ outbox' = [e \in 1..(n + 1) |-> IF e \in Written THEN outbox[e] ELSE Fresh]
  BY DEF WriteEvent, InsertEvent
<1>3. UNCHANGED <<phase, batch, answer, accepted, posted, tried>>
  BY DEF WriteEvent, daemonVars, history
<1>4. DOMAIN batch = {} /\ answer = "none"
  BY <1>2 DEF OutboxInv, PhaseOK, Delivering
<1>5. n + 1 \in Nat /\ Cardinality(1..(n + 1)) = n + 1
  BY <1>1, FS_Interval
<1>6. posted \subseteq Written /\ tried \subseteq Written
  BY DEF OutboxInv, HistoryOK
<1> HIDE DEF n
<1>7. /\ Written' = 1..(n + 1) /\ Written \subseteq Written'
      /\ \A e \in Written : outbox'[e] = outbox[e]
      /\ \A e \in Written' : e \notin Written => e = n + 1 /\ outbox'[e] = Fresh
  <2>1. Written' = 1..(n + 1)
    BY <1>2 DEF Written
  <2>2. 1..n \subseteq 1..(n + 1) /\ \A e \in 1..(n + 1) : e \notin 1..n => e = n + 1
    BY <1>1
  <2> QED BY <1>1, <1>2, <2>1, <2>2
<1>8. RowsOK'
  <2>1. Cardinality(Written') = n + 1
    BY <1>5, <1>7
  <2>2. \A e \in Written' : IsRow(outbox'[e])
    BY <1>1, <1>7, FreshIsRow
  <2> QED BY <1>5, <1>7, <2>1, <2>2 DEF RowsOK
<1>9. PhaseOK' /\ SnapshotOK' /\ AnswerOK'
  BY <1>3, <1>4, <1>2 DEF PhaseOK, SnapshotOK, AnswerOK, Delivering
<1>10. HistoryOK'
  BY <1>3, <1>7 DEF OutboxInv, HistoryOK
<1>11. OrderOK'
  <2>1. \A e \in posted : ~(n + 1 < e)
    BY <1>1, <1>6
  <2>2. FirstAttemptsInOrder'
    BY <1>3, <1>7, <2>1 DEF OutboxInv, OrderOK, FirstAttemptsInOrder
  <2>3. \A e \in Written' \ posted' : outbox'[e] = Fresh
    BY <1>3, <1>7 DEF OutboxInv, OrderOK
  <2> QED BY <1>3, <1>4, <2>2, <2>3 DEF OrderOK
<1>12. CycleOK'
  <2>1. Current' = Current
    BY <1>3 DEF Current
  <2> QED BY <1>2, <1>3, <1>6, <1>7, <2>1 DEF OutboxInv, CycleOK
<1>13. DeliveredWasAccepted'
  BY <1>3, <1>7, FreshIsRow DEF OutboxInv, DeliveredWasAccepted
<1> QED BY <1>8, <1>9, <1>10, <1>11, <1>12, <1>13 DEF OutboxInv

\* A replay makes a dead row fresh.
LEMMA ReplayKeeps ==
  ASSUME OutboxInv, NEW e \in Written, NEW lag \in 0..1, Replay(e, lag)
  PROVE  OutboxInv'
<1>1. outbox[e].status = "dead" /\ tried' = tried \ {e}
  BY DEF Replay, Replayable
<1>2. UNCHANGED <<phase, batch, answer, accepted, posted>>
  BY DEF Replay, daemonVars
<1> DEFINE r == [status |-> "pending", attempts |-> 0, dueIn |-> lag]
<1>3. IsRow(r) /\ r.status = "pending"
  BY OutboxAssumption DEF IsRow
<1>4. /\ Written' = Written /\ outbox'[e] = r
      /\ \A f \in Written \ {e} : outbox'[f] = outbox[f]
  BY DEF Replay, Fresh, Written
<1>5. e \notin DOMAIN batch /\ e \in posted /\ Current' = Current
  <2>1. outbox[e] # Fresh
    BY <1>1, FreshIsRow
  <2> QED BY <1>1, <1>2, <2>1 DEF OutboxInv, SnapshotOK, OrderOK, Current
<1> HIDE DEF r
<1>6. RowsOK' /\ DeliveredWasAccepted'
  BY <1>2, <1>3, <1>4 DEF OutboxInv, RowsOK, DeliveredWasAccepted
<1>7. PhaseOK' /\ SnapshotOK' /\ AnswerOK'
  BY <1>2, <1>4, <1>5 DEF OutboxInv, PhaseOK, SnapshotOK, AnswerOK, Delivering
<1>8. HistoryOK' /\ OrderOK'
  BY <1>1, <1>2, <1>4, <1>5 DEF OutboxInv, HistoryOK, OrderOK, FirstAttemptsInOrder
<1>9. CycleOK'
  BY <1>1, <1>2, <1>4, <1>5 DEF OutboxInv, CycleOK, HistoryOK
<1> QED BY <1>6, <1>7, <1>8, <1>9 DEF OutboxInv

\* An answer counts also when nobody awaits it any more.
LEMMA AnswerKeeps ==
  ASSUME OutboxInv, NEW r \in requests, NEW ok \in BOOLEAN, Answer(r, ok)
  PROVE  OutboxInv'
<1>1. UNCHANGED <<outbox, phase, batch, posted, tried>>
  BY DEF Answer, history
<1>2. Current' = Current /\ Written' = Written /\ Delivering' = Delivering
  BY <1>1 DEF Current, Written, Delivering
<1>3. accepted \subseteq accepted'
  BY DEF Answer
<1>4. answer' = "none" <=> answer = "none"
  BY DEF Answer
<1>5. answer' = "ok" => answer = "ok" \/ (r = Request /\ accepted' = accepted \cup {r.event})
  BY DEF Answer
<1>6. RowsOK' /\ PhaseOK' /\ SnapshotOK' /\ HistoryOK' /\ OrderOK'
  BY <1>1, <1>2, <1>4
  DEF OutboxInv, RowsOK, PhaseOK, SnapshotOK, HistoryOK, OrderOK, FirstAttemptsInOrder
<1>7. AnswerOK'
  <2>1. r = Request => r.event = Current
    BY DEF Request
  <2> QED BY <1>1, <1>2, <1>3, <1>4, <1>5, <2>1 DEF OutboxInv, AnswerOK
<1>8. CycleOK' /\ DeliveredWasAccepted'
  BY <1>1, <1>2, <1>3, <1>4 DEF OutboxInv, CycleOK, DeliveredWasAccepted
<1> QED BY <1>6, <1>7, <1>8 DEF OutboxInv

\* A step that changes nothing keeps the invariant.
LEMMA StutterKeeps == ASSUME OutboxInv, UNCHANGED vars PROVE OutboxInv'
<1>1. UNCHANGED <<outbox, phase, batch, answer, accepted, posted, tried>>
  BY DEF vars, daemonVars, history
<1>2. Current' = Current /\ Written' = Written /\ Delivering' = Delivering
  BY <1>1 DEF Current, Written, Delivering
<1>3. RowsOK' /\ PhaseOK' /\ SnapshotOK' /\ AnswerOK' /\ HistoryOK'
  BY <1>1, <1>2 DEF OutboxInv, RowsOK, PhaseOK, SnapshotOK, AnswerOK, HistoryOK
<1>4. OrderOK' /\ CycleOK' /\ DeliveredWasAccepted'
  BY <1>1, <1>2 DEF OutboxInv, OrderOK, FirstAttemptsInOrder, CycleOK, DeliveredWasAccepted
<1> QED BY <1>3, <1>4 DEF OutboxInv

\* Every step preserves the invariant.
LEMMA NextKeeps == OutboxInv /\ [Next]_vars => OutboxInv'
<1> SUFFICES ASSUME OutboxInv, [Next]_vars PROVE OutboxInv'
  OBVIOUS
<1>1. CASE DaemonStep
  BY <1>1, StartCycleKeeps, PostKeeps, DeliverySucceedsKeeps, DeliveryFailsKeeps,
     FirstPassBeginsKeeps, PassStepsKeep DEF DaemonStep
<1>2. CASE EnvironmentStep
  BY <1>2, PassStepsKeep, ReplayKeeps DEF EnvironmentStep
<1>3. CASE WriteEvent
  BY <1>3, WriteEventKeeps
<1>4. CASE \E r \in requests, ok \in BOOLEAN : Answer(r, ok)
  BY <1>4, AnswerKeeps
<1>5. CASE UNCHANGED vars
  BY <1>5, StutterKeeps
<1>6. CASE ScanReturns
  BY <1>6, ScanEndsKeeps, PassStepsKeep DEF ScanReturns
<1> QED BY <1>1, <1>2, <1>3, <1>4, <1>5, <1>6 DEF Next

\* The invariant of the outbox.
LEMMA InvariantHolds == Spec => []OutboxInv
BY InitIsGood, NextKeeps, PTL DEF Spec

-----------------------------------------------------------------------------
(***************************************************************************)
(* Theorems                                                                *)
(***************************************************************************)
\* An event is marked delivered only after the receiver has accepted it, though
\* answers of earlier attempts and of an earlier process may still arrive.
THEOREM DeliveredMeansAccepted == Spec => []DeliveredWasAccepted
<1>1. OutboxInv => DeliveredWasAccepted
  BY DEF OutboxInv
<1> QED BY <1>1, InvariantHolds, PTL

\* No event is sent for the first time before an older one, whatever the size
\* of a batch and however retries and crashes cut the passes.
THEOREM SentInOrder == Spec => []FirstAttemptsInOrder
<1>1. OutboxInv => FirstAttemptsInOrder
  BY DEF OutboxInv, OrderOK
<1> QED BY <1>1, InvariantHolds, PTL

\* Every event gets its maxAttempts attempts, no more and no fewer, at most one
\* of them in a scan cycle unless an operator replays it.
THEOREM EveryAttemptIsMetered == Spec => []RetriesAreMetered
<1>1. OutboxInv => GivenUpWhenExhausted
  BY DEF OutboxInv, RowsOK, IsRow, GivenUpWhenExhausted
<1>2. OutboxInv => OneAttemptPerCycle
  BY DEF OutboxInv, CycleOK, OneAttemptPerCycle
<1> QED BY <1>1, <1>2, InvariantHolds, PTL DEF RetriesAreMetered

\* A delivered row stays delivered: what an attempt records goes to a pending
\* row, an operator replays dead ones only.
THEOREM DeliveredRowsStay == Spec => DeliveredIsFinal
<1>1. ASSUME OutboxInv, [Next]_vars, NEW e \in Written, outbox[e].status = "delivered"
      PROVE  outbox'[e].status = "delivered"
  <2>1. \A f \in Written : IsRow(outbox[f])
    BY <1>1 DEF OutboxInv, RowsOK
  <2>2. CASE \E d \in 1..MaxPause : StartCycle(d)
    <3>1. PICK d \in 1..MaxPause : StartCycle(d)
      BY <2>2
    <3>2. outbox'[e] = [outbox[e] EXCEPT !.dueIn = Larger(0, @ - d)]
      BY <3>1 DEF StartCycle, Elapse
    <3> QED BY <1>1, <2>1, <3>2 DEF IsRow
  <2>3. CASE DeliverySucceeds \/ DeliveryFails
    <3>1. answer # "none"
      BY <2>3 DEF DeliverySucceeds, DeliveryFails, Succeeds
    <3>2. Current \in DOMAIN batch
      BY <1>1, <3>1, CurrentIsOldest DEF OutboxInv, AnswerOK
    <3>3. outbox[Current].status = "pending" /\ Current # e /\ Current \in Written
      BY <1>1, <3>2 DEF OutboxInv, SnapshotOK
    <3>4. outbox'[e] = outbox[e]
      BY <2>1, <2>3, <3>3
      DEF DeliverySucceeds, DeliveryFails, MarkDelivered, MarkFailed, MarkDeadLettered, Written, IsRow
    <3> QED BY <1>1, <3>4
  <2>4. CASE WriteEvent
    <3>1. Cardinality(Written) \in Nat /\ Written = 1..Cardinality(Written)
      BY <1>1 DEF OutboxInv, RowsOK
    <3>2. e \in 1..(Cardinality(Written) + 1)
      BY <3>1
    <3>3. outbox'[e] = outbox[e]
      BY <2>4, <3>2 DEF WriteEvent, InsertEvent
    <3> QED BY <1>1, <3>3
  <2>5. CASE \E f \in Written, lag \in 0..1 : Replay(f, lag)
    <3>1. PICK f \in Written, lag \in 0..1 : Replay(f, lag)
      BY <2>5
    <3>2. f # e
      BY <1>1, <3>1 DEF Replay, Replayable
    <3>3. outbox'[e] = outbox[e]
      BY <3>1, <3>2 DEF Replay, Written
    <3> QED BY <1>1, <3>3
  <2>6. CASE UNCHANGED outbox
    BY <1>1, <2>6
  <2>7. CASE \/ Post \/ FirstPassBegins \/ FirstPassEnds \/ ScanEnds \/ ScanFails
             \/ SecondPassEnds \/ Restart \/ Crash
             \/ (\E r \in requests, ok \in BOOLEAN : Answer(r, ok)) \/ UNCHANGED vars
    <3>1. UNCHANGED outbox
      BY <2>7
      DEF Post, FirstPassBegins, FirstPassEnds, ScanEnds, ScanFails, SecondPassEnds, Restart, Crash,
          Answer, vars
    <3> QED BY <2>6, <3>1
  <2> QED BY <1>1, <2>2, <2>3, <2>4, <2>5, <2>7
      DEF Next, DaemonStep, ScanReturns, EnvironmentStep
<1>2. OutboxInv /\ [Next]_vars
        => [\A e \in Written : outbox[e].status = "delivered" => outbox'[e].status = "delivered"]_vars
  BY <1>1
<1> QED BY <1>2, InvariantHolds, PTL DEF Spec, DeliveredIsFinal

-----------------------------------------------------------------------------
(***************************************************************************)
(* The merchant                                                            *)
(***************************************************************************)
RequestsOK == \A r \in requests : r.event \in posted

ReceiptsOK == receipts \in Seq(Nat) /\ Recorded \subseteq Written

InOrder == \A j, k \in DOMAIN receipts : j < k => receipts[j] < receipts[k]

\* What the merchant has seen last of the payment is the reversion of event e.
LastSeenReverted(e) ==
  /\ payload[e].type = "payment.reverted"
  /\ \A f \in Recorded : f > e => payload[f].type # "payment.confirmed"

ReviewOK == InOrder => \A e \in Recorded : LastSeenReverted(e) => orderStatus = "needs_review"

MerchantInv ==
  /\ OutboxInv
  /\ RequestsOK
  /\ ReceiptsOK
  /\ DOMAIN payload = Written
  /\ accepted \subseteq Recorded
  /\ shipped \in {0, 1}
  /\ ReviewOK

\* A receipt is added at the end.
LEMMA ReceiptAdded ==
  ASSUME receipts \in Seq(Nat), NEW e \in Nat, receipts' = Append(receipts, e)
  PROVE  /\ receipts' \in Seq(Nat)
         /\ Recorded' = Recorded \cup {e}
         /\ InOrder' => InOrder /\ \A g \in Recorded : g < e
<1>1. /\ receipts' \in Seq(Nat) /\ Len(receipts') = Len(receipts) + 1
      /\ \A i \in 1..Len(receipts) : receipts'[i] = receipts[i]
      /\ receipts'[Len(receipts) + 1] = e
  BY AppendProperties
<1>2. Len(receipts) \in Nat /\ DOMAIN receipts = 1..Len(receipts) /\ DOMAIN receipts' = 1..(Len(receipts) + 1)
  BY <1>1, LenProperties
<1> DEFINE n == Len(receipts)
<1>3. 1..(n + 1) = 1..n \cup {n + 1} /\ \A i \in 1..n : i < n + 1
  BY <1>2
<1> HIDE DEF n
<1>4. Recorded' = Recorded \cup {e}
  BY <1>1, <1>2, <1>3 DEF Recorded, ToSet, n
<1>5. ASSUME InOrder'
      PROVE  InOrder /\ \A g \in Recorded : g < e
  <2>1. \A j, k \in 1..(n + 1) : j < k => receipts'[j] < receipts'[k]
    BY <1>2, <1>5 DEF InOrder, n
  <2>2. \A j \in 1..n : receipts[j] < e
    BY <1>1, <1>3, <2>1 DEF n
  <2>3. InOrder
    BY <1>1, <1>2, <1>3, <2>1 DEF InOrder, n
  <2> QED BY <1>2, <2>2, <2>3 DEF Recorded, ToSet, n
<1> QED BY <1>1, <1>4, <1>5

\* No event, no receipt, no order.
LEMMA MerchantInitIsGood == MerchantInit => MerchantInv
<1> SUFFICES ASSUME MerchantInit PROVE MerchantInv
  OBVIOUS
<1>1. OutboxInv
  BY InitIsGood DEF MerchantInit
<1>2. Written = {} /\ DOMAIN payload = {} /\ requests = {} /\ accepted = {} /\ shipped = 0
  BY DEF MerchantInit, Init, Written
<1>3. receipts = <<>> /\ DOMAIN receipts = {} /\ receipts \in Seq(Nat)
  BY EmptySeq DEF MerchantInit
<1>4. Recorded = {}
  BY <1>3 DEF Recorded, ToSet
<1> QED BY <1>1, <1>2, <1>3, <1>4 DEF MerchantInv, RequestsOK, ReceiptsOK, ReviewOK

\* What a step of the outbox alone keeps: the merchant's tables say of the
\* events written so far what they said before.
LEMMA OutboxStepKeeps ==
  ASSUME MerchantInv, OutboxInv', RequestsOK',
         Written \subseteq Written', DOMAIN payload' = Written',
         \A e \in Written : payload'[e] = payload[e],
         UNCHANGED <<accepted, receipts, orderStatus, shipped>>
  PROVE  MerchantInv'
<1>1. Recorded' = Recorded /\ Recorded \subseteq Written
  BY DEF MerchantInv, ReceiptsOK, Recorded
<1>2. ReceiptsOK'
  BY <1>1 DEF MerchantInv, ReceiptsOK
<1>3. InOrder' <=> InOrder
  BY DEF InOrder
<1>4. \A e \in Recorded : LastSeenReverted(e)' => LastSeenReverted(e)
  BY <1>1 DEF LastSeenReverted
<1>5. ReviewOK'
  BY <1>1, <1>3, <1>4 DEF MerchantInv, ReviewOK
<1> QED BY <1>1, <1>2, <1>5 DEF MerchantInv

\* A step of the daemon or of its environment leaves the payloads alone; only a
\* sent event becomes a request.
LEMMA DaemonStepKeeps ==
  ASSUME MerchantInv, DaemonStep \/ ScanReturns \/ EnvironmentStep, UNCHANGED <<intentVars, merchantVars>>
  PROVE  MerchantInv'
<1>1. OutboxInv'
  BY NextKeeps DEF MerchantInv, Next
<1>2. UNCHANGED <<payload, receipts, orderStatus, shipped>>
  BY DEF intentVars, merchantVars
<1>3. CASE \E d \in 1..MaxPause : StartCycle(d)
  <2>1. UNCHANGED <<requests, posted, accepted>> /\ Written' = Written
    BY <1>3 DEF StartCycle, Elapse, Written
  <2>2. RequestsOK'
    BY <2>1 DEF MerchantInv, RequestsOK
  <2> QED BY <1>1, <1>2, <2>1, <2>2, OutboxStepKeeps DEF MerchantInv
<1>4. CASE Post
  <2>1. /\ requests' = requests \cup {Request} /\ posted' = posted \cup {Current}
        /\ UNCHANGED <<outbox, accepted>> /\ Request.event = Current
    BY <1>4 DEF Post, Request
  <2>2. RequestsOK' /\ Written' = Written
    BY <2>1 DEF MerchantInv, RequestsOK, Written
  <2> QED BY <1>1, <1>2, <2>1, <2>2, OutboxStepKeeps DEF MerchantInv
<1>5. CASE DeliverySucceeds \/ DeliveryFails
  <2>1. UNCHANGED <<requests, posted, accepted>> /\ Written' = Written
    BY <1>5
    DEF DeliverySucceeds, DeliveryFails, history, MarkDelivered, MarkFailed, MarkDeadLettered, Written
  <2>2. RequestsOK'
    BY <2>1 DEF MerchantInv, RequestsOK
  <2> QED BY <1>1, <1>2, <2>1, <2>2, OutboxStepKeeps DEF MerchantInv
<1>6. CASE FirstPassBegins \/ FirstPassEnds \/ ScanEnds \/ ScanFails \/ SecondPassEnds \/ Restart \/ Crash
  <2>1. UNCHANGED <<outbox, requests, posted, accepted>>
    BY <1>6
    DEF FirstPassBegins, FirstPassEnds, ScanEnds, ScanFails, SecondPassEnds, Restart, Crash, history
  <2>2. RequestsOK' /\ Written' = Written
    BY <2>1 DEF MerchantInv, RequestsOK, Written
  <2> QED BY <1>1, <1>2, <2>1, <2>2, OutboxStepKeeps DEF MerchantInv
<1>7. CASE \E e \in Written, lag \in 0..1 : Replay(e, lag)
  <2>1. UNCHANGED <<requests, posted, accepted>> /\ Written' = Written
    BY <1>7 DEF Replay, Written
  <2>2. RequestsOK'
    BY <2>1 DEF MerchantInv, RequestsOK
  <2> QED BY <1>1, <1>2, <2>1, <2>2, OutboxStepKeeps DEF MerchantInv
<1> QED BY <1>3, <1>4, <1>5, <1>6, <1>7 DEF DaemonStep, ScanReturns, EnvironmentStep

\* A rebuild writes the event of the change.
LEMMA RebuildKeeps == ASSUME MerchantInv, NEW next, Rebuild(next) PROVE MerchantInv'
<1>1. UNCHANGED <<receipts, orderStatus, shipped>>
  BY DEF Rebuild, merchantVars
<1>2. CASE EventTypes(intentStatus, next) = {}
  <2>1. UNCHANGED vars /\ payload' = payload
    BY <1>2 DEF Rebuild
  <2>2. OutboxInv'
    BY <2>1, NextKeeps DEF MerchantInv
  <2>3. UNCHANGED <<outbox, requests, posted, accepted>>
    BY <2>1 DEF vars, history
  <2>4. RequestsOK' /\ Written' = Written
    BY <2>3 DEF MerchantInv, RequestsOK, Written
  <2> QED BY <1>1, <2>1, <2>2, <2>3, <2>4, OutboxStepKeeps DEF MerchantInv
<1>3. CASE EventTypes(intentStatus, next) # {}
  <2>1. WriteEvent
    BY <1>3 DEF Rebuild
  <2>2. PICK type : payload' = [e \in DOMAIN outbox' |->
                                  IF e \in Written THEN payload[e]
                                  ELSE [type |-> type, intentStatus |-> next]]
    BY <1>3 DEF Rebuild
  <2>3. OutboxInv'
    BY <2>1, NextKeeps DEF MerchantInv, Next
  <2>4. UNCHANGED <<requests, posted, accepted>>
    BY <2>1 DEF WriteEvent, history
  <2>5. Written \subseteq Written'
    <3> DEFINE n == Cardinality(Written)
    <3>1. n \in Nat /\ Written = 1..n
      BY DEF MerchantInv, OutboxInv, RowsOK
    <3>2. Written' = 1..(n + 1)
      BY <2>1 DEF WriteEvent, InsertEvent, Written
    <3> HIDE DEF n
    <3> QED BY <3>1, <3>2
  <2>6. DOMAIN payload' = Written' /\ \A e \in Written : payload'[e] = payload[e]
    BY <2>2, <2>5 DEF Written
  <2>7. RequestsOK'
    BY <2>4 DEF MerchantInv, RequestsOK
  <2> QED BY <1>1, <2>3, <2>4, <2>5, <2>6, <2>7, OutboxStepKeeps
<1> QED BY <1>2, <1>3

\* Linking the order to the intent touches nothing the invariant is about.
LEMMA LinkKeeps == ASSUME MerchantInv, Link PROVE MerchantInv'
<1>1. UNCHANGED <<vars, payload, receipts, orderStatus, shipped>>
  BY DEF Link, intentVars
<1>2. OutboxInv'
  BY <1>1, NextKeeps DEF MerchantInv
<1>3. UNCHANGED <<outbox, requests, posted, accepted>>
  BY <1>1 DEF vars, history
<1>4. RequestsOK' /\ Written' = Written
  BY <1>3 DEF MerchantInv, RequestsOK, Written
<1> QED BY <1>1, <1>2, <1>3, <1>4, OutboxStepKeeps DEF MerchantInv

\* The update of the order ships it only if it has not been shipped, and sends
\* a reversion to review.
LEMMA ApplyFacts ==
  ASSUME NEW event, Apply(event), shipped \in {0, 1}
  PROVE  /\ shipped' \in {0, 1}
         /\ event.type = "payment.reverted" => orderStatus' = "needs_review"
         /\ orderStatus = "needs_review" /\ event.type # "payment.confirmed"
              => orderStatus' = "needs_review"
BY DEF Apply, Unfulfilled, ReviewsReverted

\* The shop records an event once and answers.
LEMMA AcceptKeeps == ASSUME MerchantInv, NEW r \in requests, Accept(r) PROVE MerchantInv'
<1> DEFINE e == r.event
<1>1. Acceptable(e) \in BOOLEAN /\ Answer(r, Acceptable(e))
  BY DEF Accept, Acceptable
<1>2. OutboxInv'
  <2>1. \E ok \in BOOLEAN : Answer(r, ok)
    BY <1>1
  <2> QED BY <2>1, NextKeeps DEF MerchantInv, Next
<1>3. UNCHANGED <<outbox, posted, payload>> /\ requests' \subseteq requests
  BY DEF Accept, Answer, history, intentVars
<1>4. Written' = Written /\ RequestsOK'
  BY <1>3 DEF MerchantInv, RequestsOK, Written
<1>5. e \in Written /\ e \in Nat
  BY DEF MerchantInv, RequestsOK, OutboxInv, HistoryOK, RowsOK
<1>6. accepted' \subseteq accepted \cup {e} /\ (accepted' = accepted \/ Acceptable(e))
  BY <1>1 DEF Answer
<1> HIDE DEF e
<1>7. CASE linked /\ e \notin Recorded
  <2>1. receipts' = Append(receipts, e) /\ Apply(payload[e])
    BY <1>7 DEF Accept, e
  <2>2. /\ receipts' \in Seq(Nat) /\ Recorded' = Recorded \cup {e}
        /\ InOrder' => InOrder /\ \A g \in Recorded : g < e
    BY <1>5, <2>1, ReceiptAdded DEF MerchantInv, ReceiptsOK
  <2>3. /\ shipped' \in {0, 1}
        /\ payload[e].type = "payment.reverted" => orderStatus' = "needs_review"
        /\ orderStatus = "needs_review" /\ payload[e].type # "payment.confirmed"
             => orderStatus' = "needs_review"
    BY <2>1, ApplyFacts DEF MerchantInv
  <2>4. ReceiptsOK' /\ accepted' \subseteq Recorded'
    BY <1>4, <1>5, <1>6, <2>2 DEF MerchantInv, ReceiptsOK
  <2>5. ReviewOK'
    <3> SUFFICES ASSUME InOrder', NEW g \in Recorded', LastSeenReverted(g)'
                 PROVE  orderStatus' = "needs_review"
      BY DEF ReviewOK
    <3>1. CASE g = e
      BY <1>3, <2>3, <3>1 DEF LastSeenReverted
    <3>2. CASE g # e
      <4>1. g \in Recorded /\ g < e /\ g \in Nat
        BY <2>2, <3>2 DEF MerchantInv, ReceiptsOK, OutboxInv, RowsOK
      <4>2. LastSeenReverted(g) /\ payload[e].type # "payment.confirmed"
        BY <1>3, <1>5, <2>2, <4>1 DEF LastSeenReverted
      <4>3. orderStatus = "needs_review"
        BY <2>2, <4>1, <4>2 DEF MerchantInv, ReviewOK
      <4> QED BY <2>3, <4>2, <4>3
    <3> QED BY <3>1, <3>2
  <2> QED BY <1>2, <1>3, <1>4, <2>3, <2>4, <2>5 DEF MerchantInv
<1>8. CASE ~(linked /\ e \notin Recorded)
  <2>1. UNCHANGED <<receipts, orderStatus, shipped>>
    BY <1>8 DEF Accept, e
  <2>2. Recorded' = Recorded
    BY <2>1 DEF Recorded
  <2>3. accepted' \subseteq Recorded'
    BY <1>6, <1>8, <2>2 DEF MerchantInv, Acceptable
  <2>4. ReceiptsOK' /\ ReviewOK'
    BY <1>3, <1>4, <2>1, <2>2 DEF MerchantInv, ReceiptsOK, ReviewOK, InOrder, LastSeenReverted
  <2> QED BY <1>2, <1>3, <1>4, <2>1, <2>3, <2>4 DEF MerchantInv
<1> QED BY <1>7, <1>8

\* Every step of the composition preserves the invariant.
LEMMA MerchantNextKeeps == MerchantInv /\ [MerchantNext]_allVars => MerchantInv'
<1> SUFFICES ASSUME MerchantInv, [MerchantNext]_allVars PROVE MerchantInv'
  OBVIOUS
<1>1. CASE UNCHANGED allVars
  <2>1. UNCHANGED <<vars, payload, receipts, orderStatus, shipped>>
    BY <1>1 DEF allVars, intentVars, merchantVars
  <2>2. OutboxInv'
    BY <2>1, NextKeeps DEF MerchantInv
  <2>3. UNCHANGED <<outbox, requests, posted, accepted>>
    BY <2>1 DEF vars, history
  <2>4. RequestsOK' /\ Written' = Written
    BY <2>3 DEF MerchantInv, RequestsOK, Written
  <2> QED BY <2>1, <2>2, <2>3, <2>4, OutboxStepKeeps DEF MerchantInv
<1> QED BY <1>1, DaemonStepKeeps, RebuildKeeps, LinkKeeps, AcceptKeeps DEF MerchantNext

\* The invariant of the outbox is kept with this merchant as the receiver and
\* the reconciler as the writer, and the merchant's tables agree with it.
THEOREM MerchantInvariance == MerchantSpec => []MerchantInv
BY MerchantInitIsGood, MerchantNextKeeps, PTL DEF MerchantSpec

\* The order is shipped once at most, however often its payment is confirmed,
\* reverted, confirmed again, delivered again or replayed.
THEOREM ShippedOnce == MerchantSpec => []FulfilledOnce
<1>1. MerchantInv => FulfilledOnce
  BY DEF MerchantInv, FulfilledOnce
<1> QED BY <1>1, MerchantInvariance, PTL

\* A row crossed off as delivered is in the merchant's table of receipts: the
\* sender believes an answer only, and an answer follows the receipt.
THEOREM DeliveredMeansRecorded == MerchantSpec => []DeliveredIsRecorded
<1>1. MerchantInv => DeliveredIsRecorded
  BY DEF MerchantInv, OutboxInv, DeliveredWasAccepted, DeliveredIsRecorded
<1> QED BY <1>1, MerchantInvariance, PTL

\* Whoever has seen the events in their order and a reversion last has the order
\* in review; retries, duplicates and replays do not change that.
THEOREM RevertedIsReviewed == MerchantSpec => []RevertedGoToReviewInOrder
<1>1. ASSUME MerchantInv PROVE RevertedGoToReviewInOrder
  <2> SUFFICES ASSUME InOrder, RevertedForGood PROVE orderStatus = "needs_review"
    BY DEF RevertedGoToReviewInOrder, RevertedGoToReview, InOrder
  <2>1. PICK e \in Recorded : /\ payload[e].type = "payment.reverted"
                              /\ \A f \in Written : f > e => payload[f].type # "payment.confirmed"
    BY DEF RevertedForGood
  <2>2. LastSeenReverted(e)
    BY <1>1, <2>1 DEF LastSeenReverted, MerchantInv, ReceiptsOK
  <2> QED BY <1>1, <2>2 DEF MerchantInv, ReviewOK
<1> QED BY <1>1, MerchantInvariance, PTL

\* The outbox delivers to this merchant as it does to any receiver, and the
\* reconciler writes its events as any writer: every behaviour is one of Spec,
\* and whatever holds of the outbox alone holds here.
THEOREM MerchantIsAReceiver == MerchantSpec => Spec
<1>1. MerchantInit => Init
  BY DEF MerchantInit
<1>2. ASSUME [MerchantNext]_allVars PROVE [Next]_vars
  <2>1. CASE DaemonStep \/ ScanReturns \/ EnvironmentStep
    BY <2>1 DEF Next
  <2>2. CASE \E next : Rebuild(next)
    BY <2>2 DEF Rebuild, Next
  <2>3. CASE Link \/ UNCHANGED allVars
    BY <2>3 DEF Link, allVars
  <2>4. CASE \E r \in requests : Accept(r)
    <3>1. PICK r \in requests : Accept(r)
      BY <2>4
    <3>2. Acceptable(r.event) \in BOOLEAN /\ Answer(r, Acceptable(r.event))
      BY <3>1 DEF Accept, Acceptable
    <3>3. \E ok \in BOOLEAN : Answer(r, ok)
      BY <3>2
    <3> QED BY <3>3 DEF Next
  <2> QED BY <1>2, <2>1, <2>2, <2>3, <2>4 DEF MerchantNext
<1> QED BY <1>1, <1>2, PTL DEF MerchantSpec, Spec
=============================================================================
