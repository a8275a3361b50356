---------------------------- MODULE PayerProofs -----------------------------
(***************************************************************************)
(* Proofs about Payer, for any number of runs, intents and notes.  Every   *)
(* journal operation lets a journal grow: no record disappears, changes    *)
(* its mode, its notes or a hash it has, or changes at all once closed.    *)
(* A write that replaces the journal it started from is such a growth, so  *)
(* what was on record before a transaction left stays on record.  The      *)
(* second half is about what the records say: as long as nothing was       *)
(* overwritten, a write is its operation in one step.                      *)
(***************************************************************************)
EXTENDS Payer, TLAPS, SequenceTheorems

RecordOK(record) ==
  /\ record \in Records
  /\ Len(record.attempts) <= MaxRetries
  /\ record.mode = "SELF_SIGNED" => record.hash # NoTx /\ record.status # "REJECTED"
  /\ record.mode = "BROADCASTER" =>
       (record.hash = NoTx <=> record.status \in {"SUBMITTING", "REJECTED"})

JournalOK(j) == DOMAIN j \subseteq Intents /\ \A i \in DOMAIN j : RecordOK(j[i])

Closed(record) == record.status \in {"MINED", "REVERTED", "REJECTED"}

Continues(old, new) ==
  /\ new.mode = old.mode /\ new.notes = old.notes
  /\ old.hash # NoTx => new.hash = old.hash
  /\ Closed(old) => new = old

Grows(j, k) == DOMAIN j \subseteq DOMAIN k /\ \A i \in DOMAIN j : Continues(j[i], k[i])

\* The transaction can be found again from the journal.
Recorded(j, t) ==
  /\ t.intent \in DOMAIN j
  /\ j[t.intent].mode = t.mode
  /\ IF t.mode = "SELF_SIGNED" THEN j[t.intent].hash = t ELSE j[t.intent].notes = t.notes

Jobs == [cmd : TransferCommands \cup {"recover"}, intent : Intents,
         notes : SUBSET Notes, hash : Transactions \cup {NoTx}]

Transfers(r) == job[r].cmd \in TransferCommands

\* What a run has decided so far fits where it is.
JobsFit ==
  /\ DOMAIN job = Runs /\ DOMAIN pending = Runs
  /\ \A r \in Runs :
       /\ pc[r] # "idle" => job[r] \in Jobs
       /\ pc[r] \in {"check", "prove", "reserve", "send", "answer"} => Transfers(r)
       /\ pc[r] \in {"reserve", "send", "answer"} => job[r].notes # {}
       /\ pc[r] \in {"submitted", "receipt"} => job[r].hash # NoTx

\* A journal about to be written has grown from the one that was read.
WritesGrow ==
  \A r \in Runs : pc[r] = "write" =>
    /\ JournalOK(pending[r].next)
    /\ Grows(pending[r].base, pending[r].next)
    /\ pending[r].then \in {"send", "lookup", "receipt", "end"}
    /\ pending[r].then = "send" =>
         Transfers(r) /\ job[r].notes # {} /\ Recorded(pending[r].next, TxOf(r))
    /\ pending[r].then = "receipt" => job[r].hash # NoTx

NotesAreSpentOnce ==
  /\ \A t \in sent : t.notes # {}
  /\ \A t, u \in mined : t # u => t.notes \cap u.notes = {}

ReservedBeforeSending ==
  ~overwritten => \A r \in Runs : pc[r] = "send" => Recorded(journal, TxOf(r))

IInv ==
  /\ TypeOK
  /\ JobsFit
  /\ WritesGrow
  /\ NotesAreSpentOnce
  /\ ReservedBeforeSending
  /\ WriteAheadUnlessOverwritten

(***************************************************************************)
(* The journal operations                                                  *)
(***************************************************************************)
\* Settling attempts with an outcome keeps them attempts, and as many.
LEMMA SettleKeepsAttempts ==
  ASSUME NEW a \in Seq(Attempt), NEW r, NEW outcome \in Outcome
  PROVE  Settle(a, r, outcome) \in Seq(Attempt) /\ Len(Settle(a, r, outcome)) = Len(a)
<1> DEFINE s == Settle(a, r, outcome)
<1>1. DOMAIN s = 1..Len(a) /\ Len(a) \in Nat
  BY DEF Settle
<1>2. \A n \in 1..Len(a) : a[n] \in Attempt
  BY ElementOfSeq
<1>3. \A n \in 1..Len(a) : s[n] \in Attempt
  BY <1>1, <1>2 DEF Settle, Attempt
<1>4. s = [n \in 1..Len(a) |-> s[n]]
  BY <1>1 DEF Settle
<1>5. s \in Seq(Attempt) /\ Len(s) = Len(a)
  <2> HIDE DEF s
  <2> QED BY <1>1, <1>3, <1>4, IsASeq, LenProperties
<1> QED BY <1>5

\* Neither does a report change the number of attempts.
LEMMA ReportKeepsAttempts ==
  ASSUME NEW a \in Seq(Attempt)
  PROVE  SettleLastReserved(a) \in Seq(Attempt) /\ Len(SettleLastReserved(a)) = Len(a)
<1> DEFINE s == SettleLastReserved(a)
<1>1. DOMAIN s = 1..Len(a) /\ Len(a) \in Nat
  BY DEF SettleLastReserved
<1>2. \A n \in 1..Len(a) : a[n] \in Attempt
  BY ElementOfSeq
<1>3. \A n \in 1..Len(a) : s[n] \in Attempt
  BY <1>1, <1>2 DEF SettleLastReserved, Attempt, Outcome
<1>4. s = [n \in 1..Len(a) |-> s[n]]
  BY <1>1 DEF SettleLastReserved
<1>5. s \in Seq(Attempt) /\ Len(s) = Len(a)
  <2> HIDE DEF s
  <2> QED BY <1>1, <1>3, <1>4, IsASeq, LenProperties
<1> QED BY <1>5

\* A journal with one more record, or with one record continued, has grown.
LEMMA OneRecordGrows ==
  ASSUME NEW j, JournalOK(j), NEW i \in Intents, NEW new, RecordOK(new),
         i \in DOMAIN j => Continues(j[i], new)
  PROVE  JournalOK(Stored(j, i, new)) /\ Grows(j, Stored(j, i, new))
BY DEF JournalOK, Grows, Continues, Stored

\* Replacing a record with EXCEPT is storing it.
LEMMA ReplaceIsStored ==
  ASSUME NEW j, NEW i \in DOMAIN j, NEW new
  PROVE  [j EXCEPT ![i] = new] = Stored(j, i, new)
BY DEF Stored

\* A journal keeps what was on record when it grows.
LEMMA GrowthKeepsRecorded ==
  ASSUME NEW j, NEW k, Grows(j, k), NEW t \in Transactions, Recorded(j, t)
  PROVE  Recorded(k, t)
BY NoTxAssumption DEF Grows, Continues, Recorded

\* No journal shrinks by staying as it is.
LEMMA GrowsReflexive ==
  ASSUME NEW j
  PROVE  Grows(j, j)
BY DEF Grows, Continues

\* reserve leaves a journal in which the transaction can be found.
LEMMA ReserveGrows ==
  ASSUME NEW j, JournalOK(j), NEW tx \in Transactions, tx.mode = "SELF_SIGNED",
         NEW k \in Reserve(j, tx)
  PROVE  JournalOK(k) /\ Grows(j, k) /\ Recorded(k, tx)
<1> DEFINE new == [mode |-> "SELF_SIGNED", status |-> "SUBMITTING", notes |-> {}, hash |-> tx,
                   reported |-> FALSE, ambiguous |-> FALSE, attempts |-> <<>>]
<1>1. k = Stored(j, tx.intent, new) /\ tx.intent \notin DOMAIN j
  BY DEF Reserve, Unused
<1>2. tx.intent \in Intents
  BY DEF Transactions
<1>3. RecordOK(new)
  BY NoTxAssumption, JournalAssumption DEF RecordOK, Records, Mode, Status
<1>4. JournalOK(k) /\ Grows(j, k)
  <2> HIDE DEF new
  <2> QED BY <1>1, <1>2, <1>3, OneRecordGrows
<1>5. Recorded(k, tx)
  BY <1>1 DEF Recorded, Stored
<1> QED BY <1>4, <1>5

\* reserveBroadcaster too.
LEMMA ReserveBroadcasterGrows ==
  ASSUME NEW j, JournalOK(j), NEW tx \in Transactions, tx.mode = "BROADCASTER",
         NEW k \in ReserveBroadcaster(j, tx)
  PROVE  JournalOK(k) /\ Grows(j, k) /\ Recorded(k, tx)
<1> DEFINE new == [mode |-> "BROADCASTER", status |-> "SUBMITTING", notes |-> tx.notes,
                   hash |-> NoTx, reported |-> FALSE, ambiguous |-> FALSE, attempts |-> <<>>]
<1>1. k = Stored(j, tx.intent, new) /\ tx.intent \notin DOMAIN j
  BY DEF ReserveBroadcaster, Unused
<1>2. tx.intent \in Intents /\ tx.notes \in SUBSET Notes
  BY DEF Transactions
<1>3. RecordOK(new)
  BY <1>2, JournalAssumption DEF RecordOK, Records, Mode, Status
<1>4. JournalOK(k) /\ Grows(j, k)
  <2> HIDE DEF new
  <2> QED BY <1>1, <1>2, <1>3, OneRecordGrows
<1>5. Recorded(k, tx)
  BY <1>1 DEF Recorded, Stored
<1> QED BY <1>4, <1>5

\* And reserveBroadcasterRetry, which only accepts the reserved notes.
LEMMA ReserveRetryGrows ==
  ASSUME NEW j, JournalOK(j), NEW tx \in Transactions, tx.mode = "BROADCASTER",
         NEW k \in ReserveBroadcasterRetry(j, tx)
  PROVE  JournalOK(k) /\ Grows(j, k) /\ Recorded(k, tx)
<1> DEFINE i == tx.intent
           open == [run |-> tx.run, outcome |-> "RESERVED"]
           new == [j[i] EXCEPT !.attempts = Append(@, open)]
<1>1. /\ Unresolved(j, i) /\ Len(j[i].attempts) < MaxRetries /\ j[i].notes = tx.notes
      /\ i \in DOMAIN j
      /\ k = [j EXCEPT ![i].attempts = Append(@, open)]
  BY DEF ReserveBroadcasterRetry, Retryable, BelowCap, SameNotes, Unresolved
<1>2. k = Stored(j, i, new)
  BY <1>1 DEF Stored
<1>3. i \in Intents /\ RecordOK(j[i]) /\ open \in Attempt
  BY <1>1 DEF JournalOK, Transactions, Attempt, Outcome
<1>4. RecordOK(new) /\ Continues(j[i], new)
  <2>1. Append(j[i].attempts, open) \in Seq(Attempt)
        /\ Len(Append(j[i].attempts, open)) = Len(j[i].attempts) + 1
    BY <1>3, AppendProperties DEF RecordOK, Records
  <2>2. Len(j[i].attempts) \in Nat
    BY <1>3, LenProperties DEF RecordOK, Records
  <2>3. new \in Records
    BY <1>3, <2>1 DEF RecordOK, Records
  <2>4. /\ new.mode = j[i].mode /\ new.notes = j[i].notes /\ new.hash = j[i].hash
        /\ new.status = j[i].status /\ new.attempts = Append(j[i].attempts, open)
    BY <1>3 DEF RecordOK, Records
  <2>5. ~Closed(j[i])
    BY <1>1 DEF Unresolved, Closed
  <2> QED
    BY <1>1, <1>3, <2>1, <2>2, <2>3, <2>4, <2>5, JournalAssumption DEF RecordOK, Continues
<1>5. JournalOK(k) /\ Grows(j, k)
  <2> HIDE DEF new, i
  <2> QED BY <1>2, <1>3, <1>4, OneRecordGrows
<1>6. Recorded(k, tx)
  BY <1>1, <1>2, <1>4 DEF Recorded, Stored, Unresolved, Continues
<1> QED BY <1>5, <1>6
\* markRejected closes a record without touching what it says.
LEMMA MarkRejectedGrows ==
  ASSUME NEW j, JournalOK(j), NEW i, NEW k \in MarkRejected(j, i)
  PROVE  JournalOK(k) /\ Grows(j, k)
<1> DEFINE new == [j[i] EXCEPT !.status = "REJECTED"]
<1>1. Unresolved(j, i) /\ i \in DOMAIN j /\ k = Stored(j, i, new)
  BY DEF MarkRejected, Unresolved, Stored
<1>2. i \in Intents /\ RecordOK(j[i])
  BY <1>1 DEF JournalOK
<1>3. RecordOK(new) /\ Continues(j[i], new)
  BY <1>1, <1>2 DEF RecordOK, Records, Status, Unresolved, Continues, Closed
<1> QED
  <2> HIDE DEF new
  <2> QED BY <1>1, <1>2, <1>3, OneRecordGrows

\* markBroadcasterRetryRejected settles an attempt of a record that stays open.
LEMMA MarkRetryRejectedGrows ==
  ASSUME NEW j, JournalOK(j), NEW i, NEW r, NEW k \in MarkBroadcasterRetryRejected(j, i, r)
  PROVE  JournalOK(k) /\ Grows(j, k)
<1> DEFINE settled == Settle(j[i].attempts, r, "REJECTED")
           new == [j[i] EXCEPT !.attempts = settled]
<1>1. Unresolved(j, i) /\ i \in DOMAIN j /\ k = Stored(j, i, new)
  BY DEF MarkBroadcasterRetryRejected, Unresolved, Stored
<1>2. i \in Intents /\ RecordOK(j[i]) /\ j[i].attempts \in Seq(Attempt)
  BY <1>1 DEF JournalOK, RecordOK, Records
<1>3. settled \in Seq(Attempt) /\ Len(settled) = Len(j[i].attempts)
  BY <1>2, SettleKeepsAttempts DEF Outcome
<1>4. RecordOK(new) /\ Continues(j[i], new)
  <2> HIDE DEF settled
  <2> QED BY <1>1, <1>2, <1>3 DEF RecordOK, Records, Unresolved, Continues, Closed
<1> QED
  <2> HIDE DEF new
  <2> QED BY <1>1, <1>2, <1>4, OneRecordGrows

\* So does markBroadcasterAmbiguous.
LEMMA MarkAmbiguousGrows ==
  ASSUME NEW j, JournalOK(j), NEW i, NEW r, NEW retry,
         NEW k \in MarkBroadcasterAmbiguous(j, i, r, retry)
  PROVE  JournalOK(k) /\ Grows(j, k)
<1> DEFINE settled == Settle(j[i].attempts, r, "AMBIGUOUS")
           new == [j[i] EXCEPT !.ambiguous = TRUE, !.attempts = settled]
<1>1. Unresolved(j, i) /\ i \in DOMAIN j /\ k = Stored(j, i, new)
  BY DEF MarkBroadcasterAmbiguous, Unresolved, Stored
<1>2. i \in Intents /\ RecordOK(j[i]) /\ j[i].attempts \in Seq(Attempt)
  BY <1>1 DEF JournalOK, RecordOK, Records
<1>3. settled \in Seq(Attempt) /\ Len(settled) = Len(j[i].attempts)
  BY <1>2, SettleKeepsAttempts DEF Outcome
<1>4. RecordOK(new) /\ Continues(j[i], new)
  <2> HIDE DEF settled
  <2> QED BY <1>1, <1>2, <1>3 DEF RecordOK, Records, Unresolved, Continues, Closed
<1> QED
  <2> HIDE DEF new
  <2> QED BY <1>1, <1>2, <1>4, OneRecordGrows

\* And markBroadcasterReported.
LEMMA MarkReportedGrows ==
  ASSUME NEW j, JournalOK(j), NEW i, NEW k \in MarkBroadcasterReported(j, i)
  PROVE  JournalOK(k) /\ Grows(j, k)
<1> DEFINE settled == SettleLastReserved(j[i].attempts)
           new == [j[i] EXCEPT !.reported = TRUE, !.attempts = settled]
<1>1. i \in DOMAIN j /\ j[i].status = "SUBMITTING" /\ (k = j \/ k = Stored(j, i, new))
  BY DEF MarkBroadcasterReported, Stored
<1>2. i \in Intents /\ RecordOK(j[i]) /\ j[i].attempts \in Seq(Attempt)
  BY <1>1 DEF JournalOK, RecordOK, Records
<1>3. settled \in Seq(Attempt) /\ Len(settled) = Len(j[i].attempts)
  BY <1>2, ReportKeepsAttempts
<1>4. RecordOK(new) /\ Continues(j[i], new)
  <2> HIDE DEF settled
  <2> QED BY <1>1, <1>2, <1>3 DEF RecordOK, Records, Continues, Closed
<1> QED
  <2> HIDE DEF new
  <2> QED BY <1>1, <1>2, <1>4, OneRecordGrows, GrowsReflexive

\* markMined closes a submitted record, whatever the receipt says.
LEMMA MarkMinedGrows ==
  ASSUME NEW j, JournalOK(j), NEW i, NEW succeeded, NEW k \in MarkMined(j, i, succeeded)
  PROVE  JournalOK(k) /\ Grows(j, k)
<1> DEFINE target == IF succeeded THEN "MINED" ELSE "REVERTED"
           new == [j[i] EXCEPT !.status = target]
<1>1. CASE k = j
  BY <1>1, GrowsReflexive
<1>2. CASE k # j
  <2>1. i \in DOMAIN j /\ j[i].hash # NoTx /\ j[i].status = "SUBMITTED" /\ k = Stored(j, i, new)
    BY <1>2 DEF MarkMined, Stored
  <2>2. i \in Intents /\ RecordOK(j[i]) /\ target \in {"MINED", "REVERTED"}
    BY <2>1 DEF JournalOK
  <2>3. RecordOK(new) /\ Continues(j[i], new)
    <3> HIDE DEF target
    <3> QED BY <2>1, <2>2 DEF RecordOK, Records, Status, Continues, Closed
  <2> QED
    <3> HIDE DEF new
    <3> QED BY <2>1, <2>2, <2>3, OneRecordGrows
<1> QED BY <1>1, <1>2

\* markSubmitted gives an open record its hash, and never another one.
LEMMA MarkSubmittedGrows ==
  ASSUME NEW j, JournalOK(j), NEW i, NEW tx \in Transactions, NEW k \in MarkSubmitted(j, i, tx)
  PROVE  JournalOK(k) /\ Grows(j, k)
<1> DEFINE new == [j[i] EXCEPT !.status = "SUBMITTED", !.hash = tx]
<1>1. CASE k = j
  BY <1>1, GrowsReflexive
<1>2. CASE k # j
  <2>1. /\ i \in DOMAIN j /\ j[i].hash \in {NoTx, tx} /\ j[i].status = "SUBMITTING"
        /\ k = Stored(j, i, new)
    BY <1>2 DEF MarkSubmitted, Stored
  <2>2. i \in Intents /\ RecordOK(j[i])
    BY <2>1 DEF JournalOK
  <2>3. RecordOK(new) /\ Continues(j[i], new)
    BY <2>1, <2>2, NoTxAssumption DEF RecordOK, Records, Status, Continues, Closed
  <2> QED
    <3> HIDE DEF new
    <3> QED BY <2>1, <2>2, <2>3, OneRecordGrows
<1> QED BY <1>1, <1>2
(***************************************************************************)
(* The inductive invariant                                                 *)
(***************************************************************************)
\* What TypeOK says of the journal is JournalOK.
LEMMA TypeOKParts ==
  TypeOK <=>
    /\ JournalOK(journal)
    /\ lock \in Runs \cup {NoRun} /\ pc \in [Runs -> Labels]
    /\ sent \subseteq Transactions /\ mined \subseteq sent /\ failed \subseteq sent
BY DEF TypeOK, JournalOK, RecordOK

\* Initially nothing is on record and nothing has left.
LEMMA InitIInv == Init => IInv
<1> SUFFICES ASSUME Init PROVE IInv
  OBVIOUS
<1>1. DOMAIN journal = {}
  BY DEF Init
<1>2. TypeOK
  <2>1. JournalOK(journal)
    BY <1>1 DEF JournalOK
  <2> QED BY <2>1, TypeOKParts DEF Init, Labels
<1>3. JobsFit /\ WritesGrow
  BY DEF Init, JobsFit, WritesGrow
<1>4. NotesAreSpentOnce /\ ReservedBeforeSending /\ WriteAheadUnlessOverwritten
  BY DEF Init, NotesAreSpentOnce, ReservedBeforeSending, WriteAheadUnlessOverwritten, WriteAhead
<1> QED BY <1>2, <1>3, <1>4 DEF IInv

\* A step of one run that leaves the journal and the chain alone preserves the
\* invariant if its job fits where it gets to.
LEMMA StepOfOneRun ==
  ASSUME IInv, NEW r \in Runs,
         UNCHANGED <<journal, world, overwritten>>, lock' \in Runs \cup {NoRun},
         NEW l \in Labels, pc' = [pc EXCEPT ![r] = l], l \notin {"write", "send"},
         DOMAIN job' = Runs, \A q \in Runs \ {r} : job'[q] = job[q],
         DOMAIN pending' = Runs, \A q \in Runs \ {r} : pending'[q] = pending[q],
         job'[r] \in Jobs,
         l \in {"check", "prove", "reserve", "answer"} => Transfers(r)',
         l \in {"reserve", "answer"} => job'[r].notes # {},
         l \in {"submitted", "receipt"} => job'[r].hash # NoTx
  PROVE  IInv'
<1>1. TypeOK'
  BY TypeOKParts DEF IInv, TypeOK, world
<1>2. pc' \in [Runs -> Labels] /\ pc'[r] = l /\ \A q \in Runs \ {r} : pc'[q] = pc[q]
  BY DEF IInv, TypeOK
<1>3. JobsFit'
  BY <1>2 DEF IInv, JobsFit, Transfers
<1>4. \A q \in Runs \ {r} : TxOf(q)' = TxOf(q)
  BY DEF TxOf
<1>5. WritesGrow'
  BY <1>2, <1>4 DEF IInv, WritesGrow, Transfers
<1>6. ReservedBeforeSending'
  BY <1>2, <1>4 DEF IInv, ReservedBeforeSending
<1>7. NotesAreSpentOnce' /\ WriteAheadUnlessOverwritten'
  BY DEF IInv, NotesAreSpentOnce, WriteAheadUnlessOverwritten, WriteAhead, world
<1> QED BY <1>1, <1>3, <1>5, <1>6, <1>7 DEF IInv

\* The end of a command is such a step.
LEMMA EndPreservesIInv ==
  ASSUME IInv, NEW r \in Runs, pc[r] # "idle", End(r),
         UNCHANGED <<journal, world, overwritten>>, job' = job,
         DOMAIN pending' = Runs, \A q \in Runs \ {r} : pending'[q] = pending[q]
  PROVE  IInv'
<1>1. lock' \in Runs \cup {NoRun} /\ pc' = [pc EXCEPT ![r] = "ended"]
  BY DEF End, Goto, IInv, TypeOK
<1>2. DOMAIN job = Runs /\ job[r] \in Jobs
  BY DEF IInv, JobsFit
<1> QED BY <1>1, <1>2, StepOfOneRun DEF Labels

\* A transaction on record stays findable whatever it is.
LEMMA TxOfIsTransaction ==
  ASSUME NEW r \in Runs, job[r] \in Jobs
  PROVE  TxOf(r) \in Transactions
BY DEF TxOf, Jobs, Transactions, Mode

\* The read half of a journal operation preserves the invariant if the
\* operation lets the journal grow and reserves what is sent next.
LEMMA UpdatePreservesIInv ==
  ASSUME IInv, NEW r \in Runs, pc[r] # "idle", NEW journals, NEW then, Update(r, journals, then),
         \A k \in journals : JournalOK(k) /\ Grows(journal, k),
         then \in {"send", "lookup", "receipt", "end"},
         then = "send" => /\ Transfers(r) /\ job[r].notes # {}
                          /\ \A k \in journals : Recorded(k, TxOf(r)),
         then = "receipt" => job[r].hash # NoTx
  PROVE  IInv'
<1>0. /\ pc \in [Runs -> Labels] /\ DOMAIN job = Runs /\ DOMAIN pending = Runs
      /\ job[r] \in Jobs /\ lock \in Runs \cup {NoRun}
  BY DEF IInv, JobsFit, TypeOK
<1>1. CASE journals = {}
  BY <1>0, <1>1, EndPreservesIInv DEF Update
<1>2. CASE journals = {journal} /\ then # "send"
  <2>1. pc' = [pc EXCEPT ![r] = then] /\ UNCHANGED <<pending, lock, journal, job, world, overwritten>>
    BY <1>2 DEF Update, Goto
  <2> QED BY <1>0, <1>2, <2>1, StepOfOneRun DEF Labels
<1>3. CASE journals # {} /\ (journals = {journal} => then = "send")
  <2>1. UNCHANGED <<lock, journal, job, world, overwritten>>
    BY <1>3 DEF Update
  <2>2. DOMAIN pending' = Runs /\ \A q \in Runs \ {r} : pending'[q] = pending[q]
    BY <1>0, <1>3 DEF Update
  <2>3. \/ pc' = [pc EXCEPT ![r] = "send"] /\ then = "send" /\ journal \in journals
        \/ /\ pc' = [pc EXCEPT ![r] = "write"]
           /\ \E k \in journals : pending'[r] = [base |-> journal, next |-> k, then |-> then]
    BY <1>0, <1>3 DEF Update, Goto
  <2>4. /\ pc' \in [Runs -> Labels] /\ \A q \in Runs \ {r} : pc'[q] = pc[q]
        /\ pc'[r] = "send" => then = "send" /\ journal \in journals
        /\ pc'[r] = "write" =>
             \E k \in journals : pending'[r] = [base |-> journal, next |-> k, then |-> then]
        /\ pc'[r] \in {"send", "write"}
    BY <1>0, <2>3 DEF Labels
  <2>5. TypeOK'
    BY <2>1, <2>4, TypeOKParts DEF IInv, TypeOK, world
  <2>6. JobsFit'
    BY <1>0, <2>1, <2>2, <2>4 DEF IInv, JobsFit, Transfers
  <2>7. \A q \in Runs : TxOf(q)' = TxOf(q)
    BY <2>1 DEF TxOf
  <2>8. WritesGrow'
    BY <2>1, <2>2, <2>4, <2>7 DEF IInv, WritesGrow, Transfers
  <2>9. ReservedBeforeSending'
    BY <2>1, <2>4, <2>7 DEF IInv, ReservedBeforeSending
  <2>10. NotesAreSpentOnce' /\ WriteAheadUnlessOverwritten'
    BY <2>1 DEF IInv, NotesAreSpentOnce, WriteAheadUnlessOverwritten, WriteAhead, world
  <2> QED BY <2>5, <2>6, <2>8, <2>9, <2>10 DEF IInv
<1> QED BY <1>1, <1>2, <1>3
\* Taking the lock for a transfer, checking the journal, and proving.
LEMMA PreparingPreservesIInv ==
  ASSUME IInv, NEW r \in Runs,
         \/ \E cmd \in Commands \cap TransferCommands, i \in Intents : StartTransfer(r, cmd, i)
         \/ Check(r)
         \/ \E notes \in SUBSET Notes : Prove(r, notes)
  PROVE  IInv'
<1>0. DOMAIN job = Runs /\ DOMAIN pending = Runs /\ lock \in Runs \cup {NoRun}
  BY DEF IInv, JobsFit, TypeOK
<1>1. ASSUME NEW cmd \in TransferCommands, NEW i \in Intents, StartTransfer(r, cmd, i)
      PROVE  IInv'
  <2>1. job'[r] = [cmd |-> cmd, intent |-> i, notes |-> {}, hash |-> NoTx]
        /\ DOMAIN job' = Runs /\ \A q \in Runs \ {r} : job'[q] = job[q]
    BY <1>0, <1>1 DEF StartTransfer
  <2>2. job'[r] \in Jobs /\ Transfers(r)'
    BY <2>1 DEF Jobs, Transfers
  <2> QED BY <1>0, <1>1, <2>1, <2>2, StepOfOneRun DEF StartTransfer, Goto, Labels
<1>2. CASE Check(r)
  <2>1. pc[r] = "check" /\ UNCHANGED <<journal, job, pending, world, overwritten>>
    BY <1>2 DEF Check
  <2>2. job[r] \in Jobs /\ Transfers(r)
    BY <2>1 DEF IInv, JobsFit
  <2>3. CASE End(r)
    BY <1>0, <2>1, <2>3, EndPreservesIInv
  <2>4. CASE Goto(r, "prove") /\ UNCHANGED lock
    BY <1>0, <2>1, <2>2, <2>4, StepOfOneRun DEF Goto, Labels, Transfers
  <2> QED BY <1>2, <2>3, <2>4 DEF Check
<1>3. ASSUME NEW notes \in SUBSET Notes, Prove(r, notes)
      PROVE  IInv'
  <2>1. /\ pc[r] = "prove" /\ notes # {} /\ job' = [job EXCEPT ![r].notes = notes]
        /\ UNCHANGED <<journal, pending, world, overwritten>>
    BY <1>3 DEF Prove
  <2>2. job[r] \in Jobs /\ Transfers(r)
    BY <2>1 DEF IInv, JobsFit
  <2>3. /\ DOMAIN job' = Runs /\ \A q \in Runs \ {r} : job'[q] = job[q]
        /\ job'[r] \in Jobs /\ Transfers(r)' /\ job'[r].notes # {}
    BY <1>0, <2>1, <2>2 DEF Jobs, Transfers
  <2>4. CASE End(r)
    <3>1. lock' \in Runs \cup {NoRun} /\ pc' = [pc EXCEPT ![r] = "ended"]
      BY <1>0, <2>4 DEF End, Goto
    <3> QED BY <1>0, <2>1, <2>3, <3>1, StepOfOneRun DEF Labels
  <2>5. CASE Goto(r, "reserve") /\ UNCHANGED lock
    BY <1>0, <2>1, <2>3, <2>5, StepOfOneRun DEF Goto, Labels
  <2> QED BY <1>3, <2>4, <2>5 DEF Prove
<1> QED BY <1>1, <1>2, <1>3

\* Reserving: what is sent next is in the journal to be written.
LEMMA ReserveTransferPreservesIInv ==
  ASSUME IInv, NEW r \in Runs, ReserveTransfer(r)
  PROVE  IInv'
<1>1. /\ pc[r] = "reserve" /\ job[r] \in Jobs /\ Transfers(r) /\ job[r].notes # {}
      /\ JournalOK(journal)
  BY TypeOKParts DEF ReserveTransfer, IInv, JobsFit
<1>2. TxOf(r) \in Transactions
  BY <1>1, TxOfIsTransaction
<1>3. CASE job[r].cmd = "self"
  <2>1. TxOf(r).mode = "SELF_SIGNED" /\ Update(r, Reserve(journal, TxOf(r)), "send")
    BY <1>3 DEF ReserveTransfer, TxOf
  <2>2. \A k \in Reserve(journal, TxOf(r)) :
          JournalOK(k) /\ Grows(journal, k) /\ Recorded(k, TxOf(r))
    BY <1>1, <1>2, <2>1, ReserveGrows
  <2> QED BY <1>1, <2>1, <2>2, UpdatePreservesIInv
<1>4. CASE job[r].cmd = "broadcast"
  <2>1. TxOf(r).mode = "BROADCASTER" /\ Update(r, ReserveBroadcaster(journal, TxOf(r)), "send")
    BY <1>4 DEF ReserveTransfer, TxOf
  <2>2. \A k \in ReserveBroadcaster(journal, TxOf(r)) :
          JournalOK(k) /\ Grows(journal, k) /\ Recorded(k, TxOf(r))
    BY <1>1, <1>2, <2>1, ReserveBroadcasterGrows
  <2> QED BY <1>1, <2>1, <2>2, UpdatePreservesIInv
<1>5. CASE job[r].cmd = "retry"
  <2>1. TxOf(r).mode = "BROADCASTER"
        /\ Update(r, ReserveBroadcasterRetry(journal, TxOf(r)), "send")
    BY <1>5 DEF ReserveTransfer, TxOf
  <2>2. \A k \in ReserveBroadcasterRetry(journal, TxOf(r)) :
          JournalOK(k) /\ Grows(journal, k) /\ Recorded(k, TxOf(r))
    BY <1>1, <1>2, <2>1, ReserveRetryGrows
  <2> QED BY <1>1, <2>1, <2>2, UpdatePreservesIInv
<1> QED BY <1>1, <1>3, <1>4, <1>5 DEF Transfers, TransferCommands

\* Sending, or losing the request: as long as nothing was overwritten, the
\* transaction is on record.
LEMMA SendPreservesIInv ==
  ASSUME IInv, NEW r \in Runs, Send(r)
  PROVE  IInv'
<1>1. /\ pc[r] = "send" /\ job[r] \in Jobs /\ Transfers(r) /\ job[r].notes # {}
      /\ DOMAIN job = Runs /\ DOMAIN pending = Runs /\ pc \in [Runs -> Labels]
  BY DEF Send, IInv, JobsFit, TypeOK
<1>2. /\ UNCHANGED <<journal, lock, job, pending, mined, failed, overwritten>>
      /\ sent' \in {sent, sent \cup {TxOf(r)}} /\ pc' = [pc EXCEPT ![r] = "answer"]
  BY DEF Send, Goto
<1>3. /\ pc' \in [Runs -> Labels] /\ pc'[r] = "answer" /\ \A q \in Runs \ {r} : pc'[q] = pc[q]
  BY <1>1, <1>2 DEF Labels
<1>4. TxOf(r) \in Transactions /\ TxOf(r).notes # {}
  BY <1>1, TxOfIsTransaction DEF TxOf
<1>5. \A q \in Runs : TxOf(q)' = TxOf(q)
  BY <1>2 DEF TxOf
<1>6. TypeOK'
  BY <1>2, <1>3, <1>4, TypeOKParts DEF IInv, TypeOK
<1>7. JobsFit'
  BY <1>1, <1>2, <1>3 DEF IInv, JobsFit, Transfers
<1>8. WritesGrow' /\ ReservedBeforeSending'
  BY <1>2, <1>3, <1>5 DEF IInv, WritesGrow, ReservedBeforeSending, Transfers
<1>9. NotesAreSpentOnce'
  BY <1>2, <1>4 DEF IInv, NotesAreSpentOnce
<1>10. WriteAheadUnlessOverwritten'
  <2>1. ~overwritten => Recorded(journal, TxOf(r))
    BY <1>1 DEF IInv, ReservedBeforeSending
  <2> QED BY <1>2, <2>1 DEF IInv, WriteAheadUnlessOverwritten, WriteAhead, Recorded
<1> QED BY <1>6, <1>7, <1>8, <1>9, <1>10 DEF IInv

\* What the broadcasters and the node answer.
LEMMA AnswerPreservesIInv ==
  ASSUME IInv, NEW r \in Runs,
         \/ AnswerAccepted(r) \/ AnswerFailed(r)
         \/ AnswerReported(r) \/ AnswerAmbiguous(r) \/ AnswerRejected(r)
  PROVE  IInv'
<1>0. /\ pc[r] = "answer" /\ job[r] \in Jobs /\ Transfers(r) /\ JournalOK(journal)
      /\ DOMAIN job = Runs /\ DOMAIN pending = Runs /\ lock \in Runs \cup {NoRun}
  <2>1. pc[r] = "answer"
    BY DEF AnswerAccepted, AnswerFailed, AnswerReported, AnswerAmbiguous, AnswerRejected
  <2> QED BY <2>1, TypeOKParts DEF IInv, JobsFit
<1>1. CASE AnswerAccepted(r)
  <2>1. /\ job' = [job EXCEPT ![r].hash = TxOf(r)] /\ pc' = [pc EXCEPT ![r] = "submitted"]
        /\ UNCHANGED <<journal, lock, pending, world, overwritten>>
    BY <1>1 DEF AnswerAccepted, Goto
  <2>2. TxOf(r) \in Transactions
    BY <1>0, TxOfIsTransaction
  <2>3. /\ DOMAIN job' = Runs /\ \A q \in Runs \ {r} : job'[q] = job[q]
        /\ job'[r] \in Jobs /\ job'[r].hash # NoTx
    BY <1>0, <2>1, <2>2, NoTxAssumption DEF Jobs
  <2> QED BY <1>0, <2>1, <2>3, StepOfOneRun DEF Labels
<1>2. CASE AnswerFailed(r)
  BY <1>0, <1>2, EndPreservesIInv DEF AnswerFailed
<1>3. CASE AnswerReported(r)
  BY <1>0, <1>3, MarkReportedGrows, UpdatePreservesIInv DEF AnswerReported
<1>4. CASE AnswerAmbiguous(r)
  BY <1>0, <1>4, MarkAmbiguousGrows, UpdatePreservesIInv DEF AnswerAmbiguous
<1>5. CASE AnswerRejected(r)
  <2>1. CASE job[r].cmd = "retry"
    <3>1. Update(r, MarkBroadcasterRetryRejected(journal, job[r].intent, r), "end")
      BY <1>5, <2>1 DEF AnswerRejected
    <3> QED BY <1>0, <3>1, MarkRetryRejectedGrows, UpdatePreservesIInv
  <2>2. CASE job[r].cmd # "retry"
    <3>1. Update(r, MarkRejected(journal, job[r].intent), "end")
      BY <1>5, <2>2 DEF AnswerRejected
    <3> QED BY <1>0, <3>1, MarkRejectedGrows, UpdatePreservesIInv
  <2> QED BY <2>1, <2>2
<1> QED BY <1>1, <1>2, <1>3, <1>4, <1>5
\* Looking up the hash, marking the record submitted, and its receipt.
LEMMA ClosingPreservesIInv ==
  ASSUME IInv, NEW r \in Runs,
         Lookup(r) \/ Submitted(r) \/ Receipt(r) \/ NoReceipt(r)
  PROVE  IInv'
<1>0. /\ pc[r] # "idle" /\ job[r] \in Jobs /\ JournalOK(journal) /\ mined \subseteq Transactions
      /\ DOMAIN job = Runs /\ DOMAIN pending = Runs /\ lock \in Runs \cup {NoRun}
      /\ pc[r] \in {"submitted", "receipt"} => job[r].hash # NoTx
  <2>1. pc[r] # "idle"
    BY DEF Lookup, Submitted, Receipt, NoReceipt
  <2> QED BY <2>1, TypeOKParts DEF IInv, JobsFit
<1>1. CASE Lookup(r)
  <2>1. CASE End(r) /\ UNCHANGED job
    BY <1>0, <1>1, <2>1, EndPreservesIInv DEF Lookup
  <2>2. ASSUME NEW t \in mined, job' = [job EXCEPT ![r].hash = t],
               Goto(r, "submitted"), UNCHANGED lock
        PROVE  IInv'
    <3>1. /\ DOMAIN job' = Runs /\ \A q \in Runs \ {r} : job'[q] = job[q]
          /\ job'[r] \in Jobs /\ job'[r].hash # NoTx
      BY <1>0, <2>2, NoTxAssumption DEF Jobs
    <3> QED BY <1>0, <1>1, <2>2, <3>1, StepOfOneRun DEF Lookup, Goto, Labels
  <2> QED BY <1>1, <2>1, <2>2 DEF Lookup, FoundByNullifiers
<1>2. CASE Submitted(r)
  <2>1. job[r].hash \in Transactions
    BY <1>0, <1>2 DEF Submitted, Jobs
  <2>2. \A k \in MarkSubmitted(journal, job[r].intent, job[r].hash) :
          JournalOK(k) /\ Grows(journal, k)
    BY <1>0, <2>1, MarkSubmittedGrows
  <2> QED BY <1>0, <1>2, <2>1, <2>2, NoTxAssumption, UpdatePreservesIInv DEF Submitted
<1>3. CASE Receipt(r)
  <2>1. \A k \in MarkMined(journal, job[r].intent, job[r].hash \in mined) :
          JournalOK(k) /\ Grows(journal, k)
    BY <1>0, MarkMinedGrows
  <2> QED BY <1>0, <1>3, <2>1, UpdatePreservesIInv DEF Receipt
<1>4. CASE NoReceipt(r)
  BY <1>0, <1>4, EndPreservesIInv DEF NoReceipt
<1> QED BY <1>1, <1>2, <1>3, <1>4

\* Ending and crashing.
LEMMA StoppingPreservesIInv ==
  ASSUME IInv, NEW r \in Runs, Ended(r) \/ Crash(r)
  PROVE  IInv'
<1>1. pc[r] # "idle" /\ End(r) /\ UNCHANGED <<journal, job, world, overwritten>>
  BY DEF Ended, Crash
<1>2. DOMAIN pending' = Runs /\ \A q \in Runs \ {r} : pending'[q] = pending[q]
  BY DEF Ended, Crash, IInv, JobsFit
<1> QED BY <1>1, <1>2, EndPreservesIInv

\* A recovery, from reading the record to the hash it found.
LEMMA RecoveringPreservesIInv ==
  ASSUME IInv, NEW r \in Runs,
         (\E i \in Intents : StartRecover(r, i)) \/ RecoverLocks(r) \/ RecoverLookup(r)
  PROVE  IInv'
<1>0. /\ JournalOK(journal) /\ mined \subseteq Transactions
      /\ DOMAIN job = Runs /\ DOMAIN pending = Runs /\ lock \in Runs \cup {NoRun}
  BY TypeOKParts DEF IInv, JobsFit
<1>1. ASSUME NEW i \in Intents, StartRecover(r, i) PROVE IInv'
  <2>1. i \in DOMAIN journal /\ journal[i] \in Records
    BY <1>0, <1>1 DEF StartRecover, JournalOK, RecordOK
  <2>2. /\ job'[r] = [cmd |-> "recover", intent |-> i, notes |-> journal[i].notes,
                      hash |-> journal[i].hash]
        /\ DOMAIN job' = Runs /\ \A q \in Runs \ {r} : job'[q] = job[q]
    BY <1>0, <1>1 DEF StartRecover
  <2>3. job'[r] \in Jobs
    BY <2>1, <2>2 DEF Jobs, Records
  <2> QED BY <1>0, <1>1, <2>2, <2>3, StepOfOneRun DEF StartRecover, Goto, Labels
<1>2. CASE RecoverLocks(r)
  <2>1. pc[r] = "engine" /\ UNCHANGED <<journal, job, pending, world, overwritten>>
    BY <1>2 DEF RecoverLocks
  <2>2. job[r] \in Jobs
    BY <2>1 DEF IInv, JobsFit
  <2>3. CASE lock' = r /\ Goto(r, "recover")
    BY <1>0, <2>1, <2>2, <2>3, StepOfOneRun DEF Goto, Labels
  <2>4. CASE End(r)
    BY <1>0, <2>1, <2>4, EndPreservesIInv
  <2> QED BY <1>2, <2>3, <2>4 DEF RecoverLocks
<1>3. CASE RecoverLookup(r)
  <2>1. /\ pc[r] = "recover" /\ lock' \in Runs \cup {NoRun}
        /\ UNCHANGED <<journal, pending, world, overwritten>>
    BY <1>0, <1>3 DEF RecoverLookup
  <2>2. job[r] \in Jobs
    BY <2>1 DEF IInv, JobsFit
  <2>3. CASE Goto(r, "ended") /\ UNCHANGED job
    BY <1>0, <2>1, <2>2, <2>3, StepOfOneRun DEF Goto, Labels
  <2>4. ASSUME NEW t \in mined, job' = [job EXCEPT ![r].hash = t], Goto(r, "submitted")
        PROVE  IInv'
    <3>1. /\ DOMAIN job' = Runs /\ \A q \in Runs \ {r} : job'[q] = job[q]
          /\ job'[r] \in Jobs /\ job'[r].hash # NoTx
      BY <1>0, <2>2, <2>4, NoTxAssumption DEF Jobs
    <3> QED BY <1>0, <2>1, <2>4, <3>1, StepOfOneRun DEF Goto, Labels
  <2> QED BY <1>3, <2>3, <2>4 DEF RecoverLookup, FoundByNullifiers
<1> QED BY <1>1, <1>2, <1>3

\* Replacing the journal: if it is the one that was read, it has grown, and
\* everything on record still is.
LEMMA WritePreservesIInv ==
  ASSUME IInv, NEW r \in Runs, Write(r)
  PROVE  IInv'
<1> DEFINE base == pending[r].base
           next == pending[r].next
           then == pending[r].then
<1>1. /\ pc[r] = "write" /\ journal' = next /\ overwritten' = (overwritten \/ journal # base)
      /\ pending' = [pending EXCEPT ![r] = NoWrite] /\ UNCHANGED <<job, world>>
      /\ IF then = "end" THEN End(r) ELSE Goto(r, then) /\ UNCHANGED lock
  BY DEF Write
<1>2. /\ pc \in [Runs -> Labels] /\ DOMAIN job = Runs /\ DOMAIN pending = Runs
      /\ job[r] \in Jobs /\ lock \in Runs \cup {NoRun} /\ sent \subseteq Transactions
      /\ mined \subseteq sent /\ failed \subseteq sent
  BY <1>1 DEF IInv, JobsFit, TypeOK
<1>3. /\ JournalOK(next) /\ Grows(base, next) /\ then \in {"send", "lookup", "receipt", "end"}
      /\ then = "send" => Transfers(r) /\ job[r].notes # {} /\ Recorded(next, TxOf(r))
      /\ then = "receipt" => job[r].hash # NoTx
  BY <1>1 DEF IInv, WritesGrow
<1> HIDE DEF base, next, then
<1>4. pc' = [pc EXCEPT ![r] = IF then = "end" THEN "ended" ELSE then] /\ lock' \in Runs \cup {NoRun}
  BY <1>1, <1>2 DEF End, Goto
<1>5. /\ pc' \in [Runs -> Labels] /\ \A q \in Runs \ {r} : pc'[q] = pc[q]
      /\ pc'[r] = IF then = "end" THEN "ended" ELSE then
  BY <1>2, <1>3, <1>4 DEF Labels
<1>6. \A q \in Runs : TxOf(q)' = TxOf(q)
  BY <1>1 DEF TxOf
<1>7. \A t \in Transactions : ~overwritten' /\ Recorded(journal, t) => Recorded(journal', t)
  BY <1>1, <1>3, GrowthKeepsRecorded
<1>8. TypeOK'
  <2>1. JournalOK(journal')
    BY <1>1, <1>3
  <2> QED BY <1>1, <1>2, <1>4, <1>5, <2>1 DEF TypeOK, JournalOK, RecordOK, world
<1>9. JobsFit'
  BY <1>1, <1>2, <1>3, <1>5 DEF IInv, JobsFit, Transfers
<1>10. WritesGrow'
  BY <1>1, <1>2, <1>3, <1>5, <1>6 DEF IInv, WritesGrow, Transfers
<1>11. ReservedBeforeSending'
  <2> SUFFICES ASSUME ~overwritten', NEW q \in Runs, pc'[q] = "send"
               PROVE  Recorded(journal', TxOf(q))
    BY <1>6 DEF ReservedBeforeSending
  <2>1. CASE q = r
    BY <1>1, <1>3, <1>5, <2>1
  <2>2. CASE q # r
    <3>1. pc[q] = "send" /\ Recorded(journal, TxOf(q))
      BY <1>1, <1>5, <2>2 DEF IInv, ReservedBeforeSending
    <3>2. TxOf(q) \in Transactions
      BY <3>1, TxOfIsTransaction DEF IInv, JobsFit
    <3> QED BY <1>7, <3>1, <3>2
  <2> QED BY <2>1, <2>2
<1>12. WriteAheadUnlessOverwritten'
  <2>1. ~overwritten' => \A t \in sent : Recorded(journal, t)
    BY <1>1 DEF IInv, WriteAheadUnlessOverwritten, WriteAhead, Recorded
  <2>2. ~overwritten' => \A t \in sent : Recorded(journal', t)
    BY <1>2, <1>7, <2>1
  <2> QED BY <1>1, <2>2 DEF WriteAheadUnlessOverwritten, WriteAhead, Recorded, world
<1>13. NotesAreSpentOnce'
  BY <1>1 DEF IInv, NotesAreSpentOnce, world
<1> QED BY <1>8, <1>9, <1>10, <1>11, <1>12, <1>13 DEF IInv
\* The chain takes or refuses a transaction.
LEMMA ChainPreservesIInv ==
  ASSUME IInv, NEW t \in sent, Mine(t) \/ Revert(t)
  PROVE  IInv'
<1>1. UNCHANGED <<journal, lock, pc, job, pending, sent, overwritten>>
  BY DEF Mine, Revert
<1>2. TypeOK'
  BY <1>1, TypeOKParts DEF IInv, TypeOK, Mine, Revert
<1>3. \A q \in Runs : TxOf(q)' = TxOf(q)
  BY <1>1 DEF TxOf
<1>4. JobsFit' /\ WritesGrow' /\ ReservedBeforeSending' /\ WriteAheadUnlessOverwritten'
  BY <1>1, <1>3 DEF IInv, JobsFit, WritesGrow, Transfers, ReservedBeforeSending,
                    WriteAheadUnlessOverwritten, WriteAhead
<1>5. NotesAreSpentOnce'
  <2>1. CASE Mine(t)
    <3>1. mined' = mined \cup {t} /\ \A u \in mined : t.notes \cap u.notes = {}
      BY <2>1 DEF Mine, Spent
    <3> QED BY <1>1, <3>1 DEF IInv, NotesAreSpentOnce
  <2>2. CASE Revert(t)
    BY <1>1, <2>2 DEF Revert, IInv, NotesAreSpentOnce
  <2> QED BY <2>1, <2>2
<1> QED BY <1>2, <1>4, <1>5 DEF IInv

\* Every step preserves the invariant.
LEMMA NextPreservesIInv == IInv /\ [Next]_vars => IInv'
<1> SUFFICES ASSUME IInv, [Next]_vars PROVE IInv'
  OBVIOUS
<1>1. ASSUME NEW r \in Runs, TransferStep(r) PROVE IInv'
  BY <1>1, PreparingPreservesIInv, ReserveTransferPreservesIInv, SendPreservesIInv,
     AnswerPreservesIInv, ClosingPreservesIInv DEF TransferStep
<1>2. ASSUME NEW r \in Runs, RecoverStep(r) PROVE IInv'
  BY <1>2, RecoveringPreservesIInv DEF RecoverStep
<1>3. ASSUME NEW r \in Runs, SharedStep(r) PROVE IInv'
  BY <1>3, ClosingPreservesIInv, StoppingPreservesIInv, WritePreservesIInv DEF SharedStep
<1>4. ASSUME NEW t \in sent, Mine(t) \/ Revert(t) PROVE IInv'
  BY <1>4, ChainPreservesIInv
<1>5. CASE UNCHANGED vars
  <2>1. \A q \in Runs : TxOf(q)' = TxOf(q)
    BY <1>5 DEF TxOf, vars
  <2> QED
    BY <1>5, <2>1 DEF vars, IInv, TypeOK, JobsFit, WritesGrow, Transfers, NotesAreSpentOnce,
                      ReservedBeforeSending, WriteAheadUnlessOverwritten, WriteAhead
<1> QED BY <1>1, <1>2, <1>3, <1>4, <1>5 DEF Next

\* The invariant holds in every reachable state.
THEOREM Invariance == Spec => []IInv
<1>1. Init => IInv
  BY InitIInv
<1>2. IInv /\ [Next]_vars => IInv'
  BY NextPreservesIInv
<1> QED BY <1>1, <1>2, PTL DEF Spec

(***************************************************************************)
(* Theorems                                                                *)
(***************************************************************************)
\* The journal always passes the schema it is written and read with.
THEOREM TypeCorrect == Spec => []TypeOK
<1>1. IInv => TypeOK
  BY DEF IInv
<1> QED BY <1>1, Invariance, PTL

\* Unless a write replaced another journal than the one it started from, every
\* transaction that left can be found from the journal (WriteAhead).
THEOREM OnRecordBeforeItLeaves == Spec => []WriteAheadUnlessOverwritten
<1>1. IInv => WriteAheadUnlessOverwritten
  BY DEF IInv
<1> QED BY <1>1, Invariance, PTL

\* Unless that happened, no intent is paid twice: two transactions for it are on
\* record as one, or spend the same notes.
THEOREM NoDoublePayment == Spec => []PaidAtMostOnce
<1>1. IInv => PaidAtMostOnce
  <2> SUFFICES ASSUME IInv, ~overwritten, NEW t \in mined, NEW u \in mined, t.intent = u.intent
               PROVE  t = u
    BY DEF PaidAtMostOnce
  <2>1. t \in sent /\ u \in sent
    BY DEF IInv, TypeOK
  <2>2. Recorded(journal, t) /\ Recorded(journal, u) /\ t.notes # {}
    BY <2>1 DEF IInv, WriteAheadUnlessOverwritten, WriteAhead, Recorded, NotesAreSpentOnce
  <2>3. CASE t.mode = "SELF_SIGNED"
    BY <2>2, <2>3 DEF Recorded
  <2>4. CASE t.mode # "SELF_SIGNED"
    <3>1. t.notes = u.notes
      BY <2>2, <2>4 DEF Recorded
    <3> QED BY <2>2, <3>1 DEF IInv, NotesAreSpentOnce
  <2> QED BY <2>3, <2>4
<1> QED BY <1>1, Invariance, PTL

\* A closed record never changes again, whichever runs overlap, unless a write
\* replaces another journal than the one it started from.
THEOREM ClosedRecordsStay == Spec => TerminalIsFinal
<1> DEFINE Final == \A i \in DOMAIN journal :
              journal[i].status \in {"MINED", "REVERTED", "REJECTED"} =>
                overwritten' \/ (i \in DOMAIN journal' /\ journal'[i] = journal[i])
<1>1. IInv /\ [Next]_vars => [Final]_vars
  <2> SUFFICES ASSUME IInv, Next PROVE Final
    OBVIOUS
  <2>1. CASE journal' = journal
    BY <2>1
  <2>2. ASSUME NEW r \in Runs, Write(r) PROVE Final
    <3>1. Grows(pending[r].base, pending[r].next)
      BY <2>2 DEF Write, IInv, WritesGrow
    <3>2. journal' = pending[r].next /\ (overwritten' \/ journal = pending[r].base)
      BY <2>2 DEF Write
    <3> QED BY <3>1, <3>2 DEF Grows, Continues, Closed
  <2> QED
    BY <2>1, <2>2
    DEF Next, TransferStep, RecoverStep, SharedStep, StartTransfer, Check, Prove, ReserveTransfer,
        Update, Send, AnswerAccepted, AnswerFailed, AnswerReported, AnswerAmbiguous,
        AnswerRejected, Lookup, Submitted, Receipt, NoReceipt, Ended, Crash, StartRecover,
        RecoverLocks, RecoverLookup, Mine, Revert
<1>2. Spec => [][Final]_vars
  <2> HIDE DEF Final
  <2> QED BY <1>1, Invariance, PTL DEF Spec
<1> QED BY <1>2 DEF TerminalIsFinal

(***************************************************************************)
(* What the journal says of the chain                                      *)
(*                                                                         *)
(* As long as nothing was overwritten a write acts as if its operation     *)
(* were one step, applied to the journal that it replaces.                 *)
(***************************************************************************)
\* The run has passed its reservation, or has read the record it recovers.
AtWork(r) ==
  \/ pc[r] \in {"send", "answer", "lookup", "submitted", "receipt", "end", "engine", "recover"}
  \/ pc[r] = "write" /\ pending[r].then # "send"

\* The run has registered a broadcaster transaction, and may have sent it.
Reserved(r) == job[r].cmd \in {"broadcast", "retry"} /\ (AtWork(r) \/ TxOf(r) \in sent)

\* The run has a record of its own or works on one.
Registered(r) == Reserved(r) \/ (job[r].cmd = "recover" /\ AtWork(r))

Tried(record, r) == \E n \in DOMAIN record.attempts : record.attempts[n].run = r

\* A transaction was sent by its run, which has not got another job since.
SentByItsRun ==
  \A t \in sent :
    /\ Transfers(t.run) /\ TxOf(t.run) = t
    /\ pc[t.run] \notin {"idle", "check", "prove", "reserve", "send", "engine", "recover"}
    /\ pc[t.run] = "write" => pending[t.run].then # "send"

\* A journal about to be written is the result of an operation of its run on the
\* one that was read.
Operation(r, base, next, then) ==
  LET i == job[r].intent
      cmd == job[r].cmd
  IN
  \/ then = "send" /\ cmd = "self" /\ next \in Reserve(base, TxOf(r))
  \/ then = "send" /\ cmd = "broadcast" /\ next \in ReserveBroadcaster(base, TxOf(r))
  \/ then = "send" /\ cmd = "retry" /\ next \in ReserveBroadcasterRetry(base, TxOf(r))
  \/ then = "lookup" /\ cmd \in {"broadcast", "retry"} /\ next \in MarkBroadcasterReported(base, i)
  \/ /\ then = "end" /\ cmd \in {"broadcast", "retry"}
     /\ \E retry \in BOOLEAN : next \in MarkBroadcasterAmbiguous(base, i, r, retry)
  \/ then = "end" /\ cmd = "retry" /\ next \in MarkBroadcasterRetryRejected(base, i, r)
  \/ then = "end" /\ cmd = "broadcast" /\ next \in MarkRejected(base, i) /\ TxOf(r) \notin sent
  \/ then = "receipt" /\ job[r].hash # NoTx /\ next \in MarkSubmitted(base, i, job[r].hash)
  \/ /\ then = "end"
     /\ \E succeeded \in BOOLEAN :
          next \in MarkMined(base, i, succeeded) /\ (succeeded \/ job[r].hash \in failed)

WritesAreOperations ==
  \A r \in Runs : pc[r] = "write" =>
    Operation(r, pending[r].base, pending[r].next, pending[r].then)

\* Two records that hold notes hold different ones.
HeldApart(j) ==
  /\ \A i \in DOMAIN j : j[i].mode = "BROADCASTER" => j[i].notes # {}
  /\ \A i, k \in DOMAIN j : i # k /\ Holds(j[i]) /\ Holds(j[k]) => j[i].notes \cap j[k].notes = {}

\* The record of a run is there, with its notes, and has its retry.
RunsAreOnRecord ==
  \A r \in Runs : Registered(r) =>
    /\ job[r].intent \in DOMAIN journal
    /\ LET record == journal[job[r].intent] IN
       /\ record.mode = "BROADCASTER" /\ record.notes = job[r].notes
       /\ job[r].cmd = "retry" => Tried(record, r)

\* Only one run made the first submission for an intent.
FirstIsUnique ==
  \A r, q \in Runs :
    /\ Reserved(r) /\ Reserved(q) /\ job[r].intent = job[q].intent
    /\ job[r].cmd = "broadcast" /\ job[q].cmd = "broadcast"
    => r = q

\* A hash that a run works with is its own, or was found on chain.
HashesAreFound ==
  \A r \in Runs : AtWork(r) /\ job[r].hash # NoTx =>
    IF job[r].cmd = "self" THEN job[r].hash = TxOf(r) /\ TxOf(r) \in sent
    ELSE job[r].hash \in mined /\ job[r].notes \subseteq job[r].hash.notes

\* Nothing was or will be sent for a record that is closed as rejected.
NothingSentWhenRejected ==
  \A i \in DOMAIN journal : journal[i].status = "REJECTED" =>
    \A r \in Runs : Reserved(r) /\ job[r].intent = i => TxOf(r) \notin sent /\ pc[r] # "send"

\* A run that has not sent anything works with no hash.
NoHashBeforeSending ==
  \A r \in Runs :
    pc[r] \in {"check", "prove", "reserve"} \/ (pc[r] = "write" /\ pending[r].then = "send") =>
      job[r].hash = NoTx

\* Only a broadcaster transaction is looked for by its notes.
LookupsAreForBroadcasters ==
  \A r \in Runs : pc[r] \in {"lookup", "engine", "recover"} => job[r].cmd # "self"

BroadcastersDoNotRevert ==
  \A i \in DOMAIN journal : journal[i].mode = "BROADCASTER" => journal[i].status # "REVERTED"

RecordsInv ==
  /\ SentByItsRun
  /\ WritesAreOperations
  /\ NoHashBeforeSending
  /\ LookupsAreForBroadcasters
  /\ mined \cap failed = {}
  /\ ~overwritten =>
       /\ HeldApart(journal)
       /\ RunsAreOnRecord
       /\ FirstIsUnique
       /\ HashesAreFound
       /\ NothingSentWhenRejected
       /\ BroadcastersDoNotRevert
       /\ CanonicalHashIsOnChain

\* What an operation on an existing record keeps: its mode and notes, the runs
\* that tried, and that it did not hold its notes if it does not.
Keeps(old, new) ==
  /\ new.mode = old.mode /\ new.notes = old.notes
  /\ Holds(new) => Holds(old)
  /\ \A q \in Runs : Tried(old, q) => Tried(new, q)

Replaces(j, k, i) ==
  /\ i \in DOMAIN j /\ DOMAIN k = DOMAIN j
  /\ \A x \in DOMAIN j : x # i => k[x] = j[x]
  /\ Keeps(j[i], k[i])

\* Neither its status nor its hash changes.
SameFate(old, new) == new.status = old.status /\ new.hash = old.hash

\* Settling attempts changes no run of theirs.
LEMMA SettleKeepsRuns ==
  ASSUME NEW a \in Seq(Attempt), NEW r, NEW outcome,
         NEW n \in DOMAIN a
  PROVE  /\ n \in DOMAIN Settle(a, r, outcome) /\ Settle(a, r, outcome)[n].run = a[n].run
         /\ n \in DOMAIN SettleLastReserved(a) /\ SettleLastReserved(a)[n].run = a[n].run
<1>1. a[n] \in Attempt
  BY ElementOfSeq
<1> QED BY <1>1 DEF Settle, SettleLastReserved, Attempt

\* markBroadcasterReported
LEMMA ReportReplaces ==
  ASSUME NEW j, JournalOK(j), NEW i, NEW k \in MarkBroadcasterReported(j, i)
  PROVE  Replaces(j, k, i) /\ SameFate(j[i], k[i])
<1> DEFINE settled == SettleLastReserved(j[i].attempts)
           new == [j[i] EXCEPT !.reported = TRUE, !.attempts = settled]
<1>1. i \in DOMAIN j /\ (k = j \/ k = Stored(j, i, new))
  BY DEF MarkBroadcasterReported, Stored
<1>2. RecordOK(j[i]) /\ j[i].attempts \in Seq(Attempt)
  BY <1>1 DEF JournalOK, RecordOK, Records
<1>3. CASE k = j
  BY <1>1, <1>3 DEF Replaces, Keeps, SameFate
<1>4. CASE k = Stored(j, i, new)
  <2>1. DOMAIN k = DOMAIN j /\ k[i] = new /\ \A x \in DOMAIN j : x # i => k[x] = j[x]
    BY <1>1, <1>4 DEF Stored
  <2>2. \A n \in DOMAIN j[i].attempts : n \in DOMAIN settled /\ settled[n].run = j[i].attempts[n].run
    BY <1>2, SettleKeepsRuns
  <2>3. Keeps(j[i], new) /\ SameFate(j[i], new)
    <3> HIDE DEF settled
    <3> QED BY <1>2, <2>2 DEF RecordOK, Records, Keeps, Holds, Tried, SameFate
  <2> QED BY <1>1, <2>1, <2>3 DEF Replaces
<1> QED BY <1>1, <1>3, <1>4

\* markBroadcasterAmbiguous
LEMMA AmbiguousReplaces ==
  ASSUME NEW j, JournalOK(j), NEW i, NEW r, NEW retry,
         NEW k \in MarkBroadcasterAmbiguous(j, i, r, retry)
  PROVE  Replaces(j, k, i) /\ SameFate(j[i], k[i])
<1> DEFINE settled == Settle(j[i].attempts, r, "AMBIGUOUS")
           new == [j[i] EXCEPT !.ambiguous = TRUE, !.attempts = settled]
<1>1. i \in DOMAIN j /\ k = Stored(j, i, new)
  BY DEF MarkBroadcasterAmbiguous, Unresolved, Stored
<1>2. RecordOK(j[i]) /\ j[i].attempts \in Seq(Attempt)
  BY <1>1 DEF JournalOK, RecordOK, Records
<1>3. DOMAIN k = DOMAIN j /\ k[i] = new /\ \A x \in DOMAIN j : x # i => k[x] = j[x]
  BY <1>1 DEF Stored
<1>4. \A n \in DOMAIN j[i].attempts : n \in DOMAIN settled /\ settled[n].run = j[i].attempts[n].run
  BY <1>2, SettleKeepsRuns
<1>5. Keeps(j[i], new) /\ SameFate(j[i], new)
  <2> HIDE DEF settled
  <2> QED BY <1>2, <1>4 DEF RecordOK, Records, Keeps, Holds, Tried, SameFate
<1> QED BY <1>1, <1>3, <1>5 DEF Replaces

\* markBroadcasterRetryRejected
LEMMA RetryRejectedReplaces ==
  ASSUME NEW j, JournalOK(j), NEW i, NEW r, NEW k \in MarkBroadcasterRetryRejected(j, i, r)
  PROVE  Replaces(j, k, i) /\ SameFate(j[i], k[i])
<1> DEFINE settled == Settle(j[i].attempts, r, "REJECTED")
           new == [j[i] EXCEPT !.attempts = settled]
<1>1. i \in DOMAIN j /\ k = Stored(j, i, new)
  BY DEF MarkBroadcasterRetryRejected, Unresolved, Stored
<1>2. RecordOK(j[i]) /\ j[i].attempts \in Seq(Attempt)
  BY <1>1 DEF JournalOK, RecordOK, Records
<1>3. DOMAIN k = DOMAIN j /\ k[i] = new /\ \A x \in DOMAIN j : x # i => k[x] = j[x]
  BY <1>1 DEF Stored
<1>4. \A n \in DOMAIN j[i].attempts : n \in DOMAIN settled /\ settled[n].run = j[i].attempts[n].run
  BY <1>2, SettleKeepsRuns
<1>5. Keeps(j[i], new) /\ SameFate(j[i], new)
  <2> HIDE DEF settled
  <2> QED BY <1>2, <1>4 DEF RecordOK, Records, Keeps, Holds, Tried, SameFate
<1> QED BY <1>1, <1>3, <1>5 DEF Replaces

\* markRejected closes a record that nobody has tried again.
LEMMA RejectedReplaces ==
  ASSUME NEW j, JournalOK(j), NEW i, NEW k \in MarkRejected(j, i)
  PROVE  /\ Replaces(j, k, i) /\ k[i].status = "REJECTED" /\ k[i].hash = j[i].hash
         /\ j[i].attempts = <<>>
<1> DEFINE new == [j[i] EXCEPT !.status = "REJECTED"]
<1>1. i \in DOMAIN j /\ k = Stored(j, i, new) /\ j[i].attempts = <<>>
  BY DEF MarkRejected, Unresolved, Stored
<1>2. RecordOK(j[i])
  BY <1>1 DEF JournalOK
<1>3. DOMAIN k = DOMAIN j /\ k[i] = new /\ \A x \in DOMAIN j : x # i => k[x] = j[x]
  BY <1>1 DEF Stored
<1>4. Keeps(j[i], new) /\ new.status = "REJECTED" /\ new.hash = j[i].hash
  BY <1>2 DEF RecordOK, Records, Keeps, Holds, Tried
<1> QED BY <1>1, <1>3, <1>4 DEF Replaces

\* markSubmitted gives its hash to an open record, or changes nothing.
LEMMA SubmittedReplaces ==
  ASSUME NEW j, JournalOK(j), NEW i, NEW tx, NEW k \in MarkSubmitted(j, i, tx)
  PROVE  /\ Replaces(j, k, i)
         /\ \/ SameFate(j[i], k[i])
            \/ j[i].status = "SUBMITTING" /\ k[i].status = "SUBMITTED" /\ k[i].hash = tx
<1> DEFINE new == [j[i] EXCEPT !.status = "SUBMITTED", !.hash = tx]
<1>1. i \in DOMAIN j /\ RecordOK(j[i])
  BY DEF MarkSubmitted, JournalOK
<1>2. CASE k = j
  BY <1>1, <1>2 DEF Replaces, Keeps, SameFate
<1>3. CASE k # j
  <2>1. k = Stored(j, i, new) /\ j[i].status = "SUBMITTING"
    BY <1>1, <1>3 DEF MarkSubmitted, Stored
  <2>2. DOMAIN k = DOMAIN j /\ k[i] = new /\ \A x \in DOMAIN j : x # i => k[x] = j[x]
    BY <1>1, <2>1 DEF Stored
  <2>3. Keeps(j[i], new) /\ new.status = "SUBMITTED" /\ new.hash = tx
    BY <1>1, <2>1 DEF RecordOK, Records, Keeps, Holds, Tried
  <2> QED BY <1>1, <2>1, <2>2, <2>3 DEF Replaces
<1> QED BY <1>2, <1>3

\* markMined closes a submitted record as its receipt says, or changes nothing.
LEMMA MinedReplaces ==
  ASSUME NEW j, JournalOK(j), NEW i, NEW succeeded, NEW k \in MarkMined(j, i, succeeded)
  PROVE  /\ Replaces(j, k, i) /\ k[i].hash = j[i].hash
         /\ k[i].status = j[i].status \/ k[i].status = IF succeeded THEN "MINED" ELSE "REVERTED"
<1> DEFINE target == IF succeeded THEN "MINED" ELSE "REVERTED"
           new == [j[i] EXCEPT !.status = target]
<1>1. i \in DOMAIN j /\ RecordOK(j[i])
  BY DEF MarkMined, JournalOK
<1>2. CASE k = j
  BY <1>1, <1>2 DEF Replaces, Keeps
<1>3. CASE k # j
  <2>1. k = Stored(j, i, new) /\ j[i].status = "SUBMITTED"
    BY <1>1, <1>3 DEF MarkMined, Stored
  <2>2. DOMAIN k = DOMAIN j /\ k[i] = new /\ \A x \in DOMAIN j : x # i => k[x] = j[x]
    BY <1>1, <2>1 DEF Stored
  <2>3. Keeps(j[i], new) /\ new.status = target /\ new.hash = j[i].hash
    <3> HIDE DEF target
    <3> QED BY <1>1, <2>1 DEF RecordOK, Records, Keeps, Holds, Tried
  <2> QED BY <1>1, <2>1, <2>2, <2>3 DEF Replaces
<1> QED BY <1>2, <1>3

\* reserveBroadcasterRetry adds the attempt of the run to an open record.
LEMMA RetryReplaces ==
  ASSUME NEW j, JournalOK(j), NEW tx \in Transactions, NEW k \in ReserveBroadcasterRetry(j, tx)
  PROVE  /\ Replaces(j, k, tx.intent) /\ SameFate(j[tx.intent], k[tx.intent])
         /\ j[tx.intent].status = "SUBMITTING" /\ Tried(k[tx.intent], tx.run) /\ k # j
<1> DEFINE i == tx.intent
           open == [run |-> tx.run, outcome |-> "RESERVED"]
           attempts == Append(j[i].attempts, open)
           new == [j[i] EXCEPT !.attempts = attempts]
<1>1. i \in DOMAIN j /\ k = Stored(j, i, new) /\ j[i].status = "SUBMITTING"
  BY DEF ReserveBroadcasterRetry, Retryable, Unresolved, Stored
<1>2. RecordOK(j[i]) /\ j[i].attempts \in Seq(Attempt) /\ open \in Attempt
  BY <1>1 DEF JournalOK, RecordOK, Records, Transactions, Attempt, Outcome
<1>3. DOMAIN k = DOMAIN j /\ k[i] = new /\ \A x \in DOMAIN j : x # i => k[x] = j[x]
  BY <1>1 DEF Stored
<1>4. /\ Len(attempts) = Len(j[i].attempts) + 1 /\ Len(j[i].attempts) \in Nat
      /\ DOMAIN attempts = 1..Len(attempts) /\ attempts[Len(attempts)] = open
      /\ \A n \in DOMAIN j[i].attempts : n \in DOMAIN attempts /\ attempts[n] = j[i].attempts[n]
  <2>1. Len(j[i].attempts) \in Nat /\ DOMAIN j[i].attempts = 1..Len(j[i].attempts)
    BY <1>2, LenProperties
  <2> HIDE DEF open
  <2> QED BY <1>2, <2>1, AppendProperties
<1>5. new.attempts = attempts
  BY <1>2 DEF RecordOK, Records
<1>6. Keeps(j[i], new) /\ SameFate(j[i], new) /\ Tried(new, tx.run) /\ new # j[i]
  <2>1. Tried(new, tx.run)
    <3>1. Len(attempts) \in DOMAIN attempts /\ attempts[Len(attempts)].run = tx.run
      <4> HIDE DEF attempts
      <4> QED BY <1>4
    <3> HIDE DEF attempts, new
    <3> QED BY <1>5, <3>1 DEF Tried
  <2>2. new # j[i]
    <3>1. attempts # j[i].attempts
      <4> HIDE DEF attempts
      <4> QED BY <1>4
    <3> HIDE DEF attempts, new
    <3> QED BY <1>5, <3>1
  <2>3. Keeps(j[i], new) /\ SameFate(j[i], new)
    <3> HIDE DEF attempts
    <3> QED BY <1>2, <1>4, <1>5 DEF RecordOK, Records, Keeps, Holds, Tried, SameFate
  <2> QED BY <2>1, <2>2, <2>3
<1> QED BY <1>1, <1>3, <1>6 DEF Replaces

(***************************************************************************)
(* Steps that leave the journal and the chain alone                        *)
(***************************************************************************)
Parts(r) == <<job[r].cmd, job[r].intent, job[r].notes>>

\* TxOf is a function of the run and these parts.
LEMMA SamePartsSameTransaction ==
  ASSUME NEW r, job'[r].cmd = job[r].cmd, job'[r].intent = job[r].intent,
         job'[r].notes = job[r].notes
  PROVE  TxOf(r)' = TxOf(r)
BY DEF TxOf

\* What a transaction tells of its run.
LEMMA TransactionNamesItsRun ==
  ASSUME NEW r
  PROVE  TxOf(r).run = r /\ TxOf(r).intent = job[r].intent /\ TxOf(r).notes = job[r].notes
BY DEF TxOf

\* An operation decided on stays one while others send, mine and write.
LEMMA OperationStays ==
  ASSUME NEW q, pc[q] = "write" =>
           Operation(q, pending[q].base, pending[q].next, pending[q].then),
         pc'[q] = pc[q], job'[q] = job[q], pending'[q] = pending[q],
         TxOf(q) \notin sent => TxOf(q) \notin sent', failed \subseteq failed'
  PROVE  (pc[q] = "write" =>
           Operation(q, pending[q].base, pending[q].next, pending[q].then))'
<1> SUFFICES ASSUME pc[q] = "write"
             PROVE  Operation(q, pending[q].base, pending[q].next, pending[q].then)'
  OBVIOUS
<1>1. TxOf(q)' = TxOf(q)
  BY DEF TxOf
<1> QED BY <1>1 DEF Operation

\* A step of one run preserves the invariant if the run keeps to what it has
\* sent, and registers nothing but a recovery of a record it has just read.
LEMMA QuietStep ==
  ASSUME IInv, RecordsInv, NEW r \in Runs,
         UNCHANGED <<journal, world, overwritten>>,
         \A q \in Runs : q # r => pc'[q] = pc[q] /\ job'[q] = job[q] /\ pending'[q] = pending[q],
         \A t \in sent : t.run = r =>
           /\ job'[r].cmd = job[r].cmd /\ job'[r].intent = job[r].intent
           /\ job'[r].notes = job[r].notes
           /\ pc'[r] \notin {"idle", "check", "prove", "reserve", "send", "engine", "recover"}
           /\ pc'[r] = "write" => pending'[r].then # "send",
         pc'[r] = "write" => Operation(r, pending[r].base, pending[r].next, pending[r].then)',
         pc'[r] \in {"check", "prove", "reserve"} \/ (pc'[r] = "write" /\ pending'[r].then = "send") =>
           job'[r].hash = NoTx,
         pc'[r] # "send",
         pc'[r] \in {"lookup", "engine", "recover"} => job'[r].cmd # "self",
         AtWork(r)' =>
           \/ /\ AtWork(r) /\ job'[r].cmd = job[r].cmd /\ job'[r].intent = job[r].intent
              /\ job'[r].notes = job[r].notes
           \/ /\ job'[r].cmd = "recover"
              /\ ~overwritten =>
                   /\ job'[r].intent \in DOMAIN journal
                   /\ journal[job'[r].intent].mode = "BROADCASTER"
                   /\ journal[job'[r].intent].notes = job'[r].notes,
         ~overwritten /\ AtWork(r)' /\ job'[r].hash # NoTx =>
           IF job'[r].cmd = "self" THEN job'[r].hash = TxOf(r)' /\ TxOf(r)' \in sent
           ELSE job'[r].hash \in mined /\ job'[r].notes \subseteq job'[r].hash.notes
  PROVE  RecordsInv'
<1>1. sent' = sent /\ mined' = mined /\ failed' = failed /\ journal' = journal
      /\ overwritten' = overwritten
  BY DEF world
<1>2. \A q \in Runs : q # r => TxOf(q)' = TxOf(q) /\ AtWork(q)' = AtWork(q)
                              /\ Transfers(q)' = Transfers(q)
  BY DEF TxOf, AtWork, Transfers
<1>3. \A t \in sent : t.run = r => TxOf(r)' = TxOf(r) /\ Transfers(r)' = Transfers(r)
  BY DEF TxOf, Transfers
<1>4. \A t \in sent : t.run \in Runs
  BY DEF IInv, TypeOK, Transactions
<1>5. SentByItsRun'
  BY <1>1, <1>2, <1>3, <1>4 DEF RecordsInv, SentByItsRun
<1>6. WritesAreOperations'
  <2>1. \A q \in Runs : q # r /\ pc'[q] = "write" =>
          Operation(q, pending[q].base, pending[q].next, pending[q].then)'
    <3> SUFFICES ASSUME NEW q \in Runs, q # r
                 PROVE  (pc[q] = "write" =>
                          Operation(q, pending[q].base, pending[q].next, pending[q].then))'
      OBVIOUS
    <3>1. pc[q] = "write" => Operation(q, pending[q].base, pending[q].next, pending[q].then)
      BY DEF RecordsInv, WritesAreOperations
    <3>2. pc'[q] = pc[q] /\ job'[q] = job[q] /\ pending'[q] = pending[q]
      OBVIOUS
    <3>3. sent' = sent /\ failed \subseteq failed'
      BY <1>1
    <3> QED BY <3>1, <3>2, <3>3, OperationStays
  <2> QED BY <2>1 DEF WritesAreOperations
<1>7. NoHashBeforeSending' /\ LookupsAreForBroadcasters' /\ (mined \cap failed = {})'
  BY <1>1 DEF RecordsInv, NoHashBeforeSending, LookupsAreForBroadcasters
<1>8. ASSUME ~overwritten
      PROVE  /\ HeldApart(journal)' /\ RunsAreOnRecord' /\ FirstIsUnique' /\ HashesAreFound'
             /\ NothingSentWhenRejected' /\ BroadcastersDoNotRevert' /\ CanonicalHashIsOnChain'
  <2>1. /\ HeldApart(journal) /\ RunsAreOnRecord /\ FirstIsUnique /\ HashesAreFound
        /\ NothingSentWhenRejected /\ BroadcastersDoNotRevert /\ CanonicalHashIsOnChain
    BY <1>8 DEF RecordsInv
  <2>2. TxOf(r)' \in sent => /\ TxOf(r)' = TxOf(r) /\ job'[r].cmd = job[r].cmd
                             /\ job'[r].intent = job[r].intent /\ job'[r].notes = job[r].notes
    <3>1. (TxOf(r)').run = r
      BY DEF TxOf
    <3> QED BY <1>3, <3>1
  <2>3. Reserved(r)' => /\ Reserved(r) /\ job'[r].cmd = job[r].cmd
                        /\ job'[r].intent = job[r].intent /\ job'[r].notes = job[r].notes
    BY <1>1, <2>2 DEF Reserved
  <2>4. \A q \in Runs : q # r => Reserved(q)' = Reserved(q) /\ Registered(q)' = Registered(q)
    BY <1>1, <1>2 DEF Reserved, Registered
  <2>5. Registered(r)' =>
          /\ job'[r].intent \in DOMAIN journal
          /\ journal[job'[r].intent].mode = "BROADCASTER"
          /\ journal[job'[r].intent].notes = job'[r].notes
          /\ job'[r].cmd = "retry" => Tried(journal[job'[r].intent], r)
    <3>1. CASE Reserved(r)'
      BY <2>1, <2>3, <3>1 DEF RunsAreOnRecord, Registered
    <3>2. CASE job'[r].cmd = "recover" /\ AtWork(r)'
      BY <1>8, <2>1, <3>2 DEF RunsAreOnRecord, Registered
    <3> QED BY <3>1, <3>2 DEF Registered
  <2>6. RunsAreOnRecord'
    BY <1>1, <2>1, <2>4, <2>5 DEF RunsAreOnRecord
  <2>7. FirstIsUnique'
    <3>1. \A q \in Runs : Reserved(q)' => Reserved(q) /\ job'[q].cmd = job[q].cmd
                                          /\ job'[q].intent = job[q].intent
      BY <2>3, <2>4
    <3> QED BY <2>1, <3>1 DEF FirstIsUnique
  <2>8. HashesAreFound'
    BY <1>1, <1>2, <1>8, <2>1 DEF HashesAreFound
  <2>9. NothingSentWhenRejected'
    BY <1>1, <1>2, <2>1, <2>2, <2>3, <2>4 DEF NothingSentWhenRejected
  <2>10. HeldApart(journal)' /\ BroadcastersDoNotRevert' /\ CanonicalHashIsOnChain'
    BY <1>1, <2>1 DEF HeldApart, Holds, BroadcastersDoNotRevert, CanonicalHashIsOnChain
  <2> QED BY <2>6, <2>7, <2>8, <2>9, <2>10
<1> QED BY <1>1, <1>5, <1>6, <1>7, <1>8 DEF RecordsInv

\* The read half of a journal operation.
LEMMA UpdateKeepsRecords ==
  ASSUME IInv, RecordsInv, NEW r \in Runs, NEW journals, NEW then, Update(r, journals, then),
         \/ AtWork(r) /\ then \in {"lookup", "receipt", "end"}
         \/ pc[r] = "reserve" /\ then = "send" /\ journal \notin journals,
         \A k \in journals : Operation(r, journal, k, then)
  PROVE  RecordsInv'
<1>0. DOMAIN pending = Runs /\ pc \in [Runs -> Labels]
  BY DEF IInv, JobsFit, TypeOK
<1>1. UNCHANGED <<journal, job, world, overwritten>>
  BY DEF Update
<1>2. /\ \A q \in Runs : q # r => pc'[q] = pc[q] /\ job'[q] = job[q] /\ pending'[q] = pending[q]
      /\ \/ pc'[r] = "ended"
         \/ pc'[r] = then /\ then # "send"
         \/ pc'[r] = "write" /\ pending'[r].then = then
  BY <1>0, <1>1 DEF Update, End, Goto, Labels
<1>3. pc'[r] = "write" => /\ pending'[r].then = then /\ pending'[r].base = journal
                          /\ pending'[r].next \in journals
  BY <1>0 DEF Update, End, Goto
<1>4. TxOf(r)' = TxOf(r)
  BY <1>1 DEF TxOf
<1>5. pc'[r] = "write" => Operation(r, pending[r].base, pending[r].next, pending[r].then)'
  <2> SUFFICES ASSUME pc'[r] = "write"
               PROVE  Operation(r, pending[r].base, pending[r].next, pending[r].then)'
    OBVIOUS
  <2>1. Operation(r, journal, pending'[r].next, then)
    BY <1>3
  <2>2. job'[r] = job[r] /\ sent' = sent /\ failed' = failed
    BY <1>1 DEF world
  <2> QED BY <1>3, <1>4, <2>1, <2>2 DEF Operation
<1>6. pc'[r] = "lookup" => job[r].cmd # "self"
  <2>1. pc'[r] = "lookup" => journals = {journal} /\ then = "lookup"
    BY <1>0 DEF Update, End, Goto
  <2>2. pc'[r] = "lookup" => Operation(r, journal, journal, "lookup")
    BY <2>1
  <2> QED BY <2>2 DEF Operation
<1>7. pc'[r] \in {"ended", "lookup", "receipt", "end", "write"}
  BY <1>2
<1>8. CASE AtWork(r) /\ then \in {"lookup", "receipt", "end"}
  <2>1. \A t \in sent : t.run = r =>
          /\ pc'[r] \notin {"idle", "check", "prove", "reserve", "send", "engine", "recover"}
          /\ pc'[r] = "write" => pending'[r].then # "send"
    BY <1>2, <1>8
  <2>2. ~overwritten /\ job[r].hash # NoTx =>
          IF job[r].cmd = "self" THEN job[r].hash = TxOf(r) /\ TxOf(r) \in sent
          ELSE job[r].hash \in mined /\ job[r].notes \subseteq job[r].hash.notes
    BY <1>8 DEF RecordsInv, HashesAreFound
  <2>3. pc'[r] # "send" /\ pc'[r] \notin {"check", "prove", "reserve"}
        /\ ~(pc'[r] = "write" /\ pending'[r].then = "send")
    BY <1>2, <1>8
  <2> QED BY <1>1, <1>2, <1>4, <1>5, <1>8, <1>6, <1>7, <2>1, <2>2, <2>3, QuietStep
<1>9. CASE pc[r] = "reserve" /\ then = "send"
  <2>1. \A t \in sent : t.run # r
    BY <1>9 DEF RecordsInv, SentByItsRun
  <2>2. job[r].hash = NoTx
    BY <1>9 DEF RecordsInv, NoHashBeforeSending
  <2>3. ~AtWork(r)' /\ pc'[r] # "send"
    BY <1>2, <1>9 DEF AtWork
  <2> QED BY <1>1, <1>2, <1>5, <1>6, <1>7, <2>1, <2>2, <2>3, QuietStep
<1> QED BY <1>8, <1>9

\* A command that ends, wherever it was.
LEMMA EndKeepsRecords ==
  ASSUME IInv, RecordsInv, NEW r \in Runs, End(r),
         UNCHANGED <<journal, job, world, overwritten>>,
         \A q \in Runs : q # r => pending'[q] = pending[q]
  PROVE  RecordsInv'
<1>1. pc'[r] = "ended" /\ \A q \in Runs : q # r => pc'[q] = pc[q]
  BY DEF End, Goto, IInv, TypeOK
<1>2. ~AtWork(r)'
  BY <1>1 DEF AtWork
<1> QED BY <1>1, <1>2, QuietStep

\* Taking the lock, checking, proving and reserving: nothing was sent before.
LEMMA PreparingKeepsRecords ==
  ASSUME IInv, RecordsInv, NEW r \in Runs,
         \/ \E cmd \in Commands \cap TransferCommands, i \in Intents : StartTransfer(r, cmd, i)
         \/ Check(r)
         \/ \E notes \in SUBSET Notes : Prove(r, notes)
  PROVE  RecordsInv'
<1>1. DOMAIN job = Runs /\ DOMAIN pending = Runs /\ pc \in [Runs -> Labels]
  BY DEF IInv, JobsFit, TypeOK
<1>2. pc[r] \in {"idle", "check", "prove"}
  BY DEF StartTransfer, Check, Prove
<1>3. \A t \in sent : t.run # r
  BY <1>2 DEF RecordsInv, SentByItsRun
<1>4. /\ UNCHANGED <<journal, world, overwritten>> /\ pending' = pending
      /\ \A q \in Runs : q # r => pc'[q] = pc[q] /\ job'[q] = job[q]
      /\ pc'[r] \in {"check", "prove", "reserve", "ended"}
  BY <1>1 DEF StartTransfer, Check, Prove, End, Goto
<1>5. pc'[r] # "ended" => job'[r].hash = NoTx
  <2>1. pc[r] # "idle" => job[r] \in Jobs /\ job[r].hash = NoTx
    BY <1>2 DEF IInv, JobsFit, RecordsInv, NoHashBeforeSending
  <2> QED BY <1>1, <2>1 DEF StartTransfer, Check, Prove, Jobs
<1>6. ~AtWork(r)'
  BY <1>4 DEF AtWork
<1> QED BY <1>3, <1>4, <1>5, <1>6, QuietStep

\* Reserving only decides on a write: no reservation leaves the journal as it is.
LEMMA ReserveTransferKeepsRecords ==
  ASSUME IInv, RecordsInv, NEW r \in Runs, ReserveTransfer(r)
  PROVE  RecordsInv'
<1>1. /\ pc[r] = "reserve" /\ job[r] \in Jobs /\ Transfers(r) /\ JournalOK(journal)
  BY TypeOKParts DEF ReserveTransfer, IInv, JobsFit
<1>2. TxOf(r) \in Transactions
  BY <1>1, TxOfIsTransaction
<1>3. CASE job[r].cmd = "self"
  <2>1. Update(r, Reserve(journal, TxOf(r)), "send")
    BY <1>3 DEF ReserveTransfer
  <2>2. journal \notin Reserve(journal, TxOf(r))
    BY DEF Reserve, Unused, Stored
  <2>3. \A k \in Reserve(journal, TxOf(r)) : Operation(r, journal, k, "send")
    BY <1>3 DEF Operation
  <2> QED BY <1>1, <2>1, <2>2, <2>3, UpdateKeepsRecords
<1>4. CASE job[r].cmd = "broadcast"
  <2>1. Update(r, ReserveBroadcaster(journal, TxOf(r)), "send")
    BY <1>4 DEF ReserveTransfer
  <2>2. journal \notin ReserveBroadcaster(journal, TxOf(r))
    BY DEF ReserveBroadcaster, Unused, Stored
  <2>3. \A k \in ReserveBroadcaster(journal, TxOf(r)) : Operation(r, journal, k, "send")
    BY <1>4 DEF Operation
  <2> QED BY <1>1, <2>1, <2>2, <2>3, UpdateKeepsRecords
<1>5. CASE job[r].cmd = "retry"
  <2>1. Update(r, ReserveBroadcasterRetry(journal, TxOf(r)), "send")
    BY <1>5 DEF ReserveTransfer
  <2>2. journal \notin ReserveBroadcasterRetry(journal, TxOf(r))
    BY <1>1, <1>2, RetryReplaces
  <2>3. \A k \in ReserveBroadcasterRetry(journal, TxOf(r)) : Operation(r, journal, k, "send")
    BY <1>5 DEF Operation
  <2> QED BY <1>1, <2>1, <2>2, <2>3, UpdateKeepsRecords
<1> QED BY <1>1, <1>3, <1>4, <1>5 DEF Transfers, TransferCommands

\* Sending: what leaves is the transaction of a run at work, whose record is open.
LEMMA SendKeepsRecords ==
  ASSUME IInv, RecordsInv, NEW r \in Runs, Send(r)
  PROVE  RecordsInv'
<1>1. /\ pc[r] = "send" /\ Transfers(r) /\ pc \in [Runs -> Labels]
      /\ sent \subseteq Transactions
  BY DEF Send, IInv, JobsFit, TypeOK
<1>2. /\ UNCHANGED <<journal, lock, job, pending, mined, failed, overwritten>>
      /\ sent' \in {sent, sent \cup {TxOf(r)}}
      /\ pc'[r] = "answer" /\ \A q \in Runs : q # r => pc'[q] = pc[q]
  BY <1>1 DEF Send, Goto
<1>3. /\ \A q : TxOf(q)' = TxOf(q) /\ Transfers(q)' = Transfers(q)
      /\ \A q \in Runs : AtWork(q)' <=> AtWork(q)
      /\ TxOf(r).run = r /\ AtWork(r)
  BY <1>1, <1>2 DEF TxOf, Transfers, AtWork
<1>4. SentByItsRun'
  <2>1. \A t \in sent : t.run # r /\ t.run \in Runs
    BY <1>1 DEF RecordsInv, SentByItsRun, Transactions
  <2> QED BY <1>1, <1>2, <1>3, <2>1 DEF RecordsInv, SentByItsRun
<1>5. WritesAreOperations'
  <2> SUFFICES ASSUME NEW q \in Runs
               PROVE  (pc[q] = "write" =>
                        Operation(q, pending[q].base, pending[q].next, pending[q].then))'
    BY DEF WritesAreOperations
  <2>1. CASE q = r
    BY <1>2, <2>1
  <2>2. CASE q # r
    <3>1. pc[q] = "write" => Operation(q, pending[q].base, pending[q].next, pending[q].then)
      BY DEF RecordsInv, WritesAreOperations
    <3>2. pc'[q] = pc[q] /\ job'[q] = job[q] /\ pending'[q] = pending[q] /\ failed \subseteq failed'
      BY <1>2, <2>2
    <3>3. TxOf(q) \notin sent => TxOf(q) \notin sent'
      BY <1>2, <1>3, <2>2, TransactionNamesItsRun
    <3> QED BY <3>1, <3>2, <3>3, OperationStays
  <2> QED BY <2>1, <2>2
<1>6. NoHashBeforeSending' /\ LookupsAreForBroadcasters' /\ (mined \cap failed = {})'
  BY <1>1, <1>2 DEF RecordsInv, NoHashBeforeSending, LookupsAreForBroadcasters
<1>7. ASSUME ~overwritten
      PROVE  /\ HeldApart(journal)' /\ RunsAreOnRecord' /\ FirstIsUnique' /\ HashesAreFound'
             /\ NothingSentWhenRejected' /\ BroadcastersDoNotRevert' /\ CanonicalHashIsOnChain'
  <2>1. /\ HeldApart(journal) /\ RunsAreOnRecord /\ FirstIsUnique /\ HashesAreFound
        /\ NothingSentWhenRejected /\ BroadcastersDoNotRevert /\ CanonicalHashIsOnChain
    BY <1>7 DEF RecordsInv
  <2>2. \A q \in Runs : (Reserved(q)' <=> Reserved(q)) /\ (Registered(q)' <=> Registered(q))
    <3> SUFFICES ASSUME NEW q \in Runs
                 PROVE  (Reserved(q)' <=> Reserved(q)) /\ (Registered(q)' <=> Registered(q))
      OBVIOUS
    <3>1. CASE q = r
      BY <1>2, <1>3, <3>1 DEF Reserved, Registered
    <3>2. CASE q # r
      <4>1. TxOf(q) \in sent' <=> TxOf(q) \in sent
        BY <1>2, <1>3, <3>2, TransactionNamesItsRun
      <4> QED BY <1>2, <1>3, <4>1 DEF Reserved, Registered
    <3> QED BY <3>1, <3>2
  <2>3. RunsAreOnRecord' /\ FirstIsUnique'
    BY <1>2, <2>1, <2>2 DEF RunsAreOnRecord, FirstIsUnique
  <2>4. HashesAreFound'
    BY <1>2, <1>3, <2>1 DEF HashesAreFound
  <2>5. NothingSentWhenRejected'
    <3> SUFFICES ASSUME NEW i \in DOMAIN journal, journal[i].status = "REJECTED",
                        NEW q \in Runs, Reserved(q), job[q].intent = i
                 PROVE  TxOf(q) \notin sent' /\ pc'[q] # "send"
      BY <1>2, <1>3, <2>2 DEF NothingSentWhenRejected
    <3>1. TxOf(q) \notin sent /\ pc[q] # "send"
      BY <2>1 DEF NothingSentWhenRejected
    <3>2. q # r
      BY <1>1, <3>1
    <3> QED BY <1>2, <1>3, <3>1, <3>2, TransactionNamesItsRun
  <2>6. HeldApart(journal)' /\ BroadcastersDoNotRevert' /\ CanonicalHashIsOnChain'
    BY <1>2, <2>1 DEF HeldApart, BroadcastersDoNotRevert, CanonicalHashIsOnChain
  <2> QED BY <2>3, <2>4, <2>5, <2>6
<1> QED BY <1>2, <1>4, <1>5, <1>6, <1>7 DEF RecordsInv

\* What the broadcasters and the node answer.
LEMMA AnswerKeepsRecords ==
  ASSUME IInv, RecordsInv, NEW r \in Runs,
         \/ AnswerAccepted(r) \/ AnswerFailed(r)
         \/ AnswerReported(r) \/ AnswerAmbiguous(r) \/ AnswerRejected(r)
  PROVE  RecordsInv'
<1>0. pc[r] = "answer" /\ Transfers(r) /\ AtWork(r) /\ job[r] \in Jobs
  <2>1. pc[r] = "answer"
    BY DEF AnswerAccepted, AnswerFailed, AnswerReported, AnswerAmbiguous, AnswerRejected
  <2> QED BY <2>1 DEF IInv, JobsFit, AtWork
<1>1. CASE AnswerAccepted(r)
  <2>1. /\ job' = [job EXCEPT ![r].hash = TxOf(r)] /\ pc' = [pc EXCEPT ![r] = "submitted"]
        /\ UNCHANGED <<journal, lock, pending, world, overwritten>>
        /\ job[r].cmd = "self" /\ TxOf(r) \in sent
    BY <1>1 DEF AnswerAccepted, Goto
  <2>2. /\ pc'[r] = "submitted" /\ job'[r].hash = TxOf(r)
        /\ job'[r].cmd = job[r].cmd /\ job'[r].intent = job[r].intent
        /\ job'[r].notes = job[r].notes
        /\ \A q \in Runs : q # r => pc'[q] = pc[q] /\ job'[q] = job[q] /\ pending'[q] = pending[q]
    BY <1>0, <2>1 DEF IInv, TypeOK, JobsFit, Jobs
  <2>3. TxOf(r)' = TxOf(r)
    BY <2>2, SamePartsSameTransaction
  <2> QED BY <1>0, <2>1, <2>2, <2>3, QuietStep DEF world
<1>2. CASE AnswerFailed(r)
  BY <1>2, EndKeepsRecords DEF AnswerFailed
<1>3. CASE AnswerReported(r)
  <2>1. Update(r, MarkBroadcasterReported(journal, job[r].intent), "lookup")
    BY <1>3 DEF AnswerReported
  <2>2. \A k \in MarkBroadcasterReported(journal, job[r].intent) : Operation(r, journal, k, "lookup")
    BY <1>0, <1>3 DEF AnswerReported, Operation, Transfers, TransferCommands
  <2> QED BY <1>0, <2>1, <2>2, UpdateKeepsRecords
<1>4. CASE AnswerAmbiguous(r)
  <2> DEFINE ks == MarkBroadcasterAmbiguous(journal, job[r].intent, r, job[r].cmd = "retry")
  <2>1. Update(r, ks, "end") /\ job[r].cmd \in {"broadcast", "retry"}
    BY <1>0, <1>4 DEF AnswerAmbiguous, Transfers, TransferCommands
  <2>2. ASSUME NEW k \in ks
        PROVE  \E retry \in BOOLEAN : k \in MarkBroadcasterAmbiguous(journal, job[r].intent, r, retry)
    BY <2>2 DEF MarkBroadcasterAmbiguous
  <2>3. \A k \in ks : Operation(r, journal, k, "end")
    BY <2>1, <2>2 DEF Operation
  <2> HIDE DEF ks
  <2> QED BY <1>0, <2>1, <2>3, UpdateKeepsRecords
<1>5. CASE AnswerRejected(r)
  <2>0. job[r].cmd \in {"broadcast", "retry"} /\ TxOf(r) \notin sent
    BY <1>0, <1>5 DEF AnswerRejected, Transfers, TransferCommands
  <2>1. CASE job[r].cmd = "retry"
    <3>1. Update(r, MarkBroadcasterRetryRejected(journal, job[r].intent, r), "end")
      BY <1>5, <2>1 DEF AnswerRejected
    <3>2. \A k \in MarkBroadcasterRetryRejected(journal, job[r].intent, r) :
            Operation(r, journal, k, "end")
      BY <2>1 DEF Operation
    <3> QED BY <1>0, <3>1, <3>2, UpdateKeepsRecords
  <2>2. CASE job[r].cmd = "broadcast"
    <3>1. Update(r, MarkRejected(journal, job[r].intent), "end")
      BY <1>5, <2>2 DEF AnswerRejected
    <3>2. \A k \in MarkRejected(journal, job[r].intent) : Operation(r, journal, k, "end")
      BY <2>0, <2>2 DEF Operation
    <3> QED BY <1>0, <3>1, <3>2, UpdateKeepsRecords
  <2> QED BY <2>0, <2>1, <2>2
<1> QED BY <1>1, <1>2, <1>3, <1>4, <1>5

\* Looking up the hash, marking the record submitted, and its receipt.
LEMMA ClosingKeepsRecords ==
  ASSUME IInv, RecordsInv, NEW r \in Runs,
         Lookup(r) \/ Submitted(r) \/ Receipt(r) \/ NoReceipt(r)
  PROVE  RecordsInv'
<1>0. /\ AtWork(r) /\ job[r] \in Jobs /\ pc[r] \in {"lookup", "submitted", "receipt"}
      /\ pc[r] \in {"submitted", "receipt"} => job[r].hash # NoTx
  <2>1. pc[r] \in {"lookup", "submitted", "receipt"}
    BY DEF Lookup, Submitted, Receipt, NoReceipt
  <2> QED BY <2>1 DEF IInv, JobsFit, AtWork
<1>1. CASE Lookup(r)
  <2>1. CASE End(r) /\ UNCHANGED job
    BY <1>1, <2>1, EndKeepsRecords DEF Lookup
  <2>2. ASSUME NEW t \in mined, job[r].notes \subseteq t.notes, job' = [job EXCEPT ![r].hash = t],
               Goto(r, "submitted")
        PROVE  RecordsInv'
    <3>1. UNCHANGED <<journal, pending, world, overwritten>>
      BY <1>1 DEF Lookup
    <3>2. /\ pc'[r] = "submitted" /\ job'[r].hash = t /\ job'[r].cmd = job[r].cmd
          /\ job'[r].intent = job[r].intent /\ job'[r].notes = job[r].notes
          /\ \A q \in Runs : q # r => pc'[q] = pc[q] /\ job'[q] = job[q] /\ pending'[q] = pending[q]
      BY <1>0, <2>2, <3>1 DEF IInv, TypeOK, JobsFit, Jobs, Goto
    <3>3. job[r].cmd # "self"
      BY <1>1 DEF Lookup, RecordsInv, LookupsAreForBroadcasters
    <3> QED BY <1>0, <2>2, <3>1, <3>2, <3>3, QuietStep
  <2> QED BY <1>1, <2>1, <2>2 DEF Lookup, FoundByNullifiers
<1>2. CASE Submitted(r)
  <2>1. Update(r, MarkSubmitted(journal, job[r].intent, job[r].hash), "receipt")
    BY <1>2 DEF Submitted
  <2>2. \A k \in MarkSubmitted(journal, job[r].intent, job[r].hash) :
          Operation(r, journal, k, "receipt")
    BY <1>0, <1>2 DEF Submitted, Operation
  <2> QED BY <1>0, <2>1, <2>2, UpdateKeepsRecords
<1>3. CASE Receipt(r)
  <2> DEFINE ks == MarkMined(journal, job[r].intent, job[r].hash \in mined)
  <2>1. Update(r, ks, "end") /\ job[r].hash \in mined \cup failed
    BY <1>3 DEF Receipt
  <2>2. \A k \in ks : \E succeeded \in BOOLEAN :
          k \in MarkMined(journal, job[r].intent, succeeded) /\ (succeeded \/ job[r].hash \in failed)
    BY <2>1 DEF MarkMined
  <2>3. \A k \in ks : Operation(r, journal, k, "end")
    BY <2>2 DEF Operation
  <2> HIDE DEF ks
  <2> QED BY <1>0, <2>1, <2>3, UpdateKeepsRecords
<1>4. CASE NoReceipt(r)
  BY <1>4, EndKeepsRecords DEF NoReceipt
<1> QED BY <1>1, <1>2, <1>3, <1>4

\* Ending and crashing.
LEMMA StoppingKeepsRecords ==
  ASSUME IInv, RecordsInv, NEW r \in Runs, Ended(r) \/ Crash(r)
  PROVE  RecordsInv'
<1>1. End(r) /\ UNCHANGED <<journal, job, world, overwritten>>
  BY DEF Ended, Crash
<1>2. \A q \in Runs : q # r => pending'[q] = pending[q]
  BY DEF Ended, Crash, IInv, JobsFit
<1> QED BY <1>1, <1>2, EndKeepsRecords

\* A recovery, from reading the record to the hash it found.
LEMMA RecoveringKeepsRecords ==
  ASSUME IInv, RecordsInv, NEW r \in Runs,
         (\E i \in Intents : StartRecover(r, i)) \/ RecoverLocks(r) \/ RecoverLookup(r)
  PROVE  RecordsInv'
<1>0. DOMAIN job = Runs /\ DOMAIN pending = Runs /\ pc \in [Runs -> Labels]
  BY DEF IInv, JobsFit, TypeOK
<1>1. ASSUME NEW i \in Intents, StartRecover(r, i) PROVE RecordsInv'
  <2>1. /\ pc[r] = "idle" /\ i \in DOMAIN journal /\ journal[i].mode = "BROADCASTER"
        /\ UNCHANGED <<journal, pending, world, overwritten>>
        /\ pc'[r] = "engine"
        /\ job'[r] = [cmd |-> "recover", intent |-> i, notes |-> journal[i].notes,
                      hash |-> journal[i].hash]
        /\ \A q \in Runs : q # r => pc'[q] = pc[q] /\ job'[q] = job[q] /\ pending'[q] = pending[q]
    BY <1>0, <1>1 DEF StartRecover, Goto
  <2>2. \A t \in sent : t.run # r
    BY <2>1 DEF RecordsInv, SentByItsRun
  <2>3. ~overwritten /\ journal[i].hash # NoTx =>
          journal[i].hash \in mined /\ journal[i].notes \subseteq journal[i].hash.notes
    BY <2>1 DEF RecordsInv, CanonicalHashIsOnChain
  <2> QED BY <2>1, <2>2, <2>3, QuietStep
<1>2. CASE RecoverLocks(r)
  <2>1. pc[r] = "engine" /\ UNCHANGED <<journal, job, pending, world, overwritten>>
    BY <1>2 DEF RecoverLocks
  <2>2. CASE lock' = r /\ Goto(r, "recover")
    <3>1. pc'[r] = "recover" /\ \A q \in Runs : q # r => pc'[q] = pc[q]
      BY <1>0, <2>2 DEF Goto
    <3>2. AtWork(r) /\ job[r].cmd # "self" /\ \A t \in sent : t.run # r
      BY <2>1 DEF AtWork, RecordsInv, SentByItsRun, LookupsAreForBroadcasters
    <3>3. TxOf(r)' = TxOf(r)
      BY <2>1 DEF TxOf
    <3>4. ~overwritten /\ job[r].hash # NoTx =>
            IF job[r].cmd = "self" THEN job[r].hash = TxOf(r) /\ TxOf(r) \in sent
            ELSE job[r].hash \in mined /\ job[r].notes \subseteq job[r].hash.notes
      BY <3>2 DEF RecordsInv, HashesAreFound
    <3> QED BY <2>1, <3>1, <3>2, <3>3, <3>4, QuietStep
  <2>3. CASE End(r)
    BY <2>1, <2>3, EndKeepsRecords
  <2> QED BY <1>2, <2>2, <2>3 DEF RecoverLocks
<1>3. CASE RecoverLookup(r)
  <2>1. pc[r] = "recover" /\ UNCHANGED <<journal, pending, world, overwritten>>
    BY <1>3 DEF RecoverLookup
  <2>2. job[r] \in Jobs /\ AtWork(r) /\ \A t \in sent : t.run # r
    BY <2>1 DEF IInv, JobsFit, AtWork, RecordsInv, SentByItsRun
  <2>3. CASE Goto(r, "ended") /\ UNCHANGED job
    <3>1. pc'[r] = "ended" /\ \A q \in Runs : q # r => pc'[q] = pc[q]
      BY <1>0, <2>3 DEF Goto
    <3>2. ~AtWork(r)'
      BY <3>1 DEF AtWork
    <3> QED BY <2>1, <2>2, <2>3, <3>1, <3>2, QuietStep
  <2>4. ASSUME NEW t \in mined, job[r].notes \subseteq t.notes, job' = [job EXCEPT ![r].hash = t],
               Goto(r, "submitted")
        PROVE  RecordsInv'
    <3>1. /\ pc'[r] = "submitted" /\ job'[r].hash = t /\ job'[r].cmd = job[r].cmd
          /\ job'[r].intent = job[r].intent /\ job'[r].notes = job[r].notes
          /\ \A q \in Runs : q # r => pc'[q] = pc[q] /\ job'[q] = job[q] /\ pending'[q] = pending[q]
      BY <1>0, <2>1, <2>2, <2>4 DEF Jobs, Goto
    <3>2. job[r].cmd # "self"
      BY <2>1 DEF RecordsInv, LookupsAreForBroadcasters
    <3> QED BY <2>1, <2>2, <2>4, <3>1, <3>2, QuietStep
  <2> QED BY <1>3, <2>3, <2>4 DEF RecoverLookup, FoundByNullifiers
<1> QED BY <1>1, <1>2, <1>3

(***************************************************************************)
(* Writing                                                                 *)
(***************************************************************************)
\* The invariant for histories in which nothing was overwritten.
Untouched ==
  /\ HeldApart(journal) /\ RunsAreOnRecord /\ FirstIsUnique /\ HashesAreFound
  /\ NothingSentWhenRejected /\ BroadcastersDoNotRevert /\ CanonicalHashIsOnChain

\* What a write that overwrites nothing is: its operation on the journal there.
LEMMA WriteFacts ==
  ASSUME IInv, RecordsInv, NEW r \in Runs, Write(r)
  PROVE  /\ pc[r] = "write" /\ UNCHANGED <<job, world>>
         /\ \A q \in Runs : q # r => pc'[q] = pc[q] /\ pending'[q] = pending[q]
         /\ \/ pc'[r] = pending[r].then /\ pending[r].then \in {"send", "lookup", "receipt"}
            \/ pc'[r] = "ended" /\ pending[r].then = "end"
         /\ \A q : TxOf(q)' = TxOf(q)
         /\ ~overwritten' => /\ ~overwritten
                             /\ Operation(r, journal, journal', pending[r].then)
<1>1. /\ pc[r] = "write" /\ journal' = pending[r].next
      /\ overwritten' = (overwritten \/ journal # pending[r].base)
      /\ pending' = [pending EXCEPT ![r] = NoWrite] /\ UNCHANGED <<job, world>>
      /\ IF pending[r].then = "end" THEN End(r) ELSE Goto(r, pending[r].then) /\ UNCHANGED lock
  BY DEF Write
<1>2. /\ pc \in [Runs -> Labels] /\ DOMAIN pending = Runs
      /\ pending[r].then \in {"send", "lookup", "receipt", "end"}
      /\ Operation(r, pending[r].base, pending[r].next, pending[r].then)
  BY <1>1 DEF IInv, JobsFit, TypeOK, WritesGrow, RecordsInv, WritesAreOperations
<1>3. /\ \A q \in Runs : q # r => pc'[q] = pc[q] /\ pending'[q] = pending[q]
      /\ \/ pc'[r] = pending[r].then /\ pending[r].then \in {"send", "lookup", "receipt"}
         \/ pc'[r] = "ended" /\ pending[r].then = "end"
  BY <1>1, <1>2 DEF End, Goto
<1>4. \A q : TxOf(q)' = TxOf(q)
  BY <1>1 DEF TxOf
<1>5. ~overwritten' => ~overwritten /\ Operation(r, journal, journal', pending[r].then)
  BY <1>1, <1>2
<1> QED BY <1>1, <1>3, <1>4, <1>5

\* What an operation that reserves nothing does to the record of its run.
LEMMA ContinuingOperation ==
  ASSUME JournalOK(journal), NEW r \in Runs, NEW k, NEW then, then # "send",
         Operation(r, journal, k, then), NEW i, i = job[r].intent
  PROVE  /\ Replaces(journal, k, i)
         /\ k[i].status = "REJECTED" =>
              \/ journal[i].status = "REJECTED"
              \/ /\ journal[i].attempts = <<>> /\ job[r].cmd = "broadcast"
                 /\ TxOf(r) \notin sent /\ then = "end"
         /\ k[i].status = "REVERTED" =>
              journal[i].status = "REVERTED" \/ job[r].hash \in failed
         /\ k[i].hash # journal[i].hash =>
              journal[i].status = "SUBMITTING" /\ k[i].hash = job[r].hash /\ job[r].hash # NoTx
<1>1. CASE k \in MarkBroadcasterReported(journal, i)
  BY <1>1, ReportReplaces DEF SameFate
<1>2. CASE \E retry \in BOOLEAN : k \in MarkBroadcasterAmbiguous(journal, i, r, retry)
  BY <1>2, AmbiguousReplaces DEF SameFate
<1>3. CASE k \in MarkBroadcasterRetryRejected(journal, i, r)
  BY <1>3, RetryRejectedReplaces DEF SameFate
<1>4. CASE /\ k \in MarkRejected(journal, i) /\ job[r].cmd = "broadcast"
           /\ TxOf(r) \notin sent /\ then = "end"
  BY <1>4, RejectedReplaces
<1>5. CASE k \in MarkSubmitted(journal, i, job[r].hash) /\ job[r].hash # NoTx
  BY <1>5, SubmittedReplaces DEF SameFate
<1>6. ASSUME NEW succeeded \in BOOLEAN, k \in MarkMined(journal, i, succeeded),
             succeeded \/ job[r].hash \in failed
      PROVE  /\ Replaces(journal, k, i) /\ k[i].hash = journal[i].hash
             /\ k[i].status = "REJECTED" => journal[i].status = "REJECTED"
             /\ k[i].status = "REVERTED" =>
                  journal[i].status = "REVERTED" \/ job[r].hash \in failed
  BY <1>6, MinedReplaces
<1> QED BY <1>1, <1>2, <1>3, <1>4, <1>5, <1>6 DEF Operation

\* A transaction of a broadcaster that was sent is that of a record that holds
\* its notes.
LEMMA SentIsHeld ==
  ASSUME IInv, RecordsInv, ~overwritten, NEW t \in sent, t.mode = "BROADCASTER"
  PROVE  /\ t.intent \in DOMAIN journal /\ journal[t.intent].notes = t.notes
         /\ Holds(journal[t.intent])
<1>1. Recorded(journal, t) /\ t \in Transactions
  BY DEF IInv, TypeOK, WriteAheadUnlessOverwritten, WriteAhead, Recorded
<1>2. t.run \in Runs /\ TxOf(t.run) = t /\ Transfers(t.run)
  BY <1>1 DEF RecordsInv, SentByItsRun, Transactions
<1>3. job[t.run].cmd # "self" /\ job[t.run].intent = t.intent
  BY <1>2 DEF TxOf
<1>4. Reserved(t.run)
  BY <1>2, <1>3 DEF Reserved, Transfers, TransferCommands
<1>5. journal[t.intent].status # "REJECTED"
  BY <1>1, <1>2, <1>3, <1>4 DEF RecordsInv, NothingSentWhenRejected, Recorded
<1>6. journal[t.intent].status # "REVERTED"
  BY <1>1 DEF RecordsInv, BroadcastersDoNotRevert, Recorded
<1> QED BY <1>1, <1>5, <1>6 DEF Recorded, Holds

\* A write that reserves nothing.
LEMMA ContinuingWrite ==
  ASSUME IInv, RecordsInv, NEW r \in Runs, Write(r), ~overwritten', pending[r].then # "send"
  PROVE  Untouched'
<1> DEFINE i == job[r].intent
           then == pending[r].then
<1>1. /\ pc[r] = "write" /\ UNCHANGED <<job, world>> /\ ~overwritten
      /\ \A q \in Runs : q # r => pc'[q] = pc[q] /\ pending'[q] = pending[q]
      /\ \/ pc'[r] = then /\ then \in {"lookup", "receipt"}
         \/ pc'[r] = "ended" /\ then = "end"
      /\ \A q : TxOf(q)' = TxOf(q)
      /\ Operation(r, journal, journal', then)
  BY WriteFacts
<1>2. JournalOK(journal) /\ AtWork(r) /\ job[r] \in Jobs
  BY <1>1, TypeOKParts DEF IInv, JobsFit, AtWork
<1>3. /\ Replaces(journal, journal', i)
      /\ journal'[i].status = "REJECTED" =>
           \/ journal[i].status = "REJECTED"
           \/ /\ journal[i].attempts = <<>> /\ job[r].cmd = "broadcast"
              /\ TxOf(r) \notin sent /\ then = "end"
      /\ journal'[i].status = "REVERTED" =>
           journal[i].status = "REVERTED" \/ job[r].hash \in failed
      /\ journal'[i].hash # journal[i].hash =>
           journal[i].status = "SUBMITTING" /\ journal'[i].hash = job[r].hash
           /\ job[r].hash # NoTx
  BY <1>1, <1>2, ContinuingOperation
<1>4. /\ i \in DOMAIN journal /\ DOMAIN journal' = DOMAIN journal
      /\ \A x \in DOMAIN journal : x # i => journal'[x] = journal[x]
      /\ \A x \in DOMAIN journal : Keeps(journal[x], journal'[x])
  BY <1>3 DEF Replaces, Keeps
<1>5. Untouched
  BY <1>1 DEF RecordsInv, Untouched
<1>6. \A q \in Runs : /\ AtWork(q)' => AtWork(q)
                      /\ Reserved(q)' => Reserved(q)
                      /\ Registered(q)' => Registered(q)
  <2>1. \A q \in Runs : AtWork(q)' => AtWork(q)
    BY <1>1, <1>2 DEF AtWork
  <2> QED BY <1>1, <2>1 DEF Reserved, Registered, world
<1> HIDE DEF i, then
<1>7. HeldApart(journal)'
  BY <1>4, <1>5 DEF Untouched, HeldApart, Keeps
<1>8. RunsAreOnRecord'
  BY <1>1, <1>4, <1>5, <1>6 DEF Untouched, RunsAreOnRecord, Keeps
<1>9. FirstIsUnique' /\ HashesAreFound'
  BY <1>1, <1>5, <1>6 DEF Untouched, FirstIsUnique, HashesAreFound, world
\* Of a record that gets a hash or closes by a receipt
<1>10. journal[i].mode = "BROADCASTER" /\ job[r].hash # NoTx =>
         /\ job[r].hash \in mined /\ job[r].hash \in sent /\ job[r].cmd # "self"
         /\ journal[i].notes \subseteq job[r].hash.notes
  <2> SUFFICES ASSUME journal[i].mode = "BROADCASTER", job[r].hash # NoTx
               PROVE  /\ job[r].hash \in mined /\ job[r].hash \in sent /\ job[r].cmd # "self"
                      /\ journal[i].notes \subseteq job[r].hash.notes
    OBVIOUS
  <2>1. job[r].cmd # "self"
    <3> SUFFICES ASSUME job[r].cmd = "self" PROVE FALSE
      OBVIOUS
    <3>1. TxOf(r) \in sent /\ TxOf(r).mode = "SELF_SIGNED" /\ TxOf(r).intent = i
      BY <1>2, <1>5 DEF Untouched, HashesAreFound, TxOf, i
    <3>2. journal[i].mode = "SELF_SIGNED"
      BY <1>1, <3>1 DEF IInv, WriteAheadUnlessOverwritten, WriteAhead
    <3> QED BY <3>2
  <2>2. job[r].hash \in mined /\ job[r].notes \subseteq job[r].hash.notes
    BY <1>2, <1>5, <2>1 DEF Untouched, HashesAreFound
  <2>3. job[r].cmd \in {"broadcast", "retry", "recover"}
    BY <1>2, <2>1 DEF Jobs, TransferCommands
  <2>4. journal[i].notes = job[r].notes
    BY <1>2, <1>5, <2>3 DEF Untouched, RunsAreOnRecord, Registered, Reserved, i
  <2> QED BY <2>1, <2>2, <2>4 DEF IInv, TypeOK
<1>11. NothingSentWhenRejected'
  <2> SUFFICES ASSUME NEW x \in DOMAIN journal, journal'[x].status = "REJECTED",
                      NEW q \in Runs, Reserved(q), job[q].intent = x
               PROVE  TxOf(q) \notin sent /\ pc'[q] # "send"
    BY <1>1, <1>4, <1>6 DEF NothingSentWhenRejected, world
  <2>1. CASE journal[x].status = "REJECTED"
    <3>1. TxOf(q) \notin sent /\ pc[q] # "send"
      BY <1>5, <2>1 DEF Untouched, NothingSentWhenRejected
    <3> QED BY <1>1, <3>1
  <2>2. CASE journal[x].status # "REJECTED"
    <3>1. x = i /\ journal[i].attempts = <<>> /\ job[r].cmd = "broadcast" /\ TxOf(r) \notin sent
      BY <1>3, <1>4, <2>2
    <3>2. job[q].cmd = "broadcast"
      <4>1. job[q].cmd = "retry" => Tried(journal[i], q)
        BY <1>5, <3>1 DEF Untouched, RunsAreOnRecord, Registered
      <4>2. ~Tried(journal[i], q)
        BY <3>1 DEF Tried
      <4> QED BY <4>1, <4>2 DEF Reserved
    <3>3. q = r
      BY <1>2, <1>5, <3>1, <3>2 DEF Untouched, FirstIsUnique, Reserved, i
    <3> QED BY <1>1, <3>1, <3>3
  <2> QED BY <2>1, <2>2
<1>12. BroadcastersDoNotRevert'
  <2> SUFFICES ASSUME NEW x \in DOMAIN journal, journal'[x].mode = "BROADCASTER",
                      journal'[x].status = "REVERTED"
               PROVE  FALSE
    BY <1>4 DEF BroadcastersDoNotRevert
  <2>1. journal[x].mode = "BROADCASTER" /\ journal[x].status # "REVERTED"
    BY <1>4, <1>5 DEF Untouched, BroadcastersDoNotRevert, Keeps
  <2>2. x = i /\ job[r].hash \in failed
    BY <1>3, <1>4, <2>1
  <2>3. job[r].hash # NoTx /\ job[r].hash \notin mined
    BY <2>2, NoTxAssumption DEF IInv, TypeOK, RecordsInv
  <2> QED BY <1>10, <2>1, <2>2, <2>3
<1>13. CanonicalHashIsOnChain'
  <2> SUFFICES ASSUME NEW x \in DOMAIN journal, journal'[x].mode = "BROADCASTER",
                      journal'[x].hash # NoTx
               PROVE  /\ journal'[x].hash \in mined
                      /\ journal'[x].notes \subseteq journal'[x].hash.notes
                      /\ journal'[x].hash.intent = x \/ journal'[x].hash.mode = "SELF_SIGNED"
    BY <1>1, <1>4 DEF CanonicalHashIsOnChain, world
  <2>1. journal[x].mode = "BROADCASTER" /\ journal'[x].notes = journal[x].notes
    BY <1>4 DEF Keeps
  <2>2. CASE journal'[x].hash = journal[x].hash
    BY <1>1, <1>5, <2>1, <2>2 DEF Untouched, CanonicalHashIsOnChain
  <2>3. CASE journal'[x].hash # journal[x].hash
    <3> DEFINE h == job[r].hash
    <3>1. x = i /\ journal[i].status = "SUBMITTING" /\ journal'[i].hash = h /\ h # NoTx
      BY <1>3, <1>4, <2>3
    <3>2. h \in mined /\ h \in sent /\ journal[i].notes \subseteq h.notes
      BY <1>10, <2>1, <3>1
    <3>3. h.mode = "BROADCASTER" => h.intent = i
      <4> SUFFICES ASSUME h.mode = "BROADCASTER", h.intent # i PROVE FALSE
        OBVIOUS
      <4>1. /\ h.intent \in DOMAIN journal /\ journal[h.intent].notes = h.notes
            /\ Holds(journal[h.intent])
        BY <1>1, <3>2, SentIsHeld
      <4>2. Holds(journal[i]) /\ journal[i].notes # {}
        BY <1>4, <1>5, <2>1, <3>1 DEF Holds, Untouched, HeldApart
      <4>3. journal[i].notes \cap h.notes = {}
        BY <1>4, <1>5, <4>1, <4>2 DEF Untouched, HeldApart
      <4> QED BY <3>2, <4>2, <4>3
    <3>4. h.mode \in Mode
      BY <3>2 DEF IInv, TypeOK, Transactions
    <3> QED BY <2>1, <3>1, <3>2, <3>3, <3>4 DEF Mode
  <2> QED BY <2>2, <2>3
<1> QED BY <1>7, <1>8, <1>9, <1>11, <1>12, <1>13 DEF Untouched

\* A write of a record that was not there: it conflicts with nothing, and no run
\* is at work for its intent.
LEMMA FirstReservingWrite ==
  ASSUME IInv, RecordsInv, NEW r \in Runs, Write(r), ~overwritten', pending[r].then = "send",
         job[r].cmd \in {"self", "broadcast"}
  PROVE  Untouched'
<1> DEFINE i == job[r].intent
           new == journal'[i]
<1>1. /\ pc[r] = "write" /\ UNCHANGED <<job, world>> /\ ~overwritten
      /\ \A q \in Runs : q # r => pc'[q] = pc[q] /\ pending'[q] = pending[q]
      /\ pc'[r] = "send"
      /\ \A q : TxOf(q)' = TxOf(q)
      /\ Operation(r, journal, journal', "send")
  BY WriteFacts
<1>2. job[r].notes # {} /\ job[r].hash = NoTx
  BY <1>1 DEF IInv, WritesGrow, RecordsInv, NoHashBeforeSending
<1>3. /\ i \notin DOMAIN journal /\ DOMAIN journal' = DOMAIN journal \cup {i}
      /\ \A x \in DOMAIN journal : x # i /\ journal'[x] = journal[x]
      /\ new.status = "SUBMITTING" /\ (new.mode = "BROADCASTER" => new.hash = NoTx)
      /\ IF job[r].cmd = "self" THEN new.mode = "SELF_SIGNED"
         ELSE /\ new.mode = "BROADCASTER" /\ new.notes = job[r].notes
              /\ ~Conflict(journal, i, job[r].notes)
  <2>1. TxOf(r).intent = i /\ TxOf(r).notes = job[r].notes
    BY TransactionNamesItsRun
  <2>2. CASE job[r].cmd = "self"
    <3>1. journal' \in Reserve(journal, TxOf(r))
      BY <1>1, <2>2 DEF Operation
    <3> QED BY <2>1, <2>2, <3>1 DEF Reserve, Unused, Stored
  <2>3. CASE job[r].cmd = "broadcast"
    <3>1. journal' \in ReserveBroadcaster(journal, TxOf(r))
      BY <1>1, <2>3 DEF Operation
    <3> QED BY <2>1, <2>3, <3>1 DEF ReserveBroadcaster, Unused, Stored
  <2> QED BY <2>2, <2>3
<1>4. Untouched
  BY <1>1 DEF RecordsInv, Untouched
<1>5. \A q \in Runs : q # r => /\ AtWork(q)' <=> AtWork(q)
                               /\ Reserved(q)' <=> Reserved(q)
                               /\ Registered(q)' <=> Registered(q)
  <2>1. \A q \in Runs : q # r => (AtWork(q)' <=> AtWork(q))
    BY <1>1 DEF AtWork
  <2> QED BY <1>1, <2>1 DEF Reserved, Registered, world
<1>6. \A q \in Runs : Registered(q) => job[q].intent # i
  BY <1>3, <1>4 DEF Untouched, RunsAreOnRecord
<1>7. Registered(r)' => job[r].cmd = "broadcast"
  BY <1>1 DEF Registered, Reserved
<1> HIDE DEF i, new
<1>8. HeldApart(journal)'
  <2>1. Holds(new) => new.mode = "BROADCASTER"
    BY DEF Holds
  <2>2. \A x \in DOMAIN journal : Holds(new) /\ Holds(journal[x]) =>
          journal[x].notes \cap new.notes = {}
    BY <1>3, <2>1 DEF Conflict
  <2>3. new.mode = "BROADCASTER" => new.notes # {}
    BY <1>2, <1>3
  <2> QED BY <1>3, <1>4, <2>2, <2>3 DEF Untouched, HeldApart, new
<1>9. RunsAreOnRecord'
  <2> SUFFICES ASSUME NEW q \in Runs, Registered(q)'
               PROVE  /\ job[q].intent \in DOMAIN journal'
                      /\ journal'[job[q].intent].mode = "BROADCASTER"
                      /\ journal'[job[q].intent].notes = job[q].notes
                      /\ job[q].cmd = "retry" => Tried(journal'[job[q].intent], q)
    BY <1>1 DEF RunsAreOnRecord
  <2>1. CASE q = r
    BY <1>3, <1>7, <2>1 DEF i, new
  <2>2. CASE q # r
    BY <1>3, <1>4, <1>5, <2>2 DEF Untouched, RunsAreOnRecord
  <2> QED BY <2>1, <2>2
<1>10. FirstIsUnique'
  <2>1. \A q \in Runs : q # r /\ Reserved(q)' => job[q].intent # job[r].intent
    BY <1>5, <1>6 DEF Registered, i
  <2> QED BY <1>1, <1>4, <1>5, <2>1 DEF Untouched, FirstIsUnique
<1>11. HashesAreFound'
  BY <1>1, <1>2, <1>4, <1>5 DEF Untouched, HashesAreFound, world
<1>12. NothingSentWhenRejected'
  <2> SUFFICES ASSUME NEW x \in DOMAIN journal', journal'[x].status = "REJECTED",
                      NEW q \in Runs, Reserved(q)', job[q].intent = x
               PROVE  TxOf(q) \notin sent /\ pc'[q] # "send"
    BY <1>1 DEF NothingSentWhenRejected, world
  <2>1. x # i /\ x \in DOMAIN journal /\ journal[x].status = "REJECTED" /\ q # r
    BY <1>3 DEF i, new
  <2> QED BY <1>1, <1>4, <1>5, <2>1 DEF Untouched, NothingSentWhenRejected
<1>13. BroadcastersDoNotRevert'
  BY <1>3, <1>4 DEF Untouched, BroadcastersDoNotRevert, new
<1>14. CanonicalHashIsOnChain'
  <2> SUFFICES ASSUME NEW x \in DOMAIN journal', journal'[x].mode = "BROADCASTER",
                      journal'[x].hash # NoTx
               PROVE  /\ journal'[x].hash \in mined
                      /\ journal'[x].notes \subseteq journal'[x].hash.notes
                      /\ journal'[x].hash.intent = x \/ journal'[x].hash.mode = "SELF_SIGNED"
    BY <1>1 DEF CanonicalHashIsOnChain, world
  <2>1. x \in DOMAIN journal /\ journal'[x] = journal[x]
    BY <1>3 DEF i, new
  <2> QED BY <1>1, <1>4, <2>1 DEF Untouched, CanonicalHashIsOnChain
<1> QED BY <1>8, <1>9, <1>10, <1>11, <1>12, <1>13, <1>14 DEF Untouched

\* A write of a retry: the record is open, and now says that this run tried.
LEMMA RetryReservingWrite ==
  ASSUME IInv, RecordsInv, NEW r \in Runs, Write(r), ~overwritten', pending[r].then = "send",
         job[r].cmd = "retry"
  PROVE  Untouched'
<1> DEFINE i == job[r].intent
<1>1. /\ pc[r] = "write" /\ UNCHANGED <<job, world>> /\ ~overwritten
      /\ \A q \in Runs : q # r => pc'[q] = pc[q] /\ pending'[q] = pending[q]
      /\ pc'[r] = "send"
      /\ \A q : TxOf(q)' = TxOf(q)
      /\ Operation(r, journal, journal', "send")
  BY WriteFacts
<1>2. /\ job[r] \in Jobs /\ job[r].notes # {} /\ job[r].hash = NoTx /\ JournalOK(journal)
  BY <1>1, TypeOKParts DEF IInv, JobsFit, WritesGrow, RecordsInv, NoHashBeforeSending
<1>3. /\ Replaces(journal, journal', i) /\ SameFate(journal[i], journal'[i])
      /\ journal[i].status = "SUBMITTING" /\ Tried(journal'[i], r)
      /\ journal[i].mode = "BROADCASTER" /\ journal[i].notes = job[r].notes
  <2>1. journal' \in ReserveBroadcasterRetry(journal, TxOf(r)) /\ TxOf(r) \in Transactions
    BY <1>1, <1>2, TxOfIsTransaction DEF Operation
  <2>2. TxOf(r).intent = i /\ TxOf(r).notes = job[r].notes /\ TxOf(r).run = r
    BY TransactionNamesItsRun
  <2>3. journal[i].mode = "BROADCASTER" /\ journal[i].notes = job[r].notes
    BY <2>1, <2>2 DEF ReserveBroadcasterRetry, Retryable, Unresolved, SameNotes
  <2> HIDE DEF i
  <2> QED BY <1>2, <2>1, <2>2, <2>3, RetryReplaces
<1>4. /\ i \in DOMAIN journal /\ DOMAIN journal' = DOMAIN journal
      /\ \A x \in DOMAIN journal : x # i => journal'[x] = journal[x]
      /\ \A x \in DOMAIN journal : /\ Keeps(journal[x], journal'[x])
                                   /\ SameFate(journal[x], journal'[x])
  BY <1>3 DEF Replaces, Keeps, SameFate
<1>5. Untouched
  BY <1>1 DEF RecordsInv, Untouched
<1>6. \A q \in Runs : q # r => /\ AtWork(q)' <=> AtWork(q)
                               /\ Reserved(q)' <=> Reserved(q)
                               /\ Registered(q)' <=> Registered(q)
  <2>1. \A q \in Runs : q # r => (AtWork(q)' <=> AtWork(q))
    BY <1>1 DEF AtWork
  <2> QED BY <1>1, <2>1 DEF Reserved, Registered, world
<1> HIDE DEF i
<1>7. HeldApart(journal)'
  BY <1>4, <1>5 DEF Untouched, HeldApart, Keeps
<1>8. RunsAreOnRecord'
  <2> SUFFICES ASSUME NEW q \in Runs, Registered(q)'
               PROVE  /\ job[q].intent \in DOMAIN journal'
                      /\ journal'[job[q].intent].mode = "BROADCASTER"
                      /\ journal'[job[q].intent].notes = job[q].notes
                      /\ job[q].cmd = "retry" => Tried(journal'[job[q].intent], q)
    BY <1>1 DEF RunsAreOnRecord
  <2>1. CASE q = r
    BY <1>3, <1>4, <2>1 DEF i, Keeps
  <2>2. CASE q # r
    BY <1>4, <1>5, <1>6, <2>2 DEF Untouched, RunsAreOnRecord, Keeps
  <2> QED BY <2>1, <2>2
<1>9. FirstIsUnique'
  BY <1>1, <1>5, <1>6 DEF Untouched, FirstIsUnique
<1>10. HashesAreFound'
  BY <1>1, <1>2, <1>5, <1>6 DEF Untouched, HashesAreFound, world
<1>11. NothingSentWhenRejected'
  <2> SUFFICES ASSUME NEW x \in DOMAIN journal, journal'[x].status = "REJECTED",
                      NEW q \in Runs, Reserved(q)', job[q].intent = x
               PROVE  TxOf(q) \notin sent /\ pc'[q] # "send"
    BY <1>1, <1>4 DEF NothingSentWhenRejected, world
  <2>1. journal[x].status = "REJECTED" /\ x # i /\ q # r
    BY <1>3, <1>4 DEF SameFate, i
  <2> QED BY <1>1, <1>5, <1>6, <2>1 DEF Untouched, NothingSentWhenRejected
<1>12. BroadcastersDoNotRevert'
  BY <1>4, <1>5 DEF Untouched, BroadcastersDoNotRevert, Keeps, SameFate
<1>13. CanonicalHashIsOnChain'
  BY <1>1, <1>4, <1>5 DEF Untouched, CanonicalHashIsOnChain, Keeps, SameFate, world
<1> QED BY <1>7, <1>8, <1>9, <1>10, <1>11, <1>12, <1>13 DEF Untouched

\* Every write preserves the invariant.
LEMMA WriteKeepsRecords ==
  ASSUME IInv, RecordsInv, NEW r \in Runs, Write(r)
  PROVE  RecordsInv'
<1>1. /\ pc[r] = "write" /\ UNCHANGED <<job, world>>
      /\ \A q \in Runs : q # r => pc'[q] = pc[q] /\ pending'[q] = pending[q]
      /\ \/ pc'[r] = pending[r].then /\ pending[r].then \in {"send", "lookup", "receipt"}
         \/ pc'[r] = "ended" /\ pending[r].then = "end"
      /\ \A q : TxOf(q)' = TxOf(q)
  BY WriteFacts
<1>2. /\ job[r] \in Jobs
      /\ Operation(r, pending[r].base, pending[r].next, pending[r].then)
  BY <1>1 DEF IInv, JobsFit, RecordsInv, WritesAreOperations
<1>3. SentByItsRun'
  <2>1. \A t \in sent : t.run \in Runs
    BY DEF IInv, TypeOK, Transactions
  <2> QED BY <1>1, <2>1 DEF RecordsInv, SentByItsRun, Transfers, world
<1>4. WritesAreOperations'
  <2> SUFFICES ASSUME NEW q \in Runs
               PROVE  (pc[q] = "write" =>
                        Operation(q, pending[q].base, pending[q].next, pending[q].then))'
    BY DEF WritesAreOperations
  <2>1. CASE q = r
    BY <1>1, <2>1
  <2>2. CASE q # r
    <3>1. pc[q] = "write" => Operation(q, pending[q].base, pending[q].next, pending[q].then)
      BY DEF RecordsInv, WritesAreOperations
    <3> QED BY <1>1, <2>2, <3>1, OperationStays DEF world
  <2> QED BY <2>1, <2>2
<1>5. NoHashBeforeSending'
  BY <1>1 DEF RecordsInv, NoHashBeforeSending
<1>6. LookupsAreForBroadcasters'
  <2>1. pending[r].then = "lookup" => job[r].cmd # "self"
    BY <1>2 DEF Operation
  <2> QED BY <1>1, <2>1 DEF RecordsInv, LookupsAreForBroadcasters
<1>7. ~overwritten' => Untouched'
  <2>1. CASE pending[r].then # "send"
    BY <2>1, ContinuingWrite
  <2>2. CASE pending[r].then = "send"
    <3>1. job[r].cmd \in {"self", "broadcast", "retry"}
      BY <1>2, <2>2 DEF Operation
    <3> QED BY <2>2, <3>1, FirstReservingWrite, RetryReservingWrite
  <2> QED BY <2>1, <2>2
<1>8. (mined \cap failed = {})'
  BY <1>1 DEF RecordsInv, world
<1> QED BY <1>3, <1>4, <1>5, <1>6, <1>7, <1>8 DEF RecordsInv, Untouched

\* The chain takes or refuses a transaction.
LEMMA ChainKeepsRecords ==
  ASSUME IInv, RecordsInv, NEW t \in sent, Mine(t) \/ Revert(t)
  PROVE  RecordsInv'
<1>1. /\ UNCHANGED <<journal, lock, pc, job, pending, sent, overwritten>>
      /\ mined \subseteq mined' /\ failed \subseteq failed' /\ mined' \cap failed' = {}
  BY DEF Mine, Revert, RecordsInv
<1>2. \A q : TxOf(q)' = TxOf(q) /\ Transfers(q)' = Transfers(q)
  BY <1>1 DEF TxOf, Transfers
<1>3. \A q \in Runs : /\ AtWork(q)' <=> AtWork(q)
                      /\ Reserved(q)' <=> Reserved(q)
                      /\ Registered(q)' <=> Registered(q)
  BY <1>1, <1>2 DEF AtWork, Reserved, Registered
<1>4. SentByItsRun' /\ NoHashBeforeSending' /\ LookupsAreForBroadcasters'
  BY <1>1, <1>2 DEF RecordsInv, SentByItsRun, NoHashBeforeSending, LookupsAreForBroadcasters
<1>5. WritesAreOperations'
  <2> SUFFICES ASSUME NEW q \in Runs
               PROVE  (pc[q] = "write" =>
                        Operation(q, pending[q].base, pending[q].next, pending[q].then))'
    BY DEF WritesAreOperations
  <2>1. pc[q] = "write" => Operation(q, pending[q].base, pending[q].next, pending[q].then)
    BY DEF RecordsInv, WritesAreOperations
  <2> QED BY <1>1, <2>1, OperationStays
<1>6. ASSUME ~overwritten PROVE Untouched'
  <2>1. Untouched
    BY <1>6 DEF RecordsInv, Untouched
  <2>2. HeldApart(journal)' /\ BroadcastersDoNotRevert'
    BY <1>1, <2>1 DEF Untouched, HeldApart, BroadcastersDoNotRevert
  <2>3. RunsAreOnRecord' /\ FirstIsUnique'
    BY <1>1, <1>3, <2>1 DEF Untouched, RunsAreOnRecord, FirstIsUnique
  <2>4. NothingSentWhenRejected'
    BY <1>1, <1>2, <1>3, <2>1 DEF Untouched, NothingSentWhenRejected
  <2>5. HashesAreFound' /\ CanonicalHashIsOnChain'
    BY <1>1, <1>2, <1>3, <2>1 DEF Untouched, HashesAreFound, CanonicalHashIsOnChain
  <2> QED BY <2>2, <2>3, <2>4, <2>5 DEF Untouched
<1> QED BY <1>1, <1>4, <1>5, <1>6 DEF RecordsInv, Untouched

\* Initially nothing is on record, sent or at work.
LEMMA InitRecordsInv == Init => RecordsInv
<1> SUFFICES ASSUME Init PROVE RecordsInv
  OBVIOUS
<1>1. DOMAIN journal = {} /\ sent = {} /\ mined = {} /\ \A r \in Runs : pc[r] = "idle"
  BY DEF Init
<1>2. \A r \in Runs : ~AtWork(r) /\ ~Registered(r) /\ ~Reserved(r)
  BY <1>1 DEF AtWork, Registered, Reserved
<1> QED
  BY <1>1, <1>2
  DEF RecordsInv, SentByItsRun, WritesAreOperations, NoHashBeforeSending,
      LookupsAreForBroadcasters, HeldApart, RunsAreOnRecord, FirstIsUnique, HashesAreFound,
      NothingSentWhenRejected, BroadcastersDoNotRevert, CanonicalHashIsOnChain

\* Every step preserves it.
LEMMA NextKeepsRecords == IInv /\ RecordsInv /\ [Next]_vars => RecordsInv'
<1> SUFFICES ASSUME IInv, RecordsInv, [Next]_vars PROVE RecordsInv'
  OBVIOUS
<1>1. ASSUME NEW r \in Runs, TransferStep(r) PROVE RecordsInv'
  BY <1>1, PreparingKeepsRecords, ReserveTransferKeepsRecords, SendKeepsRecords,
     AnswerKeepsRecords, ClosingKeepsRecords DEF TransferStep
<1>2. ASSUME NEW r \in Runs, RecoverStep(r) PROVE RecordsInv'
  BY <1>2, RecoveringKeepsRecords DEF RecoverStep
<1>3. ASSUME NEW r \in Runs, SharedStep(r) PROVE RecordsInv'
  BY <1>3, ClosingKeepsRecords, StoppingKeepsRecords, WriteKeepsRecords DEF SharedStep
<1>4. ASSUME NEW t \in sent, Mine(t) \/ Revert(t) PROVE RecordsInv'
  BY <1>4, ChainKeepsRecords
<1>5. CASE UNCHANGED vars
  <2>1. /\ UNCHANGED <<journal, pc, job, pending, sent, mined, failed, overwritten>>
    BY <1>5 DEF vars
  <2>2. \A q : /\ TxOf(q)' = TxOf(q) /\ Transfers(q)' = Transfers(q)
               /\ AtWork(q)' = AtWork(q) /\ Reserved(q)' = Reserved(q)
               /\ Registered(q)' = Registered(q)
    BY <2>1 DEF TxOf, Transfers, AtWork, Reserved, Registered
  <2>3. WritesAreOperations'
    <3> SUFFICES ASSUME NEW q \in Runs
                 PROVE  (pc[q] = "write" =>
                          Operation(q, pending[q].base, pending[q].next, pending[q].then))'
      BY DEF WritesAreOperations
    <3>1. pc[q] = "write" => Operation(q, pending[q].base, pending[q].next, pending[q].then)
      BY DEF RecordsInv, WritesAreOperations
    <3> QED BY <2>1, <3>1, OperationStays
  <2> QED
    BY <2>1, <2>2, <2>3
    DEF RecordsInv, SentByItsRun, NoHashBeforeSending, LookupsAreForBroadcasters, HeldApart,
        RunsAreOnRecord, FirstIsUnique, HashesAreFound, NothingSentWhenRejected,
        BroadcastersDoNotRevert, CanonicalHashIsOnChain
<1> QED BY <1>1, <1>2, <1>3, <1>4, <1>5 DEF Next

\* The invariant of the records holds in every reachable state.
THEOREM RecordsInvariance == Spec => []RecordsInv
<1>1. Init => RecordsInv
  BY InitRecordsInv
<1>2. IInv /\ RecordsInv /\ [Next]_vars => RecordsInv'
  BY NextKeepsRecords
<1> QED BY <1>1, <1>2, Invariance, PTL DEF Spec

\* Unless a write replaced another journal than the one it started from, a
\* transaction sent to a broadcaster spends no note that another intent's open
\* record holds: its own record holds them, and two records hold different notes.
THEOREM ReservationsHold == Spec => []BroadcasterReservationsHold
<1>1. IInv /\ RecordsInv => BroadcasterReservationsHold
  <2> SUFFICES ASSUME IInv, RecordsInv, ~overwritten, NEW t \in sent, NEW i \in OpenReservations,
                      t.mode = "BROADCASTER", i # t.intent
               PROVE  journal[i].notes \cap t.notes = {}
    BY DEF BroadcasterReservationsHold
  <2>1. /\ t.intent \in DOMAIN journal /\ journal[t.intent].notes = t.notes
        /\ Holds(journal[t.intent])
    BY SentIsHeld
  <2>2. i \in DOMAIN journal /\ Holds(journal[i])
    BY DEF OpenReservations, Holds
  <2> QED BY <2>1, <2>2 DEF RecordsInv, HeldApart
<1> QED BY <1>1, Invariance, RecordsInvariance, PTL

\* Unless that happened, the journal tells the truth of the chain: nothing was
\* sent for a record closed as rejected, by whatever run, and the canonical hash
\* of a broadcaster record is on chain and spent its notes.
THEOREM TheJournalIsTrue == Spec => []JournalTellsTheTruth
<1>1. IInv /\ RecordsInv => RejectedWasNotSent
  <2> SUFFICES ASSUME IInv, RecordsInv, ~overwritten, NEW t \in sent,
                      t.intent \in DOMAIN journal, journal[t.intent].status = "REJECTED"
               PROVE  FALSE
    BY DEF RejectedWasNotSent
  <2>1. journal[t.intent].mode = t.mode /\ t.mode \in Mode
    BY DEF IInv, TypeOK, WriteAheadUnlessOverwritten, WriteAhead, Transactions
  <2>2. t.mode # "SELF_SIGNED"
    BY <2>1, TypeOKParts DEF IInv, JournalOK, RecordOK
  <2>3. Holds(journal[t.intent])
    BY <2>1, <2>2, SentIsHeld DEF Mode
  <2> QED BY <2>3 DEF Holds
<1>2. RecordsInv => CanonicalHashIsOnChain
  BY DEF RecordsInv, CanonicalHashIsOnChain
<1>3. IInv /\ RecordsInv => JournalTellsTheTruth
  BY <1>1, <1>2 DEF JournalTellsTheTruth
<1> QED BY <1>3, Invariance, RecordsInvariance, PTL
=============================================================================
