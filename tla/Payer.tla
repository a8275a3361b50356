------------------------------- MODULE Payer --------------------------------
(***************************************************************************)
(* Runs of the payer's command line around one wallet: pay-self-signed,    *)
(* pay-broadcaster, retry-broadcaster and recover-broadcaster              *)
(* (tools/ppops-payer/src/cli.ts, railgun/self-signed-transfer.ts,         *)
(* railgun/broadcaster-transfer.ts), each with one intent, the journal     *)
(* they share, the runtime lock, the broadcasters and the chain.           *)
(*                                                                         *)
(* A journal operation is two steps, the read and the rename that replaces *)
(* the file.  A run may crash between any two steps.  The lock is taken to *)
(* exclude and to be free after a crash; RuntimeLock is about how.         *)
(* A broadcaster that got a transaction may answer anything and publish it *)
(* at any time, but a definitive rejection is final.                       *)
(***************************************************************************)
EXTENDS SubmissionJournal

CONSTANTS
  Commands,   \* the commands a run may be started with
  NoRun       \* the lock file does not exist

TransferCommands == {"self", "broadcast", "retry"}

ASSUME PayerAssumption == Commands \subseteq TransferCommands \cup {"recover"} /\ NoRun \notin Runs

VARIABLES
  journal,      \* the journal file
  lock,         \* the run that holds the runtime lock, or NoRun
  pc,           \* where each run is
  job,          \* its command, its intent, the notes of its proof, the hash it found
  pending,      \* the journal it has read, the one it will write, and what then
  sent,         \* transactions someone else may put on chain
  mined,        \* transactions that succeeded on chain
  failed,       \* transactions that reverted on chain
  overwritten   \* history: a write replaced another journal than the one read

vars == <<journal, lock, pc, job, pending, sent, mined, failed, overwritten>>
world == <<sent, mined, failed>>

(***************************************************************************)
(* Runs                                                                    *)
(***************************************************************************)
NoJob == [cmd |-> "none"]
NoWrite == [then |-> "none"]

Goto(r, l) == pc' = [pc EXCEPT ![r] = l]
Spent == UNION {t.notes : t \in mined}

TxOf(r) == [run |-> r, intent |-> job[r].intent, notes |-> job[r].notes,
            mode |-> IF job[r].cmd = "self" THEN "SELF_SIGNED" ELSE "BROADCASTER"]

\* A command ends, by returning or by throwing; withEngine releases the lock.
End(r) ==
  /\ Goto(r, "ended")
  /\ lock' = IF lock = r THEN NoRun ELSE lock

\* The read half of a journal operation: what it will write, or its failure.
Update(r, journals, then) ==
  /\ IF journals = {} THEN End(r) /\ UNCHANGED pending
     ELSE IF journals = {journal}
       THEN Goto(r, then) /\ UNCHANGED <<pending, lock>>
       ELSE /\ \E j \in journals :
                 pending' = [pending EXCEPT ![r] = [base |-> journal, next |-> j, then |-> then]]
            /\ Goto(r, "write")
            /\ UNCHANGED lock
  /\ UNCHANGED <<journal, job, world, overwritten>>

\* SubmissionJournal.write: rename over whatever journal is there.
Write(r) ==
  /\ pc[r] = "write"
  /\ journal' = pending[r].next
  /\ overwritten' = (overwritten \/ journal # pending[r].base)
  /\ pending' = [pending EXCEPT ![r] = NoWrite]
  /\ IF pending[r].then = "end" THEN End(r)
     ELSE Goto(r, pending[r].then) /\ UNCHANGED lock
  /\ UNCHANGED <<job, world>>

Ended(r) ==
  /\ pc[r] = "end"
  /\ End(r)
  /\ UNCHANGED <<journal, job, pending, world, overwritten>>

Crash(r) ==
  /\ pc[r] \notin {"idle", "ended"}
  /\ pending' = [pending EXCEPT ![r] = NoWrite]
  /\ End(r)
  /\ UNCHANGED <<journal, job, world, overwritten>>

(***************************************************************************)
(* Transfers, from taking the lock to reserving                            *)
(***************************************************************************)
StartTransfer(r, cmd, i) ==
  /\ pc[r] = "idle"
  /\ lock = NoRun
  /\ lock' = r
  /\ job' = [job EXCEPT ![r] = [cmd |-> cmd, intent |-> i, notes |-> {}, hash |-> NoTx]]
  /\ Goto(r, "check")
  /\ UNCHANGED <<journal, pending, world, overwritten>>

\* assertUnused or assertBroadcasterRetryable
Check(r) ==
  LET i == job[r].intent IN
  /\ pc[r] = "check"
  /\ IF (IF job[r].cmd = "retry" THEN Retryable(journal, i) ELSE Unused(journal, i))
       THEN Goto(r, "prove") /\ UNCHANGED lock
       ELSE End(r)
  /\ UNCHANGED <<journal, job, pending, world, overwritten>>

\* The wallet selects notes it believes unspent, and it may not have heard of the
\* last transactions; a broadcaster transfer is then compared with the reservations,
\* a self-signed one is not.
Prove(r, notes) ==
  /\ pc[r] = "prove"
  /\ notes # {}
  /\ job' = [job EXCEPT ![r].notes = notes]
  /\ IF job[r].cmd # "self" /\ Conflict(journal, job[r].intent, notes)
       THEN End(r)
       ELSE Goto(r, "reserve") /\ UNCHANGED lock
  /\ UNCHANGED <<journal, pending, world, overwritten>>

ReserveTransfer(r) ==
  /\ pc[r] = "reserve"
  /\ Update(r, CASE job[r].cmd = "self"      -> Reserve(journal, TxOf(r))
                 [] job[r].cmd = "broadcast" -> ReserveBroadcaster(journal, TxOf(r))
                 [] job[r].cmd = "retry"     -> ReserveBroadcasterRetry(journal, TxOf(r)),
            "send")

(***************************************************************************)
(* Transfers, from sending to the receipt                                  *)
(***************************************************************************)
\* submitPrepared or broadcastTransaction; the request may get lost.
Send(r) ==
  /\ pc[r] = "send"
  /\ sent' \in {sent, sent \cup {TxOf(r)}}
  /\ Goto(r, "answer")
  /\ UNCHANGED <<journal, lock, job, pending, mined, failed, overwritten>>

\* broadcastTransaction returned the precomputed hash
AnswerAccepted(r) ==
  /\ pc[r] = "answer" /\ job[r].cmd = "self" /\ TxOf(r) \in sent
  /\ job' = [job EXCEPT ![r].hash = TxOf(r)]
  /\ Goto(r, "submitted")
  /\ UNCHANGED <<journal, lock, pending, world, overwritten>>

\* broadcastTransaction threw: the command ends with its reservation in place.
AnswerFailed(r) ==
  /\ pc[r] = "answer" /\ job[r].cmd = "self"
  /\ End(r)
  /\ UNCHANGED <<journal, job, pending, world, overwritten>>

AnswerReported(r) ==
  /\ pc[r] = "answer" /\ job[r].cmd # "self"
  /\ Update(r, MarkBroadcasterReported(journal, job[r].intent), "lookup")

AnswerAmbiguous(r) ==
  /\ pc[r] = "answer" /\ job[r].cmd # "self"
  /\ Update(r, MarkBroadcasterAmbiguous(journal, job[r].intent, r, job[r].cmd = "retry"), "end")

\* A definitive rejection: the broadcaster has not sent it and never will.
AnswerRejected(r) ==
  /\ pc[r] = "answer" /\ job[r].cmd # "self" /\ TxOf(r) \notin sent
  /\ Update(r, IF job[r].cmd = "retry"
                 THEN MarkBroadcasterRetryRejected(journal, job[r].intent, r)
                 ELSE MarkRejected(journal, job[r].intent), "end")

\* getCompletedTxidFromNullifiers: the transaction on chain that spent them all
FoundByNullifiers(notes) == {t \in mined : notes \subseteq t.notes}

\* recoverTransactionHashForNullifiers at the end of a broadcaster transfer; the
\* indexer may be behind.
Lookup(r) ==
  /\ pc[r] = "lookup"
  /\ \/ End(r) /\ UNCHANGED job
     \/ \E t \in FoundByNullifiers(job[r].notes) :
          job' = [job EXCEPT ![r].hash = t] /\ Goto(r, "submitted") /\ UNCHANGED lock
  /\ UNCHANGED <<journal, pending, world, overwritten>>

Submitted(r) ==
  /\ pc[r] = "submitted"
  /\ Update(r, MarkSubmitted(journal, job[r].intent, job[r].hash), "receipt")

\* readReceiptQuorum, or wait for the receipt
Receipt(r) ==
  /\ pc[r] = "receipt"
  /\ job[r].hash \in mined \cup failed
  /\ Update(r, MarkMined(journal, job[r].intent, job[r].hash \in mined), "end")

NoReceipt(r) ==
  /\ pc[r] = "receipt"
  /\ End(r)
  /\ UNCHANGED <<journal, job, pending, world, overwritten>>

(***************************************************************************)
(* recover-broadcaster                                                     *)
(***************************************************************************)
\* The record is read before the lock is taken.
StartRecover(r, i) ==
  /\ pc[r] = "idle"
  /\ i \in DOMAIN journal
  /\ journal[i].mode = "BROADCASTER" /\ journal[i].status \in {"SUBMITTING", "SUBMITTED"}
  /\ job' = [job EXCEPT ![r] = [cmd |-> "recover", intent |-> i, notes |-> journal[i].notes,
                                hash |-> journal[i].hash]]
  /\ Goto(r, "engine")
  /\ UNCHANGED <<journal, lock, pending, world, overwritten>>

\* withEngine: without the lock the command fails
RecoverLocks(r) ==
  /\ pc[r] = "engine"
  /\ IF lock = NoRun THEN lock' = r /\ Goto(r, "recover") ELSE End(r)
  /\ UNCHANGED <<journal, job, pending, world, overwritten>>

\* The journal is updated after withEngine has released the lock.
RecoverLookup(r) ==
  /\ pc[r] = "recover"
  /\ \/ Goto(r, "ended") /\ UNCHANGED job
     \/ \E t \in FoundByNullifiers(job[r].notes) :
          IF job[r].hash \in {NoTx, t}
            THEN job' = [job EXCEPT ![r].hash = t] /\ Goto(r, "submitted")
            ELSE UNCHANGED job /\ Goto(r, "ended")
  /\ lock' = IF lock = r THEN NoRun ELSE lock
  /\ UNCHANGED <<journal, pending, world, overwritten>>

(***************************************************************************)
(* The chain                                                               *)
(***************************************************************************)
\* A transaction succeeds if none of its notes is spent.
Mine(t) ==
  /\ t \in sent \ (mined \cup failed)
  /\ t.notes \cap Spent = {}
  /\ mined' = mined \cup {t}
  /\ UNCHANGED <<journal, lock, pc, job, pending, sent, failed, overwritten>>

\* A self-signed transaction consumes its nonce also when it reverts.
Revert(t) ==
  /\ t \in sent \ (mined \cup failed)
  /\ t.mode = "SELF_SIGNED"
  /\ failed' = failed \cup {t}
  /\ UNCHANGED <<journal, lock, pc, job, pending, sent, mined, overwritten>>

(***************************************************************************)
(* Specification                                                           *)
(***************************************************************************)
Init ==
  /\ journal = [i \in {} |-> NoJob]
  /\ lock = NoRun
  /\ pc = [r \in Runs |-> "idle"]
  /\ job = [r \in Runs |-> NoJob]
  /\ pending = [r \in Runs |-> NoWrite]
  /\ sent = {} /\ mined = {} /\ failed = {}
  /\ overwritten = FALSE

TransferStep(r) ==
  \/ \E cmd \in Commands \cap TransferCommands, i \in Intents : StartTransfer(r, cmd, i)
  \/ Check(r)
  \/ \E notes \in SUBSET Notes : Prove(r, notes)
  \/ ReserveTransfer(r)
  \/ Send(r)
  \/ AnswerAccepted(r) \/ AnswerFailed(r)
  \/ AnswerReported(r) \/ AnswerAmbiguous(r) \/ AnswerRejected(r)
  \/ Lookup(r)

RecoverStep(r) ==
  \/ "recover" \in Commands /\ \E i \in Intents : StartRecover(r, i)
  \/ RecoverLocks(r)
  \/ RecoverLookup(r)

SharedStep(r) ==
  Submitted(r) \/ Receipt(r) \/ NoReceipt(r) \/ Write(r) \/ Ended(r) \/ Crash(r)

Next ==
  \/ \E r \in Runs : TransferStep(r) \/ RecoverStep(r) \/ SharedStep(r)
  \/ \E t \in sent : Mine(t) \/ Revert(t)

Spec == Init /\ [][Next]_vars

(***************************************************************************)
(* Properties                                                              *)
(***************************************************************************)
Labels == {"idle", "check", "prove", "reserve", "send", "answer", "lookup", "submitted",
           "receipt", "engine", "recover", "write", "end", "ended"}

\* The journal passes the schema it is written and read with.
TypeOK ==
  /\ DOMAIN journal \subseteq Intents
  /\ \A i \in DOMAIN journal :
       LET record == journal[i] IN
       /\ record \in Records
       /\ Len(record.attempts) <= MaxRetries
       /\ record.mode = "SELF_SIGNED" =>
            record.hash # NoTx /\ record.status # "REJECTED"
       /\ record.mode = "BROADCASTER" =>
            (record.hash = NoTx <=> record.status \in {"SUBMITTING", "REJECTED"})
  /\ lock \in Runs \cup {NoRun}
  /\ pc \in [Runs -> Labels]
  /\ sent \subseteq Transactions /\ mined \subseteq sent /\ failed \subseteq sent

\* "records the bounded fee identity, payer, exact encrypted-submission quote
\* fingerprint and nullifiers before Waku submission" (docs/THREAT-MODEL.md):
\* whatever others may put on chain can be found again from the journal.
WriteAhead ==
  \A t \in sent :
    /\ t.intent \in DOMAIN journal
    /\ LET record == journal[t.intent] IN
       /\ record.mode = t.mode
       /\ IF t.mode = "SELF_SIGNED" THEN record.hash = t ELSE record.notes = t.notes

\* Reservations whose fate is open: their notes may not serve another intent.
OpenReservations ==
  {i \in DOMAIN journal :
     journal[i].mode = "BROADCASTER" /\ journal[i].status \in {"SUBMITTING", "SUBMITTED"}}

\* "A different intent cannot reserve any unresolved nullifier"
\* (docs/THREAT-MODEL.md): the notes of a transaction that may still be put on
\* chain are not those of another intent's unresolved reservation.
NoCrossIntentReuse ==
  \A t \in sent, i \in OpenReservations :
    i # t.intent => journal[i].notes \cap t.notes = {}

\* As long as no write has replaced another journal than the one it started
\* from, every transaction that left is on record, across crashes, lost
\* requests and retries (reserve before submitPrepared and broadcastTransaction).
WriteAheadUnlessOverwritten == ~overwritten => WriteAhead

\* Then an intent is paid at most once, by whatever command and however often
\* it is tried: all its variants spend the same notes.
PaidAtMostOnce ==
  ~overwritten => \A t, u \in mined : t.intent = u.intent => t = u

\* Then no broadcaster transaction spends notes held for another intent.
BroadcasterReservationsHold ==
  ~overwritten =>
    \A t \in sent, i \in OpenReservations :
      t.mode = "BROADCASTER" /\ i # t.intent => journal[i].notes \cap t.notes = {}

\* Then a record is closed as rejected only if none of its variants may ever
\* be mined: a fresh intent may be paid instead (cli.ts freshIntentPermitted).
RejectedWasNotSent ==
  ~overwritten =>
    \A i \in DOMAIN journal :
      journal[i].status = "REJECTED" => \A t \in sent : t.intent # i

\* Then the canonical hash of a broadcaster record is never one a broadcaster
\* made up: that transaction is on chain and spent all reserved notes, and it
\* pays this intent unless a self-signed transfer took the notes.
CanonicalHashIsOnChain ==
  ~overwritten =>
    \A i \in DOMAIN journal :
      LET record == journal[i] IN
      record.mode = "BROADCASTER" /\ record.hash # NoTx =>
        /\ record.hash \in mined
        /\ record.notes \subseteq record.hash.notes
        /\ record.hash.intent = i \/ record.hash.mode = "SELF_SIGNED"

\* What the journal says of the chain is true: a record that is closed as
\* rejected was never sent, and a hash that is on record is on chain
\* (markRejected, markBroadcasterRetryRejected, recoverTransactionHashForNullifiers).
JournalTellsTheTruth == RejectedWasNotSent /\ CanonicalHashIsOnChain

\* A closed record never changes again, not by a recovery that read it before
\* it was closed either, unless by such a write (markSubmitted, markMined).
TerminalIsFinal ==
  [][\A i \in DOMAIN journal :
       journal[i].status \in {"MINED", "REVERTED", "REJECTED"} =>
         overwritten' \/ (i \in DOMAIN journal' /\ journal'[i] = journal[i])]_vars
=============================================================================
