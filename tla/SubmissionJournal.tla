------------------------- MODULE SubmissionJournal --------------------------
(***************************************************************************)
(* The payer's submission journal (tools/ppops-payer/src/security/         *)
(* submission-journal.ts): one record per payment intent, written before   *)
(* the transaction leaves the machine.  An operation is the set of         *)
(* journals it may write, empty when it throws, {j} when it returns        *)
(* without writing.                                                        *)
(*                                                                         *)
(* A journal is a function from intents to records.  A transaction hash is *)
(* the transaction itself.  Of an attempt's quote only the run that made   *)
(* the attempt is kept: every attempt for an intent goes to a broadcaster  *)
(* that was not tried before, so their fingerprints differ.  Of a reported *)
(* hash only its presence is kept, nothing ever reads it.                  *)
(***************************************************************************)
EXTENDS Integers, Sequences

CONSTANTS
  Intents,
  Notes,        \* the payer's private notes, each with its nullifier
  Runs,         \* runs of the command line
  NoTx,         \* no transaction hash
  MaxRetries    \* retry attempts a record may hold: 3

ASSUME JournalAssumption == MaxRetries \in Nat

(***************************************************************************)
(* Types                                                                   *)
(***************************************************************************)
Mode == {"SELF_SIGNED", "BROADCASTER"}
Status == {"SUBMITTING", "SUBMITTED", "MINED", "REVERTED", "REJECTED"}
Outcome == {"RESERVED", "REJECTED", "AMBIGUOUS", "REPORTED"}

Transactions ==
  [run : Runs, intent : Intents, notes : SUBSET Notes, mode : Mode]

ASSUME NoTxAssumption == NoTx \notin Transactions

Attempt == [run : Runs, outcome : Outcome]

Records ==
  [mode : Mode, status : Status, notes : SUBSET Notes, hash : Transactions \cup {NoTx},
   reported : BOOLEAN, ambiguous : BOOLEAN, attempts : Seq(Attempt)]

(***************************************************************************)
(* Reading                                                                 *)
(***************************************************************************)
\* Wrong variant: a reservation nobody answered is taken for an abandoned one.
UnusedOrUnanswered(j, i) ==
  i \in DOMAIN j => j[i].status = "SUBMITTING" /\ ~j[i].reported /\ j[i].hash = NoTx

\* assertUnused, and the same test in reserve and reserveBroadcaster
Unused(j, i) == i \notin DOMAIN j

\* Wrong variant: a reported hash is taken for the end of the matter.
HoldsUntilReported(record) ==
  record.mode = "BROADCASTER" /\ record.status = "SUBMITTING" /\ ~record.reported

\* A record whose notes no other intent may use.
Holds(record) ==
  record.mode = "BROADCASTER" /\ record.status \notin {"REJECTED", "REVERTED"}

\* hasActiveBroadcasterNullifierConflict
Conflict(j, i, notes) ==
  \E k \in DOMAIN j \ {i} : Holds(j[k]) /\ j[k].notes \cap notes # {}

\* a submitting broadcaster record with neither a canonical nor a reported hash
Unresolved(j, i) ==
  /\ i \in DOMAIN j
  /\ j[i].mode = "BROADCASTER" /\ j[i].status = "SUBMITTING"
  /\ j[i].hash = NoTx /\ ~j[i].reported

\* Wrong variant: the cap is compared after the attempt was counted.
BelowCapLate(attempts) == Len(attempts) <= MaxRetries

BelowCap(attempts) == Len(attempts) < MaxRetries

\* assertBroadcasterRetryable
Retryable(j, i) == Unresolved(j, i) /\ BelowCap(j[i].attempts)

(***************************************************************************)
(* Writing                                                                 *)
(***************************************************************************)
Stored(j, i, record) == [k \in DOMAIN j \cup {i} |-> IF k = i THEN record ELSE j[k]]

Reserve(j, tx) ==
  IF Unused(j, tx.intent)
    THEN {Stored(j, tx.intent,
           [mode |-> "SELF_SIGNED", status |-> "SUBMITTING", notes |-> {}, hash |-> tx,
            reported |-> FALSE, ambiguous |-> FALSE, attempts |-> <<>>])}
    ELSE {}

ReserveBroadcaster(j, tx) ==
  IF Unused(j, tx.intent) /\ ~Conflict(j, tx.intent, tx.notes)
    THEN {Stored(j, tx.intent,
           [mode |-> "BROADCASTER", status |-> "SUBMITTING", notes |-> tx.notes,
            hash |-> NoTx, reported |-> FALSE, ambiguous |-> FALSE, attempts |-> <<>>])}
    ELSE {}

\* Wrong variant: a retry may spend whatever notes the wallet selects.
SameNotesUnchecked(left, right) == TRUE

\* sameNullifierSet
SameNotes(left, right) == left = right

ReserveBroadcasterRetry(j, tx) ==
  IF Retryable(j, tx.intent) /\ SameNotes(j[tx.intent].notes, tx.notes)
    THEN {[j EXCEPT ![tx.intent].attempts = Append(@, [run |-> tx.run, outcome |-> "RESERVED"])]}
    ELSE {}

MarkRejected(j, i) ==
  IF Unresolved(j, i) /\ j[i].attempts = <<>>
    THEN {[j EXCEPT ![i].status = "REJECTED"]}
    ELSE {}

\* the attempt of run r that is still open (its quote is not used twice)
IsOpenAttempt(attempt, r) == attempt.run = r /\ attempt.outcome = "RESERVED"
Settle(attempts, r, outcome) ==
  [n \in DOMAIN attempts |->
     IF IsOpenAttempt(attempts[n], r) THEN [attempts[n] EXCEPT !.outcome = outcome]
     ELSE attempts[n]]
HasOpenAttempt(attempts, r) == \E n \in DOMAIN attempts : IsOpenAttempt(attempts[n], r)

\* Wrong variant: the rejection of a retry rejects the whole record.
MarkRetryRejectedWhole(j, i, r) ==
  IF Unresolved(j, i) /\ HasOpenAttempt(j[i].attempts, r)
    THEN {[j EXCEPT ![i].attempts = Settle(@, r, "REJECTED"), ![i].status = "REJECTED"]}
    ELSE {}

MarkBroadcasterRetryRejected(j, i, r) ==
  IF Unresolved(j, i) /\ HasOpenAttempt(j[i].attempts, r)
    THEN {[j EXCEPT ![i].attempts = Settle(@, r, "REJECTED")]}
    ELSE {}

\* Of broadcasterAmbiguityCodes only its presence is kept.
MarkBroadcasterAmbiguous(j, i, r, retry) ==
  IF Unresolved(j, i) /\ (IF retry THEN HasOpenAttempt(j[i].attempts, r)
                                   ELSE j[i].attempts = <<>>)
    THEN {[j EXCEPT ![i].ambiguous = TRUE, ![i].attempts = Settle(@, r, "AMBIGUOUS")]}
    ELSE {}

\* the last attempt still reserved is the one reported
SettleLastReserved(attempts) ==
  LET reserved == {n \in DOMAIN attempts : attempts[n].outcome = "RESERVED"}
  IN  [n \in DOMAIN attempts |->
         IF n \in reserved /\ \A m \in reserved : m <= n
           THEN [attempts[n] EXCEPT !.outcome = "REPORTED"] ELSE attempts[n]]

\* A second report is ignored or, with another hash, refused.  No command makes one:
\* what is reported is not retried, so the hash is left out.
MarkBroadcasterReported(j, i) ==
  IF i \notin DOMAIN j \/ j[i].mode # "BROADCASTER" \/ j[i].status # "SUBMITTING" THEN {}
  ELSE IF j[i].reported THEN {j}
  ELSE {[j EXCEPT ![i].reported = TRUE, ![i].attempts = SettleLastReserved(@)]}

\* A receipt of the same outcome is ignored or, in another block, refused; either way
\* the command ends with the journal as it was, so the block is left out.
MarkMined(j, i, succeeded) ==
  LET target == IF succeeded THEN "MINED" ELSE "REVERTED" IN
  IF i \notin DOMAIN j \/ j[i].hash = NoTx THEN {}
  ELSE IF j[i].status = target THEN {j}
  ELSE IF j[i].status # "SUBMITTED" THEN {}
  ELSE {[j EXCEPT ![i].status = target]}

\* Wrong variant: whatever the record says, the hash just found is submitted.
MarkSubmittedAlways(j, i, tx) ==
  IF i \notin DOMAIN j THEN {} ELSE {[j EXCEPT ![i].status = "SUBMITTED", ![i].hash = tx]}

MarkSubmitted(j, i, tx) ==
  IF i \notin DOMAIN j \/ j[i].hash \notin {NoTx, tx} THEN {}
  ELSE IF j[i].status = "SUBMITTED" THEN {j}
  ELSE IF j[i].status # "SUBMITTING" THEN {}
  ELSE {[j EXCEPT ![i].status = "SUBMITTED", ![i].hash = tx]}
=============================================================================
