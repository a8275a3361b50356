--------------------------- MODULE IntentService ----------------------------
(***************************************************************************)
(* Idempotent creation of payment intents: POST /v1/intents of             *)
(* src/api/app.ts and IntentService.createIdempotent of                    *)
(* src/intents/service.ts, over tables payment_intents and                 *)
(* intent_idempotency.                                                     *)
(*                                                                         *)
(* A call runs without interruption up to the await of the signature, and  *)
(* its insert is one transaction; any other call may run in between.  A    *)
(* client that got no answer sends its saved request again, as a new call. *)
(***************************************************************************)
EXTENDS Integers, FiniteSets

CONSTANTS
  Calls,        \* HTTP requests handled by the daemon
  Keys,         \* Idempotency-Key headers
  Bodies,       \* well-formed request bodies
  Fingerprint,  \* [Bodies -> fingerprints]: bodies differing in blanks share one
  ExpiresAt,    \* [Bodies -> Nat]
  MaxTime,      \* bound of the clock
  MaxCrashes    \* bound of the number of daemon restarts

ASSUME IntentAssumption ==
  /\ MaxTime \in Nat /\ MaxCrashes \in Nat
  /\ ExpiresAt \in [Bodies -> Nat]
  /\ DOMAIN Fingerprint = Bodies

VARIABLES
  now,
  intents,      \* table payment_intents: body and creation time, by intent id
  idempotency,  \* table intent_idempotency: fingerprint and intent, by key
  calls,        \* the calls that have arrived
  crashes

vars == <<now, intents, idempotency, calls, crashes>>

\* A call creates at most one intent; the random id of that intent is the call.
Pending == [kind |-> "signing"]
Answered(kind, id) == [kind |-> kind, intent |-> id]

Put(table, key, row) ==
  [k \in DOMAIN table \cup {key} |-> IF k = key THEN row ELSE table[k]]

(***************************************************************************)
(* createIdempotent up to the first await                                  *)
(***************************************************************************)
\* The fingerprint is taken of the trimmed reference, the amount, the expiry.
SameRequest(row, body) == row.fingerprint = Fingerprint[body]

\* What an earlier request with the key makes of this one.
AnswerFrom(row, body) ==
  IF SameRequest(row, body) THEN Answered("replayed", row.intent) ELSE [kind |-> "conflict"]

\* Wrong variant: the request is validated before its key is looked up.
FirstPartValidatingFirst(key, body) ==
  IF ExpiresAt[body] <= now THEN [kind |-> "invalid"]
  ELSE IF key \in DOMAIN idempotency THEN AnswerFrom(idempotency[key], body)
  ELSE Pending

FirstPart(key, body) ==
  IF key \in DOMAIN idempotency THEN AnswerFrom(idempotency[key], body)
  ELSE IF ExpiresAt[body] <= now THEN [kind |-> "invalid"]
  ELSE Pending

\* known: history, the request was on record when the call arrived.
Arrive(c, key, body) ==
  /\ c \notin DOMAIN calls
  /\ calls' = Put(calls, c,
       [key |-> key, body |-> body, arrivedAt |-> now, answer |-> FirstPart(key, body),
        known |-> key \in DOMAIN idempotency
                  /\ idempotency[key].fingerprint = Fingerprint[body]])
  /\ UNCHANGED <<now, intents, idempotency, crashes>>

(***************************************************************************)
(* The transaction of createRecord                                         *)
(***************************************************************************)
\* Wrong variant: whoever took the key meanwhile is taken for the same request.
AnswerUncompared(row, body) == Answered("replayed", row.intent)

Taken(key) == key \in DOMAIN idempotency

AnswerAtCommit(row, body) == AnswerFrom(row, body)

\* INSERT of the intent and of its key; a second row with the key violates the
\* primary key, the transaction rolls back and the client is told to retry.
Insert(c) ==
  LET key == calls[c].key IN
  IF key \in DOMAIN idempotency
    THEN /\ UNCHANGED <<intents, idempotency>>
         /\ calls' = [calls EXCEPT ![c].answer = [kind |-> "error"]]
    ELSE /\ intents' = Put(intents, c, [body |-> calls[c].body, createdAt |-> calls[c].arrivedAt])
         /\ idempotency' = Put(idempotency, key,
              [fingerprint |-> Fingerprint[calls[c].body], intent |-> c])
         /\ calls' = [calls EXCEPT ![c].answer = Answered("created", c)]

Commit(c) ==
  /\ c \in DOMAIN calls
  /\ calls[c].answer = Pending
  /\ IF Taken(calls[c].key)
       THEN /\ calls' = [calls EXCEPT ![c].answer =
                           AnswerAtCommit(idempotency[calls[c].key], calls[c].body)]
            /\ UNCHANGED <<intents, idempotency>>
       ELSE Insert(c)
  /\ UNCHANGED <<now, crashes>>

(***************************************************************************)
(* Environment                                                             *)
(***************************************************************************)
Tick ==
  /\ now < MaxTime
  /\ now' = now + 1
  /\ UNCHANGED <<intents, idempotency, calls, crashes>>

\* The daemon dies and is started again: calls that await are never answered.
Crash ==
  /\ crashes < MaxCrashes
  /\ crashes' = crashes + 1
  /\ calls' = [c \in DOMAIN calls |->
       IF calls[c].answer = Pending THEN [calls[c] EXCEPT !.answer = [kind |-> "lost"]]
       ELSE calls[c]]
  /\ UNCHANGED <<now, intents, idempotency>>

(***************************************************************************)
(* Specification                                                           *)
(***************************************************************************)
Init ==
  /\ now = 0
  /\ intents = [c \in {} |-> 0]
  /\ idempotency = [k \in {} |-> 0]
  /\ calls = [c \in {} |-> 0]
  /\ crashes = 0

Next ==
  \/ \E c \in Calls, key \in Keys, body \in Bodies : Arrive(c, key, body)
  \/ \E c \in Calls : Commit(c)
  \/ Tick
  \/ Crash

Spec == Init /\ [][Next]_vars

(***************************************************************************)
(* Properties                                                              *)
(***************************************************************************)
Kinds == {"signing", "replayed", "conflict", "invalid", "created", "error", "lost"}
GotIntent(c) == calls[c].answer.kind \in {"created", "replayed"}

TypeOK ==
  /\ now \in 0..MaxTime
  /\ DOMAIN intents \subseteq Calls
  /\ DOMAIN idempotency \subseteq Keys
  /\ \A k \in DOMAIN idempotency : idempotency[k].intent \in DOMAIN intents
  /\ DOMAIN calls \subseteq Calls
  /\ \A c \in DOMAIN calls :
       /\ calls[c].answer.kind \in Kinds
       /\ GotIntent(c) => calls[c].answer.intent \in DOMAIN intents

\* Calls with one key that get an intent get the same one, which is the intent
\* they asked for.
SameKeySameIntent ==
  \A c, d \in DOMAIN calls :
    (calls[c].key = calls[d].key /\ GotIntent(c) /\ GotIntent(d)) =>
      /\ calls[c].answer.intent = calls[d].answer.intent
      /\ Fingerprint[calls[c].body] = Fingerprint[calls[d].body]

\* None is orphaned by a call that lost the race or was never answered.
EveryIntentHasItsKey ==
  \A c \in DOMAIN intents : Cardinality({k \in DOMAIN idempotency : idempotency[k].intent = c}) = 1

\* "Same key and same body" gets one intent: however calls with one key
\* interleave, crash or repeat, they agree on one intent, and no other is left
\* without a key (service.ts createIdempotent, createRecord).
OneIntentPerKey == SameKeySameIntent /\ EveryIntentHasItsKey

\* A request that is on record is answered with its intent, at any later time,
\* even when its expiry has passed and a new request would be refused; and a call
\* that loses the race gets a replay or a conflict, never an internal error
\* (service.ts createIdempotent, the lookup inside the transaction).
RetryIsReplay ==
  \A c \in DOMAIN calls :
    /\ calls[c].known => calls[c].answer.kind = "replayed"
    /\ calls[c].answer.kind # "error"
=============================================================================
