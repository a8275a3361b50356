------------------------ MODULE IntentServiceProofs -------------------------
(***************************************************************************)
(* Theorems about idempotent creation (IntentService.tla), for any number  *)
(* of calls, keys, bodies and restarts.                                    *)
(*                                                                         *)
(* The invariant follows the two tables in both directions: a key names an *)
(* intent, an intent was created by the call of that id, under that key.   *)
(***************************************************************************)
EXTENDS IntentService, FiniteSetTheorems, TLAPS

IsCall(r) ==
  r = [key |-> r.key, body |-> r.body, arrivedAt |-> r.arrivedAt, answer |-> r.answer,
       known |-> r.known]

\* The row of the key a call came with is what it asked for.
OnRecord(c) ==
  /\ calls[c].key \in DOMAIN idempotency
  /\ idempotency[calls[c].key].fingerprint = Fingerprint[calls[c].body]

CallsOK ==
  \A c \in DOMAIN calls :
    /\ IsCall(calls[c])
    /\ calls[c].known => OnRecord(c) /\ calls[c].answer.kind = "replayed"
    /\ GotIntent(c) => OnRecord(c) /\ idempotency[calls[c].key].intent = calls[c].answer.intent
    /\ calls[c].answer.kind # "error"

\* The intent of a key was created by a call with that key.
KeysOK ==
  \A k \in DOMAIN idempotency :
    LET c == idempotency[k].intent
    IN  c \in DOMAIN intents /\ c \in DOMAIN calls /\ calls[c].key = k

IntentsOK ==
  \A c \in DOMAIN intents :
    /\ c \in DOMAIN calls
    /\ calls[c].answer.kind = "created"
    /\ calls[c].key \in DOMAIN idempotency /\ idempotency[calls[c].key].intent = c

IntentInv == CallsOK /\ KeysOK /\ IntentsOK

-----------------------------------------------------------------------------
\* No call, no intent.
LEMMA InitIsGood == Init => IntentInv
BY DEF Init, IntentInv, CallsOK, KeysOK, IntentsOK

\* A call looks the key up and is answered, or awaits its transaction.
LEMMA ArriveKeeps ==
  ASSUME IntentInv, NEW c \in Calls, NEW key \in Keys, NEW body \in Bodies, Arrive(c, key, body)
  PROVE  IntentInv'
<1> DEFINE known == /\ key \in DOMAIN idempotency
                    /\ idempotency[key].fingerprint = Fingerprint[body]
           row == [key |-> key, body |-> body, arrivedAt |-> now,
                   answer |-> FirstPart(key, body), known |-> known]
<1>1. /\ c \notin DOMAIN calls /\ calls' = Put(calls, c, row)
      /\ UNCHANGED <<intents, idempotency>>
  BY DEF Arrive
<1> HIDE DEF known
<1>2. /\ DOMAIN calls' = DOMAIN calls \cup {c} /\ calls'[c] = row
      /\ \A d \in DOMAIN calls : calls'[d] = calls[d]
  <2> HIDE DEF row
  <2>1. /\ DOMAIN Put(calls, c, row) = DOMAIN calls \cup {c} /\ Put(calls, c, row)[c] = row
        /\ \A d \in DOMAIN calls : d # c => Put(calls, c, row)[d] = calls[d]
    BY DEF Put
  <2> QED BY <1>1, <2>1
<1>3. row.key = key /\ row.body = body /\ row.answer = FirstPart(key, body) /\ row.arrivedAt = now
  OBVIOUS
<1>4. known => row.answer.kind = "replayed"
  BY <1>3 DEF FirstPart, AnswerFrom, SameRequest, Answered, known
<1>5. row.answer.kind \in {"created", "replayed"} =>
        known /\ idempotency[key].intent = row.answer.intent
  BY <1>3 DEF FirstPart, AnswerFrom, SameRequest, Answered, Pending, known
<1>6. row.answer.kind # "error"
  BY <1>3 DEF FirstPart, AnswerFrom, SameRequest, Answered, Pending
<1>7. row.known = known
  OBVIOUS
<1>10. IsCall(row)
  BY <1>3, <1>7 DEF IsCall
<1> HIDE DEF row
<1>8. CallsOK'
  <2>1. ASSUME NEW d \in DOMAIN calls'
        PROVE  /\ IsCall(calls'[d])
               /\ calls'[d].known => OnRecord(d)' /\ calls'[d].answer.kind = "replayed"
               /\ GotIntent(d)' => /\ OnRecord(d)'
                                   /\ idempotency'[calls'[d].key].intent = calls'[d].answer.intent
               /\ calls'[d].answer.kind # "error"
    <3>1. CASE d = c
      <4>1. calls'[d] = row
        BY <1>2, <3>1
      <4>2. known => OnRecord(d)'
        BY <1>1, <1>3, <4>1 DEF OnRecord, known
      <4>3. IsCall(calls'[d]) /\ calls'[d].answer.kind # "error"
        BY <1>6, <1>10, <4>1
      <4>4. calls'[d].known => OnRecord(d)' /\ calls'[d].answer.kind = "replayed"
        BY <1>4, <1>7, <4>1, <4>2
      <4>5. GotIntent(d)' => /\ OnRecord(d)'
                             /\ idempotency'[calls'[d].key].intent = calls'[d].answer.intent
        BY <1>1, <1>3, <1>5, <4>1, <4>2 DEF GotIntent
      <4> QED BY <4>3, <4>4, <4>5
    <3>2. CASE d # c
      BY <1>1, <1>2, <3>2 DEF IntentInv, CallsOK, OnRecord, GotIntent
    <3> QED BY <3>1, <3>2
  <2> QED BY <2>1 DEF CallsOK
<1>9. KeysOK' /\ IntentsOK'
  BY <1>1, <1>2 DEF IntentInv, KeysOK, IntentsOK
<1> QED BY <1>8, <1>9 DEF IntentInv

\* Only the answer of one call changes, and only to what its key says.
LEMMA AnswerChanges ==
  ASSUME IntentInv, NEW c \in DOMAIN calls, NEW a,
         calls[c].answer = Pending,
         UNCHANGED <<intents, idempotency>>,
         calls' = [calls EXCEPT ![c].answer = a],
         a.kind \in {"created", "replayed"} =>
           OnRecord(c) /\ idempotency[calls[c].key].intent = a.intent,
         a.kind # "error"
  PROVE  IntentInv'
<1>1. IsCall(calls[c])
  BY DEF IntentInv, CallsOK
<1>2. /\ DOMAIN calls' = DOMAIN calls
      /\ calls'[c] = [key |-> calls[c].key, body |-> calls[c].body,
                      arrivedAt |-> calls[c].arrivedAt, answer |-> a, known |-> calls[c].known]
      /\ \A d \in DOMAIN calls \ {c} : calls'[d] = calls[d]
  BY <1>1 DEF IsCall
<1>3. ~calls[c].known /\ calls[c].answer.kind = "signing"
  BY DEF IntentInv, CallsOK, Pending
<1>4. CallsOK'
  BY <1>2, <1>3 DEF IntentInv, CallsOK, OnRecord, GotIntent, IsCall
<1>5. KeysOK'
  <2>1. \A d \in DOMAIN calls : calls'[d].key = calls[d].key
    BY <1>2
  <2> QED BY <1>2, <2>1 DEF IntentInv, KeysOK
<1>6. IntentsOK'
  BY <1>2, <1>3 DEF IntentInv, IntentsOK
<1> QED BY <1>4, <1>5, <1>6 DEF IntentInv

\* The transaction makes both rows, or finds that the race is lost.
LEMMA CommitKeeps == ASSUME IntentInv, NEW c \in Calls, Commit(c) PROVE IntentInv'
<1>1. c \in DOMAIN calls /\ calls[c].answer = Pending
  BY DEF Commit
<1>2. CASE Taken(calls[c].key)
  <2> DEFINE a == AnswerFrom(idempotency[calls[c].key], calls[c].body)
  <2>1. calls' = [calls EXCEPT ![c].answer = a] /\ UNCHANGED <<intents, idempotency>>
    BY <1>2 DEF Commit, AnswerAtCommit
  <2>2. /\ a.kind \in {"created", "replayed"} =>
             OnRecord(c) /\ idempotency[calls[c].key].intent = a.intent
        /\ a.kind # "error"
    BY <1>2 DEF AnswerFrom, SameRequest, Answered, Taken, OnRecord
  <2> HIDE DEF a
  <2> QED BY <1>1, <2>1, <2>2, AnswerChanges
<1>3. CASE ~Taken(calls[c].key)
  <2> DEFINE key == calls[c].key
             row == [fingerprint |-> Fingerprint[calls[c].body], intent |-> c]
  <2>1. key \notin DOMAIN idempotency /\ Insert(c)
    BY <1>3 DEF Commit, Taken
  <2>2. /\ intents' = Put(intents, c, [body |-> calls[c].body, createdAt |-> calls[c].arrivedAt])
        /\ idempotency' = Put(idempotency, key, row)
        /\ calls' = [calls EXCEPT ![c].answer = Answered("created", c)]
    BY <2>1 DEF Insert
  <2>3. IsCall(calls[c])
    BY <1>1 DEF IntentInv, CallsOK
  <2>4. /\ DOMAIN calls' = DOMAIN calls
        /\ calls'[c] = [key |-> key, body |-> calls[c].body, arrivedAt |-> calls[c].arrivedAt,
                        answer |-> Answered("created", c), known |-> calls[c].known]
        /\ \A d \in DOMAIN calls \ {c} : calls'[d] = calls[d]
    BY <1>1, <2>2, <2>3 DEF IsCall
  <2>5. DOMAIN intents' = DOMAIN intents \cup {c}
    BY <2>2 DEF Put
  <2> HIDE DEF row
  <2>6. /\ DOMAIN idempotency' = DOMAIN idempotency \cup {key} /\ idempotency'[key] = row
        /\ \A k \in DOMAIN idempotency : idempotency'[k] = idempotency[k]
    <3> HIDE DEF key
    <3>1. /\ DOMAIN Put(idempotency, key, row) = DOMAIN idempotency \cup {key}
          /\ Put(idempotency, key, row)[key] = row
          /\ \A k \in DOMAIN idempotency : k # key => Put(idempotency, key, row)[k] = idempotency[k]
      BY DEF Put
    <3> QED BY <2>1, <2>2, <3>1
  <2>7. ~calls[c].known /\ c \notin DOMAIN intents
    BY <1>1 DEF IntentInv, CallsOK, IntentsOK, Pending
  <2>8. row.intent = c /\ row.fingerprint = Fingerprint[calls[c].body]
    BY DEF row
  <2>9. Answered("created", c).kind = "created" /\ Answered("created", c).intent = c
    BY DEF Answered
  <2>10. CallsOK'
    <3>1. ASSUME NEW d \in DOMAIN calls \ {c}, OnRecord(d)
          PROVE  OnRecord(d)' /\ idempotency'[calls'[d].key] = idempotency[calls[d].key]
      BY <2>4, <2>6, <3>1 DEF OnRecord
    <3>2. \A d \in DOMAIN calls \ {c} :
            /\ IsCall(calls'[d])
            /\ calls'[d].known => OnRecord(d)' /\ calls'[d].answer.kind = "replayed"
            /\ GotIntent(d)' => /\ OnRecord(d)'
                                /\ idempotency'[calls'[d].key].intent = calls'[d].answer.intent
            /\ calls'[d].answer.kind # "error"
      BY <2>4, <3>1 DEF IntentInv, CallsOK, GotIntent
    <3>3. OnRecord(c)' /\ idempotency'[calls'[c].key].intent = calls'[c].answer.intent
      BY <2>4, <2>6, <2>8, <2>9 DEF OnRecord
    <3>4. IsCall(calls'[c]) /\ ~calls'[c].known /\ calls'[c].answer.kind # "error"
      BY <2>4, <2>7, <2>9 DEF IsCall
    <3> QED BY <2>4, <3>2, <3>3, <3>4 DEF CallsOK
  <2>11. KeysOK'
    BY <1>1, <2>4, <2>5, <2>6, <2>8 DEF IntentInv, KeysOK
  <2>12. IntentsOK'
    BY <1>1, <2>4, <2>5, <2>6, <2>7, <2>8, <2>9 DEF IntentInv, IntentsOK
  <2> QED BY <2>10, <2>11, <2>12 DEF IntentInv
<1> QED BY <1>2, <1>3

\* A crash loses the calls that await and keeps the tables.
LEMMA CrashKeeps == ASSUME IntentInv, Crash PROVE IntentInv'
<1>1. UNCHANGED <<intents, idempotency>> /\ DOMAIN calls' = DOMAIN calls
  BY DEF Crash
<1>2. ASSUME NEW d \in DOMAIN calls
      PROVE  \/ calls'[d] = calls[d]
             \/ /\ calls[d].answer.kind = "signing" /\ IsCall(calls'[d])
                /\ calls'[d].key = calls[d].key /\ calls'[d].known = calls[d].known
                /\ calls'[d].answer.kind = "lost"
  <2>1. IsCall(calls[d])
    BY DEF IntentInv, CallsOK
  <2>2. CASE calls[d].answer = Pending
    <3>1. calls'[d] = [calls[d] EXCEPT !.answer = [kind |-> "lost"]]
      BY <2>2 DEF Crash
    <3>2. calls'[d] = [key |-> calls[d].key, body |-> calls[d].body,
                       arrivedAt |-> calls[d].arrivedAt, answer |-> [kind |-> "lost"],
                       known |-> calls[d].known]
      BY <2>1, <3>1 DEF IsCall
    <3> QED BY <2>2, <3>2 DEF IsCall, Pending
  <2>3. CASE calls[d].answer # Pending
    BY <2>3 DEF Crash
  <2> QED BY <2>2, <2>3
<1>3. CallsOK'
  BY <1>1, <1>2 DEF IntentInv, CallsOK, OnRecord, GotIntent
<1>4. KeysOK' /\ IntentsOK'
  BY <1>1, <1>2 DEF IntentInv, KeysOK, IntentsOK
<1> QED BY <1>3, <1>4 DEF IntentInv

\* Every step preserves the invariant.
LEMMA NextKeeps == IntentInv /\ [Next]_vars => IntentInv'
<1> SUFFICES ASSUME IntentInv, [Next]_vars PROVE IntentInv'
  OBVIOUS
<1>1. CASE Tick \/ UNCHANGED vars
  BY <1>1 DEF Tick, vars, IntentInv, CallsOK, KeysOK, IntentsOK, OnRecord, GotIntent
<1> QED BY <1>1, ArriveKeeps, CommitKeeps, CrashKeeps DEF Next

\* The invariant of the intent service.
LEMMA InvariantHolds == Spec => []IntentInv
BY InitIsGood, NextKeeps, PTL DEF Spec

-----------------------------------------------------------------------------
\* For any calls and restarts, calls that share a key agree on one intent, and
\* every stored intent has exactly one key.
THEOREM OneKeyOneIntent == Spec => []OneIntentPerKey
<1>1. IntentInv => SameKeySameIntent
  BY DEF IntentInv, CallsOK, OnRecord, SameKeySameIntent
<1>2. IntentInv => EveryIntentHasItsKey
  <2> SUFFICES ASSUME IntentInv, NEW c \in DOMAIN intents
               PROVE  Cardinality({k \in DOMAIN idempotency : idempotency[k].intent = c}) = 1
    BY DEF EveryIntentHasItsKey
  <2>1. {k \in DOMAIN idempotency : idempotency[k].intent = c} = {calls[c].key}
    BY DEF IntentInv, KeysOK, IntentsOK
  <2> QED BY <2>1, FS_Singleton
<1> QED BY <1>1, <1>2, InvariantHolds, PTL DEF OneIntentPerKey

\* A request that is on record is replayed, and losing a race is no error.
THEOREM RetriesAreReplayed == Spec => []RetryIsReplay
<1>1. IntentInv => RetryIsReplay
  BY DEF IntentInv, CallsOK, RetryIsReplay
<1> QED BY <1>1, InvariantHolds, PTL
=============================================================================
