------------------------------- MODULE Outbox -------------------------------
(***************************************************************************)
(* Webhook delivery: table outbox_events of src/db/database.ts, drained by *)
(* WebhookDeliveryService (src/events/webhook.ts) in the scan cycle of     *)
(* PPOpsRuntime.scanOnce (src/runtime.ts): a delivery pass, the scan that  *)
(* writes new events, a second delivery pass.                              *)
(*                                                                         *)
(* Events are numbered in rowid order, which is also the order of          *)
(* occurred_at: both are assigned by the one scan loop.  All times are     *)
(* seconds relative to the clock reading the running cycle started with.   *)
(* The process may crash between any two steps; a POST may be answered     *)
(* late, after the sender gave up, or never.                               *)
(***************************************************************************)
EXTENDS Integers, FiniteSets

CONSTANTS
  MaxEvents,     \* bound of the number of events written
  MaxAttempts,   \* webhook.maxAttempts
  BatchLimit,    \* listPendingEvents(now, limit = 25)
  BaseRetryMs,   \* webhook.baseRetryMs
  MaxRetryMs,    \* webhook.maxRetryMs
  MaxPause,      \* longest time between two cycles that is considered
  MaxCrashes,    \* bound of the number of crashes
  MaxReplays     \* bound of the number of operator replays

ASSUME OutboxAssumption ==
  /\ {MaxEvents, MaxCrashes, MaxReplays} \subseteq Nat
  /\ {MaxAttempts, BatchLimit, BaseRetryMs, MaxRetryMs, MaxPause} \subseteq Nat \ {0}

VARIABLES
  outbox,     \* table outbox_events, rows by rowid
  phase,      \* where the scan loop is
  batch,      \* the rest of the snapshot of listPendingEvents: attempts by event
  answer,     \* what the awaited fetch has come to
  requests,   \* POSTs the receiver has not handled yet
  accepted,   \* events the receiver has answered with 2xx
  posted,     \* history: events sent at least once
  tried,      \* history: events sent in this cycle and not replayed since
  crashes, replays

daemonVars == <<phase, batch, answer>>
history    == <<posted, tried>>
budgets    == <<crashes, replays>>
vars == <<outbox, daemonVars, requests, accepted, history, budgets>>

Events == 1..MaxEvents

(***************************************************************************)
(* The table                                                               *)
(***************************************************************************)
Written == DOMAIN outbox
Fresh == [status |-> "pending", attempts |-> 0, dueIn |-> 0]

\* insertEvent
InsertEvent ==
  /\ Cardinality(Written) < MaxEvents
  /\ outbox' = [e \in 1..(Cardinality(Written) + 1) |-> IF e \in Written THEN outbox[e] ELSE Fresh]

Due(table) == {e \in DOMAIN table : table[e].status = "pending" /\ table[e].dueIn = 0}

\* Wrong variant: ORDER BY ... DESC.
ListPendingNewest(table) ==
  LET taken == {e \in Due(table) : Cardinality({f \in Due(table) : f > e}) < BatchLimit}
  IN  [e \in taken |-> table[e].attempts]

\* listPendingEvents: the oldest BatchLimit due rows, with their attempts
ListPending(table) ==
  LET taken == {e \in Due(table) : Cardinality({f \in Due(table) : f < e}) < BatchLimit}
  IN  [e \in taken |-> table[e].attempts]

\* markEventDelivered
MarkDelivered(e) ==
  outbox' = [outbox EXCEPT ![e].status = "delivered", ![e].attempts = @ + 1]

\* Wrong variant: attempts is left alone.
MarkFailedUncounted(e, wait) == outbox' = [outbox EXCEPT ![e].dueIn = wait]

\* markEventFailed
MarkFailed(e, wait) ==
  outbox' = [outbox EXCEPT ![e].attempts = @ + 1, ![e].dueIn = wait]

\* markEventDeadLettered
MarkDeadLettered(e) ==
  outbox' = [outbox EXCEPT ![e].status = "dead", ![e].attempts = @ + 1]

(***************************************************************************)
(* The scan cycle                                                          *)
(***************************************************************************)
Smaller(a, b) == IF a < b THEN a ELSE b
Larger(a, b)  == IF a > b THEN a ELSE b

\* The table as seen from a clock reading d seconds later.
Elapse(d) == [e \in Written |-> [outbox[e] EXCEPT !.dueIn = Larger(0, @ - d)]]

\* scanOnce begins with refreshExpirations.
StartCycle(d) ==
  /\ phase = "idle"
  /\ phase' = "expire"
  /\ outbox' = Elapse(d)
  /\ tried' = {}
  /\ UNCHANGED <<batch, answer, requests, accepted, posted, budgets>>

\* Then the first delivery pass takes its snapshot.
FirstPassBegins ==
  /\ phase = "expire"
  /\ phase' = "first"
  /\ batch' = ListPending(outbox)
  /\ UNCHANGED <<outbox, answer, requests, accepted, history, budgets>>

Delivering == phase \in {"first", "second"}
Current == CHOOSE e \in DOMAIN batch : \A f \in DOMAIN batch : e <= f
Rest == [e \in DOMAIN batch \ {Current} |-> batch[e]]
Request == [event |-> Current, attempts |-> batch[Current]]

\* deliverPendingExclusive sends one record and waits for the answer.
Post ==
  /\ Delivering
  /\ DOMAIN batch # {}
  /\ answer = "none"
  /\ answer' = "awaited"
  /\ requests' = requests \cup {Request}
  /\ posted' = posted \cup {Current}
  /\ tried' = tried \cup {Current}
  /\ UNCHANGED <<outbox, phase, batch, accepted, budgets>>

\* Wrong variant: any answer counts, response.ok is not looked at.
SucceedsWithAnyAnswer == answer \in {"ok", "refused"}

Succeeds == answer = "ok"

DeliverySucceeds ==
  /\ Succeeds
  /\ MarkDelivered(Current)
  /\ batch' = Rest
  /\ answer' = "none"
  /\ UNCHANGED <<phase, requests, accepted, history, budgets>>

Exhausted(attempts) == attempts + 1 >= MaxAttempts

\* Wrong variant: rounded down, without the lower bound of one second.
RetrySecondsRoundedDown(attempts) ==
  Smaller(BaseRetryMs * 2 ^ attempts, MaxRetryMs) \div 1000

RetrySeconds(attempts) ==
  Larger(1, (Smaller(BaseRetryMs * 2 ^ attempts, MaxRetryMs) + 999) \div 1000)

\* The catch block: a refusal, a timeout, a network failure, or an error
\* raised after the receiver said yes (body.cancel, markEventDelivered).
DeliveryFails ==
  /\ answer # "none"
  /\ IF Exhausted(batch[Current])
       THEN MarkDeadLettered(Current)
       ELSE MarkFailed(Current, RetrySeconds(batch[Current]))
  /\ batch' = Rest
  /\ answer' = "none"
  /\ UNCHANGED <<phase, requests, accepted, history, budgets>>

FirstPassEnds ==
  /\ phase = "first" /\ DOMAIN batch = {}
  /\ phase' = "scan"
  /\ UNCHANGED <<outbox, batch, answer, requests, accepted, history, budgets>>

\* A transaction of the reconciler writes an event: for an intent that expired, or
\* for a note that was scanned or rechecked.
WriteEvent ==
  /\ phase \in {"expire", "scan"}
  /\ InsertEvent
  /\ UNCHANGED <<daemonVars, requests, accepted, history, budgets>>

\* scan and rechecks are done, and the expirations of the second maintenance, with
\* the same clock reading.
ScanEnds ==
  /\ phase = "scan"
  /\ phase' = "second"
  /\ batch' = ListPending(outbox)
  /\ UNCHANGED <<outbox, answer, requests, accepted, history, budgets>>

\* scanner.scan or a recheck throws: executeScan gives up this cycle.
ScanFails ==
  /\ phase = "scan"
  /\ phase' = "idle"
  /\ UNCHANGED <<outbox, batch, answer, requests, accepted, history, budgets>>

SecondPassEnds ==
  /\ phase = "second" /\ DOMAIN batch = {}
  /\ phase' = "idle"
  /\ UNCHANGED <<outbox, batch, answer, requests, accepted, history, budgets>>

Crash ==
  /\ phase # "down"
  /\ crashes < MaxCrashes
  /\ phase' = "down"
  /\ batch' = [e \in {} |-> 0]
  /\ answer' = "none"
  /\ crashes' = crashes + 1
  /\ UNCHANGED <<outbox, requests, accepted, history, replays>>

Restart ==
  /\ phase = "down"
  /\ phase' = "idle"
  /\ UNCHANGED <<outbox, batch, answer, requests, accepted, history, budgets>>

(***************************************************************************)
(* The operator and the receiver                                           *)
(***************************************************************************)
\* Wrong variant: WHERE event_id = ? without the dead_lettered_at condition.
ReplayableAlways(e) == TRUE

Replayable(e) == outbox[e].status = "dead"

\* POST /v1/outbox/:eventId/replay while the daemon is up.  The clock it reads
\* may be lag seconds past the reading the running cycle uses.
Replay(e, lag) ==
  /\ phase # "down"
  /\ replays < MaxReplays
  /\ Replayable(e)
  /\ outbox' = [outbox EXCEPT ![e] = [Fresh EXCEPT !.dueIn = lag]]
  /\ tried' = tried \ {e}
  /\ replays' = replays + 1
  /\ UNCHANGED <<daemonVars, requests, accepted, posted, crashes>>

\* The receiver handles a request; the sender may have stopped waiting for it.
Answer(r, ok) ==
  /\ requests' = requests \ {r}
  /\ accepted' = IF ok THEN accepted \cup {r.event} ELSE accepted
  /\ answer' = IF answer = "awaited" /\ r = Request
                 THEN IF ok THEN "ok" ELSE "refused"
                 ELSE answer
  /\ UNCHANGED <<outbox, phase, batch, history, budgets>>

(***************************************************************************)
(* Specification                                                           *)
(***************************************************************************)
Init ==
  /\ outbox = [e \in {} |-> Fresh]
  /\ phase = "idle" /\ batch = [e \in {} |-> 0] /\ answer = "none"
  /\ requests = {} /\ accepted = {}
  /\ posted = {} /\ tried = {}
  /\ crashes = 0 /\ replays = 0

DaemonStep ==
  \/ \E d \in 1..MaxPause : StartCycle(d)
  \/ Post
  \/ DeliverySucceeds
  \/ DeliveryFails
  \/ FirstPassBegins
  \/ FirstPassEnds
  \/ SecondPassEnds
  \/ Restart

ScanReturns == ScanEnds \/ ScanFails

EnvironmentStep ==
  \/ Crash
  \/ \E e \in Written, lag \in 0..1 : Replay(e, lag)

Next ==
  \/ DaemonStep
  \/ ScanReturns
  \/ EnvironmentStep
  \/ WriteEvent
  \/ \E r \in requests, ok \in BOOLEAN : Answer(r, ok)

Spec == Init /\ [][Next]_vars

\* The timer of scheduleScan is always rearmed, every fetch ends by its timeout,
\* the supervisor restarts a crashed daemon.  A scan may hang: refreshBalances has
\* no timeout, and the next cycle waits for it (scanner.ts, server.ts).
FairSpec == Spec /\ WF_vars(DaemonStep)

(***************************************************************************)
(* Properties                                                              *)
(***************************************************************************)
TypeOK ==
  /\ Written \subseteq Events
  /\ \A e \in Written :
       outbox[e] \in [status : {"pending", "delivered", "dead"}, attempts : 0..MaxAttempts,
                      dueIn : 0..Larger(1, (MaxRetryMs + 999) \div 1000)]
  /\ phase \in {"down", "idle", "expire", "first", "scan", "second"}
  /\ DOMAIN batch \subseteq Written
  /\ answer \in {"none", "awaited", "ok", "refused"}
  /\ answer # "none" => DOMAIN batch # {}
  /\ posted \cup tried \cup accepted \subseteq Written

\* delivered_at is set only for an event the receiver has answered with 2xx,
\* whatever requests of earlier attempts or of an earlier process are still
\* under way (webhook.ts deliverPendingExclusive).
DeliveredWasAccepted ==
  \A e \in Written : outbox[e].status = "delivered" => e \in accepted

\* Events are sent for the first time in the order they were written: retries,
\* the size limit of a batch and crashes reorder repetitions only
\* (database.ts listPendingEvents).
FirstAttemptsInOrder == \A e \in posted : \A f \in Written : f < e => f \in posted

\* An event is given up exactly when maxAttempts attempts have been recorded,
\* and while it is live it still has one left.
GivenUpWhenExhausted ==
  \A e \in Written :
    /\ outbox[e].status = "pending" => outbox[e].attempts < MaxAttempts
    /\ outbox[e].status = "dead"    => outbox[e].attempts = MaxAttempts

\* Both passes of a cycle work with the clock reading of its start, and a retry
\* is at least a second away: an event that was not replayed is sent at most
\* once in a cycle.
OneAttemptPerCycle ==
  answer = "none" /\ phase = "second" => DOMAIN batch \cap tried = {}

\* The receiver gets its maxAttempts chances, no fewer and no more, one per scan
\* cycle: an attempt is counted once though its row is read in a snapshot and
\* incremented in the table, and what has just failed is not repeated at once
\* (webhook.ts catch block and retrySeconds, runtime.ts scanOnce).
RetriesAreMetered == GivenUpWhenExhausted /\ OneAttemptPerCycle

\* Nothing touches a delivered row again: no snapshot taken earlier, no
\* operator replay, no restarted process (database.ts replayDeadLetteredEvent).
DeliveredIsFinal ==
  [][\A e \in Written : outbox[e].status = "delivered" => outbox'[e].status = "delivered"]_vars

\* Every event is eventually delivered or dead-lettered, even if the receiver
\* never answers, every scan fails and the daemon dies, unless a scan never
\* returns: then the daemon delivers nothing more (module Daemon says how that is
\* noticed).
EveryEventIsSettled ==
  \A e \in Events :
    e \in Written ~>
      (e \in Written /\ outbox[e].status \in {"delivered", "dead"}) \/ [](phase = "scan")
=============================================================================
