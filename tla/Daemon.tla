-------------------------------- MODULE Daemon --------------------------------
(***************************************************************************)
(* One daemon process over and over: serve and scan-once of src/cli.ts,    *)
(* PPOpsRuntime (src/runtime.ts), PPOpsDaemon (src/api/server.ts), the     *)
(* engine's life (src/railgun/engine.ts), ReconciliationHealth             *)
(* (src/operations/health.ts) and the heights a scan takes finality from.  *)
(* What the scan does to the ledger is module Reconciliation's, what it    *)
(* does to the outbox is module Outbox's.                                  *)
(*                                                                         *)
(* A scan of the SDK cannot be cancelled and may never return.  Clocks are *)
(* ages that stop counting when they are too old to make a difference.     *)
(***************************************************************************)
EXTENDS RpcQuorum

CONSTANTS
  Liars,        \* providers that answer what they like
  PaidAt,       \* the block of the payment
  Confirmations, \* finality.confirmations, for finality mode "confirmations"
  MaxHeight,    \* bound of the heights
  MaxRequests,  \* bound of the HTTP requests being answered
  MaxStaleness, \* maxScanStalenessMs
  StallAfter    \* scanStallThresholdMs

ASSUME DaemonAssumption ==
  /\ Liars \subseteq Providers /\ Cardinality(Liars) < MajorityQuorum
  /\ MaxHeight \in Nat /\ PaidAt \in 1..MaxHeight /\ Confirmations \in Nat \ {0}
  /\ MaxRequests \in Nat /\ MaxStaleness \in Nat /\ StallAfter \in Nat

NoReceipt == 0   \* a receipt that is null

VARIABLES
  mode,      \* the command: "serve" or "scan-once"
  phase,     \* where it is between its start and its exit
  held,      \* it holds the runtime lock
  engine,    \* the SDK engine and its LevelDB are open
  database,  \* the SQLite database is open
  server,    \* the HTTP server: "off", "listening" or "closed"
  requests,  \* HTTP requests being answered
  timer,     \* scanTimer is set
  scan,      \* the step of the active scan, or "none"
  hung,      \* the SDK's scan will not return
  stopping,  \* PPOpsDaemon.stopping
  ready, inProgress, sinceSuccess, sinceProgress, \* ReconciliationHealth
  depth,     \* finality.confirmations as configured, 0 in finality mode "finalized"
  reported,  \* the height the last chain context reported: finalized or latest block
  credited,  \* the payment's row is FINALIZED
  height     \* that height of the chain

vars == <<mode, phase, held, engine, database, server, requests, timer, scan, hung, stopping,
          ready, inProgress, sinceSuccess, sinceProgress, depth, reported, credited, height>>

process == <<mode, phase, held, engine, database>>
http    == <<server, requests>>
cycle   == <<timer, scan, hung, stopping>>
health  == <<ready, inProgress, sinceSuccess, sinceProgress>>
chain   == <<depth, reported, credited, height>>

(***************************************************************************)
(* PPOpsRuntime.create                                                     *)
(***************************************************************************)
\* Configuration and secrets are read, the lock is acquired; a lock that is still
\* there is one of a process that has gone.
Launch ==
  /\ phase = "down"
  /\ mode' \in {"serve", "scan-once"}
  /\ phase' = "starting engine" /\ held' = TRUE
  /\ UNCHANGED <<engine, database, http, cycle, health, chain>>

\* engine.start.  When it fails, startRailgunEngine may have left LevelDB open, or
\* the engine may not have closed within the 15 s its own catch waits.
EngineStarts ==
  /\ phase = "starting engine"
  /\ \/ phase' = "opening database" /\ engine' = TRUE
     \/ phase' = "giving up" /\ engine' \in BOOLEAN
  /\ UNCHANGED <<mode, held, database, http, cycle, health, chain>>

\* The database, the scanner and the services; then PPOpsDaemon.start, or the only
\* scan of scan-once.
DatabaseOpens ==
  /\ phase = "opening database"
  /\ database' = TRUE
  /\ \/ phase' = "giving up" /\ UNCHANGED <<server, timer, scan>>
     \/ /\ phase' = "serving"
        /\ IF mode = "serve"
             THEN server' = "listening" /\ timer' = TRUE /\ UNCHANGED scan
             ELSE scan' = "expire" /\ UNCHANGED <<server, timer>>
  /\ UNCHANGED <<mode, held, engine, requests, hung, stopping, health, chain>>

\* What engine.stop may leave: it waits 15 s for the engine to shut down, and does
\* nothing when engine.start has not returned.
EngineAfterStop(started) == IF started THEN {FALSE, engine} ELSE {engine}

\* the catch of create, which ignores what goes wrong in it
GivesUp ==
  /\ phase = "giving up"
  /\ phase' = "exiting" /\ engine' \in EngineAfterStop(database)
  /\ database' = FALSE /\ held' = FALSE
  /\ UNCHANGED <<mode, http, cycle, health, chain>>

(***************************************************************************)
(* Scanning                                                                *)
(***************************************************************************)
\* scanStarted
HealthScanStarted ==
  /\ inProgress' = TRUE /\ sinceProgress' = 0
  /\ UNCHANGED <<ready, sinceSuccess>>

TimerFires ==
  /\ timer
  /\ timer' = FALSE /\ scan' = "expire"
  /\ HealthScanStarted
  /\ UNCHANGED <<process, http, hung, stopping, chain>>

\* Wrong variant: the next scan is scheduled by the one that succeeds.
RearmsOnSuccess(succeeded) == mode = "serve" /\ ~stopping /\ succeeded

\* The finally of scheduleScan: however the scan ended, unless stop was called.
Rearms(succeeded) == mode = "serve" /\ ~stopping

\* scanSucceeded or scanFailed; scan-once goes on to its stop.
ScanEnds(succeeded) ==
  /\ scan' = "none" /\ hung' = FALSE
  /\ timer' = Rearms(succeeded)
  /\ inProgress' = FALSE
  /\ ready' = succeeded
  /\ sinceSuccess' = IF succeeded THEN 0 ELSE sinceSuccess
  /\ phase' = IF mode = "scan-once" THEN "closing scanner" ELSE phase
  /\ UNCHANGED <<mode, held, engine, database, http, stopping, sinceProgress>>

ScanGoesTo(next) ==
  /\ scan' = next
  /\ UNCHANGED <<process, http, timer, hung, stopping, health>>

\* maintenanceOnce, before and after: expirations and webhooks
Maintains ==
  /\ scan \in {"expire", "deliver"}
  /\ \/ scan = "expire" /\ ScanGoesTo("sdk scan")
     \/ scan = "deliver" /\ ScanEnds(TRUE)
     \/ ScanEnds(FALSE)
  /\ UNCHANGED chain

\* refreshBalances hangs.
SdkHangs ==
  /\ scan = "sdk scan" /\ ~hung
  /\ hung' = TRUE
  /\ UNCHANGED <<process, http, timer, scan, stopping, health, chain>>

\* A merkle tree callback of the SDK's scan
SdkProgresses ==
  /\ scan = "sdk scan" /\ ~hung
  /\ sinceProgress' = 0
  /\ UNCHANGED <<process, http, cycle, ready, inProgress, sinceSuccess, chain>>

SdkReturns ==
  /\ scan = "sdk scan" /\ ~hung
  /\ ScanGoesTo("context") \/ ScanEnds(FALSE)
  /\ UNCHANGED chain

\* What the providers answer when they are asked for the finalized or the latest
\* block: an honest one is behind at most.
HeightAnswers ==
  {a \in [Providers -> 0..MaxHeight \cup {None}] :
     \A p \in Providers \ Liars : a[p] = None \/ a[p] <= height}

\* And when they are asked for the receipt of the payment: an honest one has its
\* block, or nothing yet.
ReceiptAnswers ==
  {a \in [Providers -> 0..MaxHeight \cup {None}] :
     \A p \in Providers \ Liars : a[p] \in {None, NoReceipt, PaidAt}}

\* chainContext in scan and refreshKnownChainState.  No agreement fails the scan.
ContextRead ==
  /\ scan \in {"context", "recheck context"}
  /\ \E answers \in HeightAnswers :
       IF ConsensusHeight(answers) = {}
         THEN ScanEnds(FALSE) /\ UNCHANGED chain
         ELSE /\ reported' \in ConsensusHeight(answers)
              /\ \/ ScanGoesTo(IF scan = "context" THEN "receipt" ELSE "recheck receipt")
                 \/ ScanEnds(FALSE)
              /\ UNCHANGED <<depth, credited, height>>

\* chainStatusFor, in both finality modes
Final(block, at) == IF depth = 0 THEN block <= at ELSE at - block + 1 >= depth

\* getTransactionReceipt and chainStatusFor for the payment, once for the note that
\* was seen and again when its row is rechecked; the row is reconciled with it.
ReceiptRead ==
  /\ scan \in {"receipt", "recheck receipt"}
  /\ \E answers \in ReceiptAnswers :
       IF ConsensusValue(answers) = {}
         THEN ScanEnds(FALSE) /\ UNCHANGED chain
         ELSE /\ \E block \in ConsensusValue(answers) :
                   credited' = (block # NoReceipt /\ Final(block, reported))
              /\ \/ ScanGoesTo(IF scan = "receipt" THEN "recheck context" ELSE "deliver")
                 \/ ScanGoesTo("deliver")
                 \/ ScanEnds(FALSE)
              /\ UNCHANGED <<depth, reported, height>>

\* Wrong variant: without the test of the last success.
ReadyForever == ready

\* railgunReady of snapshot, and scanStalled
Ready == ready /\ sinceSuccess <= MaxStaleness
Stalled == inProgress /\ sinceProgress > StallAfter

(***************************************************************************)
(* HTTP                                                                    *)
(***************************************************************************)
RequestArrives ==
  /\ server = "listening" /\ requests < MaxRequests
  /\ requests' = requests + 1
  /\ UNCHANGED <<process, server, cycle, health, chain>>

RequestAnswered ==
  /\ requests > 0
  /\ requests' = requests - 1
  /\ UNCHANGED <<process, server, cycle, health, chain>>

(***************************************************************************)
(* PPOpsDaemon.stop and PPOpsRuntime.stop                                  *)
(***************************************************************************)
\* SIGINT, SIGTERM or an error of the server: the timer is cleared, the server
\* takes no more connections.
StopBegins ==
  /\ phase = "serving" /\ mode = "serve"
  /\ stopping' = TRUE /\ timer' = FALSE /\ server' = "closed" /\ phase' = "closing server"
  /\ UNCHANGED <<mode, held, engine, database, requests, scan, hung, health, chain>>

\* closeServer resolves when the last request is answered; when it rejects, stop
\* throws and the process exits with everything open.
ServerCloses ==
  /\ phase = "closing server"
  /\ \/ requests = 0 /\ phase' = "draining"
     \/ phase' = "exiting"
  /\ UNCHANGED <<mode, held, engine, database, http, cycle, health, chain>>

\* Wrong variant: the active scan is not awaited.
DrainedAtOnce == TRUE

\* await this.activeScan
Drained == scan = "none"

Drains ==
  /\ phase = "draining" /\ Drained
  /\ phase' = "closing scanner"
  /\ UNCHANGED <<mode, held, engine, database, http, cycle, health, chain>>

\* scanner.close, engine.stop, database.close, lock.release: each is tried whatever
\* became of the one before.
ClosesScanner ==
  /\ phase = "closing scanner"
  /\ phase' = "closing engine"
  /\ UNCHANGED <<mode, held, engine, database, http, cycle, health, chain>>

ClosesEngine ==
  /\ phase = "closing engine"
  /\ phase' = "closing database" /\ engine' \in EngineAfterStop(TRUE)
  /\ UNCHANGED <<mode, held, database, http, cycle, health, chain>>

ClosesDatabase ==
  /\ phase = "closing database"
  /\ phase' = "releasing" /\ database' = FALSE
  /\ UNCHANGED <<mode, held, engine, http, cycle, health, chain>>

ReleasesLock ==
  /\ phase = "releasing"
  /\ phase' = "exiting" /\ held' = FALSE
  /\ UNCHANGED <<mode, engine, database, http, cycle, health, chain>>

\* The process is gone: by process.exit, or killed.  A lock it held is stale.
Gone ==
  /\ phase' = "down" /\ held' = FALSE /\ engine' = FALSE /\ database' = FALSE
  /\ server' = "off" /\ requests' = 0
  /\ timer' = FALSE /\ scan' = "none" /\ hung' = FALSE /\ stopping' = FALSE
  /\ ready' = FALSE /\ inProgress' = FALSE
  /\ sinceSuccess' = MaxStaleness + 1 /\ sinceProgress' = 0
  /\ UNCHANGED <<mode, chain>>

Exits  == phase = "exiting" /\ Gone
Killed == phase # "down" /\ Gone

(***************************************************************************)
(* The world                                                               *)
(***************************************************************************)
Older(age, limit) == IF age > limit THEN age ELSE age + 1

Tick ==
  /\ sinceSuccess' = Older(sinceSuccess, MaxStaleness)
  /\ sinceProgress' = IF inProgress THEN Older(sinceProgress, StallAfter) ELSE sinceProgress
  /\ UNCHANGED <<process, http, cycle, ready, inProgress, chain>>

BlockFinalized ==
  /\ height < MaxHeight
  /\ height' = height + 1
  /\ UNCHANGED <<process, http, cycle, health, depth, reported, credited>>

(***************************************************************************)
(* Specification                                                           *)
(***************************************************************************)
Init ==
  /\ mode = "serve" /\ phase = "down" /\ held = FALSE /\ engine = FALSE /\ database = FALSE
  /\ server = "off" /\ requests = 0
  /\ timer = FALSE /\ scan = "none" /\ hung = FALSE /\ stopping = FALSE
  /\ ready = FALSE /\ inProgress = FALSE
  /\ sinceSuccess = MaxStaleness + 1 /\ sinceProgress = 0
  /\ depth \in {0, Confirmations}
  /\ reported = 0 /\ credited = FALSE /\ height = 0

CreateStep == EngineStarts \/ DatabaseOpens \/ GivesUp
ScanStep   == TimerFires \/ Maintains \/ SdkReturns \/ ContextRead \/ ReceiptRead
StopStep   == \/ ServerCloses \/ Drains \/ ClosesScanner \/ ClosesEngine \/ ClosesDatabase
              \/ ReleasesLock \/ Exits

Next ==
  \/ Launch \/ CreateStep \/ ScanStep \/ SdkHangs \/ SdkProgresses
  \/ RequestArrives \/ RequestAnswered \/ StopBegins \/ StopStep \/ Killed
  \/ Tick \/ BlockFinalized

\* The event loop goes on, timers and callbacks run, time passes.  Nothing is
\* asked of the SDK beyond that a scan that does not hang returns, and nothing of
\* the clients.
Spec ==
  /\ Init /\ [][Next]_vars
  /\ WF_vars(CreateStep) /\ WF_vars(ScanStep) /\ WF_vars(StopStep)
  /\ WF_vars(Tick)

(***************************************************************************)
(* Properties                                                              *)
(***************************************************************************)
Phases ==
  {"down", "starting engine", "opening database", "giving up", "serving", "closing server",
   "draining", "closing scanner", "closing engine", "closing database", "releasing", "exiting"}

Scans ==
  {"none", "expire", "sdk scan", "context", "receipt", "recheck context", "recheck receipt",
   "deliver"}

TypeOK ==
  /\ mode \in {"serve", "scan-once"} /\ phase \in Phases
  /\ held \in BOOLEAN /\ engine \in BOOLEAN /\ database \in BOOLEAN
  /\ timer \in BOOLEAN /\ hung \in BOOLEAN /\ stopping \in BOOLEAN
  /\ ready \in BOOLEAN /\ inProgress \in BOOLEAN /\ credited \in BOOLEAN
  /\ server \in {"off", "listening", "closed"} /\ requests \in 0..MaxRequests
  /\ scan \in Scans
  /\ sinceSuccess \in 0..MaxStaleness + 1 /\ sinceProgress \in 0..StallAfter + 1
  /\ depth \in {0, Confirmations} /\ reported \in 0..MaxHeight /\ height \in 0..MaxHeight

\* Whatever is at work has what it works on: a scan the lock, the engine and the
\* database, a request the database ("Closing the engine or LevelDB while it is
\* still running would violate the single-scan/state-owner invariant, so shutdown
\* must drain it before runtime teardown", src/api/server.ts:93).  The lock may go
\* before the engine, whose shutdown is waited for 15 s only, but then the process
\* has released everything else and has nothing left but its exit.
InUseIsOpen ==
  /\ scan # "none" => held /\ engine /\ database
  /\ requests > 0 => database
  /\ engine /\ ~held => phase = "exiting" /\ ~database
  /\ timer => scan = "none"

\* Finality is never decided by a minority: the height rows are finalized with is
\* one the chain has reached, and the payment is credited only if its own block is
\* that deep in it (consensusHeight, consensusValue, chainStatusFor), in both
\* finality modes and whatever fewer than a majority of the providers answer.
FinalityIsReal ==
  /\ reported <= height
  /\ credited => PaidAt + (IF depth = 0 THEN 0 ELSE depth - 1) <= height

\* A scan that never returns is noticed: the daemon reports that it stalls and is
\* not ready any more, unless it is stopped or killed (docs/PRODUCTION-RUNBOOK.md:
\* readiness fails "whenever the last success becomes stale").
HangIsNoticed ==
  (mode = "serve" /\ scan = "sdk scan" /\ hung) ~> ((Stalled /\ ~Ready) \/ phase # "serving")

\* A daemon that serves goes on scanning, whether its scans succeed or fail, until
\* one hangs.
KeepsScanning == (phase = "serving") ~> (scan = "expire" \/ hung \/ phase # "serving")

\* A stop comes to its end unless the last scan does not return, or a client never
\* lets go of its request.
StopEnds == stopping ~> (phase = "down" \/ hung \/ [](requests > 0))

\* The timer is what keeps a daemon at work and what would keep it from ending:
\* every scan sets it again unless stop was called, whose own end then waits for
\* the last scan and the last request only (scheduleScan, executeScan, stop).
RunsUntilStopped == KeepsScanning /\ StopEnds
===============================================================================
