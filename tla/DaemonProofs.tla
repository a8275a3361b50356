----------------------------- MODULE DaemonProofs -----------------------------
(***************************************************************************)
(* Proofs about RpcQuorum and Daemon.  Quorums: a majority has an honest   *)
(* member, so that neither a height nor a receipt is decided by the liars. *)
(* Life of the process: what is open in each phase, and in which phases a  *)
(* scan or a request may still be running.                                 *)
(***************************************************************************)
EXTENDS Daemon, FiniteSetTheorems, TLAPS

(***************************************************************************)
(* Quorums                                                                 *)
(***************************************************************************)
\* A set of providers as large as the majority is not made of liars alone.
LEMMA QuorumHasHonestMember ==
  ASSUME NEW S \in SUBSET Providers, Cardinality(S) >= MajorityQuorum
  PROVE  \E p \in S : p \in Providers \ Liars
<1>1. SUFFICES ASSUME S \subseteq Liars PROVE FALSE
  OBVIOUS
<1>2. IsFiniteSet(Liars) /\ Cardinality(Liars) \in Nat
  BY FS_Subset, FS_CardinalityType, RpcAssumption, DaemonAssumption
<1>3. Cardinality(S) \in Nat /\ Cardinality(S) <= Cardinality(Liars)
  BY <1>1, <1>2, FS_Subset, FS_CardinalityType
<1>4. Cardinality(Providers) \in Nat
  BY FS_CardinalityType, RpcAssumption
<1>5. MajorityQuorum \in Int
  BY <1>4 DEF MajorityQuorum
<1> QED
  BY <1>2, <1>3, <1>5, DaemonAssumption

\* The height a quorum is close above is a height the chain has reached.
LEMMA ConsensusHeightIsReached ==
  ASSUME NEW answers \in HeightAnswers, NEW base \in ConsensusHeight(answers),
         height \in Nat
  PROVE  base \in 0..MaxHeight /\ base <= height
<1>1. base \in Given(answers) /\ Cardinality(Cluster(answers, base)) >= MajorityQuorum
  BY DEF ConsensusHeight, Agreed
<1>2. base \in 0..MaxHeight
  BY <1>1 DEF Given, HeightAnswers
<1>3. PICK p \in Cluster(answers, base) : p \in Providers \ Liars
  BY <1>1, QuorumHasHonestMember DEF Cluster
<1>4. answers[p] # None /\ base <= answers[p]
  BY <1>3 DEF Cluster
<1>5. answers[p] \in 0..MaxHeight /\ answers[p] <= height
  BY <1>3, <1>4 DEF HeightAnswers
<1> QED
  BY <1>2, <1>4, <1>5, DaemonAssumption

\* A receipt a quorum agrees on is the payment's, or none.
LEMMA ConsensusReceiptIsHonest ==
  ASSUME NEW answers \in ReceiptAnswers, NEW block \in ConsensusValue(answers)
  PROVE  block \in {NoReceipt, PaidAt}
<1>1. block # None /\ Cardinality(Supporters(answers, block)) >= MajorityQuorum
  BY DEF ConsensusValue, Given
<1>2. PICK p \in Supporters(answers, block) : p \in Providers \ Liars
  BY <1>1, QuorumHasHonestMember DEF Supporters
<1> QED
  BY <1>1, <1>2 DEF Supporters, ReceiptAnswers

(***************************************************************************)
(* Finality                                                                *)
(***************************************************************************)
ChainInv ==
  /\ height \in Nat /\ reported \in Nat /\ depth \in {0, Confirmations}
  /\ credited \in BOOLEAN
  /\ FinalityIsReal

\* Reading the heights keeps what was credited and takes a height of the chain.
LEMMA ContextReadKeepsFinality == ASSUME ChainInv, ContextRead PROVE ChainInv'
<1>1. PICK answers \in HeightAnswers :
        UNCHANGED chain \/
        (reported' \in ConsensusHeight(answers) /\ UNCHANGED <<depth, credited, height>>)
  BY DEF ContextRead
<1>2. CASE UNCHANGED chain
  BY <1>2 DEF chain, ChainInv, FinalityIsReal
<1>3. CASE reported' \in ConsensusHeight(answers) /\ UNCHANGED <<depth, credited, height>>
  <2>1. reported' \in Nat /\ reported' <= height
    BY <1>3, ConsensusHeightIsReached, DaemonAssumption DEF ChainInv
  <2> QED
    BY <1>3, <2>1 DEF ChainInv, FinalityIsReal
<1> QED
  BY <1>1, <1>2, <1>3

\* Reading the receipt credits the payment only at a height already reached.
LEMMA ReceiptReadKeepsFinality == ASSUME ChainInv, ReceiptRead PROVE ChainInv'
<1>1. PICK answers \in ReceiptAnswers :
        \/ UNCHANGED chain
        \/ /\ \E block \in ConsensusValue(answers) :
                credited' = (block # NoReceipt /\ Final(block, reported))
           /\ UNCHANGED <<depth, reported, height>>
  BY DEF ReceiptRead
<1>2. CASE UNCHANGED chain
  BY <1>2 DEF chain, ChainInv, FinalityIsReal
<1>3. CASE /\ \E block \in ConsensusValue(answers) :
                credited' = (block # NoReceipt /\ Final(block, reported))
           /\ UNCHANGED <<depth, reported, height>>
  <2>1. PICK block \in ConsensusValue(answers) :
          credited' = (block # NoReceipt /\ Final(block, reported))
    BY <1>3
  <2>2. block \in {NoReceipt, PaidAt}
    BY ConsensusReceiptIsHonest
  <2>3. credited' \in BOOLEAN
    BY <2>1
  <2>4. credited' => Final(PaidAt, reported)
    BY <2>1, <2>2
  <2>5. PaidAt \in Nat /\ Confirmations \in Nat \ {0}
    BY DaemonAssumption
  <2>6. credited' => PaidAt + (IF depth = 0 THEN 0 ELSE depth - 1) <= height
    BY <2>4, <2>5 DEF ChainInv, FinalityIsReal, Final
  <2> QED
    BY <1>3, <2>3, <2>6 DEF ChainInv, FinalityIsReal
<1> QED
  BY <1>1, <1>2, <1>3

\* Every other step leaves the three heights alone or lets the chain grow.
LEMMA NextKeepsFinality == ASSUME ChainInv, [Next]_vars PROVE ChainInv'
<1>1. CASE ContextRead
  BY <1>1, ContextReadKeepsFinality
<1>2. CASE ReceiptRead
  BY <1>2, ReceiptReadKeepsFinality
<1>3. CASE BlockFinalized
  BY <1>3, DaemonAssumption DEF BlockFinalized, ChainInv, FinalityIsReal
<1>4. CASE UNCHANGED chain
  BY <1>4 DEF chain, ChainInv, FinalityIsReal
<1>5. ASSUME Next, ~ContextRead, ~ReceiptRead, ~BlockFinalized PROVE UNCHANGED chain
  <2>1. CASE Launch \/ CreateStep
    BY <2>1 DEF Launch, CreateStep, EngineStarts, DatabaseOpens, GivesUp
  <2>2. CASE TimerFires \/ Maintains \/ SdkReturns \/ SdkHangs \/ SdkProgresses
    BY <2>2 DEF TimerFires, Maintains, SdkReturns, SdkHangs, SdkProgresses
  <2>3. CASE RequestArrives \/ RequestAnswered \/ StopBegins \/ Tick
    BY <2>3 DEF RequestArrives, RequestAnswered, StopBegins, Tick
  <2>4. CASE StopStep \/ Killed
    BY <2>4 DEF StopStep, ServerCloses, Drains, ClosesScanner, ClosesEngine, ClosesDatabase,
                ReleasesLock, Exits, Killed, Gone
  <2> QED
    BY <1>5, <2>1, <2>2, <2>3, <2>4 DEF Next, ScanStep
<1> QED
  BY <1>1, <1>2, <1>3, <1>4, <1>5 DEF vars, chain

\* For any number of providers of which fewer than a majority lie, and whatever
\* they answer in any two rounds: the height finality is decided with was reached,
\* and the payment is credited only if its block was (consensusHeight,
\* consensusValue, chainStatusFor).
THEOREM FinalityNeedsHonestProviders == Spec => []FinalityIsReal
<1>1. ASSUME Init PROVE ChainInv
  <2>1. height = 0 /\ reported = 0 /\ depth \in {0, Confirmations}
    BY <1>1 DEF Init
  <2>2. credited = FALSE
    BY <1>1 DEF Init
  <2>3. (credited => PaidAt + (IF depth = 0 THEN 0 ELSE depth - 1) <= height) /\ credited \in BOOLEAN
    BY ONLY <2>2
  <2> QED
    BY <2>1, <2>3 DEF ChainInv, FinalityIsReal
<1>2. ChainInv /\ [Next]_vars => ChainInv'
  BY NextKeepsFinality
<1>3. ChainInv => FinalityIsReal
  BY DEF ChainInv
<1> QED
  BY <1>1, <1>2, <1>3, PTL DEF Spec

(***************************************************************************)
(* The life of the process                                                 *)
(***************************************************************************)
\* What is open in each phase.  A failed closeServer exits with everything open.
OpenInPhase ==
  /\ phase \in {"serving", "closing server", "draining", "closing scanner", "closing engine"} =>
       held /\ engine /\ database
  /\ phase \in {"starting engine", "opening database", "closing database"} => held
  /\ phase = "opening database" => engine
  /\ phase \in {"down", "starting engine"} => ~engine
  /\ phase = "releasing" => ~database
  /\ phase \in {"starting engine", "down"} => ~database
  /\ engine /\ ~held => phase = "exiting" /\ ~database

\* Where a scan, a request, the listening server and the timer may be found.
BusyInPhase ==
  /\ scan # "none" =>
       /\ phase \in {"serving", "closing server", "draining", "exiting"}
       /\ held /\ engine /\ database
       /\ phase = "serving" \/ stopping
  /\ requests > 0 => phase \in {"serving", "closing server", "exiting"} /\ database
  /\ server = "listening" => phase = "serving"
  /\ timer => phase = "serving" /\ scan = "none"
  /\ stopping => phase # "down"

\* Only the daemon has a server, requests, a timer and a stop.
OnlyServeServes ==
  stopping \/ requests > 0 \/ server = "listening" \/ timer => mode = "serve"

LifeInv == TypeOK /\ OpenInPhase /\ BusyInPhase /\ OnlyServeServes

\* A scan that goes on to its next step disturbs nothing.
LEMMA ScanGoesToKeepsLife ==
  ASSUME LifeInv, scan # "none", NEW next \in Scans \ {"none"}, ScanGoesTo(next), TypeOK'
  PROVE  LifeInv'
<1>1. OpenInPhase'
  BY DEF LifeInv, ScanGoesTo, process, OpenInPhase
<1>2. BusyInPhase'
  BY DEF LifeInv, ScanGoesTo, process, http, BusyInPhase
<1>3. OnlyServeServes'
  BY DEF LifeInv, ScanGoesTo, process, http, OnlyServeServes
<1> QED
  BY <1>1, <1>2, <1>3 DEF LifeInv

\* A scan that ends sets the timer while the daemon serves, and lets scan-once close.
LEMMA ScanEndsKeepsLife ==
  ASSUME LifeInv, scan # "none", NEW succeeded \in BOOLEAN, ScanEnds(succeeded), TypeOK'
  PROVE  LifeInv'
<1>1. CASE mode = "serve"
  <2>1. phase' = phase /\ scan' = "none" /\ (timer' => ~stopping)
    BY <1>1 DEF ScanEnds, Rearms
  <2>2. OpenInPhase'
    BY <2>1 DEF LifeInv, ScanEnds, OpenInPhase
  <2>3. BusyInPhase'
    BY <2>1 DEF LifeInv, ScanEnds, http, BusyInPhase
  <2>4. OnlyServeServes'
    BY <1>1 DEF LifeInv, ScanEnds, http, OnlyServeServes
  <2> QED
    BY <2>2, <2>3, <2>4 DEF LifeInv
<1>2. CASE mode # "serve"
  <2>1. ~stopping /\ ~(requests > 0) /\ server # "listening" /\ phase = "serving"
    BY <1>2 DEF LifeInv, OnlyServeServes, BusyInPhase
  <2>2. phase' = "closing scanner" /\ scan' = "none" /\ ~timer' /\ ~stopping'
        /\ ~(requests' > 0) /\ server' # "listening"
    BY <1>2, <2>1 DEF LifeInv, TypeOK, ScanEnds, Rearms, http
  <2>3. OpenInPhase'
    BY <2>1, <2>2 DEF LifeInv, ScanEnds, OpenInPhase
  <2>4. BusyInPhase' /\ OnlyServeServes'
    BY <2>2 DEF BusyInPhase, OnlyServeServes
  <2> QED
    BY <2>3, <2>4 DEF LifeInv
<1> QED
  BY <1>1, <1>2

Flags ==
  /\ held \in BOOLEAN /\ engine \in BOOLEAN /\ database \in BOOLEAN
  /\ timer \in BOOLEAN /\ hung \in BOOLEAN /\ stopping \in BOOLEAN
  /\ ready \in BOOLEAN /\ inProgress \in BOOLEAN /\ credited \in BOOLEAN

Labels ==
  /\ mode \in {"serve", "scan-once"} /\ phase \in Phases
  /\ server \in {"off", "listening", "closed"}
  /\ scan \in Scans

Counters ==
  /\ requests \in 0..MaxRequests
  /\ sinceSuccess \in 0..MaxStaleness + 1 /\ sinceProgress \in 0..StallAfter + 1
  /\ reported \in 0..MaxHeight /\ height \in 0..MaxHeight

\* The type invariant, taken apart for the proofs.
LEMMA TypeOKInParts == TypeOK <=> Flags /\ Labels /\ Counters /\ depth \in {0, Confirmations}
BY DEF TypeOK, Flags, Labels, Counters

\* The flags stay Boolean.
LEMMA StepKeepsFlags == ASSUME Flags, [Next]_vars PROVE Flags'
<1>1. CASE Launch \/ CreateStep
  BY <1>1 DEF Launch, CreateStep, EngineStarts, DatabaseOpens, GivesUp, EngineAfterStop, Flags, cycle, health, chain
<1>2. ASSUME NEW next, ScanGoesTo(next), credited' \in BOOLEAN PROVE Flags'
  BY <1>2 DEF ScanGoesTo, Flags, process, health
<1>3. ASSUME NEW succeeded \in BOOLEAN, ScanEnds(succeeded), credited' \in BOOLEAN PROVE Flags'
  BY <1>3 DEF ScanEnds, Rearms, Flags
<1>4. CASE Maintains \/ SdkReturns
  BY <1>2, <1>3, <1>4 DEF Maintains, SdkReturns, Flags, chain
<1>5. CASE ContextRead
  BY <1>2, <1>3, <1>5 DEF ContextRead, Flags, chain
<1>6. CASE ReceiptRead
  BY <1>2, <1>3, <1>6 DEF ReceiptRead, Flags, chain
<1>7. CASE TimerFires \/ SdkHangs \/ SdkProgresses
  <2>1. CASE TimerFires
    BY <2>1 DEF TimerFires, HealthScanStarted, Flags, process, chain
  <2>2. CASE SdkHangs
    BY <2>2 DEF SdkHangs, Flags, process, health, chain
  <2>3. CASE SdkProgresses
    BY <2>3 DEF SdkProgresses, Flags, process, cycle, chain
  <2> QED
    BY <1>7, <2>1, <2>2, <2>3
<1>8. CASE RequestArrives \/ RequestAnswered \/ StopBegins \/ Tick \/ BlockFinalized
  BY <1>8 DEF RequestArrives, RequestAnswered, StopBegins, Tick, BlockFinalized, Flags, process,
              cycle, health, chain
<1>9. CASE StopStep \/ Killed
  BY <1>9 DEF StopStep, Killed, ServerCloses, Drains, ClosesScanner, ClosesEngine, ClosesDatabase,
              ReleasesLock, EngineAfterStop, Exits, Gone, Flags, cycle, health, chain
<1>10. CASE UNCHANGED vars
  BY <1>10 DEF vars, Flags
<1> QED
  BY <1>1, <1>4, <1>5, <1>6, <1>7, <1>8, <1>9, <1>10 DEF Next, ScanStep

\* Every step leads to a label of its list.
LEMMA StepKeepsLabels == ASSUME Labels, [Next]_vars PROVE Labels'
<1>1. CASE Launch \/ CreateStep
  BY <1>1 DEF Launch, CreateStep, EngineStarts, DatabaseOpens, GivesUp, Labels, Phases, Scans,
              http, cycle
<1>2. ASSUME NEW next \in Scans, ScanGoesTo(next) PROVE Labels'
  BY <1>2 DEF ScanGoesTo, Labels, process, http
<1>3. ASSUME NEW succeeded, ScanEnds(succeeded) PROVE Labels'
  BY <1>3 DEF ScanEnds, Labels, Phases, Scans, http
<1>4. CASE Maintains \/ SdkReturns
  BY <1>2, <1>3, <1>4 DEF Maintains, SdkReturns, Scans
<1>5. CASE ContextRead
  BY <1>2, <1>3, <1>5 DEF ContextRead, Scans
<1>6. CASE ReceiptRead
  BY <1>2, <1>3, <1>6 DEF ReceiptRead, Scans
<1>7. CASE TimerFires \/ SdkHangs \/ SdkProgresses
  BY <1>7 DEF TimerFires, SdkHangs, SdkProgresses, Labels, Scans, process, http, cycle
<1>8. CASE RequestArrives \/ RequestAnswered \/ StopBegins \/ Tick \/ BlockFinalized
  BY <1>8 DEF RequestArrives, RequestAnswered, StopBegins, Tick, BlockFinalized, Labels, Phases,
              process, http, cycle
<1>9. CASE StopStep \/ Killed
  BY <1>9 DEF StopStep, Killed, ServerCloses, Drains, ClosesScanner, ClosesEngine, ClosesDatabase,
              ReleasesLock, Exits, Gone, Labels, Phases, Scans, http, cycle
<1>10. CASE UNCHANGED vars
  BY <1>10 DEF vars, Labels
<1> QED
  BY <1>1, <1>4, <1>5, <1>6, <1>7, <1>8, <1>9, <1>10 DEF Next, ScanStep

\* Ages, heights and requests stay within their bounds.
LEMMA StepKeepsCounters == ASSUME Counters, [Next]_vars PROVE Counters'
<1>0. MaxRequests \in Nat /\ MaxStaleness \in Nat /\ StallAfter \in Nat /\ MaxHeight \in Nat
  BY DaemonAssumption
<1>1. CASE Launch \/ CreateStep
  BY <1>1 DEF Launch, CreateStep, EngineStarts, DatabaseOpens, GivesUp, Counters, http, health, chain
<1>2. ASSUME NEW next, ScanGoesTo(next), reported' \in 0..MaxHeight, UNCHANGED height
      PROVE  Counters'
  BY <1>2 DEF ScanGoesTo, Counters, http, health
<1>3. ASSUME NEW succeeded, ScanEnds(succeeded), reported' \in 0..MaxHeight, UNCHANGED height
      PROVE  Counters'
  <2>1. requests' = requests /\ sinceProgress' = sinceProgress /\ sinceSuccess' \in {0, sinceSuccess}
    BY <1>3 DEF ScanEnds, http
  <2> QED
    BY <1>0, <1>3, <2>1 DEF Counters
<1>4. CASE Maintains \/ SdkReturns
  BY <1>2, <1>3, <1>4 DEF Maintains, SdkReturns, Counters, chain
<1>5. CASE ContextRead
  <2>1. PICK answers \in HeightAnswers :
          UNCHANGED chain \/ (reported' \in ConsensusHeight(answers) /\ UNCHANGED height)
    BY <1>5 DEF ContextRead
  <2>2. reported' \in 0..MaxHeight /\ UNCHANGED height
    BY <1>0, <2>1, ConsensusHeightIsReached DEF Counters, chain
  <2>3. (\E next : ScanGoesTo(next)) \/ (\E succeeded : ScanEnds(succeeded))
    BY <1>5 DEF ContextRead
  <2> QED
    BY <1>2, <1>3, <2>2, <2>3
<1>6. CASE ReceiptRead
  BY <1>2, <1>3, <1>6 DEF ReceiptRead, Counters, chain
<1>7. CASE TimerFires \/ SdkHangs \/ SdkProgresses
  <2>1. /\ sinceProgress' \in {0, sinceProgress}
        /\ UNCHANGED <<requests, sinceSuccess, reported, height>>
    BY <1>7 DEF TimerFires, HealthScanStarted, SdkHangs, SdkProgresses, http, health, chain
  <2> QED
    BY <1>0, <2>1 DEF Counters
<1>8. CASE RequestArrives \/ RequestAnswered \/ StopBegins \/ Tick \/ BlockFinalized
  <2>1. CASE RequestArrives \/ RequestAnswered
    <3>1. UNCHANGED <<sinceSuccess, sinceProgress, reported, height>>
      BY <2>1 DEF RequestArrives, RequestAnswered, health, chain
    <3>2. requests' \in 0..MaxRequests
      BY <1>0, <2>1 DEF RequestArrives, RequestAnswered, Counters
    <3> QED
      BY <3>1, <3>2 DEF Counters
  <2>2. CASE StopBegins
    BY <2>2 DEF StopBegins, Counters, health, chain
  <2>3. CASE Tick
    <3>1. UNCHANGED <<requests, reported, height>>
      BY <2>3 DEF Tick, http, chain
    <3>2. sinceSuccess' = Older(sinceSuccess, MaxStaleness)
          /\ sinceProgress' \in {sinceProgress, Older(sinceProgress, StallAfter)}
      BY <2>3 DEF Tick
    <3> QED
      BY <1>0, <3>1, <3>2 DEF Counters, Older
  <2>4. CASE BlockFinalized
    <3>1. UNCHANGED <<requests, sinceSuccess, sinceProgress, reported>>
      BY <2>4 DEF BlockFinalized, http, health
    <3> QED
      BY <1>0, <2>4, <3>1 DEF BlockFinalized, Counters
  <2> QED
    BY <1>8, <2>1, <2>2, <2>3, <2>4
<1>9. CASE StopStep \/ Killed
  <2>1. CASE Gone
    <3>1. /\ requests' = 0 /\ sinceSuccess' = MaxStaleness + 1 /\ sinceProgress' = 0
          /\ UNCHANGED <<reported, height>>
      BY <2>1 DEF Gone, chain
    <3> QED
      BY <1>0, <3>1 DEF Counters
  <2>2. CASE ~Gone
    <3>1. UNCHANGED <<requests, sinceSuccess, sinceProgress, reported, height>>
      BY <1>9, <2>2
      DEF StopStep, Killed, ServerCloses, Drains, ClosesScanner, ClosesEngine, ClosesDatabase,
          ReleasesLock, Exits, http, health, chain
    <3> QED
      BY <3>1 DEF Counters
  <2> QED
    BY <2>1, <2>2
<1>10. CASE UNCHANGED vars
  BY <1>10 DEF vars, Counters
<1> QED
  BY <1>1, <1>4, <1>5, <1>6, <1>7, <1>8, <1>9, <1>10 DEF Next, ScanStep

\* The finality mode is what it was configured to be.
LEMMA StepKeepsDepth == [Next]_vars => depth' = depth
<1>1. CASE Launch \/ CreateStep
  BY <1>1 DEF Launch, CreateStep, EngineStarts, DatabaseOpens, GivesUp, chain
<1>2. CASE TimerFires \/ Maintains \/ SdkReturns \/ SdkHangs \/ SdkProgresses
  BY <1>2 DEF TimerFires, Maintains, SdkReturns, SdkHangs, SdkProgresses, chain
<1>3. CASE ContextRead \/ ReceiptRead
  BY <1>3 DEF ContextRead, ReceiptRead, chain
<1>4. CASE RequestArrives \/ RequestAnswered \/ StopBegins \/ Tick \/ BlockFinalized
  BY <1>4 DEF RequestArrives, RequestAnswered, StopBegins, Tick, BlockFinalized, chain
<1>5. CASE StopStep \/ Killed
  BY <1>5 DEF StopStep, ServerCloses, Drains, ClosesScanner, ClosesEngine, ClosesDatabase,
              ReleasesLock, Exits, Killed, Gone, chain
<1> QED
  BY <1>1, <1>2, <1>3, <1>4, <1>5 DEF Next, ScanStep, vars

\* Types are preserved by every step.
LEMMA StepKeepsTypes == ASSUME TypeOK, [Next]_vars PROVE TypeOK'
<1>1. Flags' /\ Labels' /\ Counters' /\ depth' \in {0, Confirmations}
  BY TypeOKInParts, StepKeepsFlags, StepKeepsLabels, StepKeepsCounters, StepKeepsDepth
<1> QED
  BY <1>1 DEF TypeOK, Flags, Labels, Counters

\* What is open and what is running stay in agreement with the phase.
LEMMA NextKeepsLife == ASSUME LifeInv, [Next]_vars PROVE LifeInv'
<1>0. TypeOK' /\ TypeOK
  BY StepKeepsTypes DEF LifeInv
<1>1. CASE Launch
  BY <1>0, <1>1 DEF Launch, LifeInv, TypeOK, OpenInPhase, BusyInPhase, OnlyServeServes, http, cycle
<1>2. CASE EngineStarts
  BY <1>0, <1>2 DEF EngineStarts, LifeInv, OpenInPhase, BusyInPhase, OnlyServeServes, http, cycle
<1>3. CASE DatabaseOpens
  <2>1. /\ held /\ engine /\ scan = "none" /\ ~timer /\ ~(requests > 0) /\ server # "listening"
    BY <1>0, <1>3 DEF DatabaseOpens, LifeInv, OpenInPhase, BusyInPhase
  <2>2. /\ phase' \in {"giving up", "serving"} /\ held' /\ engine' /\ database'
        /\ ~(requests' > 0)
    BY <1>3, <2>1 DEF DatabaseOpens
  <2>3. OpenInPhase'
    BY <2>2 DEF OpenInPhase
  <2>4. scan' # "none" \/ server' = "listening" \/ timer' => phase' = "serving"
    BY <1>3, <2>1 DEF DatabaseOpens
  <2>5. timer' => scan' = "none"
    BY <1>3, <2>1 DEF DatabaseOpens
  <2>6. stopping' => phase' # "down"
    BY <2>2
  <2>7. BusyInPhase'
    BY <2>2, <2>4, <2>5, <2>6 DEF BusyInPhase
  <2>8. OnlyServeServes'
    BY <1>3, <2>1, <2>2 DEF DatabaseOpens, LifeInv, OnlyServeServes
  <2> QED
    BY <1>0, <2>3, <2>7, <2>8 DEF LifeInv
<1>4. CASE GivesUp
  BY <1>0, <1>4 DEF GivesUp, EngineAfterStop, LifeInv, OpenInPhase, BusyInPhase, OnlyServeServes, http, cycle
<1>5. CASE TimerFires
  BY <1>0, <1>5 DEF TimerFires, LifeInv, OpenInPhase, BusyInPhase, OnlyServeServes, process, http
<1>6. CASE Maintains
  BY <1>0, <1>6, ScanGoesToKeepsLife, ScanEndsKeepsLife DEF Maintains, Scans
<1>7. CASE SdkReturns
  BY <1>0, <1>7, ScanGoesToKeepsLife, ScanEndsKeepsLife DEF SdkReturns, Scans
<1>8. CASE ContextRead
  <2>1. /\ scan # "none"
        /\ \/ ScanGoesTo("receipt") \/ ScanGoesTo("recheck receipt")
           \/ \E succeeded \in BOOLEAN : ScanEnds(succeeded)
    BY <1>8 DEF ContextRead
  <2> QED
    BY <1>0, <2>1, ScanGoesToKeepsLife, ScanEndsKeepsLife DEF Scans
<1>9. CASE ReceiptRead
  <2>1. /\ scan # "none"
        /\ \/ ScanGoesTo("recheck context") \/ ScanGoesTo("deliver")
           \/ \E succeeded \in BOOLEAN : ScanEnds(succeeded)
    BY <1>9 DEF ReceiptRead
  <2> QED
    BY <1>0, <2>1, ScanGoesToKeepsLife, ScanEndsKeepsLife DEF Scans
<1>10. CASE SdkHangs \/ SdkProgresses \/ Tick \/ BlockFinalized \/ UNCHANGED vars
  <2>1. UNCHANGED <<process, http, timer, scan, stopping>>
    BY <1>10 DEF SdkHangs, SdkProgresses, Tick, BlockFinalized, vars, process, http, cycle
  <2> QED
    BY <1>0, <2>1 DEF LifeInv, OpenInPhase, BusyInPhase, OnlyServeServes, process, http
<1>11. CASE RequestArrives \/ RequestAnswered
  <2>1. requests' > 0 => requests > 0 \/ server = "listening"
    BY <1>0, <1>11 DEF RequestArrives, RequestAnswered, TypeOK
  <2>2. UNCHANGED <<process, server, cycle>>
    BY <1>11 DEF RequestArrives, RequestAnswered
  <2>3. server = "listening" => database
    BY DEF LifeInv, BusyInPhase, OpenInPhase
  <2> QED
    BY <1>0, <2>1, <2>2, <2>3
    DEF LifeInv, OpenInPhase, BusyInPhase, OnlyServeServes, process, cycle
<1>12. CASE StopBegins
  BY <1>0, <1>12 DEF StopBegins, LifeInv, OpenInPhase, BusyInPhase, OnlyServeServes
<1>13. CASE ServerCloses
  <2>1. /\ phase = "closing server" /\ phase' \in {"draining", "exiting"}
        /\ UNCHANGED <<mode, held, engine, database, http, cycle>>
    BY <1>13 DEF ServerCloses
  <2>2. requests' > 0 => phase' = "exiting"
    <3>0. requests' = requests
      BY <1>13 DEF ServerCloses, http
    <3>1. requests = 0 => ~(requests' > 0)
      BY <3>0
    <3>2. requests # 0 => phase' = "exiting"
      BY <1>13 DEF ServerCloses
    <3> QED
      BY <3>1, <3>2
  <2>3. OpenInPhase' /\ OnlyServeServes'
    BY <2>1 DEF LifeInv, OpenInPhase, OnlyServeServes, http, cycle
  <2>4. BusyInPhase'
    BY <2>1, <2>2 DEF LifeInv, OpenInPhase, BusyInPhase, http, cycle
  <2> QED
    BY <1>0, <2>3, <2>4 DEF LifeInv
<1>14. CASE Drains
  BY <1>0, <1>14 DEF Drains, Drained, LifeInv, OpenInPhase, BusyInPhase, OnlyServeServes, http, cycle
<1>15. CASE ClosesScanner \/ ClosesEngine \/ ClosesDatabase \/ ReleasesLock
  <2>1. /\ phase \in {"closing scanner", "closing engine", "closing database", "releasing"}
        /\ phase' \in {"closing engine", "closing database", "releasing", "exiting"}
        /\ UNCHANGED <<mode, http, cycle>>
    BY <1>15 DEF ClosesScanner, ClosesEngine, ClosesDatabase, ReleasesLock
  <2>2. scan = "none" /\ ~(requests > 0) /\ server # "listening" /\ ~timer
    BY <2>1 DEF LifeInv, BusyInPhase
  <2>3. BusyInPhase' /\ OnlyServeServes'
    BY <2>1, <2>2 DEF LifeInv, BusyInPhase, OnlyServeServes, http, cycle
  <2>4. ASSUME ClosesScanner PROVE OpenInPhase'
    <3>1. /\ phase = "closing scanner" /\ phase' = "closing engine"
          /\ UNCHANGED <<held, engine, database>>
      BY <2>4 DEF ClosesScanner
    <3>2. held /\ engine /\ database
      BY <3>1 DEF LifeInv, OpenInPhase
    <3> QED
      BY <3>1, <3>2 DEF OpenInPhase
  <2>5. ASSUME ClosesEngine PROVE OpenInPhase'
    <3>1. phase = "closing engine" /\ phase' = "closing database" /\ held' = held
      BY <2>5 DEF ClosesEngine
    <3>2. held
      BY <3>1 DEF LifeInv, OpenInPhase
    <3> QED
      BY <3>1, <3>2 DEF OpenInPhase
  <2>6. ASSUME ClosesDatabase PROVE OpenInPhase'
    <3>1. ~database' /\ phase' = "releasing" /\ held' = held /\ phase = "closing database"
      BY <2>6 DEF ClosesDatabase
    <3>2. held
      BY <3>1 DEF LifeInv, OpenInPhase
    <3> QED
      BY <3>1, <3>2 DEF OpenInPhase
  <2>7. ASSUME ReleasesLock PROVE OpenInPhase'
    <3>1. phase = "releasing" /\ phase' = "exiting" /\ database' = database
      BY <2>7 DEF ReleasesLock
    <3>2. ~database
      BY <3>1 DEF LifeInv, OpenInPhase
    <3>3. ~database'
      BY <3>1, <3>2
    <3> QED
      BY <3>1, <3>3 DEF OpenInPhase
  <2> QED
    BY <1>0, <1>15, <2>3, <2>4, <2>5, <2>6, <2>7 DEF LifeInv
<1>16. CASE Exits \/ Killed
  <2>1. Gone
    BY <1>16 DEF Exits, Killed
  <2>2. requests' = 0
    BY <2>1 DEF Gone
  <2>3. ~(requests' > 0)
    BY <2>2
  <2>4. /\ phase' = "down" /\ ~engine' /\ ~database' /\ scan' = "none" /\ server' = "off"
        /\ ~timer' /\ ~stopping'
    BY <2>1 DEF Gone
  <2>5. OpenInPhase' /\ BusyInPhase' /\ OnlyServeServes'
    BY <2>3, <2>4 DEF OpenInPhase, BusyInPhase, OnlyServeServes
  <2> QED
    BY <1>0, <2>5 DEF LifeInv
<1> QED
  BY <1>1, <1>2, <1>3, <1>4, <1>5, <1>6, <1>7, <1>8, <1>9, <1>10, <1>11, <1>12, <1>13, <1>14,
     <1>15, <1>16 DEF Next, CreateStep, ScanStep, StopStep

\* The invariant holds in every reachable state.
LEMMA LifeInvariance == Spec => []LifeInv
<1>1. Init => LifeInv
  <2>1. ASSUME Init PROVE TypeOK
    <3>1. Flags
      BY <2>1 DEF Init, Flags
    <3>2. Labels
      BY <2>1 DEF Init, Labels, Phases, Scans
    <3>3. Counters
      BY <2>1, DaemonAssumption DEF Init, Counters
    <3>4. depth \in {0, Confirmations}
      BY <2>1 DEF Init
    <3> QED
      BY <3>1, <3>2, <3>3, <3>4, TypeOKInParts
  <2>2. Init => OpenInPhase /\ BusyInPhase /\ OnlyServeServes
    BY DEF Init, OpenInPhase, BusyInPhase, OnlyServeServes
  <2> QED
    BY <2>1, <2>2 DEF LifeInv
<1>2. LifeInv /\ [Next]_vars => LifeInv'
  BY NextKeepsLife
<1> QED
  BY <1>1, <1>2, PTL DEF Spec

\* The variables of the daemon keep their types.
THEOREM TypeCorrect == Spec => []TypeOK
<1>1. LifeInv => TypeOK
  BY DEF LifeInv
<1> QED
  BY <1>1, LifeInvariance, PTL

\* Whatever the daemon and scan-once are doing when they fail, are stopped or are
\* killed, and for any number of requests and providers: no scan and no request
\* goes on over something that is closed, and an engine that outlives the lock is
\* that of a process about to exit (runtime.ts create and stop, engine.ts stop,
\* server.ts stop).
THEOREM NothingIsClosedInUse == Spec => []InUseIsOpen
<1>1. LifeInv => InUseIsOpen
  BY DEF LifeInv, BusyInPhase, OpenInPhase, InUseIsOpen
<1> QED
  BY <1>1, LifeInvariance, PTL
===============================================================================
