-------------------------- MODULE RuntimeLockProofs -------------------------
(***************************************************************************)
(* Proofs about RuntimeLock, for any set of processes and any number of    *)
(* crashes.  The inductive invariant adds to HolderIsOnRecord what makes a *)
(* takeover safe: the owner a process has checked before it renames is     *)
(* dead, and the dead do not come back.                                    *)
(***************************************************************************)
EXTENDS RuntimeLock, TLAPS

\* A lock file exists only once its process runs.
FilesHaveOwners ==
  /\ path \in Procs => pc[path] # "idle"
  /\ \A p \in Procs : seen[p] \in Procs => pc[seen[p]] # "idle"

\* Between the check and the rename, the owner that was seen stays dead.
TakeoverTargetsAreDead ==
  \A p \in Procs : (pc[p] = "rename" /\ seen[p] \in Procs) => pc[seen[p]] = "exited"

\* The loop of acquire runs twice.
AttemptsBelowTwo ==
  \A p \in Procs : pc[p] \in {"open", "write", "read", "check", "rename", "idle"} => attempt[p] < 2

\* Whoever had the lock when the backup command read it is the owner it checks.
TheInspectedHadIt == (~stolen /\ backup = "check") => occupants \subseteq {inspected}

IInv ==
  /\ TypeOK
  /\ FilesHaveOwners
  /\ TakeoverTargetsAreDead
  /\ AttemptsBelowTwo
  /\ HolderIsOnRecord
  /\ TheInspectedHadIt

\* The initial state satisfies the invariant.
LEMMA InitEstablishesIInv == ASSUME Init PROVE IInv
<1>1. TypeOK
  <2>1. crashes \in 0..MaxCrashes
    BY LockAssumption DEF Init
  <2>2. pc \in [Procs -> Labels] /\ attempt \in [Procs -> 0..2]
    BY DEF Init, Labels
  <2> QED
    BY <2>1, <2>2 DEF Init, TypeOK
<1>2. path \notin Procs /\ \A p \in Procs : pc[p] = "idle" /\ seen[p] \notin Procs /\ attempt[p] = 0
  BY LockAssumption DEF Init
<1> QED
  BY <1>1, <1>2
  DEF IInv, Init, FilesHaveOwners, TakeoverTargetsAreDead, AttemptsBelowTwo, HolderIsOnRecord, Occupies,
      TheInspectedHadIt

\* A process that starts has no file and has seen none.
LEMMA BeginPreservesIInv == ASSUME IInv, NEW p \in Procs, Begin(p) PROVE IInv'
<1>1. TypeOK'
  BY DEF IInv, Begin, command, Goto, TypeOK, Labels
<1>2. FilesHaveOwners'
  BY DEF IInv, Begin, command, Goto, TypeOK, FilesHaveOwners
<1>3. TakeoverTargetsAreDead'
  BY DEF IInv, Begin, command, Goto, TypeOK, TakeoverTargetsAreDead
<1>4. AttemptsBelowTwo'
  BY DEF IInv, Begin, command, Goto, TypeOK, AttemptsBelowTwo
<1>5. HolderIsOnRecord'
  BY DEF IInv, Begin, command, Goto, TypeOK, HolderIsOnRecord, Occupies
<1>6. TheInspectedHadIt'
  BY DEF IInv, Begin, command, TheInspectedHadIt
<1> QED
  BY <1>1, <1>2, <1>3, <1>4, <1>5, <1>6 DEF IInv

\* O_EXCL gives the path to a process only when nobody occupies it.
LEMMA OpenPreservesIInv == ASSUME IInv, NEW p \in Procs, Open(p) PROVE IInv'
<1>1. TypeOK'
  BY LockAssumption DEF IInv, Open, command, Goto, TypeOK, Labels
<1>2. FilesHaveOwners'
  BY LockAssumption DEF IInv, Open, command, Goto, TypeOK, FilesHaveOwners
<1>3. TakeoverTargetsAreDead'
  BY LockAssumption DEF IInv, Open, command, Goto, TypeOK, TakeoverTargetsAreDead
<1>4. AttemptsBelowTwo'
  BY DEF IInv, Open, command, Goto, TypeOK, AttemptsBelowTwo
<1>5. HolderIsOnRecord'
  BY LockAssumption DEF IInv, Open, command, Goto, TypeOK, HolderIsOnRecord, Occupies
<1>6. TheInspectedHadIt'
  BY DEF IInv, Open, command, TheInspectedHadIt
<1> QED
  BY <1>1, <1>2, <1>3, <1>4, <1>5, <1>6 DEF IInv

\* Writing the contents does not move the file.
LEMMA WritePreservesIInv == ASSUME IInv, NEW p \in Procs, Write(p) PROVE IInv'
<1>1. TypeOK'
  BY DEF IInv, Write, command, Goto, TypeOK, Labels
<1>2. FilesHaveOwners'
  BY DEF IInv, Write, command, Goto, TypeOK, FilesHaveOwners
<1>3. TakeoverTargetsAreDead'
  BY DEF IInv, Write, command, Goto, TypeOK, TakeoverTargetsAreDead
<1>4. AttemptsBelowTwo'
  BY DEF IInv, Write, command, Goto, TypeOK, AttemptsBelowTwo
<1>5. HolderIsOnRecord'
  BY DEF IInv, Write, command, Goto, TypeOK, HolderIsOnRecord, Occupies
<1>6. TheInspectedHadIt'
  BY DEF IInv, Write, command, TheInspectedHadIt
<1> QED
  BY <1>1, <1>2, <1>3, <1>4, <1>5, <1>6 DEF IInv

\* What readLock returns is the file at the path, whose owner has run.
LEMMA ReadPreservesIInv == ASSUME IInv, NEW p \in Procs, Read(p) PROVE IInv'
<1>1. TypeOK'
  BY LockAssumption DEF IInv, Read, command, Goto, TypeOK, Labels
<1>2. FilesHaveOwners'
  BY LockAssumption DEF IInv, Read, command, Goto, TypeOK, FilesHaveOwners
<1>3. TakeoverTargetsAreDead'
  BY LockAssumption DEF IInv, Read, command, Goto, TypeOK, TakeoverTargetsAreDead
<1>4. AttemptsBelowTwo'
  BY DEF IInv, Read, command, Goto, TypeOK, AttemptsBelowTwo
<1>5. HolderIsOnRecord'
  BY LockAssumption DEF IInv, Read, command, Goto, TypeOK, HolderIsOnRecord, Occupies
<1>6. TheInspectedHadIt'
  BY DEF IInv, Read, command, TheInspectedHadIt
<1> QED
  BY <1>1, <1>2, <1>3, <1>4, <1>5, <1>6 DEF IInv

\* An owner that is not alive has run before, so it is dead for good.
LEMMA CheckPreservesIInv == ASSUME IInv, NEW p \in Procs, Check(p) PROVE IInv'
<1>1. TypeOK'
  BY DEF IInv, Check, command, Goto, TypeOK, Labels, OwnerActive, Alive
<1>2. FilesHaveOwners'
  BY DEF IInv, Check, command, Goto, TypeOK, FilesHaveOwners, OwnerActive, Alive
<1>3. TakeoverTargetsAreDead'
  BY DEF IInv, Check, command, Goto, TypeOK, TakeoverTargetsAreDead, FilesHaveOwners, OwnerActive, Alive
<1>4. AttemptsBelowTwo'
  BY DEF IInv, Check, command, Goto, TypeOK, AttemptsBelowTwo, OwnerActive, Alive
<1>5. HolderIsOnRecord'
  BY DEF IInv, Check, command, Goto, TypeOK, HolderIsOnRecord, Occupies, OwnerActive, Alive
<1>6. TheInspectedHadIt'
  BY DEF IInv, Check, command, TheInspectedHadIt
<1> QED
  BY <1>1, <1>2, <1>3, <1>4, <1>5, <1>6 DEF IInv

\* A takeover removes the file of a dead process, or is recorded as stolen.
LEMMA RenamePreservesIInv == ASSUME IInv, NEW p \in Procs, Rename(p) PROVE IInv'
<1>1. TypeOK'
  <2>1. attempt[p] \in 0..1
    BY DEF IInv, TypeOK, AttemptsBelowTwo, Rename
  <2>2. attempt' \in [Procs -> 0..2]
    BY <2>1 DEF IInv, TypeOK, Rename
  <2>3. stolen' \in BOOLEAN
    BY DEF IInv, TypeOK, Rename
  <2>4. pc' \in [Procs -> Labels]
    BY DEF IInv, TypeOK, Rename, Goto, Labels
  <2> QED
    BY <2>2, <2>3, <2>4 DEF IInv, Rename, command, TypeOK
<1>2. FilesHaveOwners'
  BY LockAssumption DEF IInv, Rename, command, Goto, TypeOK, FilesHaveOwners
<1>3. TakeoverTargetsAreDead'
  BY LockAssumption DEF IInv, Rename, command, Goto, TypeOK, TakeoverTargetsAreDead
<1>4. AttemptsBelowTwo'
  BY DEF IInv, Rename, command, Retries, Goto, TypeOK, AttemptsBelowTwo
<1>5. HolderIsOnRecord'
  BY LockAssumption DEF IInv, Rename, command, Goto, TypeOK, HolderIsOnRecord, Occupies, TakeoverTargetsAreDead
<1>6. TheInspectedHadIt'
  BY DEF IInv, Rename, command, TheInspectedHadIt
<1> QED
  BY <1>1, <1>2, <1>3, <1>4, <1>5, <1>6 DEF IInv

\* A process that finds its own file at the path goes on to unlink it.
LEMMA ReleaseReadPreservesIInv == ASSUME IInv, NEW p \in Procs, ReleaseRead(p) PROVE IInv'
<1>1. TypeOK'
  BY DEF IInv, ReleaseRead, command, Goto, TypeOK, Labels
<1>2. FilesHaveOwners'
  BY DEF IInv, ReleaseRead, command, Goto, TypeOK, FilesHaveOwners
<1>3. TakeoverTargetsAreDead'
  BY DEF IInv, ReleaseRead, command, Goto, TypeOK, TakeoverTargetsAreDead
<1>4. AttemptsBelowTwo'
  BY DEF IInv, ReleaseRead, command, Goto, TypeOK, AttemptsBelowTwo
<1>5. HolderIsOnRecord'
  BY DEF IInv, ReleaseRead, command, Goto, TypeOK, HolderIsOnRecord, Occupies
<1>6. TheInspectedHadIt'
  BY DEF IInv, ReleaseRead, command, TheInspectedHadIt
<1> QED
  BY <1>1, <1>2, <1>3, <1>4, <1>5, <1>6 DEF IInv

\* What release unlinks is the process's own file.
LEMMA UnlinkPreservesIInv == ASSUME IInv, NEW p \in Procs, Unlink(p) PROVE IInv'
<1>1. TypeOK'
  BY LockAssumption DEF IInv, Unlink, command, Goto, TypeOK, HolderIsOnRecord, Occupies, Labels
<1>2. FilesHaveOwners'
  BY LockAssumption DEF IInv, Unlink, command, Goto, TypeOK, FilesHaveOwners, HolderIsOnRecord, Occupies
<1>3. TakeoverTargetsAreDead'
  BY LockAssumption DEF IInv, Unlink, command, Goto, TypeOK, TakeoverTargetsAreDead, HolderIsOnRecord, Occupies
<1>4. AttemptsBelowTwo'
  BY DEF IInv, Unlink, command, Goto, TypeOK, AttemptsBelowTwo, HolderIsOnRecord, Occupies
<1>5. HolderIsOnRecord'
  BY LockAssumption DEF IInv, Unlink, command, Goto, TypeOK, HolderIsOnRecord, Occupies
<1>6. TheInspectedHadIt'
  BY DEF IInv, Unlink, command, TheInspectedHadIt
<1> QED
  BY <1>1, <1>2, <1>3, <1>4, <1>5, <1>6 DEF IInv

\* A process that has failed or released occupies nothing.
LEMMA ExitPreservesIInv == ASSUME IInv, NEW p \in Procs, Exit(p) PROVE IInv'
<1>1. TypeOK'
  BY DEF IInv, Exit, command, Goto, TypeOK, Labels
<1>2. FilesHaveOwners'
  BY DEF IInv, Exit, command, Goto, TypeOK, FilesHaveOwners
<1>3. TakeoverTargetsAreDead'
  BY DEF IInv, Exit, command, Goto, TypeOK, TakeoverTargetsAreDead
<1>4. AttemptsBelowTwo'
  BY DEF IInv, Exit, command, Goto, TypeOK, AttemptsBelowTwo
<1>5. HolderIsOnRecord'
  BY DEF IInv, Exit, command, Goto, TypeOK, HolderIsOnRecord, Occupies
<1>6. TheInspectedHadIt'
  BY DEF IInv, Exit, command, TheInspectedHadIt
<1> QED
  BY <1>1, <1>2, <1>3, <1>4, <1>5, <1>6 DEF IInv

\* A crashed process occupies nothing, and its file stays.
LEMMA CrashPreservesIInv == ASSUME IInv, NEW p \in Procs, Crash(p) PROVE IInv'
<1>1. TypeOK'
  <2>1. crashes' \in 0..MaxCrashes
    BY LockAssumption DEF IInv, Crash, command, TypeOK
  <2> QED
    BY <2>1 DEF IInv, Crash, command, Goto, TypeOK, Labels
<1>2. FilesHaveOwners'
  BY DEF IInv, Crash, command, Goto, TypeOK, FilesHaveOwners, Alive
<1>3. TakeoverTargetsAreDead'
  BY DEF IInv, Crash, command, Goto, TypeOK, TakeoverTargetsAreDead, Alive
<1>4. AttemptsBelowTwo'
  BY DEF IInv, Crash, command, Goto, TypeOK, AttemptsBelowTwo, Alive
<1>5. HolderIsOnRecord'
  BY DEF IInv, Crash, command, Goto, TypeOK, HolderIsOnRecord, Occupies, Alive
<1>6. TheInspectedHadIt'
  BY DEF IInv, Crash, command, TheInspectedHadIt
<1> QED
  BY <1>1, <1>2, <1>3, <1>4, <1>5, <1>6 DEF IInv

\* The backup command changes nothing of the lock; the owner it reads is the
\* one whose file is at the path.
LEMMA BackupPreservesIInv ==
  ASSUME IInv, BackupReads \/ BackupChecks \/ BackupEnds
  PROVE  IInv'
<1>1. UNCHANGED <<path, complete, pc, attempt, seen, crashes, stolen>>
  BY DEF BackupReads, BackupChecks, BackupEnds
<1>2. /\ backup' \in {"idle", "check", "copying", "refused", "ended"}
      /\ inspected' \in Procs \cup {NoFile}
      /\ occupants' \subseteq Procs
  BY DEF BackupReads, BackupChecks, BackupEnds, IInv, TypeOK
<1>3. TypeOK'
  BY <1>1, <1>2 DEF IInv, TypeOK
<1>4. TheInspectedHadIt'
  <2>1. CASE BackupReads
    BY <2>1 DEF BackupReads, TheInspectedHadIt, IInv, HolderIsOnRecord
  <2>2. CASE BackupChecks \/ BackupEnds
    BY <2>2 DEF BackupChecks, BackupEnds, TheInspectedHadIt
  <2> QED
    BY <2>1, <2>2
<1> QED
  BY <1>1, <1>3, <1>4
  DEF IInv, FilesHaveOwners, TakeoverTargetsAreDead, AttemptsBelowTwo, HolderIsOnRecord, Occupies

\* Every step of the specification preserves the invariant.
LEMMA NextPreservesIInv == ASSUME IInv, [Next]_vars PROVE IInv'
<1>1. CASE UNCHANGED vars
  BY <1>1 DEF vars, IInv, TypeOK, FilesHaveOwners, TakeoverTargetsAreDead, AttemptsBelowTwo,
              HolderIsOnRecord, Occupies, TheInspectedHadIt
<1>2. ASSUME NEW p \in Procs, Begin(p) \/ Step(p) \/ Crash(p) PROVE IInv'
  BY <1>2, BeginPreservesIInv, OpenPreservesIInv, WritePreservesIInv, ReadPreservesIInv,
     CheckPreservesIInv, RenamePreservesIInv, ReleaseReadPreservesIInv, UnlinkPreservesIInv,
     ExitPreservesIInv, CrashPreservesIInv
  DEF Step
<1>3. CASE BackupReads \/ BackupChecks \/ BackupEnds
  BY <1>3, BackupPreservesIInv
<1> QED
  BY <1>1, <1>2, <1>3 DEF Next

\* The invariant holds in every reachable state.
LEMMA Invariance == Spec => []IInv
<1>1. Init => IInv
  BY InitEstablishesIInv
<1>2. IInv /\ [Next]_vars => IInv'
  BY NextPreservesIInv
<1> QED
  BY <1>1, <1>2, PTL DEF Spec

\* The variables of the lock keep their types.
THEOREM TypeCorrect == Spec => []TypeOK
<1>1. IInv => TypeOK
  BY DEF IInv
<1> QED
  BY <1>1, Invariance, PTL

\* While no rename has moved away a file other than the one its process had
\* read, the file at the path names whoever creates, holds or releases the
\* lock: no release and no takeover removes the file of a live process.
THEOREM LockNamesItsHolder == Spec => []HolderIsOnRecord
<1>1. IInv => HolderIsOnRecord
  BY DEF IInv
<1> QED
  BY <1>1, Invariance, PTL

\* Two processes hold the lock only after such a rename, for any number of
\* processes, crashes and takeovers: acquire has no other hole.
THEOREM ExclusionHasOneHole == Spec => []ExclusiveUnlessStolen
<1>1. IInv => ExclusiveUnlessStolen
  BY DEF IInv, HolderIsOnRecord, Occupies, ExclusiveUnlessStolen, MutualExclusion, Holders
<1> QED
  BY <1>1, Invariance, PTL

\* The owner the command asks for is the only one who can have had the lock
\* when it read, and when it is not alive it has it no more.
LEMMA TheInspectedIsGone ==
  ASSUME IInv, [Next]_vars, ~stolen, backup # "copying", backup' = "copying"
  PROVE  \A p \in occupants : ~Occupies(p)
<1>1. BackupChecks
  BY DEF Next, Step, Begin, Open, Write, Read, Check, Rename, ReleaseRead, Unlink, Exit, Crash,
         BackupReads, BackupEnds, vars, command
<1>2. ~OwnerActive(inspected) /\ backup = "check"
  BY <1>1 DEF BackupChecks
<1>3. SUFFICES ASSUME NEW p \in occupants, Occupies(p) PROVE FALSE
  OBVIOUS
<1>4. p = inspected /\ p \in Procs
  BY <1>2, <1>3 DEF IInv, TheInspectedHadIt, TypeOK
<1> QED
  BY <1>2, <1>3, <1>4 DEF OwnerActive, Alive, Occupies

\* Nobody who had the lock when the backup or the restore read it has it when
\* the copying starts.
THEOREM RunningDaemonsAreSpared == Spec => BackupSparesTheRunning
<1>1. IInv /\ [Next]_vars =>
        [~stolen /\ backup # "copying" /\ backup' = "copying"
          => \A p \in occupants : ~Occupies(p)]_vars
  BY TheInspectedIsGone
<1> QED
  BY <1>1, Invariance, PTL DEF Spec, BackupSparesTheRunning
=============================================================================
