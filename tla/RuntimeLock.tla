---------------------------- MODULE RuntimeLock -----------------------------
(***************************************************************************)
(* The single-process lock of src/security/runtime-lock.ts (the payer has  *)
(* the same file): a lock file created with O_EXCL that names its owner,   *)
(* taken over by renaming it away when the owner is dead.  Every file      *)
(* system call is a step of its own.  The backup command only asks whether *)
(* the lock is free (assertStopped).                                       *)
(*                                                                         *)
(* A process is one run of the daemon or of a command: it has one pid and  *)
(* one token, and makes at most one lock file, which it is identified      *)
(* with.  Pids are not reused.                                             *)
(***************************************************************************)
EXTENDS Integers, FiniteSets

CONSTANTS
  Procs,        \* runs of the program
  NoFile,       \* the path names nothing
  MaxCrashes    \* bound of the number of crashes

ASSUME LockAssumption == NoFile \notin Procs /\ MaxCrashes \in Nat

VARIABLES
  path,       \* the lock file now at the path, or NoFile
  complete,   \* the lock files whose contents are written
  pc,         \* where each process is in acquire or release
  attempt,    \* the loop counter of acquire
  seen,       \* the lock file each process has read
  crashes,
  backup,     \* where the backup command is
  inspected,  \* the lock file the backup command has read, or NoFile
  stolen,     \* history: some rename took away a file other than the one read
  occupants   \* history: who had the lock when the backup command read it

command == <<backup, inspected, occupants>>
vars == <<path, complete, pc, attempt, seen, crashes, stolen, backup, inspected, occupants>>

Alive(p) == pc[p] \notin {"idle", "exited"}
\* From the creation of its lock file to the unlink, p has the lock.
Occupies(p) == pc[p] \in {"write", "held", "unlink"}
Goto(p, l) == pc' = [pc EXCEPT ![p] = l]

(***************************************************************************)
(* acquire                                                                 *)
(***************************************************************************)
Begin(p) ==
  /\ pc[p] = "idle"
  /\ Goto(p, "open")
  /\ UNCHANGED <<path, complete, attempt, seen, crashes, stolen, command>>

\* open(path, "wx")
Open(p) ==
  /\ pc[p] = "open"
  /\ IF path = NoFile
       THEN path' = p /\ Goto(p, "write")
       ELSE UNCHANGED path /\ Goto(p, "read")
  /\ UNCHANGED <<complete, attempt, seen, crashes, stolen, command>>

\* The contents go to the file that was opened, wherever it is by now.
Write(p) ==
  /\ pc[p] = "write"
  /\ complete' = complete \cup {p}
  /\ Goto(p, "held")
  /\ UNCHANGED <<path, attempt, seen, crashes, stolen, command>>

\* readLock: a vanished file reads as undefined, an empty one is a parse error.
Read(p) ==
  /\ pc[p] = "read"
  /\ IF path \in complete \cup {NoFile}
       THEN seen' = [seen EXCEPT ![p] = path] /\ Goto(p, "check")
       ELSE UNCHANGED seen /\ Goto(p, "failed")
  /\ UNCHANGED <<path, complete, attempt, crashes, stolen, command>>

\* Wrong variant: whatever is read is considered stale.
OwnerActiveNever(q) == FALSE

\* existing && processIsAlive(existing.pid)
OwnerActive(q) == q \in Procs /\ Alive(q)

Check(p) ==
  /\ pc[p] = "check"
  /\ Goto(p, IF OwnerActive(seen[p]) THEN "failed" ELSE "rename")
  /\ UNCHANGED <<path, complete, attempt, seen, crashes, stolen, command>>

Retries(n) == n < 2

\* rename(path, stale): of whatever is at the path now.
Rename(p) ==
  /\ pc[p] = "rename"
  /\ path' = NoFile
  /\ IF path = NoFile
       THEN Goto(p, "failed") /\ UNCHANGED <<attempt, stolen>>
       ELSE /\ attempt' = [attempt EXCEPT ![p] = @ + 1]
            /\ stolen' = (stolen \/ path # seen[p])
            /\ Goto(p, IF Retries(attempt[p] + 1) THEN "open" ELSE "failed")
  /\ UNCHANGED <<complete, seen, crashes, command>>

(***************************************************************************)
(* release                                                                 *)
(***************************************************************************)
\* readLock and the comparison of its token
ReleaseRead(p) ==
  /\ pc[p] = "held"
  /\ Goto(p, IF path = p THEN "unlink" ELSE "released")
  /\ UNCHANGED <<path, complete, attempt, seen, crashes, stolen, command>>

Unlink(p) ==
  /\ pc[p] = "unlink"
  /\ path' = NoFile
  /\ Goto(p, "released")
  /\ UNCHANGED <<complete, attempt, seen, crashes, stolen, command>>

Exit(p) ==
  /\ pc[p] \in {"failed", "released"}
  /\ Goto(p, "exited")
  /\ UNCHANGED <<path, complete, attempt, seen, crashes, stolen, command>>

Crash(p) ==
  /\ Alive(p)
  /\ crashes < MaxCrashes
  /\ crashes' = crashes + 1
  /\ Goto(p, "exited")
  /\ UNCHANGED <<path, complete, attempt, seen, stolen, command>>

(***************************************************************************)
(* createBackup and restoreBackup                                          *)
(***************************************************************************)
\* assertStopped: readLock, as in Read.
BackupReads ==
  /\ backup = "idle"
  /\ IF path \in complete \cup {NoFile}
       THEN inspected' = path /\ backup' = "check"
       ELSE UNCHANGED inspected /\ backup' = "refused"
  /\ occupants' = {p \in Procs : Occupies(p)}
  /\ UNCHANGED <<path, complete, pc, attempt, seen, crashes, stolen>>

\* The owner that was read is asked for; then the copying starts.
BackupChecks ==
  /\ backup = "check"
  /\ backup' = IF OwnerActive(inspected) THEN "refused" ELSE "copying"
  /\ UNCHANGED <<path, complete, pc, attempt, seen, crashes, stolen, inspected, occupants>>

BackupEnds ==
  /\ backup = "copying"
  /\ backup' = "ended"
  /\ UNCHANGED <<path, complete, pc, attempt, seen, crashes, stolen, inspected, occupants>>

(***************************************************************************)
(* Specification                                                           *)
(***************************************************************************)
Init ==
  /\ path = NoFile /\ complete = {}
  /\ pc = [p \in Procs |-> "idle"]
  /\ attempt = [p \in Procs |-> 0]
  /\ seen = [p \in Procs |-> NoFile]
  /\ crashes = 0 /\ stolen = FALSE
  /\ backup = "idle" /\ inspected = NoFile /\ occupants = {}

Step(p) ==
  \/ Open(p) \/ Write(p) \/ Read(p) \/ Check(p) \/ Rename(p)
  \/ ReleaseRead(p) \/ Unlink(p) \/ Exit(p)

Next ==
  \/ \E p \in Procs : Begin(p) \/ Step(p) \/ Crash(p)
  \/ BackupReads
  \/ BackupChecks
  \/ BackupEnds

Spec == Init /\ [][Next]_vars

(***************************************************************************)
(* Properties                                                              *)
(***************************************************************************)
Labels == {"idle", "open", "write", "read", "check", "rename", "held", "unlink",
           "failed", "released", "exited"}

TypeOK ==
  /\ path \in Procs \cup {NoFile}
  /\ complete \subseteq Procs
  /\ pc \in [Procs -> Labels]
  /\ attempt \in [Procs -> 0..2]
  /\ seen \in [Procs -> Procs \cup {NoFile}]
  /\ crashes \in 0..MaxCrashes
  /\ backup \in {"idle", "check", "copying", "refused", "ended"}
  /\ inspected \in Procs \cup {NoFile}
  /\ occupants \subseteq Procs
  /\ stolen \in BOOLEAN

Holders == {p \in Procs : pc[p] = "held"}

\* "Runtime lock: prevents a second daemon" (docs/OPERATIONAL-PROFILE.md).
MutualExclusion == \A p, q \in Holders : p = q

\* "Backup and restore commands remain offline operations and refuse an active
\* runtime lock" (docs/PRODUCTION-RUNBOOK.md): with the same exception, no
\* process that had the lock when the command read it still has it when the
\* copying starts.  One that acquires it later, before the check or after, is
\* not noticed: assertStopped looks once and takes nothing.
BackupSparesTheRunning ==
  [][~stolen /\ backup # "copying" /\ backup' = "copying"
       => \A p \in occupants : ~Occupies(p)]_vars

\* Whatever processes start, crash and release, two of them hold the lock only
\* if a rename has moved away a file other than the one its process had read:
\* the window between readLock and rename is the only hole of acquire.
ExclusiveUnlessStolen == ~stolen => MutualExclusion

\* As long as that has not happened, the file at the path names its holder, so
\* no release and no takeover removes the file of a process that lives.
HolderIsOnRecord ==
  ~stolen => \A p \in Procs : Occupies(p) => path = p
=============================================================================
