-------------------------------- MODULE Store ---------------------------------
(***************************************************************************)
(* The files of one installation of the daemon and the commands that make, *)
(* use, copy and replace them: init and serve (src/cli.ts, src/runtime.ts, *)
(* src/railgun/engine.ts), backup and restore (src/backup.ts).  Every file *)
(* is written in a step of its own and a command may die between any two.  *)
(* Only serve takes the runtime lock (module RuntimeLock, here one step);  *)
(* backup and restore look at it once, before they begin.                  *)
(*                                                                         *)
(* The contents of a file are what tells one installation from another: a  *)
(* generated secret is the init that generated it, a ledger is the set of  *)
(* what was committed to it: the run that wrote and the identity it wrote  *)
(* for.  SQLite keeps what it has committed in a write-ahead log beside    *)
(* the database until a connection is closed (database.ts, journal_mode    *)
(* WAL).  Artifacts and the webhook key are left out.                      *)
(***************************************************************************)
EXTENDS Integers, FiniteSets, SequencesExt

CONSTANTS
  Procs,       \* runs of a command
  Keys,        \* shareable viewing keys
  Missing,     \* no such file
  NoProc,      \* nobody holds the lock
  MaxDeaths,   \* commands that die
  MaxActive    \* commands at work at the same time

ASSUME StoreAssumption ==
  /\ Missing \notin Procs \cup Keys /\ NoProc \notin Procs
  /\ MaxDeaths \in Nat /\ MaxActive \in Nat

Secrets == <<"token", "signer", "dbKey", "viewing">>
State   == <<"sqlite", "railgun", "wallet">>
Files   == ToSet(Secrets) \cup ToSet(State) \cup {"config", "log"}

VARIABLES
  file,        \* the contents of every file, or Missing
  aside,       \* what restores have moved to pre-restore paths
  backup,      \* the backup directory, or Missing
  staging,     \* the partial backup of every process
  lock,        \* the process the lock file names
  pc, step,    \* where every process is
  option,      \* include-secrets of a backup, force of a restore
  memory,      \* the secrets a serve or backup has read
  deaths,
  torn,        \* history: a restore has died half way
  overlapped,  \* history: a command changed files during a backup or restore
  stray,       \* history: a restore has moved a database away from its log
  hadLedger    \* history: there has been a ledger in this directory

vars == <<file, aside, backup, staging, lock, pc, step, option, memory, deaths,
          torn, overlapped, stray, hadLedger>>

Resting  == {"idle", "served", "done", "failed", "dead"}
Offline  == {"copy out", "copy secrets", "move", "copy in", "verify"}
Active   == {p \in Procs : pc[p] \notin Resting}

Goto(p, label) == pc' = [pc EXCEPT ![p] = label] /\ step' = [step EXCEPT ![p] = 1]
NextStep(p)    == step' = [step EXCEPT ![p] = @ + 1] /\ UNCHANGED pc
Begins(p)      == pc[p] = "idle" /\ Cardinality(Active) < MaxActive

\* Somebody else copies or replaces files, or p begins to while somebody works.
Meets(p, label) ==
  \E q \in Active \ {p} : pc[q] \in Offline \/ label \in Offline
Enter(p, label) == Goto(p, label) /\ overlapped' = (overlapped \/ Meets(p, label))

History   == <<torn, overlapped, stray, hadLedger>>
Unlocked  == lock = NoProc \/ pc[lock] \in Resting

\* the secrets a manifest has the fingerprints of
Identity    == {"viewing", "dbKey", "signer"}
PrintsOf(f) == [s \in Identity |-> f[s]]

(***************************************************************************)
(* init                                                                    *)
(***************************************************************************)
\* Wrong variant: the configuration first.
InitFilesConfigFirst == <<"config", "token", "signer", "dbKey">>

InitFiles == <<"token", "signer", "dbKey", "config">>

InitBegins(p) ==
  /\ Begins(p)
  /\ IF file.viewing # Missing /\ \A f \in ToSet(InitFiles) : file[f] = Missing
       THEN Enter(p, "init")
       ELSE Goto(p, "failed") /\ UNCHANGED overlapped
  /\ UNCHANGED <<file, aside, backup, staging, lock, option, memory, deaths, torn, stray, hadLedger>>

\* writeNewSecret, writeFile with wx
InitWrites(p) ==
  /\ pc[p] = "init"
  /\ LET f == InitFiles[step[p]] IN
       IF file[f] # Missing
         THEN Goto(p, "failed") /\ UNCHANGED file
         ELSE /\ file' = [file EXCEPT ![f] = p]
              /\ IF step[p] = Len(InitFiles) THEN Goto(p, "done") ELSE NextStep(p)
  /\ UNCHANGED <<aside, backup, staging, lock, option, memory, deaths, History>>

(***************************************************************************)
(* serve                                                                   *)
(***************************************************************************)
\* loadConfig and the four readSecret
ServeBegins(p) ==
  /\ Begins(p)
  /\ IF \A f \in {"config"} \cup ToSet(Secrets) : file[f] # Missing
       THEN Goto(p, "lock") /\ memory' = [memory EXCEPT ![p] = PrintsOf(file)]
       ELSE Goto(p, "failed") /\ UNCHANGED memory
  /\ UNCHANGED <<file, aside, backup, staging, lock, option, deaths, History>>

ServeLocks(p) ==
  /\ pc[p] = "lock"
  /\ IF Unlocked
       THEN lock' = p /\ Enter(p, "load wallet")
       ELSE Goto(p, "failed") /\ UNCHANGED <<lock, overlapped>>
  /\ UNCHANGED <<file, aside, backup, staging, option, memory, deaths, torn, stray, hadLedger>>

\* The wallets of the LevelDB, which startRailgunEngine creates if need be:
\* pairs of a viewing key and the key the wallet is encrypted with.
Wallets == IF file.railgun = Missing THEN {} ELSE file.railgun

\* Wrong variant: the wallet state is not compared with the configured key.
IsOurWalletUnchecked(p) ==
  \E v \in Keys : <<v, memory[p].dbKey>> \in Wallets

\* The fingerprint of the state file and loadWalletByID
IsOurWallet(p) ==
  /\ file.wallet = memory[p].viewing
  /\ <<file.wallet, memory[p].dbKey>> \in Wallets

\* loadOrCreateWallet up to its write: a wallet that is created replaces the one
\* with the same id, which the viewing key determines.
ServeLoadsWallet(p) ==
  /\ pc[p] = "load wallet"
  /\ IF file.wallet # Missing
       THEN /\ file' = [file EXCEPT !.railgun = Wallets]
            /\ Goto(p, IF IsOurWallet(p) THEN "open ledger" ELSE "unlock")
       ELSE /\ file' = [file EXCEPT !.railgun =
                 {w \in Wallets : w[1] # memory[p].viewing}
                   \cup {<<memory[p].viewing, memory[p].dbKey>>}]
            /\ Goto(p, "write wallet")
  /\ UNCHANGED <<aside, backup, staging, lock, option, memory, deaths, History>>

ServeWritesWallet(p) ==
  /\ pc[p] = "write wallet"
  /\ IF file.wallet # Missing
       THEN Goto(p, "unlock") /\ UNCHANGED file
       ELSE Goto(p, "open ledger") /\ file' = [file EXCEPT !.wallet = memory[p].viewing]
  /\ UNCHANGED <<aside, backup, staging, lock, option, memory, deaths, History>>

\* The log begins with what the database file held then and gives what it held in
\* the end.  It does not name its database: SQLite plays it back into whatever lies
\* beside it, page by page.
Foreign ==
  /\ file.sqlite # Missing /\ file.log # Missing
  /\ ~(file.log.onto \subseteq file.sqlite /\ file.sqlite \subseteq file.log.gives)

\* What a connection may read: a log of another database leaves a mixture.  A
\* database that is not there is created, and a log found in its place deleted.
Readings ==
  CASE file.sqlite = Missing -> {{}}
    [] file.sqlite # Missing /\ file.log = Missing -> {file.sqlite}
    [] Foreign -> SUBSET (file.sqlite \cup file.log.gives)
    [] OTHER -> {file.log.gives}

\* Everything goes to the log and may be copied to the database file at once.
Commit(ledger) ==
  \E checkpointed \in BOOLEAN :
    file' = [file EXCEPT
      !.sqlite = IF checkpointed THEN ledger ELSE @,
      !.log = [onto  |-> IF file.log = Missing \/ file.log.gives = file.sqlite
                           THEN file.sqlite ELSE file.log.onto,
               gives |-> ledger]]

\* Closing the last connection copies the log to the database file and deletes it.
CloseLedger ==
  \E read \in Readings : file' = [file EXCEPT !.sqlite = read, !.log = Missing]

\* new PPOpsDatabase: SQLite creates a file that is not there, its tables go to the
\* log.  What a foreign log leaves may be malformed.
ServeOpensLedger(p) ==
  /\ pc[p] = "open ledger"
  /\ IF file.sqlite = Missing
       THEN /\ file' = [file EXCEPT !.sqlite = {}, !.log = [onto |-> {}, gives |-> {}]]
            /\ hadLedger' = TRUE
            /\ Goto(p, "serving")
       ELSE /\ UNCHANGED <<file, hadLedger>>
            /\ Goto(p, "serving") \/ (Foreign /\ Goto(p, "unlock"))
  /\ UNCHANGED <<aside, backup, staging, lock, option, memory, deaths, torn, overlapped, stray>>

\* An intent is created, a settlement reconciled: for the wallet that is loaded.
ServeWrites(p) ==
  /\ pc[p] = "serving" /\ file.sqlite # Missing
  /\ \E read \in Readings : Commit(read \cup {<<p, memory[p].viewing>>})
  /\ UNCHANGED <<aside, backup, staging, lock, pc, step, option, memory, deaths, History>>

\* PPOpsRuntime.stop closes the database; the catch of create has none to close.
ServeEnds(p) ==
  /\ pc[p] \in {"serving", "unlock"}
  /\ lock' = IF lock = p THEN NoProc ELSE lock
  /\ Goto(p, IF pc[p] = "serving" THEN "served" ELSE "failed")
  /\ IF pc[p] = "serving" /\ file.sqlite # Missing THEN CloseLedger ELSE UNCHANGED file
  /\ UNCHANGED <<aside, backup, staging, option, memory, deaths, History>>

(***************************************************************************)
(* backup                                                                  *)
(***************************************************************************)
\* Wrong variant: a published backup without the wallet state.
StateCopiedButWallet == <<"sqlite", "railgun">>

StateCopied == State

PartsOut(p) ==
  IF pc[p] = "copy out" THEN StateCopied ELSE IF option[p] THEN Secrets ELSE <<>>

BackupBegins(p) ==
  /\ Begins(p)
  /\ IF file.config # Missing /\ Unlocked /\ backup = Missing
       THEN /\ Enter(p, "copy out")
            /\ \E include \in BOOLEAN : option' = [option EXCEPT ![p] = include]
       ELSE Goto(p, "failed") /\ UNCHANGED <<option, overlapped>>
  /\ UNCHANGED <<file, aside, backup, staging, lock, memory, deaths, torn, stray, hadLedger>>

\* The database is copied by a connection of its own, which reads the log too; what
\* a foreign log leaves may be malformed.
Copies(f) == IF f = "sqlite" THEN Readings ELSE {file[f]}

\* One part is copied; a part that is missing is an error.
BackupCopies(p) ==
  /\ pc[p] \in {"copy out", "copy secrets"} /\ step[p] <= Len(PartsOut(p))
  /\ LET f == PartsOut(p)[step[p]] IN
       IF file[f] = Missing
         THEN Goto(p, "failed") /\ UNCHANGED staging
         ELSE \/ \E copy \in Copies(f) : staging' = [staging EXCEPT ![p][f] = copy] /\ NextStep(p)
              \/ f = "sqlite" /\ Foreign /\ Goto(p, "failed") /\ UNCHANGED staging
  /\ UNCHANGED <<file, aside, backup, lock, option, memory, deaths, History>>

\* readRequiredBackupSecrets, before secrets are copied
BackupReadsSecrets(p) ==
  /\ pc[p] = "copy out" /\ step[p] = Len(PartsOut(p)) + 1
  /\ IF \E f \in Identity : file[f] = Missing
       THEN Goto(p, "failed") /\ UNCHANGED memory
       ELSE Goto(p, "copy secrets") /\ memory' = [memory EXCEPT ![p] = PrintsOf(file)]
  /\ UNCHANGED <<file, aside, backup, staging, lock, option, deaths, History>>

\* The fingerprints, the manifest, and the rename to the output path, which fails
\* when somebody has put a backup there.
BackupPublishes(p) ==
  /\ pc[p] = "copy secrets" /\ step[p] = Len(PartsOut(p)) + 1
  /\ IF backup # Missing
       THEN Goto(p, "failed") /\ UNCHANGED backup
       ELSE /\ backup' = [files |-> staging[p], containsSecrets |-> option[p],
                          prints |-> memory[p]]
            /\ Goto(p, "done")
  /\ UNCHANGED <<file, aside, staging, lock, option, memory, deaths, History>>

(***************************************************************************)
(* restore                                                                 *)
(***************************************************************************)
\* assertSecretIdentity(readRequiredBackupSecrets)
SecretsMatch == PrintsOf(file) = backup.prints

\* Bundled secrets are those of the manifest, and the secrets this directory has, if
\* it has any, are too.
SecretsAgree ==
  /\ backup.containsSecrets => PrintsOf(backup.files) = backup.prints
  /\ \/ backup.containsSecrets /\ \A f \in Identity : file[f] = Missing
     \/ SecretsMatch

PartsIn == IF backup.containsSecrets THEN State \o Secrets ELSE State

\* assertStopped, verifyBackup and the checks of network and secrets
RestoreBegins(p) ==
  /\ Begins(p)
  /\ IF file.config # Missing /\ Unlocked /\ backup # Missing /\ SecretsAgree
       THEN /\ Enter(p, "move")
            /\ \E force \in BOOLEAN : option' = [option EXCEPT ![p] = force]
       ELSE Goto(p, "failed") /\ UNCHANGED <<option, overlapped>>
  /\ UNCHANGED <<file, aside, backup, staging, lock, memory, deaths, torn, stray, hadLedger>>

\* Wrong variant: the old file is overwritten.
KeptNone(f) == {}

\* rename to the pre-restore path
Kept(f) == {<<f, file[f]>>}

\* moveAsideIfNeeded, one target at a time; the log of the database is none of them.
RestoreMoves(p) ==
  /\ pc[p] = "move"
  /\ LET f == PartsIn[step[p]] IN
       IF file[f] # Missing /\ ~option[p]
         THEN Goto(p, "failed") /\ UNCHANGED <<file, aside, stray>>
         ELSE /\ IF file[f] = Missing THEN UNCHANGED <<file, aside, stray>>
                 ELSE /\ file' = [file EXCEPT ![f] = Missing]
                      /\ aside' = aside \cup Kept(f)
                      /\ stray' = (stray \/ (f = "sqlite" /\ file.log # Missing))
              /\ IF step[p] = Len(PartsIn) THEN Goto(p, "copy in") ELSE NextStep(p)
  /\ UNCHANGED <<backup, staging, lock, option, memory, deaths, torn, overlapped, hadLedger>>

\* copyFile and cp overwrite what has appeared in the meantime.
RestoreCopies(p) ==
  /\ pc[p] = "copy in"
  /\ LET f == PartsIn[step[p]] IN
       /\ file' = [file EXCEPT ![f] = backup.files[f]]
       /\ hadLedger' = (hadLedger \/ f = "sqlite")
  /\ IF step[p] = Len(PartsIn) THEN Goto(p, "verify") ELSE NextStep(p)
  /\ UNCHANGED <<aside, backup, staging, lock, option, memory, deaths, torn, overlapped, stray>>

\* The last assertSecretIdentity; then the database is opened and closed, with a log
\* that was left beside it.
RestoreVerifies(p) ==
  /\ pc[p] = "verify"
  /\ \/ SecretsMatch /\ CloseLedger /\ Goto(p, "done")
     \/ (SecretsMatch => Foreign) /\ Goto(p, "failed") /\ UNCHANGED file
  /\ UNCHANGED <<aside, backup, staging, lock, option, memory, deaths, History>>

(***************************************************************************)
(* Deaths and operators                                                    *)
(***************************************************************************)
\* A command is killed, or a file operation of it fails.
Dies(p) ==
  /\ pc[p] \notin Resting /\ deaths < MaxDeaths
  /\ deaths' = deaths + 1
  /\ torn' = (torn \/ pc[p] \in {"move", "copy in"})
  /\ Goto(p, "dead")
  /\ UNCHANGED <<file, aside, backup, staging, lock, option, memory, overlapped, stray, hadLedger>>

\* The directory is lost; a new one gets the configuration again and the secrets,
\* if these were kept in another place.
DirectoryLost ==
  /\ Active = {} /\ deaths < MaxDeaths /\ file.config # Missing
  /\ deaths' = deaths + 1
  /\ \E kept \in {{"config"}, {"config"} \cup ToSet(Secrets)} :
       file' = [f \in Files |-> IF f \in kept THEN file[f] ELSE Missing]
  /\ aside' = {} /\ hadLedger' = FALSE
  /\ UNCHANGED <<backup, staging, lock, pc, step, option, memory, torn, overlapped, stray>>

\* The configured viewing key is another one from now on.
ViewingKeyReplaced ==
  /\ Active = {} /\ file.viewing # Missing
  /\ \E v \in Keys : file' = [file EXCEPT !.viewing = v]
  /\ UNCHANGED <<aside, backup, staging, lock, pc, step, option, memory, deaths, History>>

(***************************************************************************)
(* Specification                                                           *)
(***************************************************************************)
NoFiles == [f \in Files |-> Missing]

Init ==
  /\ \E v \in Keys : file = [NoFiles EXCEPT !.viewing = v]
  /\ aside = {} /\ backup = Missing /\ lock = NoProc
  /\ staging = [p \in Procs |-> NoFiles]
  /\ pc = [p \in Procs |-> "idle"] /\ step = [p \in Procs |-> 1]
  /\ option = [p \in Procs |-> FALSE]
  /\ memory = [p \in Procs |-> PrintsOf(NoFiles)]
  /\ deaths = 0 /\ hadLedger = FALSE
  /\ torn = FALSE /\ overlapped = FALSE /\ stray = FALSE

InitStep(p)    == InitBegins(p) \/ InitWrites(p)
ServeStep(p)   == \/ ServeBegins(p) \/ ServeLocks(p) \/ ServeLoadsWallet(p)
                  \/ ServeWritesWallet(p) \/ ServeOpensLedger(p) \/ ServeWrites(p)
                  \/ ServeEnds(p)
BackupStep(p)  == \/ BackupBegins(p) \/ BackupCopies(p) \/ BackupReadsSecrets(p)
                  \/ BackupPublishes(p)
RestoreStep(p) == \/ RestoreBegins(p) \/ RestoreMoves(p) \/ RestoreCopies(p)
                  \/ RestoreVerifies(p)

Next ==
  \/ \E p \in Procs :
       InitStep(p) \/ ServeStep(p) \/ BackupStep(p) \/ RestoreStep(p) \/ Dies(p)
  \/ DirectoryLost
  \/ ViewingKeyReplaced

Spec == Init /\ [][Next]_vars

(***************************************************************************)
(* Properties                                                              *)
(***************************************************************************)
Ledgers == SUBSET (Procs \X Keys)
Logs    == [onto : Ledgers, gives : Ledgers]

ContentsOf(f) ==
  CASE f \in {"config", "token", "signer", "dbKey"} -> Procs
    [] f \in {"viewing", "wallet"} -> Keys
    [] f = "railgun" -> SUBSET (Keys \X Procs)
    [] f = "sqlite"  -> Ledgers
    [] f = "log"     -> Logs

\* A file that is not there has no contents.
ASSUME MissingAssumption == \A f \in Files : \A c \in ContentsOf(f) : c # Missing

TypeOK ==
  /\ \A f \in Files : file[f] \in ContentsOf(f) \cup {Missing}
  /\ \A a \in aside : a[1] \in Files /\ a[2] \in ContentsOf(a[1])
  /\ backup # Missing => \A f \in ToSet(State) : backup.files[f] \in ContentsOf(f)
  /\ lock \in Procs \cup {NoProc} /\ deaths \in 0..MaxDeaths

Undisturbed == ~torn /\ ~overlapped

\* A daemon that serves has the wallet of the configured viewing key and can decrypt
\* it with the configured key, and all it reads from its database was written for
\* that wallet, however init, serve, backup and restore have followed each other, died
\* and been repeated (engine.ts loadOrCreateWallet, backup.ts restoreBackup).  A
\* database that lies beside the log of another is exempt.
ServesItsOwnState ==
  Undisturbed =>
    \A p \in Procs : pc[p] = "serving" =>
      /\ file.wallet = file.viewing
      /\ <<file.viewing, file.dbKey>> \in file.railgun
      /\ ~stray => \A read \in Readings : \A w \in read : w[2] = file.viewing

\* Every secret of a configuration is the one its own init generated, and is
\* there, or moved aside, or being copied in (cli.ts init, run twice at once and
\* killed anywhere); only a directory that was lost may have none of them.
Generated == {"token", "signer", "dbKey"}

KeysOfOneInit ==
  /\ file.config # Missing /\ Undisturbed
  /\ \E s \in Generated : file[s] # Missing
  /\ \A p \in Procs : pc[p] # "copy in"
  => \A s \in Generated : file[s] = file.config \/ <<s, file.config>> \in aside

\* Nothing is overwritten: a file that goes away or changes has grown in the hands
\* of a daemon or is found under a pre-restore path (docs/DEPLOYMENT.md "restore
\* --force moves existing state to timestamped pre-restore paths").
Grows(f) ==
  \/ f = "sqlite" /\ file'.sqlite # Missing /\ file.sqlite \subseteq file'.sqlite
  \/ f = "log" /\ file.log.gives \subseteq
       (IF file'.log # Missing THEN file'.log.gives ELSE IF file'.sqlite # Missing THEN file'.sqlite ELSE {})
  \/ f = "railgun" /\ file'.railgun # Missing
                   /\ {w[1] : w \in file.railgun} \subseteq {w[1] : w \in file'.railgun}

Ledger == {"sqlite", "log"}

NothingIsDestroyed ==
  [][~overlapped' /\ ~DirectoryLost /\ ~ViewingKeyReplaced =>
       \A f \in (IF stray' THEN Files \ Ledger ELSE Files) :
         file[f] # Missing /\ file'[f] # file[f] => Grows(f) \/ <<f, file[f]>> \in aside']_vars

\* A daemon begins with an empty ledger only where there never was one.  After a
\* restore that died half way it does so silently (backup.ts:308, database.ts
\* constructor), which is why torn is exempt.
StartsEmptyOnlyWhenNew ==
  [][Undisturbed /\ (\E p \in Procs : ServeOpensLedger(p)) /\ file.sqlite = Missing
       => ~hadLedger]_vars

\* The ledger of a merchant is not lost by commands that end, or die outside a
\* restore: it is copied, moved aside or kept, and never silently begun anew.  What
\* a killed daemon has left in the log is exempt once a restore has moved the
\* database away from it (MovedAsideIsWhole).
NothingIsLost == NothingIsDestroyed /\ StartsEmptyOnlyWhenNew

\* What a restore that succeeds leaves can be opened by the secrets that are
\* there, if the backup was taken from a directory with its own viewing key, and
\* the database is the one of the backup, if no log was left beside it.
RestoredDirectoryOpens ==
  [][\A p \in Procs :
       /\ pc[p] = "verify" /\ pc'[p] = "done" /\ ~overlapped
       /\ backup.files.wallet = backup.prints.viewing \/ backup.files.wallet = Missing
       => /\ file.wallet = file.viewing
          /\ <<file.wallet, file.dbKey>> \in file.railgun
          /\ ~stray => file'.sqlite = backup.files.sqlite /\ file'.log = Missing]_vars

\* "restore --force moves existing state to timestamped pre-restore paths"
\* (docs/DEPLOYMENT.md): when it has taken a database away, what a daemon would
\* have read from it is found at such a path.
MovedAsideIsWhole ==
  [][\A p \in Procs :
       pc[p] = "move" /\ file.sqlite # Missing /\ file'.sqlite = Missing =>
         \E read \in Readings : <<"sqlite", read>> \in aside']_vars
===============================================================================
