----------------------------- MODULE StoreProofs ------------------------------
(***************************************************************************)
(* Proofs about Store, for any number of commands, deaths and keys and any *)
(* number of commands at work.  The invariant has layers.                  *)
(* Always: contents of their kind, one serve behind the lock.  While no    *)
(* command has changed files during a backup or restore: the files belong  *)
(* together, and a restore empties every place before it fills the first.  *)
(* While no restore has died half way either: the directory is whole, or   *)
(* the one restore at work puts back what makes it whole.  While, besides, *)
(* no restore has parted a database from its log: what a daemon reads was  *)
(* written for the wallet it has loaded.                                   *)
(***************************************************************************)
EXTENDS Store, SequenceTheorems, TLAPS

(***************************************************************************)
(* The invariant                                                           *)
(***************************************************************************)
Restoring == {"move", "copy in"}
Guarded   == {"load wallet", "write wallet", "open ledger", "serving", "unlock"}
Labels    == Resting \cup Offline \cup Guarded \cup {"init", "lock"}

\* A directory, a partial backup, or the files of a backup.
IsDirectory(d) ==
  /\ DOMAIN d = Files
  /\ \A f \in Files : d[f] \in ContentsOf(f) \cup {Missing}

\* The fingerprints of the secrets, of which some may be missing.
Prints == {m \in [Identity -> Procs \cup Keys \cup {Missing}] :
             m.viewing \in Keys \cup {Missing} /\ m.dbKey \in Procs \cup {Missing}}

\* Every file and every command's memory has contents of its kind.
StoreTyped ==
  /\ IsDirectory(file)
  /\ backup # Missing => /\ IsDirectory(backup.files)
                         /\ backup.containsSecrets \in BOOLEAN
                         /\ backup.prints \in Prints
  /\ DOMAIN staging = Procs /\ \A p \in Procs : IsDirectory(staging[p])
  /\ lock \in Procs \cup {NoProc}
  /\ pc \in [Procs -> Labels] /\ step \in [Procs -> Nat \ {0}]
  /\ option \in [Procs -> BOOLEAN]
  /\ memory \in [Procs -> Prints]
  /\ torn \in BOOLEAN /\ overlapped \in BOOLEAN /\ stray \in BOOLEAN /\ hadLedger \in BOOLEAN

\* What a command needs for what it does next.
PreparedTo(p) ==
  /\ pc[p] = "init" => step[p] \in 1..4
  /\ pc[p] \in Restoring \cup {"verify"} => backup # Missing
  /\ pc[p] \in Restoring => step[p] \in 1..Len(PartsIn)
  /\ pc[p] \in Guarded \cup {"lock"} =>
       memory[p].viewing # Missing /\ memory[p].dbKey # Missing

\* Every command has what it needs.
Prepared == \A p \in Procs : PreparedTo(p)

\* Behind the lock there is one serve.
LockHeld == \A p \in Procs : pc[p] \in Guarded => lock = p

\* Who copies or replaces files is alone with commands that have yet to lock.
Alone == \A p, q \in Procs : p # q /\ pc[p] \in Offline => pc[q] \in Resting \cup {"lock"}

\* Before the first init is done there is nothing but what it has written.
Unconfigured ==
  file.config = Missing =>
    /\ aside = {} /\ {file.wallet, file.railgun, file.sqlite} = {Missing}
    /\ \A p \in Procs : pc[p] \in Resting \cup {"init"}

\* A running init wrote the files before its step; another has been overtaken.
InitOK(p) ==
  pc[p] = "init" =>
    IF file.config = Missing THEN \A j \in 1..4 : j < step[p] => file[InitFiles[j]] = p
    ELSE step[p] = 1 /\ file.token # Missing

\* Generated secrets and the keys of wallets are those of the one init that
\* has made the configuration.
OneInit ==
  /\ file.config # Missing => \A s \in Generated : file[s] \in {Missing, file.config}
  /\ \A a \in aside : a[1] \in Generated => a[2] = file.config
  /\ \A p \in Procs, s \in Generated : staging[p][s] \in {Missing, file.config}
  /\ backup # Missing => \A s \in Generated : backup.files[s] \in {Missing, file.config}

\* A ledger lies beside a wallet that can be loaded, or beside none.
PairOK ==
  file.wallet # Missing /\ file.sqlite # Missing =>
    file.railgun # Missing /\ <<file.wallet, file.config>> \in file.railgun

\* What a daemon has found on its way behind the lock still holds.
ServeOK(p) ==
  /\ pc[p] \in Guarded \cup {"lock"} => memory[p].dbKey = file.config
  /\ pc[p] \in {"write wallet", "open ledger", "serving"} =>
       file.railgun # Missing /\ <<memory[p].viewing, file.config>> \in file.railgun
  /\ pc[p] = "write wallet" => file.wallet = Missing
  /\ pc[p] \in {"open ledger", "serving"} => file.wallet = memory[p].viewing
  /\ pc[p] = "serving" => file.sqlite # Missing

\* What a backup has copied is what the directory still holds; of the database it
\* has what it read.
CopiedOut(p) ==
  /\ pc[p] = "copy out" => \A j \in 1..3 : j < step[p] =>
       /\ staging[p][State[j]] # Missing /\ file[State[j]] # Missing
       /\ j # 1 => staging[p][State[j]] = file[State[j]]
  /\ pc[p] = "copy secrets" =>
       /\ file.sqlite # Missing /\ \A f \in ToSet(State) : staging[p][f] # Missing
       /\ staging[p].railgun = file.railgun /\ staging[p].wallet = file.wallet
       /\ memory[p] = PrintsOf(file) /\ \A s \in Identity : file[s] # Missing
       /\ option[p] => \A j \in 1..4 : j < step[p] =>
            staging[p][Secrets[j]] = file[Secrets[j]] /\ file[Secrets[j]] # Missing

\* A published backup is complete, of this configuration, and its wallet can be loaded.
BackupOK ==
  backup # Missing =>
    /\ \A f \in ToSet(State) : backup.files[f] # Missing
    /\ backup.containsSecrets => \A f \in ToSet(Secrets) : backup.files[f] # Missing
    /\ backup.prints.dbKey = file.config
    /\ <<backup.files.wallet, backup.prints.dbKey>> \in backup.files.railgun

\* A restore has emptied every place before it fills the first.
Replaced(p) ==
  /\ pc[p] = "move" => \A j \in 1..Len(PartsIn) : j < step[p] => file[PartsIn[j]] = Missing
  /\ pc[p] = "copy in" => \A j \in 1..Len(PartsIn) :
       file[PartsIn[j]] = IF j < step[p] THEN backup.files[PartsIn[j]] ELSE Missing
  /\ pc[p] = "verify" => \A j \in 1..Len(PartsIn) : file[PartsIn[j]] = backup.files[PartsIn[j]]

\* While no two commands have worked on the same files.
AloneInv ==
  /\ Alone /\ Unconfigured /\ OneInit /\ PairOK /\ BackupOK
  /\ \A p \in Procs : InitOK(p) /\ ServeOK(p) /\ CopiedOut(p) /\ Replaced(p)

\* The secrets of a directory are there or not, and it has a ledger if it had one.
AllKeys == \A s \in Generated : file[s] = file.config
NoKeys  == \A s \in Generated : file[s] = Missing
\* A directory no restore is at work on.
Whole ==
  /\ file.config # Missing => AllKeys \/ NoKeys
  /\ hadLedger => file.sqlite # Missing

\* A command that waits for the lock has read the secrets that are there, or
\* that a restore is about to put back.
ReadTheSecrets(p) ==
  pc[p] \in Guarded \cup {"lock"} =>
    /\ (\A q \in Procs : pc[q] \notin Restoring) => memory[p] = PrintsOf(file)
    /\ \A q \in Procs : pc[q] \in Restoring => memory[p] = backup.prints
    /\ \A q \in Procs : pc[q] = "move" /\ ~option[q] => memory[p] = PrintsOf(file)

\* A restore puts back what is there already, or what it has put aside.
RestoresItsOwn(q) ==
  pc[q] \in Restoring =>
    /\ backup.containsSecrets => PrintsOf(backup.files) = backup.prints
    /\ ~backup.containsSecrets => PrintsOf(file) = backup.prints /\ (AllKeys \/ NoKeys)
    /\ pc[q] = "move" =>
         /\ \A s \in Identity : file[s] \in {Missing, backup.prints[s]}
         /\ NoKeys \/ \A s \in Generated : file[s] = file.config \/ <<s, file.config>> \in aside
         /\ ~option[q] => Whole

\* While, besides, no restore has died half way.
UndisturbedInv ==
  /\ (\A p \in Procs : pc[p] \notin Restoring) => Whole
  /\ \A p \in Procs : ReadTheSecrets(p) /\ RestoresItsOwn(p)

\* The log of a database lies beside it, and a restore finds none when it copies.
LogOK ==
  /\ file.log # Missing =>
       file.sqlite # Missing /\ file.log.onto \subseteq file.sqlite /\ file.sqlite \subseteq file.log.gives
  /\ \A p \in Procs : pc[p] \in {"copy in", "verify"} => file.log = Missing

\* A ledger, or the log of one, with nothing in it that was not written for v.
Owned(ledger, v) == ledger # Missing => \A w \in ledger : w[2] = v
OwnedLog(log, v) == log # Missing => \A w \in log.gives : w[2] = v

\* The ledgers of a directory, of a backup and of a partial backup were written
\* for the wallets beside them.
LedgerOK ==
  /\ (\A p \in Procs : pc[p] # "copy in") =>
       Owned(file.sqlite, file.wallet) /\ OwnedLog(file.log, file.wallet)
  /\ backup # Missing => Owned(backup.files.sqlite, backup.files.wallet)
  /\ \A p \in Procs : pc[p] = "copy secrets" \/ (pc[p] = "copy out" /\ step[p] # 1) =>
       Owned(staging[p].sqlite, file.wallet)

\* The invariant: each part as long as its condition lasts.
StoreInv ==
  /\ StoreTyped /\ Prepared /\ LockHeld
  /\ ~overlapped => AloneInv
  /\ Undisturbed => UndisturbedInv
  /\ ~overlapped /\ ~stray => LogOK
  /\ Undisturbed /\ ~stray => LedgerOK

(***************************************************************************)
(* Names, parts and contents of files                                      *)
(***************************************************************************)
\* The names of the files, one by one.
LEMMA NamesOfFiles ==
  /\ Files = {"token", "signer", "dbKey", "viewing", "sqlite", "railgun", "wallet", "config", "log"}
  /\ ToSet(Secrets) = {"token", "signer", "dbKey", "viewing"}
  /\ ToSet(State) = {"sqlite", "railgun", "wallet"}
  /\ ToSet(InitFiles) = {"token", "signer", "dbKey", "config"}
<1>1. ToSet(Secrets) = {"token", "signer", "dbKey", "viewing"}
  BY DEF ToSet, Secrets
<1>2. ToSet(State) = {"sqlite", "railgun", "wallet"}
  BY DEF ToSet, State
<1>3. ToSet(InitFiles) = {"token", "signer", "dbKey", "config"}
  BY DEF ToSet, InitFiles
<1> QED
  BY <1>1, <1>2, <1>3 DEF Files

\* The parts a restore replaces, in their order.
LEMMA PartsOfRestore ==
  /\ PartsIn[1] = "sqlite" /\ PartsIn[2] = "railgun" /\ PartsIn[3] = "wallet"
  /\ ~backup.containsSecrets => Len(PartsIn) = 3
  /\ backup.containsSecrets =>
       /\ Len(PartsIn) = 7 /\ PartsIn[4] = "token" /\ PartsIn[5] = "signer"
       /\ PartsIn[6] = "dbKey" /\ PartsIn[7] = "viewing"
<1>1. State \in Seq(Files) /\ Len(State) = 3
  <2>1. "sqlite" \in Files /\ "railgun" \in Files /\ "wallet" \in Files
    BY NamesOfFiles
  <2> QED
    BY <2>1 DEF State
<1>2. Secrets \in Seq(Files) /\ Len(Secrets) = 4
  <2>1. "token" \in Files /\ "signer" \in Files /\ "dbKey" \in Files /\ "viewing" \in Files
    BY NamesOfFiles
  <2> QED
    BY <2>1 DEF Secrets
<1> DEFINE both == State \o Secrets
<1>3. Len(both) = 7 /\ \A i \in 1..7 : both[i] = IF i <= 3 THEN State[i] ELSE Secrets[i - 3]
  <2>1. /\ Len(both) = Len(State) + Len(Secrets)
        /\ \A i \in 1 .. Len(State) + Len(Secrets) :
             both[i] = IF i <= Len(State) THEN State[i] ELSE Secrets[i - Len(State)]
    BY <1>1, <1>2, ConcatProperties, Zenon
  <2> QED
    BY <1>1, <1>2, <2>1
<1>4. both[1] = "sqlite" /\ both[2] = "railgun" /\ both[3] = "wallet"
  BY <1>3 DEF State
<1>5. both[4] = "token" /\ both[5] = "signer" /\ both[6] = "dbKey" /\ both[7] = "viewing"
  <2>1. both[4] = Secrets[1] /\ both[5] = Secrets[2] /\ both[6] = Secrets[3] /\ both[7] = Secrets[4]
    BY <1>3
  <2> QED
    BY <2>1 DEF Secrets
<1>6. State[1] = "sqlite" /\ State[2] = "railgun" /\ State[3] = "wallet"
  BY DEF State
<1> QED
  BY <1>1, <1>3, <1>4, <1>5, <1>6 DEF PartsIn

\* A file that is not there is not a process, a key, a wallet or a ledger.
LEMMA MissingIsNoContents ==
  /\ Missing \notin Procs /\ Missing \notin Keys
  /\ Missing \notin SUBSET (Keys \X Procs)
  /\ Missing \notin Ledgers /\ Missing \notin Logs
<1>1. "railgun" \in Files /\ "sqlite" \in Files /\ "log" \in Files
  BY NamesOfFiles
<1>2. /\ Missing \notin ContentsOf("railgun") /\ Missing \notin ContentsOf("sqlite")
      /\ Missing \notin ContentsOf("log")
  BY <1>1, MissingAssumption
<1>3. /\ ContentsOf("railgun") = SUBSET (Keys \X Procs) /\ ContentsOf("sqlite") = Ledgers
      /\ ContentsOf("log") = Logs
  BY DEF ContentsOf
<1> QED
  BY <1>2, <1>3, StoreAssumption

\* A restore replaces state and secrets, never the configuration, and each once.
LEMMA PartsAreFiles ==
  ASSUME StoreTyped, backup # Missing
  PROVE  /\ Len(PartsIn) \in {3, 7}
         /\ \A j \in 1..Len(PartsIn) : PartsIn[j] \in Files \ {"config", "log"}
         /\ \A i, j \in 1..Len(PartsIn) : PartsIn[i] = PartsIn[j] => i = j
<1>1. backup.containsSecrets \/ ~backup.containsSecrets
  OBVIOUS
<1>2. CASE ~backup.containsSecrets
  BY <1>2, PartsOfRestore, NamesOfFiles
<1>3. CASE backup.containsSecrets
  <2>1. /\ Len(PartsIn) = 7
        /\ PartsIn[1] = "sqlite" /\ PartsIn[2] = "railgun" /\ PartsIn[3] = "wallet"
        /\ PartsIn[4] = "token" /\ PartsIn[5] = "signer" /\ PartsIn[6] = "dbKey"
        /\ PartsIn[7] = "viewing"
    BY <1>3, PartsOfRestore
  <2>2. \A j \in 1..7 : j = 1 \/ j = 2 \/ j = 3 \/ j = 4 \/ j = 5 \/ j = 6 \/ j = 7
    OBVIOUS
  <2>3. \A j \in 1..7 : PartsIn[j] \in Files \ {"config", "log"}
    BY <2>1, <2>2, NamesOfFiles
  <2>4. \A i, j \in 1..7 : PartsIn[i] = PartsIn[j] => i = j
    BY <2>1, <2>2
  <2> QED
    BY <2>1, <2>3, <2>4
<1> QED
  BY <1>1, <1>2, <1>3

\* A backup copies state and secrets.
LEMMA PartsOutAreFiles ==
  ASSUME NEW p
  PROVE  \A j \in 1..Len(PartsOut(p)) : PartsOut(p)[j] \in Files
<1>1. \A j \in 1..Len(State) : State[j] \in Files
  BY NamesOfFiles DEF State
<1>2. \A j \in 1..Len(Secrets) : Secrets[j] \in Files
  BY NamesOfFiles DEF Secrets
<1>3. \A j \in 1..Len(<<>>) : (<<>>)[j] \in Files
  OBVIOUS
<1> QED
  BY <1>1, <1>2, <1>3 DEF PartsOut, StateCopied

\* The contents of the files, one by one.
LEMMA ContentsByName ==
  /\ ContentsOf("token") = Procs /\ ContentsOf("signer") = Procs
  /\ ContentsOf("dbKey") = Procs /\ ContentsOf("config") = Procs
  /\ ContentsOf("viewing") = Keys /\ ContentsOf("wallet") = Keys
  /\ ContentsOf("railgun") = SUBSET (Keys \X Procs)
  /\ ContentsOf("sqlite") = Ledgers /\ ContentsOf("log") = Logs
BY DEF ContentsOf

\* What a directory may hold, file by file.
LEMMA FilesOfDirectory ==
  ASSUME NEW d, IsDirectory(d)
  PROVE  /\ d.token \in Procs \cup {Missing} /\ d.signer \in Procs \cup {Missing}
         /\ d.dbKey \in Procs \cup {Missing} /\ d.config \in Procs \cup {Missing}
         /\ d.viewing \in Keys \cup {Missing} /\ d.wallet \in Keys \cup {Missing}
         /\ d.railgun \in (SUBSET (Keys \X Procs)) \cup {Missing}
         /\ d.sqlite \in Ledgers \cup {Missing} /\ d.log \in Logs \cup {Missing}
<1>1. \A f \in Files : d[f] \in ContentsOf(f) \cup {Missing}
  BY DEF IsDirectory
<1>2. /\ d.token \in ContentsOf("token") \cup {Missing}
      /\ d.signer \in ContentsOf("signer") \cup {Missing}
      /\ d.dbKey \in ContentsOf("dbKey") \cup {Missing}
      /\ d.config \in ContentsOf("config") \cup {Missing}
      /\ d.viewing \in ContentsOf("viewing") \cup {Missing}
      /\ d.wallet \in ContentsOf("wallet") \cup {Missing}
      /\ d.railgun \in ContentsOf("railgun") \cup {Missing}
      /\ d.sqlite \in ContentsOf("sqlite") \cup {Missing}
      /\ d.log \in ContentsOf("log") \cup {Missing}
  BY <1>1, NamesOfFiles
<1> QED
  BY <1>2, ContentsByName

\* A file of a directory is replaced.
LEMMA DirectoryUpdated ==
  ASSUME NEW d, IsDirectory(d), NEW f \in Files, NEW v \in ContentsOf(f) \cup {Missing}
  PROVE  IsDirectory([d EXCEPT ![f] = v])
BY DEF IsDirectory

\* What a connection reads is a ledger; without a foreign log it is what the log
\* gives, if there is one.
LEMMA WhatIsRead ==
  ASSUME IsDirectory(file), NEW read \in Readings
  PROVE  /\ read \in Ledgers
         /\ file.sqlite # Missing /\ ~Foreign =>
              read = IF file.log = Missing THEN file.sqlite ELSE file.log.gives
<1>1. file.sqlite \in Ledgers \cup {Missing} /\ file.log \in Logs \cup {Missing}
  BY FilesOfDirectory
<1>2. file.log # Missing => file.log.gives \in Ledgers
  BY <1>1 DEF Logs
<1>3. {} \in Ledgers
  BY DEF Ledgers
<1>4. CASE file.sqlite = Missing
  BY <1>3, <1>4 DEF Readings, Foreign
<1>5. CASE file.sqlite # Missing /\ file.log = Missing
  BY <1>1, <1>5 DEF Readings, Foreign
<1>6. CASE file.sqlite # Missing /\ file.log # Missing /\ Foreign
  <2>1. read \subseteq file.sqlite \cup file.log.gives
    BY <1>6 DEF Readings
  <2> QED
    BY <1>1, <1>2, <1>6, <2>1 DEF Ledgers
<1>7. CASE file.sqlite # Missing /\ file.log # Missing /\ ~Foreign
  BY <1>2, <1>7 DEF Readings
<1> QED
  BY <1>4, <1>5, <1>6, <1>7

\* What a commit does to the files.
LEMMA EffectOfCommitting ==
  ASSUME IsDirectory(file), file.sqlite # Missing, NEW ledger \in Ledgers, Commit(ledger)
  PROVE  /\ IsDirectory(file')
         /\ \A f \in Files \ Ledger : file'[f] = file[f]
         /\ file'.sqlite \in {file.sqlite, ledger} /\ file'.sqlite # Missing
         /\ file'.log # Missing /\ file'.log.gives = ledger
         /\ file'.log.onto = IF file.log = Missing \/ file.log.gives = file.sqlite
                               THEN file.sqlite ELSE file.log.onto
<1>1. file.sqlite \in Ledgers /\ file.log \in Logs \cup {Missing}
  BY FilesOfDirectory
<1> DEFINE onto == IF file.log = Missing \/ file.log.gives = file.sqlite
                     THEN file.sqlite ELSE file.log.onto
           log == [onto |-> onto, gives |-> ledger]
<1>2. PICK checkpointed \in BOOLEAN :
        file' = [file EXCEPT !.sqlite = IF checkpointed THEN ledger ELSE @, !.log = log]
  BY DEF Commit
<1>3. onto \in Ledgers
  BY <1>1 DEF Logs
<1>4. log \in Logs /\ log.onto = onto /\ log.gives = ledger
  BY <1>3 DEF Logs
<1> HIDE DEF log, onto
<1>5. PICK v \in {file.sqlite, ledger} : file' = [file EXCEPT !.sqlite = v, !.log = log]
  BY <1>2
<1>6. v \in Ledgers /\ Missing \notin Ledgers /\ Missing \notin Logs
  BY <1>1, MissingIsNoContents
<1>7. /\ IsDirectory(file') /\ file'.sqlite = v /\ file'.log = log
      /\ \A f \in Files \ Ledger : file'[f] = file[f]
  <2>1. log \in Logs \cup {Missing}
    BY <1>4
  <2> QED
    BY <1>5, <1>6, <2>1, NamesOfFiles, ContentsByName DEF IsDirectory, Ledger
<1>8. file'.log # Missing /\ file'.sqlite # Missing
  BY <1>4, <1>6, <1>7
<1> QED
  BY <1>4, <1>7, <1>8 DEF onto

\* What closing the database does to the files.
LEMMA EffectOfClosing ==
  ASSUME IsDirectory(file), CloseLedger
  PROVE  /\ IsDirectory(file')
         /\ \A f \in Files \ Ledger : file'[f] = file[f]
         /\ file'.sqlite \in Readings /\ file'.sqlite # Missing /\ file'.log = Missing
<1>1. PICK read \in Readings : file' = [file EXCEPT !.sqlite = read, !.log = Missing]
  BY DEF CloseLedger
<1>2. read \in Ledgers /\ Missing \notin Ledgers
  BY WhatIsRead, MissingIsNoContents
<1> QED
  <2>1. Missing \in Logs \cup {Missing}
    OBVIOUS
  <2>2. /\ IsDirectory(file') /\ file'.sqlite = read /\ file'.log = Missing
        /\ \A f \in Files \ Ledger : file'[f] = file[f]
    BY <1>1, <1>2, <2>1, NamesOfFiles, ContentsByName DEF IsDirectory, Ledger
  <2> QED
    BY <1>1, <1>2, <2>2

\* What opening the database does to the files.
LEMMA EffectOfOpening ==
  ASSUME IsDirectory(file), NEW p, ServeOpensLedger(p)
  PROVE  /\ IsDirectory(file')
         /\ \A f \in Files \ Ledger : file'[f] = file[f]
         /\ file'.sqlite # Missing
         /\ file.sqlite # Missing => file' = file /\ hadLedger' = hadLedger
         /\ file.sqlite = Missing =>
              /\ file'.sqlite = {} /\ file'.log # Missing
              /\ file'.log.onto = {} /\ file'.log.gives = {}
<1>1. CASE file.sqlite # Missing
  BY <1>1 DEF ServeOpensLedger
<1>2. CASE file.sqlite = Missing
  <2> DEFINE log == [onto |-> {}, gives |-> {}]
  <2>1. file' = [file EXCEPT !.sqlite = {}, !.log = log]
    BY <1>2 DEF ServeOpensLedger
  <2>2. {} \in Ledgers /\ log \in Logs /\ log.onto = {} /\ log.gives = {}
    BY DEF Ledgers, Logs
  <2>3. Missing \notin Ledgers /\ Missing \notin Logs
    BY MissingIsNoContents
  <2> HIDE DEF log
  <2>4. /\ IsDirectory(file') /\ file'.sqlite = {} /\ file'.log = log
        /\ \A f \in Files \ Ledger : file'[f] = file[f]
    <3>1. log \in Logs \cup {Missing}
      BY <2>2
    <3> QED
      BY <2>1, <2>2, <3>1, NamesOfFiles, ContentsByName DEF IsDirectory, Ledger
  <2> QED
    BY <1>2, <2>2, <2>3, <2>4
<1> QED
  BY <1>1, <1>2

\* The fingerprints of a directory.
LEMMA PrintsTyped ==
  ASSUME NEW d, IsDirectory(d)
  PROVE  /\ PrintsOf(d) \in Prints
         /\ PrintsOf(d).viewing = d.viewing /\ PrintsOf(d).dbKey = d.dbKey
         /\ PrintsOf(d).signer = d.signer
<1>1. /\ PrintsOf(d).viewing = d.viewing /\ PrintsOf(d).dbKey = d.dbKey
      /\ PrintsOf(d).signer = d.signer
  BY DEF PrintsOf, Identity
<1>2. \A s \in Identity : d[s] \in Procs \cup Keys \cup {Missing}
  BY FilesOfDirectory DEF Identity
<1>3. PrintsOf(d) \in [Identity -> Procs \cup Keys \cup {Missing}]
  BY <1>2 DEF PrintsOf
<1> QED
  BY <1>1, <1>3, FilesOfDirectory DEF Prints

\* The labels of a process.
LEMMA LabelsByName ==
  /\ Labels = {"idle", "served", "done", "failed", "dead", "copy out", "copy secrets", "move",
               "copy in", "verify", "load wallet", "write wallet", "open ledger", "serving",
               "unlock", "init", "lock"}
  /\ \A l \in Labels : l \in Resting \/ l \in Offline \/ l \in Guarded \/ l = "init" \/ l = "lock"
BY DEF Labels, Resting, Offline, Guarded

\* A process goes to another label, at its first step.
LEMMA Moves ==
  ASSUME StoreTyped, NEW p \in Procs, NEW label, Goto(p, label)
  PROVE  /\ pc'[p] = label /\ step'[p] = 1
         /\ \A q \in Procs : q # p => pc'[q] = pc[q] /\ step'[q] = step[q]
         /\ label \in Labels => pc' \in [Procs -> Labels]
         /\ step' \in [Procs -> Nat \ {0}]
<1>1. pc \in [Procs -> Labels] /\ step \in [Procs -> Nat \ {0}]
  BY DEF StoreTyped
<1> QED
  BY <1>1 DEF Goto

\* A process goes on to its next step.
LEMMA GoesOn ==
  ASSUME StoreTyped, NEW p \in Procs, NextStep(p)
  PROVE  /\ pc' = pc /\ pc' \in [Procs -> Labels] /\ step' \in [Procs -> Nat \ {0}]
         /\ step'[p] = step[p] + 1
         /\ \A q \in Procs : q # p => step'[q] = step[q]
<1>1. pc \in [Procs -> Labels] /\ step \in [Procs -> Nat \ {0}]
  BY DEF StoreTyped
<1> QED
  BY <1>1 DEF NextStep

\* The initial state satisfies the types.
LEMMA InitTyped == ASSUME Init PROVE StoreTyped /\ LockHeld
<1>1. IsDirectory(NoFiles)
  BY DEF NoFiles, IsDirectory
<1>2. PICK v \in Keys : file = [NoFiles EXCEPT !.viewing = v]
  BY DEF Init
<1>3. IsDirectory(file)
  BY <1>1, <1>2, NamesOfFiles, ContentsByName, DirectoryUpdated
<1>4. PrintsOf(NoFiles) \in Prints
  BY <1>1, PrintsTyped
<1>5. pc \in [Procs -> Labels] /\ step \in [Procs -> Nat \ {0}] /\ option \in [Procs -> BOOLEAN]
  <2>1. /\ pc = [p \in Procs |-> "idle"] /\ step = [p \in Procs |-> 1]
        /\ option = [p \in Procs |-> FALSE]
    BY DEF Init
  <2>2. "idle" \in Labels
    BY LabelsByName
  <2>3. pc \in [Procs -> Labels] /\ step \in [Procs -> Nat \ {0}]
    BY <2>1, <2>2
  <2>4. option \in [Procs -> BOOLEAN]
    BY <2>1
  <2> QED
    BY <2>3, <2>4
<1>6. memory \in [Procs -> Prints]
  BY <1>4 DEF Init
<1>7. DOMAIN staging = Procs /\ \A p \in Procs : IsDirectory(staging[p])
  BY <1>1 DEF Init
<1>8. StoreTyped
  BY <1>3, <1>5, <1>6, <1>7 DEF Init, StoreTyped
<1>9. LockHeld
  BY DEF Init, LockHeld, Guarded
<1> QED
  BY <1>8, <1>9

\* Whoever begins may disturb, or not.
LEMMA EntersTyped ==
  ASSUME NEW p, NEW label, Enter(p, label)
  PROVE  Goto(p, label) /\ overlapped' \in BOOLEAN
<1>1. overlapped' = (overlapped \/ Meets(p, label))
  BY DEF Enter
<1>2. overlapped' \in BOOLEAN
  BY <1>1
<1> QED
  BY <1>2 DEF Enter

(***************************************************************************)
(* Every step keeps the types                                              *)
(***************************************************************************)
\* A run of init begins.
LEMMA InitBeginsTyped ==
  ASSUME StoreTyped, Prepared, LockHeld, NEW p \in Procs, InitBegins(p)
  PROVE  StoreTyped' /\ LockHeld'
<1>1. pc' \in [Procs -> Labels] /\ step' \in [Procs -> Nat \ {0}]
  BY Moves, GoesOn, LabelsByName DEF StoreTyped, InitBegins, Enter
<1>2. IsDirectory(file')
  BY DEF StoreTyped, InitBegins
<1>3. StoreTyped'
  <2>1. overlapped' \in BOOLEAN
    BY EntersTyped DEF StoreTyped, InitBegins
  <2> QED
    BY <1>1, <1>2, <2>1 DEF StoreTyped, InitBegins, History
<1>4. LockHeld'
  BY Moves, GoesOn DEF LockHeld, Guarded, InitBegins, Enter, Unlocked, Resting
<1> QED
  BY <1>3, <1>4

\* init writes a file.
LEMMA InitWritesTyped ==
  ASSUME StoreTyped, Prepared, LockHeld, NEW p \in Procs, InitWrites(p)
  PROVE  StoreTyped' /\ LockHeld'
<1>1. pc' \in [Procs -> Labels] /\ step' \in [Procs -> Nat \ {0}]
  BY Moves, GoesOn, LabelsByName DEF StoreTyped, InitWrites, Enter
<1>2. IsDirectory(file')
  <2>1. InitFiles[step[p]] \in {"token", "signer", "dbKey", "config"}
    BY DEF Prepared, PreparedTo, InitWrites, InitFiles
  <2>2. InitFiles[step[p]] \in Files /\ p \in ContentsOf(InitFiles[step[p]])
    BY <2>1, NamesOfFiles, ContentsByName
  <2>3. file' = file \/ file' = [file EXCEPT ![InitFiles[step[p]]] = p]
    BY DEF InitWrites
  <2> QED
    BY <2>2, <2>3, DirectoryUpdated DEF StoreTyped
<1>3. StoreTyped'
  BY <1>1, <1>2 DEF StoreTyped, InitWrites, History
<1>4. LockHeld'
  BY Moves, GoesOn DEF LockHeld, Guarded, InitWrites, Enter, Unlocked, Resting
<1> QED
  BY <1>3, <1>4

\* serve reads its configuration.
LEMMA ServeBeginsTyped ==
  ASSUME StoreTyped, Prepared, LockHeld, NEW p \in Procs, ServeBegins(p)
  PROVE  StoreTyped' /\ LockHeld'
<1>1. pc' \in [Procs -> Labels] /\ step' \in [Procs -> Nat \ {0}]
  BY Moves, GoesOn, LabelsByName DEF StoreTyped, ServeBegins, Enter
<1>2. IsDirectory(file')
  BY DEF StoreTyped, ServeBegins
<1>3. StoreTyped'
  <2>1. PrintsOf(file) \in Prints
    BY PrintsTyped DEF StoreTyped
  <2>2. memory' \in [Procs -> Prints]
    BY <2>1 DEF StoreTyped, ServeBegins
  <2> QED
    BY <1>1, <1>2, <2>2 DEF StoreTyped, ServeBegins, History
<1>4. LockHeld'
  BY Moves, GoesOn DEF LockHeld, Guarded, ServeBegins, Enter, Unlocked, Resting
<1> QED
  BY <1>3, <1>4

\* The lock goes to a process only when nobody behind it is at work.
LEMMA ServeLocksTyped ==
  ASSUME StoreTyped, Prepared, LockHeld, NEW p \in Procs, ServeLocks(p)
  PROVE  StoreTyped' /\ LockHeld'
<1>1. pc' \in [Procs -> Labels] /\ step' \in [Procs -> Nat \ {0}]
  BY Moves, GoesOn, LabelsByName DEF StoreTyped, ServeLocks, Enter
<1>2. IsDirectory(file')
  BY DEF StoreTyped, ServeLocks
<1>3. StoreTyped'
  <2>1. overlapped' \in BOOLEAN
    BY EntersTyped DEF StoreTyped, ServeLocks
  <2> QED
    BY <1>1, <1>2, <2>1 DEF StoreTyped, ServeLocks, History
<1>4. LockHeld'
  <2>1. ASSUME NEW q \in Procs, pc'[q] \in Guarded PROVE lock' = q
    <3>1. CASE q = p
      <4>1. CASE Unlocked
        BY <3>1, <4>1 DEF ServeLocks
      <4>2. CASE ~Unlocked
        <5>1. Goto(p, "failed")
          BY <4>2 DEF ServeLocks
        <5>2. pc'[p] = "failed"
          BY <5>1, Moves
        <5> QED
          BY <2>1, <3>1, <5>2 DEF Guarded
      <4> QED
        BY <4>1, <4>2
    <3>2. CASE q # p
      <4>1. pc'[q] = pc[q] /\ pc[q] \notin Resting
        BY <2>1, <3>2, Moves, EntersTyped DEF Guarded, Resting, ServeLocks
      <4>2. lock = q
        BY <2>1, <4>1 DEF LockHeld
      <4>3. ~Unlocked
        BY <4>1, <4>2, StoreAssumption DEF Unlocked
      <4> QED
        BY <4>2, <4>3 DEF ServeLocks
    <3> QED
      BY <3>1, <3>2
  <2> QED
    BY <2>1 DEF LockHeld
<1> QED
  BY <1>3, <1>4

\* The LevelDB holds wallets.
LEMMA ServeLoadsWalletTyped ==
  ASSUME StoreTyped, Prepared, LockHeld, NEW p \in Procs, ServeLoadsWallet(p)
  PROVE  StoreTyped' /\ LockHeld'
<1>1. pc' \in [Procs -> Labels] /\ step' \in [Procs -> Nat \ {0}]
  BY Moves, GoesOn, LabelsByName DEF StoreTyped, ServeLoadsWallet, Enter
<1>2. IsDirectory(file')
  <2>1. memory[p].viewing \in Keys /\ memory[p].dbKey \in Procs
    BY DEF StoreTyped, Prints, Prepared, PreparedTo, Guarded, ServeLoadsWallet
  <2>2. Wallets \in SUBSET (Keys \X Procs)
    BY FilesOfDirectory DEF StoreTyped, Wallets
  <2>3. PICK ws \in SUBSET (Keys \X Procs) : file' = [file EXCEPT !.railgun = ws]
    <3>1. {w \in Wallets : w[1] # memory[p].viewing} \cup {<<memory[p].viewing, memory[p].dbKey>>}
            \in SUBSET (Keys \X Procs)
      BY <2>1, <2>2
    <3> QED
      BY <2>2, <3>1 DEF ServeLoadsWallet
  <2> QED
    BY <2>3, NamesOfFiles, ContentsByName, DirectoryUpdated DEF StoreTyped
<1>3. StoreTyped'
  BY <1>1, <1>2 DEF StoreTyped, ServeLoadsWallet, History
<1>4. LockHeld'
  BY Moves, GoesOn DEF LockHeld, Guarded, ServeLoadsWallet, Enter, Unlocked, Resting
<1> QED
  BY <1>3, <1>4

\* The state file names the key of the wallet.
LEMMA ServeWritesWalletTyped ==
  ASSUME StoreTyped, Prepared, LockHeld, NEW p \in Procs, ServeWritesWallet(p)
  PROVE  StoreTyped' /\ LockHeld'
<1>1. pc' \in [Procs -> Labels] /\ step' \in [Procs -> Nat \ {0}]
  BY Moves, GoesOn, LabelsByName DEF StoreTyped, ServeWritesWallet, Enter
<1>2. IsDirectory(file')
  <2>1. memory[p].viewing \in Keys
    BY DEF StoreTyped, Prints, Prepared, PreparedTo, Guarded, ServeWritesWallet
  <2>2. file' = file \/ file' = [file EXCEPT !.wallet = memory[p].viewing]
    BY DEF ServeWritesWallet
  <2> QED
    BY <2>1, <2>2, NamesOfFiles, ContentsByName, DirectoryUpdated DEF StoreTyped
<1>3. StoreTyped'
  BY <1>1, <1>2 DEF StoreTyped, ServeWritesWallet, History
<1>4. LockHeld'
  BY Moves, GoesOn DEF LockHeld, Guarded, ServeWritesWallet, Enter, Unlocked, Resting
<1> QED
  BY <1>3, <1>4

\* A new ledger is empty.
LEMMA ServeOpensLedgerTyped ==
  ASSUME StoreTyped, Prepared, LockHeld, NEW p \in Procs, ServeOpensLedger(p)
  PROVE  StoreTyped' /\ LockHeld'
<1>1. pc' \in [Procs -> Labels] /\ step' \in [Procs -> Nat \ {0}]
  BY Moves, LabelsByName DEF ServeOpensLedger
<1>2. IsDirectory(file')
  BY EffectOfOpening DEF StoreTyped
<1>3. StoreTyped'
  BY <1>1, <1>2 DEF StoreTyped, ServeOpensLedger
<1>4. LockHeld'
  BY Moves DEF LockHeld, Guarded, ServeOpensLedger
<1> QED
  BY <1>3, <1>4

\* What a write does to the files.
LEMMA EffectOfWriting ==
  ASSUME StoreTyped, Prepared, NEW p \in Procs, ServeWrites(p)
  PROVE  /\ IsDirectory(file')
         /\ \A f \in Files \ Ledger : file'[f] = file[f]
         /\ file'.sqlite # Missing /\ file'.log # Missing
         /\ \E read \in Readings :
              /\ file'.sqlite \in {file.sqlite, read \cup {<<p, memory[p].viewing>>}}
              /\ file'.log.gives = read \cup {<<p, memory[p].viewing>>}
         /\ file'.log.onto = IF file.log = Missing \/ file.log.gives = file.sqlite
                               THEN file.sqlite ELSE file.log.onto
<1>1. memory[p].viewing \in Keys
  BY DEF StoreTyped, Prints, Prepared, PreparedTo, Guarded, ServeWrites
<1>2. PICK read \in Readings : Commit(read \cup {<<p, memory[p].viewing>>})
  BY DEF ServeWrites
<1>3. read \in Ledgers /\ IsDirectory(file) /\ file.sqlite # Missing
  BY WhatIsRead DEF StoreTyped, ServeWrites
<1>4. read \cup {<<p, memory[p].viewing>>} \in Ledgers
  BY <1>1, <1>3 DEF Ledgers
<1> QED
  BY <1>2, <1>3, <1>4, EffectOfCommitting

\* A ledger grows.
LEMMA ServeWritesTyped ==
  ASSUME StoreTyped, Prepared, LockHeld, NEW p \in Procs, ServeWrites(p)
  PROVE  StoreTyped' /\ LockHeld'
<1>1. pc' \in [Procs -> Labels] /\ step' \in [Procs -> Nat \ {0}]
  BY DEF StoreTyped, ServeWrites
<1>2. IsDirectory(file')
  BY EffectOfWriting
<1>3. StoreTyped'
  BY <1>1, <1>2 DEF StoreTyped, ServeWrites, History
<1>4. LockHeld'
  BY DEF LockHeld, Guarded, ServeWrites
<1> QED
  BY <1>3, <1>4

\* The holder gives the lock back.
LEMMA ServeEndsTyped ==
  ASSUME StoreTyped, Prepared, LockHeld, NEW p \in Procs, ServeEnds(p)
  PROVE  StoreTyped' /\ LockHeld'
<1>1. pc' \in [Procs -> Labels] /\ step' \in [Procs -> Nat \ {0}]
  BY Moves, GoesOn, LabelsByName DEF StoreTyped, ServeEnds, Enter
<1>2. IsDirectory(file')
  BY EffectOfClosing DEF StoreTyped, ServeEnds
<1>3. StoreTyped'
  BY <1>1, <1>2 DEF StoreTyped, ServeEnds, History
<1>4. LockHeld'
  <2>1. lock = p
    BY DEF ServeEnds, LockHeld, Guarded
  <2>2. pc'[p] \in Resting /\ \A q \in Procs : q # p => pc'[q] = pc[q]
    BY Moves DEF ServeEnds, Resting
  <2> QED
    BY <2>1, <2>2 DEF LockHeld, Guarded, Resting
<1> QED
  BY <1>3, <1>4

\* A backup begins.
LEMMA BackupBeginsTyped ==
  ASSUME StoreTyped, Prepared, LockHeld, NEW p \in Procs, BackupBegins(p)
  PROVE  StoreTyped' /\ LockHeld'
<1>1. pc' \in [Procs -> Labels] /\ step' \in [Procs -> Nat \ {0}]
  BY Moves, GoesOn, LabelsByName DEF StoreTyped, BackupBegins, Enter
<1>2. IsDirectory(file')
  BY DEF StoreTyped, BackupBegins
<1>3. StoreTyped'
  <2>1. overlapped' \in BOOLEAN
    BY EntersTyped DEF StoreTyped, BackupBegins
  <2>2. option' \in [Procs -> BOOLEAN]
    BY DEF StoreTyped, BackupBegins
  <2> QED
    BY <1>1, <1>2, <2>1, <2>2 DEF StoreTyped, BackupBegins, History
<1>4. LockHeld'
  BY Moves, GoesOn DEF LockHeld, Guarded, BackupBegins, Enter, Unlocked, Resting
<1> QED
  BY <1>3, <1>4

\* A part is copied into the partial backup.
LEMMA BackupCopiesTyped ==
  ASSUME StoreTyped, Prepared, LockHeld, NEW p \in Procs, BackupCopies(p)
  PROVE  StoreTyped' /\ LockHeld'
<1>1. pc' \in [Procs -> Labels] /\ step' \in [Procs -> Nat \ {0}]
  BY Moves, GoesOn, LabelsByName DEF StoreTyped, BackupCopies, Enter
<1>2. IsDirectory(file')
  BY DEF StoreTyped, BackupCopies
<1>3. StoreTyped'
  <2>1. DOMAIN staging' = Procs /\ \A q \in Procs : IsDirectory(staging'[q])
    <3> DEFINE f == PartsOut(p)[step[p]]
    <3>1. step[p] \in 1..Len(PartsOut(p))
      <4>1. step[p] \in Nat \ {0} /\ step[p] <= Len(PartsOut(p))
        BY DEF StoreTyped, BackupCopies
      <4>2. Len(PartsOut(p)) \in Nat
        BY DEF PartsOut, StateCopied, State, Secrets
      <4> QED
        BY <4>1, <4>2
    <3>2. f \in Files
      BY <3>1, PartsOutAreFiles
    <3>3. \A copy \in Copies(f) : copy \in ContentsOf(f) \cup {Missing}
      BY <3>2, WhatIsRead, ContentsByName DEF StoreTyped, IsDirectory, Copies
    <3>4. \/ staging' = staging
          \/ \E copy \in Copies(f) : staging' = [staging EXCEPT ![p] = [@ EXCEPT ![f] = copy]]
      BY DEF BackupCopies
    <3> HIDE DEF f
    <3>5. \A copy \in Copies(f) : IsDirectory([staging[p] EXCEPT ![f] = copy])
      BY <3>2, <3>3, DirectoryUpdated DEF StoreTyped
    <3> QED
      BY <3>4, <3>5 DEF StoreTyped
  <2> QED
    BY <1>1, <1>2, <2>1 DEF StoreTyped, BackupCopies, History
<1>4. LockHeld'
  <2>1. Goto(p, "failed") \/ NextStep(p)
    BY DEF BackupCopies
  <2>2. lock' = lock
    BY DEF BackupCopies
  <2> QED
    BY <2>1, <2>2, Moves, GoesOn DEF LockHeld, Guarded, Resting
<1> QED
  BY <1>3, <1>4

\* The fingerprints are those of a directory.
LEMMA BackupReadsSecretsTyped ==
  ASSUME StoreTyped, Prepared, LockHeld, NEW p \in Procs, BackupReadsSecrets(p)
  PROVE  StoreTyped' /\ LockHeld'
<1>1. pc' \in [Procs -> Labels] /\ step' \in [Procs -> Nat \ {0}]
  BY Moves, GoesOn, LabelsByName DEF StoreTyped, BackupReadsSecrets, Enter
<1>2. IsDirectory(file')
  BY DEF StoreTyped, BackupReadsSecrets
<1>3. StoreTyped'
  <2>1. PrintsOf(file) \in Prints
    BY PrintsTyped DEF StoreTyped
  <2>2. memory' \in [Procs -> Prints]
    BY <2>1 DEF StoreTyped, BackupReadsSecrets
  <2> QED
    BY <1>1, <1>2, <2>2 DEF StoreTyped, BackupReadsSecrets, History
<1>4. LockHeld'
  BY Moves, GoesOn DEF LockHeld, Guarded, BackupReadsSecrets, Enter, Unlocked, Resting
<1> QED
  BY <1>3, <1>4

\* A partial backup is published.
LEMMA BackupPublishesTyped ==
  ASSUME StoreTyped, Prepared, LockHeld, NEW p \in Procs, BackupPublishes(p)
  PROVE  StoreTyped' /\ LockHeld'
<1>1. pc' \in [Procs -> Labels] /\ step' \in [Procs -> Nat \ {0}]
  BY Moves, GoesOn, LabelsByName DEF StoreTyped, BackupPublishes, Enter
<1>2. IsDirectory(file')
  BY DEF StoreTyped, BackupPublishes
<1>3. StoreTyped'
  <2>1. backup' # Missing => /\ IsDirectory(backup'.files)
                             /\ backup'.containsSecrets \in BOOLEAN
                             /\ backup'.prints \in Prints
    <3>1. CASE backup' = backup
      BY <3>1 DEF StoreTyped
    <3>2. CASE backup' = [files |-> staging[p], containsSecrets |-> option[p], prints |-> memory[p]]
      <4>1. backup'.files = staging[p] /\ backup'.prints = memory[p]
        BY <3>2
      <4>2. backup'.containsSecrets = option[p]
        BY <3>2
      <4>3. IsDirectory(staging[p]) /\ memory[p] \in Prints
        BY DEF StoreTyped
      <4>4. option[p] \in BOOLEAN
        BY DEF StoreTyped
      <4>5. backup'.containsSecrets \in BOOLEAN
        BY <4>2, <4>4
      <4> QED
        BY <4>1, <4>3, <4>5
    <3> QED
      BY <3>1, <3>2 DEF BackupPublishes
  <2> QED
    BY <1>1, <1>2, <2>1 DEF StoreTyped, BackupPublishes, History
<1>4. LockHeld'
  BY Moves, GoesOn DEF LockHeld, Guarded, BackupPublishes, Enter, Unlocked, Resting
<1> QED
  BY <1>3, <1>4

\* A restore begins.
LEMMA RestoreBeginsTyped ==
  ASSUME StoreTyped, Prepared, LockHeld, NEW p \in Procs, RestoreBegins(p)
  PROVE  StoreTyped' /\ LockHeld'
<1>1. pc' \in [Procs -> Labels] /\ step' \in [Procs -> Nat \ {0}]
  BY Moves, GoesOn, LabelsByName DEF StoreTyped, RestoreBegins, Enter
<1>2. IsDirectory(file')
  BY DEF StoreTyped, RestoreBegins
<1>3. StoreTyped'
  <2>1. overlapped' \in BOOLEAN
    BY EntersTyped DEF StoreTyped, RestoreBegins
  <2>2. option' \in [Procs -> BOOLEAN]
    BY DEF StoreTyped, RestoreBegins
  <2> QED
    BY <1>1, <1>2, <2>1, <2>2 DEF StoreTyped, RestoreBegins, History
<1>4. LockHeld'
  BY Moves, GoesOn DEF LockHeld, Guarded, RestoreBegins, Enter, Unlocked, Resting
<1> QED
  BY <1>3, <1>4

\* A file is moved aside.
LEMMA RestoreMovesTyped ==
  ASSUME StoreTyped, Prepared, LockHeld, NEW p \in Procs, RestoreMoves(p)
  PROVE  StoreTyped' /\ LockHeld'
<1>1. pc' \in [Procs -> Labels] /\ step' \in [Procs -> Nat \ {0}]
  BY Moves, GoesOn, LabelsByName DEF StoreTyped, RestoreMoves, Enter
<1>2. IsDirectory(file')
  <2>1. PartsIn[step[p]] \in Files
    BY PartsAreFiles DEF Prepared, PreparedTo, Restoring, RestoreMoves
  <2>2. file' = file \/ file' = [file EXCEPT ![PartsIn[step[p]]] = Missing]
    BY DEF RestoreMoves
  <2>3. IsDirectory([file EXCEPT ![PartsIn[step[p]]] = Missing])
    BY <2>1 DEF StoreTyped, IsDirectory
  <2> QED
    BY <2>2, <2>3 DEF StoreTyped
<1>3. StoreTyped'
  BY <1>1, <1>2 DEF StoreTyped, RestoreMoves, History
<1>4. LockHeld'
  <2>1. lock' = lock
    BY DEF RestoreMoves
  <2>2. \A q \in Procs : pc'[q] = pc[q] \/ pc'[q] \notin Guarded
    <3>1. (\E label \in {"failed", "copy in"} : Goto(p, label)) \/ NextStep(p)
      BY DEF RestoreMoves
    <3> QED
      BY <3>1, Moves, GoesOn DEF Guarded
  <2> QED
    BY <2>1, <2>2 DEF LockHeld
<1> QED
  BY <1>3, <1>4

\* A part is copied from the backup.
LEMMA RestoreCopiesTyped ==
  ASSUME StoreTyped, Prepared, LockHeld, NEW p \in Procs, RestoreCopies(p)
  PROVE  StoreTyped' /\ LockHeld'
<1>1. pc' \in [Procs -> Labels] /\ step' \in [Procs -> Nat \ {0}]
  BY Moves, GoesOn, LabelsByName DEF StoreTyped, RestoreCopies, Enter
<1>2. IsDirectory(file')
  <2>1. backup # Missing /\ PartsIn[step[p]] \in Files
    BY PartsAreFiles DEF Prepared, PreparedTo, Restoring, RestoreCopies
  <2>2. backup.files[PartsIn[step[p]]] \in ContentsOf(PartsIn[step[p]]) \cup {Missing}
    BY <2>1 DEF StoreTyped, IsDirectory
  <2>3. file' = [file EXCEPT ![PartsIn[step[p]]] = backup.files[PartsIn[step[p]]]]
    BY DEF RestoreCopies
  <2> QED
    BY <2>1, <2>2, <2>3, DirectoryUpdated DEF StoreTyped
<1>3. StoreTyped'
  BY <1>1, <1>2 DEF StoreTyped, RestoreCopies, History
<1>4. LockHeld'
  BY Moves, GoesOn DEF LockHeld, Guarded, RestoreCopies, Enter, Unlocked, Resting
<1> QED
  BY <1>3, <1>4

\* A restore ends.
LEMMA RestoreVerifiesTyped ==
  ASSUME StoreTyped, Prepared, LockHeld, NEW p \in Procs, RestoreVerifies(p)
  PROVE  StoreTyped' /\ LockHeld'
<1>1. pc' \in [Procs -> Labels] /\ step' \in [Procs -> Nat \ {0}]
  BY Moves, GoesOn, LabelsByName DEF StoreTyped, RestoreVerifies, Enter
<1>2. IsDirectory(file')
  BY EffectOfClosing DEF StoreTyped, RestoreVerifies
<1>3. StoreTyped'
  BY <1>1, <1>2 DEF StoreTyped, RestoreVerifies, History
<1>4. LockHeld'
  BY Moves, GoesOn DEF LockHeld, Guarded, RestoreVerifies, Enter, Unlocked, Resting
<1> QED
  BY <1>3, <1>4

\* A process dies.
LEMMA DiesTyped ==
  ASSUME StoreTyped, Prepared, LockHeld, NEW p \in Procs, Dies(p)
  PROVE  StoreTyped' /\ LockHeld'
<1>1. pc' \in [Procs -> Labels] /\ step' \in [Procs -> Nat \ {0}]
  BY Moves, GoesOn, LabelsByName DEF StoreTyped, Dies, Enter
<1>2. IsDirectory(file')
  BY DEF StoreTyped, Dies
<1>3. StoreTyped'
  BY <1>1, <1>2 DEF StoreTyped, Dies, History
<1>4. LockHeld'
  BY Moves, GoesOn DEF LockHeld, Guarded, Dies, Enter, Unlocked, Resting
<1> QED
  BY <1>3, <1>4

\* Files are lost.
LEMMA DirectoryLostTyped ==
  ASSUME StoreTyped, Prepared, LockHeld, DirectoryLost
  PROVE  StoreTyped' /\ LockHeld'
<1>1. pc' \in [Procs -> Labels] /\ step' \in [Procs -> Nat \ {0}]
  BY Moves, GoesOn, LabelsByName DEF StoreTyped, DirectoryLost, Enter
<1>2. IsDirectory(file')
  <2>1. PICK kept : file' = [f \in Files |-> IF f \in kept THEN file[f] ELSE Missing]
    BY DEF DirectoryLost
  <2>2. IsDirectory([f \in Files |-> IF f \in kept THEN file[f] ELSE Missing])
    BY DEF StoreTyped, IsDirectory
  <2> QED
    BY <2>1, <2>2
<1>3. StoreTyped'
  BY <1>1, <1>2 DEF StoreTyped, DirectoryLost, History
<1>4. LockHeld'
  BY Moves, GoesOn DEF LockHeld, Guarded, DirectoryLost, Enter, Unlocked, Resting
<1> QED
  BY <1>3, <1>4

\* Another viewing key.
LEMMA ViewingKeyReplacedTyped ==
  ASSUME StoreTyped, Prepared, LockHeld, ViewingKeyReplaced
  PROVE  StoreTyped' /\ LockHeld'
<1>1. pc' \in [Procs -> Labels] /\ step' \in [Procs -> Nat \ {0}]
  BY Moves, GoesOn, LabelsByName DEF StoreTyped, ViewingKeyReplaced, Enter
<1>2. IsDirectory(file')
  <2>1. PICK v \in Keys : file' = [file EXCEPT !.viewing = v]
    BY DEF ViewingKeyReplaced
  <2> QED
    BY <2>1, NamesOfFiles, ContentsByName, DirectoryUpdated DEF StoreTyped
<1>3. StoreTyped'
  BY <1>1, <1>2 DEF StoreTyped, ViewingKeyReplaced, History
<1>4. LockHeld'
  BY Moves, GoesOn DEF LockHeld, Guarded, ViewingKeyReplaced, Enter, Unlocked, Resting
<1> QED
  BY <1>3, <1>4

\* A step of process p.
Step(p) == InitStep(p) \/ ServeStep(p) \/ BackupStep(p) \/ RestoreStep(p) \/ Dies(p)

\* A process of its own, untouched.
Untouched(q) ==
  /\ pc'[q] = pc[q] /\ step'[q] = step[q] /\ memory'[q] = memory[q]
  /\ option'[q] = option[q] /\ staging'[q] = staging[q]

\* What is not taken back: the history, a published backup, the configuration.
Keeps ==
  /\ overlapped => overlapped'
  /\ torn => torn'
  /\ stray => stray'
  /\ backup # Missing => backup' = backup
  /\ file.config # Missing => file'.config = file.config

(***************************************************************************)
(* What a step of one process leaves alone                                 *)
(***************************************************************************)
\* A step of one process changes what belongs to that process.
LEMMA OneProcessMoves ==
  ASSUME StoreTyped, NEW p \in Procs, Step(p), NEW q \in Procs, q # p
  PROVE  Untouched(q)
<1>1. CASE InitBegins(p)
  BY <1>1, Moves, GoesOn DEF StoreTyped, InitBegins, Enter, Untouched
<1>2. CASE InitWrites(p)
  BY <1>2, Moves, GoesOn DEF StoreTyped, InitWrites, Enter, Untouched
<1>3. CASE ServeBegins(p)
  BY <1>3, Moves, GoesOn DEF StoreTyped, ServeBegins, Enter, Untouched
<1>4. CASE ServeLocks(p)
  BY <1>4, Moves, GoesOn DEF StoreTyped, ServeLocks, Enter, Untouched
<1>5. CASE ServeLoadsWallet(p)
  BY <1>5, Moves, GoesOn DEF StoreTyped, ServeLoadsWallet, Enter, Untouched
<1>6. CASE ServeWritesWallet(p)
  BY <1>6, Moves, GoesOn DEF StoreTyped, ServeWritesWallet, Enter, Untouched
<1>7. CASE ServeOpensLedger(p)
  <2>1. Goto(p, "serving") \/ Goto(p, "unlock")
    BY <1>7 DEF ServeOpensLedger
  <2>2. memory' = memory /\ option' = option /\ staging' = staging
    BY <1>7 DEF ServeOpensLedger
  <2> QED
    BY <2>1, <2>2, Moves DEF Untouched
<1>8. CASE ServeWrites(p)
  BY <1>8, Moves, GoesOn DEF StoreTyped, ServeWrites, Enter, Untouched
<1>9. CASE ServeEnds(p)
  BY <1>9, Moves, GoesOn DEF StoreTyped, ServeEnds, Enter, Untouched
<1>10. CASE BackupBegins(p)
  <2>1. (\E label : Goto(p, label)) \/ NextStep(p)
    BY <1>10 DEF BackupBegins, Enter
  <2>2. pc'[q] = pc[q] /\ step'[q] = step[q]
    BY <2>1, Moves, GoesOn
  <2>3. memory'[q] = memory[q]
    BY <1>10 DEF StoreTyped, BackupBegins
  <2>4. option'[q] = option[q]
    BY <1>10 DEF StoreTyped, BackupBegins
  <2>5. staging'[q] = staging[q]
    BY <1>10 DEF StoreTyped, BackupBegins
  <2> QED
    BY <2>2, <2>3, <2>4, <2>5 DEF Untouched
<1>11. CASE BackupCopies(p)
  <2>1. (\E label : Goto(p, label)) \/ NextStep(p)
    BY <1>11 DEF BackupCopies, Enter
  <2>2. pc'[q] = pc[q] /\ step'[q] = step[q]
    BY <2>1, Moves, GoesOn
  <2>3. memory'[q] = memory[q]
    BY <1>11 DEF StoreTyped, BackupCopies
  <2>4. option'[q] = option[q]
    BY <1>11 DEF StoreTyped, BackupCopies
  <2>5. staging'[q] = staging[q]
    BY <1>11 DEF StoreTyped, BackupCopies
  <2> QED
    BY <2>2, <2>3, <2>4, <2>5 DEF Untouched
<1>12. CASE BackupReadsSecrets(p)
  <2>1. (\E label : Goto(p, label)) \/ NextStep(p)
    BY <1>12 DEF BackupReadsSecrets, Enter
  <2>2. pc'[q] = pc[q] /\ step'[q] = step[q]
    BY <2>1, Moves, GoesOn
  <2>3. memory'[q] = memory[q]
    BY <1>12 DEF StoreTyped, BackupReadsSecrets
  <2>4. option'[q] = option[q]
    BY <1>12 DEF StoreTyped, BackupReadsSecrets
  <2>5. staging'[q] = staging[q]
    BY <1>12 DEF StoreTyped, BackupReadsSecrets
  <2> QED
    BY <2>2, <2>3, <2>4, <2>5 DEF Untouched
<1>13. CASE BackupPublishes(p)
  BY <1>13, Moves, GoesOn DEF StoreTyped, BackupPublishes, Enter, Untouched
<1>14. CASE RestoreBegins(p)
  BY <1>14, Moves, GoesOn DEF StoreTyped, RestoreBegins, Enter, Untouched
<1>15. CASE RestoreMoves(p)
  <2>1. (\E label : Goto(p, label)) \/ NextStep(p)
    BY <1>15 DEF RestoreMoves, Enter
  <2>2. pc'[q] = pc[q] /\ step'[q] = step[q]
    BY <2>1, Moves, GoesOn
  <2>3. memory'[q] = memory[q]
    BY <1>15 DEF StoreTyped, RestoreMoves
  <2>4. option'[q] = option[q]
    BY <1>15 DEF StoreTyped, RestoreMoves
  <2>5. staging'[q] = staging[q]
    BY <1>15 DEF StoreTyped, RestoreMoves
  <2> QED
    BY <2>2, <2>3, <2>4, <2>5 DEF Untouched
<1>16. CASE RestoreCopies(p)
  <2>1. (\E label : Goto(p, label)) \/ NextStep(p)
    BY <1>16 DEF RestoreCopies, Enter
  <2>2. pc'[q] = pc[q] /\ step'[q] = step[q]
    BY <2>1, Moves, GoesOn
  <2>3. memory'[q] = memory[q]
    BY <1>16 DEF StoreTyped, RestoreCopies
  <2>4. option'[q] = option[q]
    BY <1>16 DEF StoreTyped, RestoreCopies
  <2>5. staging'[q] = staging[q]
    BY <1>16 DEF StoreTyped, RestoreCopies
  <2> QED
    BY <2>2, <2>3, <2>4, <2>5 DEF Untouched
<1>17. CASE RestoreVerifies(p)
  BY <1>17, Moves, GoesOn DEF StoreTyped, RestoreVerifies, Enter, Untouched
<1>18. CASE Dies(p)
  <2>1. (\E label : Goto(p, label)) \/ NextStep(p)
    BY <1>18 DEF Dies, Enter
  <2>2. pc'[q] = pc[q] /\ step'[q] = step[q]
    BY <2>1, Moves, GoesOn
  <2>3. memory'[q] = memory[q]
    BY <1>18 DEF StoreTyped, Dies
  <2>4. option'[q] = option[q]
    BY <1>18 DEF StoreTyped, Dies
  <2>5. staging'[q] = staging[q]
    BY <1>18 DEF StoreTyped, Dies
  <2> QED
    BY <2>2, <2>3, <2>4, <2>5 DEF Untouched
<1> QED
  BY <1>1, <1>2, <1>3, <1>4, <1>5, <1>6, <1>7, <1>8, <1>9,
     <1>10, <1>11, <1>12, <1>13, <1>14, <1>15, <1>16, <1>17, <1>18
  DEF Step, InitStep, ServeStep, BackupStep, RestoreStep

\* Nothing of the history, of a backup or of a configuration is taken back.
LEMMA NothingIsTakenBack ==
  ASSUME StoreTyped, Prepared, NEW p \in Procs, Step(p)
  PROVE  Keeps
<1>0. "config" \in Files \ Ledger
  BY NamesOfFiles DEF Ledger
<1>1. CASE InitBegins(p)
  BY <1>1, NamesOfFiles DEF StoreTyped, IsDirectory, InitBegins, Enter, History, Keeps
<1>2. CASE InitWrites(p)
  BY <1>2, NamesOfFiles DEF StoreTyped, IsDirectory, InitWrites, Enter, History, Keeps
<1>3. CASE ServeBegins(p)
  BY <1>3, NamesOfFiles DEF StoreTyped, IsDirectory, ServeBegins, Enter, History, Keeps
<1>4. CASE ServeLocks(p)
  BY <1>4, NamesOfFiles DEF StoreTyped, IsDirectory, ServeLocks, Enter, History, Keeps
<1>5. CASE ServeLoadsWallet(p)
  BY <1>5, NamesOfFiles DEF StoreTyped, IsDirectory, ServeLoadsWallet, Enter, History, Keeps
<1>6. CASE ServeWritesWallet(p)
  BY <1>6, NamesOfFiles DEF StoreTyped, IsDirectory, ServeWritesWallet, Enter, History, Keeps
<1>7. CASE ServeOpensLedger(p)
  <2>1. file'.config = file.config
    BY <1>7, <1>0, EffectOfOpening DEF StoreTyped
  <2> QED
    BY <1>7, <2>1 DEF ServeOpensLedger, Keeps
<1>8. CASE ServeWrites(p)
  <2>1. file'.config = file.config
    BY <1>8, <1>0, EffectOfWriting
  <2> QED
    BY <1>8, <2>1 DEF ServeWrites, History, Keeps
<1>9. CASE ServeEnds(p)
  <2>1. file'.config = file.config
    BY <1>9, <1>0, EffectOfClosing DEF StoreTyped, ServeEnds
  <2> QED
    BY <1>9, <2>1 DEF ServeEnds, History, Keeps
<1>10. CASE BackupBegins(p)
  BY <1>10, NamesOfFiles DEF StoreTyped, IsDirectory, BackupBegins, Enter, History, Keeps
<1>11. CASE BackupCopies(p)
  BY <1>11, NamesOfFiles DEF StoreTyped, IsDirectory, BackupCopies, Enter, History, Keeps
<1>12. CASE BackupReadsSecrets(p)
  BY <1>12, NamesOfFiles DEF StoreTyped, IsDirectory, BackupReadsSecrets, Enter, History, Keeps
<1>13. CASE BackupPublishes(p)
  BY <1>13, NamesOfFiles DEF StoreTyped, IsDirectory, BackupPublishes, Enter, History, Keeps
<1>14. CASE RestoreBegins(p)
  BY <1>14, NamesOfFiles DEF StoreTyped, IsDirectory, RestoreBegins, Enter, History, Keeps
<1>15. CASE RestoreMoves(p)
  <2>1. PartsIn[step[p]] \in Files \ {"config", "log"}
    BY <1>15, PartsAreFiles DEF Prepared, PreparedTo, Restoring, RestoreMoves
  <2>2. file'.config = file.config
    BY <1>15, <2>1, NamesOfFiles DEF RestoreMoves, StoreTyped, IsDirectory
  <2> QED
    BY <1>15, <2>2 DEF RestoreMoves, History, Keeps
<1>16. CASE RestoreCopies(p)
  <2>1. PartsIn[step[p]] \in Files \ {"config", "log"}
    BY <1>16, PartsAreFiles DEF Prepared, PreparedTo, Restoring, RestoreCopies
  <2>2. file'.config = file.config
    BY <1>16, <2>1, NamesOfFiles DEF RestoreCopies, StoreTyped, IsDirectory
  <2> QED
    BY <1>16, <2>2 DEF RestoreCopies, History, Keeps
<1>17. CASE RestoreVerifies(p)
  <2>1. file'.config = file.config
    BY <1>17, <1>0, EffectOfClosing DEF StoreTyped, RestoreVerifies
  <2> QED
    BY <1>17, <2>1 DEF RestoreVerifies, History, Keeps
<1>18. CASE Dies(p)
  BY <1>18, NamesOfFiles DEF StoreTyped, IsDirectory, Dies, Enter, History, Keeps
<1> QED
  BY <1>1, <1>2, <1>3, <1>4, <1>5, <1>6, <1>7, <1>8, <1>9,
     <1>10, <1>11, <1>12, <1>13, <1>14, <1>15, <1>16, <1>17, <1>18
  DEF Step, InitStep, ServeStep, BackupStep, RestoreStep

\* The parts of a restore are fixed once there is a backup.
LEMMA PartsStay == ASSUME Keeps, backup # Missing PROVE PartsIn' = PartsIn /\ backup' = backup
BY DEF Keeps, PartsIn

\* Who does not move stays prepared.
LEMMA UntouchedStayPrepared ==
  ASSUME NEW q \in Procs, PreparedTo(q), Untouched(q), Keeps
  PROVE  PreparedTo(q)'
<1>1. CASE backup = Missing
  BY <1>1 DEF PreparedTo, Untouched, Restoring
<1>2. CASE backup # Missing
  BY <1>2, PartsStay DEF PreparedTo, Untouched
<1> QED
  BY <1>1, <1>2

\* Who moves is prepared for what comes next.
LEMMA MoverStaysPrepared ==
  ASSUME StoreTyped, Prepared, NEW p \in Procs, Step(p)
  PROVE  PreparedTo(p)'
<1>0. PreparedTo(p) /\ Keeps
  BY NothingIsTakenBack DEF Prepared
<1>1. CASE InitBegins(p)
  <2>1. pc'[p] \in {"init", "failed"} /\ step'[p] = 1
    BY <1>1, Moves, EntersTyped DEF InitBegins
  <2>2. pc'[p] \notin Restoring \cup {"verify"} /\ pc'[p] \notin Guarded \cup {"lock"}
    BY <2>1 DEF Restoring, Guarded
  <2>3. step'[p] \in 1..4
    BY <2>1
  <2> QED
    BY <2>2, <2>3 DEF PreparedTo
<1>2. CASE InitWrites(p)
  <2>1. pc[p] = "init" /\ step[p] \in 1..4
    BY <1>0, <1>2 DEF InitWrites, PreparedTo
  <2>2. (\E label \in {"failed", "done"} : Goto(p, label)) \/ (step[p] # 4 /\ NextStep(p))
    BY <1>2 DEF InitWrites, InitFiles
  <2>3. pc'[p] \in {"failed", "done"} \/ (pc'[p] = "init" /\ step'[p] = step[p] + 1 /\ step[p] # 4)
    BY <2>1, <2>2, Moves, GoesOn
  <2>4. pc'[p] = "init" => step'[p] \in 1..4
    BY <2>1, <2>3
  <2>5. pc'[p] \in {"failed", "done", "init"}
    BY <2>3
  <2> QED
    BY <2>4, <2>5 DEF PreparedTo, Restoring, Guarded
<1>3. CASE ServeBegins(p)
  <2>1. pc'[p] \in {"lock", "failed"}
    BY <1>3, Moves DEF ServeBegins
  <2>2. pc'[p] = "lock" => memory'[p] = PrintsOf(file) /\ file.viewing # Missing /\ file.dbKey # Missing
    BY <1>3, Moves, NamesOfFiles DEF ServeBegins, StoreTyped
  <2>3. PrintsOf(file).viewing = file.viewing /\ PrintsOf(file).dbKey = file.dbKey
    BY PrintsTyped DEF StoreTyped
  <2> QED
    BY <2>1, <2>2, <2>3 DEF PreparedTo, Restoring, Guarded
<1>4. CASE ServeLocks(p)
  <2>1. pc[p] \in Guarded \cup {"lock"} /\ pc'[p] \in {"load wallet", "failed"} /\ memory' = memory
    BY <1>4, Moves, EntersTyped DEF ServeLocks, Guarded
  <2> QED
    BY <1>0, <2>1 DEF PreparedTo, Restoring, Guarded
<1>5. CASE ServeLoadsWallet(p)
  <2>1. pc[p] \in Guarded \cup {"lock"} /\ pc'[p] \in {"open ledger", "unlock", "write wallet"} /\ memory' = memory
    BY <1>5, Moves, EntersTyped DEF ServeLoadsWallet, Guarded
  <2> QED
    BY <1>0, <2>1 DEF PreparedTo, Restoring, Guarded
<1>6. CASE ServeWritesWallet(p)
  <2>1. pc[p] \in Guarded \cup {"lock"} /\ pc'[p] \in {"unlock", "open ledger"} /\ memory' = memory
    BY <1>6, Moves, EntersTyped DEF ServeWritesWallet, Guarded
  <2> QED
    BY <1>0, <2>1 DEF PreparedTo, Restoring, Guarded
<1>7. CASE ServeOpensLedger(p)
  <2>1. pc[p] \in Guarded \cup {"lock"} /\ pc'[p] \in {"serving", "unlock"} /\ memory' = memory
    BY <1>7, Moves, EntersTyped DEF ServeOpensLedger, Guarded
  <2> QED
    BY <1>0, <2>1 DEF PreparedTo, Restoring, Guarded
<1>8. CASE ServeWrites(p)
  <2>1. pc[p] \in Guarded \cup {"lock"} /\ pc'[p] \in {"serving"} /\ memory' = memory
    BY <1>8, Moves, EntersTyped DEF ServeWrites, Guarded
  <2> QED
    BY <1>0, <2>1 DEF PreparedTo, Restoring, Guarded
<1>9. CASE ServeEnds(p)
  <2>1. pc'[p] \in {"served", "failed"}
    BY <1>9, Moves, GoesOn, EntersTyped DEF ServeEnds
  <2> QED
    BY <2>1 DEF PreparedTo, Restoring, Guarded
<1>10. CASE BackupBegins(p)
  <2>1. pc'[p] \in {"copy out", "failed"}
    BY <1>10, Moves, GoesOn, EntersTyped DEF BackupBegins
  <2> QED
    BY <2>1 DEF PreparedTo, Restoring, Guarded
<1>11. CASE BackupCopies(p)
  <2>1. pc'[p] \in {"copy out", "copy secrets", "failed"}
    BY <1>11, Moves, GoesOn, EntersTyped DEF BackupCopies
  <2> QED
    BY <2>1 DEF PreparedTo, Restoring, Guarded
<1>12. CASE BackupReadsSecrets(p)
  <2>1. pc'[p] \in {"copy secrets", "failed"}
    BY <1>12, Moves, GoesOn, EntersTyped DEF BackupReadsSecrets
  <2> QED
    BY <2>1 DEF PreparedTo, Restoring, Guarded
<1>13. CASE BackupPublishes(p)
  <2>1. pc'[p] \in {"done", "failed"}
    BY <1>13, Moves, GoesOn, EntersTyped DEF BackupPublishes
  <2> QED
    BY <2>1 DEF PreparedTo, Restoring, Guarded
<1>14. CASE RestoreBegins(p)
  <2>1. pc'[p] = "failed" \/ (pc'[p] = "move" /\ backup # Missing /\ step'[p] = 1)
    BY <1>14, Moves, EntersTyped DEF RestoreBegins
  <2>2. backup # Missing => 1 \in 1..Len(PartsIn) /\ PartsIn' = PartsIn /\ backup' = backup
    BY <1>0, PartsAreFiles, PartsStay
  <2> QED
    BY <2>1, <2>2 DEF PreparedTo, Restoring, Guarded
<1>15. CASE RestoreMoves(p)
  <2>1. pc[p] = "move" /\ backup # Missing /\ step[p] \in 1..Len(PartsIn)
    BY <1>0, <1>15 DEF PreparedTo, Restoring, RestoreMoves
  <2>2. /\ Len(PartsIn) \in {3, 7}
        /\ PartsIn' = PartsIn /\ backup' = backup
    <3>1. Len(PartsIn) \in {3, 7}
      BY <2>1, PartsAreFiles
    <3> QED
      BY <1>0, <2>1, <3>1, PartsStay
  <2>3. \/ \E label \in {"failed", "copy in"} : Goto(p, label)
        \/ step[p] # Len(PartsIn) /\ NextStep(p)
    BY <1>15 DEF RestoreMoves
  <2>4. \/ pc'[p] \in {"failed", "copy in"} /\ step'[p] = 1
        \/ pc'[p] = "move" /\ step'[p] = step[p] + 1 /\ step[p] # Len(PartsIn)
    BY <2>1, <2>3, Moves, GoesOn
  <2>5. step'[p] \in 1..Len(PartsIn)
    <3>1. \A n \in {3, 7} : \A k \in 1..n : 1 \in 1..n /\ (k # n => k + 1 \in 1..n)
      OBVIOUS
    <3> QED
      BY <2>1, <2>2, <2>4, <3>1
  <2> QED
    BY <2>1, <2>2, <2>4, <2>5 DEF PreparedTo, Restoring, Guarded
<1>16. CASE RestoreCopies(p)
  <2>1. pc[p] = "copy in" /\ backup # Missing /\ step[p] \in 1..Len(PartsIn)
    BY <1>0, <1>16 DEF PreparedTo, Restoring, RestoreCopies
  <2>2. /\ Len(PartsIn) \in {3, 7}
        /\ PartsIn' = PartsIn /\ backup' = backup
    <3>1. Len(PartsIn) \in {3, 7}
      BY <2>1, PartsAreFiles
    <3> QED
      BY <1>0, <2>1, <3>1, PartsStay
  <2>3. \/ \E label \in {"failed", "verify"} : Goto(p, label)
        \/ step[p] # Len(PartsIn) /\ NextStep(p)
    BY <1>16 DEF RestoreCopies
  <2>4. \/ pc'[p] \in {"failed", "verify"} /\ step'[p] = 1
        \/ pc'[p] = "copy in" /\ step'[p] = step[p] + 1 /\ step[p] # Len(PartsIn)
    BY <2>1, <2>3, Moves, GoesOn
  <2>5. step'[p] \in 1..Len(PartsIn)
    <3>1. \A n \in {3, 7} : \A k \in 1..n : 1 \in 1..n /\ (k # n => k + 1 \in 1..n)
      OBVIOUS
    <3> QED
      BY <2>1, <2>2, <2>4, <3>1
  <2> QED
    BY <2>1, <2>2, <2>4, <2>5 DEF PreparedTo, Restoring, Guarded
<1>17. CASE RestoreVerifies(p)
  <2>1. pc'[p] \in {"done", "failed"}
    BY <1>17, Moves, GoesOn, EntersTyped DEF RestoreVerifies
  <2> QED
    BY <2>1 DEF PreparedTo, Restoring, Guarded
<1>18. CASE Dies(p)
  <2>1. pc'[p] \in {"dead"}
    BY <1>18, Moves, GoesOn, EntersTyped DEF Dies
  <2> QED
    BY <2>1 DEF PreparedTo, Restoring, Guarded
<1> QED
  BY <1>1, <1>2, <1>3, <1>4, <1>5, <1>6, <1>7, <1>8, <1>9,
     <1>10, <1>11, <1>12, <1>13, <1>14, <1>15, <1>16, <1>17, <1>18
  DEF Step, InitStep, ServeStep, BackupStep, RestoreStep

\* Every state of the machinery.
Sound == StoreTyped /\ Prepared /\ LockHeld

\* Types and preparations are kept by every step of a process.
LEMMA StepKeepsSound == ASSUME Sound, NEW p \in Procs, Step(p) PROVE Sound'
<1>1. StoreTyped /\ Prepared /\ LockHeld
  BY DEF Sound
<1>2. StoreTyped' /\ LockHeld'
  BY <1>1, InitBeginsTyped, InitWritesTyped, ServeBeginsTyped, ServeLocksTyped,
     ServeLoadsWalletTyped, ServeWritesWalletTyped, ServeOpensLedgerTyped, ServeWritesTyped,
     ServeEndsTyped, BackupBeginsTyped, BackupCopiesTyped, BackupReadsSecretsTyped,
     BackupPublishesTyped, RestoreBeginsTyped, RestoreMovesTyped, RestoreCopiesTyped,
     RestoreVerifiesTyped, DiesTyped
  DEF Step, InitStep, ServeStep, BackupStep, RestoreStep
<1>3. Prepared'
  <2>1. Keeps /\ PreparedTo(p)'
    BY <1>1, NothingIsTakenBack, MoverStaysPrepared
  <2>2. ASSUME NEW q \in Procs, q # p PROVE PreparedTo(q)'
    BY <1>1, <2>1, <2>2, OneProcessMoves, UntouchedStayPrepared DEF Prepared
  <2> QED
    BY <2>1, <2>2 DEF Prepared
<1> QED
  BY <1>2, <1>3 DEF Sound

\* An operator finds nobody at work and leaves everybody as they are.
LEMMA OperatorKeepsSound ==
  ASSUME Sound, DirectoryLost \/ ViewingKeyReplaced
  PROVE  Sound' /\ pc' = pc /\ memory' = memory /\ \A q \in Procs : pc[q] \in Resting
<1>1. StoreTyped /\ Prepared /\ LockHeld
  BY DEF Sound
<1>2. StoreTyped' /\ LockHeld'
  BY <1>1, DirectoryLostTyped, ViewingKeyReplacedTyped
<1>3. pc' = pc /\ step' = step /\ memory' = memory /\ backup' = backup
  BY DEF DirectoryLost, ViewingKeyReplaced, History
<1>4. \A q \in Procs : pc[q] \in Resting
  BY DEF DirectoryLost, ViewingKeyReplaced, Active
<1>5. Prepared'
  BY <1>1, <1>3 DEF Prepared, PreparedTo, PartsIn
<1> QED
  BY <1>2, <1>3, <1>4, <1>5 DEF Sound

\* A step of a process begins something, or stays with what the process does.
Stays(p) ==
  /\ pc'[p] \in Offline => pc[p] \in Offline
  /\ pc'[p] \in Resting \cup {"lock"} \/ pc[p] \notin Resting \cup {"lock"}

\* A process is alone when it takes up files, or works on those it had.
LEMMA BeginsOrStays ==
  ASSUME StoreTyped, NEW p \in Procs, Step(p)
  PROVE  Enter(p, pc'[p]) \/ Stays(p)
<1>1. CASE InitBegins(p)
  <2>1. Goto(p, "failed") \/ Enter(p, "init")
    BY <1>1 DEF InitBegins
  <2>2. CASE Goto(p, "failed")
    <3>1. pc'[p] = "failed"
      BY <2>2, Moves
    <3> QED
      BY <3>1 DEF Stays, Resting, Offline
  <2>3. CASE Enter(p, "init")
    BY <2>3, Moves, EntersTyped
  <2> QED
    BY <2>1, <2>2, <2>3
<1>2. CASE InitWrites(p)
  <2>1. pc[p] \in {"init"} /\ pc'[p] \in {"failed", "done", "init"}
    BY <1>2, Moves, GoesOn DEF InitWrites, Begins
  <2> QED
    BY <2>1 DEF Stays, Resting, Offline
<1>3. CASE ServeBegins(p)
  <2>1. pc[p] \in {"idle"} /\ pc'[p] \in {"lock", "failed"}
    BY <1>3, Moves, GoesOn DEF ServeBegins, Begins
  <2> QED
    BY <2>1 DEF Stays, Resting, Offline
<1>4. CASE ServeLocks(p)
  <2>1. Goto(p, "failed") \/ Enter(p, "load wallet")
    BY <1>4 DEF ServeLocks
  <2>2. CASE Goto(p, "failed")
    <3>1. pc'[p] = "failed"
      BY <2>2, Moves
    <3> QED
      BY <3>1 DEF Stays, Resting, Offline
  <2>3. CASE Enter(p, "load wallet")
    BY <2>3, Moves, EntersTyped
  <2> QED
    BY <2>1, <2>2, <2>3
<1>5. CASE ServeLoadsWallet(p)
  <2>1. pc[p] \in {"load wallet"} /\ pc'[p] \in {"open ledger", "unlock", "write wallet"}
    BY <1>5, Moves, GoesOn DEF ServeLoadsWallet, Begins
  <2> QED
    BY <2>1 DEF Stays, Resting, Offline
<1>6. CASE ServeWritesWallet(p)
  <2>1. pc[p] \in {"write wallet"} /\ pc'[p] \in {"unlock", "open ledger"}
    BY <1>6, Moves, GoesOn DEF ServeWritesWallet, Begins
  <2> QED
    BY <2>1 DEF Stays, Resting, Offline
<1>7. CASE ServeOpensLedger(p)
  <2>1. pc[p] \in {"open ledger"} /\ pc'[p] \in {"serving", "unlock"}
    BY <1>7, Moves, GoesOn DEF ServeOpensLedger, Begins
  <2> QED
    BY <2>1 DEF Stays, Resting, Offline
<1>8. CASE ServeWrites(p)
  <2>1. pc[p] \in {"serving"} /\ pc'[p] \in {"serving"}
    BY <1>8, Moves, GoesOn DEF ServeWrites, Begins
  <2> QED
    BY <2>1 DEF Stays, Resting, Offline
<1>9. CASE ServeEnds(p)
  <2>1. pc[p] \in {"serving", "unlock"} /\ pc'[p] \in {"served", "failed"}
    BY <1>9, Moves, GoesOn DEF ServeEnds, Begins
  <2> QED
    BY <2>1 DEF Stays, Resting, Offline
<1>10. CASE BackupBegins(p)
  <2>1. Goto(p, "failed") \/ Enter(p, "copy out")
    BY <1>10 DEF BackupBegins
  <2>2. CASE Goto(p, "failed")
    <3>1. pc'[p] = "failed"
      BY <2>2, Moves
    <3> QED
      BY <3>1 DEF Stays, Resting, Offline
  <2>3. CASE Enter(p, "copy out")
    BY <2>3, Moves, EntersTyped
  <2> QED
    BY <2>1, <2>2, <2>3
<1>11. CASE BackupCopies(p)
  <2>1. pc[p] \in {"copy out", "copy secrets"} /\ pc'[p] \in {"copy out", "copy secrets", "failed"}
    BY <1>11, Moves, GoesOn DEF BackupCopies, Begins
  <2> QED
    BY <2>1 DEF Stays, Resting, Offline
<1>12. CASE BackupReadsSecrets(p)
  <2>1. pc[p] \in {"copy out"} /\ pc'[p] \in {"copy secrets", "failed"}
    BY <1>12, Moves, GoesOn DEF BackupReadsSecrets, Begins
  <2> QED
    BY <2>1 DEF Stays, Resting, Offline
<1>13. CASE BackupPublishes(p)
  <2>1. pc[p] \in {"copy secrets"} /\ pc'[p] \in {"done", "failed"}
    BY <1>13, Moves, GoesOn DEF BackupPublishes, Begins
  <2> QED
    BY <2>1 DEF Stays, Resting, Offline
<1>14. CASE RestoreBegins(p)
  <2>1. Goto(p, "failed") \/ Enter(p, "move")
    BY <1>14 DEF RestoreBegins
  <2>2. CASE Goto(p, "failed")
    <3>1. pc'[p] = "failed"
      BY <2>2, Moves
    <3> QED
      BY <3>1 DEF Stays, Resting, Offline
  <2>3. CASE Enter(p, "move")
    BY <2>3, Moves, EntersTyped
  <2> QED
    BY <2>1, <2>2, <2>3
<1>15. CASE RestoreMoves(p)
  <2>1. pc[p] \in {"move"} /\ pc'[p] \in {"move", "copy in", "failed"}
    BY <1>15, Moves, GoesOn DEF RestoreMoves, Begins
  <2> QED
    BY <2>1 DEF Stays, Resting, Offline
<1>16. CASE RestoreCopies(p)
  <2>1. pc[p] \in {"copy in"} /\ pc'[p] \in {"copy in", "verify"}
    BY <1>16, Moves, GoesOn DEF RestoreCopies, Begins
  <2> QED
    BY <2>1 DEF Stays, Resting, Offline
<1>17. CASE RestoreVerifies(p)
  <2>1. pc[p] \in {"verify"} /\ pc'[p] \in {"done", "failed"}
    BY <1>17, Moves, GoesOn DEF RestoreVerifies, Begins
  <2> QED
    BY <2>1 DEF Stays, Resting, Offline
<1>18. CASE Dies(p)
  <2>1. pc'[p] \in {"dead"}
    BY <1>18, Moves, GoesOn DEF Dies, Begins
  <2> QED
    BY <2>1 DEF Stays, Resting, Offline
<1> QED
  BY <1>1, <1>2, <1>3, <1>4, <1>5, <1>6, <1>7, <1>8, <1>9,
     <1>10, <1>11, <1>12, <1>13, <1>14, <1>15, <1>16, <1>17, <1>18
  DEF Step, InitStep, ServeStep, BackupStep, RestoreStep

\* As long as nobody is disturbed, who copies or replaces files is alone.
LEMMA AloneKept ==
  ASSUME StoreTyped, NEW p \in Procs, Step(p), Alone, ~overlapped'
  PROVE  Alone'
<1>1. Enter(p, pc'[p]) \/ Stays(p)
  BY BeginsOrStays
<1>2. \A q \in Procs : q # p => pc'[q] = pc[q]
  BY OneProcessMoves DEF Untouched
<1>3. CASE Stays(p)
  BY <1>2, <1>3 DEF Stays, Alone
<1>4. CASE Enter(p, pc'[p])
  <2>1. ~Meets(p, pc'[p])
    BY <1>4 DEF Enter
  <2>2. \A q \in Procs : q # p /\ pc[q] \notin Resting => pc[q] \notin Offline /\ pc'[p] \notin Offline
    BY <2>1 DEF Meets, Active
  <2> QED
    BY <1>2, <2>2 DEF Alone, Offline, Resting
<1> QED
  BY <1>1, <1>3, <1>4

\* What the invariant says of one process.
Own(p) == InitOK(p) /\ ServeOK(p) /\ CopiedOut(p) /\ Replaced(p)

(***************************************************************************)
(* One command at a time at the files                                      *)
(***************************************************************************)
\* While the files rest, whoever does not move stays where the invariant wants it.
LEMMA OthersWhileFilesRest ==
  ASSUME NEW q \in Procs, PreparedTo(q), Own(q), Untouched(q), Keeps, file' = file
  PROVE  Own(q)'
<1>1. InitOK(q)' /\ ServeOK(q)' /\ CopiedOut(q)'
  BY DEF Own, InitOK, ServeOK, CopiedOut, Untouched, PrintsOf
<1>2. Replaced(q)'
  <2>1. CASE pc[q] \in Restoring \cup {"verify"}
    <3>1. PartsIn' = PartsIn /\ backup' = backup
      BY <2>1, PartsStay DEF PreparedTo
    <3> QED
      BY <3>1 DEF Own, Replaced, Untouched
  <2>2. CASE pc[q] \notin Restoring \cup {"verify"}
    BY <2>2 DEF Replaced, Untouched, Restoring
  <2> QED
    BY <2>1, <2>2
<1> QED
  BY <1>1, <1>2 DEF Own

\* Somebody else writes files other than the configuration and the token: who is
\* about to lock or finds a configuration does not mind.
LEMMA OthersWhileFilesChange ==
  ASSUME NEW q \in Procs, Own(q), Untouched(q), pc[q] \in Resting \cup {"lock", "init"},
         file'.config = file.config,
         pc[q] = "init" => file.config # Missing /\ file'.token = file.token
  PROVE  Own(q)'
<1>1. InitOK(q)'
  BY DEF Own, InitOK, Untouched
<1>2. ServeOK(q)' /\ CopiedOut(q)' /\ Replaced(q)'
  BY DEF Own, ServeOK, CopiedOut, Replaced, Untouched, Resting, Guarded
<1> QED
  BY <1>1, <1>2 DEF Own

\* Next to a serve nobody copies or replaces files, and nobody else serves.
LEMMA NextToServe ==
  ASSUME Sound, Alone, NEW p \in Procs, pc[p] \in Guarded, NEW q \in Procs, q # p
  PROVE  pc[q] \in Resting \cup {"lock", "init"}
<1>1. pc[q] \notin Offline
  BY DEF Alone, Guarded, Resting
<1>2. pc[q] \notin Guarded
  BY DEF Sound, LockHeld
<1>3. pc[q] \in Labels
  BY DEF Sound, StoreTyped
<1> QED
  BY <1>1, <1>2, <1>3, LabelsByName

\* The keys of a configuration, where there is one.
LEMMA KeysOfTheConfiguration ==
  ASSUME StoreTyped, OneInit, file.config # Missing, file.dbKey # Missing
  PROVE  file.dbKey = file.config
BY DEF OneInit, Generated

\* init looks for the files it would write.
LEMMA InitBeginsAlone ==
  ASSUME Sound, AloneInv, Alone', NEW p \in Procs, InitBegins(p)
  PROVE  AloneInv'
<1>0. Step(p) /\ Keeps /\ \A q \in Procs : q # p => Untouched(q)
  BY OneProcessMoves, NothingIsTakenBack
  DEF Sound, Step, InitStep, ServeStep, BackupStep, RestoreStep
<1>1. file' = file /\ aside' = aside
  BY DEF InitBegins, History
<1>2. Unconfigured'
  <2>1. file.config = Missing => pc'[p] \in Resting \cup {"init"}
    BY Moves, GoesOn, EntersTyped DEF Sound, AloneInv, Unconfigured, InitBegins, Resting
  <2> QED
    BY <1>0, <1>1, <2>1 DEF AloneInv, Unconfigured, Untouched
<1>3. OneInit'
  BY <1>1 DEF AloneInv, OneInit, InitBegins, History
<1>4. PairOK'
  BY <1>1 DEF AloneInv, PairOK
<1>5. BackupOK'
  BY <1>1 DEF AloneInv, BackupOK, InitBegins, History
<1>6. Own(p)'
  <2>1. /\ pc'[p] = "init" => step'[p] = 1 /\ file.config = Missing
        /\ pc'[p] \in {"init", "failed"}
    BY Moves, EntersTyped, NamesOfFiles DEF Sound, InitBegins
  <2>2. InitOK(p)'
    BY <2>1, <1>1 DEF InitOK
  <2> QED
    BY <2>1, <2>2 DEF Own, ServeOK, CopiedOut, Replaced, Guarded, Restoring
<1>7. ASSUME NEW q \in Procs, q # p PROVE Own(q)'
  <2>1. PreparedTo(q) /\ Own(q) /\ Untouched(q)
    BY <1>0, <1>7 DEF Sound, Prepared, AloneInv, Own
  <2> QED
    BY <1>0, <1>1, <2>1, OthersWhileFilesRest
<1> QED
  BY <1>2, <1>3, <1>4, <1>5, <1>6, <1>7 DEF AloneInv, Own

\* serve reads the keys of the configuration.
LEMMA ServeBeginsAlone ==
  ASSUME Sound, AloneInv, Alone', NEW p \in Procs, ServeBegins(p)
  PROVE  AloneInv'
<1>0. Step(p) /\ Keeps /\ \A q \in Procs : q # p => Untouched(q)
  BY OneProcessMoves, NothingIsTakenBack
  DEF Sound, Step, InitStep, ServeStep, BackupStep, RestoreStep
<1>1. file' = file /\ aside' = aside
  BY DEF ServeBegins, History
<1>2. Unconfigured'
  <2>1. file.config = Missing => pc'[p] \in Resting \cup {"init"}
    BY Moves, GoesOn, EntersTyped DEF Sound, AloneInv, Unconfigured, ServeBegins, Resting
  <2> QED
    BY <1>0, <1>1, <2>1 DEF AloneInv, Unconfigured, Untouched
<1>3. OneInit'
  BY <1>1 DEF AloneInv, OneInit, ServeBegins, History
<1>4. PairOK'
  BY <1>1 DEF AloneInv, PairOK
<1>5. BackupOK'
  BY <1>1 DEF AloneInv, BackupOK, ServeBegins, History
<1>6. Own(p)'
  <2>1. CASE pc'[p] = "lock"
    <3>1. memory'[p] = PrintsOf(file) /\ file.config # Missing /\ file.dbKey # Missing
      BY <2>1, Moves, NamesOfFiles DEF Sound, StoreTyped, ServeBegins
    <3>2. memory'[p].dbKey = file.config
      BY <3>1, KeysOfTheConfiguration, PrintsTyped DEF Sound, AloneInv, StoreTyped
    <3> QED
      BY <2>1, <3>2, <1>1 DEF Own, InitOK, ServeOK, CopiedOut, Replaced, Guarded, Restoring
  <2>2. CASE pc'[p] = "failed"
    BY <2>2 DEF Own, InitOK, ServeOK, CopiedOut, Replaced, Guarded, Restoring
  <2> QED
    BY <2>1, <2>2, Moves DEF Sound, ServeBegins
<1>7. ASSUME NEW q \in Procs, q # p PROVE Own(q)'
  <2>1. PreparedTo(q) /\ Own(q) /\ Untouched(q)
    BY <1>0, <1>7 DEF Sound, Prepared, AloneInv, Own
  <2> QED
    BY <1>0, <1>1, <2>1, OthersWhileFilesRest
<1> QED
  BY <1>2, <1>3, <1>4, <1>5, <1>6, <1>7 DEF AloneInv, Own

\* The first serve behind the lock.
LEMMA ServeLocksAlone ==
  ASSUME Sound, AloneInv, Alone', NEW p \in Procs, ServeLocks(p)
  PROVE  AloneInv'
<1>0. Step(p) /\ Keeps /\ \A q \in Procs : q # p => Untouched(q)
  BY OneProcessMoves, NothingIsTakenBack
  DEF Sound, Step, InitStep, ServeStep, BackupStep, RestoreStep
<1>1. file' = file /\ aside' = aside
  BY DEF ServeLocks, History
<1>2. Unconfigured'
  <2>1. file.config = Missing => pc'[p] \in Resting \cup {"init"}
    BY Moves, GoesOn, EntersTyped DEF Sound, AloneInv, Unconfigured, ServeLocks, Resting
  <2> QED
    BY <1>0, <1>1, <2>1 DEF AloneInv, Unconfigured, Untouched
<1>3. OneInit'
  BY <1>1 DEF AloneInv, OneInit, ServeLocks, History
<1>4. PairOK'
  BY <1>1 DEF AloneInv, PairOK
<1>5. BackupOK'
  BY <1>1 DEF AloneInv, BackupOK, ServeLocks, History
<1>6. Own(p)'
  <2>1. pc[p] = "lock" /\ pc'[p] \in {"load wallet", "failed"} /\ memory' = memory
    BY Moves, EntersTyped DEF Sound, ServeLocks
  <2> QED
    BY <2>1, <1>1 DEF AloneInv, Own, InitOK, ServeOK, CopiedOut, Replaced, Guarded, Restoring
<1>7. ASSUME NEW q \in Procs, q # p PROVE Own(q)'
  <2>1. PreparedTo(q) /\ Own(q) /\ Untouched(q)
    BY <1>0, <1>7 DEF Sound, Prepared, AloneInv, Own
  <2> QED
    BY <1>0, <1>1, <2>1, OthersWhileFilesRest
<1> QED
  BY <1>2, <1>3, <1>4, <1>5, <1>6, <1>7 DEF AloneInv, Own

\* Who ends has closed the database at most.
LEMMA EndsAlone ==
  ASSUME Sound, AloneInv, NEW p \in Procs, Step(p), Alone',
         pc[p] \in Guarded \cup {"verify"}, pc'[p] \in Resting,
         \A f \in Files \ Ledger : file'[f] = file[f],
         file'.sqlite # Missing => file.sqlite # Missing,
         aside' = aside, backup' = backup, staging' = staging
  PROVE  AloneInv'
<1>0. Keeps /\ \A q \in Procs : q # p => PreparedTo(q) /\ Own(q) /\ Untouched(q)
  BY OneProcessMoves, NothingIsTakenBack DEF Sound, Prepared, AloneInv, Own
<1>1. file.config # Missing
  BY DEF AloneInv, Unconfigured, Guarded, Resting
<1>2. file'.config = file.config /\ file'.token = file.token /\ file'.dbKey = file.dbKey
      /\ file'.signer = file.signer /\ file'.railgun = file.railgun /\ file'.wallet = file.wallet
  BY NamesOfFiles DEF Ledger
<1>3. Unconfigured'
  BY <1>1, <1>2 DEF Unconfigured
<1>4. OneInit'
  <2>1. \A s \in Generated : file'[s] = file[s]
    BY <1>2 DEF Generated
  <2> QED
    BY <1>2, <2>1 DEF AloneInv, OneInit
<1>5. PairOK' /\ BackupOK'
  BY <1>2 DEF AloneInv, PairOK, BackupOK
<1>6. Own(p)'
  BY DEF Own, InitOK, ServeOK, CopiedOut, Replaced, Guarded, Restoring, Resting
<1>7. ASSUME NEW q \in Procs, q # p PROVE Own(q)'
  <2>1. pc[q] \in Resting \cup {"lock", "init"}
    <3>1. CASE pc[p] \in Guarded
      BY <1>7, <3>1, NextToServe DEF AloneInv
    <3>2. CASE pc[p] = "verify"
      BY <1>7, <3>2 DEF AloneInv, Alone, Offline
    <3> QED
      BY <3>1, <3>2
  <2> QED
    BY <1>0, <1>1, <1>2, <1>7, <2>1, OthersWhileFilesChange
<1> QED
  BY <1>3, <1>4, <1>5, <1>6, <1>7 DEF AloneInv, Own

\* A serve ends.
LEMMA ServeEndsAlone ==
  ASSUME Sound, AloneInv, Alone', NEW p \in Procs, ServeEnds(p)
  PROVE  AloneInv'
<1>1. Step(p) /\ pc[p] \in Guarded
  BY DEF Step, ServeStep, ServeEnds, Guarded
<1>2. pc'[p] \in Resting
  BY Moves DEF Sound, ServeEnds, Resting
<1>3. /\ \A f \in Files \ Ledger : file'[f] = file[f]
      /\ file'.sqlite # Missing => file.sqlite # Missing
  <2>1. CASE pc[p] = "serving" /\ file.sqlite # Missing
    BY <2>1, EffectOfClosing DEF Sound, StoreTyped, ServeEnds
  <2>2. CASE ~(pc[p] = "serving" /\ file.sqlite # Missing)
    BY <2>2 DEF ServeEnds
  <2> QED
    BY <2>1, <2>2
<1>4. aside' = aside /\ backup' = backup /\ staging' = staging
  BY DEF ServeEnds
<1> QED
  BY <1>1, <1>2, <1>3, <1>4, EndsAlone

\* Nothing is copied yet.
LEMMA BackupBeginsAlone ==
  ASSUME Sound, AloneInv, Alone', NEW p \in Procs, BackupBegins(p)
  PROVE  AloneInv'
<1>0. Step(p) /\ Keeps /\ \A q \in Procs : q # p => Untouched(q)
  BY OneProcessMoves, NothingIsTakenBack
  DEF Sound, Step, InitStep, ServeStep, BackupStep, RestoreStep
<1>1. file' = file /\ aside' = aside
  BY DEF BackupBegins, History
<1>2. Unconfigured'
  <2>1. file.config = Missing => pc'[p] \in Resting \cup {"init"}
    BY Moves, GoesOn, EntersTyped DEF Sound, AloneInv, Unconfigured, BackupBegins, Resting
  <2> QED
    BY <1>0, <1>1, <2>1 DEF AloneInv, Unconfigured, Untouched
<1>3. OneInit'
  BY <1>1 DEF AloneInv, OneInit, BackupBegins, History
<1>4. PairOK'
  BY <1>1 DEF AloneInv, PairOK
<1>5. BackupOK'
  BY <1>1 DEF AloneInv, BackupOK, BackupBegins, History
<1>6. Own(p)'
  <2>1. pc'[p] \in {"copy out", "failed"} /\ step'[p] = 1
    BY Moves, EntersTyped DEF Sound, BackupBegins
  <2>2. \A j \in 1..3 : ~(j < 1)
    OBVIOUS
  <2>3. CopiedOut(p)'
    BY <2>1, <2>2 DEF CopiedOut
  <2> QED
    BY <2>1, <2>3 DEF Own, InitOK, ServeOK, Replaced, Guarded, Restoring
<1>7. ASSUME NEW q \in Procs, q # p PROVE Own(q)'
  <2>1. PreparedTo(q) /\ Own(q) /\ Untouched(q)
    BY <1>0, <1>7 DEF Sound, Prepared, AloneInv, Own
  <2> QED
    BY <1>0, <1>1, <2>1, OthersWhileFilesRest
<1> QED
  BY <1>2, <1>3, <1>4, <1>5, <1>6, <1>7 DEF AloneInv, Own

\* What is recorded is what is there.
LEMMA BackupReadsSecretsAlone ==
  ASSUME Sound, AloneInv, Alone', NEW p \in Procs, BackupReadsSecrets(p)
  PROVE  AloneInv'
<1>0. Step(p) /\ Keeps /\ \A q \in Procs : q # p => Untouched(q)
  BY OneProcessMoves, NothingIsTakenBack
  DEF Sound, Step, InitStep, ServeStep, BackupStep, RestoreStep
<1>1. file' = file /\ aside' = aside
  BY DEF BackupReadsSecrets, History
<1>2. Unconfigured'
  <2>1. file.config = Missing => pc'[p] \in Resting \cup {"init"}
    BY Moves, GoesOn, EntersTyped DEF Sound, AloneInv, Unconfigured, BackupReadsSecrets, Resting
  <2> QED
    BY <1>0, <1>1, <2>1 DEF AloneInv, Unconfigured, Untouched
<1>3. OneInit'
  BY <1>1 DEF AloneInv, OneInit, BackupReadsSecrets, History
<1>4. PairOK'
  BY <1>1 DEF AloneInv, PairOK
<1>5. BackupOK'
  BY <1>1 DEF AloneInv, BackupOK, BackupReadsSecrets, History
<1>6. Own(p)'
  <2>1. CASE pc'[p] = "copy secrets"
    <3>1. memory'[p] = PrintsOf(file) /\ \A s \in Identity : file[s] # Missing
      <4>1. ~Goto(p, "failed")
        BY <2>1, Moves DEF Sound
      <4> QED
        BY <4>1 DEF Sound, StoreTyped, BackupReadsSecrets
    <3>2. \A j \in 1..3 : /\ staging[p][State[j]] # Missing /\ file[State[j]] # Missing
                          /\ j # 1 => staging[p][State[j]] = file[State[j]]
      <4>1. pc[p] = "copy out" /\ step[p] = Len(State) + 1
        BY DEF BackupReadsSecrets, PartsOut, StateCopied
      <4>2. step[p] = 4
        <5>1. Len(State) = 3
          BY DEF State
        <5>2. step[p] = Len(State) + 1
          BY <4>1
        <5> QED
          BY <5>1, <5>2
      <4>3. \A j \in 1..3 : j < 4
        OBVIOUS
      <4>4. \A j \in 1..3 : j < step[p] =>
              /\ staging[p][State[j]] # Missing /\ file[State[j]] # Missing
              /\ j # 1 => staging[p][State[j]] = file[State[j]]
        BY <4>1 DEF AloneInv, CopiedOut
      <4> QED
        BY <4>2, <4>3, <4>4
    <3>3. /\ file.sqlite # Missing /\ \A f \in ToSet(State) : staging[p][f] # Missing
          /\ staging[p].railgun = file.railgun /\ staging[p].wallet = file.wallet
      <4>1. State[1] = "sqlite" /\ State[2] = "railgun" /\ State[3] = "wallet"
        BY DEF State
      <4>2. /\ staging[p].sqlite # Missing /\ file.sqlite # Missing
            /\ staging[p].railgun # Missing /\ staging[p].railgun = file.railgun
            /\ staging[p].wallet # Missing /\ staging[p].wallet = file.wallet
        BY <3>2, <4>1
      <4> QED
        BY <4>2, NamesOfFiles
    <3>4. step'[p] = 1 /\ staging' = staging
      BY <2>1, Moves DEF Sound, BackupReadsSecrets
    <3>5. \A j \in 1..4 : ~(j < 1)
      OBVIOUS
    <3>6. PrintsOf(file') = PrintsOf(file)
      BY <1>1
    <3>7. CopiedOut(p)'
      BY <1>1, <2>1, <3>1, <3>3, <3>4, <3>5, <3>6 DEF CopiedOut
    <3> QED
      BY <2>1, <3>7 DEF Own, InitOK, ServeOK, Replaced, Guarded, Restoring
  <2>2. CASE pc'[p] = "failed"
    BY <2>2 DEF Own, InitOK, ServeOK, CopiedOut, Replaced, Guarded, Restoring
  <2> QED
    BY <2>1, <2>2, Moves DEF Sound, BackupReadsSecrets
<1>7. ASSUME NEW q \in Procs, q # p PROVE Own(q)'
  <2>1. PreparedTo(q) /\ Own(q) /\ Untouched(q)
    BY <1>0, <1>7 DEF Sound, Prepared, AloneInv, Own
  <2> QED
    BY <1>0, <1>1, <2>1, OthersWhileFilesRest
<1> QED
  BY <1>2, <1>3, <1>4, <1>5, <1>6, <1>7 DEF AloneInv, Own

\* Nothing is moved yet.
LEMMA RestoreBeginsAlone ==
  ASSUME Sound, AloneInv, Alone', NEW p \in Procs, RestoreBegins(p)
  PROVE  AloneInv'
<1>0. Step(p) /\ Keeps /\ \A q \in Procs : q # p => Untouched(q)
  BY OneProcessMoves, NothingIsTakenBack
  DEF Sound, Step, InitStep, ServeStep, BackupStep, RestoreStep
<1>1. file' = file /\ aside' = aside
  BY DEF RestoreBegins, History
<1>2. Unconfigured'
  <2>1. file.config = Missing => pc'[p] \in Resting \cup {"init"}
    BY Moves, GoesOn, EntersTyped DEF Sound, AloneInv, Unconfigured, RestoreBegins, Resting
  <2> QED
    BY <1>0, <1>1, <2>1 DEF AloneInv, Unconfigured, Untouched
<1>3. OneInit'
  BY <1>1 DEF AloneInv, OneInit, RestoreBegins, History
<1>4. PairOK'
  BY <1>1 DEF AloneInv, PairOK
<1>5. BackupOK'
  BY <1>1 DEF AloneInv, BackupOK, RestoreBegins, History
<1>6. Own(p)'
  <2>1. pc'[p] \in {"move", "failed"} /\ step'[p] = 1
    BY Moves, EntersTyped DEF Sound, RestoreBegins
  <2>2. \A n : \A j \in 1..n : ~(j < 1)
    OBVIOUS
  <2>3. pc'[p] = "move" => \A j \in 1..Len(PartsIn') : ~(j < step'[p])
    BY <2>1, <2>2
  <2>4. Replaced(p)'
    BY <2>1, <2>3 DEF Replaced
  <2> QED
    BY <2>1, <2>4 DEF Own, InitOK, ServeOK, CopiedOut, Guarded, Restoring
<1>7. ASSUME NEW q \in Procs, q # p PROVE Own(q)'
  <2>1. PreparedTo(q) /\ Own(q) /\ Untouched(q)
    BY <1>0, <1>7 DEF Sound, Prepared, AloneInv, Own
  <2> QED
    BY <1>0, <1>1, <2>1, OthersWhileFilesRest
<1> QED
  BY <1>2, <1>3, <1>4, <1>5, <1>6, <1>7 DEF AloneInv, Own

\* A restore that has copied everything has the database of the backup.
LEMMA RestoredLedger ==
  ASSUME Sound, AloneInv, NEW p \in Procs, pc[p] = "verify"
  PROVE  /\ backup # Missing /\ file.sqlite = backup.files.sqlite /\ file.sqlite # Missing
         /\ file.wallet = backup.files.wallet
<1>1. backup # Missing
  BY DEF Sound, Prepared, PreparedTo
<1>2. /\ 1 \in 1..Len(PartsIn) /\ PartsIn[1] = "sqlite"
      /\ 3 \in 1..Len(PartsIn) /\ PartsIn[3] = "wallet"
  <2>1. Len(PartsIn) \in {3, 7}
    BY <1>1, PartsAreFiles DEF Sound
  <2> QED
    BY <2>1, PartsOfRestore
<1>3. file.sqlite = backup.files.sqlite /\ file.wallet = backup.files.wallet
  BY <1>2 DEF AloneInv, Replaced
<1> QED
  BY <1>1, <1>3, NamesOfFiles DEF AloneInv, BackupOK

\* A restore ends.
LEMMA RestoreVerifiesAlone ==
  ASSUME Sound, AloneInv, Alone', NEW p \in Procs, RestoreVerifies(p)
  PROVE  AloneInv'
<1>1. Step(p) /\ pc[p] = "verify"
  BY DEF Step, RestoreStep, RestoreVerifies
<1>2. pc'[p] \in Resting
  BY Moves DEF Sound, RestoreVerifies, Resting
<1>3. file.sqlite # Missing
  BY <1>1, RestoredLedger
<1>4. \A f \in Files \ Ledger : file'[f] = file[f]
  BY EffectOfClosing DEF Sound, StoreTyped, RestoreVerifies
<1>5. aside' = aside /\ backup' = backup /\ staging' = staging
  BY DEF RestoreVerifies
<1> QED
  BY <1>1, <1>2, <1>3, <1>4, <1>5, EndsAlone

\* Who has died minds nothing.
LEMMA DiesAlone ==
  ASSUME Sound, AloneInv, Alone', NEW p \in Procs, Dies(p)
  PROVE  AloneInv'
<1>0. Step(p) /\ Keeps /\ \A q \in Procs : q # p => Untouched(q)
  BY OneProcessMoves, NothingIsTakenBack
  DEF Sound, Step, InitStep, ServeStep, BackupStep, RestoreStep
<1>1. file' = file /\ aside' = aside
  BY DEF Dies, History
<1>2. Unconfigured'
  <2>1. file.config = Missing => pc'[p] \in Resting \cup {"init"}
    BY Moves, GoesOn, EntersTyped DEF Sound, AloneInv, Unconfigured, Dies, Resting
  <2> QED
    BY <1>0, <1>1, <2>1 DEF AloneInv, Unconfigured, Untouched
<1>3. OneInit'
  BY <1>1 DEF AloneInv, OneInit, Dies, History
<1>4. PairOK'
  BY <1>1 DEF AloneInv, PairOK
<1>5. BackupOK'
  BY <1>1 DEF AloneInv, BackupOK, Dies, History
<1>6. Own(p)'
  <2>1. pc'[p] \in {"dead"}
    BY Moves, GoesOn, EntersTyped DEF Sound, Dies
  <2> QED
    BY <2>1 DEF Own, InitOK, ServeOK, CopiedOut, Replaced, Guarded, Restoring
<1>7. ASSUME NEW q \in Procs, q # p PROVE Own(q)'
  <2>1. PreparedTo(q) /\ Own(q) /\ Untouched(q)
    BY <1>0, <1>7 DEF Sound, Prepared, AloneInv, Own
  <2> QED
    BY <1>0, <1>1, <2>1, OthersWhileFilesRest
<1> QED
  BY <1>2, <1>3, <1>4, <1>5, <1>6, <1>7 DEF AloneInv, Own

\* A part is copied while nothing moves.
LEMMA BackupCopiesAlone ==
  ASSUME Sound, AloneInv, Alone', NEW p \in Procs, BackupCopies(p)
  PROVE  AloneInv'
<1>0. Step(p) /\ Keeps /\ \A q \in Procs : q # p => Untouched(q)
  BY OneProcessMoves, NothingIsTakenBack DEF Sound, Step, BackupStep
<1>1. file' = file /\ aside' = aside /\ backup' = backup /\ memory' = memory /\ option' = option
  BY DEF BackupCopies, History
<1> DEFINE f == PartsOut(p)[step[p]]
<1>2. \/ pc'[p] = "failed" /\ staging' = staging
      \/ /\ pc' = pc /\ step'[p] = step[p] + 1 /\ file[f] # Missing
         /\ \E copy \in Copies(f) : staging' = [staging EXCEPT ![p][f] = copy]
  BY Moves, GoesOn DEF Sound, BackupCopies
<1>11. /\ f # "sqlite" => Copies(f) = {file[f]}
       /\ file[f] # Missing => \A copy \in Copies(f) : copy # Missing
  BY WhatIsRead, MissingIsNoContents DEF Copies, Sound, StoreTyped
<1>3. step[p] \in 1..Len(PartsOut(p)) /\ f \in Files
  <2>1. step[p] \in Nat \ {0} /\ step[p] <= Len(PartsOut(p))
    BY DEF Sound, StoreTyped, BackupCopies
  <2>2. Len(PartsOut(p)) \in Nat
    BY DEF PartsOut, StateCopied, State, Secrets
  <2>3. step[p] \in 1..Len(PartsOut(p))
    BY <2>1, <2>2
  <2> QED
    BY <2>3, PartsOutAreFiles
<1>4. Unconfigured'
  <2>1. pc[p] \in {"copy out", "copy secrets"}
    BY DEF BackupCopies
  <2>2. file.config # Missing
    BY <2>1 DEF AloneInv, Unconfigured, Resting
  <2> QED
    BY <1>1, <2>2 DEF Unconfigured
<1>5. OneInit'
  <2>1. ASSUME NEW q \in Procs, NEW s \in Generated PROVE staging'[q][s] \in {Missing, file.config}
    <3>1. staging[q][s] \in {Missing, file.config}
      BY DEF AloneInv, OneInit
    <3>2. file[s] \in {Missing, file.config}
      <4>1. file.config # Missing
        BY DEF AloneInv, Unconfigured, Resting, BackupCopies
      <4> QED
        BY <4>1 DEF AloneInv, OneInit
    <3>3. DOMAIN staging = Procs /\ DOMAIN staging[p] = Files /\ s \in Files
      BY NamesOfFiles DEF Sound, StoreTyped, IsDirectory, Generated
    <3>4. staging'[q][s] = staging[q][s] \/ staging'[q][s] = file[s]
      <4>1. CASE staging' = staging
        BY <4>1
      <4>2. ASSUME NEW copy \in Copies(f), staging' = [staging EXCEPT ![p] = [@ EXCEPT ![f] = copy]]
            PROVE  staging'[q][s] = staging[q][s] \/ staging'[q][s] = file[s]
        <5>1. f = s => copy = file[s]
          BY <1>11 DEF Generated
        <5> QED
          BY <3>3, <4>2, <5>1
      <4> QED
        BY <1>2, <4>1, <4>2
    <3> QED
      BY <3>1, <3>2, <3>4
  <2> QED
    BY <1>1, <2>1 DEF AloneInv, OneInit
<1>6. PairOK'
  BY <1>1 DEF AloneInv, PairOK
<1>7. BackupOK'
  BY <1>1 DEF AloneInv, BackupOK
<1>8. Own(p)'
  <2>1. CASE pc'[p] = "failed"
    BY <2>1 DEF Own, InitOK, ServeOK, CopiedOut, Replaced, Guarded, Restoring
  <2>2. CASE pc'[p] # "failed"
    <3>1. pc' = pc /\ step'[p] = step[p] + 1 /\ file[f] # Missing
      BY <1>2, <2>2
    <3>7. PICK copy \in Copies(f) : staging' = [staging EXCEPT ![p] = [@ EXCEPT ![f] = copy]]
      BY <1>2, <2>2
    <3>2. /\ staging'[p][f] # Missing
          /\ f # "sqlite" => staging'[p][f] = file[f]
          /\ \A g \in Files : g # f => staging'[p][g] = staging[p][g]
      BY <1>3, <1>11, <3>1, <3>7 DEF Sound, StoreTyped, IsDirectory
    <3>3. \A g \in Files : /\ staging[p][g] # Missing => staging'[p][g] # Missing
                           /\ g # "sqlite" /\ staging[p][g] = file[g] => staging'[p][g] = file[g]
      BY <3>2
    <3>4. CASE pc[p] = "copy out"
      <4>1. f = State[step[p]]
        BY <3>4 DEF PartsOut, StateCopied
      <4>2. \A j \in 1..3 : State[j] \in Files
        BY NamesOfFiles DEF State
      <4>3. ASSUME NEW j \in 1..3, j < step[p] + 1
            PROVE  /\ staging'[p][State[j]] # Missing /\ file[State[j]] # Missing
                   /\ j # 1 => staging'[p][State[j]] = file[State[j]]
        <5>1. j = step[p] \/ j < step[p]
          BY <4>3, <1>3
        <5>4. j # 1 => State[j] # "sqlite"
          BY DEF State
        <5>2. CASE j = step[p]
          BY <3>1, <3>2, <4>1, <5>2, <5>4
        <5>3. CASE j < step[p]
          <6>1. /\ staging[p][State[j]] # Missing /\ file[State[j]] # Missing
                /\ j # 1 => staging[p][State[j]] = file[State[j]]
            BY <3>4, <5>3 DEF AloneInv, CopiedOut
          <6> QED
            BY <3>3, <4>2, <5>4, <6>1
        <5> QED
          BY <5>1, <5>2, <5>3
      <4>4. CopiedOut(p)'
        BY <1>1, <3>1, <3>4, <4>3 DEF CopiedOut
      <4> QED
        BY <3>1, <3>4, <4>4 DEF Own, InitOK, ServeOK, Replaced, Guarded, Restoring
    <3>5. CASE pc[p] = "copy secrets"
      <4>1. option[p] /\ f = Secrets[step[p]] /\ step[p] \in 1..4
        <5>1. PartsOut(p) = IF option[p] THEN Secrets ELSE <<>>
          BY <3>5 DEF PartsOut
        <5>2. Len(Secrets) = 4 /\ Len(<<>>) = 0
          BY DEF Secrets
        <5>3. option[p]
          BY <1>3, <5>1, <5>2
        <5> QED
          BY <1>3, <5>1, <5>2, <5>3
      <4>2. \A j \in 1..4 : Secrets[j] \in Files
        BY NamesOfFiles DEF Secrets
      <4>3. ASSUME NEW j \in 1..4, j < step[p] + 1
            PROVE  staging'[p][Secrets[j]] = file[Secrets[j]] /\ file[Secrets[j]] # Missing
        <5>1. j = step[p] \/ j < step[p]
          BY <4>3, <4>1
        <5>4. Secrets[j] # "sqlite"
          BY DEF Secrets
        <5>2. CASE j = step[p]
          BY <3>1, <3>2, <4>1, <5>2, <5>4
        <5>3. CASE j < step[p]
          BY <3>3, <3>5, <4>1, <4>2, <5>3, <5>4 DEF AloneInv, CopiedOut
        <5> QED
          BY <5>1, <5>2, <5>3
      <4>4. /\ file.sqlite # Missing /\ \A g \in ToSet(State) : staging'[p][g] # Missing
            /\ staging'[p].railgun = file.railgun /\ staging'[p].wallet = file.wallet
        <5>1. /\ file.sqlite # Missing
              /\ \A g \in ToSet(State) : staging[p][g] # Missing /\ g \in Files
              /\ staging[p].railgun = file.railgun /\ staging[p].wallet = file.wallet
          BY <3>5, NamesOfFiles DEF AloneInv, CopiedOut
        <5> QED
          BY <3>3, <5>1, NamesOfFiles
      <4>5. memory[p] = PrintsOf(file) /\ \A s \in Identity : file[s] # Missing
        BY <3>5 DEF AloneInv, CopiedOut
      <4>6. PrintsOf(file') = PrintsOf(file)
        BY <1>1
      <4>7. CopiedOut(p)'
        BY <1>1, <3>1, <3>5, <4>3, <4>4, <4>5, <4>6 DEF CopiedOut
      <4> QED
        BY <3>1, <3>5, <4>7 DEF Own, InitOK, ServeOK, Replaced, Guarded, Restoring
    <3> QED
      BY <3>4, <3>5 DEF BackupCopies
  <2> QED
    BY <2>1, <2>2
<1>9. ASSUME NEW q \in Procs, q # p PROVE Own(q)'
  <2>1. PreparedTo(q) /\ Own(q) /\ Untouched(q)
    BY <1>0, <1>9 DEF Sound, Prepared, AloneInv, Own
  <2> QED
    BY <1>0, <1>1, <2>1, OthersWhileFilesRest
<1> QED
  BY <1>4, <1>5, <1>6, <1>7, <1>8, <1>9 DEF AloneInv, Own

\* A published backup has all its parts and a wallet that its key opens.
LEMMA BackupPublishesAlone ==
  ASSUME Sound, AloneInv, Alone', NEW p \in Procs, BackupPublishes(p)
  PROVE  AloneInv'
<1>0. Step(p) /\ Keeps /\ \A q \in Procs : q # p => Untouched(q)
  BY OneProcessMoves, NothingIsTakenBack DEF Sound, Step, BackupStep
<1>1. file' = file /\ aside' = aside /\ staging' = staging /\ pc[p] = "copy secrets"
  BY DEF BackupPublishes, History
<1>2. pc'[p] \in {"done", "failed"}
  BY Moves DEF Sound, BackupPublishes
<1>3. file.config # Missing
  BY <1>1 DEF AloneInv, Unconfigured, Resting
<1>4. Unconfigured'
  BY <1>1, <1>3 DEF Unconfigured
<1>5. /\ \A f \in ToSet(State) : staging[p][f] # Missing
      /\ staging[p].railgun = file.railgun /\ staging[p].wallet = file.wallet
      /\ memory[p] = PrintsOf(file) /\ \A s \in Identity : file[s] # Missing
      /\ option[p] => \A j \in 1..4 : j < step[p] =>
           staging[p][Secrets[j]] = file[Secrets[j]] /\ file[Secrets[j]] # Missing
  BY <1>1 DEF AloneInv, CopiedOut
<1>10. file.sqlite # Missing
  BY <1>1 DEF AloneInv, CopiedOut
<1>6. ASSUME backup' = backup PROVE OneInit' /\ PairOK' /\ BackupOK'
  <2>1. OneInit'
    BY <1>1, <1>6 DEF AloneInv, OneInit
  <2>2. PairOK' /\ BackupOK'
    BY <1>1, <1>6 DEF AloneInv, PairOK, BackupOK
  <2> QED
    BY <2>1, <2>2
<1>7. ASSUME backup' = [files |-> staging[p], containsSecrets |-> option[p], prints |-> memory[p]]
      PROVE  OneInit' /\ PairOK' /\ BackupOK'
  <2>1. backup'.files = staging[p] /\ backup'.prints = memory[p]
    BY <1>7
  <2>2. backup'.containsSecrets = option[p]
    BY <1>7
  <2>3. OneInit'
    BY <1>1, <1>3, <2>1 DEF AloneInv, OneInit
  <2>4. PairOK'
    BY <1>1 DEF AloneInv, PairOK
  <2>5. \A f \in ToSet(State) : backup'.files[f] # Missing
    BY <1>5, <2>1
  <2>6. ASSUME backup'.containsSecrets PROVE \A f \in ToSet(Secrets) : backup'.files[f] # Missing
    <3>1. option[p]
      BY <2>2, <2>6
    <3>2. step[p] = 5
      <4>1. step[p] = Len(Secrets) + 1
        BY <1>1, <3>1 DEF BackupPublishes, PartsOut
      <4>2. Len(Secrets) = 4
        BY DEF Secrets
      <4> QED
        BY <4>1, <4>2
    <3>3. \A j \in 1..4 : j < 5
      OBVIOUS
    <3>4. \A j \in 1..4 : staging[p][Secrets[j]] # Missing
      BY <1>5, <3>1, <3>2, <3>3
    <3> QED
      BY <2>1, <3>4, NamesOfFiles DEF Secrets
  <2>7. backup'.prints.dbKey = file.config
    <3>1. file.dbKey = file.config
      BY <1>3, <1>5, KeysOfTheConfiguration DEF Sound, AloneInv, Identity
    <3> QED
      BY <1>5, <2>1, <3>1, PrintsTyped DEF Sound, StoreTyped
  <2>8. <<file.wallet, file.config>> \in file.railgun
    <3>1. file.wallet # Missing
      BY <1>5, NamesOfFiles
    <3> QED
      BY <1>10, <3>1 DEF AloneInv, PairOK
  <2>9. BackupOK'
    <3>1. backup'.files.wallet = file.wallet /\ backup'.files.railgun = file.railgun
      BY <1>5, <2>1, NamesOfFiles
    <3> QED
      BY <1>1, <2>5, <2>6, <2>7, <2>8, <3>1 DEF BackupOK
  <2> QED
    BY <2>3, <2>4, <2>9
<1>8. OneInit' /\ PairOK' /\ BackupOK'
  BY <1>6, <1>7 DEF BackupPublishes
<1>9. Own(p)'
  BY <1>2 DEF Own, InitOK, ServeOK, CopiedOut, Replaced, Guarded, Restoring
<1>11. ASSUME NEW q \in Procs, q # p PROVE Own(q)'
  <2>1. PreparedTo(q) /\ Own(q) /\ Untouched(q)
    BY <1>0, <1>11 DEF Sound, Prepared, AloneInv, Own
  <2> QED
    BY <1>0, <1>1, <2>1, OthersWhileFilesRest
<1> QED
  BY <1>4, <1>8, <1>9, <1>11 DEF AloneInv, Own

\* init writes only where there was no configuration, so nobody else is at work on one.
LEMMA InitWritesAlone ==
  ASSUME Sound, AloneInv, Alone', NEW p \in Procs, InitWrites(p)
  PROVE  AloneInv'
<1>0. Step(p) /\ Keeps /\ \A q \in Procs : q # p => Untouched(q)
  BY OneProcessMoves, NothingIsTakenBack DEF Sound, Step, InitStep
<1> DEFINE f == InitFiles[step[p]]
<1>1. /\ aside' = aside /\ backup' = backup /\ staging' = staging
      /\ pc[p] = "init" /\ step[p] \in 1..4
  BY DEF InitWrites, History, Sound, Prepared, PreparedTo
<1>2. InitFiles[1] = "token" /\ InitFiles[2] = "signer" /\ InitFiles[3] = "dbKey" /\ InitFiles[4] = "config"
  BY DEF InitFiles
<1>3. \A q \in Procs : q # p => PreparedTo(q) /\ Own(q) /\ Untouched(q)
  BY <1>0 DEF Sound, Prepared, AloneInv, Own
<1>4. \/ file' = file /\ pc'[p] = "failed"
      \/ /\ file' = [file EXCEPT ![f] = p] /\ file[f] = Missing
         /\ IF step[p] = 4 THEN pc'[p] = "done" ELSE pc'[p] = "init" /\ step'[p] = step[p] + 1
  <2>1. Len(InitFiles) = 4
    BY DEF InitFiles
  <2>2. CASE file[f] # Missing
    BY <2>2, Moves DEF Sound, InitWrites
  <2>3. CASE file[f] = Missing /\ step[p] = 4
    BY <2>1, <2>3, Moves DEF Sound, InitWrites
  <2>4. CASE file[f] = Missing /\ step[p] # 4
    BY <1>1, <2>1, <2>4, GoesOn DEF Sound, InitWrites
  <2> QED
    BY <2>2, <2>3, <2>4
<1>5. CASE file' = file /\ pc'[p] = "failed"
  <2>1. Unconfigured'
    BY <1>1, <1>3, <1>5 DEF AloneInv, Unconfigured, Untouched, Resting
  <2>2. OneInit' /\ PairOK' /\ BackupOK'
    BY <1>1, <1>5 DEF AloneInv, OneInit, PairOK, BackupOK
  <2>3. Own(p)'
    BY <1>5 DEF Own, InitOK, ServeOK, CopiedOut, Replaced, Guarded, Restoring
  <2>4. \A q \in Procs : q # p => Own(q)'
    BY <1>0, <1>3, <1>5, OthersWhileFilesRest
  <2> QED
    BY <2>1, <2>2, <2>3, <2>4 DEF AloneInv, Own
<1>6. CASE /\ file' = [file EXCEPT ![f] = p] /\ file[f] = Missing
           /\ IF step[p] = 4 THEN pc'[p] = "done" ELSE pc'[p] = "init" /\ step'[p] = step[p] + 1
  <2>1. file.config = Missing
    <3>1. f \in {"token", "config"} \/ step[p] # 1
      BY <1>2
    <3>2. file.config # Missing => step[p] = 1 /\ file.token # Missing
      BY <1>1 DEF AloneInv, InitOK
    <3> QED
      BY <1>2, <1>6, <3>2
  <2>2. \A j \in 1..4 : j < step[p] => file[InitFiles[j]] = p
    BY <1>1, <2>1 DEF AloneInv, InitOK
  <2>3. /\ f \in {"token", "signer", "dbKey", "config"} /\ f \in Files /\ DOMAIN file = Files
        /\ p # Missing
    <3>1. f \in {"token", "signer", "dbKey", "config"}
      BY <1>1, <1>2
    <3> QED
      BY <3>1, NamesOfFiles, MissingIsNoContents DEF Sound, StoreTyped, IsDirectory
  <2>4. /\ \A g \in Files : g # f => file'[g] = file[g]
        /\ file'[f] = p
    BY <1>6, <2>3
  <2>5. \A q \in Procs : q # p => pc'[q] = pc[q] /\ pc[q] \in Resting \cup {"init"}
    BY <1>3, <2>1 DEF AloneInv, Unconfigured, Untouched
  <2>6. aside = {} /\ {file.wallet, file.railgun, file.sqlite} = {Missing}
    BY <2>1 DEF AloneInv, Unconfigured
  <2>7. {file'.wallet, file'.railgun, file'.sqlite} = {Missing}
    BY <2>3, <2>4, <2>6, NamesOfFiles
  <2>8. Unconfigured'
    <3>1. pc'[p] \in Resting \cup {"init"}
      BY <1>6 DEF Resting
    <3> QED
      BY <1>1, <2>5, <2>6, <2>7, <3>1 DEF Unconfigured
  <2>9. backup = Missing
    <3>1. SUFFICES ASSUME backup # Missing PROVE FALSE
      OBVIOUS
    <3>2. <<backup.files.wallet, Missing>> \in backup.files.railgun /\ backup.files.railgun # Missing
      BY <2>1, <3>1, NamesOfFiles DEF AloneInv, BackupOK
    <3>3. backup.files.railgun \in SUBSET (Keys \X Procs)
      BY <3>1, <3>2, FilesOfDirectory DEF Sound, StoreTyped
    <3>4. Missing \in Procs
      BY <3>2, <3>3
    <3> QED
      BY <3>4, MissingIsNoContents
  <2>10. OneInit'
    <3>1. \A q \in Procs, s \in Generated : staging'[q][s] = Missing
      BY <1>1, <2>1 DEF AloneInv, OneInit
    <3>2. ASSUME file'.config # Missing, NEW s \in Generated PROVE file'[s] \in {Missing, file'.config}
      <4>1. f = "config"
        BY <2>1, <2>4, <3>2, NamesOfFiles
      <4>2. step[p] = 4
        BY <1>1, <1>2, <4>1
      <4>3. file.token = p /\ file.signer = p /\ file.dbKey = p
        BY <1>2, <2>2, <4>2
      <4> QED
        BY <2>4, <4>1, <4>3, NamesOfFiles DEF Generated
    <3> QED
      BY <1>1, <2>6, <2>9, <3>1, <3>2 DEF OneInit
  <2>11. PairOK' /\ BackupOK'
    BY <1>1, <2>7, <2>9 DEF PairOK, BackupOK
  <2>12. Own(p)'
    <3>1. CASE step[p] = 4
      BY <1>6, <3>1 DEF Own, InitOK, ServeOK, CopiedOut, Replaced, Guarded, Restoring
    <3>2. CASE step[p] # 4
      <4>1. pc'[p] = "init" /\ step'[p] = step[p] + 1
        BY <1>6, <3>2
      <4>2. f # "config" /\ file'.config = Missing
        BY <1>1, <1>2, <2>1, <2>4, <3>2, NamesOfFiles
      <4>3. ASSUME NEW j \in 1..4, j < step[p] + 1 PROVE file'[InitFiles[j]] = p
        <5>1. j = step[p] \/ j < step[p]
          BY <1>1, <4>3
        <5>2. InitFiles[j] \in Files
          BY <1>2, NamesOfFiles
        <5>3. CASE j = step[p]
          BY <2>4, <5>3
        <5>4. CASE j < step[p]
          BY <2>2, <2>4, <5>2, <5>4
        <5> QED
          BY <5>1, <5>3, <5>4
      <4>4. InitOK(p)'
        BY <4>1, <4>2, <4>3 DEF InitOK
      <4> QED
        BY <4>1, <4>4 DEF Own, ServeOK, CopiedOut, Replaced, Guarded, Restoring
    <3> QED
      BY <3>1, <3>2
  <2>13. ASSUME NEW q \in Procs, q # p PROVE Own(q)'
    <3>1. InitOK(q)'
      <4>1. SUFFICES ASSUME pc'[q] = "init" PROVE InitOK(q)'
        BY DEF InitOK
      <4>2. /\ pc[q] = "init" /\ step'[q] = step[q] /\ step[q] \in 1..4
            /\ \A j \in 1..4 : j < step[q] => file[InitFiles[j]] = q
        BY <1>3, <2>1, <2>13, <4>1 DEF Untouched, PreparedTo, Own, InitOK
      <4>3. q # Missing
        BY MissingIsNoContents
      <4>4. \A j \in 1..4 : j < step[q] => file'[InitFiles[j]] = q
        <5>1. \A j \in 1..4 : InitFiles[j] \in Files
          BY <1>2, NamesOfFiles
        <5> QED
          BY <1>6, <2>4, <4>2, <4>3, <5>1
      <4>5. CASE f # "config"
        <5>1. file'.config = Missing
          BY <2>1, <2>4, <4>5, NamesOfFiles
        <5> QED
          BY <4>2, <4>4, <5>1 DEF InitOK
      <4>6. CASE f = "config"
        <5>1. step[p] = 4
          BY <1>1, <1>2, <4>6
        <5>2. file.token = p
          BY <1>2, <2>2, <5>1
        <5>3. file'.token = p /\ file'.config # Missing
          BY <2>3, <2>4, <4>6, <5>2, NamesOfFiles
        <5>4. step[q] = 1
          BY <1>2, <2>13, <4>2, <5>2
        <5> QED
          BY <2>3, <4>2, <5>3, <5>4 DEF InitOK
      <4> QED
        BY <4>5, <4>6
    <3> QED
      BY <2>5, <2>13, <3>1 DEF Own, ServeOK, CopiedOut, Replaced, Guarded, Restoring, Resting
  <2> QED
    BY <2>8, <2>10, <2>11, <2>12, <2>13 DEF AloneInv, Own
<1> QED
  BY <1>4, <1>5, <1>6

\* What a serve needs to keep, whichever state files it writes: the configuration, the
\* secrets, the backups and the paths aside are not its business.
ServeKeeps(p) ==
  /\ \A f \in ToSet(Secrets) \cup {"config"} : file'[f] = file[f]
  /\ aside' = aside /\ backup' = backup /\ staging' = staging /\ memory' = memory

\* Behind the lock, a daemon that keeps its own part and the ledger's pair keeps all of it.
LEMMA ServeAlone ==
  ASSUME Sound, AloneInv, NEW p \in Procs, Step(p), pc[p] \in Guarded, ServeKeeps(p),
         PairOK', Alone', pc'[p] \in Guarded, ServeOK(p)'
  PROVE  AloneInv'
<1>0. Keeps /\ \A q \in Procs : q # p => PreparedTo(q) /\ Own(q) /\ Untouched(q)
  BY OneProcessMoves, NothingIsTakenBack DEF Sound, Prepared, AloneInv, Own
<1>1. file.config # Missing
  BY DEF AloneInv, Unconfigured, Guarded, Resting
<1>2. file'.config = file.config /\ file'.token = file.token /\ file'.dbKey = file.dbKey
      /\ file'.signer = file.signer /\ file'.viewing = file.viewing
  BY NamesOfFiles DEF ServeKeeps
<1>3. Unconfigured'
  BY <1>1, <1>2 DEF Unconfigured
<1>4. OneInit'
  <2>1. \A s \in Generated : file'[s] = file[s]
    BY <1>2 DEF Generated
  <2> QED
    BY <1>2, <2>1 DEF AloneInv, OneInit, ServeKeeps
<1>5. BackupOK'
  BY <1>2 DEF AloneInv, BackupOK, ServeKeeps
<1>6. Own(p)'
  BY DEF Own, InitOK, CopiedOut, Replaced, Guarded, Restoring
<1>7. ASSUME NEW q \in Procs, q # p PROVE Own(q)'
  <2>1. pc[q] \in Resting \cup {"lock", "init"}
    BY <1>7, NextToServe DEF AloneInv
  <2> QED
    BY <1>0, <1>1, <1>2, <1>7, <2>1, OthersWhileFilesChange
<1> QED
  BY <1>3, <1>4, <1>5, <1>6, <1>7 DEF AloneInv, Own

\* A wallet is loaded if it is the configured one, or made anew where there is none.
LEMMA ServeLoadsWalletAlone ==
  ASSUME Sound, AloneInv, Alone', NEW p \in Procs, ServeLoadsWallet(p)
  PROVE  AloneInv'
<1>1. Step(p) /\ pc[p] \in Guarded /\ pc[p] = "load wallet"
  BY DEF Step, ServeStep, ServeLoadsWallet, Guarded
<1>2. memory[p].dbKey = file.config
  BY <1>1 DEF AloneInv, ServeOK
<1>3. DOMAIN file = Files /\ Missing \notin SUBSET (Keys \X Procs)
  BY MissingIsNoContents DEF Sound, StoreTyped, IsDirectory
<1>4. PICK ws : file' = [file EXCEPT !.railgun = ws]
  BY DEF ServeLoadsWallet
<1>5. /\ \A f \in Files : f # "railgun" => file'[f] = file[f]
      /\ file'.railgun = ws
  BY <1>3, <1>4, NamesOfFiles
<1>6. ServeKeeps(p)
  BY <1>5, NamesOfFiles DEF ServeKeeps, ServeLoadsWallet
<1>7. file'.wallet = file.wallet /\ file'.sqlite = file.sqlite /\ file'.config = file.config
      /\ memory' = memory
  BY <1>5, NamesOfFiles DEF ServeLoadsWallet
<1>8. file'.railgun # Missing
  <2>1. file'.railgun \in SUBSET (Keys \X Procs) \/ file'.railgun = Missing
    BY ServeLoadsWalletTyped, FilesOfDirectory DEF Sound, StoreTyped
  <2>2. Wallets # Missing
    <3>1. Wallets \in SUBSET (Keys \X Procs)
      BY FilesOfDirectory DEF Sound, StoreTyped, Wallets
    <3> QED
      BY <1>3, <3>1
  <2>3. CASE file.wallet # Missing
    BY <1>3, <2>2, <2>3, NamesOfFiles DEF ServeLoadsWallet
  <2>4. CASE file.wallet = Missing
    <3>1. memory[p].viewing \in Keys /\ memory[p].dbKey \in Procs
      BY <1>1 DEF Sound, StoreTyped, Prints, Prepared, PreparedTo, Guarded
    <3>2. {w \in Wallets : w[1] # memory[p].viewing} \cup {<<memory[p].viewing, memory[p].dbKey>>}
            \in SUBSET (Keys \X Procs)
      <4>1. Wallets \in SUBSET (Keys \X Procs)
        BY FilesOfDirectory DEF Sound, StoreTyped, Wallets
      <4> QED
        BY <3>1, <4>1
    <3>3. file'.railgun = {w \in Wallets : w[1] # memory[p].viewing}
                            \cup {<<memory[p].viewing, memory[p].dbKey>>}
      BY <1>3, <2>4, NamesOfFiles DEF ServeLoadsWallet
    <3> QED
      BY <1>3, <3>2, <3>3
  <2> QED
    BY <2>3, <2>4
<1>9. PairOK'
  <2>1. SUFFICES ASSUME file.wallet # Missing, file.sqlite # Missing
                 PROVE  <<file.wallet, file.config>> \in file'.railgun
    BY <1>7, <1>8 DEF PairOK
  <2>2. file.railgun # Missing /\ <<file.wallet, file.config>> \in file.railgun
    BY <2>1 DEF AloneInv, PairOK
  <2>3. file'.railgun = file.railgun
    BY <1>3, <2>1, <2>2, NamesOfFiles DEF ServeLoadsWallet, Wallets
  <2> QED
    BY <2>2, <2>3
<1>10. ServeOK(p)' /\ pc'[p] \in Guarded
  <2>1. CASE file.wallet # Missing
    <3>1. file'.railgun = Wallets
      BY <1>3, <2>1, NamesOfFiles DEF ServeLoadsWallet
    <3>2. pc'[p] = IF IsOurWallet(p) THEN "open ledger" ELSE "unlock"
      BY <2>1, Moves DEF Sound, ServeLoadsWallet
    <3>3. CASE IsOurWallet(p)
      BY <1>2, <1>7, <1>8, <3>1, <3>2, <3>3 DEF IsOurWallet, ServeOK, Guarded
    <3>4. CASE ~IsOurWallet(p)
      BY <1>2, <1>7, <3>2, <3>4 DEF ServeOK, Guarded
    <3> QED
      BY <3>3, <3>4
  <2>2. CASE file.wallet = Missing
    <3>1. pc'[p] = "write wallet"
      BY <2>2, Moves DEF Sound, ServeLoadsWallet
    <3>2. file'.railgun = {w \in Wallets : w[1] # memory[p].viewing}
                            \cup {<<memory[p].viewing, memory[p].dbKey>>}
      BY <1>3, <2>2, NamesOfFiles DEF ServeLoadsWallet
    <3>3. <<memory[p].viewing, memory[p].dbKey>> \in file'.railgun
      BY <3>2
    <3> QED
      BY <1>2, <1>7, <1>8, <2>2, <3>1, <3>3 DEF ServeOK, Guarded
  <2> QED
    BY <2>1, <2>2
<1> QED
  BY <1>1, <1>6, <1>9, <1>10, ServeAlone

\* The state file names the wallet that has been made.
LEMMA ServeWritesWalletAlone ==
  ASSUME Sound, AloneInv, Alone', NEW p \in Procs, ServeWritesWallet(p)
  PROVE  AloneInv'
<1>1. Step(p) /\ pc[p] \in Guarded /\ pc[p] = "write wallet"
  BY DEF Step, ServeStep, ServeWritesWallet, Guarded
<1>2. /\ memory[p].dbKey = file.config /\ file.wallet = Missing
      /\ file.railgun # Missing /\ <<memory[p].viewing, file.config>> \in file.railgun
  BY <1>1 DEF AloneInv, ServeOK, Guarded
<1>3. DOMAIN file = Files
  BY DEF Sound, StoreTyped, IsDirectory
<1>4. file' = [file EXCEPT !.wallet = memory[p].viewing] /\ pc'[p] = "open ledger" /\ memory' = memory
  BY <1>2, Moves DEF Sound, ServeWritesWallet
<1>5. /\ \A f \in Files : f # "wallet" => file'[f] = file[f]
      /\ file'.wallet = memory[p].viewing
  BY <1>3, <1>4, NamesOfFiles
<1>6. ServeKeeps(p)
  BY <1>5, NamesOfFiles DEF ServeKeeps, ServeWritesWallet, History
<1>7. file'.railgun = file.railgun /\ file'.config = file.config
  BY <1>5, NamesOfFiles
<1>8. PairOK'
  BY <1>2, <1>5, <1>7 DEF PairOK
<1>9. ServeOK(p)' /\ pc'[p] \in Guarded
  BY <1>2, <1>4, <1>5, <1>7 DEF ServeOK, Guarded
<1> QED
  BY <1>1, <1>6, <1>8, <1>9, ServeAlone

\* A ledger lies beside the wallet that is loaded.
LEMMA ServeOpensLedgerAlone ==
  ASSUME Sound, AloneInv, Alone', NEW p \in Procs, ServeOpensLedger(p)
  PROVE  AloneInv'
<1>1. Step(p) /\ pc[p] \in Guarded /\ pc[p] = "open ledger"
  BY DEF Step, ServeStep, ServeOpensLedger, Guarded
<1>2. /\ memory[p].dbKey = file.config /\ file.wallet = memory[p].viewing
      /\ file.railgun # Missing /\ <<memory[p].viewing, file.config>> \in file.railgun
  BY <1>1 DEF AloneInv, ServeOK, Guarded
<1>3. pc'[p] \in {"serving", "unlock"} /\ memory' = memory
  BY Moves DEF Sound, ServeOpensLedger
<1>4. /\ \A f \in Files \ Ledger : file'[f] = file[f]
      /\ file'.sqlite # Missing
  BY EffectOfOpening DEF Sound, StoreTyped
<1>5. ServeKeeps(p)
  BY <1>4, NamesOfFiles DEF ServeKeeps, ServeOpensLedger, Ledger
<1>6. file'.railgun = file.railgun /\ file'.config = file.config /\ file'.wallet = file.wallet
  BY <1>4, NamesOfFiles DEF Ledger
<1>7. PairOK'
  BY <1>2, <1>6 DEF PairOK
<1>8. ServeOK(p)' /\ pc'[p] \in Guarded
  BY <1>2, <1>3, <1>4, <1>6 DEF ServeOK, Guarded
<1> QED
  BY <1>1, <1>5, <1>7, <1>8, ServeAlone

\* A ledger that grows stays where it is.
LEMMA ServeWritesAlone ==
  ASSUME Sound, AloneInv, Alone', NEW p \in Procs, ServeWrites(p)
  PROVE  AloneInv'
<1>1. Step(p) /\ pc[p] \in Guarded /\ pc[p] = "serving"
  BY DEF Step, ServeStep, ServeWrites, Guarded
<1>2. /\ memory[p].dbKey = file.config /\ file.wallet = memory[p].viewing
      /\ file.railgun # Missing /\ <<memory[p].viewing, file.config>> \in file.railgun
  BY <1>1 DEF AloneInv, ServeOK, Guarded
<1>3. pc' = pc /\ memory' = memory
  BY DEF ServeWrites
<1>4. \A f \in Files \ Ledger : file'[f] = file[f]
  BY EffectOfWriting DEF Sound
<1>5. ServeKeeps(p)
  BY <1>4, NamesOfFiles DEF ServeKeeps, ServeWrites, Ledger
<1>6. file'.railgun = file.railgun /\ file'.config = file.config /\ file'.wallet = file.wallet
  BY <1>4, NamesOfFiles DEF Ledger
<1>7. PairOK'
  BY <1>2, <1>6 DEF PairOK
<1>8. ServeOK(p)' /\ pc'[p] \in Guarded
  BY EffectOfWriting, <1>1, <1>2, <1>3, <1>6 DEF Sound, ServeOK, Guarded
<1> QED
  BY <1>1, <1>5, <1>7, <1>8, ServeAlone

\* What holds next to a restore: everybody else rests or waits for the lock.
LEMMA NextToRestore ==
  ASSUME Sound, AloneInv, NEW p \in Procs, Step(p), pc[p] \in Restoring,
         file'.config = file.config
  PROVE  /\ file.config # Missing /\ backup # Missing /\ backup' = backup /\ PartsIn' = PartsIn
         /\ step[p] \in 1..Len(PartsIn) /\ Len(PartsIn) \in {3, 7}
         /\ \A q \in Procs : q # p => Own(q)'
         /\ \A q \in Procs : q # p => pc[q] \in Resting \cup {"lock"} /\ Untouched(q)
<1>1. file.config # Missing
  BY DEF AloneInv, Unconfigured, Restoring, Resting
<1>2. Keeps /\ \A q \in Procs : q # p => Untouched(q)
  BY OneProcessMoves, NothingIsTakenBack DEF Sound
<1>3. backup # Missing /\ step[p] \in 1..Len(PartsIn)
  BY DEF Sound, Prepared, PreparedTo
<1>4. backup' = backup /\ PartsIn' = PartsIn
  BY <1>2, <1>3, PartsStay
<1>5. Len(PartsIn) \in {3, 7}
  BY <1>3, PartsAreFiles DEF Sound
<1>6. \A q \in Procs : q # p => pc[q] \in Resting \cup {"lock"}
  BY DEF AloneInv, Alone, Restoring, Offline
<1>7. ASSUME NEW q \in Procs, q # p PROVE Own(q)'
  <2>1. pc[q] \in Resting \cup {"lock"} /\ Own(q) /\ Untouched(q)
    BY <1>2, <1>6, <1>7 DEF AloneInv, Own
  <2>2. pc[q] # "init"
    BY <2>1 DEF Resting
  <2> QED
    BY <2>1, <2>2, OthersWhileFilesChange
<1> QED
  BY <1>1, <1>2, <1>3, <1>4, <1>5, <1>6, <1>7

\* What a step of moving aside does.
LEMMA EffectOfMoving ==
  ASSUME Sound, NEW p \in Procs, RestoreMoves(p)
  PROVE  LET f == PartsIn[step[p]] IN
         /\ f \in Files \ {"config", "log"}
         /\ \/ /\ file' = file /\ aside' = aside /\ pc'[p] = "failed"
               /\ file[f] # Missing /\ ~option[p]
            \/ /\ file'[f] = Missing /\ \A g \in Files : g # f => file'[g] = file[g]
               /\ \/ file[f] = Missing /\ file' = file /\ aside' = aside
                  \/ file[f] # Missing /\ option[p] /\ aside' = aside \cup {<<f, file[f]>>}
               /\ \/ step[p] = Len(PartsIn) /\ pc'[p] = "copy in" /\ step'[p] = 1
                  \/ step[p] # Len(PartsIn) /\ pc'[p] = "move" /\ step'[p] = step[p] + 1
<1> DEFINE f == PartsIn[step[p]]
<1>1. f \in Files \ {"config", "log"} /\ DOMAIN file = Files
  BY PartsAreFiles DEF Sound, Prepared, PreparedTo, Restoring, RestoreMoves, StoreTyped, IsDirectory
<1>2. CASE file[f] # Missing /\ ~option[p]
  BY <1>1, <1>2, Moves DEF Sound, RestoreMoves
<1>3. CASE file[f] = Missing \/ option[p]
  <2>1. \/ step[p] = Len(PartsIn) /\ pc'[p] = "copy in" /\ step'[p] = 1
        \/ step[p] # Len(PartsIn) /\ pc'[p] = "move" /\ step'[p] = step[p] + 1
    BY <1>3, Moves, GoesOn DEF Sound, RestoreMoves
  <2>2. CASE file[f] = Missing
    <3>1. file' = file /\ aside' = aside
      BY <2>2 DEF RestoreMoves
    <3> QED
      BY <1>1, <2>1, <2>2, <3>1
  <2>3. CASE file[f] # Missing /\ option[p]
    <3>1. file' = [file EXCEPT ![f] = Missing] /\ aside' = aside \cup Kept(f)
      BY <2>3 DEF RestoreMoves
    <3> QED
      BY <1>1, <2>1, <2>3, <3>1 DEF Kept
  <2> QED
    BY <1>3, <2>2, <2>3
<1> QED
  BY <1>2, <1>3

\* What is moved aside is gone, and stays gone until it is copied in.
LEMMA RestoreMovesAlone ==
  ASSUME Sound, AloneInv, Alone', NEW p \in Procs, RestoreMoves(p)
  PROVE  AloneInv'
<1> DEFINE f == PartsIn[step[p]]
<1>1. /\ Step(p) /\ pc[p] = "move" /\ pc[p] \in Restoring
      /\ staging' = staging /\ memory' = memory /\ backup' = backup
  BY DEF Step, RestoreStep, RestoreMoves, Restoring, History
<1>2. f \in Files \ {"config", "log"} /\ \A g \in Files : g # f => file'[g] = file[g]
  BY EffectOfMoving
<1>3. file'.config = file.config
  BY <1>2, NamesOfFiles
<1>4. /\ file.config # Missing /\ backup # Missing /\ backup' = backup /\ PartsIn' = PartsIn
      /\ step[p] \in 1..Len(PartsIn) /\ Len(PartsIn) \in {3, 7}
      /\ \A q \in Procs : q # p => Own(q)'
  BY <1>1, <1>3, NextToRestore
<1>5. file'[f] = file[f] \/ file'[f] = Missing
  BY EffectOfMoving
<1>6. Unconfigured'
  BY <1>3, <1>4 DEF Unconfigured
<1>7. OneInit'
  <2>1. \A s \in Generated : file'[s] \in {Missing, file.config}
    <3>1. \A s \in Generated : file[s] \in {Missing, file.config} /\ s \in Files
      BY <1>4, NamesOfFiles DEF AloneInv, OneInit, Generated
    <3> QED
      BY <1>2, <1>5, <3>1
  <2>2. \A a \in aside' : a[1] \in Generated => a[2] = file.config
    <3>1. aside' = aside \/ (aside' = aside \cup {<<f, file[f]>>} /\ file[f] # Missing)
      BY EffectOfMoving
    <3>2. f \in Generated => file[f] \in {Missing, file.config}
      BY <1>4 DEF AloneInv, OneInit
    <3> QED
      BY <3>1, <3>2 DEF AloneInv, OneInit
  <2> QED
    BY <1>1, <1>3, <2>1, <2>2 DEF AloneInv, OneInit
<1>8. Replaced(p) /\ PairOK /\ BackupOK
  BY DEF AloneInv
<1>9. BackupOK'
  BY <1>3, <1>4, <1>8 DEF BackupOK
<1>10. CASE pc'[p] = "failed"
  <2>1. PairOK'
    <3>1. file' = file
      BY <1>10, EffectOfMoving
    <3> QED
      BY <1>8, <3>1 DEF PairOK
  <2>2. Own(p)'
    BY <1>10 DEF Own, InitOK, ServeOK, CopiedOut, Replaced, Guarded, Restoring
  <2> QED
    BY <1>4, <1>6, <1>7, <1>9, <2>1, <2>2 DEF AloneInv, Own
<1>11. CASE pc'[p] # "failed"
  <2>1. /\ file'[f] = Missing
        /\ \/ step[p] = Len(PartsIn) /\ pc'[p] = "copy in" /\ step'[p] = 1
           \/ step[p] # Len(PartsIn) /\ pc'[p] = "move" /\ step'[p] = step[p] + 1
    BY <1>11, EffectOfMoving
  <2>2. \A j \in 1..Len(PartsIn) : PartsIn[j] \in Files /\ (PartsIn[j] = f => j = step[p])
    BY <1>4, PartsAreFiles DEF Sound
  <2>3. ASSUME NEW j \in 1..Len(PartsIn), j < step[p] + 1 PROVE file'[PartsIn[j]] = Missing
    <3>1. j = step[p] \/ j < step[p]
      BY <1>4, <2>3
    <3>2. CASE j = step[p]
      BY <2>1, <3>2
    <3>3. CASE j < step[p]
      <4>1. file[PartsIn[j]] = Missing
        BY <1>1, <1>8, <3>3 DEF Replaced
      <4> QED
        BY <1>2, <1>5, <2>2, <4>1
    <3> QED
      BY <3>1, <3>2, <3>3
  <2>4. PairOK'
    <3>1. 1 \in 1..Len(PartsIn) /\ 1 < step[p] + 1
      BY <1>4
    <3>2. file'.sqlite = Missing
      BY <2>3, <3>1, PartsOfRestore
    <3> QED
      BY <3>2 DEF PairOK
  <2>5. CASE step[p] # Len(PartsIn)
    <3>1. Replaced(p)'
      BY <1>4, <2>1, <2>3, <2>5 DEF Replaced
    <3>2. Own(p)'
      BY <2>1, <2>5, <3>1 DEF Own, InitOK, ServeOK, CopiedOut, Guarded
    <3> QED
      BY <1>4, <1>6, <1>7, <1>9, <2>4, <3>2 DEF AloneInv, Own
  <2>6. CASE step[p] = Len(PartsIn)
    <3>1. \A j \in 1..Len(PartsIn) : j < step[p] + 1 /\ ~(j < 1)
      BY <1>4, <2>6
    <3>2. \A j \in 1..Len(PartsIn) : file'[PartsIn[j]] = Missing
      BY <2>3, <3>1
    <3>3. Replaced(p)'
      BY <1>4, <2>1, <2>6, <3>1, <3>2 DEF Replaced
    <3>4. Own(p)'
      BY <2>1, <2>6, <3>3 DEF Own, InitOK, ServeOK, CopiedOut, Guarded
    <3> QED
      BY <1>4, <1>6, <1>7, <1>9, <2>4, <3>4 DEF AloneInv, Own
  <2> QED
    BY <2>5, <2>6
<1> QED
  BY <1>10, <1>11

\* What a step of copying in does.
LEMMA EffectOfCopying ==
  ASSUME Sound, NEW p \in Procs, RestoreCopies(p)
  PROVE  LET f == PartsIn[step[p]] IN
         /\ f \in Files \ {"config", "log"}
         /\ file'[f] = backup.files[f] /\ \A g \in Files : g # f => file'[g] = file[g]
         /\ \/ step[p] = Len(PartsIn) /\ pc'[p] = "verify" /\ step'[p] = 1
            \/ step[p] # Len(PartsIn) /\ pc'[p] = "copy in" /\ step'[p] = step[p] + 1
<1> DEFINE f == PartsIn[step[p]]
<1>1. f \in Files \ {"config", "log"} /\ DOMAIN file = Files
  BY PartsAreFiles DEF Sound, Prepared, PreparedTo, Restoring, RestoreCopies, StoreTyped, IsDirectory
<1>2. \/ step[p] = Len(PartsIn) /\ pc'[p] = "verify" /\ step'[p] = 1
      \/ step[p] # Len(PartsIn) /\ pc'[p] = "copy in" /\ step'[p] = step[p] + 1
  BY Moves, GoesOn DEF Sound, RestoreCopies
<1>3. file' = [file EXCEPT ![f] = backup.files[f]]
  BY DEF RestoreCopies
<1> QED
  BY <1>1, <1>2, <1>3

\* The state of the backup comes in with the wallet last, so that it is never paired
\* with another LevelDB.
LEMMA RestoreCopiesAlone ==
  ASSUME Sound, AloneInv, Alone', NEW p \in Procs, RestoreCopies(p)
  PROVE  AloneInv'
<1> DEFINE f == PartsIn[step[p]]
<1>1. /\ Step(p) /\ pc[p] = "copy in" /\ pc[p] \in Restoring /\ aside' = aside
      /\ staging' = staging /\ memory' = memory /\ backup' = backup
  BY DEF Step, RestoreStep, RestoreCopies, Restoring
<1>2. /\ f \in Files \ {"config", "log"} /\ \A g \in Files : g # f => file'[g] = file[g]
      /\ file'[f] = backup.files[f]
      /\ \/ step[p] = Len(PartsIn) /\ pc'[p] = "verify" /\ step'[p] = 1
         \/ step[p] # Len(PartsIn) /\ pc'[p] = "copy in" /\ step'[p] = step[p] + 1
  BY EffectOfCopying
<1>3. file'.config = file.config
  BY <1>2, NamesOfFiles
<1>4. /\ file.config # Missing /\ backup # Missing /\ backup' = backup /\ PartsIn' = PartsIn
      /\ step[p] \in 1..Len(PartsIn) /\ Len(PartsIn) \in {3, 7}
      /\ \A q \in Procs : q # p => Own(q)'
  BY <1>1, <1>3, NextToRestore
<1>5. Unconfigured'
  BY <1>3, <1>4 DEF Unconfigured
<1>6. OneInit'
  <2>1. \A s \in Generated : /\ file[s] \in {Missing, file.config} /\ s \in Files
                             /\ backup.files[s] \in {Missing, file.config}
    BY <1>4, NamesOfFiles DEF AloneInv, OneInit, Generated
  <2>2. \A s \in Generated : file'[s] \in {Missing, file.config}
    BY <1>2, <2>1
  <2> QED
    BY <1>1, <1>3, <2>2 DEF AloneInv, OneInit
<1>7. BackupOK'
  BY <1>3, <1>4 DEF AloneInv, BackupOK
<1>8. \A j \in 1..Len(PartsIn) :
        file[PartsIn[j]] = IF j < step[p] THEN backup.files[PartsIn[j]] ELSE Missing
  BY <1>1 DEF AloneInv, Replaced
<1>9. \A j \in 1..Len(PartsIn) : PartsIn[j] \in Files /\ (PartsIn[j] = f => j = step[p])
  BY <1>4, PartsAreFiles DEF Sound
<1>10. \A j \in 1..Len(PartsIn) :
         file'[PartsIn[j]] = IF j < step[p] + 1 THEN backup.files[PartsIn[j]] ELSE Missing
  <2>1. SUFFICES ASSUME NEW j \in 1..Len(PartsIn)
                 PROVE  file'[PartsIn[j]] = IF j < step[p] + 1 THEN backup.files[PartsIn[j]] ELSE Missing
    OBVIOUS
  <2>2. CASE j = step[p]
    <3>1. j < step[p] + 1
      BY <1>4, <2>2
    <3> QED
      BY <1>2, <2>2, <3>1
  <2>3. CASE j # step[p]
    <3>1. file'[PartsIn[j]] = file[PartsIn[j]]
      BY <1>2, <1>9, <2>3
    <3>2. j < step[p] <=> j < step[p] + 1
      BY <1>4, <2>3
    <3> QED
      BY <1>8, <3>1, <3>2
  <2> QED
    BY <2>2, <2>3
<1>11. PairOK'
  <2>1. SUFFICES ASSUME file'.wallet # Missing
                 PROVE  file'.railgun # Missing /\ <<file'.wallet, file'.config>> \in file'.railgun
    BY DEF PairOK
  <2>2. /\ PartsIn[2] = "railgun" /\ PartsIn[3] = "wallet"
        /\ 2 \in 1..Len(PartsIn) /\ 3 \in 1..Len(PartsIn)
    BY <1>4, PartsOfRestore
  <2>3. 3 < step[p] + 1
    BY <1>10, <2>1, <2>2
  <2>4. 2 < step[p] + 1
    BY <1>4, <2>3
  <2>5. file'.wallet = backup.files.wallet /\ file'.railgun = backup.files.railgun
    BY <1>10, <2>2, <2>3, <2>4
  <2> QED
    BY <1>3, <1>4, <2>5, NamesOfFiles DEF AloneInv, BackupOK
<1>12. Own(p)'
  <2>1. CASE step[p] # Len(PartsIn)
    <3>1. Replaced(p)'
      BY <1>2, <1>4, <1>10, <2>1 DEF Replaced
    <3> QED
      BY <1>2, <2>1, <3>1 DEF Own, InitOK, ServeOK, CopiedOut, Guarded
  <2>2. CASE step[p] = Len(PartsIn)
    <3>1. \A j \in 1..Len(PartsIn) : j < step[p] + 1
      BY <1>4, <2>2
    <3>2. \A j \in 1..Len(PartsIn) : file'[PartsIn[j]] = backup.files[PartsIn[j]]
      BY <1>10, <3>1
    <3>3. Replaced(p)'
      BY <1>2, <1>4, <2>2, <3>2 DEF Replaced
    <3> QED
      BY <1>2, <2>2, <3>3 DEF Own, InitOK, ServeOK, CopiedOut, Guarded
  <2> QED
    BY <2>1, <2>2
<1> QED
  BY <1>4, <1>5, <1>6, <1>7, <1>11, <1>12 DEF AloneInv, Own

\* An operator who loses the directory or changes the viewing key finds nobody at work.
LEMMA OperatorAlone ==
  ASSUME Sound, AloneInv, DirectoryLost \/ ViewingKeyReplaced
  PROVE  AloneInv'
<1>1. pc' = pc /\ memory' = memory /\ \A q \in Procs : pc[q] \in Resting
  BY OperatorKeepsSound
<1>2. staging' = staging /\ backup' = backup /\ DOMAIN file = Files
  BY DEF DirectoryLost, ViewingKeyReplaced, Sound, StoreTyped, IsDirectory
<1>3. \A q \in Procs : Own(q)'
  BY <1>1 DEF Own, InitOK, ServeOK, CopiedOut, Replaced, Guarded, Restoring, Resting
<1>4. Alone'
  BY <1>1 DEF Alone
<1>5. CASE DirectoryLost
  <2>1. PICK kept \in {{"config"}, {"config"} \cup ToSet(Secrets)} :
          file' = [f \in Files |-> IF f \in kept THEN file[f] ELSE Missing]
    BY <1>5 DEF DirectoryLost
  <2>2. /\ file'.config = file.config /\ file.config # Missing /\ aside' = {}
        /\ file'.sqlite = Missing
    BY <1>5, <2>1, NamesOfFiles DEF DirectoryLost
  <2>3. \A s \in Generated : file'[s] \in {file[s], Missing}
    BY <2>1, NamesOfFiles DEF Generated
  <2>4. Unconfigured' /\ PairOK'
    BY <2>2 DEF Unconfigured, PairOK
  <2>5. OneInit'
    BY <1>2, <2>2, <2>3 DEF AloneInv, OneInit
  <2>6. BackupOK'
    BY <1>2, <2>2 DEF AloneInv, BackupOK
  <2> QED
    BY <1>3, <1>4, <2>4, <2>5, <2>6 DEF AloneInv, Own
<1>6. CASE ViewingKeyReplaced
  <2>1. \A f \in Files : f # "viewing" => file'[f] = file[f]
    BY <1>2, <1>6, NamesOfFiles DEF ViewingKeyReplaced
  <2>2. /\ file'.config = file.config /\ file'.sqlite = file.sqlite /\ file'.wallet = file.wallet
        /\ file'.railgun = file.railgun /\ aside' = aside
        /\ \A s \in Generated : file'[s] = file[s]
    BY <1>6, <2>1, NamesOfFiles DEF ViewingKeyReplaced, Generated
  <2>3. Unconfigured'
    BY <1>1, <2>2 DEF AloneInv, Unconfigured
  <2>4. PairOK'
    BY <2>2 DEF AloneInv, PairOK
  <2>5. OneInit'
    BY <1>2, <2>2 DEF AloneInv, OneInit
  <2>6. BackupOK'
    BY <1>2, <2>2 DEF AloneInv, BackupOK
  <2> QED
    BY <1>3, <1>4, <2>3, <2>4, <2>5, <2>6 DEF AloneInv, Own
<1> QED
  BY <1>5, <1>6

\* While nobody is disturbed, every step leaves files that belong together.
LEMMA StepKeepsAlone ==
  ASSUME Sound, AloneInv, NEW p \in Procs, Step(p), ~overlapped'
  PROVE  AloneInv'
<1>1. Alone'
  BY AloneKept DEF Sound, AloneInv
<1> QED
  BY <1>1, InitBeginsAlone, InitWritesAlone, ServeBeginsAlone, ServeLocksAlone,
     ServeLoadsWalletAlone, ServeWritesWalletAlone, ServeOpensLedgerAlone, ServeWritesAlone,
     ServeEndsAlone, BackupBeginsAlone, BackupCopiesAlone, BackupReadsSecretsAlone,
     BackupPublishesAlone, RestoreBeginsAlone, RestoreMovesAlone, RestoreCopiesAlone,
     RestoreVerifiesAlone, DiesAlone
  DEF Step, InitStep, ServeStep, BackupStep, RestoreStep

(***************************************************************************)
(* The directory is whole                                                  *)
(***************************************************************************)
\* When nobody restores, a directory that is whole and the secrets that were read are all.
LEMMA WithoutRestore ==
  ASSUME \A r \in Procs : pc'[r] \notin Restoring,
         Whole',
         \A q \in Procs : pc'[q] \in Guarded \cup {"lock"} => memory'[q] = PrintsOf(file')
  PROVE  UndisturbedInv'
<1>1. \A q \in Procs : ReadTheSecrets(q)'
  BY DEF ReadTheSecrets, Restoring
<1>2. \A q \in Procs : RestoresItsOwn(q)'
  BY DEF RestoresItsOwn
<1> QED
  BY <1>1, <1>2 DEF UndisturbedInv

\* A step beside a restore, or without one, that touches at most what the ledger holds.
LEMMA QuietStepUndisturbed ==
  ASSUME Sound, AloneInv, UndisturbedInv, NEW p \in Procs, Step(p),
         \A f \in Files \ Ledger : file'[f] = file[f],
         file'.sqlite = Missing <=> file.sqlite = Missing,
         aside' = aside, hadLedger' = hadLedger, pc[p] \notin Restoring, pc'[p] \notin Restoring,
         pc'[p] \in Guarded \cup {"lock"} => ReadTheSecrets(p)'
  PROVE  UndisturbedInv'
<1>1. Keeps /\ \A q \in Procs : q # p => Untouched(q)
  BY OneProcessMoves, NothingIsTakenBack DEF Sound
<1>2. \A r \in Procs : /\ pc'[r] \in Restoring => pc[r] = pc'[r] /\ r # p /\ option'[r] = option[r]
                       /\ pc[r] \in Restoring => pc'[r] \in Restoring
  BY <1>1 DEF Untouched
<1>3. \A r \in Procs : pc[r] \in Restoring => backup # Missing /\ backup' = backup
  BY <1>1, PartsStay DEF Sound, Prepared, PreparedTo
<1>9. /\ file'.config = file.config
      /\ \A s \in Identity \cup Generated : file'[s] = file[s]
  BY NamesOfFiles DEF Ledger, Identity, Generated
<1>4. PrintsOf(file') = PrintsOf(file) /\ Whole' = Whole /\ AllKeys' = AllKeys /\ NoKeys' = NoKeys
  <2>1. PrintsOf(file') = PrintsOf(file)
    BY <1>9 DEF PrintsOf
  <2>2. AllKeys' = AllKeys /\ NoKeys' = NoKeys
    BY <1>9 DEF AllKeys, NoKeys
  <2> QED
    BY <1>9, <2>1, <2>2 DEF Whole
<1>5. (\A r \in Procs : pc'[r] \notin Restoring) => Whole'
  BY <1>2, <1>4 DEF UndisturbedInv
<1>6. ASSUME NEW q \in Procs, q # p PROVE ReadTheSecrets(q)'
  <2>1. ReadTheSecrets(q) /\ Untouched(q)
    BY <1>1, <1>6 DEF UndisturbedInv
  <2>2. SUFFICES ASSUME pc'[q] \in Guarded \cup {"lock"} PROVE ReadTheSecrets(q)'
    BY DEF ReadTheSecrets
  <2>3. /\ (\A r \in Procs : pc[r] \notin Restoring) => memory[q] = PrintsOf(file)
        /\ \A r \in Procs : pc[r] \in Restoring => memory[q] = backup.prints
        /\ \A r \in Procs : pc[r] = "move" /\ ~option[r] => memory[q] = PrintsOf(file)
    BY <2>1, <2>2 DEF ReadTheSecrets, Untouched
  <2>4. memory'[q] = memory[q]
    BY <2>1 DEF Untouched
  <2>5. (\A r \in Procs : pc'[r] \notin Restoring) => memory'[q] = PrintsOf(file')
    BY <1>2, <1>4, <2>3, <2>4
  <2>6. \A r \in Procs : pc'[r] \in Restoring => memory'[q] = backup'.prints
    BY <1>2, <1>3, <2>3, <2>4
  <2>7. \A r \in Procs : pc'[r] = "move" /\ ~option'[r] => memory'[q] = PrintsOf(file')
    BY <1>2, <1>4, <2>3, <2>4 DEF Restoring
  <2> QED
    BY <2>5, <2>6, <2>7 DEF ReadTheSecrets
<1>7. ReadTheSecrets(p)'
  BY DEF ReadTheSecrets
<1>8. ASSUME NEW r \in Procs PROVE RestoresItsOwn(r)'
  <2>1. SUFFICES ASSUME pc'[r] \in Restoring PROVE RestoresItsOwn(r)'
    BY DEF RestoresItsOwn
  <2>2. /\ pc[r] \in Restoring /\ pc'[r] = pc[r] /\ option'[r] = option[r] /\ backup' = backup
        /\ RestoresItsOwn(r)
    BY <1>2, <1>3, <2>1 DEF UndisturbedInv
  <2> QED
    BY <1>4, <1>9, <2>2 DEF RestoresItsOwn
<1> QED
  BY <1>5, <1>6, <1>7, <1>8 DEF UndisturbedInv

\* A secret that is there while a restore is at work is the one the backup was taken with.
LEMMA SecretsDuringRestore ==
  ASSUME Sound, AloneInv, NEW r \in Procs, RestoresItsOwn(r), pc[r] \in Restoring,
         \A s \in Identity : file[s] # Missing
  PROVE  PrintsOf(file) = backup.prints
<1>1. backup # Missing /\ backup.prints \in Prints
  BY DEF Sound, StoreTyped, Prepared, PreparedTo
<1>2. CASE ~backup.containsSecrets
  BY <1>2 DEF RestoresItsOwn
<1>3. CASE backup.containsSecrets
  <2>1. \A s \in Identity : file[s] = backup.prints[s]
    <3>1. CASE pc[r] = "move"
      BY <3>1 DEF RestoresItsOwn
    <3>2. CASE pc[r] = "copy in"
      <4>1. PrintsOf(backup.files) = backup.prints
        BY <1>3 DEF RestoresItsOwn
      <4>2. \A s \in Identity : backup.prints[s] = backup.files[s]
        BY <4>1 DEF PrintsOf
      <4>3. /\ 5 \in 1..Len(PartsIn) /\ 6 \in 1..Len(PartsIn) /\ 7 \in 1..Len(PartsIn)
            /\ PartsIn[5] = "signer" /\ PartsIn[6] = "dbKey" /\ PartsIn[7] = "viewing"
        <5>1. /\ Len(PartsIn) = 7
              /\ PartsIn[5] = "signer" /\ PartsIn[6] = "dbKey" /\ PartsIn[7] = "viewing"
          BY <1>3, PartsOfRestore
        <5> QED
          BY <5>1
      <4>4. \A j \in 1..Len(PartsIn) : file[PartsIn[j]] \in {Missing, backup.files[PartsIn[j]]}
        BY <3>2 DEF AloneInv, Replaced
      <4>5. \A s \in Identity : file[s] \in {Missing, backup.files[s]}
        BY <4>3, <4>4 DEF Identity
      <4> QED
        BY <4>2, <4>5
    <3> QED
      BY <3>1, <3>2 DEF Restoring
  <2>2. backup.prints = [s \in Identity |-> backup.prints[s]]
    BY <1>1 DEF Prints
  <2>3. [s \in Identity |-> file[s]] = [s \in Identity |-> backup.prints[s]]
    BY <2>1
  <2> QED
    BY <2>2, <2>3 DEF PrintsOf
<1> QED
  BY <1>2, <1>3

\* Who waits for the lock has read the secrets that are there.
LEMMA ServeBeginsUndisturbed ==
  ASSUME Sound, AloneInv, UndisturbedInv, NEW p \in Procs, ServeBegins(p)
  PROVE  UndisturbedInv'
<1>1. /\ Step(p) /\ file' = file /\ aside' = aside /\ hadLedger' = hadLedger /\ backup' = backup
      /\ option' = option /\ pc[p] = "idle"
  BY DEF Step, ServeStep, ServeBegins, Begins, History
<1>2. pc'[p] \in {"lock", "failed"}
  BY Moves DEF Sound, ServeBegins
<1>3. \A q \in Procs : q # p => pc'[q] = pc[q]
  BY <1>1, OneProcessMoves DEF Sound, Untouched
<1>4. ASSUME pc'[p] = "lock" PROVE ReadTheSecrets(p)'
  <2>1. memory'[p] = PrintsOf(file) /\ \A s \in Identity : file[s] # Missing
    BY <1>4, Moves, NamesOfFiles DEF Sound, StoreTyped, ServeBegins, Identity
  <2>2. PrintsOf(file') = PrintsOf(file)
    BY <1>1
  <2>3. \A r \in Procs : pc'[r] \in Restoring => memory'[p] = backup'.prints
    <3>1. ASSUME NEW r \in Procs, pc'[r] \in Restoring PROVE memory'[p] = backup'.prints
      <4>1. r # p /\ pc[r] \in Restoring
        BY <1>2, <1>3, <3>1 DEF Restoring
      <4>2. RestoresItsOwn(r)
        BY DEF UndisturbedInv
      <4> QED
        BY <1>1, <2>1, <4>1, <4>2, SecretsDuringRestore
    <3> QED
      BY <3>1
  <2> QED
    BY <2>1, <2>2, <2>3 DEF ReadTheSecrets
<1>6. pc[p] \notin Restoring /\ pc'[p] \notin Restoring /\ (pc'[p] \in Guarded \cup {"lock"} => pc'[p] = "lock")
  BY <1>1, <1>2 DEF Restoring, Guarded
<1> QED
  BY <1>1, <1>4, <1>6, QuietStepUndisturbed

\* A backup changes no file.
LEMMA BackupPublishesUndisturbed ==
  ASSUME Sound, AloneInv, UndisturbedInv, NEW p \in Procs, BackupPublishes(p)
  PROVE  UndisturbedInv'
<1>1. /\ Step(p) /\ file' = file /\ aside' = aside /\ hadLedger' = hadLedger
      /\ pc[p] = "copy secrets"
  BY DEF Step, BackupStep, BackupPublishes, History
<1>2. pc'[p] \in {"done", "failed"}
  BY Moves DEF Sound, BackupPublishes
<1>3. pc[p] \notin Restoring /\ pc'[p] \notin Restoring /\ pc'[p] \notin Guarded \cup {"lock"}
  BY <1>1, <1>2 DEF Restoring, Guarded
<1> QED
  BY <1>1, <1>3, QuietStepUndisturbed

\* init reads the directory.
LEMMA InitBeginsUndisturbed ==
  ASSUME Sound, AloneInv, UndisturbedInv, NEW p \in Procs, InitBegins(p)
  PROVE  UndisturbedInv'
<1>1. /\ Step(p) /\ file' = file /\ aside' = aside /\ hadLedger' = hadLedger /\ backup' = backup
  BY DEF Step, InitStep, InitBegins, History
<1>2. pc[p] \in {"idle"} /\ pc'[p] \in {"init", "failed"}
  BY Moves, GoesOn, EntersTyped DEF Sound, InitBegins, Begins
<1>3. pc[p] \notin Restoring /\ pc'[p] \notin Restoring
  BY <1>2 DEF Restoring
<1>4. pc'[p] \notin Guarded \cup {"lock"}
  BY <1>2 DEF Guarded
<1> QED
  BY <1>1, <1>3, <1>4, QuietStepUndisturbed

\* Behind the lock a serve still has the secrets it read.
LEMMA ServeLocksUndisturbed ==
  ASSUME Sound, AloneInv, UndisturbedInv, NEW p \in Procs, ServeLocks(p)
  PROVE  UndisturbedInv'
<1>1. /\ Step(p) /\ file' = file /\ aside' = aside /\ hadLedger' = hadLedger /\ backup' = backup
  BY DEF Step, ServeStep, ServeLocks, History
<1>2. pc[p] \in {"lock"} /\ pc'[p] \in {"load wallet", "failed"}
  BY Moves, GoesOn, EntersTyped DEF Sound, ServeLocks, Begins
<1>3. pc[p] \notin Restoring /\ pc'[p] \notin Restoring
  BY <1>2 DEF Restoring
<1>4. option' = option /\ memory' = memory /\ \A q \in Procs : q # p => pc'[q] = pc[q]
  BY <1>1, OneProcessMoves DEF Sound, Untouched, ServeLocks
<1>5. ReadTheSecrets(p)'
  <2>1. /\ (\A r \in Procs : pc[r] \notin Restoring) => memory[p] = PrintsOf(file)
        /\ \A r \in Procs : pc[r] \in Restoring => memory[p] = backup.prints
        /\ \A r \in Procs : pc[r] = "move" /\ ~option[r] => memory[p] = PrintsOf(file)
    BY <1>2 DEF UndisturbedInv, ReadTheSecrets
  <2>2. \A r \in Procs : /\ pc'[r] \in Restoring <=> pc[r] \in Restoring
                         /\ pc'[r] = "move" => pc[r] = "move"
    BY <1>2, <1>3, <1>4
  <2>3. PrintsOf(file') = PrintsOf(file)
    BY <1>1
  <2> QED
    BY <1>1, <1>4, <2>1, <2>2, <2>3 DEF ReadTheSecrets
<1> QED
  BY <1>1, <1>3, <1>5, QuietStepUndisturbed

\* A serve that ends forgets them, and closes the database.
LEMMA ServeEndsUndisturbed ==
  ASSUME Sound, AloneInv, UndisturbedInv, NEW p \in Procs, ServeEnds(p)
  PROVE  UndisturbedInv'
<1>1. /\ Step(p) /\ aside' = aside /\ hadLedger' = hadLedger
  BY DEF Step, ServeStep, ServeEnds, History
<1>2. pc[p] \in {"serving", "unlock"} /\ pc'[p] \in {"served", "failed"}
  BY Moves DEF Sound, ServeEnds
<1>3. pc[p] \notin Restoring /\ pc'[p] \notin Restoring
  BY <1>2 DEF Restoring
<1>4. pc'[p] \notin Guarded \cup {"lock"}
  BY <1>2 DEF Guarded
<1>5. /\ \A f \in Files \ Ledger : file'[f] = file[f]
      /\ file'.sqlite = Missing <=> file.sqlite = Missing
  <2>1. CASE pc[p] = "serving" /\ file.sqlite # Missing
    BY <2>1, EffectOfClosing DEF Sound, StoreTyped, ServeEnds
  <2>2. CASE ~(pc[p] = "serving" /\ file.sqlite # Missing)
    BY <2>2 DEF ServeEnds
  <2> QED
    BY <2>1, <2>2
<1> QED
  BY <1>1, <1>3, <1>4, <1>5, QuietStepUndisturbed

\* A backup begins in a whole directory.
LEMMA BackupBeginsUndisturbed ==
  ASSUME Sound, AloneInv, UndisturbedInv, NEW p \in Procs, BackupBegins(p)
  PROVE  UndisturbedInv'
<1>1. /\ Step(p) /\ file' = file /\ aside' = aside /\ hadLedger' = hadLedger /\ backup' = backup
  BY DEF Step, BackupStep, BackupBegins, History
<1>2. pc[p] \in {"idle"} /\ pc'[p] \in {"copy out", "failed"}
  BY Moves, GoesOn, EntersTyped DEF Sound, BackupBegins, Begins
<1>3. pc[p] \notin Restoring /\ pc'[p] \notin Restoring
  BY <1>2 DEF Restoring
<1>4. pc'[p] \notin Guarded \cup {"lock"}
  BY <1>2 DEF Guarded
<1> QED
  BY <1>1, <1>3, <1>4, QuietStepUndisturbed

\* A backup changes no file.
LEMMA BackupCopiesUndisturbed ==
  ASSUME Sound, AloneInv, UndisturbedInv, NEW p \in Procs, BackupCopies(p)
  PROVE  UndisturbedInv'
<1>1. /\ Step(p) /\ file' = file /\ aside' = aside /\ hadLedger' = hadLedger /\ backup' = backup
  BY DEF Step, BackupStep, BackupCopies, History
<1>2. pc[p] \in {"copy out", "copy secrets"} /\ pc'[p] \in {"copy out", "copy secrets", "failed"}
  BY Moves, GoesOn, EntersTyped DEF Sound, BackupCopies, Begins
<1>3. pc[p] \notin Restoring /\ pc'[p] \notin Restoring
  BY <1>2 DEF Restoring
<1>4. pc'[p] \notin Guarded \cup {"lock"}
  BY <1>2 DEF Guarded
<1> QED
  BY <1>1, <1>3, <1>4, QuietStepUndisturbed

\* A backup changes no file.
LEMMA BackupReadsSecretsUndisturbed ==
  ASSUME Sound, AloneInv, UndisturbedInv, NEW p \in Procs, BackupReadsSecrets(p)
  PROVE  UndisturbedInv'
<1>1. /\ Step(p) /\ file' = file /\ aside' = aside /\ hadLedger' = hadLedger /\ backup' = backup
  BY DEF Step, BackupStep, BackupReadsSecrets, History
<1>2. pc[p] \in {"copy out"} /\ pc'[p] \in {"copy secrets", "failed"}
  BY Moves, GoesOn, EntersTyped DEF Sound, BackupReadsSecrets, Begins
<1>3. pc[p] \notin Restoring /\ pc'[p] \notin Restoring
  BY <1>2 DEF Restoring
<1>4. pc'[p] \notin Guarded \cup {"lock"}
  BY <1>2 DEF Guarded
<1> QED
  BY <1>1, <1>3, <1>4, QuietStepUndisturbed

\* A restore is over before it verifies.
LEMMA RestoreVerifiesUndisturbed ==
  ASSUME Sound, AloneInv, UndisturbedInv, NEW p \in Procs, RestoreVerifies(p)
  PROVE  UndisturbedInv'
<1>1. /\ Step(p) /\ aside' = aside /\ hadLedger' = hadLedger
  BY DEF Step, RestoreStep, RestoreVerifies, History
<1>2. pc[p] = "verify" /\ pc'[p] \in {"done", "failed"}
  BY Moves DEF Sound, RestoreVerifies
<1>3. pc[p] \notin Restoring /\ pc'[p] \notin Restoring
  BY <1>2 DEF Restoring
<1>4. pc'[p] \notin Guarded \cup {"lock"}
  BY <1>2 DEF Guarded
<1>5. file.sqlite = backup.files.sqlite /\ file.sqlite # Missing
  BY <1>2, RestoredLedger
<1>6. /\ \A f \in Files \ Ledger : file'[f] = file[f]
      /\ file'.sqlite # Missing
  BY <1>5, EffectOfClosing DEF Sound, StoreTyped, RestoreVerifies
<1> QED
  BY <1>1, <1>3, <1>4, <1>5, <1>6, QuietStepUndisturbed

\* Who dies outside a restore leaves a whole directory.
LEMMA DiesUndisturbed ==
  ASSUME Sound, AloneInv, UndisturbedInv, NEW p \in Procs, Dies(p), ~torn'
  PROVE  UndisturbedInv'
<1>1. /\ Step(p) /\ file' = file /\ aside' = aside /\ hadLedger' = hadLedger /\ backup' = backup
  BY DEF Step, Dies, History
<1>2. pc'[p] \in {"dead"}
  BY Moves, GoesOn, EntersTyped DEF Sound, Dies, Begins
<1>3. pc[p] \notin Restoring /\ pc'[p] \notin Restoring
  BY <1>2 DEF Restoring, Dies
<1>4. pc'[p] \notin Guarded \cup {"lock"}
  BY <1>2 DEF Guarded
<1> QED
  BY <1>1, <1>3, <1>4, QuietStepUndisturbed

\* A restore begins in a whole directory, with the secrets of the backup.
LEMMA RestoreBeginsUndisturbed ==
  ASSUME Sound, AloneInv, UndisturbedInv, NEW p \in Procs, RestoreBegins(p), ~overlapped'
  PROVE  UndisturbedInv'
<1>1. /\ Step(p) /\ file' = file /\ aside' = aside /\ hadLedger' = hadLedger /\ backup' = backup
      /\ pc[p] = "idle"
  BY DEF Step, RestoreStep, RestoreBegins, Begins, History
<1>3. CASE ~(file.config # Missing /\ Unlocked /\ backup # Missing /\ SecretsAgree)
  <2>1. pc'[p] = "failed"
    BY <1>3, Moves DEF Sound, RestoreBegins
  <2> QED
    BY <1>1, <2>1, QuietStepUndisturbed DEF Restoring, Guarded
<1>4. CASE file.config # Missing /\ Unlocked /\ backup # Missing /\ SecretsAgree
  <2>1. Enter(p, "move") /\ pc'[p] = "move"
    BY <1>4, Moves, EntersTyped DEF Sound, RestoreBegins
  <2>2. ~Meets(p, "move")
    BY <2>1 DEF Enter
  <2>3. \A q \in Procs : q # p => pc[q] \in Resting /\ pc'[q] = pc[q]
    <3>1. \A q \in Procs : q # p => pc'[q] = pc[q]
      BY <1>1, OneProcessMoves DEF Sound, Untouched
    <3> QED
      BY <2>2, <3>1 DEF Meets, Active, Offline
  <2>4. \A r \in Procs : pc[r] \notin Restoring
    BY <1>1, <2>3 DEF Restoring, Resting
  <2>5. Whole
    BY <2>4 DEF UndisturbedInv
  <2>6. \A q \in Procs : pc'[q] \notin Guarded \cup {"lock"}
    BY <2>1, <2>3 DEF Guarded, Resting
  <2>7. \A q \in Procs : q # p => pc'[q] \notin Restoring
    BY <2>3 DEF Restoring, Resting
  <2>8. /\ Whole' = Whole /\ PrintsOf(file') = PrintsOf(file)
        /\ AllKeys' = AllKeys /\ NoKeys' = NoKeys
    BY <1>1 DEF Whole, AllKeys, NoKeys
  <2>9. /\ backup.containsSecrets => PrintsOf(backup.files) = backup.prints
        /\ ~backup.containsSecrets => PrintsOf(file) = backup.prints
        /\ (\A s \in Identity : file[s] = Missing) \/ PrintsOf(file) = backup.prints
    BY <1>4 DEF SecretsAgree, SecretsMatch
  <2>10. AllKeys \/ NoKeys
    BY <1>4, <2>5 DEF Whole
  <2>11. \A s \in Identity : file[s] \in {Missing, backup.prints[s]}
    BY <2>9 DEF PrintsOf
  <2>13. RestoresItsOwn(p)'
    <3>1. /\ backup'.containsSecrets => PrintsOf(backup'.files) = backup'.prints
          /\ ~backup'.containsSecrets => PrintsOf(file') = backup'.prints /\ (AllKeys' \/ NoKeys')
      BY <1>1, <2>8, <2>9, <2>10
    <3>2. \A s \in Identity : file'[s] \in {Missing, backup'.prints[s]}
      BY <1>1, <2>11
    <3>3. NoKeys' \/ \A s \in Generated : file'[s] = file'.config \/ <<s, file'.config>> \in aside'
      <4>1. CASE NoKeys
        BY <2>8, <4>1
      <4>2. CASE AllKeys
        BY <1>1, <4>2 DEF AllKeys
      <4> QED
        BY <2>10, <4>1, <4>2
    <3>4. Whole'
      BY <2>5, <2>8
    <3> QED
      BY <3>1, <3>2, <3>3, <3>4 DEF RestoresItsOwn
  <2> QED
    BY <2>1, <2>6, <2>7, <2>13 DEF UndisturbedInv, ReadTheSecrets, RestoresItsOwn, Restoring
<1> QED
  BY <1>3, <1>4

\* init makes a configuration whole with its last file.
LEMMA InitWritesUndisturbed ==
  ASSUME Sound, AloneInv, UndisturbedInv, NEW p \in Procs, InitWrites(p)
  PROVE  UndisturbedInv'
<1> DEFINE f == InitFiles[step[p]]
<1>1. /\ Step(p) /\ aside' = aside /\ hadLedger' = hadLedger /\ backup' = backup /\ memory' = memory
      /\ pc[p] = "init" /\ step[p] \in 1..4
  BY DEF Step, InitStep, InitWrites, History, Sound, Prepared, PreparedTo
<1>2. pc'[p] \in {"init", "done", "failed"}
  BY <1>1, Moves, GoesOn DEF Sound, InitWrites
<1>4. CASE file' = file
  BY <1>1, <1>2, <1>4, QuietStepUndisturbed DEF Restoring, Guarded
<1>5. CASE file' # file
  <2>1. file' = [file EXCEPT ![f] = p] /\ file[f] = Missing
    BY <1>5 DEF InitWrites
  <2>2. InitFiles[1] = "token" /\ InitFiles[2] = "signer" /\ InitFiles[3] = "dbKey" /\ InitFiles[4] = "config"
    BY DEF InitFiles
  <2>3. file.config = Missing
    <3>1. file.config # Missing => step[p] = 1 /\ file.token # Missing
      BY <1>1 DEF AloneInv, InitOK
    <3> QED
      BY <2>1, <2>2, <3>1
  <2>4. \A j \in 1..4 : j < step[p] => file[InitFiles[j]] = p
    BY <1>1, <2>3 DEF AloneInv, InitOK
  <2>5. f \in {"token", "signer", "dbKey", "config"} /\ f \in Files /\ DOMAIN file = Files
    <3>1. f \in {"token", "signer", "dbKey", "config"}
      BY <1>1, <2>2
    <3> QED
      BY <3>1, NamesOfFiles DEF Sound, StoreTyped, IsDirectory
  <2>6. /\ \A g \in Files : g # f => file'[g] = file[g]
        /\ file'[f] = p
    BY <2>1, <2>5
  <2>7. \A q \in Procs : q # p => pc'[q] = pc[q]
    BY <1>1, OneProcessMoves DEF Sound, Untouched
  <2>8. \A q \in Procs : pc'[q] \notin Restoring /\ pc'[q] \notin Guarded \cup {"lock"}
    <3>1. \A q \in Procs : pc[q] \in Resting \cup {"init"}
      BY <2>3 DEF AloneInv, Unconfigured
    <3> QED
      BY <1>2, <2>7, <3>1 DEF Restoring, Resting, Guarded
  <2>9. \A q \in Procs : pc[q] \notin Restoring
    BY <2>3 DEF AloneInv, Unconfigured, Restoring, Resting
  <2>10. file.sqlite = Missing /\ file'.sqlite = Missing /\ ~hadLedger'
    <3>1. file.sqlite = Missing
      BY <2>3 DEF AloneInv, Unconfigured
    <3>2. file'.sqlite = file.sqlite
      BY <2>5, <2>6, NamesOfFiles
    <3> QED
      BY <1>1, <2>9, <3>1, <3>2 DEF UndisturbedInv, Whole
  <2>11. file'.config # Missing => AllKeys'
    <3>1. SUFFICES ASSUME file'.config # Missing PROVE AllKeys'
      OBVIOUS
    <3>2. f = "config"
      BY <2>3, <2>6, <3>1, NamesOfFiles
    <3>3. step[p] = 4
      BY <1>1, <2>2, <3>2
    <3>4. file.token = p /\ file.signer = p /\ file.dbKey = p
      BY <2>2, <2>4, <3>3
    <3> QED
      BY <2>6, <3>2, <3>4, NamesOfFiles DEF AllKeys, Generated
  <2>12. Whole'
    BY <2>10, <2>11 DEF Whole
  <2> QED
    BY <2>8, <2>12, WithoutRestore
<1> QED
  BY <1>4, <1>5

\* A serve writes where nobody restores, and knows the secrets that are there.
LEMMA ServeUndisturbed ==
  ASSUME Sound, AloneInv, UndisturbedInv, NEW p \in Procs, Step(p), pc[p] \in Guarded,
         pc'[p] \in Guarded, ServeKeeps(p), Whole => Whole'
  PROVE  UndisturbedInv'
<1>1. \A q \in Procs : q # p => pc[q] \in Resting \cup {"lock", "init"}
  BY NextToServe DEF AloneInv
<1>2. \A q \in Procs : pc[q] \notin Restoring
  BY <1>1 DEF Restoring, Resting, Guarded
<1>3. \A q \in Procs : q # p => pc'[q] = pc[q]
  BY OneProcessMoves DEF Sound, Untouched
<1>4. \A q \in Procs : pc'[q] \notin Restoring
  BY <1>1, <1>3 DEF Restoring, Resting, Guarded
<1>5. PrintsOf(file') = PrintsOf(file)
  <2>1. \A s \in Identity : file'[s] = file[s]
    BY NamesOfFiles DEF ServeKeeps, Identity
  <2> QED
    BY <2>1 DEF PrintsOf
<1>6. \A q \in Procs : pc'[q] \in Guarded \cup {"lock"} => memory'[q] = PrintsOf(file')
  <2>1. \A q \in Procs : pc[q] \in Guarded \cup {"lock"} => memory[q] = PrintsOf(file)
    BY <1>2 DEF UndisturbedInv, ReadTheSecrets
  <2> QED
    BY <1>3, <1>5, <2>1 DEF ServeKeeps
<1>7. Whole'
  BY <1>2 DEF UndisturbedInv
<1> QED
  BY <1>4, <1>6, <1>7, WithoutRestore

\* Loading or making the wallet leaves ledger and secrets as they are.
LEMMA ServeLoadsWalletUndisturbed ==
  ASSUME Sound, AloneInv, UndisturbedInv, NEW p \in Procs, ServeLoadsWallet(p)
  PROVE  UndisturbedInv'
<1>1. Step(p) /\ pc[p] \in Guarded /\ DOMAIN file = Files
  BY DEF Step, ServeStep, ServeLoadsWallet, Guarded, Sound, StoreTyped, IsDirectory
<1>2. pc'[p] \in {"open ledger", "unlock", "write wallet"}
  BY Moves DEF Sound, ServeLoadsWallet
<1>3. PICK ws : file' = [file EXCEPT !.railgun = ws]
  BY DEF ServeLoadsWallet
<1>4. \A f \in Files : f # "railgun" => file'[f] = file[f]
  BY <1>1, <1>3
<1>5. ServeKeeps(p) /\ hadLedger' = hadLedger
  BY <1>4, NamesOfFiles DEF ServeKeeps, ServeLoadsWallet, History
<1>6. file'.sqlite = file.sqlite /\ file'.wallet = file.wallet
  BY <1>4, NamesOfFiles
<1>7. Whole => Whole'
  <2>1. file'.config = file.config /\ \A s \in Generated : file'[s] = file[s]
    BY <1>5, NamesOfFiles DEF ServeKeeps, Generated
  <2>2. (AllKeys => AllKeys') /\ (NoKeys => NoKeys')
    BY <2>1 DEF AllKeys, NoKeys
  <2> QED
    BY <1>5, <1>6, <2>1, <2>2 DEF Whole
<1> QED
  BY <1>1, <1>2, <1>5, <1>7, ServeUndisturbed DEF Guarded

\* Naming the wallet leaves ledger and secrets as they are.
LEMMA ServeWritesWalletUndisturbed ==
  ASSUME Sound, AloneInv, UndisturbedInv, NEW p \in Procs, ServeWritesWallet(p)
  PROVE  UndisturbedInv'
<1>1. Step(p) /\ pc[p] = "write wallet" /\ pc[p] \in Guarded /\ DOMAIN file = Files
  BY DEF Step, ServeStep, ServeWritesWallet, Guarded, Sound, StoreTyped, IsDirectory
<1>2. pc'[p] \in {"unlock", "open ledger"}
  BY Moves DEF Sound, ServeWritesWallet
<1>3. file.wallet = Missing /\ file' = [file EXCEPT !.wallet = memory[p].viewing]
  BY <1>1 DEF AloneInv, ServeOK, ServeWritesWallet
<1>4. \A f \in Files : f # "wallet" => file'[f] = file[f]
  BY <1>1, <1>3
<1>5. ServeKeeps(p) /\ hadLedger' = hadLedger
  BY <1>4, NamesOfFiles DEF ServeKeeps, ServeWritesWallet, History
<1>6. file'.sqlite = file.sqlite
  BY <1>4, NamesOfFiles
<1>7. Whole => Whole'
  <2>1. file'.config = file.config /\ \A s \in Generated : file'[s] = file[s]
    BY <1>5, NamesOfFiles DEF ServeKeeps, Generated
  <2>2. (AllKeys => AllKeys') /\ (NoKeys => NoKeys')
    BY <2>1 DEF AllKeys, NoKeys
  <2> QED
    BY <1>5, <1>6, <2>1, <2>2 DEF Whole
<1> QED
  BY <1>1, <1>2, <1>5, <1>7, ServeUndisturbed DEF Guarded

\* A directory that is whole stays so when its database is opened.
LEMMA ServeOpensLedgerUndisturbed ==
  ASSUME Sound, AloneInv, UndisturbedInv, NEW p \in Procs, ServeOpensLedger(p)
  PROVE  UndisturbedInv'
<1>1. Step(p) /\ pc[p] \in Guarded
  BY DEF Step, ServeStep, ServeOpensLedger, Guarded
<1>2. pc'[p] \in {"serving", "unlock"}
  BY Moves DEF Sound, ServeOpensLedger
<1>3. /\ \A f \in Files \ Ledger : file'[f] = file[f]
      /\ file'.sqlite # Missing
  BY EffectOfOpening DEF Sound, StoreTyped
<1>4. ServeKeeps(p)
  BY <1>3, NamesOfFiles DEF ServeKeeps, ServeOpensLedger, Ledger
<1>5. Whole => Whole'
  <2>1. file'.config = file.config /\ \A s \in Generated : file'[s] = file[s]
    BY <1>4, NamesOfFiles DEF ServeKeeps, Generated
  <2>2. (AllKeys => AllKeys') /\ (NoKeys => NoKeys')
    BY <2>1 DEF AllKeys, NoKeys
  <2> QED
    BY <1>3, <2>1, <2>2 DEF Whole
<1> QED
  BY <1>1, <1>2, <1>4, <1>5, ServeUndisturbed DEF Guarded

\* A ledger that is written to is there.
LEMMA ServeWritesUndisturbed ==
  ASSUME Sound, AloneInv, UndisturbedInv, NEW p \in Procs, ServeWrites(p)
  PROVE  UndisturbedInv'
<1>1. Step(p) /\ pc[p] = "serving" /\ pc[p] \in Guarded /\ pc' = pc
  BY DEF Step, ServeStep, ServeWrites, Guarded
<1>2. /\ \A f \in Files \ Ledger : file'[f] = file[f]
      /\ file'.sqlite # Missing
  BY EffectOfWriting DEF Sound
<1>3. ServeKeeps(p)
  BY <1>2, NamesOfFiles DEF ServeKeeps, ServeWrites, Ledger
<1>4. Whole => Whole'
  <2>1. file'.config = file.config /\ \A s \in Generated : file'[s] = file[s]
    BY <1>3, NamesOfFiles DEF ServeKeeps, Generated
  <2>2. (AllKeys => AllKeys') /\ (NoKeys => NoKeys')
    BY <2>1 DEF AllKeys, NoKeys
  <2> QED
    BY <1>2, <2>1, <2>2 DEF Whole
<1> QED
  BY <1>1, <1>3, <1>4, ServeUndisturbed

\* The parts of a restore and the identity of a directory.
LEMMA StatePartsAreNoKeys ==
  ASSUME StoreTyped, backup # Missing, ~backup.containsSecrets, NEW j \in 1..Len(PartsIn)
  PROVE  PartsIn[j] \notin Identity \cup Generated
<1>1. Len(PartsIn) = 3 /\ PartsIn[1] = "sqlite" /\ PartsIn[2] = "railgun" /\ PartsIn[3] = "wallet"
  BY PartsOfRestore
<1>2. j = 1 \/ j = 2 \/ j = 3
  BY <1>1
<1> QED
  BY <1>1, <1>2 DEF Identity, Generated

\* What a restore has moved aside it puts back, and until then it remembers what it was.
LEMMA RestoreMovesUndisturbed ==
  ASSUME Sound, AloneInv, AloneInv', UndisturbedInv, NEW p \in Procs, RestoreMoves(p)
  PROVE  UndisturbedInv'
<1> DEFINE f == PartsIn[step[p]]
<1>1. /\ Step(p) /\ pc[p] = "move" /\ pc[p] \in Restoring
      /\ memory' = memory /\ option' = option /\ hadLedger' = hadLedger
  BY DEF Step, RestoreStep, RestoreMoves, Restoring, History
<1>2. f \in Files \ {"config", "log"} /\ \A g \in Files : g # f => file'[g] = file[g]
  BY EffectOfMoving
<1>3. file'.config = file.config
  BY <1>2, NamesOfFiles
<1>4. /\ file.config # Missing /\ backup # Missing /\ backup' = backup /\ PartsIn' = PartsIn
      /\ step[p] \in 1..Len(PartsIn) /\ Len(PartsIn) \in {3, 7}
      /\ \A q \in Procs : q # p => pc[q] \in Resting \cup {"lock"} /\ Untouched(q)
  BY <1>1, <1>3, NextToRestore
<1>6. \A q \in Procs : q # p => pc'[q] \notin Restoring /\ pc'[q] = pc[q]
  BY <1>4 DEF Untouched, Restoring, Resting
<1>7. /\ backup.containsSecrets => PrintsOf(backup.files) = backup.prints
      /\ ~backup.containsSecrets => PrintsOf(file) = backup.prints /\ (AllKeys \/ NoKeys)
      /\ \A s \in Identity : file[s] \in {Missing, backup.prints[s]}
      /\ NoKeys \/ \A s \in Generated : file[s] = file.config \/ <<s, file.config>> \in aside
      /\ ~option[p] => Whole
  BY <1>1 DEF UndisturbedInv, RestoresItsOwn
<1>8. CASE pc'[p] = "failed"
  <2>1. file' = file /\ ~option[p]
    BY <1>8, EffectOfMoving
  <2>2. Whole' /\ PrintsOf(file') = PrintsOf(file)
    BY <1>1, <1>7, <2>1 DEF Whole, AllKeys, NoKeys
  <2>3. \A r \in Procs : pc'[r] \notin Restoring
    BY <1>6, <1>8 DEF Restoring
  <2>4. \A q \in Procs : pc'[q] \in Guarded \cup {"lock"} => memory'[q] = PrintsOf(file')
    <3>1. ASSUME NEW q \in Procs, pc'[q] \in Guarded \cup {"lock"} PROVE memory'[q] = PrintsOf(file')
      <4>1. q # p
        BY <1>8, <3>1 DEF Guarded
      <4>2. pc[q] \in Guarded \cup {"lock"}
        BY <1>6, <3>1, <4>1
      <4>3. memory[q] = PrintsOf(file)
        BY <1>1, <2>1, <4>2 DEF UndisturbedInv, ReadTheSecrets
      <4> QED
        BY <1>1, <2>2, <4>3
    <3> QED
      BY <3>1
  <2> QED
    BY <2>2, <2>3, <2>4, WithoutRestore
<1>9. CASE pc'[p] # "failed"
  <2>1. /\ file'[f] = Missing
        /\ \/ file[f] = Missing /\ file' = file /\ aside' = aside
           \/ file[f] # Missing /\ option[p] /\ aside' = aside \cup {<<f, file[f]>>}
        /\ \/ step[p] = Len(PartsIn) /\ pc'[p] = "copy in" /\ step'[p] = 1
           \/ step[p] # Len(PartsIn) /\ pc'[p] = "move" /\ step'[p] = step[p] + 1
    BY <1>9, EffectOfMoving
  <2>2. pc'[p] \in Restoring
    BY <2>1 DEF Restoring
  <2>3. \A g \in Files : file'[g] = file[g] \/ file'[g] = Missing
    BY <1>2, <2>1
  <2>4. \A s \in Identity \cup Generated : s \in Files
    BY NamesOfFiles DEF Identity, Generated
  <2>5. ASSUME ~backup.containsSecrets
        PROVE  PrintsOf(file') = backup.prints /\ (AllKeys' \/ NoKeys')
    <3>1. f \notin Identity \cup Generated
      BY <1>4, <2>5, StatePartsAreNoKeys DEF Sound
    <3>2. \A s \in Identity \cup Generated : file'[s] = file[s]
      BY <1>2, <2>4, <3>1
    <3>3. PrintsOf(file') = PrintsOf(file)
      BY <3>2 DEF PrintsOf
    <3>4. (AllKeys => AllKeys') /\ (NoKeys => NoKeys')
      BY <1>3, <3>2 DEF AllKeys, NoKeys
    <3> QED
      BY <1>7, <2>5, <3>3, <3>4
  <2>6. \A s \in Identity : file'[s] \in {Missing, backup.prints[s]}
    BY <1>7, <2>3, <2>4
  <2>7. NoKeys' \/ \A s \in Generated : file'[s] = file'.config \/ <<s, file'.config>> \in aside'
    <3>1. CASE NoKeys
      BY <2>3, <2>4, <3>1 DEF NoKeys
    <3>2. CASE \A s \in Generated : file[s] = file.config \/ <<s, file.config>> \in aside
      <4>1. ASSUME NEW s \in Generated
            PROVE  file'[s] = file.config \/ <<s, file.config>> \in aside'
        <5>1. aside \subseteq aside'
          BY <2>1
        <5>2. CASE <<s, file.config>> \in aside
          BY <5>1, <5>2
        <5>3. CASE file[s] = file.config /\ s # f
          BY <1>2, <2>4, <5>3
        <5>4. CASE file[s] = file.config /\ s = f
          BY <1>4, <2>1, <5>4
        <5> QED
          BY <3>2, <5>2, <5>3, <5>4
      <4> QED
        BY <1>3, <4>1
    <3> QED
      BY <1>7, <3>1, <3>2
  <2>8. ~option'[p] => Whole' /\ file' = file
    <3>1. ~option[p] => file' = file
      BY <2>1
    <3> QED
      BY <1>1, <1>7, <3>1 DEF Whole, AllKeys, NoKeys
  <2>10. RestoresItsOwn(p)'
    BY <1>4, <1>7, <2>5, <2>6, <2>7, <2>8 DEF RestoresItsOwn
  <2>11. ASSUME NEW q \in Procs, pc'[q] \in Guarded \cup {"lock"} PROVE ReadTheSecrets(q)'
    <3>1. q # p
      BY <2>1, <2>11 DEF Guarded
    <3>2. pc[q] \in Guarded \cup {"lock"}
      BY <1>6, <2>11, <3>1
    <3>3. memory[q] = backup.prints /\ (~option[p] => memory[q] = PrintsOf(file))
      BY <1>1, <3>2 DEF UndisturbedInv, ReadTheSecrets
    <3>4. \A r \in Procs : pc'[r] \in Restoring => r = p
      BY <1>6
    <3>5. \A r \in Procs : pc'[r] = "move" /\ ~option'[r] => memory'[q] = PrintsOf(file')
      BY <1>1, <2>8, <3>3, <3>4 DEF Restoring
    <3> QED
      BY <1>1, <1>4, <2>2, <3>3, <3>5 DEF ReadTheSecrets
  <2> QED
    BY <1>6, <2>2, <2>10, <2>11 DEF UndisturbedInv, ReadTheSecrets, RestoresItsOwn
<1> QED
  BY <1>8, <1>9

\* A restore that has copied everything leaves a whole directory.
LEMMA RestoreCopiesUndisturbed ==
  ASSUME Sound, AloneInv, AloneInv', UndisturbedInv, NEW p \in Procs, RestoreCopies(p)
  PROVE  UndisturbedInv'
<1> DEFINE f == PartsIn[step[p]]
<1>1. /\ Step(p) /\ pc[p] = "copy in" /\ pc[p] \in Restoring
      /\ memory' = memory /\ option' = option
  BY DEF Step, RestoreStep, RestoreCopies, Restoring
<1>2. /\ f \in Files \ {"config", "log"} /\ \A g \in Files : g # f => file'[g] = file[g]
      /\ \/ step[p] = Len(PartsIn) /\ pc'[p] = "verify" /\ step'[p] = 1
         \/ step[p] # Len(PartsIn) /\ pc'[p] = "copy in" /\ step'[p] = step[p] + 1
  BY EffectOfCopying
<1>3. file'.config = file.config
  BY <1>2, NamesOfFiles
<1>4. /\ file.config # Missing /\ backup # Missing /\ backup' = backup /\ PartsIn' = PartsIn
      /\ step[p] \in 1..Len(PartsIn)
      /\ \A q \in Procs : q # p => pc[q] \in Resting \cup {"lock"} /\ Untouched(q)
  BY <1>1, <1>3, NextToRestore
<1>6. \A q \in Procs : q # p => pc'[q] \notin Restoring /\ pc'[q] = pc[q]
  BY <1>4 DEF Untouched, Restoring, Resting
<1>7. /\ backup.containsSecrets => PrintsOf(backup.files) = backup.prints
      /\ ~backup.containsSecrets => PrintsOf(file) = backup.prints /\ (AllKeys \/ NoKeys)
  BY <1>1 DEF UndisturbedInv, RestoresItsOwn
<1>8. \A s \in Identity \cup Generated : s \in Files
  BY NamesOfFiles DEF Identity, Generated
<1>9. ASSUME ~backup.containsSecrets
      PROVE  PrintsOf(file') = backup.prints /\ (AllKeys' \/ NoKeys')
  <2>1. f \notin Identity \cup Generated
    BY <1>4, <1>9, StatePartsAreNoKeys DEF Sound
  <2>2. \A s \in Identity \cup Generated : file'[s] = file[s]
    BY <1>2, <1>8, <2>1
  <2>3. PrintsOf(file') = PrintsOf(file)
    BY <2>2 DEF PrintsOf
  <2>4. (AllKeys => AllKeys') /\ (NoKeys => NoKeys')
    BY <1>3, <2>2 DEF AllKeys, NoKeys
  <2> QED
    BY <1>7, <1>9, <2>3, <2>4
<1>10. \A q \in Procs : q # p /\ pc'[q] \in Guarded \cup {"lock"} => memory'[q] = backup.prints
  <2>1. \A q \in Procs : pc[q] \in Guarded \cup {"lock"} => memory[q] = backup.prints
    BY <1>1 DEF UndisturbedInv, ReadTheSecrets
  <2> QED
    BY <1>1, <1>6, <2>1
<1>11. CASE pc'[p] = "copy in"
  <2>1. pc'[p] \in Restoring
    BY <1>11 DEF Restoring
  <2>2. RestoresItsOwn(p)'
    BY <1>4, <1>7, <1>9, <1>11 DEF RestoresItsOwn
  <2>3. ASSUME NEW q \in Procs, pc'[q] \in Guarded \cup {"lock"} PROVE ReadTheSecrets(q)'
    <3>1. q # p
      BY <1>11, <2>3 DEF Guarded
    <3>2. memory'[q] = backup'.prints
      BY <1>4, <1>10, <2>3, <3>1
    <3>3. \A r \in Procs : pc'[r] # "move"
      BY <1>6, <1>11 DEF Restoring
    <3> QED
      BY <2>1, <3>2, <3>3 DEF ReadTheSecrets
  <2> QED
    BY <1>6, <2>1, <2>2, <2>3 DEF UndisturbedInv, ReadTheSecrets, RestoresItsOwn
<1>12. CASE pc'[p] = "verify"
  <2>1. \A j \in 1..Len(PartsIn) : file'[PartsIn[j]] = backup.files[PartsIn[j]]
    BY <1>4, <1>12 DEF AloneInv, Replaced
  <2>4. file'.sqlite # Missing
    <3>1. PartsIn[1] = "sqlite" /\ 1 \in 1..Len(PartsIn)
      BY <1>4, PartsOfRestore
    <3>2. file'.sqlite = backup.files.sqlite
      BY <2>1, <3>1
    <3> QED
      BY <1>4, <3>2, NamesOfFiles DEF AloneInv, BackupOK
  <2>5. ASSUME backup.containsSecrets PROVE AllKeys' /\ PrintsOf(file') = backup.prints
    <3>1. /\ Len(PartsIn) = 7 /\ PartsIn[4] = "token" /\ PartsIn[5] = "signer"
          /\ PartsIn[6] = "dbKey" /\ PartsIn[7] = "viewing"
      BY <2>5, PartsOfRestore
    <3>2. /\ file'.token = backup.files.token /\ file'.signer = backup.files.signer
          /\ file'.dbKey = backup.files.dbKey /\ file'.viewing = backup.files.viewing
      BY <2>1, <3>1
    <3>3. \A s \in Generated : backup.files[s] = file.config
      <4>1. \A s \in Generated : backup.files[s] # Missing
        BY <1>4, <2>5, NamesOfFiles DEF AloneInv, BackupOK, Generated
      <4> QED
        BY <1>4, <4>1 DEF AloneInv, OneInit
    <3>4. AllKeys'
      BY <1>3, <3>2, <3>3 DEF AllKeys, Generated
    <3>5. \A s \in Identity : file'[s] = backup.files[s]
      BY <3>2 DEF Identity
    <3>6. PrintsOf(file') = PrintsOf(backup.files)
      BY <3>5 DEF PrintsOf
    <3> QED
      BY <1>7, <2>5, <3>4, <3>6
  <2>6. Whole'
    BY <1>9, <2>4, <2>5 DEF Whole
  <2>7. \A r \in Procs : pc'[r] \notin Restoring
    BY <1>6, <1>12 DEF Restoring
  <2>8. pc'[p] \notin Guarded \cup {"lock"}
    BY <1>12 DEF Guarded
  <2>9. PrintsOf(file') = backup.prints
    BY <1>9, <2>5
  <2>10. \A q \in Procs : pc'[q] \in Guarded \cup {"lock"} => memory'[q] = PrintsOf(file')
    BY <1>10, <2>8, <2>9
  <2> QED
    BY <2>6, <2>7, <2>10, WithoutRestore
<1> QED
  BY <1>2, <1>11, <1>12

\* A directory that is lost is lost as a whole, the secrets together.
LEMMA OperatorUndisturbed ==
  ASSUME Sound, AloneInv, UndisturbedInv, DirectoryLost \/ ViewingKeyReplaced
  PROVE  UndisturbedInv'
<1>1. pc' = pc /\ memory' = memory /\ \A q \in Procs : pc[q] \in Resting
  BY OperatorKeepsSound
<1>2. backup' = backup /\ DOMAIN file = Files
  BY DEF DirectoryLost, ViewingKeyReplaced, Sound, StoreTyped, IsDirectory
<1>4. \A q \in Procs : /\ pc[q] \notin Restoring /\ pc'[q] \notin Restoring
                       /\ pc'[q] \notin Guarded \cup {"lock"}
  BY <1>1 DEF Restoring, Guarded, Resting
<1>5. Whole
  BY <1>4 DEF UndisturbedInv
<1>6. CASE DirectoryLost
  <2>1. PICK kept \in {{"config"}, {"config"} \cup ToSet(Secrets)} :
          file' = [f \in Files |-> IF f \in kept THEN file[f] ELSE Missing]
    BY <1>6 DEF DirectoryLost
  <2>2. file'.config = file.config /\ ~hadLedger' /\ file'.sqlite = Missing
    BY <1>6, <2>1, NamesOfFiles DEF DirectoryLost
  <2>3. (\A s \in Generated : file'[s] = file[s]) \/ (\A s \in Generated : file'[s] = Missing)
    BY <2>1, NamesOfFiles DEF Generated
  <2>4. file.config # Missing => AllKeys' \/ NoKeys'
    BY <1>5, <2>2, <2>3 DEF Whole, AllKeys, NoKeys
  <2>5. Whole'
    BY <2>2, <2>4 DEF Whole
  <2> QED
    BY <1>4, <2>5, WithoutRestore
<1>7. CASE ViewingKeyReplaced
  <2>1. \A f \in Files : f # "viewing" => file'[f] = file[f]
    BY <1>2, <1>7, NamesOfFiles DEF ViewingKeyReplaced
  <2>2. /\ file'.config = file.config /\ file'.sqlite = file.sqlite /\ file'.wallet = file.wallet
        /\ hadLedger' = hadLedger /\ \A s \in Generated : file'[s] = file[s]
    BY <1>7, <2>1, NamesOfFiles DEF ViewingKeyReplaced, Generated, History
  <2>3. (AllKeys => AllKeys') /\ (NoKeys => NoKeys')
    BY <2>2 DEF AllKeys, NoKeys
  <2>4. Whole'
    BY <1>5, <2>2, <2>3 DEF Whole
  <2> QED
    BY <1>4, <2>4, WithoutRestore
<1> QED
  BY <1>6, <1>7

\* While nobody is disturbed and no restore is torn, every step leaves a whole directory,
\* or one that a restore is about to make whole.
LEMMA StepKeepsUndisturbed ==
  ASSUME Sound, AloneInv, AloneInv', UndisturbedInv, NEW p \in Procs, Step(p),
         ~overlapped', ~torn'
  PROVE  UndisturbedInv'
BY InitBeginsUndisturbed, InitWritesUndisturbed, ServeBeginsUndisturbed, ServeLocksUndisturbed,
   ServeLoadsWalletUndisturbed, ServeWritesWalletUndisturbed, ServeOpensLedgerUndisturbed,
   ServeWritesUndisturbed, ServeEndsUndisturbed, BackupBeginsUndisturbed,
   BackupCopiesUndisturbed, BackupReadsSecretsUndisturbed, BackupPublishesUndisturbed,
   RestoreBeginsUndisturbed, RestoreMovesUndisturbed, RestoreCopiesUndisturbed,
   RestoreVerifiesUndisturbed, DiesUndisturbed
DEF Step, InitStep, ServeStep, BackupStep, RestoreStep

(***************************************************************************)
(* The database and its log                                                *)
(***************************************************************************)
\* The steps that leave database and log alone.
LEMMA LedgerRests ==
  ASSUME Sound, NEW p \in Procs,
         \/ InitStep(p) \/ BackupStep(p) \/ Dies(p) \/ RestoreBegins(p)
         \/ ServeBegins(p) \/ ServeLocks(p) \/ ServeLoadsWallet(p) \/ ServeWritesWallet(p)
  PROVE  /\ file'.sqlite = file.sqlite /\ file'.log = file.log
         /\ pc'[p] \notin {"copy in", "verify"}
<1>1. DOMAIN file = Files /\ "sqlite" \in Files /\ "log" \in Files
  BY NamesOfFiles DEF Sound, StoreTyped, IsDirectory
<1>2. CASE InitBegins(p)
  BY <1>2 DEF Sound, StoreTyped, InitBegins, Enter, Goto
<1>3. CASE InitWrites(p)
  <2>1. /\ pc'[p] \in {"init", "failed", "done"}
        /\ file' = file \/ file' = [file EXCEPT ![InitFiles[step[p]]] = p]
    BY <1>3, Moves, GoesOn DEF Sound, InitWrites
  <2>2. ASSUME file' = [file EXCEPT ![InitFiles[step[p]]] = p]
        PROVE  file'.sqlite = file.sqlite /\ file'.log = file.log
    <3>1. step[p] = 1 \/ step[p] = 2 \/ step[p] = 3 \/ step[p] = 4
      BY <1>3 DEF Sound, Prepared, PreparedTo, InitWrites
    <3>2. InitFiles[step[p]] \notin {"sqlite", "log"}
      BY <3>1 DEF InitFiles
    <3> QED
      BY <1>1, <2>2, <3>2
  <2> QED
    BY <2>1, <2>2
<1>4. CASE BackupStep(p)
  <2>1. file' = file
    BY <1>4 DEF BackupStep, BackupBegins, BackupCopies, BackupReadsSecrets, BackupPublishes
  <2>2. CASE BackupBegins(p)
    BY <2>1, <2>2 DEF Sound, StoreTyped, BackupBegins, Enter, Goto
  <2>3. CASE BackupCopies(p)
    BY <2>1, <2>3 DEF Sound, StoreTyped, BackupCopies, Goto, NextStep
  <2>4. CASE BackupReadsSecrets(p)
    BY <2>1, <2>4 DEF Sound, StoreTyped, BackupReadsSecrets, Goto
  <2>5. CASE BackupPublishes(p)
    BY <2>1, <2>5 DEF Sound, StoreTyped, BackupPublishes, Goto
  <2> QED
    BY <1>4, <2>2, <2>3, <2>4, <2>5 DEF BackupStep
<1>5. CASE Dies(p)
  BY <1>5 DEF Sound, StoreTyped, Dies, Goto
<1>6. CASE RestoreBegins(p)
  BY <1>6 DEF Sound, StoreTyped, RestoreBegins, Enter, Goto
<1>7. CASE ServeBegins(p)
  BY <1>7 DEF Sound, StoreTyped, ServeBegins, Goto, History
<1>8. CASE ServeLocks(p)
  BY <1>8 DEF Sound, StoreTyped, ServeLocks, Enter, Goto
<1>9. CASE ServeLoadsWallet(p)
  BY <1>1, <1>9 DEF Sound, StoreTyped, ServeLoadsWallet, Goto
<1>10. CASE ServeWritesWallet(p)
  BY <1>1, <1>10 DEF Sound, StoreTyped, ServeWritesWallet, Goto
<1> QED
  BY <1>2, <1>3, <1>4, <1>5, <1>6, <1>7, <1>8, <1>9, <1>10 DEF InitStep

\* A log that belongs to its database is not foreign.
LEMMA OwnLogIsNotForeign ==
  ASSUME LogOK
  PROVE  ~Foreign /\ (file.log # Missing => file.sqlite # Missing)
BY DEF LogOK, Foreign

\* A log stays with its database until it is closed or a restore parts them.
LEMMA StepKeepsLog ==
  ASSUME Sound, AloneInv, AloneInv', LogOK, NEW p \in Procs, Step(p), ~stray'
  PROVE  LogOK'
<1>1. \A q \in Procs : q # p => pc'[q] = pc[q]
  BY OneProcessMoves DEF Sound, Untouched
<1>2. ASSUME file'.sqlite = file.sqlite, file'.log = file.log, pc'[p] \notin {"copy in", "verify"}
      PROVE  LogOK'
  BY <1>1, <1>2 DEF LogOK
<1>3. CASE ServeOpensLedger(p) \/ ServeWrites(p)
  <2>1. pc[p] \in Guarded /\ pc'[p] \notin {"copy in", "verify"}
    BY <1>3 DEF Sound, StoreTyped, ServeOpensLedger, ServeWrites, Goto, Guarded
  <2>2. \A q \in Procs : pc'[q] \notin {"copy in", "verify"}
    BY <1>1, <2>1, NextToServe DEF AloneInv, Resting
  <2>3. CASE ServeOpensLedger(p)
    <3>1. CASE file.sqlite = Missing
      BY <2>2, <2>3, <3>1, EffectOfOpening DEF LogOK, Sound, StoreTyped
    <3>2. CASE file.sqlite # Missing
      BY <2>2, <2>3, <3>2, EffectOfOpening DEF LogOK, Sound, StoreTyped
    <3> QED
      BY <3>1, <3>2
  <2>4. CASE ServeWrites(p)
    <3>1. file.sqlite # Missing /\ ~Foreign
      BY <2>4, OwnLogIsNotForeign DEF ServeWrites
    <3>2. PICK read \in Readings :
            /\ file'.sqlite \in {file.sqlite, read \cup {<<p, memory[p].viewing>>}}
            /\ file'.log.gives = read \cup {<<p, memory[p].viewing>>}
      BY <2>4, EffectOfWriting DEF Sound
    <3>3. read = IF file.log = Missing THEN file.sqlite ELSE file.log.gives
      BY <3>1, WhatIsRead DEF Sound, StoreTyped
    <3>4. /\ file'.sqlite # Missing
          /\ file'.log.onto = IF file.log = Missing \/ file.log.gives = file.sqlite
                                THEN file.sqlite ELSE file.log.onto
      BY <2>4, EffectOfWriting DEF Sound
    <3>5. file.log # Missing => file.log.onto \subseteq file.sqlite /\ file.sqlite \subseteq file.log.gives
      BY DEF LogOK
    <3>6. file.sqlite \subseteq read /\ file'.log.onto \subseteq file.sqlite
      BY <3>3, <3>4, <3>5
    <3>7. file'.log.onto \subseteq file'.sqlite /\ file'.sqlite \subseteq file'.log.gives
      BY <3>2, <3>6
    <3> QED
      BY <2>2, <3>4, <3>7 DEF LogOK
  <2> QED
    BY <1>3, <2>3, <2>4
<1>4. CASE ServeEnds(p) \/ RestoreVerifies(p)
  <2>1. pc'[p] \notin {"copy in", "verify"}
    BY <1>4 DEF Sound, StoreTyped, ServeEnds, RestoreVerifies, Goto
  <2>2. CASE file' = file
    BY <1>2, <2>1, <2>2
  <2>3. CASE file' # file
    <3>1. file'.log = Missing
      BY <1>4, <2>3, EffectOfClosing DEF Sound, StoreTyped, ServeEnds, RestoreVerifies
    <3> QED
      BY <3>1 DEF LogOK
  <2> QED
    BY <2>2, <2>3
<1>5. CASE RestoreMoves(p)
  <2> DEFINE f == PartsIn[step[p]]
  <2>1. pc[p] = "move" /\ pc[p] \in Restoring /\ Step(p)
    BY <1>5 DEF RestoreMoves, Restoring
  <2>2. f \in Files \ {"config", "log"} /\ \A g \in Files : g # f => file'[g] = file[g]
    BY <1>5, EffectOfMoving
  <2>3. file'.log = file.log /\ file'.config = file.config
    BY <2>2, NamesOfFiles
  <2>4. /\ PartsIn' = PartsIn /\ step[p] \in 1..Len(PartsIn) /\ Len(PartsIn) \in {3, 7}
        /\ \A q \in Procs : q # p => pc[q] \in Resting \cup {"lock"}
    BY <2>1, <2>3, NextToRestore
  <2>5. f = "sqlite" /\ file' # file => file.log = Missing
    BY <1>5 DEF RestoreMoves
  <2>6. file.log # Missing => file'.sqlite = file.sqlite
    <3>1. CASE f = "sqlite"
      BY <2>5, <3>1
    <3>2. CASE f # "sqlite"
      BY <2>2, <3>2, NamesOfFiles
    <3> QED
      BY <3>1, <3>2
  <2>7. pc'[p] = "copy in" => file.log = Missing
    <3>1. SUFFICES ASSUME pc'[p] = "copy in" PROVE file.log = Missing
      OBVIOUS
    <3>2. step'[p] = 1 /\ 1 \in 1..Len(PartsIn')
      <4>1. step'[p] = 1
        BY <1>5, <2>1, <3>1, EffectOfMoving
      <4>2. 1 \in 1..Len(PartsIn)
        BY <2>4
      <4> QED
        BY <2>4, <4>1, <4>2
    <3>3. file'[PartsIn'[1]] = Missing
      <4>1. Replaced(p)'
        BY DEF AloneInv
      <4>2. ~(1 < step'[p])
        BY <3>2
      <4> QED
        BY <3>1, <3>2, <4>1, <4>2 DEF Replaced
    <3>4. file'.sqlite = Missing
      BY <2>4, <3>3, PartsOfRestore
    <3> QED
      BY <2>6, <3>4, OwnLogIsNotForeign
  <2>8. \A q \in Procs : pc'[q] \in {"copy in", "verify"} => q = p /\ pc'[p] = "copy in"
    BY <1>1, <1>5, <2>4, EffectOfMoving DEF Resting
  <2> QED
    BY <2>3, <2>6, <2>7, <2>8 DEF LogOK
<1>6. CASE RestoreCopies(p)
  <2>1. PartsIn[step[p]] \in Files \ {"config", "log"}
        /\ \A g \in Files : g # PartsIn[step[p]] => file'[g] = file[g]
    BY <1>6, EffectOfCopying
  <2>2. file'.log = file.log
    BY <2>1, NamesOfFiles
  <2>3. file.log = Missing
    BY <1>6 DEF LogOK, RestoreCopies
  <2> QED
    BY <2>2, <2>3 DEF LogOK
<1>7. CASE \/ InitStep(p) \/ BackupStep(p) \/ Dies(p) \/ RestoreBegins(p)
           \/ ServeBegins(p) \/ ServeLocks(p) \/ ServeLoadsWallet(p) \/ ServeWritesWallet(p)
  BY <1>2, <1>7, LedgerRests DEF Sound
<1> QED
  BY <1>3, <1>4, <1>5, <1>6, <1>7 DEF Step, ServeStep, RestoreStep

\* An operator loses log and database together, or touches neither.
LEMMA OperatorKeepsLog ==
  ASSUME Sound, LogOK, DirectoryLost \/ ViewingKeyReplaced
  PROVE  LogOK'
<1>1. pc' = pc /\ \A q \in Procs : pc[q] \in Resting
  BY OperatorKeepsSound
<1>2. \A q \in Procs : pc'[q] \notin {"copy in", "verify"}
  BY <1>1 DEF Resting
<1>3. DOMAIN file = Files
  BY DEF Sound, StoreTyped, IsDirectory
<1>4. \/ file'.log = Missing
      \/ file'.log = file.log /\ file'.sqlite = file.sqlite
  BY <1>3, NamesOfFiles DEF DirectoryLost, ViewingKeyReplaced
<1> QED
  BY <1>2, <1>4 DEF LogOK

(***************************************************************************)
(* The ledger of the wallet                                                *)
(***************************************************************************)
\* A ledger that was written for no key is empty.
LEMMA LedgerOfNobody ==
  ASSUME NEW ledger \in Ledgers, NEW v, \A w \in ledger : w[2] = Missing
  PROVE  \A w \in ledger : w[2] = v
<1>1. \A w \in ledger : w[2] \in Keys
  BY DEF Ledgers
<1> QED
  BY <1>1, MissingIsNoContents

\* What is read of a database that was written for the wallet was written for it.
LEMMA ReadingIsOwned ==
  ASSUME StoreTyped, LogOK, Owned(file.sqlite, file.wallet), OwnedLog(file.log, file.wallet),
         file.sqlite # Missing, NEW read \in Readings
  PROVE  \A w \in read : w[2] = file.wallet
<1>1. read = IF file.log = Missing THEN file.sqlite ELSE file.log.gives
  BY WhatIsRead, OwnLogIsNotForeign DEF StoreTyped
<1> QED
  BY <1>1 DEF Owned, OwnedLog

\* Steps that leave ledger and wallet alone.
LEMMA LedgerKept ==
  ASSUME Sound, LedgerOK, NEW p \in Procs, Step(p),
         file'.sqlite = file.sqlite, file'.log = file.log, file'.wallet = file.wallet,
         backup' = backup, staging' = staging, pc[p] # "copy in",
         pc'[p] = "copy secrets" \/ (pc'[p] = "copy out" /\ step'[p] # 1) =>
           pc[p] = "copy secrets" \/ (pc[p] = "copy out" /\ step[p] # 1)
  PROVE  LedgerOK'
<1>1. \A q \in Procs : q # p => pc'[q] = pc[q] /\ step'[q] = step[q]
  BY OneProcessMoves DEF Sound, Untouched
<1>2. (\A q \in Procs : pc'[q] # "copy in") => \A q \in Procs : pc[q] # "copy in"
  BY <1>1
<1>3. (\A q \in Procs : pc'[q] # "copy in") =>
        Owned(file'.sqlite, file'.wallet) /\ OwnedLog(file'.log, file'.wallet)
  BY <1>2 DEF LedgerOK
<1>4. \A q \in Procs : pc'[q] = "copy secrets" \/ (pc'[q] = "copy out" /\ step'[q] # 1) =>
        Owned(staging'[q].sqlite, file'.wallet)
  BY <1>1 DEF LedgerOK
<1>5. backup' # Missing => Owned(backup'.files.sqlite, backup'.files.wallet)
  BY DEF LedgerOK
<1> QED
  BY <1>3, <1>4, <1>5 DEF LedgerOK

\* Behind the lock a ledger that stays with its wallet is all there is to keep.
LEMMA ServeKeepsLedger ==
  ASSUME Sound, AloneInv, LedgerOK, NEW p \in Procs, Step(p), pc[p] \in Guarded,
         pc'[p] \notin Offline, backup' = backup,
         Owned(file'.sqlite, file'.wallet), OwnedLog(file'.log, file'.wallet)
  PROVE  LedgerOK'
<1>1. \A q \in Procs : q # p => pc'[q] = pc[q] /\ pc[q] \in Resting \cup {"lock", "init"}
  BY OneProcessMoves, NextToServe DEF Sound, AloneInv, Untouched
<1>2. \A q \in Procs : pc'[q] \notin {"copy out", "copy secrets"}
  BY <1>1 DEF Resting, Offline
<1> QED
  BY <1>2 DEF LedgerOK

\* Where a serve, a backup or the end of a restore is at work, the ledger is the wallet's.
LEMMA LedgerAtWork ==
  ASSUME Sound, AloneInv, LedgerOK, NEW p \in Procs, pc[p] \in Guarded \cup {"copy out", "copy secrets", "verify"}
  PROVE  Owned(file.sqlite, file.wallet) /\ OwnedLog(file.log, file.wallet)
<1>1. \A q \in Procs : pc[q] # "copy in"
  BY DEF AloneInv, Alone, Offline, Resting, Guarded
<1> QED
  BY <1>1 DEF LedgerOK

\* A ledger is written for the wallet that lies beside it.
LEMMA ServingKeepsLedger ==
  ASSUME Sound, AloneInv, LogOK, LedgerOK, NEW p \in Procs,
         ServeWritesWallet(p) \/ ServeOpensLedger(p) \/ ServeWrites(p) \/ ServeEnds(p)
  PROVE  LedgerOK'
<1>1. Step(p) /\ pc[p] \in Guarded /\ backup' = backup /\ DOMAIN file = Files
  BY DEF Step, ServeStep, ServeWritesWallet, ServeOpensLedger, ServeWrites, ServeEnds, Guarded,
         Sound, StoreTyped, IsDirectory
<1>2. pc'[p] \notin Offline
  BY DEF Sound, StoreTyped, ServeWritesWallet, ServeOpensLedger, ServeWrites, ServeEnds, Goto, Offline
<1>3. Owned(file.sqlite, file.wallet) /\ OwnedLog(file.log, file.wallet)
  BY <1>1, LedgerAtWork
<1>4. ASSUME file'.wallet = file.wallet, Owned(file'.sqlite, file.wallet), OwnedLog(file'.log, file.wallet)
      PROVE  LedgerOK'
  BY <1>1, <1>2, <1>4, ServeKeepsLedger
<1>5. "wallet" \in Files \ Ledger
  BY NamesOfFiles DEF Ledger
<1>6. CASE ServeWritesWallet(p)
  <2>1. file'.sqlite = file.sqlite /\ file'.log = file.log
    BY <1>6, LedgerRests DEF Sound
  <2>2. file.wallet = Missing
    BY <1>6 DEF AloneInv, ServeOK, ServeWritesWallet
  <2>3. file.sqlite \in Ledgers \cup {Missing} /\ file.log \in Logs \cup {Missing}
    BY FilesOfDirectory DEF Sound, StoreTyped
  <2>4. Owned(file'.sqlite, file'.wallet)
    BY <1>3, <2>1, <2>2, <2>3, LedgerOfNobody DEF Owned
  <2>5. file.log # Missing => file.log.gives \in Ledgers
    BY <2>3 DEF Logs
  <2>6. OwnedLog(file'.log, file'.wallet)
    BY <1>3, <2>1, <2>2, <2>5, LedgerOfNobody DEF OwnedLog
  <2> QED
    BY <1>1, <1>2, <2>4, <2>6, ServeKeepsLedger
<1>7. CASE ServeOpensLedger(p)
  <2>1. CASE file.sqlite = Missing
    <3>1. /\ \A w \in file'.sqlite : w[2] = file.wallet
          /\ \A w \in file'.log.gives : w[2] = file.wallet
      BY <1>7, <2>1, EffectOfOpening DEF Sound, StoreTyped
    <3>2. file'.wallet = file.wallet
      BY <1>5, <1>7, EffectOfOpening DEF Sound, StoreTyped
    <3> QED
      BY <1>4, <3>1, <3>2 DEF Owned, OwnedLog
  <2>2. CASE file.sqlite # Missing
    <3>1. file' = file
      BY <1>7, <2>2, EffectOfOpening DEF Sound, StoreTyped
    <3> QED
      BY <1>3, <1>4, <3>1
  <2> QED
    BY <2>1, <2>2
<1>8. CASE ServeWrites(p)
  <2>1. file.sqlite # Missing /\ file.wallet = memory[p].viewing
    BY <1>8 DEF AloneInv, ServeOK, ServeWrites
  <2>2. PICK read \in Readings :
          /\ file'.sqlite \in {file.sqlite, read \cup {<<p, memory[p].viewing>>}}
          /\ file'.log.gives = read \cup {<<p, memory[p].viewing>>}
    BY <1>8, EffectOfWriting DEF Sound
  <2>3. \A w \in read : w[2] = file.wallet
    BY <1>3, <2>1, ReadingIsOwned DEF Sound
  <2>4. \A w \in read \cup {<<p, memory[p].viewing>>} : w[2] = file.wallet
    BY <2>1, <2>3
  <2>5. Owned(file'.sqlite, file.wallet) /\ OwnedLog(file'.log, file.wallet)
    BY <1>3, <2>2, <2>4 DEF Owned, OwnedLog
  <2>6. file'.wallet = file.wallet
    BY <1>5, <1>8, EffectOfWriting DEF Sound
  <2> QED
    BY <1>4, <2>5, <2>6
<1>9. CASE ServeEnds(p)
  <2>1. CASE file' = file
    BY <1>3, <1>4, <2>1
  <2>2. CASE file' # file
    <3>1. file.sqlite # Missing /\ CloseLedger
      BY <1>9, <2>2 DEF ServeEnds
    <3>2. /\ file'.sqlite \in Readings /\ file'.log = Missing
          /\ file'.wallet = file.wallet
      BY <1>5, <3>1, EffectOfClosing DEF Sound, StoreTyped
    <3>3. \A w \in file'.sqlite : w[2] = file.wallet
      BY <1>3, <3>1, <3>2, ReadingIsOwned DEF Sound
    <3> QED
      BY <1>4, <3>2, <3>3 DEF Owned, OwnedLog
  <2> QED
    BY <2>1, <2>2
<1> QED
  BY <1>6, <1>7, <1>8, <1>9

\* A backup pairs the wallet with what it read of its ledger.
LEMMA BackingUpKeepsLedger ==
  ASSUME Sound, AloneInv, LogOK, LedgerOK, NEW p \in Procs, BackupCopies(p) \/ BackupPublishes(p)
  PROVE  LedgerOK'
<1>1. Step(p) /\ file' = file /\ pc[p] \in {"copy out", "copy secrets"}
  BY DEF Step, BackupStep, BackupCopies, BackupPublishes
<1>2. Owned(file.sqlite, file.wallet) /\ OwnedLog(file.log, file.wallet)
  BY <1>1, LedgerAtWork
<1>3. \A q \in Procs : q # p => pc[q] \in Resting \cup {"lock"} /\ pc'[q] = pc[q]
  BY <1>1, OneProcessMoves DEF Sound, AloneInv, Alone, Offline, Untouched
<1>4. \A q \in Procs : q # p => pc'[q] \notin {"copy out", "copy secrets"}
  BY <1>3 DEF Resting
<1>5. CASE BackupCopies(p)
  <2> DEFINE f == PartsOut(p)[step[p]]
  <2>1. backup' = backup
    BY <1>5 DEF BackupCopies
  <2>2. SUFFICES ASSUME pc'[p] # "failed"
                 PROVE  Owned(staging'[p].sqlite, file.wallet)
    <3>1. pc'[p] \in {"copy out", "copy secrets"} => pc'[p] # "failed"
      OBVIOUS
    <3> QED
      BY <1>1, <1>2, <1>4, <2>1, <2>2, <3>1 DEF LedgerOK
  <2>3. PICK copy \in Copies(f) :
          /\ staging' = [staging EXCEPT ![p] = [@ EXCEPT ![f] = copy]]
          /\ NextStep(p) /\ file[f] # Missing
    BY <1>5, <2>2, Moves DEF Sound, BackupCopies
  <2>4. DOMAIN staging = Procs /\ DOMAIN staging[p] = Files /\ "sqlite" \in Files
    BY NamesOfFiles DEF Sound, StoreTyped, IsDirectory
  <2>5. CASE f = "sqlite"
    <3>1. staging'[p].sqlite = copy /\ copy \in Readings
      BY <2>3, <2>4, <2>5 DEF Copies
    <3>2. \A w \in copy : w[2] = file.wallet
      BY <1>2, <2>3, <2>5, <3>1, ReadingIsOwned DEF Sound
    <3> QED
      BY <3>1, <3>2 DEF Owned
  <2>6. CASE f # "sqlite"
    <3>1. staging'[p].sqlite = staging[p].sqlite
      BY <2>3, <2>4, <2>6
    <3>2. pc[p] = "copy out" => step[p] # 1
      <4>1. pc[p] = "copy out" => PartsOut(p)[1] = "sqlite"
        BY DEF PartsOut, StateCopied, State
      <4> QED
        BY <2>6, <4>1
    <3>3. Owned(staging[p].sqlite, file.wallet)
      BY <1>1, <3>2 DEF LedgerOK
    <3> QED
      BY <3>1, <3>3
  <2> QED
    BY <2>5, <2>6
<1>6. CASE BackupPublishes(p)
  <2>1. pc[p] = "copy secrets" /\ pc'[p] \in {"done", "failed"}
    BY <1>6, Moves DEF Sound, BackupPublishes
  <2>2. \A q \in Procs : pc'[q] \notin {"copy out", "copy secrets"}
    BY <1>4, <2>1
  <2>3. Owned(staging[p].sqlite, file.wallet) /\ staging[p].wallet = file.wallet
    BY <2>1 DEF LedgerOK, AloneInv, CopiedOut
  <2>4. backup' = backup \/ backup'.files = staging[p]
    <3>1. \/ backup' = backup
          \/ backup' = [files |-> staging[p], containsSecrets |-> option[p], prints |-> memory[p]]
      BY <1>6 DEF BackupPublishes
    <3> QED
      BY <3>1
  <2>5. backup' # Missing => Owned(backup'.files.sqlite, backup'.files.wallet)
    BY <2>3, <2>4 DEF LedgerOK
  <2> QED
    BY <1>1, <1>2, <2>2, <2>5 DEF LedgerOK
<1> QED
  BY <1>5, <1>6

\* A restore takes ledger and wallet away and brings others, which belong together too.
LEMMA RestoringKeepsLedger ==
  ASSUME Sound, AloneInv, AloneInv', LogOK, LogOK', LedgerOK, NEW p \in Procs,
         RestoreMoves(p) \/ RestoreCopies(p) \/ RestoreVerifies(p)
  PROVE  LedgerOK'
<1>1. Step(p) /\ pc[p] \in {"move", "copy in", "verify"} /\ backup' = backup
  BY DEF Step, RestoreStep, RestoreMoves, RestoreCopies, RestoreVerifies
<1>2. \A q \in Procs : q # p => pc[q] \in Resting \cup {"lock"} /\ pc'[q] = pc[q]
  BY <1>1, OneProcessMoves DEF Sound, AloneInv, Alone, Offline, Untouched
<1>3. pc'[p] \in {"move", "copy in", "verify", "done", "failed"}
  BY EffectOfMoving, EffectOfCopying, Moves DEF Sound, RestoreVerifies
<1>4. \A q \in Procs : pc'[q] \notin {"copy out", "copy secrets"}
  BY <1>2, <1>3 DEF Resting
<1>5. backup' # Missing => Owned(backup'.files.sqlite, backup'.files.wallet)
  BY <1>1 DEF LedgerOK
<1>6. SUFFICES ASSUME pc'[p] # "copy in"
               PROVE  Owned(file'.sqlite, file'.wallet) /\ OwnedLog(file'.log, file'.wallet)
  BY <1>4, <1>5 DEF LedgerOK
<1>7. ASSUME file'.sqlite = Missing
      PROVE  Owned(file'.sqlite, file'.wallet) /\ OwnedLog(file'.log, file'.wallet)
  BY <1>7 DEF Owned, OwnedLog, LogOK
<1>8. CASE RestoreMoves(p)
  <2>1. CASE pc'[p] = "failed"
    <3>1. file' = file
      BY <1>8, <2>1, EffectOfMoving
    <3>2. \A q \in Procs : pc[q] # "copy in"
      BY <1>2, <1>8 DEF RestoreMoves, Resting
    <3> QED
      BY <3>1, <3>2 DEF LedgerOK
  <2>2. CASE pc'[p] = "move"
    <3>1. step'[p] = step[p] + 1 /\ step[p] \in Nat \ {0}
      BY <1>8, <2>2, EffectOfMoving DEF Sound, StoreTyped
    <3>2. backup' # Missing /\ StoreTyped'
      BY <1>1, <2>2, StepKeepsSound DEF Sound, Prepared, PreparedTo, Restoring
    <3>3. 1 \in 1..Len(PartsIn') /\ PartsIn'[1] = "sqlite"
      <4>1. backup # Missing /\ PartsIn' = PartsIn
        BY <1>1, <3>2 DEF PartsIn
      <4>2. Len(PartsIn) \in {3, 7}
        BY <4>1, PartsAreFiles DEF Sound
      <4> QED
        BY <4>1, <4>2, PartsOfRestore
    <3>4. file'.sqlite = Missing
      <4>1. Replaced(p)' /\ 1 < step'[p]
        BY <3>1 DEF AloneInv
      <4> QED
        BY <2>2, <3>3, <4>1 DEF Replaced
    <3> QED
      BY <1>7, <3>4
  <2> QED
    BY <1>6, <1>8, <2>1, <2>2, EffectOfMoving
<1>9. CASE RestoreCopies(p)
  <2>1. pc'[p] = "verify"
    BY <1>6, <1>9, EffectOfCopying
  <2>2. backup # Missing
    BY <1>9 DEF RestoreCopies, Sound, Prepared, PreparedTo, Restoring
  <2>3. PartsIn' = PartsIn
    BY <1>1 DEF PartsIn
  <2>4. PartsIn[1] = "sqlite" /\ PartsIn[3] = "wallet" /\ 1 \in 1..Len(PartsIn) /\ 3 \in 1..Len(PartsIn)
    <3>1. Len(PartsIn) \in {3, 7}
      BY <2>2, PartsAreFiles DEF Sound
    <3> QED
      BY <2>2, <3>1, PartsOfRestore
  <2>5. file'.sqlite = backup.files.sqlite /\ file'.wallet = backup.files.wallet
    BY <1>1, <2>1, <2>3, <2>4 DEF AloneInv, Replaced
  <2>6. file'.log = Missing
    BY <2>1 DEF LogOK
  <2> QED
    BY <1>1, <1>5, <2>2, <2>5, <2>6 DEF OwnedLog
<1>10. CASE RestoreVerifies(p)
  <2>1. pc[p] = "verify" /\ file.sqlite # Missing
    BY <1>10, RestoredLedger DEF RestoreVerifies
  <2>2. Owned(file.sqlite, file.wallet) /\ OwnedLog(file.log, file.wallet)
    BY <2>1, LedgerAtWork
  <2>3. CASE file' = file
    BY <2>2, <2>3
  <2>4. CASE file' # file
    <3>1. /\ file'.sqlite \in Readings /\ file'.log = Missing
          /\ \A f \in Files \ Ledger : file'[f] = file[f]
      BY <1>10, <2>4, EffectOfClosing DEF Sound, StoreTyped, RestoreVerifies
    <3>2. file'.wallet = file.wallet
      BY <3>1, NamesOfFiles DEF Ledger
    <3>3. \A w \in file'.sqlite : w[2] = file.wallet
      BY <2>1, <2>2, <3>1, ReadingIsOwned DEF Sound
    <3> QED
      BY <3>1, <3>2, <3>3 DEF Owned, OwnedLog
  <2> QED
    BY <2>3, <2>4
<1> QED
  BY <1>8, <1>9, <1>10

\* Ledgers and wallets stay together.
LEMMA StepKeepsLedger ==
  ASSUME Sound, AloneInv, AloneInv', LogOK, LogOK', LedgerOK, NEW p \in Procs, Step(p), ~torn'
  PROVE  LedgerOK'
<1>1. DOMAIN file = Files /\ "wallet" \in Files
  BY NamesOfFiles DEF Sound, StoreTyped, IsDirectory
<1>2. CASE InitBegins(p) \/ ServeBegins(p) \/ ServeLocks(p) \/ BackupBegins(p) \/ RestoreBegins(p)
  <2>1. file' = file /\ backup' = backup /\ staging' = staging /\ pc[p] \in {"idle", "lock"}
    BY <1>2 DEF InitBegins, ServeBegins, ServeLocks, BackupBegins, RestoreBegins, Begins
  <2>2. pc'[p] # "copy secrets" /\ step'[p] = 1
    BY <1>2 DEF Sound, StoreTyped, InitBegins, ServeBegins, ServeLocks, BackupBegins, RestoreBegins,
                Enter, Goto
  <2> QED
    BY <2>1, <2>2, LedgerKept
<1>3. CASE InitWrites(p)
  <2>1. file'.sqlite = file.sqlite /\ file'.log = file.log
    BY <1>3, LedgerRests DEF Sound, InitStep
  <2>2. /\ backup' = backup /\ staging' = staging /\ pc[p] = "init"
        /\ pc'[p] \in {"init", "failed", "done"}
    BY <1>3, Moves, GoesOn DEF Sound, InitWrites
  <2>3. file'.wallet = file.wallet
    <3>1. step[p] = 1 \/ step[p] = 2 \/ step[p] = 3 \/ step[p] = 4
      BY <2>2 DEF Sound, Prepared, PreparedTo
    <3>2. InitFiles[step[p]] # "wallet"
      BY <3>1 DEF InitFiles
    <3> QED
      BY <1>1, <1>3, <3>2 DEF InitWrites
  <2> QED
    BY <2>1, <2>2, <2>3, LedgerKept
<1>4. CASE ServeLoadsWallet(p)
  <2>1. file'.sqlite = file.sqlite /\ file'.log = file.log
    BY <1>4, LedgerRests DEF Sound
  <2>2. /\ file'.wallet = file.wallet /\ backup' = backup /\ staging' = staging
        /\ pc[p] = "load wallet" /\ pc'[p] \in {"open ledger", "unlock", "write wallet"}
    BY <1>1, <1>4, Moves DEF Sound, ServeLoadsWallet
  <2> QED
    BY <2>1, <2>2, LedgerKept
<1>5. CASE BackupReadsSecrets(p)
  <2>1. file' = file /\ backup' = backup /\ staging' = staging /\ pc[p] = "copy out"
    BY <1>5 DEF BackupReadsSecrets
  <2>2. step[p] # 1
    <3>1. Len(State) = 3
      BY DEF State
    <3>2. PartsOut(p) = State
      BY <1>5 DEF BackupReadsSecrets, PartsOut, StateCopied
    <3>3. step[p] = Len(PartsOut(p)) + 1
      BY <1>5 DEF BackupReadsSecrets
    <3> QED
      BY <3>1, <3>2, <3>3
  <2> QED
    BY <2>1, <2>2, LedgerKept
<1>6. CASE Dies(p)
  <2>1. /\ file' = file /\ backup' = backup /\ staging' = staging /\ pc[p] # "copy in"
        /\ pc'[p] = "dead"
    BY <1>6, Moves DEF Sound, Dies
  <2> QED
    BY <2>1, LedgerKept
<1> QED
  BY <1>2, <1>3, <1>4, <1>5, <1>6, ServingKeepsLedger, BackingUpKeepsLedger, RestoringKeepsLedger
  DEF Step, InitStep, ServeStep, BackupStep, RestoreStep

\* An operator loses the ledger, or keeps it with its wallet.
LEMMA OperatorKeepsLedger ==
  ASSUME Sound, LedgerOK, DirectoryLost \/ ViewingKeyReplaced
  PROVE  LedgerOK'
<1>1. pc' = pc /\ \A q \in Procs : pc[q] \in Resting
  BY OperatorKeepsSound
<1>2. \A q \in Procs : pc'[q] \notin {"copy out", "copy secrets"} /\ pc[q] # "copy in"
  BY <1>1 DEF Resting
<1>3. DOMAIN file = Files /\ backup' = backup
  BY DEF Sound, StoreTyped, IsDirectory, DirectoryLost, ViewingKeyReplaced
<1>4. \/ file'.sqlite = Missing /\ file'.log = Missing
      \/ file'.log = file.log /\ file'.sqlite = file.sqlite /\ file'.wallet = file.wallet
  BY <1>3, NamesOfFiles DEF DirectoryLost, ViewingKeyReplaced
<1>5. Owned(file.sqlite, file.wallet) /\ OwnedLog(file.log, file.wallet)
  BY <1>2 DEF LedgerOK
<1>6. Owned(file'.sqlite, file'.wallet) /\ OwnedLog(file'.log, file'.wallet)
  BY <1>4, <1>5 DEF Owned, OwnedLog
<1> QED
  BY <1>2, <1>3, <1>6 DEF LedgerOK

(***************************************************************************)
(* Theorems                                                                *)
(***************************************************************************)
\* An empty directory, with nobody at work.
LEMMA InitEstablishesStoreInv == ASSUME Init PROVE StoreInv
<1>1. \A p \in Procs : pc[p] = "idle" /\ staging[p] = NoFiles
  BY DEF Init
<1>2. Prepared
  BY <1>1 DEF Prepared, PreparedTo, Restoring, Guarded
<1>3. StoreTyped /\ LockHeld
  BY InitTyped
<1>4. file.config = Missing /\ file.wallet = Missing /\ file.railgun = Missing /\ file.sqlite = Missing
  BY NamesOfFiles DEF Init, NoFiles
<1>5. aside = {} /\ backup = Missing /\ hadLedger = FALSE
  BY DEF Init
<1>6. AloneInv
  <2>1. Alone /\ Unconfigured
    BY <1>1, <1>4, <1>5 DEF Alone, Unconfigured, Offline, Resting
  <2>2. OneInit
    BY <1>1, <1>4, <1>5, NamesOfFiles DEF OneInit, NoFiles, Generated
  <2>3. PairOK /\ BackupOK
    BY <1>4, <1>5 DEF PairOK, BackupOK
  <2>4. \A p \in Procs : InitOK(p) /\ ServeOK(p) /\ CopiedOut(p) /\ Replaced(p)
    BY <1>1 DEF InitOK, ServeOK, CopiedOut, Replaced, Guarded
  <2> QED
    BY <2>1, <2>2, <2>3, <2>4 DEF AloneInv
<1>7. UndisturbedInv
  <2>1. Whole
    BY <1>4, <1>5 DEF Whole
  <2>2. \A p \in Procs : ReadTheSecrets(p) /\ RestoresItsOwn(p)
    BY <1>1 DEF ReadTheSecrets, RestoresItsOwn, Guarded, Restoring
  <2> QED
    BY <2>1, <2>2 DEF UndisturbedInv
<1>8. LogOK /\ LedgerOK
  <2>1. file.log = Missing
    BY NamesOfFiles DEF Init, NoFiles
  <2> QED
    BY <1>1, <1>4, <1>5, <2>1 DEF LogOK, LedgerOK, Owned, OwnedLog
<1> QED
  BY <1>2, <1>3, <1>6, <1>7, <1>8 DEF StoreInv

\* Every step is one of a process or one of the operator.
LEMMA StepsOfTheStore ==
  ASSUME Next
  PROVE  (\E p \in Procs : Step(p)) \/ DirectoryLost \/ ViewingKeyReplaced
BY DEF Next, Step

\* Every step preserves the invariant.
LEMMA NextPreservesStoreInv == ASSUME StoreInv, Next PROVE StoreInv'
<1>1. Sound
  BY DEF StoreInv, Sound
<1>2. CASE \E p \in Procs : Step(p)
  <2>1. PICK p \in Procs : Step(p)
    BY <1>2
  <2>2. Sound' /\ Keeps
    BY <1>1, <2>1, StepKeepsSound, NothingIsTakenBack DEF Sound
  <2>3. ~overlapped' => ~overlapped /\ AloneInv /\ AloneInv'
    BY <1>1, <2>1, <2>2, StepKeepsAlone DEF StoreInv, Keeps
  <2>4. Undisturbed' => UndisturbedInv'
    <3>1. SUFFICES ASSUME ~torn', ~overlapped' PROVE UndisturbedInv'
      BY DEF Undisturbed
    <3>2. UndisturbedInv
      BY <2>2, <3>1 DEF StoreInv, Keeps, Undisturbed
    <3> QED
      BY <1>1, <2>1, <2>3, <3>1, <3>2, StepKeepsUndisturbed
  <2>5. ~overlapped' /\ ~stray' => LogOK /\ LogOK'
    <3>1. SUFFICES ASSUME ~overlapped', ~stray' PROVE LogOK /\ LogOK'
      OBVIOUS
    <3>2. AloneInv /\ AloneInv' /\ LogOK
      BY <2>2, <2>3, <3>1 DEF StoreInv, Keeps
    <3> QED
      BY <1>1, <2>1, <3>1, <3>2, StepKeepsLog
  <2>6. Undisturbed' /\ ~stray' => LedgerOK'
    <3>1. SUFFICES ASSUME ~torn', ~overlapped', ~stray' PROVE LedgerOK'
      BY DEF Undisturbed
    <3>2. LedgerOK
      BY <2>2, <3>1 DEF StoreInv, Keeps, Undisturbed
    <3> QED
      BY <1>1, <2>1, <2>3, <2>5, <3>1, <3>2, StepKeepsLedger
  <2> QED
    BY <2>2, <2>3, <2>4, <2>5, <2>6 DEF StoreInv, Sound
<1>3. CASE DirectoryLost \/ ViewingKeyReplaced
  <2>1. Sound'
    BY <1>1, <1>3, OperatorKeepsSound
  <2>2. overlapped' = overlapped /\ torn' = torn /\ stray' = stray
    BY <1>3 DEF DirectoryLost, ViewingKeyReplaced, History
  <2>3. ~overlapped' => AloneInv'
    BY <1>1, <1>3, <2>2, OperatorAlone DEF StoreInv
  <2>4. Undisturbed' => UndisturbedInv'
    BY <1>1, <1>3, <2>2, OperatorUndisturbed DEF StoreInv, Undisturbed
  <2>5. ~overlapped' /\ ~stray' => LogOK'
    BY <1>1, <1>3, <2>2, OperatorKeepsLog DEF StoreInv
  <2>6. Undisturbed' /\ ~stray' => LedgerOK'
    BY <1>1, <1>3, <2>2, OperatorKeepsLedger DEF StoreInv, Undisturbed
  <2> QED
    BY <2>1, <2>3, <2>4, <2>5, <2>6 DEF StoreInv, Sound
<1> QED
  BY <1>2, <1>3, StepsOfTheStore

\* So does a step that changes nothing.
LEMMA StutterPreservesStoreInv == ASSUME StoreInv, UNCHANGED vars PROVE StoreInv'
<1>1. /\ file' = file /\ aside' = aside /\ backup' = backup /\ staging' = staging /\ lock' = lock
      /\ pc' = pc /\ step' = step /\ option' = option /\ memory' = memory
      /\ (overlapped' <=> overlapped) /\ (torn' <=> torn) /\ (hadLedger' <=> hadLedger) /\ (stray' <=> stray)
  BY DEF vars
<1>2. Sound'
  BY <1>1 DEF StoreInv, Sound, StoreTyped, Prepared, PreparedTo, PartsIn, LockHeld, vars
<1>3. ASSUME AloneInv PROVE AloneInv'
  <2>1. (Alone /\ Unconfigured)'
    BY <1>1, <1>3 DEF AloneInv, Alone, Unconfigured
  <2>2. OneInit'
    BY <1>1, <1>3 DEF AloneInv, OneInit
  <2>3. (PairOK /\ BackupOK)'
    BY <1>1, <1>3 DEF AloneInv, PairOK, BackupOK
  <2>4. Keeps
    BY <1>1 DEF Keeps
  <2>5. ASSUME NEW q \in Procs PROVE Own(q)'
    <3>1. PreparedTo(q) /\ Own(q)
      BY <1>3, <2>5 DEF StoreInv, Prepared, AloneInv, Own
    <3>2. Untouched(q)
      BY <1>1 DEF Untouched
    <3> QED
      BY <1>1, <2>4, <2>5, <3>1, <3>2, OthersWhileFilesRest
  <2> QED
    BY <2>1, <2>2, <2>3, <2>5 DEF AloneInv, Own
<1>4. UndisturbedInv => UndisturbedInv'
  BY <1>1 DEF UndisturbedInv, Whole, AllKeys, NoKeys, ReadTheSecrets, RestoresItsOwn,
     PrintsOf
<1>5. (LogOK => LogOK') /\ (LedgerOK => LedgerOK')
  BY <1>1 DEF LogOK, LedgerOK, Owned, OwnedLog
<1> QED
  BY <1>1, <1>2, <1>3, <1>4, <1>5 DEF StoreInv, Sound, Undisturbed

\* The files of an installation belong together in every reachable state, for any number
\* of commands, deaths and keys (cli.ts, runtime.ts, engine.ts, backup.ts).
THEOREM StoreInvariance == Spec => []StoreInv
<1>1. Init => StoreInv
  BY InitEstablishesStoreInv
<1>2. StoreInv /\ [Next]_vars => StoreInv'
  BY NextPreservesStoreInv, StutterPreservesStoreInv
<1> QED
  BY <1>1, <1>2, PTL DEF Spec

\* A daemon that serves has the wallet of the configured viewing key, opens it with the
\* configured key, and reads a ledger of that wallet alone (engine.ts loadOrCreateWallet,
\* backup.ts restoreBackup), unless a restore has parted a database from its log.
THEOREM DaemonsServeTheirOwn == Spec => []ServesItsOwnState
<1>1. StoreInv => ServesItsOwnState
  <2>1. SUFFICES ASSUME StoreInv, Undisturbed, NEW p \in Procs, pc[p] = "serving"
                 PROVE  /\ file.wallet = file.viewing
                        /\ <<file.viewing, file.dbKey>> \in file.railgun
                        /\ ~stray => \A read \in Readings : \A w \in read : w[2] = file.viewing
    BY DEF ServesItsOwnState
  <2>2. Sound /\ AloneInv /\ UndisturbedInv
    BY <2>1 DEF StoreInv, Sound, Undisturbed
  <2>3. \A q \in Procs : pc[q] \notin Restoring
    BY <2>1, <2>2 DEF AloneInv, Alone, Offline, Restoring, Resting
  <2>4. memory[p] = PrintsOf(file)
    BY <2>1, <2>2, <2>3 DEF UndisturbedInv, ReadTheSecrets, Guarded
  <2>5. memory[p].viewing = file.viewing /\ memory[p].dbKey = file.dbKey
    BY <2>2, <2>4, PrintsTyped DEF Sound, StoreTyped
  <2>6. /\ memory[p].dbKey = file.config /\ file.wallet = memory[p].viewing
        /\ <<memory[p].viewing, file.config>> \in file.railgun /\ file.sqlite # Missing
    BY <2>1, <2>2 DEF AloneInv, ServeOK, Guarded
  <2>7. ASSUME ~stray, NEW read \in Readings PROVE \A w \in read : w[2] = file.wallet
    <3>1. LogOK /\ LedgerOK
      BY <2>1, <2>7 DEF StoreInv, Undisturbed
    <3>2. Owned(file.sqlite, file.wallet) /\ OwnedLog(file.log, file.wallet)
      BY <2>1, <2>2, <3>1, LedgerAtWork DEF Guarded
    <3> QED
      BY <2>2, <2>6, <2>7, <3>1, <3>2, ReadingIsOwned DEF Sound
  <2> QED
    BY <2>5, <2>6, <2>7
<1> QED
  BY <1>1, StoreInvariance, PTL

\* The secrets of a configuration are those of the init that made it (cli.ts init).
THEOREM KeysComeFromOneInit == Spec => []KeysOfOneInit
<1>1. StoreInv => KeysOfOneInit
  <2>1. SUFFICES ASSUME StoreInv, file.config # Missing, Undisturbed,
                        \E s \in Generated : file[s] # Missing,
                        \A p \in Procs : pc[p] # "copy in"
                 PROVE  \A s \in Generated : file[s] = file.config \/ <<s, file.config>> \in aside
    BY DEF KeysOfOneInit
  <2>2. UndisturbedInv
    BY <2>1 DEF StoreInv
  <2>3. ~NoKeys
    BY <2>1 DEF NoKeys
  <2>4. CASE \E p \in Procs : pc[p] = "move"
    BY <2>2, <2>3, <2>4 DEF UndisturbedInv, RestoresItsOwn, Restoring
  <2>5. CASE \A p \in Procs : pc[p] # "move"
    <3>1. Whole
      BY <2>1, <2>2, <2>5 DEF UndisturbedInv, Restoring
    <3> QED
      BY <2>1, <2>3, <3>1 DEF Whole, AllKeys
  <2> QED
    BY <2>4, <2>5
<1> QED
  BY <1>1, StoreInvariance, PTL

\* What a step of a process changes has grown or lies aside.
LEMMA ChangedFilesAreKept ==
  ASSUME Sound, AloneInv, NEW p \in Procs, Step(p), NEW f \in Files,
         f \in Ledger => LogOK, file[f] # Missing, file'[f] # file[f]
  PROVE  Grows(f) \/ <<f, file[f]>> \in aside'
<1>1. DOMAIN file = Files
  BY DEF Sound, StoreTyped, IsDirectory
<1>2. CASE InitWrites(p)
  BY <1>1, <1>2 DEF InitWrites
<1>3. CASE ServeLoadsWallet(p)
  <2>1. PICK ws : file' = [file EXCEPT !.railgun = ws]
    BY <1>3 DEF ServeLoadsWallet
  <2>2. f = "railgun"
    BY <1>1, <2>1
  <2>3. Wallets = file.railgun /\ file.railgun \in SUBSET (Keys \X Procs)
    BY <2>2, FilesOfDirectory DEF Wallets, Sound, StoreTyped
  <2>4. file.wallet = Missing
    BY <1>1, <1>3, <2>2, <2>3, NamesOfFiles DEF ServeLoadsWallet
  <2>5. file'.railgun = {w \in Wallets : w[1] # memory[p].viewing}
                          \cup {<<memory[p].viewing, memory[p].dbKey>>}
    BY <1>1, <1>3, <2>4, NamesOfFiles DEF ServeLoadsWallet
  <2>6. ASSUME NEW w \in file.railgun PROVE \E x \in file'.railgun : x[1] = w[1]
    <3>1. CASE w[1] # memory[p].viewing
      BY <2>3, <2>5, <2>6, <3>1
    <3>2. CASE w[1] = memory[p].viewing
      <4>1. <<memory[p].viewing, memory[p].dbKey>> \in file'.railgun
        BY <2>5
      <4> QED
        BY <3>2, <4>1
    <3> QED
      BY <3>1, <3>2
  <2>7. {w[1] : w \in file.railgun} \subseteq {w[1] : w \in file'.railgun}
    BY <2>6
  <2>8. file'.railgun # Missing
    <3>1. memory[p].viewing \in Keys /\ memory[p].dbKey \in Procs
      BY <1>3 DEF Sound, StoreTyped, Prints, Prepared, PreparedTo, Guarded, ServeLoadsWallet
    <3>2. file'.railgun \in SUBSET (Keys \X Procs)
      BY <2>3, <2>5, <3>1
    <3> QED
      BY <3>2, MissingIsNoContents
  <2> QED
    BY <2>2, <2>7, <2>8 DEF Grows
<1>4. CASE ServeWritesWallet(p)
  BY <1>1, <1>4, NamesOfFiles DEF ServeWritesWallet
<1>5. CASE ServeOpensLedger(p)
  <2>1. f \in Ledger
    BY <1>5, EffectOfOpening DEF Sound, StoreTyped
  <2>2. file.sqlite # Missing
    BY <2>1, OwnLogIsNotForeign DEF Ledger
  <2> QED
    BY <1>5, <2>2, EffectOfOpening DEF Sound, StoreTyped
<1>6. CASE ServeWrites(p)
  <2>1. f \in Ledger /\ file.sqlite # Missing
    BY <1>6, EffectOfWriting DEF Sound, ServeWrites
  <2>2. PICK read \in Readings :
          /\ file'.sqlite \in {file.sqlite, read \cup {<<p, memory[p].viewing>>}}
          /\ file'.log.gives = read \cup {<<p, memory[p].viewing>>}
    BY <1>6, EffectOfWriting DEF Sound
  <2>3. read = IF file.log = Missing THEN file.sqlite ELSE file.log.gives
    BY <2>1, OwnLogIsNotForeign, WhatIsRead DEF Sound, StoreTyped
  <2>4. file.log # Missing => file.sqlite \subseteq file.log.gives
    BY <2>1 DEF LogOK
  <2>5. file.sqlite \subseteq read
    BY <2>3, <2>4
  <2>6. file'.sqlite # Missing /\ file'.log # Missing
    BY <1>6, EffectOfWriting DEF Sound
  <2>7. CASE f = "sqlite"
    BY <2>2, <2>5, <2>6, <2>7 DEF Grows
  <2>8. CASE f = "log"
    BY <2>2, <2>3, <2>6, <2>8 DEF Grows
  <2> QED
    BY <2>1, <2>7, <2>8 DEF Ledger
<1>10. CASE CloseLedger /\ file.sqlite # Missing
  <2>1. f \in Ledger
    BY <1>10, EffectOfClosing DEF Sound, StoreTyped
  <2>2. file'.sqlite = IF file.log = Missing THEN file.sqlite ELSE file.log.gives
    BY <1>10, <2>1, EffectOfClosing, OwnLogIsNotForeign, WhatIsRead DEF Sound, StoreTyped
  <2>3. file'.sqlite # Missing /\ file'.log = Missing
    BY <1>10, EffectOfClosing DEF Sound, StoreTyped
  <2>4. CASE f = "sqlite"
    <3>1. file.log # Missing => file.sqlite \subseteq file.log.gives
      BY <2>1 DEF LogOK
    <3> QED
      BY <2>2, <2>3, <2>4, <3>1 DEF Grows
  <2>5. CASE f = "log"
    BY <2>2, <2>3, <2>5 DEF Grows
  <2> QED
    BY <2>1, <2>4, <2>5 DEF Ledger
<1>7. CASE RestoreMoves(p)
  <2>1. f = PartsIn[step[p]]
    BY <1>7, EffectOfMoving
  <2> QED
    BY <1>7, <2>1, EffectOfMoving
<1>8. CASE RestoreCopies(p)
  <2>1. f = PartsIn[step[p]]
    BY <1>8, EffectOfCopying
  <2>2. step[p] \in 1..Len(PartsIn)
    BY <1>8 DEF Sound, Prepared, PreparedTo, Restoring, RestoreCopies
  <2>3. ~(step[p] < step[p])
    <3>1. step[p] \in Nat
      BY DEF Sound, StoreTyped
    <3> QED
      BY <3>1
  <2>4. file[PartsIn[step[p]]] = Missing
    BY <1>8, <2>2, <2>3 DEF AloneInv, Replaced, RestoreCopies
  <2> QED
    BY <2>1, <2>4
<1>9. CASE file' = file
  BY <1>9
<1>11. CASE ServeEnds(p)
  BY <1>9, <1>10, <1>11 DEF ServeEnds
<1>12. CASE RestoreVerifies(p)
  <2>1. file.sqlite # Missing
    BY <1>12, RestoredLedger DEF RestoreVerifies
  <2> QED
    BY <1>9, <1>10, <1>12, <2>1 DEF RestoreVerifies
<1> QED
  BY <1>2, <1>3, <1>4, <1>5, <1>6, <1>7, <1>8, <1>9, <1>11, <1>12
  DEF Step, InitStep, InitBegins, ServeStep, ServeBegins, ServeLocks, BackupStep,
      BackupBegins, BackupCopies, BackupReadsSecrets, BackupPublishes, RestoreStep, RestoreBegins,
      Dies

\* Commands lose nothing: a file that goes away or changes has grown or lies aside, and a
\* daemon begins with an empty ledger only where there never was one (backup.ts, database.ts);
\* database and log are exempt once a restore has parted them.
THEOREM CommandsLoseNothing == Spec => NothingIsLost
<1>1. StoreInv /\ [Next]_vars =>
        [~overlapped' /\ ~DirectoryLost /\ ~ViewingKeyReplaced =>
           \A f \in (IF stray' THEN Files \ Ledger ELSE Files) : file[f] # Missing /\ file'[f] # file[f] =>
             Grows(f) \/ <<f, file[f]>> \in aside']_vars
  <2>1. SUFFICES ASSUME StoreInv, Next, ~overlapped', ~DirectoryLost, ~ViewingKeyReplaced,
                        NEW f \in (IF stray' THEN Files \ Ledger ELSE Files),
                        file[f] # Missing, file'[f] # file[f]
                 PROVE  Grows(f) \/ <<f, file[f]>> \in aside'
    OBVIOUS
  <2>2. PICK p \in Procs : Step(p)
    BY <2>1, StepsOfTheStore
  <2>3. Sound /\ AloneInv
    BY <2>1, <2>2, NothingIsTakenBack DEF StoreInv, Sound, Keeps
  <2>4. f \in Files /\ (f \in Ledger => LogOK)
    BY <2>1, <2>2, <2>3, NothingIsTakenBack DEF StoreInv, Keeps
  <2> QED
    BY <2>1, <2>2, <2>3, <2>4, ChangedFilesAreKept
<1>2. StoreInv /\ [Next]_vars =>
        [Undisturbed /\ (\E p \in Procs : ServeOpensLedger(p)) /\ file.sqlite = Missing
           => ~hadLedger]_vars
  <2>1. SUFFICES ASSUME StoreInv, Undisturbed, NEW p \in Procs, ServeOpensLedger(p),
                        file.sqlite = Missing
                 PROVE  ~hadLedger
    OBVIOUS
  <2>2. AloneInv /\ UndisturbedInv
    BY <2>1 DEF StoreInv, Undisturbed
  <2>3. \A q \in Procs : pc[q] \notin Restoring
    BY <2>1, <2>2 DEF AloneInv, Alone, Offline, Restoring, Resting, ServeOpensLedger
  <2> QED
    BY <2>1, <2>2, <2>3 DEF UndisturbedInv, Whole
<1> QED
  BY <1>1, <1>2, StoreInvariance, PTL
  DEF Spec, NothingIsLost, NothingIsDestroyed, StartsEmptyOnlyWhenNew

\* What a restore that succeeds leaves can be opened by the secrets that are there, and the
\* database is the backup's unless a log lay beside the one it replaced (backup.ts
\* restoreBackup, createBackup).
THEOREM RestoresCanBeOpened == Spec => RestoredDirectoryOpens
<1>1. StoreInv /\ [Next]_vars =>
        [\A p \in Procs :
           /\ pc[p] = "verify" /\ pc'[p] = "done" /\ ~overlapped
           /\ backup.files.wallet = backup.prints.viewing \/ backup.files.wallet = Missing
           => /\ file.wallet = file.viewing
              /\ <<file.wallet, file.dbKey>> \in file.railgun
              /\ ~stray => file'.sqlite = backup.files.sqlite /\ file'.log = Missing]_vars
  <2>1. SUFFICES ASSUME StoreInv, Next, NEW p \in Procs, pc[p] = "verify", pc'[p] = "done", ~overlapped,
                        backup.files.wallet = backup.prints.viewing \/ backup.files.wallet = Missing
                 PROVE  /\ file.wallet = file.viewing
                        /\ <<file.wallet, file.dbKey>> \in file.railgun
                        /\ ~stray => file'.sqlite = backup.files.sqlite /\ file'.log = Missing
    OBVIOUS
  <2>2. Sound /\ AloneInv
    BY <2>1 DEF StoreInv, Sound
  <2>3. RestoreVerifies(p)
    <3>1. ~DirectoryLost /\ ~ViewingKeyReplaced
      BY <2>1 DEF DirectoryLost, ViewingKeyReplaced
    <3>2. PICK q \in Procs : Step(q)
      BY <2>1, <3>1, StepsOfTheStore
    <3>3. q = p
      BY <2>1, <2>2, <3>2, OneProcessMoves DEF Sound, Untouched
    <3>4. ~Dies(p)
      BY <2>1, <2>2, Moves DEF Sound, Dies
    <3> QED
      BY <2>1, <3>2, <3>3, <3>4
      DEF Step, InitStep, InitBegins, InitWrites, ServeStep, ServeBegins, ServeLocks, ServeLoadsWallet,
          ServeWritesWallet, ServeOpensLedger, ServeWrites, ServeEnds, BackupStep, BackupBegins,
          BackupCopies, BackupReadsSecrets, BackupPublishes, RestoreStep, RestoreBegins, RestoreMoves,
          RestoreCopies, Begins
  <2>4. SecretsMatch /\ CloseLedger
    BY <2>1, <2>2, <2>3, Moves DEF Sound, RestoreVerifies
  <2>5. backup # Missing
    BY <2>1, <2>2 DEF Sound, Prepared, PreparedTo
  <2>6. file.viewing = backup.prints.viewing /\ file.dbKey = backup.prints.dbKey
    BY <2>2, <2>4, PrintsTyped DEF SecretsMatch, Sound, StoreTyped
  <2>7. /\ file.sqlite = backup.files.sqlite /\ file.railgun = backup.files.railgun
        /\ file.wallet = backup.files.wallet
    <3>1. Len(PartsIn) \in {3, 7}
      BY <2>2, <2>5, PartsAreFiles DEF Sound
    <3>2. 1 \in 1..Len(PartsIn) /\ 2 \in 1..Len(PartsIn) /\ 3 \in 1..Len(PartsIn)
      <4>1. \A n \in {3, 7} : 1 \in 1..n /\ 2 \in 1..n /\ 3 \in 1..n
        OBVIOUS
      <4> QED
        BY <3>1, <4>1
    <3>3. \A j \in 1..Len(PartsIn) : file[PartsIn[j]] = backup.files[PartsIn[j]]
      BY <2>1, <2>2 DEF AloneInv, Replaced
    <3> QED
      BY <3>2, <3>3, PartsOfRestore
  <2>8. /\ backup.files.wallet # Missing
        /\ <<backup.files.wallet, backup.prints.dbKey>> \in backup.files.railgun
    BY <2>2, <2>5, NamesOfFiles DEF AloneInv, BackupOK
  <2>9. ASSUME ~stray PROVE file'.sqlite = backup.files.sqlite /\ file'.log = Missing
    <3>1. LogOK
      BY <2>1, <2>9 DEF StoreInv
    <3>2. file.log = Missing
      BY <2>1, <3>1 DEF LogOK
    <3>3. file.sqlite # Missing
      BY <2>1, <2>2, RestoredLedger
    <3> QED
      BY <2>2, <2>4, <2>7, <3>1, <3>2, <3>3, EffectOfClosing, WhatIsRead, OwnLogIsNotForeign
      DEF Sound, StoreTyped
  <2> QED
    BY <2>1, <2>6, <2>7, <2>8, <2>9
<1> QED
  BY <1>1, StoreInvariance, PTL DEF Spec, RestoredDirectoryOpens
===============================================================================
