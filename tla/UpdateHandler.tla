---------------------------- MODULE UpdateHandler ----------------------------
(***************************************************************************)
(* The update handler (src/core/update/update_handle): a program the       *)
(* daemon starts to install a package (-p) or to roll back (-r), its       *)
(* backups, the files it replaces and the status file it shares with the   *)
(* daemon.  A started handler occupies a slot of job until the daemon has  *)
(* reaped it; a second one may run beside it, so a slot stands for a       *)
(* process.  Supervisor.tla adds the daemon that starts and reaps them.    *)
(*                                                                         *)
(* A file is present in some version or Missing: copyFile removes the old  *)
(* file before it copies the new one.  The manifest names every file of    *)
(* Files and asks for a backup of each; the manifest of a rollback package *)
(* asks for none.                                                          *)
(***************************************************************************)
EXTENDS Integers

CONSTANTS FileCount,    \* files a package replaces
          VersionLimit, \* versions there are packages of
          JobLimit      \* bound: handlers that exist at once

ASSUME FilesAssumption == FileCount \in Nat \ {0}
ASSUME VersionAssumption == VersionLimit \in Nat
ASSUME JobAssumption == JobLimit \in Nat \ {0}

VARIABLES
    files,      \* the installed files
    backup,     \* the newest backup directory
    status,     \* update_status.flag
    job,        \* the update handlers, by slot
    replaced,   \* ghost: the files the last update package replaced
    overlapped  \* ghost: a handler was started while another was at work, or
                \* while an update that waited for its own had been accepted

handlerVars == <<files, backup, status, job, replaced, overlapped>>

Files == 1 .. FileCount
Versions == 0 .. VersionLimit
Missing == -1
Slots == 1 .. JobLimit

\* What a package holds: a version of some of the files.
Packages == UNION {[S -> Versions] : S \in SUBSET Files}
EmptyPackage == [f \in {} |-> 0]

Running == {"started", "verifying", "backup", "packing", "install",
            "succeeded", "failed"}
Steps == Running \cup {"none", "exit0", "exit1"}

Jobs == [op : {"update", "rollback"}, step : Steps, package : Packages,
         todo : SUBSET Files, ok : BOOLEAN]

NoJob == [op |-> "update", step |-> "none", package |-> EmptyPackage,
          todo |-> {}, ok |-> TRUE]

NewJob(op, package) == [NoJob EXCEPT !.op = op, !.step = "started",
                                     !.package = package]

HandlerTypeOK ==
    /\ files \in [Files -> Versions \cup {Missing}]
    /\ backup \in [dir : {"none", "bare", "packed"}, package : Packages]
    /\ status \in {"none", "UPDATING", "UPDATED", "ERROR"}
    /\ job \in [Slots -> Jobs]
    /\ replaced \in [Files -> Versions \cup {Missing}]
    /\ overlapped \in BOOLEAN

HandlerInit ==
    /\ files = [f \in Files |-> 0]
    /\ backup = [dir |-> "none", package |-> EmptyPackage]
    /\ status = "none"
    /\ job = [h \in Slots |-> NoJob]
    /\ replaced = [f \in Files |-> 0]
    /\ overlapped = FALSE

----------------------------------------------------------------------------
\* What a backup of the installed files holds: a missing file is skipped.
BackupOf(fs) == [f \in {g \in Files : fs[g] # Missing} |-> fs[f]]

\* mutant: the manifest's backup flags are not copied as false
BackupInAnyCase(op) == BackupOf(files)

\* executeBackup: nothing is copied for a rollback, whose files ask for none.
BackupFor(op) == IF op = "update" THEN BackupOf(files) ELSE EmptyPackage

\* The rollback package is there and its manifest names a file.
CanRollBack == backup.dir = "packed" /\ DOMAIN backup.package # {}

\* The file being replaced: the next of the manifest, in whatever order it is.
Current(h) == CHOOSE f \in job[h].todo : TRUE

Move(h, step) == job' = [job EXCEPT ![h].step = step]

\* run(): the operation failed; the window stays open for the operator.
Fail(h) ==
    /\ Move(h, "failed")
    /\ status' = "ERROR"

----------------------------------------------------------------------------
\* mutant: the status file is left to the daemon
OpenSilently(h) ==
    /\ job[h].step = "started"
    /\ Move(h, "verifying")
    /\ UNCHANGED <<files, backup, status, replaced, overlapped>>

\* run(): the handler takes over the status file.
OpenStatus(h) ==
    /\ job[h].step = "started"
    /\ Move(h, "verifying")
    /\ status' = "UPDATING"
    /\ UNCHANGED <<files, backup, replaced, overlapped>>

\* performRollback picks the newest backup; performUpdate checks the package,
\* its checksums, its manifest and the disk.
VerifyPackage(h) ==
    /\ job[h].step = "verifying"
    /\ job[h].op = "rollback" => CanRollBack
    /\ job' = [job EXCEPT
            ![h].step = "backup",
            ![h].package = IF job[h].op = "rollback" THEN backup.package
                                                     ELSE job[h].package]
    /\ UNCHANGED <<files, backup, status, replaced, overlapped>>

\* createBackupDir: the newest backup directory has no rollback package yet.
CreateBackupDir(h) ==
    /\ job[h].step = "backup"
    /\ backup' = [dir |-> "bare", package |-> EmptyPackage]
    /\ Move(h, "packing")
    /\ UNCHANGED <<files, status, replaced, overlapped>>

\* executeBackup and generateRollbackPackage; cleanupOldBackups keeps the newest.
PackBackup(h) ==
    /\ job[h].step = "packing"
    /\ backup' = [dir |-> "packed", package |-> BackupFor(job[h].op)]
    /\ job' = [job EXCEPT ![h].step = "install",
                          ![h].todo = DOMAIN job[h].package]
    /\ replaced' = IF job[h].op = "update" THEN files ELSE replaced
    /\ UNCHANGED <<files, status, overlapped>>

\* A check or the backup fails: nothing has been replaced.
Refuse(h) ==
    /\ job[h].step \in {"verifying", "backup", "packing"}
    /\ Fail(h)
    /\ UNCHANGED <<files, backup, replaced, overlapped>>

\* copyFile: an existing destination is removed first.
RemoveOld(h) ==
    /\ job[h].step = "install" /\ job[h].todo # {}
    /\ files[Current(h)] # Missing
    /\ files' = [files EXCEPT ![Current(h)] = Missing]
    /\ UNCHANGED <<backup, status, job, replaced, overlapped>>

\* copyFile: the new file is copied.
CopyNew(h) ==
    /\ job[h].step = "install" /\ job[h].todo # {}
    /\ files[Current(h)] = Missing
    /\ files' = [files EXCEPT ![Current(h)] = job[h].package[Current(h)]]
    /\ job' = [job EXCEPT ![h].todo = job[h].todo \ {Current(h)}]
    /\ UNCHANGED <<backup, status, replaced, overlapped>>

\* executeFileUpdate: a file that fails is listed, the next one is tried.
SkipFile(h) ==
    /\ job[h].step = "install" /\ job[h].todo # {}
    /\ job' = [job EXCEPT ![h].todo = job[h].todo \ {Current(h)}, ![h].ok = FALSE]
    /\ UNCHANGED <<files, backup, status, replaced, overlapped>>

\* Every file was copied and the commands after the update succeeded.
Succeed(h) ==
    /\ job[h].step = "install" /\ job[h].todo = {} /\ job[h].ok
    /\ Move(h, "succeeded")
    /\ status' = "UPDATED"
    /\ UNCHANGED <<files, backup, replaced, overlapped>>

\* A file failed, or a command after the update did.
FailInstall(h) ==
    /\ job[h].step = "install" /\ job[h].todo = {}
    /\ Fail(h)
    /\ UNCHANGED <<files, backup, replaced, overlapped>>

\* onRollbackClicked: the window of a failed update starts a rollback itself.
RollbackClicked(h) ==
    /\ job[h].step = "failed" /\ job[h].op = "update"
    /\ job' = [job EXCEPT ![h] = NewJob("rollback", EmptyPackage)]
    /\ UNCHANGED <<files, backup, status, replaced, overlapped>>

\* The window closes, by itself after a success, by the operator after a
\* failure; app.exec() returns 0 either way.
CloseWindow(h) ==
    /\ job[h].step \in {"succeeded", "failed"}
    /\ Move(h, "exit0")
    /\ UNCHANGED <<files, backup, status, replaced, overlapped>>

\* The handler is killed or crashes.
Crash(h) ==
    /\ job[h].step \in Running
    /\ Move(h, "exit1")
    /\ UNCHANGED <<files, backup, status, replaced, overlapped>>

\* What a handler does without being disturbed.
Work(h) ==
    \/ OpenStatus(h) \/ VerifyPackage(h) \/ CreateBackupDir(h) \/ PackBackup(h)
    \/ Refuse(h)
    \/ RemoveOld(h) \/ CopyNew(h) \/ SkipFile(h)
    \/ Succeed(h) \/ FailInstall(h)
    \/ RollbackClicked(h) \/ CloseWindow(h)

----------------------------------------------------------------------------
\* The daemon forks a handler; current is the slot of m_updateProcessPid, whose
\* exited process is forgotten with its number.
Fork(h, current, op, package) ==
    LET freed == {g \in Slots : g = current /\ job[g].step \notin Running} IN
    /\ job[h].step = "none" \/ h \in freed
    /\ job' = [g \in Slots |-> IF g = h THEN NewJob(op, package)
                               ELSE IF g \in freed THEN NoJob ELSE job[g]]
    /\ UNCHANGED <<files, backup, replaced>>

HandlerAtWork == \E h \in Slots : job[h].step \in Running

\* waitpid has taken the exit status of the handler in slot h.
Reap(h) == job' = [job EXCEPT ![h] = NoJob]

\* A handler is at work on the files, and no two have ever been started at once.
Alone(h) == ~overlapped /\ job[h].step = "install"

\* What was there before the last update is there again.
Restored == \A f \in Files : replaced[f] # Missing => files[f] = replaced[f]

\* A rollback that reports success has put back every file the last update
\* package replaced (mainwindow.cpp: "back to the state before the update"),
\* whatever was interrupted in between.
RollbackRestores ==
    [][\A h \in Slots :
         (/\ job[h].op = "rollback" /\ job[h].step = "install"
          /\ job'[h].step = "succeeded" /\ ~overlapped) => Restored]_handlerVars

\* Whoever finds a handler's files half replaced after a power cut finds
\* UPDATING in the status file: doInitialize rolls back on nothing else.
InstallIsRecorded == \A h \in Slots : Alone(h) => status = "UPDATING"
=============================================================================
